---------------------------- MODULE MountChildren ----------------------------
(***************************************************************************)
(* The parent side of a mount request in the daemon: daemon_mount.rs       *)
(* (execute_mount_request, handle_parent_process), the reclaim of children *)
(* that cannot be killed (daemon_mount_reclaim.rs), the intent record of a *)
(* request (mount_intent.rs) and the sweep over all state files when the   *)
(* module is stopped.                                                      *)
(*                                                                         *)
(* Requests run one at a time, on the thread of the reconcile loop.  What  *)
(* a child does inside the mount namespace is the subject of module        *)
(* MountRecovery; here it answers, dies, or falls asleep in the kernel,    *)
(* where no signal reaches it.  Time is a number of ticks: an entry of the *)
(* reclaim list carries the ticks it still counts for the breaker.         *)
(***************************************************************************)
EXTENDS Integers, Sequences, FiniteSets

CONSTANTS Apps,        \* packages, one process each
          MaxStuck,    \* MAX_STUCK_MOUNT_CHILDREN
          MaxTotal,    \* MAX_TOTAL_STUCK_MOUNT_CHILDREN
          MaxTracked,  \* MAX_TRACKED_STUCK_MOUNT_CHILDREN
          Window,      \* STUCK_MOUNT_CHILD_BLOCK_WINDOW_MS in ticks
          Primary,     \* PARENT_RECV_TIMEOUT_SEC in ticks
          Grace,       \* PARENT_RECV_GRACE_TIMEOUT_SEC in ticks
          MaxStarts,   \* bound: instances of the process of an application
          MaxCrashes   \* bound: restarts of the daemon

VARIABLES pc,        \* where execute_mount_request stands
          cur,       \* the request it executes
          child,     \* the forked child as the kernel sees it
          result,    \* what the child has put on the socket
          timer,     \* ticks left of the receive timeout
          stuck,     \* STUCK_MOUNT_CHILDREN, oldest first
          intent,    \* intent file of every application
          file,      \* instance the state file of an application is of, or 0
          alive,     \* running instance of an application, or 0
          started,   \* instances started so far
          sweep,     \* state files cleanup_all_mount_states has still to see
          allOk,     \* its all_ok
          interrupted, \* applications whose request a daemon crash cut off
          crashes

cvars == <<pc, cur, child, result, timer>>
svars == <<sweep, allOk>>
avars == <<alive, started>>
vars == <<pc, cur, child, result, timer, stuck, intent, file, alive, started,
          sweep, allOk, interrupted, crashes>>

NoIntent == [state |-> "none", start |-> 0]
Idle == [app |-> "none", op |-> "none"]

TypeOK ==
  /\ pc \in {"idle", "wait", "grace", "reap", "sweep"}
  /\ cur \in {Idle} \cup [app : Apps, op : {"reload", "disable"}]
  /\ pc \in {"wait", "grace", "reap"} <=> cur # Idle
  /\ child \in {"none", "working", "asleep", "dead"}
  /\ result \in {"none", "ok", "fail"}
  /\ timer \in 0..(Primary + Grace)
  /\ stuck \in Seq([app : Apps, left : 0..Window, gone : BOOLEAN])
  /\ intent \in [Apps -> [state : {"none", "applying", "mounted", "failed",
                                   "disabled"}, start : 0..MaxStarts]]
  /\ file \in [Apps -> 0..MaxStarts]
  /\ alive \in [Apps -> 0..MaxStarts]
  /\ sweep \subseteq Apps
  /\ interrupted \subseteq Apps

Init ==
  /\ pc = "idle" /\ cur = Idle /\ child = "none" /\ result = "none" /\ timer = 0
  /\ stuck = <<>>
  /\ intent = [a \in Apps |-> NoIntent]
  /\ file = [a \in Apps |-> 0]
  /\ alive = [a \in Apps |-> 1]
  /\ started = [a \in Apps |-> 1]
  /\ sweep = {} /\ allOk = TRUE
  /\ interrupted = {} /\ crashes = 0

-----------------------------------------------------------------------------
(* The reclaim list *)

\* Entries that still count for the breaker.
Counts(e) == e.left > 0
CountsFor(a) == Len(SelectSeq(stuck, LAMBDA e : Counts(e) /\ e.app = a))
Counted(s) == Len(SelectSeq(s, Counts))

\* Over the limit the earliest entries are given up.
Drain(s) ==
  IF Len(s) > MaxTracked
  THEN SubSeq(s, Len(s) - MaxTracked + 1, Len(s))
  ELSE s

\* Children that have ended are waited for; the others are killed again and
\* stay in the list.
Pruned == Drain(SelectSeq(stuck, LAMBDA e : ~e.gone))

\* The window is not looked at: an entry counts until it is reaped.
SkipForStuckForGood(a, s) ==
  \/ Len(SelectSeq(s, LAMBDA e : e.app = a)) > MaxStuck
  \/ Len(s) > MaxTotal

\* The breaker, over the list prune has just left.
SkipForStuck(a, s) ==
  \/ Len(SelectSeq(s, LAMBDA e : Counts(e) /\ e.app = a)) > MaxStuck
  \/ Counted(s) > MaxTotal

-----------------------------------------------------------------------------
(* The intent record *)

\* The record carries the start time the process has when it is written: none
\* if it is gone.
Mark(a, state) == [intent EXCEPT ![a] = [state |-> state, start |-> alive[a]]]

FinalState(op, ok) ==
  IF op = "disable" THEN "disabled" ELSE IF ok THEN "mounted" ELSE "failed"

\* What the record says once the breaker has refused the request.
RefusedState(op) == "failed"

\* prune_stale: records of processes that are gone.
PruneIntents ==
  /\ pc = "idle"
  /\ \E a \in Apps : intent[a] # NoIntent /\ intent[a].start # alive[a]
  /\ intent' = [a \in Apps |->
                  IF alive[a] # 0 /\ intent[a].start = alive[a]
                  THEN intent[a] ELSE NoIntent]
  /\ interrupted' = {a \in interrupted : intent'[a] # NoIntent}
  /\ UNCHANGED <<cvars, svars, avars, stuck, file, crashes>>

-----------------------------------------------------------------------------
(* A request *)

\* execute_mount_request up to the fork; a refused request returns at once,
\* with refused saying what that does to the caller.
Execute(a, op, refused) ==
  /\ stuck' = Pruned
  /\ interrupted' = interrupted \ {a}
  /\ IF SkipForStuck(a, Pruned)
     THEN /\ intent' = Mark(a, RefusedState(op))
          /\ refused
          /\ UNCHANGED <<cvars>>
     ELSE /\ intent' = Mark(a, IF op = "disable" THEN "disabled" ELSE "applying")
          /\ pc' = "wait"
          /\ cur' = [app |-> a, op |-> op]
          /\ child' = "working"
          /\ result' = "none"
          /\ timer' = Primary
          /\ UNCHANGED <<svars>>

\* A plan of the reconcile loop; an application is disabled only while it has
\* a state file.
Request(a, op) ==
  /\ pc = "idle"
  /\ alive[a] # 0
  /\ op = "disable" => file[a] # 0
  /\ Execute(a, op, UNCHANGED <<svars>>)
  /\ UNCHANGED <<avars, file, crashes>>

\* Where the loop goes on once a request has returned.
Resume == IF sweep # {} THEN "sweep" ELSE "idle"

\* A failing request does not count against the sweep.
ConcludeAnyway(ok) ==
  /\ intent' = Mark(cur.app, FinalState(cur.op, ok))
  /\ pc' = Resume
  /\ cur' = Idle
  /\ child' = "none"
  /\ result' = "none"
  /\ timer' = 0
  /\ sweep' = sweep \ {cur.app}
  /\ UNCHANGED allOk

\* execute_mount_request from the return of the parent process on.
Conclude(ok) ==
  /\ intent' = Mark(cur.app, FinalState(cur.op, ok))
  /\ pc' = Resume
  /\ cur' = Idle
  /\ child' = "none"
  /\ result' = "none"
  /\ timer' = 0
  /\ sweep' = sweep \ {cur.app}
  /\ allOk' = (allOk /\ (ok \/ sweep = {}))

\* An answer arrives in time, first or second: the child is waited for.
Answered ==
  /\ pc \in {"wait", "grace"}
  /\ result # "none"
  /\ Conclude(result = "ok")
  /\ UNCHANGED <<avars, stuck, file, interrupted, crashes>>

\* A receive ends without an answer: its time is over, or the child is dead.
Silent == result = "none" /\ (timer = 0 \/ child = "dead")

\* SIGTERM and a second, shorter wait.
PrimaryTimeout ==
  /\ pc = "wait"
  /\ Silent
  /\ pc' = "grace"
  /\ timer' = Grace
  /\ UNCHANGED <<cur, child, result, stuck, intent, file, avars, svars,
                 interrupted, crashes>>

\* SIGKILL: only a child asleep in the kernel outlives it.
GraceTimeout ==
  /\ pc = "grace"
  /\ Silent
  /\ pc' = "reap"
  /\ child' = IF child = "asleep" THEN "asleep" ELSE "dead"
  /\ UNCHANGED <<cur, result, timer, stuck, intent, file, avars, svars,
                 interrupted, crashes>>

\* The entry remember_stuck_mount_child pushes.
Remembered(a) == Append(stuck, [app |-> a, left |-> Window, gone |-> FALSE])

\* reap_child with its short wait; what is left is remembered.
Reap ==
  /\ pc = "reap"
  /\ stuck' = IF child = "dead" THEN stuck ELSE Remembered(cur.app)
  /\ Conclude(FALSE)
  /\ UNCHANGED <<avars, file, interrupted, crashes>>

-----------------------------------------------------------------------------
(* The child *)

\* What a child that succeeds leaves of the state file.
FileAfter == IF cur.op = "disable" THEN 0 ELSE alive[cur.app]

ChildAnswers(r) ==
  /\ child = "working" /\ pc \in {"wait", "grace"}
  /\ r = "ok" => alive[cur.app] # 0
  /\ result' = r
  /\ child' = "dead"
  /\ file' = IF r = "ok" THEN [file EXCEPT ![cur.app] = FileAfter] ELSE file
  /\ UNCHANGED <<pc, cur, timer, stuck, intent, avars, svars, interrupted, crashes>>

ChildSleeps ==
  /\ child = "working"
  /\ child' = "asleep"
  /\ UNCHANGED <<pc, cur, result, timer, stuck, intent, file, avars, svars,
                 interrupted, crashes>>

\* It goes on, or the signal that was waiting for it ends it.
ChildWakes ==
  /\ child = "asleep"
  /\ child' \in (IF pc = "wait" THEN {"working", "dead"} ELSE {"dead"})
  /\ UNCHANGED <<pc, cur, result, timer, stuck, intent, file, avars, svars,
                 interrupted, crashes>>

ChildDies ==
  /\ child = "working"
  /\ child' = "dead"
  /\ UNCHANGED <<pc, cur, result, timer, stuck, intent, file, avars, svars,
                 interrupted, crashes>>

\* A child of the reclaim list wakes up, and ends.
StuckWakes ==
  /\ \E i \in DOMAIN stuck :
       ~stuck[i].gone /\ stuck' = [stuck EXCEPT ![i].gone = TRUE]
  /\ UNCHANGED <<cvars, svars, avars, intent, file, interrupted, crashes>>

-----------------------------------------------------------------------------
(* The sweep at a stop of the module *)

\* The process a state file is of still runs.
Instance(a) == alive[a] # 0 /\ alive[a] = file[a]

SweepBegins ==
  /\ pc = "idle"
  /\ \E a \in Apps : file[a] # 0
  /\ sweep' = {a \in Apps : file[a] # 0}
  /\ allOk' = TRUE
  /\ pc' = "sweep"
  /\ UNCHANGED <<cur, child, result, timer, stuck, intent, file, avars,
                 interrupted, crashes>>

\* One state file.  It cannot be read; or the process is alive and is asked to give
\* its mounts back; or it is gone.  Of one that is gone a recorded host child may
\* resist; otherwise the file is removed, and whether that worked is not asked.
SweepNext(a) ==
  /\ pc = "sweep" /\ a \in sweep
  /\ \/ sweep' = sweep \ {a} /\ allOk' = FALSE
        /\ UNCHANGED <<cvars, stuck, intent, interrupted, file>>
     \/ /\ Instance(a)
        /\ Execute(a, "disable", /\ sweep' = sweep \ {a}
                                 /\ allOk' = FALSE)
        /\ UNCHANGED file
     \/ /\ ~Instance(a)
        /\ \E left \in {0, file[a]} : file' = [file EXCEPT ![a] = left]
        /\ sweep' = sweep \ {a}
        /\ UNCHANGED <<cvars, allOk, stuck, intent, interrupted>>
  /\ UNCHANGED <<avars, crashes>>

\* The daemon exits with its list; the next one is started when the module is
\* switched on again.
SweepEnds ==
  /\ pc = "sweep" /\ sweep = {}
  /\ pc' = "idle"
  /\ stuck' = <<>>
  /\ UNCHANGED <<cur, child, result, timer, intent, file, avars, svars,
                 interrupted, crashes>>

-----------------------------------------------------------------------------
(* The rest of the system *)

\* The saturating subtraction that measures an age.
Aged(n) == IF n > 0 THEN n - 1 ELSE 0

Tick ==
  /\ timer > 0 \/ \E i \in DOMAIN stuck : stuck[i].left > 0
  /\ timer' = IF timer > 0 THEN timer - 1 ELSE 0
  /\ stuck' = [i \in DOMAIN stuck |-> [stuck[i] EXCEPT !.left = Aged(@)]]
  /\ UNCHANGED <<pc, cur, child, result, intent, file, avars, svars,
                 interrupted, crashes>>

AppDies(a) ==
  /\ alive[a] # 0 /\ started[a] < MaxStarts
  /\ alive' = [alive EXCEPT ![a] = 0]
  /\ UNCHANGED <<cvars, svars, stuck, intent, file, started, interrupted, crashes>>

AppStarts(a) ==
  /\ alive[a] = 0
  /\ started' = [started EXCEPT ![a] = @ + 1]
  /\ alive' = [alive EXCEPT ![a] = started'[a]]
  /\ UNCHANGED <<cvars, svars, stuck, intent, file, interrupted, crashes>>

\* The daemon is killed and started again: its children become those of init
\* and the list starts empty.
Crash ==
  /\ crashes < MaxCrashes
  /\ crashes' = crashes + 1
  /\ interrupted' = IF cur = Idle THEN interrupted ELSE interrupted \cup {cur.app}
  /\ pc' = "idle" /\ cur' = Idle /\ child' = "none" /\ result' = "none" /\ timer' = 0
  /\ stuck' = <<>>
  /\ sweep' = {} /\ allOk' = TRUE
  /\ UNCHANGED <<intent, file, avars>>

Next ==
  \/ \E a \in Apps : \/ \E op \in {"reload", "disable"} : Request(a, op)
                     \/ SweepNext(a) \/ AppDies(a) \/ AppStarts(a)
  \/ \E r \in {"ok", "fail"} : ChildAnswers(r)
  \/ Answered \/ PrimaryTimeout \/ GraceTimeout \/ Reap
  \/ ChildSleeps \/ ChildWakes \/ ChildDies \/ StuckWakes
  \/ SweepBegins \/ SweepEnds \/ PruneIntents
  \/ Tick \/ Crash

Spec == Init /\ [][Next]_vars

\* Time passes, the daemon goes on with a request it has begun, and the
\* reconcile loop comes back to every application.
Fairness ==
  /\ WF_vars(Tick)
  /\ WF_vars(Answered) /\ WF_vars(PrimaryTimeout) /\ WF_vars(GraceTimeout)
  /\ WF_vars(Reap) /\ WF_vars(SweepEnds)
  /\ \A a \in Apps : /\ SF_vars(Request(a, "reload"))
                     /\ WF_vars(SweepNext(a))

LiveSpec == Spec /\ Fairness

-----------------------------------------------------------------------------
(* Properties *)

\* Children that no signal reaches pile up only so far: a refused application
\* adds none, and because every one costs the loop two full timeouts, the
\* valve over all applications is never what stops a request.
StuckBounded ==
  /\ \A a \in Apps : CountsFor(a) <= MaxStuck + 1
  /\ Counted(stuck) <= MaxTotal
  /\ Len(stuck) <= MaxTracked + 1

\* What the list gives up when it is full no longer counts for the breaker
\* (daemon_mount_reclaim.rs, comment in prune_stuck_mount_children), so that
\* giving it up does not admit a request.
DroppedWasOut ==
  [][Len(stuck') < Len(stuck) /\ stuck' # <<>> =>
       LET Pending(e) == ~e.gone /\ Counts(e)
       IN SelectSeq(stuck', Pending) = SelectSeq(stuck, Pending)]_vars

\* Every way out of a request writes its outcome: a record says "applying"
\* only while the request is executed, or if the daemon died over it.
ApplyingMeansBusy ==
  \A a \in Apps : intent[a].state = "applying" => cur.app = a \/ a \in interrupted

\* A sweep that reports success leaves no running application with the layers of
\* the module, also when the breaker refuses a request, a process dies and comes
\* back or a child never answers (daemon_mount_reclaim.rs, cleanup_all_mount_states).
\* A file that could not be removed may be left, of a process that is gone.
SweptClean ==
  [][pc = "sweep" /\ pc' = "idle" /\ crashes' = crashes /\ allOk =>
       \A a \in Apps : ~Instance(a)]_vars

Tried(a) == alive[a] = 0 \/ (pc = "wait" /\ cur.app = a)
\* An application with children that never end is tried again and again: the
\* breaker closes by itself.
TriedAgain == \A a \in Apps : []<>Tried(a)
=============================================================================
