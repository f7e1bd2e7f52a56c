--------------------------- MODULE ReconcileCycle ---------------------------
(* The daemon's main loop and reconcile_running_apps: which running          *)
(* application is handled in which round.  A round of the batched modes      *)
(* executes BatchMax plans; what is left is deferred to continuation rounds, *)
(* and a cursor that survives the rounds decides when the cycle is drained   *)
(* and the loop may rest.  What executing a plan does is MountRecovery.      *)
EXTENDS Integers, FiniteSets, Sequences

CONSTANTS
    Procs,          \* process identities, ordered as ReconcilePlanIdentity is
    Policies,       \* redirect policies a configuration can hold
    BatchMax,       \* RECONCILE_BATCH_MAX_PLANS
    PrewarmMax,     \* PREWARM_MAX_REQUESTS
    InitialRounds,  \* INITIAL_RECONCILE_ROUNDS
    PrewarmRounds,  \* PREWARM_RECONCILE_ROUNDS
    Failing,        \* processes whose mount requests may fail or be refused
    Kinds,          \* what the environment does, a subset of EventKinds
    MaxEvents       \* bound: how often it does something

EventKinds == {"apps", "full", "poll", "host", "control", "spawn", "companion"}

CycleAssumption ==
    /\ Procs \subseteq Nat \ {0} /\ IsFiniteSet(Procs)
    /\ Policies \cap {"off", "none", "dead", "residue"} = {}
    /\ BatchMax \in Nat \ {0} /\ PrewarmMax \in Nat \ {0} /\ MaxEvents \in Nat
    /\ InitialRounds \in Nat /\ PrewarmRounds \in 0 .. InitialRounds
    /\ Failing \subseteq Procs /\ Kinds \subseteq EventKinds

VARIABLES
    life,               \* a process identity is new, running or gone for good
    want,               \* what the loaded configuration asks for: a policy or "off"
    mnt,                \* state file and ledger of the process: see Mounts
    change, pkgs,       \* configuration change not yet handled, its packages
    hostDown, hostNew,  \* the shared host has exited; its generation is new
    control,            \* explicit request waiting
    version, events,    \* config_version; bound on the environment
    round, pending,     \* loop counter (capped), pending_full_reconcile
    last, head, attempted, refused, cache,  \* ReconcileCursor, 0 for None
    pc, mode, scope, plans, start, offset,  \* the round: mode, plans, position
    deferred, incomplete, batch, wrapped    \* its counters and conclusions

worldVars == <<life, want, mnt, change, pkgs, hostDown, hostNew, control, version, events>>
loopVars == <<round, pending>>
cursorVars == <<last, head, attempted, refused, cache>>
roundVars == <<pc, mode, scope, plans, start, offset, deferred, incomplete, batch, wrapped>>
vars == <<worldVars, loopVars, cursorVars, roundVars>>

\* No record at all; a ledger without state file; a state file whose host is gone;
\* or the policy recorded by a healthy state file.
Mounts == {"none", "residue", "dead"} \cup Policies

-----------------------------------------------------------------------------
(* Plans.                                                                   *)

\* ReconcilePlan::new.  A disable request counts any state file, a reload only a
\* healthy one; without file, rules and ledger there is nothing to do.
Plan(p) ==
    LET op == IF want[p] = "off" THEN "disable" ELSE "reload"
        has == mnt[p] \in Policies \/ (op = "disable" /\ mnt[p] = "dead")
    IN [id |-> p, op |-> op, policy |-> want[p], has |-> has,
        current |-> (op = "disable" /\ mnt[p] = "none") \/ (op = "reload" /\ mnt[p] = want[p])]

\* ReconcilePlan::priority.
Priority(pl) == CASE pl.op = "reload" /\ ~pl.has -> 0
                  [] pl.op = "reload" /\ pl.has -> 1
                  [] pl.op = "disable" /\ pl.has -> 2
                  [] pl.op = "disable" /\ ~pl.has -> 3

\* The scope of a round: full_change, changed_packages.is_some(), the packages.
NoScope == [full |-> FALSE, some |-> FALSE, pkgs |-> {}]
ScopeOf(c, ps) == [full |-> c \in {"full", "poll"}, some |-> c \in {"apps", "full"}, pkgs |-> ps]
Incremental(sc) == sc.some /\ ~sc.full
UsesCursor(m, sc) == ~Incremental(sc) /\ m # "forced"

\* A change of global files serves the packages it names first, a prewarm round the
\* most urgent plans; identity decides otherwise.
Rank(m, sc, pl) ==
    IF sc.full THEN (IF sc.some /\ pl.id \notin sc.pkgs THEN 1 ELSE 0)
    ELSE IF m = "prewarm" THEN Priority(pl) ELSE 0
Before(m, sc, a, b) ==
    \/ Rank(m, sc, a) < Rank(m, sc, b)
    \/ Rank(m, sc, a) = Rank(m, sc, b) /\ a.id < b.id
\* Enumeration of the running applications, filtered and sorted; the order is strict,
\* so there is exactly one such sequence.
Enumerations(m, sc) ==
    LET found == {Plan(p) : p \in {q \in Procs : life[q] = "running" /\ (Incremental(sc) => q \in sc.pkgs)}}
    IN {s \in [1 .. Cardinality(found) -> found] :
          \A i, j \in 1 .. Cardinality(found) : i < j => Before(m, sc, s[i], s[j])}

-----------------------------------------------------------------------------
(* ReconcileCursor.                                                         *)

NoCache == [plans |-> <<>>, sig |-> <<>>]
Signature(m, sc) == <<m, version, sc>>

CacheHit(m, sc) == UsesCursor(m, sc) /\ ~hostNew /\ cache.sig = Signature(m, sc)

\* The first position that satisfies a condition, def when there is none.
FirstIndex(ps, Ok(_), def) ==
    LET S == {i \in 1 .. Len(ps) : Ok(ps[i].id)}
    IN  IF S = {} THEN def ELSE CHOOSE i \in S : \A j \in S : i <= j
\* position_of: the plan of p or, when it is gone, of its successor.
PositionOf(ps, p) ==
    LET here(x) == x = p
        after(x) == x > p
    IN  FirstIndex(ps, here, FirstIndex(ps, after, 1))
\* Mutant: no rotation.
NextStartFirst(ps) == 1
\* next_start_index (counting from 1).
NextStart(ps) ==
    IF ps = <<>> \/ last = 0 THEN 1
    ELSE IF \E i \in 1 .. Len(ps) : ps[i].id = last THEN (PositionOf(ps, last) % Len(ps)) + 1
    ELSE PositionOf(ps, last)

-----------------------------------------------------------------------------
(* The main loop.                                                           *)

\* Why this iteration reconciles, and in which mode.
ModeOf(tick) ==
    IF control THEN "forced"
    ELSE IF hostNew \/ change # "none" \/ pending THEN "full"
    ELSE IF round < PrewarmRounds THEN "prewarm"
    ELSE IF tick THEN "missing" ELSE "full"
PendingAfter(m) ==
    IF control THEN FALSE
    ELSE IF hostNew THEN TRUE
    ELSE IF change # "none" THEN pending
    ELSE m = "prewarm"

\* One iteration: collect the notifications, choose mode and scope, restart a dead
\* host (its new generation shows in the next iteration), reuse the cached batch of
\* the cycle or enumerate, and find where to start.
BeginRound ==
    /\ pc = "wait"
    /\ \E tick \in BOOLEAN, sc \in {ScopeOf(change, pkgs)} :
         /\ tick \/ control \/ hostNew \/ change # "none" \/ pending \/ round < InitialRounds
         /\ mode' = ModeOf(tick) /\ scope' = sc
         /\ pending' = PendingAfter(ModeOf(tick))
         /\ plans' \in IF CacheHit(ModeOf(tick), sc) THEN {cache.plans} ELSE Enumerations(ModeOf(tick), sc)
    /\ start' = IF UsesCursor(mode', scope') /\ ~(scope'.full /\ scope'.some) THEN NextStart(plans') ELSE 1
    /\ head' = IF hostNew THEN 0 ELSE head
    /\ refused' = IF hostNew THEN {} ELSE refused
    /\ cache' = NoCache
    /\ hostDown' = FALSE /\ hostNew' = hostDown
    /\ change' = "none" /\ pkgs' = {} /\ control' = FALSE
    /\ round' = IF round < InitialRounds THEN round + 1 ELSE round
    /\ pc' = "round" /\ offset' = 0 /\ batch' = 0
    /\ deferred' = FALSE /\ incomplete' = FALSE /\ wrapped' = FALSE
    /\ UNCHANGED <<life, want, mnt, version, events, last, attempted>>

-----------------------------------------------------------------------------
(* reconcile_running_apps: one plan after the other.                        *)

Batched == UsesCursor(mode, scope)
Index == ((start + offset - 1) % Len(plans)) + 1
Here == plans[Index]
Visiting == pc = "round" /\ ~wrapped /\ offset < Len(plans)

\* Mutants: a current plan is remounted like any other; coming back to an attempted
\* plan does not count.
DispositionEager(pl) ==
    IF mode = "prewarm" /\ (offset >= PrewarmMax \/ ~(pl.op = "reload" \/ pl.has)) THEN "later"
    ELSE IF mode = "missing" /\ ~(pl.op = "reload" /\ ~pl.has) THEN "skip"
    ELSE IF Batched /\ pl.id \in refused THEN "skip"
    ELSE IF Batched /\ ~deferred /\ pl.id \in attempted THEN "wrap"
    ELSE IF Batched /\ batch >= BatchMax THEN "batch"
    ELSE "attempt"
DispositionUnwrapped(pl) ==
    IF mode # "forced" /\ pl.current THEN "skip"
    ELSE IF mode = "prewarm" /\ (offset >= PrewarmMax \/ ~(pl.op = "reload" \/ pl.has)) THEN "later"
    ELSE IF mode = "missing" /\ ~(pl.op = "reload" /\ ~pl.has) THEN "skip"
    ELSE IF Batched /\ pl.id \in refused THEN "skip"
    ELSE IF Batched /\ batch >= BatchMax THEN "batch"
    ELSE "attempt"
\* What the loop does with a plan; the order of the tests is the code's.
Disposition(pl) ==
    IF mode # "forced" /\ pl.current THEN "skip"
    ELSE IF mode = "prewarm" /\ (offset >= PrewarmMax \/ ~(pl.op = "reload" \/ pl.has)) THEN "later"
    ELSE IF mode = "missing" /\ ~(pl.op = "reload" /\ ~pl.has) THEN "skip"
    ELSE IF Batched /\ pl.id \in refused THEN "skip"
    ELSE IF Batched /\ ~deferred /\ pl.id \in attempted THEN "wrap"
    ELSE IF Batched /\ batch >= BatchMax THEN "batch"
    ELSE "attempt"

\* try_fast_update_shared_host: an incremental change that only needs the host's
\* policy table is done without a remount.
FastUpdate ==
    /\ Visiting /\ Incremental(scope) /\ Here.op = "reload"
    /\ mnt[Here.id] \in Policies
    /\ mnt' = [mnt EXCEPT ![Here.id] = Here.policy]
    /\ offset' = offset + 1
    /\ UNCHANGED <<life, want, change, pkgs, hostDown, hostNew, control, version, events, loopVars, cursorVars,
                   pc, mode, scope, plans, start, deferred, incomplete, batch, wrapped>>

\* Current, not wanted in this mode, refused in this cycle, or left for later.
PassOver ==
    /\ Visiting /\ Disposition(Here) \in {"skip", "later", "batch"}
    /\ deferred' = (deferred \/ Disposition(Here) # "skip")
    /\ incomplete' = (incomplete \/ Disposition(Here) = "batch")
    /\ offset' = offset + 1
    /\ UNCHANGED <<worldVars, loopVars, cursorVars, pc, mode, scope, plans, start, batch, wrapped>>

\* Back at a plan this cycle has attempted, with nothing deferred on the way.
Wrap ==
    /\ Visiting /\ Disposition(Here) = "wrap" /\ wrapped' = TRUE
    /\ UNCHANGED <<worldVars, loopVars, cursorVars,
                   pc, mode, scope, plans, start, offset, deferred, incomplete, batch>>

\* ReconcileCursor::advance.
Advance(p) ==
    /\ head' = IF Batched /\ head = 0 THEN p ELSE head
    /\ attempted' = IF Batched THEN attempted \cup {p} ELSE attempted
    /\ last' = IF Batched THEN p ELSE last
\* ReconcilePlan::mark_settled.
Settled(pl) == [pl EXCEPT !.current = (pl.op = "reload"), !.has = (pl.op = "reload")]
Attempting == Visiting /\ Disposition(Here) = "attempt"
NothingToDo(pl) == pl.op = "disable" /\ ~pl.has

\* execute_mount_request succeeds for the process and marks the plan settled.
AttemptSucceeds ==
    /\ Attempting /\ ~NothingToDo(Here) /\ life[Here.id] = "running"
    /\ mnt' = [mnt EXCEPT ![Here.id] = IF Here.op = "reload" THEN Here.policy ELSE "none"]
    /\ plans' = [plans EXCEPT ![Index] = Settled(@)]
    /\ Advance(Here.id)
    /\ batch' = batch + 1 /\ offset' = offset + 1
    /\ UNCHANGED <<life, want, change, pkgs, hostDown, hostNew, control, version, events, loopVars, refused, cache,
                   pc, mode, scope, start, deferred, incomplete, wrapped>>

\* Supervision refuses the plan, or its execution fails and may have lost the
\* state file on the way: no further attempt in this cycle.
AttemptFails ==
    /\ Attempting
    /\ Here.id \in Failing \/ (life[Here.id] # "running" /\ ~NothingToDo(Here))
    /\ mnt' \in {mnt} \cup {[mnt EXCEPT ![Here.id] = m] : m \in {"none", "residue"}}
    /\ refused' = IF Batched THEN refused \cup {Here.id} ELSE refused
    /\ Advance(Here.id)
    /\ batch' = batch + 1 /\ offset' = offset + 1
    /\ UNCHANGED <<life, want, change, pkgs, hostDown, hostNew, control, version, events, loopVars, cache,
                   pc, mode, scope, plans, start, deferred, incomplete, wrapped>>

\* A disable request without state file is only counted.
AttemptNothing ==
    /\ Attempting /\ NothingToDo(Here)
    /\ Advance(Here.id)
    /\ batch' = batch + 1 /\ offset' = offset + 1
    /\ UNCHANGED <<worldVars, loopVars, refused, cache,
                   pc, mode, scope, plans, start, deferred, incomplete, wrapped>>

\* The fallback: the rotation has passed the end of the array and stands at or
\* before the plan the cycle began with.
PassedHead == head # 0 /\ NextStart(plans) <= PositionOf(plans, head)
CycleOpen == ~wrapped /\ incomplete /\ ~PassedHead
\* The end of the round: close_cycle unless plans are left, in which case the
\* batch is cached and the loop comes back after RECONCILE_CONTINUE_WAIT_MS.
EndRound ==
    /\ pc = "round" /\ (wrapped \/ offset = Len(plans))
    /\ IF CycleOpen
       THEN /\ cache' = [plans |-> plans, sig |-> Signature(mode, scope)]
            /\ pending' = TRUE
            /\ UNCHANGED <<head, attempted, refused>>
       ELSE /\ head' = 0 /\ attempted' = {} /\ refused' = {}
            /\ UNCHANGED <<cache, pending>>
    /\ pc' = "wait" /\ mode' = "none" /\ scope' = NoScope /\ plans' = <<>> /\ start' = 1 /\ offset' = 0
    /\ deferred' = FALSE /\ incomplete' = FALSE /\ batch' = 0 /\ wrapped' = FALSE
    /\ UNCHANGED <<worldVars, round, last>>

-----------------------------------------------------------------------------
(* The environment.  Configuration reaches the daemon between two rounds.    *)

Happens(kind) == kind \in Kinds /\ events < MaxEvents /\ events' = events + 1

\* reload_config_for_daemon: the watcher reports application files, a change of
\* global files with the packages to serve first, or the fingerprint poll finds one.
Reported(kind, ps) ==
    /\ change' = IF change \in {"none", "apps"} THEN kind ELSE change
    /\ pkgs' = pkgs \cup ps
    /\ version' = version + 1
ChangeConfig ==
    /\ pc = "wait" /\ change # "poll"
    /\ \E kind \in {"apps", "full", "poll"}, new \in [Procs -> Policies \cup {"off"}] :
         LET differs == {p \in Procs : new[p] # want[p]}
         IN /\ Happens(kind) /\ differs # {}
            /\ want' = new
            /\ \/ kind = "apps" /\ Reported("apps", differs)
               \/ kind = "full" /\ \E ps \in SUBSET differs : Reported("full", ps)
               \/ kind = "poll" /\ change = "none" /\ Reported("poll", {})
    /\ UNCHANGED <<life, mnt, hostDown, hostNew, control, loopVars, cursorVars, roundVars>>

\* The shared host exits: every healthy state is dead.
HostDies ==
    /\ Happens("host") /\ ~hostDown /\ hostDown' = TRUE
    /\ mnt' = [p \in Procs |-> IF mnt[p] \in Policies THEN "dead" ELSE mnt[p]]
    /\ UNCHANGED <<life, want, change, pkgs, hostNew, control, version, loopVars, cursorVars, roundVars>>
\* wait_for_daemon_events: the pidfd wakes the loop.
HostExitSeen ==
    /\ pc = "wait" /\ hostDown /\ ~pending /\ pending' = TRUE
    /\ UNCHANGED <<worldVars, round, cursorVars, roundVars>>

ExplicitRequest ==
    /\ Happens("control") /\ control' = TRUE
    /\ UNCHANGED <<life, want, mnt, change, pkgs, hostDown, hostNew, version, loopVars, cursorVars, roundVars>>

\* Applications come and go; a pid is not reused with the same start time.
Spawn ==
    /\ Happens("spawn")
    /\ \E p \in Procs : life[p] = "new" /\ life' = [life EXCEPT ![p] = "running"]
    /\ UNCHANGED <<want, mnt, change, pkgs, hostDown, hostNew, control, version, loopVars, cursorVars, roundVars>>
Exit ==
    /\ Happens("spawn")
    /\ \E p \in Procs : life[p] = "running" /\ life' = [life EXCEPT ![p] = "gone"]
    /\ UNCHANGED <<want, mnt, change, pkgs, hostDown, hostNew, control, version, loopVars, cursorVars, roundVars>>

\* The companion mounts an application on its own, without telling the daemon.
CompanionMounts ==
    /\ Happens("companion")
    /\ \E p \in Procs : /\ life[p] = "running" /\ want[p] \in Policies /\ mnt[p] # want[p]
                        /\ mnt' = [mnt EXCEPT ![p] = want[p]]
    /\ UNCHANGED <<life, want, change, pkgs, hostDown, hostNew, control, version, loopVars, cursorVars, roundVars>>

-----------------------------------------------------------------------------
Init ==
    /\ life \in [Procs -> IF "spawn" \in Kinds THEN {"new", "running"} ELSE {"running"}]
    /\ want \in [Procs -> Policies \cup {"off"}] /\ mnt = [p \in Procs |-> "none"]
    /\ change = "none" /\ pkgs = {} /\ hostDown = FALSE /\ hostNew = FALSE /\ control = FALSE
    /\ version = 0 /\ events = 0 /\ round = 0 /\ pending = FALSE
    /\ last = 0 /\ head = 0 /\ attempted = {} /\ refused = {} /\ cache = NoCache
    /\ pc = "wait" /\ mode = "none" /\ scope = NoScope /\ plans = <<>> /\ start = 1 /\ offset = 0
    /\ deferred = FALSE /\ incomplete = FALSE /\ batch = 0 /\ wrapped = FALSE

LoopStep == \/ BeginRound \/ FastUpdate \/ PassOver \/ Wrap
            \/ AttemptSucceeds \/ AttemptFails \/ AttemptNothing \/ EndRound \/ HostExitSeen
Environment == \/ ChangeConfig \/ HostDies \/ ExplicitRequest \/ Spawn \/ Exit \/ CompanionMounts
Next == LoopStep \/ Environment
Spec == Init /\ [][Next]_vars
\* The loop runs for ever: events and the periodic timeout wake it.
FairSpec == Spec /\ WF_vars(LoopStep)

-----------------------------------------------------------------------------
(* Properties.                                                              *)

PlanRecord == [id : Procs, op : {"reload", "disable"}, policy : Policies \cup {"off"},
               has : BOOLEAN, current : BOOLEAN]
\* Every variable stays in its range; a round's position is within its plans.
TypeOK ==
    /\ life \in [Procs -> {"new", "running", "gone"}]
    /\ want \in [Procs -> Policies \cup {"off"}] /\ mnt \in [Procs -> Mounts]
    /\ change \in {"none", "apps", "full", "poll"} /\ pkgs \subseteq Procs
    /\ hostDown \in BOOLEAN /\ hostNew \in BOOLEAN /\ control \in BOOLEAN
    /\ version \in Nat /\ events \in 0 .. MaxEvents
    /\ round \in 0 .. InitialRounds /\ pending \in BOOLEAN
    /\ last \in Procs \cup {0} /\ head \in Procs \cup {0}
    /\ attempted \subseteq Procs /\ refused \subseteq Procs
    /\ plans \in Seq(PlanRecord) /\ cache.plans \in Seq(PlanRecord)
    /\ pc \in {"wait", "round"} /\ mode \in {"none", "prewarm", "full", "missing", "forced"}
    /\ scope.pkgs \subseteq Procs /\ scope.full \in BOOLEAN /\ scope.some \in BOOLEAN
    /\ start \in 1 .. (IF plans = <<>> THEN 1 ELSE Len(plans)) /\ offset \in 0 .. Len(plans)
    /\ batch \in Nat /\ deferred \in BOOLEAN /\ incomplete \in BOOLEAN /\ wrapped \in BOOLEAN

\* A round that nobody asked for mounts an application whose mount is current.
Redundant == AttemptSucceeds /\ mode # "forced" /\ Here.op = "reload" /\ mnt[Here.id] = Here.policy

\* The continuation of a cycle ends whatever fails or is refused: the loop comes to
\* rest again and again (RECONCILE_CONTINUE_WAIT_MS is not a way of polling).
Rests == []<>(pc = "wait" /\ ~pending)

Missing(p) == life[p] = "running" /\ want[p] \in Policies /\ mnt[p] \in {"none", "residue", "dead"}
\* An application without a working mount gets one, whichever others keep failing
\* and wherever the cursor stands.
MissingGetsMounted == \A p \in Procs \ Failing : Missing(p) ~> ~Missing(p)

Outdated(p) == life[p] = "running" /\ want[p] \in Policies /\ mnt[p] \in Policies \ {want[p]}

=============================================================================
