--------------------------- MODULE ProcessIdentity ---------------------------
(***************************************************************************)
(* Which program is behind a pid?  The media provider may not read /proc of *)
(* system processes, so the root daemon does it for it, twice over: a       *)
(* scanner thread keeps a table of all system processes in a file           *)
(* (SystemPidScanner, src/src/daemon.rs), which the hooks cache             *)
(* (lookup_system_pid_table, src/src/hook/caller.rs), and for a pid the     *)
(* table lacks the hook asks the daemon over a datagram socket and waits    *)
(* for a moment (src/src/daemon_identity_query.rs).                         *)
(*                                                                          *)
(* An identity stands for a uid and a process name.  A process starts as a  *)
(* copy of zygote and takes its identity later.  Time passes in scanner     *)
(* periods; ages stop counting one past their limit.                        *)
(***************************************************************************)
EXTENDS Naturals, Sequences, FiniteSets

CONSTANTS
  Pids, Programs,      \* task ids and the identities a process can take
  UidOf,               \* uid of an identity, all below ANDROID_APP_UID_START
  Zygote, Dead, None,  \* the identity before specialisation; no process; no answer
  SettleMax, RevalidateMax,     \* SYSTEM_PID_IDENTITY_SETTLE_MS, _REVALIDATE_MS
  TtlMax, RecheckMin,           \* SYSTEM_PID_TABLE_TTL_MS, _RECHECK_MIN_AGE_MS
  CacheMax,                     \* CACHE_TTL_MS of the query client
  LateMax, ForkMax              \* bounds: replies on their way or unread; processes started

Identities == Programs \cup {Zygote}

AgesAssumption ==
  /\ {SettleMax, RevalidateMax, TtlMax, RecheckMin, CacheMax, LateMax, ForkMax} \subseteq Nat
  /\ 1 <= SettleMax /\ SettleMax <= RevalidateMax /\ RecheckMin <= TtlMax

VARIABLES
  proc,     \* what runs under each pid
  newTask,  \* a task was created since the scanner last looked
  forks,    \* processes started so far
  seen,     \* SystemPidScanner.processes
  file,     \* tmp/system_pids, or None while it is missing
  table,    \* SYSTEM_PID_TABLE: what the hook process holds of it
  asked,    \* QueryClient.cache
  late,     \* pids whose reply missed its question
  inbox     \* replies in the socket of the hook process

vars == <<proc, newTask, forks, seen, file, table, asked, late, inbox>>

-----------------------------------------------------------------------------
(* Processes *)

Fork(p) ==
  /\ proc[p] = Dead /\ forks < ForkMax
  /\ proc' = [proc EXCEPT ![p] = Zygote]
  /\ newTask' = TRUE
  /\ forks' = forks + 1
  /\ UNCHANGED <<seen, file, table, asked, late, inbox>>

Specialize(p, i) ==
  /\ proc[p] = Zygote
  /\ proc' = [proc EXCEPT ![p] = i]
  /\ UNCHANGED <<newTask, forks, seen, file, table, asked, late, inbox>>

Exit(p) ==
  /\ proc[p] /= Dead
  /\ proc' = [proc EXCEPT ![p] = Dead]
  /\ UNCHANGED <<newTask, forks, seen, file, table, asked, late, inbox>>

-----------------------------------------------------------------------------
(* The scanner *)

\* A fresh look at one process.  A dead one has no command line.
ReadIdentity(p) == IF proc[p] = Dead THEN None ELSE proc[p]

Volatile(i) == i = Zygote

NeedsRecheckOnce(e) == e.first < SettleMax

NeedsRecheck(e) == Volatile(e.ident) \/ e.first < SettleMax \/ e.checked >= RevalidateMax

\* A new pid is read; a known one is read again while it may still change and
\* once in a while.
Looked(p) ==
  IF seen[p].known
  THEN IF NeedsRecheck(seen[p]) THEN [seen[p] EXCEPT !.ident = ReadIdentity(p), !.checked = 0]
       ELSE seen[p]
  ELSE [known |-> TRUE, ident |-> ReadIdentity(p), first |-> 0, checked |-> 0]

Unseen == [known |-> FALSE, ident |-> None, first |-> 0, checked |-> 0]

\* Without a new task since the last look the known pids are taken as they are;
\* otherwise /proc is listed and the dead are forgotten.
Listed(due) ==
  IF ~due /\ ~newTask THEN {p \in Pids : seen[p].known} ELSE {p \in Pids : proc[p] /= Dead}

Roster(s, ps) == [p \in Pids |-> IF p \in ps THEN s[p].ident ELSE None]

EmptyRoster == [p \in Pids |-> None]

Older(n, max) == IF n > max THEN n ELSE n + 1

\* One period.  The table is rebuilt when the roster changed or it is due; an
\* empty one and an unchanged one are not written.
Scan(due) ==
  LET ps == Listed(due)
      next == [p \in Pids |-> IF p \in ps THEN Looked(p) ELSE Unseen]
      before == Roster(seen, {p \in Pids : seen[p].known})
      now == Roster(next, ps)
  IN /\ seen' = [p \in Pids |-> [next[p] EXCEPT
                   !.first = IF next[p].known THEN Older(@, SettleMax) ELSE @,
                   !.checked = IF next[p].known THEN Older(@, RevalidateMax) ELSE @]]
     /\ newTask' = FALSE
     /\ file' = IF (due \/ now /= before) /\ now /= EmptyRoster THEN now ELSE file
     /\ UNCHANGED <<proc, forks, table, asked, late, inbox>>

\* The temporary directory is cleaned.
LoseFile ==
  /\ file /= None
  /\ file' = None
  /\ UNCHANGED <<proc, newTask, forks, seen, table, asked, late, inbox>>

-----------------------------------------------------------------------------
(* The hook process looks a pid up *)

\* A hit is served whatever the age of the table; only a miss reads the file
\* again, and not when that was done a moment ago.
Reloads(p) == table.rows[p] = None /\ (table.age > TtlMax \/ table.age >= RecheckMin)

TableAfter(p) ==
  IF Reloads(p) THEN [rows |-> IF file = None THEN EmptyRoster ELSE file, age |-> 0] ELSE table

\* The question to the daemon.  A reply that does not come in time stays on its
\* way; the next question takes the first datagram there is.
Served(p) == proc[p]

Matches(r, p, uid) == r.pid = p /\ r.ident /= None /\ UidOf[r.ident] = uid

CachedFor(p, uid) ==
  /\ asked[p].age <= CacheMax
  /\ asked[p].ident = None \/ UidOf[asked[p].ident] = uid

RoundTrip(p, uid, how) ==
  LET arrived == IF how = "timely" THEN Append(inbox, [pid |-> p, ident |-> Served(p)]) ELSE inbox
      reply == Head(arrived)
      value == IF arrived /= <<>> /\ Matches(reply, p, uid) THEN reply.ident ELSE None
  IN /\ how = "late" => Len(late) + Len(inbox) < LateMax
     /\ how = "timely" => Len(inbox) <= LateMax
     /\ IF how = "unreachable"
        THEN inbox' = <<>> /\ late' = <<>>
        ELSE /\ inbox' = IF arrived = <<>> THEN <<>> ELSE Tail(arrived)
             /\ late' = IF how = "late" THEN Append(late, [pid |-> p, ident |-> Served(p)]) ELSE late
     /\ asked' = [asked EXCEPT ![p] = [ident |-> IF how = "unreachable" THEN None ELSE value, age |-> 0]]

\* resolve_system_fuse_identity for a request of pid p: the table if its uid is
\* the one of the request, else the remembered or a new answer of the daemon.
Resolve(p, how) ==
  /\ proc[p] \in Identities
  /\ LET uid == UidOf[proc[p]]
         row == TableAfter(p).rows[p]
     IN /\ table' = TableAfter(p)
        /\ IF (row /= None /\ UidOf[row] = uid) \/ CachedFor(p, uid)
           THEN UNCHANGED <<asked, late, inbox>>
           ELSE RoundTrip(p, uid, how)
  /\ UNCHANGED <<proc, newTask, forks, seen, file>>

\* Time passes in the hook process.
Tick ==
  /\ table' = [table EXCEPT !.age = Older(@, TtlMax)]
  /\ asked' = [p \in Pids |-> [asked[p] EXCEPT !.age = Older(@, CacheMax)]]
  /\ UNCHANGED <<proc, newTask, forks, seen, file, late, inbox>>

LateReply ==
  /\ late /= <<>>
  /\ inbox' = Append(inbox, Head(late))
  /\ late' = Tail(late)
  /\ UNCHANGED <<proc, newTask, forks, seen, file, table, asked>>

-----------------------------------------------------------------------------
Init ==
  /\ proc = [p \in Pids |-> Dead]
  /\ newTask = FALSE
  /\ forks = 0
  /\ seen = [p \in Pids |-> Unseen]
  /\ file = None
  /\ table = [rows |-> EmptyRoster, age |-> TtlMax + 1]
  /\ asked = [p \in Pids |-> [ident |-> None, age |-> CacheMax + 1]]
  /\ late = <<>>
  /\ inbox = <<>>

Next ==
  \/ \E p \in Pids : Fork(p) \/ Exit(p) \/ (\E i \in Programs : Specialize(p, i))
  \/ \E due \in BOOLEAN : Scan(due)
  \/ LoseFile
  \/ \E p \in Pids, how \in {"timely", "late", "unreachable"} : Resolve(p, how)
  \/ LateReply
  \/ Tick

\* The scanner thread polls for ever, and a full rebuild falls due again and
\* again.
Spec == Init /\ [][Next]_vars /\ WF_vars(Scan(TRUE))

-----------------------------------------------------------------------------
TypeOK ==
  /\ proc \in [Pids -> Identities \cup {Dead}]
  /\ seen \in [Pids -> [known : BOOLEAN, ident : Identities \cup {None},
                        first : 0 .. SettleMax + 1, checked : 0 .. RevalidateMax + 1]]
  /\ file = None \/ file \in [Pids -> Identities \cup {None}]
  /\ table \in [rows : [Pids -> Identities \cup {None}], age : 0 .. TtlMax + 1]
  /\ asked \in [Pids -> [ident : Identities \cup {None}, age : 0 .. CacheMax + 1]]
  /\ Len(late) + Len(inbox) <= LateMax + 1

\* Without an answer the channel is out of order or the daemon does not know the
\* process (daemon_identity_query.rs, comment of query_process_identity): a
\* question that the daemon answers in time is not taken for unanswered.
AnsweredInTime ==
  [][\A p \in Pids :
       (Resolve(p, "timely") /\ asked' /= asked) => asked'[p].ident /= None]_vars

ListedAtLast(p, i) == <>[](proc[p] = i /\ file /= None) => <>(file /= None /\ file[p] = i)
\* A process that keeps its identity is in the table in the end, whatever it
\* was while the scanner first saw it.
EventuallyListed == \A p \in Pids, i \in Programs : ListedAtLast(p, i)

=============================================================================
