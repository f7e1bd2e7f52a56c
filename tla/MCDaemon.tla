------------------------------ MODULE MCDaemon ------------------------------
(* Three threads of the daemon, one per behaviour: the file monitor keeps its *)
(* inotify tree, the main loop runs mount requests in forked children, and    *)
(* the scanner tells the hooks which program is behind a pid.  `part` picks   *)
(* one; the others stay in their initial state.                               *)
EXTENDS WatchTree

VARIABLE part

\* One package redirects everything below <<"a">>, the other maps into <<"a", "b">>.
MCPaths == {<<>>, <<"a">>, <<"a", "b">>, <<"a", "b", "c">>, <<"a", "e">>}
MCDirs == {<<>>, <<"a">>, <<"a", "b">>}
Outer == {[path |-> <<"a">>, high |-> FALSE]}
Inner == {[path |-> <<"a", "b">>, high |-> TRUE]}
MCProfiles == {{}, Inner}
MCCategoryDirs == {<<"a", "e">>}
MCProfile0 == [p |-> Outer, q |-> Inner]

\* Two processes, a breaker that one stuck child trips.
VARIABLES
    cPc, cCur, cChild, cResult, cTimer, cStuck, cIntent, cFile, cAlive, cStarted,
    cSweep, cAllOk, cInterrupted, cCrashes
cVars ==
    <<
    cPc, cCur, cChild, cResult, cTimer, cStuck, cIntent, cFile, cAlive, cStarted,
    cSweep, cAllOk, cInterrupted, cCrashes
    >>
Mounts == INSTANCE MountChildren WITH
    pc <- cPc, cur <- cCur, child <- cChild, result <- cResult, timer <- cTimer, stuck
    <- cStuck, intent <- cIntent, file <- cFile, alive <- cAlive, started <- cStarted,
    sweep <- cSweep, allOk <- cAllOk, interrupted <- cInterrupted, crashes <- cCrashes,
    Apps <- {"a", "b"}, MaxStuck <- 0, MaxTotal <- 2, MaxTracked <- 2, Window <- 1,
    Primary <- 1, Grace <- 0, MaxStarts <- 2, MaxCrashes <- 1

\* Two pids, two programs of one uid.
CONSTANTS p1, p2, s1, s2, Zygote, Dead, None
MCUidOf == [i \in {s1, s2, Zygote} |-> IF i = Zygote THEN 0 ELSE 1000]
VARIABLES
    iProc, iNewTask, iForks, iSeen, iFile, iTable, iAsked, iLate, iInbox
iVars == <<iProc, iNewTask, iForks, iSeen, iFile, iTable, iAsked, iLate, iInbox>>
Identity == INSTANCE ProcessIdentity WITH
    proc <- iProc, newTask <- iNewTask, forks <- iForks, seen <- iSeen, file <- iFile,
    table <- iTable, asked <- iAsked, late <- iLate, inbox <- iInbox, Pids <- {p1, p2},
    Programs <- {s1, s2}, UidOf <- MCUidOf, SettleMax <- 1, RevalidateMax <- 2, TtlMax
    <- 1, RecheckMin <- 1, CacheMax <- 1, LateMax <- 1, ForkMax <- 2

ASSUME PartsAssumption == Identity!AgesAssumption

DaemonInit ==
    part \in {"watch", "children", "identity"} /\ Init /\ Mounts!Init /\ Identity!Init

DaemonNext ==
    \/ part = "watch" /\ Next /\ UNCHANGED <<part, cVars, iVars>>
    \/ part = "children" /\ Mounts!Next /\ UNCHANGED <<part, vars, iVars>>
    \/ part = "identity" /\ Identity!Next /\ UNCHANGED <<part, vars, cVars>>

\* The fairness of each module, for the part that moves.
Turn(p, A) == part = p /\ A
DaemonFairness ==
    /\ WF_vars(Turn("watch", Walk)) /\ SF_vars(Turn("watch", HandleEvent)) /\ WF_vars(Turn("watch", Post))
    /\ WF_cVars(Turn("children", Mounts!Tick)) /\ WF_cVars(Turn("children", Mounts!Answered))
    /\ WF_cVars(Turn("children", Mounts!PrimaryTimeout))
    /\ WF_cVars(Turn("children", Mounts!GraceTimeout))
    /\ WF_cVars(Turn("children", Mounts!Reap)) /\ WF_cVars(Turn("children", Mounts!SweepEnds))
    /\ \A a \in {"a", "b"} :
         /\ SF_cVars(Turn("children", Mounts!Request(a, "reload")))
         /\ WF_cVars(Turn("children", Mounts!SweepNext(a)))
    /\ WF_iVars(Turn("identity", Identity!Scan(TRUE)))

DaemonSpec == DaemonInit /\ [][DaemonNext]_<<part, vars, cVars, iVars>> /\ DaemonFairness

\* Bounds.
\* The daemon dies, or one process does, once in a run, and with at most one child
\* in the reclaim list.
Disturbed == cCrashes + Cardinality({a \in {"a", "b"} : cStarted[a] > 1 \/ cAlive[a] = 0})
ChildrenApart == Disturbed <= 1 /\ (Disturbed = 1 => Len(cStuck) <= 1)
\* A lookup that ends at the daemon reads nothing of the scanner's: the two halves
\* are seen one at a time.
IdentityApart ==
    \/ iFile = None /\ \A p \in {p1, p2} : ~iSeen[p].known
    \/ iLate = <<>> /\ iInbox = <<>> /\ \A p \in {p1, p2} : iAsked[p] = [ident |-> None, age |-> 2]
Apart == ChildrenApart /\ IdentityApart

-----------------------------------------------------------------------------
\* When the monitor thread is at rest its tree is the one the configuration asks
\* for, under the present paths (daemon_monitor.rs); children that cannot be killed are
\* bounded, and every outcome is written (daemon_mount.rs, daemon_mount_reclaim.rs,
\* mount_intent.rs).
PartsSound ==
    /\ TypeOK /\ Covered /\ PathsCurrent /\ NoStaleWatcher
    /\ Mounts!TypeOK /\ Mounts!StuckBounded /\ Mounts!ApplyingMeansBusy /\ Identity!TypeOK
\* In the end every configured root is watched (daemon_monitor.rs, daemon.rs).
WatchedInTheEnd == <>[](part # "watch" \/ mon.limited \/ lost \/ AllWatched)

\* A sweep that reports success leaves no running application its layers, and the reclaim list gives up
\* only what no longer counts (daemon_mount_reclaim.rs).
SweptClean == Mounts!SweptClean /\ Mounts!DroppedWasOut
\* The breaker closes by itself (daemon_mount_reclaim.rs); the two applications are
\* alike.
TriedAgain == []<>(part # "children" \/ Mounts!Tried("a"))

\* A question that the daemon answers in time is not taken for unanswered
\* (daemon_identity_query.rs).
AnsweredInTime == Identity!AnsweredInTime
\* A process that stays is in the table in the end (daemon.rs, SystemPidScanner); the
\* pids and the programs are alike.
EventuallyListed == Identity!ListedAtLast(p1, s1)

=============================================================================
