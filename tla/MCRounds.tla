------------------------------- MODULE MCRounds -------------------------------
(* The mount worker on one slot, under two sets of requests and faults, and    *)
(* the loop that plans its rounds, one of the three per behaviour.  `part`     *)
(* picks it; what does not move stays in an initial state.                     *)
EXTENDS MCMountRecovery

\* Requests, faults and bounds of the second set.
CONSTANTS OtherConfigs, OtherFaults, OtherPrivateDirs, OtherDevsLimit, OtherHostGen, OtherAnyId
CONSTANT LoopKinds  \* what wakes the loop

VARIABLES
    part,
    raced   \* history: processes the companion mounted since their plans were made

Other == INSTANCE MountRecovery WITH
    Configs <- OtherConfigs, Faults <- OtherFaults, PrivateDirs <- OtherPrivateDirs,
    KnownDevsLimit <- OtherDevsLimit, MaxHostGen <- OtherHostGen, AnyId <- OtherAnyId

\* Three processes, one plan a round, and a process whose requests may fail.
VARIABLES
    lLife, lWant, lMnt, lChange, lPkgs, lHostDown, lHostNew, lControl, lVersion,
    lEvents, lRound, lPending, lLast, lHead, lAttempted, lRefused, lCache, lPc, lMode,
    lScope, lPlans, lStart, lOffset, lDeferred, lIncomplete, lBatch, lWrapped
lVars ==
    <<
    lLife, lWant, lMnt, lChange, lPkgs, lHostDown, lHostNew, lControl, lVersion,
    lEvents, lRound, lPending, lLast, lHead, lAttempted, lRefused, lCache, lPc, lMode,
    lScope, lPlans, lStart, lOffset, lDeferred, lIncomplete, lBatch, lWrapped
    >>
Loop == INSTANCE ReconcileCycle WITH
    life <- lLife, want <- lWant, mnt <- lMnt, change <- lChange, pkgs <- lPkgs,
    hostDown <- lHostDown, hostNew <- lHostNew, control <- lControl, version <-
    lVersion, events <- lEvents, round <- lRound, pending <- lPending, last <- lLast,
    head <- lHead, attempted <- lAttempted, refused <- lRefused, cache <- lCache, pc <-
    lPc, mode <- lMode, scope <- lScope, plans <- lPlans, start <- lStart, offset <-
    lOffset, deferred <- lDeferred, incomplete <- lIncomplete, batch <- lBatch, wrapped
    <- lWrapped, Procs <- 1 .. 3, Policies <- {"a"}, BatchMax <- 1, PrewarmMax <- 2,
    InitialRounds <- 1, PrewarmRounds <- 1, Failing <- {2}, Kinds <- LoopKinds,
    MaxEvents <- 2

ASSUME PartsAssumption == Other!ConstantsAssumption /\ Loop!CycleAssumption

MCInit ==
    /\ part \in {"slot", "other", "loop"}
    /\ \/ part = "slot" /\ Init
       \/ part = "other" /\ Other!Init
       \/ part = "loop" /\ Init /\ cfg = CHOOSE c \in Configs : TRUE
    /\ raced = {} /\ Loop!Init /\ (part # "loop" => \A p \in 1 .. 3 : lWant[p] = "off" /\ lLife[p] = "running")

\* Plans are made by an enumeration; a companion mount outdates one of them, and the
\* attempt at it settles it again.
FreshPlans == lPc = "wait" /\ lPc' = "round" /\ ~Loop!CacheHit(lMode', lScope')
MountedUnseen == {p \in 1 .. 3 : lEvents' # lEvents /\ lMnt[p] # "a" /\ lMnt'[p] = "a"}
Attempted == {p \in 1 .. 3 : Loop!AttemptSucceeds /\ Loop!Here.id = p}
RacedNext == raced' = IF FreshPlans THEN {} ELSE (raced \cup MountedUnseen) \ Attempted

MCNext ==
    \/ part = "slot" /\ Next /\ UNCHANGED <<part, raced, lVars>>
    \/ part = "other" /\ Other!Next /\ UNCHANGED <<part, raced, lVars>>
    \/ part = "loop" /\ Loop!Next /\ RacedNext /\ UNCHANGED <<part, vars>>
MCSpec == MCInit /\ [][MCNext]_<<part, raced, vars, lVars>>

\* The fairness of each module, for the part that moves.
MCFairness ==
    /\ WF_vars(part = "slot" /\ WorkerStep) /\ WF_vars(part = "slot" /\ StartHost)
    /\ WF_vars(part = "slot" /\ PruneStale)
    /\ WF_vars(part = "other" /\ Other!WorkerStep) /\ WF_vars(part = "other" /\ Other!StartHost)
    /\ WF_vars(part = "other" /\ Other!PruneStale)
    /\ WF_lVars(part = "loop" /\ Loop!LoopStep)
MCFairSpec == MCSpec /\ MCFairness

-----------------------------------------------------------------------------
\* Cached batches and settled plans (ReconcileCursor, mark_settled): a current mount is
\* mounted again unasked only when the companion mounted it after the plan was made,
\* and then once, however many rounds the cycle takes.
NoRedundantRemount == [][Loop!Redundant => Loop!Here.id \in raced]_lVars
\* The loop comes to rest again and again, whatever fails (daemon.rs).
Rests == Loop!Rests
\* No application without a working mount is starved (daemon.rs).
MissingGetsMounted == Loop!MissingGetsMounted

===============================================================================
