------------------------------- MODULE MCHost -------------------------------
(* The shared FUSE host seen from three sides, one per behaviour: the session *)
(* and its two guards against a stall, an application's start under the       *)
(* companion, and the capability snapshot that decides whether the host is    *)
(* tried at all.  `part` picks the side; the other two stay in an initial     *)
(* state.                                                                     *)
EXTENDS HostStall, AppStart

VARIABLE part

\* Two applications and two recorders that share the snapshot file.
VARIABLES
    bFile, bNode, bLock, bPc, bScope, bOutcome, bSeen, bFails, bFailed, bTotal,
    bLate, bUnlocked, bTrouble
bVars ==
    <<
    bFile, bNode, bLock, bPc, bScope, bOutcome, bSeen, bFails, bFailed, bTotal,
    bLate, bUnlocked, bTrouble
    >>
Breaker == INSTANCE CapabilityBreaker WITH
    file <- bFile, node <- bNode, lock <- bLock, pc <- bPc, scope <- bScope, outcome <-
    bOutcome, seen <- bSeen, fails <- bFails, failed <- bFailed, total <- bTotal,
    late <- bLate, unlocked <- bUnlocked, trouble <- bTrouble,
    Apps <- {"a", "b"}, Host <- "h", Procs <- {"p", "q"}, Budget <- 2, MinScopes <- 2,
    RetryWindow <- 1, BackoffBase <- 1, BackoffMax <- 2, MaxScopes <- 2, MaxCount <- 2,
    MaxLate <- 1, MaxTrouble <- 1

ASSUME PartsAssumption == Breaker!BreakerAssumption

HostInit ==
    /\ part \in {"stall", "start", "breaker"}
    /\ Init
    /\ StartInit /\ (part # "start" => role = "app" /\ gate)
    /\ Breaker!Init /\ (part # "breaker" => bNode)

HostNext ==
    \/ part = "stall" /\ Next /\ UNCHANGED <<part, startVars, bVars>>
    \/ part = "start" /\ StartNext /\ UNCHANGED <<part, vars, bVars>>
    \/ part = "breaker" /\ Breaker!Next /\ UNCHANGED <<part, vars, startVars>>

\* The fairness of each module, for the part that moves.
Turn(p, A) == part = p /\ A
HostFairness ==
    /\ WF_vars(Turn("stall", Tick)) /\ WF_vars(Turn("stall", Serve \/ Block))
    /\ WF_vars(Turn("stall", Rebuild)) /\ WF_vars(Turn("stall", HostExits))
    /\ WF_vars(Turn("stall", AttachKills))
    /\ WF_startVars(Turn("start", CompanionStep)) /\ WF_startVars(Turn("start", ChildStep))
    /\ WF_startVars(Turn("start", PostAppSpecialize))
    /\ WF_bVars(Turn("breaker", Breaker!Tick))

HostSpec == HostInit /\ [][HostNext]_<<part, vars, startVars, bVars>> /\ HostFairness

-----------------------------------------------------------------------------
(* The properties of the three sides under names of this module.               *)

\* At every moment a stalled host has been stalled for a bounded time only (fuse_host.rs,
\* the watchdog thread and the external monitor); a captured process has the system's
\* view and no running one the reply connection (specialize_post.rs,
\* companion_ack.rs).
SidesSound ==
    /\ TypeOK /\ StallBounded
    /\ StartTypeOK /\ CapturedKeepsView /\ ReplyConsumed
\* The counts of the capability snapshot are in range, nobody's invention and, while
\* every recorder gets the lock, nobody's loss (fuse_redirect/config.rs).
CountsKept == Breaker!TypeOK /\ Breaker!CountsKept
\* Every application is admitted again and again (fuse_redirect/config.rs).
AdmittedAgain == Breaker!AdmittedAgain

=============================================================================
