\* Stall: every fault.  Start: every kind of process and fault but one: where no barrier can
\* be mounted there is nothing to fail closed with.
CONSTANTS
    Threads = 2
    MaxQueue = 1
    MaxGen = 2
    NoCompletion = 1
    ProbeTimeout = 2
    Confirm = 1
    ProbeThrottle = 3
    BeatStale = 2
    ExtNoCompletion = 3
    Sample = 1
    VerifyTime = 3
    VerifyThrottle = 4
    Cooldown = 6
    Faults = {"self", "storage", "freeze", "dog", "die"}
    Roles = {"app", "mapped", "captured", "bridge", "writer", "isolated", "plain"}
    MaxSessions = 2
    MaxRounds = 1
    MaxFlips = 1
    StartFaults = {"setns", "umount", "attach", "bind", "disk", "timeout", "death", "send"}
SPECIFICATION HostSpec
INVARIANTS
    SidesSound
    CountsKept
PROPERTIES
    AbortedWasStalled StallEnds AnswersHonest RequestsAnswered AdmittedAgain
CHECK_DEADLOCK FALSE
