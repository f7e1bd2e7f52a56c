\* Worker: every failing call at once; or system mounts between rounds, arbitrary mount
\* ids and failing calls.  Loop: everything that wakes it, companion mounts it is not told of, a
\* process that may fail.
\* The bounds end every behaviour of the worker, so it may stop.
SPECIFICATION MCSpec
CONSTANTS
    Targets <- TwoTargets
    AttachRoot = "emulated"
    UserRoot = "user"
    AliasRoots = {}
    AliasTargets = {}
    PrivateDirs = {}
    Depth <- TwoDepths
    Sources = {"sandbox", "mapping"}
    Configs <- HostAndOff
    MaxDetachAttempts = 2
    KnownDevsLimit = 4
    MaxUnmountPasses = 4
    MaxInst = 1
    MaxHostGen = 1
    MaxMountId = 3
    MaxDepth = 2
    AnyId = FALSE
    Faults = {"umount", "disk", "attach", "bind", "kill", "forced", "barrier", "clone", "timeout", "death"}
    OtherConfigs <- HostAndOff
    OtherFaults = {"foreign", "disk", "umount", "attach", "barrier", "death"}
    OtherPrivateDirs = {}
    OtherDevsLimit = 4
    OtherHostGen = 1
    OtherAnyId = TRUE
    LoopKinds = {"apps", "full", "poll", "host", "control", "spawn", "companion"}
INVARIANTS
    TypeOK
    PoisonStopsInjection
PROPERTIES
    DetachesOwnLayersOnly
    NoRedundantRemount
CHECK_DEADLOCK FALSE
