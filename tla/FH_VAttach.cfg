\* One application, the shared host, clones and attaches that may fail.
\* The bounds end every behaviour of the worker, so it may stop.
SPECIFICATION Spec
CONSTANTS
    Targets <- TwoTargets
    AttachRoot = "emulated"
    UserRoot = "user"
    AliasRoots = {}
    AliasTargets = {}
    PrivateDirs = {}
    Depth <- TwoDepths
    Sources = {"sandbox", "mapping"}
    Configs <- HostAndOff
    MaxDetachAttempts = 2
    KnownDevsLimit = 4
    MaxUnmountPasses = 4
    MaxInst = 1
    MaxHostGen = 1
    MaxMountId = 3
    MaxDepth = 2
    AnyId = FALSE
    Faults = {"attach", "clone"}
PROPERTIES
    AttachKeepsView
CHECK_DEADLOCK FALSE
