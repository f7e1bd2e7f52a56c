\* Worker: rounds killed anywhere, a restored private directory; or every kind of request
\* and two host generations over a history of one entry.  Loop: global changes, host
\* exits and companion mounts.  Fair steps of whoever moves.
\* The bounds end every behaviour of the worker, so it may stop.
SPECIFICATION MCFairSpec
CONSTANTS
    Targets <- FourTargets
    AttachRoot = "emulated"
    UserRoot = "user"
    AliasRoots = {"mntuser"}
    AliasTargets = {}
    PrivateDirs = {"dir"}
    Depth <- FourDepths
    Sources = {"sandbox", "mapping"}
    Configs <- RootConfigs
    MaxDetachAttempts = 2
    KnownDevsLimit = 4
    MaxUnmountPasses = 4
    MaxInst = 1
    MaxHostGen = 1
    MaxMountId = 6
    MaxDepth = 3
    AnyId = FALSE
    Faults = {"kill"}
    OtherConfigs <- AllConfigs
    OtherFaults = {"death"}
    OtherPrivateDirs = {}
    OtherDevsLimit = 1
    OtherHostGen = 2
    OtherAnyId = FALSE
    LoopKinds = {"full", "host", "companion"}
INVARIANTS
    NoStacking
    CurrentMeansServed
PROPERTIES
    Converges
    Rests
    MissingGetsMounted
CHECK_DEADLOCK FALSE
