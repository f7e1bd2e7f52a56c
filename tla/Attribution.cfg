CONSTANTS
    Apps = {"a", "b"}
    Paths = {p1, p2}
    SameName <- MCSameName
    NamedIn <- MCNamedIn
    Directory = "dir"
    Sources = {"query_access"}
    Watchers <- MCWatchers
    Owners = {"shared"}
    Kinds = {"create", "close"}
    Ops = {"open:create"}
    Nobody = "none"
    HintWindow = 1
    RequestWindow = 1
    QueryWindow = 1
    Park = 1
    DupWindow = 1
    DedupWindow = 2
    MaxHints = 2
    MaxPending = 1
    MaxRecent = 6
    MaxDedup = 6
    SocketMax = 2
    MaxTime = 2
    MaxOps = 3
    pa = pa pb = pb ps = ps ua = ua ub = ub us = us ka = ka kb = kb ks = ks
    tb = tb tl = tl tw = tw self = self
    BinderThreads = {tb} LoopThreads = {tl} PoolThreads = {tw}
    Procs = {pa, pb, ps} UidOf <- MCUidOf PkgOf <- MCPkgOf ByUid <- MCByUid
    AppUids = {ua, ub} SelfUid = self
    CurrentMax = 1
    SlotMax = 2
    FuseMax = 3
    SavedMax = 3
    HardMax = 4
    ClearMax = 2
    NoProc = NoProc NoUid = NoUid NoPkg = NoPkg
SPECIFICATION AttributionSpec
SYMMETRY AnyPath
CONSTRAINT Apart
INVARIANTS
    SavedIsOurs
PROPERTIES
    RightCaller RecordsTrue
CHECK_DEADLOCK FALSE
