CONSTANTS
    t1 = t1
    t2 = t2
    Threads = {t1, t2}
    Dirs = {"d", "e"}
    Files = {"x"}
    Handles = {h1}
    MaxIno = 6
    MaxReq = 4
    MovesRace = FALSE
    Entries = {"open", "openatRel"}
SPECIFICATION FuseSpec
CONSTRAINT HooksBound
SYMMETRY ThreadSymmetry
INVARIANTS
    TableSound ViewEnforced DirsFound
PROPERTIES
    ListingCurrent Confined ReadOnlyKept
CHECK_DEADLOCK FALSE
