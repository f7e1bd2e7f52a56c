CONSTANTS
    t1 = t1
    t2 = t2
    Threads = {t1, t2}
    Dirs = {"d", "e"}
    Files = {"x"}
    Handles = {h1}
    MaxIno = 6
    MaxReq = 4
    MovesRace = FALSE
    Entries = {"open", "openatAbs"}
SPECIFICATION FuseSpec
CONSTRAINT HooksBound
SYMMETRY ThreadSymmetry
PROPERTIES
    RedirectHonoured
CHECK_DEADLOCK FALSE
