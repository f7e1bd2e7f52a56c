CONSTANTS
    Apps = {"a"}
    Self = "a"
    Threads = {t1, t2}
    Writers = {t1}
    Changing = {"a"}
    Kept <- MCKept
    Written <- MCWritten
    MaxWrites = 2
    MaxFails = 0
SPECIFICATION LiveSpec
INVARIANTS CacheHonest
PROPERTIES CatchesUp
