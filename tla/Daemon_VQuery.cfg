CONSTANTS
    Paths <- MCPaths
    Dirs0 <- MCDirs
    Inodes = {1, 2, 3, 4, 5}
    Packages = {"p", "q"}
    Profiles <- MCProfiles
    Profile0 <- MCProfile0
    QueueMax = 2
    MaxWatches = 4
    CategoryDirs <- MCCategoryDirs
    VisitMax = 2
    MaxChanges = 3
    p1 = p1
    p2 = p2
    s1 = s1
    s2 = s2
    Zygote = Zygote
    Dead = Dead
    None = None
SPECIFICATION DaemonSpec
CONSTRAINT Apart
PROPERTIES
    AnsweredInTime
CHECK_DEADLOCK FALSE
