\* The log thread and the main loop: root and two applications send.  The registrations:
\* two applications of which one runs, two host processes, two configurations.
CONSTANTS
    Uids = {"root", "a1", "a2"}
    Root = "root"
    Packets <- MCPackets
    Apps = {"x", "y"}
    SocketMax = 1
    MaxRecords = 2
    Window = 2
    MaxTracked = 1
    FlushBatch = 2
    MaxLines = 1
    MaxAttempts = 2
    PerCycle = 1
    MaxSends = 5
    MaxTime = 2
    MaxCrashes = 1
    AppUids = {"a", "b"}
    Stable = {"b"}
    Running = {"a"}
    MaxVersion = 2
    MaxGen = 2
    SkipLimit = 2
    Faults = {"spawn", "kill", "die", "reject", "late", "reader"}
SPECIFICATION HSpec
CONSTRAINT Short
INVARIANTS LogHonest NothingForgotten SnapshotSound
PROPERTIES SnapshotCatchesUp RefusedWithReason CounterSpec RetriesEnd
CHECK_DEADLOCK FALSE
