SPECIFICATION FairSpec
CONSTANTS
    h1 = h1
    h2 = h2
    Hash = {h1, h2}
    MaxRun = 1
    Trouble = {"noSave", "noSession"}
    MaxTasks = 2
    QueueBound = 1
    MaxMeta = 1
    MaxConcurrent = 1
    IndexCap = 1
    CaptureCap = 1
INVARIANTS
    TypeOK
PROPERTIES
    ReadyIsIndexed
