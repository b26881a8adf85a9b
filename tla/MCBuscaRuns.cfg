SPECIFICATION Spec
CONSTANTS
    h1 = h1
    h2 = h2
    Hash = {h1}
    MaxRun = 2
    Trouble = {"crash", "deaf", "noNode"}
    MaxTasks = 1
    QueueBound = 1
    MaxMeta = 1
    MaxConcurrent = 1
    IndexCap = 2
    CaptureCap = 1
INVARIANTS
    IndexIsSound
    ResolvedIsIndexed
