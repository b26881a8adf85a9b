SPECIFICATION Spec
CONSTANTS
    a = a
    b = b
    Node = {a, b}
    Server = {b}
    Addresses <- AddressesDef
    Targets <- TargetsDef
    Asks <- AsksDef
    Answers <- AnswersDef
    Samples <- SamplesDef
    Foreign <- ForeignDef
    NodeLists <- SomeNodes
    Timeout = 2
    CleanUpEvery = 1
    TidSpace = 2
    MaxAsks = 3
    MaxNet = 2
    MaxNow = 3
INVARIANTS
    RequestsSettleOnce
    ConversionsAgree
PROPERTIES
    KeepsRequests
CHECK_DEADLOCK FALSE
