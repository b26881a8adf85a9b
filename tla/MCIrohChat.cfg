SPECIFICATION FairSpec
CONSTANTS
    a = a
    b = b
    Node = {a, b}
    MaxChannels = 2
    MaxTexts = 2
    MaxWork = 3
    Wide = {1}
INVARIANTS
    TypeOK
    NothingTwiceOrAmiss
    NothingLostWhileOpen
PROPERTIES
    SentIsShown
