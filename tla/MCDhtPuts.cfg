SPECIFICATION FairSpec
CONSTANTS
    n1 = n1
    n2 = n2
    t1 = t1
    t2 = t2
    c1 = c1
    c2 = c2
    s1 = s1
    s2 = s2
    e1 = e1
    e2 = e2
    Node = {n1}
    Bootstrap = {n1}
    K = 1
    Rank <- SameRank
    Target = {t1}
    OwnIds = {}
    Client = {c1, c2}
    Signature = {s1, s2}
    OtherCode = {e1, e2}
    Carries = {"value"}
    Puts <- MutablePuts
    Gets <- ValueGets
INVARIANTS
    CallersAreServed
    UnstartedPutHasLookup
PROPERTIES
    StorePromise
    EveryCallAnswered
