CONSTANTS
    c1 = c1  c2 = c2  x1 = x1  t1 = t1  t2 = t2  v1 = v1  v2 = v2  v3 = v3  p1 = p1  p2 = p2  a1 = a1
    Client = {c1, x1}
    Banned = {x1}
    Target = {t1, t2}
    Value = {v1, v2, v3}
    Peer = {p1, p2}
    Address = {a1}
    MaxSeq = 2
    MaxNow = 5
    Rotate = 1
    MaxInfoHashes = 1
    MaxPeers = 2
    MaxImmutable = 2
    MaxMutable = 1
    SampleSize = 2
SPECIFICATION Spec
INVARIANTS TypeOK FreshTokensHonoured OneConditionalWinner UsedValuesStay
PROPERTIES SeqNeverFalls OldTokensDie
SYMMETRY Symmetry
