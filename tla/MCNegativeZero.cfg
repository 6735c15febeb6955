CONSTANTS
    o1 = o1  o2 = o2  w1 = w1  w2 = w2  w3 = w3
    Orgs = {o1}
    Writers = {w1, w2}
    NoWriter = NoWriter
    LockKey <- OneKey
    Data = {d1}
    Notes = {n1}
    Temps <- MixedTemps
    MaxSeq = 2
SPECIFICATION Spec
INVARIANT HonestChainVerifies
