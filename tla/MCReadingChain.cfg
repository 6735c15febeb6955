CONSTANTS
    o1 = o1  o2 = o2  w1 = w1  w2 = w2  w3 = w3
    Orgs = {o1, o2}
    Writers = {w1, w2, w3}
    NoWriter = NoWriter
    LockKey <- CollidingKeys
    Data = {d1}
    Notes = {n1}
    Temps <- MixedTemps
    MaxSeq = 1
SPECIFICATION FairSpec
INVARIANTS TypeOK ChainSound BrokenOnlyAtNegativeZero
PROPERTIES ImplementsLog InsertEnds
