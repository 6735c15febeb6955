CONSTANTS
    o1 = o1  o2 = o2  w1 = w1  n1 = n1  n2 = n2
    Orgs = {o1, o2}
    Writers = {w1}
    NoWriter = NoWriter
    LockKey <- OwnKeys
    Data = {d1}
    Notes = {n1, n2}
    Temps <- SomeTemps
    MaxSeq = 2
    MaxTampers = 2
SPECIFICATION TamperSpec
INVARIANT VerifiedMeansAccepted
PROPERTY BreaksPinpointed
SYMMETRY Symmetric
