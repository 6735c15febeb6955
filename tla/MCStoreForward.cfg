CONSTANTS
    m1 = m1  m2 = m2
    Macs = {m1, m2}
    BoundMacs = {m1}
    ChanCap = 2
    SpoolMax = 2
    MaxObs = 4
    MaxNetErrors = 2
    MaxDiskErrors = 1
    MaxReadErrors = 1
    MaxCrashes = 1
    MaxStops = 1
SPECIFICATION MCSpec
INVARIANTS TypeOK OnlyReadErrorsDrop OrderKept
PROPERTIES TrimKeepsNewest KeepsCustody StopEnds
