CONSTANTS
    m1 = m1  m2 = m2
    Macs = {m1}
    BoundMacs = {m1}
    ChanCap = 2
    SpoolMax = 3
    MaxObs = 4
    MaxNetErrors = 2
    MaxDiskErrors = 0
    MaxReadErrors = 1
    MaxCrashes = 0
    MaxStops = 0
SPECIFICATION Spec
INVARIANT NothingDropped
