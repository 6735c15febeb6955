CONSTANTS
    r1 = r1  r2 = r2  r3 = r3
    Requests = {r1, r2, r3}
    MaxEvents = 3
    MaxFaults = 1
SPECIFICATION Spec
SYMMETRY Symmetry
INVARIANTS TypeOK ExtraCustomerNeedsRace NeverOverbilled QuantityTracks RowFollowsStripe
