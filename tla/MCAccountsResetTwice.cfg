CONSTANTS
    r1 = r1  r2 = r2  r3 = r3  r4 = r4
    e1 = e1  e2 = e2
    Requests = {r1, r2, r3, r4}
    Emails = {e1}
    Roles = {"admin"}
    Ttl = 1
    MaxNow = 0
SPECIFICATION FairSpec
PROPERTY ImplementsAccountBook
