CONSTANTS
    r1 = r1  r2 = r2  r3 = r3  r4 = r4
    e1 = e1  e2 = e2
    Requests = {r1, r2, r3, r4}
    Emails = {e1, e2}
    Roles = {"admin", "staff"}
    Ttl = 1
    MaxNow = 1
SPECIFICATION FairSpec
INVARIANTS TypeOK AccountsSound SpentLinksFail
PROPERTIES RequestsEnd ImplementsLooseBook
