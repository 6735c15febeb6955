CONSTANTS
    u1 = u1  r1 = r1  r2 = r2
    NoReplica = NoReplica
    Replicas = {r1}
    Units = {u1}
    Temps = {36, 50}
    MinTemp = 33
    MaxTemp = 41
    LogInterval = 1
    HasAdmins = TRUE
    MaxNow = 1
    MaxReadings = 1
    MaxErrors = 1
    MaxCrashes = 0
    MaxLockLosses = 0
SPECIFICATION FairSpec
PROPERTY EveryAlertMailed
