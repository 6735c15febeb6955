CONSTANTS
    u1 = u1  r1 = r1  r2 = r2
    NoReplica = NoReplica
    Replicas = {r1, r2}
    Units = {u1}
    Temps = {36, 50}
    MinTemp = 33
    MaxTemp = 41
    LogInterval = 0
    HasAdmins = TRUE
    MaxNow = 1
    MaxReadings = 2
    MaxErrors = 1
    MaxCrashes = 1
    MaxLockLosses = 1
SPECIFICATION FairSpec
INVARIANTS TypeOK CreateNeverConflicts OneMailPerEpisode TickSettles
PROPERTIES AlertsConverge ImplementsAlertBook
