CONSTANTS
    u1 = u1  u2 = u2  m1 = m1
    None = None
    Units = {u1, u2}
    Macs = {m1}
    Temps = {1, 3}
    Kinds = {"out_of_range", "overdue"}
    SafeMin = 1  SafeMax = 2
    Interval = 1
    Day = 2
    Asked = {1}
    Skew = 1
    MaxNow = 2
    MaxReadings = 2
    MaxAlerts = 1
    MaxActions = 1
SPECIFICATION MCSpec
SYMMETRY Symmetry
INVARIANTS TypeOK BoardTruthful ReportTruthful AnalyticsTruthful FiledUnderBoundUnit
CHECK_DEADLOCK FALSE
