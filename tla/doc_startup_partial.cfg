SPECIFICATION SystemSpec
CONSTANTS
    cm = cm  ing = ing  G1 = G1  n1 = n1  n2 = n2  a = a  b = b  c = c
    Empty = Empty  Absent = Absent  Unknown = Unknown  None = None
    Resource = {cm, ing}
    GroupName = {G1}
    Net = {n1}
    Host = {a, b, c}
    KindOf <- BothKinds
    Contents <- FewContents
    ResyncPeriod = 0
    MaxEvents = 0
    MaxPending = 0
    MaxStarters = 1
PROPERTIES FullySynced
CHECK_DEADLOCK FALSE
