SPECIFICATION FairSpec
CONSTANTS
    cm = cm  ing = ing  G1 = G1  n1 = n1  n2 = n2  a = a  b = b  c = c
    Empty = Empty  Absent = Absent  Unknown = Unknown  None = None
    Resource = {ing}
    GroupName = {G1}
    Net = {n1}
    Host = {a, b, c}
    KindOf <- BothKinds
    Contents <- MixedContents
    ResyncPeriod = 0
    MaxEvents = 1
    MaxPending = 2
    MaxStarters = 1
INVARIANTS TypeOK RestCovered
PROPERTIES HostsCovered ControllerReturns StartupSends ComesToRest
CHECK_DEADLOCK FALSE
