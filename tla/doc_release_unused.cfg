SPECIFICATION Spec
CONSTANTS
    h1 = h1  h2 = h2  h3 = h3  i1 = i1  i2 = i2  i3 = i3  i4 = i4  i5 = i5
    v1 = v1  c1 = c1  c2 = c2  G1 = G1  Empty = Empty
    Host = {h1, h2}
    IP = {i1}
    View = {v1}
    Cidr = {c1}
    Pool <- OneNetPool
    Zone = {"zone"}
    ZoneOf <- OneZone
    FaultKinds = {}
    MaxFaults = 0
    GroupName = {G1}
    GroupKey <- OneNetKeys
    GroupConfigs <- AnyConfigs
    VInterval = 0
PROPERTIES ReleasesOwn
