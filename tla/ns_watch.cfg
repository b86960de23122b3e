SPECIFICATION FairSpec
CONSTANTS
    ns1 = ns1  ns2 = ns2  None = None
    Namespace = {ns1, ns2}
    Inhabited = {ns1}
    ResyncPeriod = 30
    MaxEvents = 2
INVARIANTS TypeOK WorkerOwns FollowingAtRest GatheredAtRest
PROPERTIES InformersFollow ResourcesCovered WorkerReturns
CHECK_DEADLOCK FALSE
