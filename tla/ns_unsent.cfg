SPECIFICATION PromptSpec
CONSTANTS
    ns1 = ns1  ns2 = ns2  None = None
    Namespace = {ns1, ns2}
    Inhabited = {}
    ResyncPeriod = 0
    MaxEvents = 0
PROPERTIES EmptySent
CHECK_DEADLOCK FALSE
