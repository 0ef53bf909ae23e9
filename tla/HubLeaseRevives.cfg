\* A lease takes the slot while a session waits.
SPECIFICATION Spec
CONSTANTS
    sa = sa
    sb = sb
    sc = sc
    x1 = x1
    x2 = x2
    x3 = x3
    w1 = w1
    w2 = w2
    h1 = h1
    l1 = l1
    l2 = l2
    None = None
    Services = {sa}
    Sessions = {x1}
    ServiceOf <- MCServiceOf
    Leases = {l1}
    MaxTtl = 1
    MaxConcurrency = 1
    Workers = {w1}
    Handlers = {}
    Once = {}
    Usage <- MCUsage
    Memory = 3
    Free <- MCFree
    Faults = {}
PROPERTIES
    SettledIsFinal
\* The hub rests when every request has been answered.
CHECK_DEADLOCK FALSE
