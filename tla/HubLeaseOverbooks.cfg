\* Two leases take the two slots while a session's service starts.
SPECIFICATION Spec
CONSTANTS
    sa = sa
    sb = sb
    sc = sc
    x1 = x1
    x2 = x2
    x3 = x3
    w1 = w1
    w2 = w2
    h1 = h1
    l1 = l1
    l2 = l2
    None = None
    Services = {sa}
    Sessions = {x1}
    ServiceOf <- MCServiceOf
    Leases = {l1, l2}
    MaxTtl = 1
    MaxConcurrency = 2
    Workers = {w1, w2}
    Handlers = {}
    Once = {}
    Usage <- MCUsage
    Memory = 3
    Free <- MCFree
    Faults = {}
INVARIANTS
    UsageWithinDevice
\* The hub rests when every request has been answered.
CHECK_DEADLOCK FALSE
