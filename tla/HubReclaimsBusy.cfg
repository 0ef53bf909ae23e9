\* One worker reclaims memory while the other forwards.
SPECIFICATION Spec
CONSTANTS
    sa = sa
    sb = sb
    sc = sc
    x1 = x1
    x2 = x2
    x3 = x3
    w1 = w1
    w2 = w2
    h1 = h1
    l1 = l1
    l2 = l2
    None = None
    Services = {sa, sb}
    Sessions = {x1, x2}
    ServiceOf <- MCServiceOf
    Leases = {}
    MaxTtl = 1
    MaxConcurrency = 2
    Workers = {w1, w2}
    Handlers = {}
    Once = {}
    Usage <- MCUsage
    Memory = 3
    Free <- MCFree
    Faults = {}
INVARIANTS
    ReclaimsOnlyIdle
\* The hub rests when every request has been answered.
CHECK_DEADLOCK FALSE
