\* A worker and an HTTP handler compete for one service; commands fail; no ONCE service.
SPECIFICATION FairSpec
CONSTANTS
    sa = sa
    sb = sb
    sc = sc
    x1 = x1
    x2 = x2
    x3 = x3
    w1 = w1
    w2 = w2
    h1 = h1
    l1 = l1
    l2 = l2
    None = None
    Services = {sa, sb}
    Sessions = {x1, x3}
    ServiceOf <- MCServiceOf
    Leases = {}
    MaxTtl = 1
    MaxConcurrency = 1
    Workers = {w1}
    Handlers = {h1}
    Once = {}
    Usage <- MCUsage
    Memory = 3
    Free <- MCFree
    Faults = {"start", "stop", "health"}
PROPERTIES
    EverySessionSettles
    RequestsAnswered
\* The hub rests when every request has been answered.
CHECK_DEADLOCK FALSE
