\* Two calls at a time, one prompt under one strategy or none, two items, one reload.
SPECIFICATION Spec
CONSTANTS
    None = None
    prompt = prompt
    matched = matched
    c1 = c1
    c2 = c2
    LOCAL_ = LOCAL_
    Queries = {prompt}
    Strategies = {matched}
    Tiers = {LOCAL_}
    Calls = {c1, c2}
    MaxId = 2
    MaxBanks = 2
    Dim <- MCDim
INVARIANTS
    TypeOK
    RowsPaired
    OneSlot
PROPERTIES
    FeedbackStored
    FeedbackEnds
CHECK_DEADLOCK FALSE
