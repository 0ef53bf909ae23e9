\* The watcher, its three threads, a hub with one slot and a rival client.
SPECIFICATION Spec
CONSTANTS
    asr = asr
    mine = mine
    rival = rival
    a = a
    b = b
    None = None
    Services = {asr}
    Sessions = {}
    ServiceOf <- MCServiceOf
    Leases = {mine, rival}
    MaxTtl = 4
    MaxConcurrency = 1
    Mine <- MCMine
    OthersTtl = {1}
    TtlSeconds = 4
    Latency = 1
    JoinSeconds = 1
    Cooldown = 2
    Characters = {a, b}
    Keyword <- MCKeyword
    Results <- MCResults
    BufferSize = 3
INVARIANTS
    TypeOK
    SlotWhileStreaming
    NewStreamAfterCooldown
PROPERTIES
    KeywordHeard
    RemindersSpaced
    SlotFreed
\* The watcher ends; the clock does not.
CHECK_DEADLOCK FALSE
