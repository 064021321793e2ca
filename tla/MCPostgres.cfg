\* Two tasks, two calls, a pool of one connection, one failure, expiry or
\* interval.
SPECIFICATION Spec
CONSTANTS
    r = r
    q = q
    x = x
    y = y
    NoTask = NoTask
    Tasks <- MCTasks
    Channels <- MCChannels
    Uses <- MCUses
    PoolSize = 1
    MaxCalls = 2
    MaxEvents = 1
    Backlog <- MCBacklog
INVARIANTS
    TypeOK
    ExactlyOnePlace
    SendersInOrder
    OnePruneAnInterval
    TablesBeforeUse
    PoolsEndWithLayer
    FanOutReaches
PROPERTIES
    WaitsForMessage
    CallsEnd
\* A receive without timeout may wait for ever, and calls are bounded.
CHECK_DEADLOCK FALSE
