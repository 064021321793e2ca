\* Two tasks, three calls, one failure, loss or expiry.
SPECIFICATION Spec
CONSTANTS
    r = r
    q = q
    x = x
    Tasks <- MCTasks
    Channels <- MCChannels
    Uses <- MCUses
    Timed <- MCTimed
    MaxCalls = 3
    MaxEvents = 1
INVARIANTS
    TypeOK
    AtLeastOnce
    ExchangeKnown
    CachedIsBound
    LayerLeavesNothing
PROPERTIES
    CallsEnd
\* A receive without timeout may wait for ever, and calls are bounded.
CHECK_DEADLOCK FALSE
