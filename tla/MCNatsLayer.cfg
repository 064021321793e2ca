\* Three callers, two receivers, three calls, one failing request, two rounds.
SPECIFICATION LayerSpec
CONSTANTS
    w1 = w1
    w2 = w2
    w3 = w3
    r = r
    q = q
    x = x
    y = y
    NoChannel = NoChannel
    Callers <- MCCallers
    Channels <- MCChannels
    Tasks <- MCTasks
    Timed <- MCTimed
    Mixes <- MCMixes
    Attempts = 2
    MaxCalls = 3
    MaxFaults = 1
SYMMETRY Symmetric
INVARIANTS
    TypeOK
    RoundsAccountedFor
    StableMembersReached
    LayerTypeOK
    AtLeastOnce
    LayerLeavesNothing
PROPERTIES
    ImplementsContract
\* Every call but a receive without timeout returns, and calls are bounded.
CHECK_DEADLOCK FALSE
