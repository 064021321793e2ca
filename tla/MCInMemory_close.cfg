\* One sentinel for two tasks that wait on the same channel.
SPECIFICATION Spec
CONSTANTS
    a = a
    b = b
    g = g
    r1 = r1
    r2 = r2
    m1 = m1
    m2 = m2
    Channels <- MCChannels
    Groups <- MCGroups
    Receivers <- MCReceivers
    Messages <- MCMessages
    Capacities <- MCOneCapacity
    Shared <- MCShared
    MaxPuts = 2
PROPERTIES
    CloseUnblocksEveryone
CHECK_DEADLOCK FALSE
