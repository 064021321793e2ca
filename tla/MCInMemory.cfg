\* Every capacity; a task of its own on a, two tasks on b.
SPECIFICATION Spec
CONSTANTS
    a = a
    b = b
    g = g
    r1 = r1
    r2 = r2
    m1 = m1
    m2 = m2
    Channels <- MCChannels
    Groups <- MCGroups
    Receivers <- MCReceivers
    Messages <- MCMessages
    Capacities <- MCCapacities
    Shared <- MCShared
    MaxPuts = 2
INVARIANTS
    TypeOK
    NoLostWakeup
    Accounting
    CloseWakes
PROPERTIES
    CloseUnblocks
    ImplementsChannelLayer
\* A closed layer with nobody waiting has nothing left to do.
CHECK_DEADLOCK FALSE
