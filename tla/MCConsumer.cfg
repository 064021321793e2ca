SPECIFICATION Spec
CONSTANTS
    g1 = g1
    g2 = g2
    Groups <- MCTwoGroups
    Codes <- MCCodes
    Abnormal = 1006
    NoCode <- MCNoCode
    ChannelPumpErrors <- MCUnexpected
    WebsocketPumpErrors <- MCExpected
    BackendErrors <- ErrorKinds
    HooksThatRaise <- Hooks
    MaxEvents = 2
INVARIANTS
    TypeOK
    Tracked
    LeavesEveryGroup
    Shutdown
    AcceptedFirst
    Accounting
    DrainLeavesNothing
PROPERTIES
    Ends
\* __call__ returns: the consumer stops.
CHECK_DEADLOCK FALSE
