\* A pump that raises an error that is no shutdown error.
SPECIFICATION Spec
CONSTANTS
    g1 = g1
    g2 = g2
    Groups <- MCGroups
    Codes <- MCCodes
    Abnormal = 1006
    NoCode <- MCNoCode
    ChannelPumpErrors <- MCUnexpected
    WebsocketPumpErrors <- MCNone
    BackendErrors <- MCNone
    HooksThatRaise <- MCNone
    MaxEvents = 1
INVARIANTS
    CleansUpAlways
CHECK_DEADLOCK FALSE
