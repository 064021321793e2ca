\* A client that leaves while a channel message still waits.
SPECIFICATION Spec
CONSTANTS
    g1 = g1
    g2 = g2
    Groups <- MCGroups
    Codes <- MCCodes
    Abnormal = 1006
    NoCode <- MCNoCode
    ChannelPumpErrors <- MCNone
    WebsocketPumpErrors <- MCNone
    BackendErrors <- MCNone
    HooksThatRaise <- MCNone
    MaxEvents = 2
INVARIANTS
    ReportsClientCode
CHECK_DEADLOCK FALSE
