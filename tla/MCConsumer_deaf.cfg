\* A layer whose receive raises a connection error.
SPECIFICATION Spec
CONSTANTS
    g1 = g1
    g2 = g2
    Groups <- MCGroups
    Codes <- MCCodes
    Abnormal = 1006
    NoCode <- MCNoCode
    ChannelPumpErrors <- MCExpected
    WebsocketPumpErrors <- MCNone
    BackendErrors <- MCNone
    HooksThatRaise <- MCNone
    MaxEvents = 1
PROPERTIES
    Hears
CHECK_DEADLOCK FALSE
