\* Two senders, two receivers, two or three calls, one failure; with and
\* without Pub/Sub and expiry.
SPECIFICATION Spec
CONSTANTS
    s1 = s1
    s2 = s2
    r1 = r1
    r2 = r2
    x = x
    y = y
    Senders <- MCSenders
    Receivers <- MCReceivers
    Inbox = x
    Others <- MCOthers
    Mixes <- MCMixes
    MaxFaults = 1
INVARIANTS
    TypeOK
    ExactlyOnePlace
    NoImmortalKey
PROPERTIES
    Delivered
\* A receive without a timeout waits for a send that may not come.
CHECK_DEADLOCK FALSE
