\* A discard whose read fails.
SPECIFICATION Spec
CONSTANTS
    w1 = w1
    w2 = w2
    w3 = w3
    x = x
    y = y
    Callers <- MCCallers
    Channels <- MCChannels
    Attempts = 2
    MaxCalls = 2
    MaxFaults = 1
INVARIANTS
    DiscardTakesEffect
CHECK_DEADLOCK FALSE
