SPECIFICATION FairSpec
CONSTANTS
    Messages = {m1}
    Consumers = {c1, c2}
    Slots = 1
    MaxAttempts = 2
    MaxFaults = 1
PROPERTIES
    EveryMessageSettles
CHECK_DEADLOCK FALSE
