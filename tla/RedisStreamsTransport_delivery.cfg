SPECIFICATION FairSpec
CONSTANTS
    Messages = {m1}
    Consumers = {c1, c2}
    Slots = 2
    MaxAttempts = 3
    MaxFaults = 3
INVARIANTS
    TypeOK
    NothingVanishes
    HandedOutOnce
CHECK_DEADLOCK FALSE
PROPERTIES
    SettledOrStranded
