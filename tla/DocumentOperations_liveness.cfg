SPECIFICATION FairSpec
CONSTANTS
    m1 = m1
    m2 = m2
    m3 = m3
    m4 = m4
    k1 = k1
    c1 = c1
    c3 = c3
    f1 = f1
    f3 = f3
    Messages = {m1, m2}
    Workloads = {{m1, m2}}
    Ops = {k1, c1}
    Fingerprints = {f1}
    KeyOf <- MCKeyOf
    ConflictKeyOf <- MCConflictKeyOf
    FpOf <- MCFpOf
    Invalid = {m2}
    Unserializable = {m2}
    Handlers = {h1, h2}
    Drainers = {r1}
    MaxAttempts = 2
    DrainLimit = 1
    MaxFaults = 1
    MaxOvertaken = 1
CHECK_DEADLOCK FALSE
PROPERTIES
    EventuallyAcked
    OutboxDrains
