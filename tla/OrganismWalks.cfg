SPECIFICATION FairSpec
CONSTANTS
    a = a
    b = b
    i1 = i1
    i2 = i2
    i3 = i3
    r1 = r1
    r2 = r2
    b1 = b1
    b2 = b2
    Capabilities = {a, b}
    Inputs = {i1, i2, i3}
    Requests = {r1, r2}
    Branches = {b1, b2}
    Behaviours <- MCBehaviours
    Workloads <- MCWorkloads
    MaxHops = 3
INVARIANTS
    SharedIsPure
    SplitDecided
    SwarmCovers
PROPERTIES
    EveryWalkEnds
CHECK_DEADLOCK FALSE
