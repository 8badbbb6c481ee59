SPECIFICATION Spec
CONSTANTS
    a = a
    Workers = {w1, w2}
    Keys = {a, b}
    Nodes = {n1, n2, n3, n4}
    TtlOf <- MCTtlOf
    NegativeTtl = 1
    MaxDelay = 1
    MaxTime = 3
    Loads <- MCLoads
SYMMETRY Symmetry
INVARIANTS
    CacheConsistent
    NeverStale
PROPERTIES
    LeavesTogether
