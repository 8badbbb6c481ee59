SPECIFICATION FairSpec
CONSTANTS
    s1 = s1
    a1 = a1
    a2 = a2
    c1 = c1
    i1 = i1
    Calls = {s1, a1, a2, c1, i1}
    Workloads = {{s1, a1}, {a1, a2}, {s1, a2}, {c1, i1}}
    Kind <- MCKind
    Timed = {s1, a1, c1}
    Stuck = {s1}
    Threads = {t1, t2}
    MaxPending = 1
INVARIANTS
    TypeOK
    Isolated
    NothingStranded
    NoLateStart
PROPERTIES
    NeverLate
    EveryCallReturns
CHECK_DEADLOCK FALSE
