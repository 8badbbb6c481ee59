SPECIFICATION Spec
CONSTANTS
    m1 = m1
    m2 = m2
    m3 = m3
    m4 = m4
    k1 = k1
    c1 = c1
    c3 = c3
    f1 = f1
    f3 = f3
    Messages = {m1, m2, m3, m4}
    Workloads <- MCWorkloads
    Ops = {k1, c1, c3}
    Fingerprints = {f1, f3}
    KeyOf <- MCKeyOf
    ConflictKeyOf <- MCConflictKeyOf
    FpOf <- MCFpOf
    Invalid = {m3}
    Unserializable = {}
    Handlers = {h1, h2}
    Drainers = {r1}
    MaxAttempts = 2
    DrainLimit = 1
    MaxFaults = 2
    MaxOvertaken = 1
CONSTRAINT Mishaps
SYMMETRY Symmetry
INVARIANTS
    TypeOK
    AckedIsDurable
    PublishedIsTheOutcome
    OneOwner
    AttemptBudget
PROPERTIES
    OutcomeIsFinal
    ImplementsLedger
CHECK_DEADLOCK FALSE
