SPECIFICATION Spec
CONSTANTS
    a = a
    b = b
    aka = aka
    e1 = e1
    e2 = e2
    e3 = e3
    Envelopes = {e1, e2, e3}
    Capabilities = {a, b}
    AliasOf <- MCAliasOf
    Setups <- MCSetups
    MaxIterations = 3
    MaxChanges = 2
INVARIANTS
    TypeOK
    PipelineVerdict
    FollowsRouting
    AnswersAreWalks
CHECK_DEADLOCK FALSE
