SPECIFICATION Spec
CONSTANTS
    org1 = org1
    org2 = org2
    t1 = t1
    t2 = t2
    h1 = h1
    Organisms = {org1, org2}
    Instances <- InstancesMC
    Tasks = {t1, t2}
    Hibernations = {h1}
    LastStep = 2
    Loads <- LoadsMC
INVARIANTS
    TypeOK
    StepsKept
    HibernationKept
CHECK_DEADLOCK FALSE
