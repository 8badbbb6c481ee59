SPECIFICATION FairSpec
CONSTANTS
    w1 = w1
    w2 = w2
    Workers = {w1, w2}
    Tasks = {t1, t2}
    LocalTasks = {t1, t2}
    WorkerOf <- MCWorkerOf
    Failures = {"cancel"}
PROPERTIES
    EveryRequestEnds
CHECK_DEADLOCK FALSE
