SPECIFICATION FairSpec
CONSTANTS
    w1 = w1
    w2 = w2
    Workers = {w1, w2}
    Tasks = {t1, t2, t3}
    LocalTasks = {t1, t2}
    WorkerOf <- MCWorkerOf
    Failures = {"redis", "cancel"}
PROPERTIES
    EndsUnlessCancelled
CHECK_DEADLOCK FALSE
INVARIANTS
    TypeOK
    FlightTable
    OneComputePerWorker
