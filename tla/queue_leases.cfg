SPECIFICATION Safety
CONSTANTS
    w1 = w1
    w2 = w2
    s1 = s1
    s2 = s2
    spool = spool
    Worker <- MCWorker
    Scheduler <- NoScheduler
    Object <- MCObject
    UpsertType <- MCUpsertType
    DebtType <- MCDebtType
    RecurringType <- MCRecurringType
    FullType <- MCFullType
    Request <- MCRequest
    System = System
    Nobody = Nobody
    Gone = Gone
    NoJob = NoJob
    MaxAttempts = 1
    MaxVersion = 2
    MaxBucket = 0
    MaxManual = 1
    MaxRevives = 1
    MaxSlips = 1
INVARIANTS
    TypeOK
    LockedWhileRunning
    SupersededIsCovered
PROPERTIES
    LeaseRespected
    DebtStaysActionable
    KeepsPromise
SYMMETRY DispatchersAlike
CHECK_DEADLOCK FALSE
