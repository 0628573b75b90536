SPECIFICATION Spec
CONSTANTS
    w1 = w1
    w2 = w2
    s1 = s1
    s2 = s2
    spool = spool
    Worker <- MCWorker
    Scheduler <- MCScheduler
    Object <- MCObject
    UpsertType <- MCUpsertType
    DebtType <- MCDebtType
    RecurringType <- MCRecurringType
    FullType <- MCFullType
    Request <- MCRequest
    System = System
    Nobody = Nobody
    Gone = Gone
    NoJob = NoJob
    MaxAttempts = 2
    MaxVersion = 0
    MaxBucket = 1
    MaxManual = 0
    MaxRevives = 1
    MaxSlips = 2
INVARIANTS
    FailuresBounded
    SchedulerSingleton
PROPERTIES
    EveryJobSettles
    RecurringRunsAgain
CHECK_DEADLOCK FALSE
