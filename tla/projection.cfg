SPECIFICATION ProjectionSpec
CONSTANTS
    w1 = w1
    w2 = w2
    vendor = vendor
    product = product
    System = System
    Nobody = Nobody
    Gone = Gone
    NoJob = NoJob
    Worker <- MCWorker
    Scheduler <- MCScheduler
    Object <- MCObject
    Vendor <- MCVendor
    VendorOf <- MCVendorOf
    IdOrder <- MCIdOrder
    VendorOrder <- MCVendorOrder
    UpsertType <- MCUpsertType
    DebtType <- MCDebtType
    RecurringType <- MCRecurringType
    FullType <- MCFullType
    Request <- MCRequest
    MaxAttempts = 1
    MaxVersion = 2
    MaxBucket = 0
    MaxManual = 1
    MaxRevives = 0
    MaxSlips = 1
    MaxMishaps = 1
    MaxCopies = 2
    Deletable = {product}
INVARIANTS
    ProjectionTypeOK
    SettledReachedRemote
    NoLockCycle
    LagIsVisible
    GranularJobsNeverDuplicate
SYMMETRY DispatchersAlike
CHECK_DEADLOCK FALSE
