SPECIFICATION ProjectionSpec
CONSTANTS
    w1 = w1
    w2 = w2
    vendor = vendor
    product = product
    System = System
    Nobody = Nobody
    Gone = Gone
    NoJob = NoJob
    Worker <- OneWorker
    Scheduler <- MCScheduler
    Object <- MCObject
    Vendor <- MCVendor
    VendorOf <- MCVendorOf
    IdOrder <- MCIdOrder
    VendorOrder <- MCVendorOrder
    UpsertType <- MCUpsertType
    DebtType <- MCDebtType
    RecurringType <- MCRecurringType
    FullType <- MCFullType
    Request <- MCRequest
    MaxAttempts = 2
    MaxVersion = 1
    MaxBucket = 0
    MaxManual = 1
    MaxRevives = 0
    MaxSlips = 0
    MaxMishaps = 0
    MaxCopies = 3
    Deletable = {}
INVARIANTS
    NoDuplicateRemote
CHECK_DEADLOCK FALSE
