SPECIFICATION Safety
CONSTANTS
    w1 = w1
    w2 = w2
    NoReading = NoReading
    NoRecord = NoRecord
    Keep = Keep
    Nothing = Nothing
    Worker <- MCWorker
    Capacity = 2
    Tare = {1, 2}
    FirstTare = 1
    MaxStatements = 2
    MaxPrints = 0
    MaxSpent = 0
    MaxChanges = 1
INVARIANTS
    NoPhantomUsage
CHECK_DEADLOCK FALSE
