SPECIFICATION Safety
CONSTANTS
    w1 = w1
    w2 = w2
    NoReading = NoReading
    NoRecord = NoRecord
    Keep = Keep
    Nothing = Nothing
    Worker <- MCWorker
    Capacity = 2
    Tare = {1, 2}
    FirstTare = 1
    MaxStatements = 0
    MaxPrints = 1
    MaxSpent = 1
    MaxChanges = 1
INVARIANTS
    NoDoubleCount
CHECK_DEADLOCK FALSE
