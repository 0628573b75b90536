SPECIFICATION PrintersSpec
CONSTANTS
    p1 = p1
    p2 = p2
    s1 = s1
    s2 = s2
    left = left
    right = right
    x = x
    y = y
    r1 = r1
    r2 = r2
    Bindings <- MCBindings
    Spool <- MCSpool
    Placed <- MCPlaced
    NoSpool = NoSpool
    NoPrinter = NoPrinter
    Unread = Unread
    Failed = Failed
    MaxOperations = 2
    MaxFaults = 1
    Side <- MCSide
    NoSide = NoSide
    Nobody = Nobody
    MaxPlateOps = 3
    MaxPlateJobs = 2
    Slice <- MCSlice
    Passing <- MCPassing
    Roll <- MCRoll
    Enough <- MCEnough
    Matching <- MCMatching
    Surface <- MCSurface
    Compatible <- MCCompatible
    MaxStarts = 2
    MaxLosses = 1
    NoJob = NoJob
    Hotend <- MCHotend
    Fitted <- MCFitted
    NoNozzle = NoNozzle
    NewNozzle = NewNozzle
    NoRequest = NoRequest
    NoClerk = NoClerk
    MaxNozzles = 2
    MaxRequests = 4
    a1 = a1
    a2 = a2
    Address <- MCAddress
    Deployed = a1
    Nowhere = Nowhere
    NotLocked = NotLocked
    MaxPrinters = 2
    MaxCommands = 1
    MaxConnectionOps = 2
CHECK_DEADLOCK FALSE
INVARIANTS
    PrintersTypeOK
    PrinterHoldsOne
    CalibrationsLoggedOnce
    OperatorsAgree
    EndpointsStand
PROPERTIES
    TargetStands
    PrintersSettle
    HoldsAreAnswered
