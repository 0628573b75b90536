SPECIFICATION CuraSpec
CONSTANTS
    A = A
    B = B
    narrow = narrow
    wide = wide
    cura5 = cura5
    NoLibrary = NoLibrary
    Own = Own
    Nothing = Nothing
    FirstLibrary = A
    FirstDiameter = narrow
    Library <- MCLibrary
    Diameter <- MCDiameter
    Installation <- MCInstallation
    MaxChanges = 2
    MaxRestores = 1
    MaxMishaps = 1
INVARIANTS
    RollbackIsExact
CHECK_DEADLOCK FALSE
