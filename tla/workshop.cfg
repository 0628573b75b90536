SPECIFICATION WorkshopSpec
CONSTANTS
    A = A
    B = B
    narrow = narrow
    wide = wide
    cura5 = cura5
    NoLibrary = NoLibrary
    Own = Own
    Nothing = Nothing
    FirstLibrary = A
    FirstDiameter = narrow
    Library <- MCLibrary
    Diameter <- MCDiameter
    Installation <- MCInstallation
    MaxChanges = 2
    MaxRestores = 1
    MaxMishaps = 1
    q1 = q1
    Material = {"pla", "asa", "silk"}
    Family = "asa"
    Base = "pla"
    CopiedFamily = {"silk"}
    NoName = "none"
    Nozzle <- MCNozzle
    SeedNozzle = narrow
    Product <- MCProduct
    Value = {0, 1}
    Seeded = 0
    Inherit = Inherit
    NoWork = NoWork
    FirstTemplates <- MCTemplates
    FirstProducts <- MCProducts
    MaxSettings = 3
    Steps = 3
    Required = {1, 2}
    Derived = 2
    Source = 1
    Measured = {0, 1}
    Unmeasured = Unmeasured
    NoSession = NoSession
    NoReview = NoReview
    MaxVersion = 5
    Retention = {1}
    MaxContent = 2
    MaxArchives = 2
    NoRequest = NoRequest
    Nobody = Nobody
    m1 = m1
    m2 = m2
    quality = quality
    Setting <- MCSetting
    MachineFile <- MCMachineFile
    ProfileFile <- MCProfileFile
    ManyFiles = 3
    ManyProfiles = 1
    HistoryLimit = 1
    MaxPoints = 4
    MaxEdits = 2
    MaxPointOps = 2
    NoPoint = NoPoint
    Exported = {0, 1}
    MaxConsents = 2
    MaxPublishOps = 3
    MaxPublishFaults = 1
    Unpublished = Unpublished
    Tampered = Tampered
    NoPass = NoPass
    u1 = u1
    Person <- MCPerson
    MeshDueAfterPrints = 1
    NoEvaluation = NoEvaluation
    MaxDeployments = 2
    MaxAlertOps = 3
CHECK_DEADLOCK FALSE
INVARIANTS
    WorkshopTypeOK
    ChoicesCoverTemplates
    KnownGoodRemains
PROPERTIES
    WorkshopSettles
    SeedingKeepsOut
    RebaseStands
    TemplateTakesReviewed
    RestoresLoseNothing
    OnlyCurrentConsent
    RecurrenceIsUnread
