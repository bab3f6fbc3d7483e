SPECIFICATION Spec
CONSTANTS
    IJsonMax = 100
    Day = 24
    MaxWindows = 2
    MaxExpression = 12
    MaxNodes = 2
    MaxDepth = 1
    MaxEvidenceAge = 5
    BindingRole <- MCBindingRole
    Processes = {"p1", "p2"}
    Offers <- MCOffers
    MaxAccepted = 3
    Scenarios <- MCScenarios
    Tokens <- MCTokens
    Texts <- MCTexts
    MaxText = 5
    Projectors <- MCProjectors
    Documents <- MCDocuments
    RoleMaps <- MCRoleMaps
    Evidence <- MCEvidence
    TsaCert <- MCTsaCert
    OtherCert <- MCOtherCert
    WeakerProfile <- MCWeakerProfile
    WeakerRequirement <- MCWeakerRequirement
    MaxTime = 4
    MaxGeneration = 2
INVARIANTS
    
    AcceptedReportsAreSound
    BuiltReportsAreWellFormed
PROPERTY
    ImplementsFile
CHECK_DEADLOCK FALSE
