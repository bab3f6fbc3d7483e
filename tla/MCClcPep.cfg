CONSTANTS
    IJsonMax = 30
    Day = 4
    MaxWindows = 2
    MaxNesting = 3
    MaxSize = 14
    Schemes <- MCSchemes
    BadWildcards <- MCBadWildcards
    Revision <- MCRevision
    DecimalOf <- MCDecimalOf
    LabelsOf <- MCLabelsOf
    PathOf <- MCPathOf
    Grants <- MCGrants
    Ops <- MCOps
    Requests <- MCRequests
    Texts <- MCTexts
    TextId <- MCTextId
    Domains <- MCDomains
    Defaults <- MCDefaults
    Chains <- MCChains
    ActionType <- MCActionType
    Signers = {"authority", "stranger"}
    Trusted = {"authority"}
    MaxChain = 3
    MaxDecided = 2
    MaxFiled = 1
    Decisions <- MCDecisions
    Reports <- MCReports
    Understood <- MCUnderstood
    MaxSources = 2
    MaxTime = 3
    MaxAge = 1
    TTL = 2
    Delay = 1
    Skew = 1
SPECIFICATION PepSpec
CHECK_DEADLOCK FALSE
INVARIANTS
    
    ObligationsAreConserved
    ActsOnlyInForce
    ActsWithinEveryAncestor
    RecordsAreFaithful
