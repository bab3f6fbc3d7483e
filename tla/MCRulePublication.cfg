CONSTANTS
    Capabilities <- MCCapabilities
    Required <- MCRequired
    SchemeOrder <- MCSchemeOrder
    Versions <- MCVersions
    Claims <- MCClaims
    Start <- MCStart
    Handwritten <- MCHandwritten
    Publishers = {"wide", "narrow"}
    Aic <- MCAic
    TrustedSigners = {"wide", "narrow"}
    Scenarios <- MCScenarios
SPECIFICATION Spec
CHECK_DEADLOCK FALSE
INVARIANTS
    ManifestIsTrue
    
PROPERTY
    WalkFailsForAReason
