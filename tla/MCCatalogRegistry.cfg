SPECIFICATION RegistrySpec
CONSTANTS
    Digest <- MCDigest
    NoDigest = ""
    CatalogOf <- MCCatalogOf
    DeltaName <- MCDeltaName
    DeltaOf <- MCDeltaOf
    CertName <- MCCertName
    CertOf <- MCCertOf
    Signed <- MCSigned
    SignedDelta <- MCSignedDelta
    NoName = ""
    NoStatus = NoStatus
    ClockSkew = 0
    Callers = {u1}
    NoResult = NoResult
    CallerRoots = {"R1", "R2"}
    Rotation <- MCRotation
    Policies <- MCPolicies
    MaxTime = 2
INVARIANTS
    RegistryTypeOK
    EveryGenerationVerified
    VerifiedMeansAcceptable
    DeltaIsNoShortcut
    RetiredAnchorsRefused
PROPERTIES
    ImplementsChain
