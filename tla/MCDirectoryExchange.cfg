SPECIFICATION FairSpec
CONSTANTS
    Digest <- MCDigest
    NoDigest = ""
    CatalogOf <- MCCatalogOf
    DeltaName <- MCDeltaName
    DeltaOf <- MCDeltaOf
    CertName <- MCCertName
    CertOf <- MCCertOf
    Signed <- MCSigned
    SignedDelta <- MCSignedDelta
    NoName = ""
    NoStatus = NoStatus
    ClockSkew = 0
    Published <- MCPublished
    Nothing = Nothing
    ConsumerRoots = {"R1"}
    ConsumerPolicy <- MCOnePolicy
    TTL = 1
    MaxStale = 2
    MaxAge = 3
INVARIANTS
    HeadWasPublished
    BaseIsHead
PROPERTIES
    ConsumerNeverRollsBack
    CatchesUp
