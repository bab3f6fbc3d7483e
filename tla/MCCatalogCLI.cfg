SPECIFICATION Spec
CONSTANTS
    Digest <- MCDigest
    NoDigest = ""
    CatalogOf <- MCCatalogOf
    DeltaName <- MCDeltaName
    DeltaOf <- MCDeltaOf
    CertName <- MCCertName
    CertOf <- MCCertOf
    Signed <- MCSigned
    SignedDelta <- MCSignedDelta
    NoName = ""
    NoStatus = NoStatus
    ClockSkew = 0
    Procs = {p1}
    NoJob = NoJob
    Roots = {"R1"}
    Policy <- MCOnePolicy
INVARIANTS
    CompletedStaysRecorded
    OutFollowsRecorded
PROPERTIES
    FileNeverRollsBack
