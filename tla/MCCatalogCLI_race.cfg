SPECIFICATION Spec
CONSTANTS
    Digest <- MCDigest
    NoDigest = ""
    CatalogOf <- MCCatalogOf
    DeltaName <- MCDeltaName
    DeltaOf <- MCDeltaOf
    CertName <- MCCertName
    CertOf <- MCCertOf
    Signed <- MCSignedTwo
    SignedDelta <- MCSignedDeltaTwo
    NoName = ""
    NoStatus = NoStatus
    ClockSkew = 0
    Procs = {p1, p2}
    NoJob = NoJob
    Roots = {"R1"}
    Policy <- MCOnePolicy
PROPERTIES
    FileNeverRollsBack
