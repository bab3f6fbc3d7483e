SPECIFICATION AdminSpec
CONSTANTS
    PackageOf <- MCPackageOf
    TransitionOf <- MCTransitionOf
    CertOf <- MCCertOf
    NoDigest = ""
    NoScheme = ""
    NoTime = NoTime
    ClockSkew = 0
    Processes = {p, q}
    NoJob = NoJob
    Submissions <- MCSubmissions
    Policies <- MCPolicies
    Approvals <- MCApprovals
    MaxTime = 2
    MaxApprovals = 2
INVARIANTS
    StateIsChain
    ConfirmedIsAcceptable
    OneKeySignedAndHeldAuthority
    QuorumOfDistinctApprovers
    RotationByCurrentRoots

    
SYMMETRY MCSymmetry
CHECK_DEADLOCK FALSE
