CONSTANTS
    i1 = i1
    k1 = k1
    k2 = k2
    p1 = p1
    p2 = p2
    None = None
    SchemeIds = {0, 1}
    Instances = {i1}
    PublicKeys = {k1, k2}
    PayloadRoots = {p1, p2}
    Domains = {"TransactionAuthorization", "ValidatorMessage"}
    SigningRoots <- MCSigningRoots
    MaxU64 = 3
    MaxUserBytes = 2
    Registries <- MCRegistries
    Policies <- MCPolicies
    Envelopes <- MCEnvelopes
    MaterialLists <- MCMaterialLists
SPECIFICATION Spec
INVARIANTS
    VerifiedMeansAuthorized
    SplitAdmissionMissesOnlyTheNonce
    NonceWindowIsExact
    CryptoComesLast
    OnceAdmittedNeverInvalid
