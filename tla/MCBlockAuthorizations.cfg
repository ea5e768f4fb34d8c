CONSTANTS
    i1 = i1
    k1 = k1
    k2 = k2
    p1 = p1
    p2 = p2
    p3 = p3
    b1 = b1
    r1 = r1
    v1 = v1
    v2 = v2
    unsigned = unsigned
    None = None
    Absent = Absent
    Keys = {1, 2}
    Values = {v1, v2}
    SchemeIds = {0}
    Instances = {i1}
    PublicKeys = {k1, k2}
    PayloadRoots = {p1, p2, p3}
    Domains = {"TransactionAuthorization"}
    SigningRoots <- MCSigningRoots
    MaxU64 = 2
    MaxUserBytes = 2
    Registries <- MCRegistries
    Policies <- MCPolicies
    Resolvers <- MCResolvers
    Limits = {1}
    DefaultKey = k1
    BlockRoots = {b1}
    Receipts = {r1}
    ReferenceSignature <- MCReferenceSignature
    TransactionFixtures <- MCTransactionFixtures
    WitnessFixtures <- MCWitnessFixtures
    Vectors <- MCVectors
    Offered <- MCOffered
    MaterialLists <- MCMaterialLists
    MaxEdits = 2
SPECIFICATION Spec
INVARIANT
    AcceptedEnvelopesAreAuthorized
