CONSTANTS
    i1 = i1
    i2 = i2
    i3 = i3
    i4 = i4
    k1 = k1
    k2 = k2
    m1 = m1
    m2 = m2
    None = None
    SchemeIds = {0, 1}
    Instances = {i1, i2, i3, i4}
    PublicKeys = {k1, k2}
    SigningRoots = {m1, m2}
    Pool <- MCPool
    Settings <- MCSettings
    Submitted <- MCSubmitted
SPECIFICATION DispatchSpec
INVARIANT
    NativeCeilingIsConsensusInvalid
