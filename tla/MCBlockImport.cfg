SPECIFICATION Spec
CONSTANTS
    h1 = h1
    h2 = h2
    None = None
    Hashes = {h1, h2}
    Limits <- MCLimits
    Imports <- MCImports
INVARIANTS
    ServicesInCostOrder
    FirstFailureIsReported
PROPERTIES
    ImplementsVerdict
