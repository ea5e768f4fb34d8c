CONSTANTS
    Keys = {1, 2, 3}
    Values = {v1, v2}
    Absent = Absent
    Patches <- MCPatches
    AccessLists <- MCAccessLists
SPECIFICATION AccumulatorSpec
CONSTRAINT ObservedBound
SYMMETRY ValueSymmetry
INVARIANTS
    RootCommitsLeaves
    WitnessesBindToTheirRoot
    VerifyWitnessIsExact
PROPERTY
    RefusedCallsChangeNothing
