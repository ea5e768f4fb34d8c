CONSTANTS
    t1 = t1
    t2 = t2
    r1 = r1
    r2 = r2
    v1 = v1
    v2 = v2
    Keys = {1, 2}
    Values = {v1, v2}
    Absent = Absent
    TxRoots = {t1, t2}
    Receipts = {r1, r2}
    Patches <- MCPatches
    Plannings <- MCPlannings
    KnownRoots <- MCKnownRoots
    Bodies <- MCBodies
    ReceiptLists <- MCReceiptLists
SPECIFICATION ExecutionSpec
INVARIANTS
    EffectsAreTheReportedPrefix
    CursorCountsHandedOutPlans
    ContinuityHolds
    AcceptedBlockIsATransition
