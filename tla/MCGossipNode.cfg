SPECIFICATION NodeSpec
CONSTANTS
    h1 = h1
    h2 = h2
    p1 = p1
    None = None
    Hashes = {h1, h2}
    Peers = {p1}
    ScoreFloor <- MCScoreFloor
    Limits <- MCLimits
    Imports <- MCImports
    Origins <- MCOrigins
    TxResults <- MCTxResults
INVARIANTS
    RoutesPunishAlike
    SoftFailuresNeverDisconnect
    FetchedIsNeverOversized
