CONSTANTS
    None = None
    Base = 6
    RootWidth = 2
    WordWidth = 2
    AddressWidth = 1
    OffsetWidth = 2
    IndexWidth = 2
    ByteListLimit = 4
    ListLimit = 2
    MaxDamage = 2
    MaxLeaves = 3
    Sendable <- MCSendable
    Accounts <- MCAccounts
    Slots <- MCSlots
    Stems <- MCStems
    Indices <- MCIndices
    Prices <- MCPrices
SPECIFICATION EncodingsSpec
INVARIANT ListsWithinLimits
