CONSTANTS
    U64 = 64
    FULL_BPS = 10000
    WAD = 5000
    SAVE_SLOTS_PER_YEAR = 10
    Bits = 2
    ONE = 1024
    KLEND_SLOTS_PER_YEAR = 10
    SECONDS_PER_YEAR = 8
    FIX = 1024
    YEAR = 8
    U32_MAX = 255
    KVAULT_YEAR = 8
    MAX_QUOTE_DEPOSIT = 40
    FARM_WAD = 10
    Q60 = 64
    MaxSlot = 5
    MaxTrades = 5
    Sources = {"Save", "Klend", "Marginfi", "Kvault", "Lulo"}
    Pools <- MCPools
    Switches <- MCSwitches
    Fees <- MCFees
    Amounts <- MCAmounts
    Loans <- MCLoans
    Ticks <- MCTicks
SPECIFICATION Spec
INVARIANT DocMonotonicOutput
