SPECIFICATION Spec
CONSTANTS
    U64 = 24
    InitialPools <- MCPools
    Trades = {5}
    Requests <- MCRequests
    MaxChanges = 2
    MaxFaulty = 1
    Junk = {0, 20}
    Prefetched = {"pool", "coin_vault"}
INVARIANTS
    DocNoPanic
