SPECIFICATION Spec
CONSTANTS
    sol = sol
    usd = usd
    taxed = taxed
    Mints <- MCMints
    Native = sol
    FeeMints = {taxed}
    Routes <- MCRoutes
    Plans <- MCPlans
    U8 = 5
    TitanPda = "titan_pda"
    Keys = {"titan_pda", "pool", "vault", "farm", "market", "raydium", "overpass"}
    Discriminators = {"16", "deposit", "withdraw"}
    Amounts = {2}
    Ledgers = {NoLedger, WrongLedger, 1}
    Leaves = {0, 1, 3}
    NoLedger = NoLedger
    WrongLedger = WrongLedger
    WeightUnit = 2
    MAX_SWAPS = 3
    MAX_MINTS = 3
    InitialPda = {0, 1}
    InitialUser = {2}
    InitialPool = 1
    InitialLamports = 1
INVARIANTS
    TypeOK
    ReservedNeverTaken
    HonestNeverViolates
    NothingStranded
    NoAccountLeak
    UserPaysExactly
    BuiltRouteDelivered
