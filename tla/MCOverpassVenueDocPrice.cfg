SPECIFICATION Spec
CONSTANTS
    Protocols = {"Save", "Klend"}
    MayFollow <- MCMayFollow
    UseFarms = FALSE
    MaxVersion = 2
INVARIANT DocPriceMatchesQuote
