SPECIFICATION Spec
CONSTANTS
    Protocols = {"Kvault"}
    MayFollow <- MCMayFollow
    UseFarms = TRUE
    MaxVersion = 2
INVARIANT DocRequiredCoversFetched
