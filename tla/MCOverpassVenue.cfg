SPECIFICATION Spec
CONSTANTS
    Protocols = {"Save", "Klend", "Lulo", "Marginfi", "Kvault"}
    MayFollow <- MCMayFollow
    UseFarms = TRUE
    MaxVersion = 2
INVARIANTS
    TypeOK
    CommitTogether
    OkMeansFresh
