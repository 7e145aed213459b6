SPECIFICATION FairSpec
CONSTANTS
    a = a
    b = b
    Keys <- MCKeys
    Tasks = {t1, t2}
    Requests <- MCRequests
    MaxSlot = 2
INVARIANTS
    TypeOK
    ReplyInOrder
    FreshAfterReset
PROPERTIES
    StableWithoutFetch
    CallsReturn
