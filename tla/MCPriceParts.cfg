SPECIFICATION FairSpec
CONSTANTS
    Amounts <- MCAmounts
    PRICE_FLOOR = 1
    Curves <- MCCurves
INVARIANTS
    TypeOK
    PriceShape
    PriceBracketsChords
PROPERTY Terminates
CHECK_DEADLOCK FALSE
