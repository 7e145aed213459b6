SPECIFICATION FairSpec
CONSTANTS
    MaxAmount <- MCMaxAmount
    Tolerance = 3
    Curves <- MCCurves
    f <- MCf
INVARIANTS
    TypeOK
    BoundsQuote
    BoundsTight
    WideRangeFound
PROPERTY Terminates
CHECK_DEADLOCK FALSE
