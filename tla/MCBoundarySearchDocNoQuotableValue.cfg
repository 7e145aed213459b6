SPECIFICATION Spec
CONSTANTS
    MaxAmount <- MCMaxAmount
    Tolerance = 3
    Curves <- MCCurves
    f <- MCf
INVARIANT DocNoQuotableValue
CHECK_DEADLOCK FALSE
