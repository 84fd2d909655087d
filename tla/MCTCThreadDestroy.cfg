CONSTANTS
    c1 = c1
    c2 = c2
    NoOne = NoOne
    Callers <- OneCaller
    MaxStarts = 1
    Spurious = FALSE
SPECIFICATION Spec
CHECK_DEADLOCK FALSE
INVARIANT
    NoUseAfterFree
