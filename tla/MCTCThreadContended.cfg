CONSTANTS
    c1 = c1
    c2 = c2
    NoOne = NoOne
    Callers <- TwoCallers
    MaxStarts = 2
    Spurious = TRUE
SPECIFICATION Spec
CHECK_DEADLOCK FALSE
PROPERTY
    StartTerminates
