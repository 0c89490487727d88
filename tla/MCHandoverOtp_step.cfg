\* Three codes, two requests at once, two attempts per code, three per hour.
CONSTANTS
    Calls = {c1, c2}
    MaxCodes = 3
    MaxAttempts = 2
    Tolerance = 2
    LockAt = 3
SPECIFICATION Spec
SYMMETRY Symmetry
INVARIANTS AcceptedOnce GuessesAreBounded
CHECK_DEADLOCK FALSE
