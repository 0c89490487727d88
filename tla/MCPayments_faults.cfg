\* Everything at once: staff, disputes, refused and lost refunds, errors, crashes.
CONSTANTS
    Attempts = {a1}
    Calls = {c1, c2}
    RefundJob = refundJob
    HeldJob = heldJob
    NoAttempt = none
    Price = 2
    Net = 2
    Shares = {0, 2}
    StaffAmounts = {1}
    JobsWait = TRUE
    Faults = {"refusal", "lostAnswer", "failure", "crash", "dispute"}
    MaxFaults = 2
SPECIFICATION Spec
CHECK_DEADLOCK FALSE
SYMMETRY Symmetry
INVARIANTS TypeOK RefundsWithinPrice  DriverGetsAtMostNet
PROPERTIES CancelledIsFinal
