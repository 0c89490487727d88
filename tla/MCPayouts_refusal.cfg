\* Staff refuses a waiting payout while it is being sent.
CONSTANTS
    Payouts = {p1}
    Calls = {c1, c2}
    Job = job
    NoPayout = none
    Amount <- UnitAmount
    InitialBalance = 1
    MaxDbErrors = 0
    MaxCrashes = 0
    TouchUnreserved = FALSE
    StaffPolicy = "waiting"
SPECIFICATION Spec
CHECK_DEADLOCK FALSE
SYMMETRY Symmetry
INVARIANT NeverPaidAndReturned
