\* Staff follows the written procedure and no call dies.
\* The behaviours end once every payout is closed: the set of payouts is finite.
CONSTANTS
    Payouts = {p1}
    Calls = {c1, c2, c3}
    Job = job
    NoPayout = none
    Amount <- UnitAmount
    InitialBalance = 1
    MaxDbErrors = 1
    MaxCrashes = 0
    TouchUnreserved = FALSE
    StaffPolicy = "procedure"
SPECIFICATION FairSpec
CHECK_DEADLOCK FALSE
INVARIANTS NeverPaidAndReturned OneSender OpenIsReserved ClosedIsSettled
PROPERTIES DueIsReleased
