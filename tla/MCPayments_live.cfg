\* A full or no refund is due, a refund may be refused: whatever is due is done.
CONSTANTS
    Attempts = {a1, a2}
    Calls = {c1, c2}
    RefundJob = refundJob
    HeldJob = heldJob
    NoAttempt = none
    Price = 2
    Net = 2
    Shares = {0, 2}
    StaffAmounts = {}
    JobsWait = FALSE
    Faults = {"refusal"}
    MaxFaults = 1
SPECIFICATION FairSpec
CHECK_DEADLOCK FALSE
INVARIANTS RowsTellRefunds FullyRefundedIsNotPaid
PROPERTIES ServedOrRefunded DecisionIsCarriedOut HeldFundsAreSettled
