\* Staff, driver and job do anything at any time; transactions fail, calls die.
CONSTANTS
    Payouts = {p1}
    Calls = {c1, c2, c3}
    Job = job
    NoPayout = none
    Amount <- UnitAmount
    InitialBalance = 1
    MaxDbErrors = 1
    MaxCrashes = 1
    TouchUnreserved = TRUE
    StaffPolicy = "any"
SPECIFICATION Spec
SYMMETRY Symmetry
INVARIANTS StatusMatchesRow
PROPERTIES SettledIsFinal ImplementsEscrow
