\* Two requests at once, two currencies, pay sheets that move, a SuperAdmin who closes by what the account shows.
CONSTANTS
    Withdrawals = {w1, w2}
    Calls = {c1, c2}
    Currencies = {xof, gnf}
    Salaries = {s1}
    Unpaid = Unpaid
    Free = Free
    NoSheet = NoSheet
    Amounts = {1}
    MaxEarned = 1
    MaxCodes = 2
    MaxAttempts = 1
    StaffChecks = TRUE
SPECIFICATION Spec
SYMMETRY Symmetry
INVARIANTS TypeOK CountedIsEarned SalaryOncePerSheet BooksAreTrue
CHECK_DEADLOCK FALSE
