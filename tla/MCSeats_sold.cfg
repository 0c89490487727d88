CONSTANTS
    Bookings = {b1, b2, b3}
    Clients = {m1, m2}
    Calls = {c1, c2}
    DriverCalls = {d1}
    NoBooking = noBooking
    NoClient = noClient
    Last = 2
    MaxSeats = 2
    MaxPending = 2
    CodeLimit = 2
    ClientLimit = 1
SPECIFICATION Spec
SYMMETRY Symmetry
INVARIANTS NeverOversold CounterIsExact CodeWithinLimits
CHECK_DEADLOCK FALSE
