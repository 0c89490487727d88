\* One client and a parcel; one call stops halfway; the jobs keep running.
CONSTANTS
    Bookings = {b1}
    Parcels = {s1}
    DriverCalls = {d1}
    ClientCalls = {c1}
    ExpiryJob = expiryJob
    CompletionJob = completionJob
    Nothing = nothing
    MaxFailures = 1
SPECIFICATION FairSpec
CHECK_DEADLOCK FALSE
INVARIANTS NobodyLeftBehind CompletedIsSettled
PROPERTIES BookingEndsOnce EveryTripEnds
