CONSTANTS
    Parcels = {s1}
    TripDriver = d1
    Drivers = {d1, d2}
    Calls = {c1, c2}
    WindowJob = windowJob
    HeldJob = heldJob
    JobsOn = {"window", "held", "refund"}
    Nobody = nobody
    NoParcel = noParcel
    Capacity = 1
    StaffDecides = FALSE
    Duplicates = FALSE
    MaxExtensions = 1
    MaxFailures = 1
SPECIFICATION FairSpec
INVARIANT EngagedIsPaid
PROPERTIES FirstDriverWins ImplementsDelivery SearchEnds DeliveredIsPaid 
CHECK_DEADLOCK FALSE
