CONSTANTS
    Parcels = {s1, s2}
    TripDriver = d1
    Drivers = {d1}
    Calls = {c1, c2}
    WindowJob = windowJob
    HeldJob = heldJob
    JobsOn = {}
    Nobody = nobody
    NoParcel = noParcel
    Capacity = 1
    StaffDecides = TRUE
    Duplicates = FALSE
    MaxExtensions = 0
    MaxFailures = 0
SPECIFICATION Spec
SYMMETRY Symmetry
INVARIANTS NeverOverloaded
CHECK_DEADLOCK FALSE
