SPECIFICATION Spec
CONSTANTS
    Procs = {p1, p2}
    Updates = {u1, u2}
    MaxGeneration = 2
    LeaseExpiry = "crashed"
    Races = FALSE
    None = None
INVARIANTS
    StoreOpens
CHECK_DEADLOCK FALSE
