SPECIFICATION Spec
SYMMETRY Symmetry
CONSTANTS
    Procs = {p1, p2}
    Updates = {u1, u2}
    MaxGeneration = 2
    LeaseExpiry = "any"
    Races = FALSE
    None = None
INVARIANTS
    TypeOK
    MutualExclusion
    HeadArchived
    AcknowledgedStays
    OneWinner
    QuiescentExportable
PROPERTIES
    ImplementsRegister
CHECK_DEADLOCK FALSE
