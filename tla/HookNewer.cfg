CONSTANTS
  Active = {"ledger"}
SPECIFICATION Spec
CHECK_DEADLOCK FALSE
INVARIANTS
  NewerObligationRetained
