CONSTANTS
  Active = {"install"}
SPECIFICATION Spec
CHECK_DEADLOCK FALSE
INVARIANTS
  KilledRunRecovers
