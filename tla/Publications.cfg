CONSTANTS
  Active = {"artifact", "modelith", "pack", "formal", "projection", "embed", "cache", "design", "table", "registration"}
  Unset = Unset
SPECIFICATION Spec
CHECK_DEADLOCK FALSE
INVARIANTS
  WholeOrNothing
  NothingLost
  
  LineageUnbroken
  RegisteredDeclared
PROPERTIES
  StepsKeepPromises
