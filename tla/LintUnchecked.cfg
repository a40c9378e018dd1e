CONSTANTS
  MaxEdits = 2
  Editing = "routes"
SPECIFICATION Spec
CHECK_DEADLOCK FALSE
INVARIANTS
  NeverSucceedsUnchecked
