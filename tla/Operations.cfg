CONSTANTS
  Active = {"journal", "install", "install people", "install twice", "ledger", "ledger routes", "ledger lanes", "store", "retention", "policy", "policy routes", "topology", "topology copies", "refresh"}
SPECIFICATION Spec
CHECK_DEADLOCK FALSE
INVARIANTS
  ReceiptsTrue
  InstallsWhole
  RefusalsAreKnown
  ObligationsKept
PROPERTIES
  StepsKeepPromises
