CONSTANTS
  Active = {"select", "handoff", "lint", "lint matrix", "ratchet rules", "ratchet facts", "ratchet damage", "datalog", "attest"}
  AuthorEdits = 2
  ReviewClaims = {"g2", "g4.standin", "ga"}
  ReviewPaths = {"ARCHITECTURE.md", "BUILD.md", "BUILD/p.md", "acceptance/m.yaml"}
  ReviewEntries = {"main"}
  ReviewInside = TRUE
  ReviewEdits = 3
  ReviewRows = 2
  RuleSymbols = {"a", "b", "c"}
  RuleNumbers = 3
  RuleDecls <- PathDecls
  RuleInputs = {"edge", "stop"}
  RulePool <- PathRules
  RuleFacts <- PathFacts
  RuleLimit = 4
  TupleLimit = 22
  RoundLimit = 12
SPECIFICATION Spec
CHECK_DEADLOCK FALSE
INVARIANTS
  GatesAgree
  AcceptedDesignsHold
  MatrixReconciles
  DebtShrinks
  PerfectModel
PROPERTIES
  RatchetSteps
