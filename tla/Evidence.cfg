CONSTANTS
  Active = {"declarations", "calibration", "adapters", "closure", "launcher", "scan", "walk", "plugin cache", "install source", "install source unstamped", "plans", "review", "review inside", "checks", "checks around", "hook snapshot", "input file", "workspace"}
  AdapterLangs = {"go", "ts", "py", "ex"}
  SuiteTests = {"t", "u"}
  SuiteParent <- TwoTests
  SuiteAsserts <- TwoAsserts
  SuiteFaults = {"catch", "plain", "other", "panic", "skip", "rewrite", "killed", "early", "abort", "unreaped"}
  LauncherLangs = {"go", "ex", "java"}
  LauncherWrites = 2
  LauncherClocks = {"fine", "coarse"}
  DeclManifests = {"M1", "M2", "C1"}
  DeclDesigns <- DesignOf
  DeclMilestones <- MilestoneOf
  DeclRoot = "d"
  DeclKeys <- Keys
  DeclCategories = {"concurrency"}
  DeclTests <- OwnTests
  DeclEdits = 2
  CalTests = {"p", "n"}
  CalAsserts <- Registered
  CalNegative = {"n"}
  CalVariants = {"s", "u", "c"}
  CalKinds <- Kinds
  CalPairs = {"P", "Q"}
  CalSources = {"base", "good", "worse"}
  CalBaseline = "base"
  CalNames = 2
  CalEdits = 2
  CalBase <- Base
  CalExpected <- Expected
  CalPair <- PairOf
  CalTarget <- TargetOf
  CalSource <- SourceOf
  CalControls <- Controls
  PlanFiles = {"p", "q"}
  PlanPrefix <- Prefix
  PlanRows <- OracleRows
  PlanDesks <- FourDesks
  PlanEdits = 2
  PlanElements <- Cited
  PlanHistory <- History
  PlanNames <- CommitNames
SPECIFICATION Spec
CHECK_DEADLOCK FALSE
INVARIANTS
  AcceptedDocumentsHold
  ReportsTrue
  ReadAsItStood
PROPERTIES
  LauncherSettled
