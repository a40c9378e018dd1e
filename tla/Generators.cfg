CONSTANTS
  Active = {"lifecycle", "terminal", "saga", "refinements", "pairs"}
  Stages <- TwoStages
  Win = "Won"
  Lose = "Gone"
  ReopenTo = "B"
  CloseOn = "Won"
  Faults <- LostOrNone
  LifecycleRetries = 1
  LifecycleEdits = 2
  Phases <- TwoPhases
  Success = "Ok"
  Failures = {"F1", "F2"}
  Serves <- RetrySecond
  TerminalRetries = 2
  TerminalEdits = 2
  Forwards <- ThreeSteps
  FlagNames = {"reserved", "released", "captured", "refunded", "shipped"}
  Declared <- Effects
  SagaRetries = 1
  SagaEdits = 2
SPECIFICATION FairSpec
CHECK_DEADLOCK FALSE
INVARIANTS
  EmittedFaithful
  OutputsConverge
PROPERTIES
  StepsKeepPromises
  EmittedEnd
