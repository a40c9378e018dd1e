CONSTANTS
  Active = {"projection rerun", "embed rerun", "cache wait", "design rerun", "store wait"}
  Unset = Unset
SPECIFICATION FairSpec
CHECK_DEADLOCK FALSE
PROPERTIES
  RerunsEnd
  CallsReturn
  DeadWriterReplaced
