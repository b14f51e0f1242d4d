CONSTANTS
  None = None
  Boards = {{"dialer", "listener"}}
  Faults = {"none"}
  Expected = {"listener"}
SPECIFICATION Spec
PROPERTIES
  IdentifyRuns
CHECK_DEADLOCK FALSE
