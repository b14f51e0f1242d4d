CONSTANTS
  None = None
  Boards = {{"dialer"}, {"listener"}}
  Faults = {"none", "noise", "identify", "binding", "signature", "refuses"}
  Expected = {"listener", "dialer"}
SPECIFICATION Spec
INVARIANTS
  EstablishedIsBound
  NeverMisread
PROPERTIES
  SetupEnds
CHECK_DEADLOCK FALSE
