SPECIFICATION Spec
CONSTANTS
  Buffer = 1
  MaxBlocks = 2
  MaxStimuli = 3
INVARIANTS
  AnswersMeetTheirQuestion
PROPERTIES
  StandstillIsExplained
  ShutdownSpreads
CHECK_DEADLOCK FALSE
