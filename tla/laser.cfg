CONSTANTS
  SEGMENT_BUFFER_SIZE = 3
  NumBlocks = 2
  STEP_UNITS = 2
  REQ_INCREMENT = 3
  MaxHolds = 2
  MaxResets = 1
  MaxParks = 1
  Underrun = FALSE
  HoldAtRest = FALSE
  MaxLines = 1
  MaxRequests = 1
  Lines <- MCLines
  Steps <- MCSteps
  Minor <- MCMinor
SPECIFICATION LaserSpec
INVARIANTS
    BlockDataIntact
    LaserDark
PROPERTIES
    
    BeamOfBlock
CHECK_DEADLOCK FALSE
