\* Three blocks, holds and a reset, without parking; the interrupt may drain the ring.
CONSTANTS
  SEGMENT_BUFFER_SIZE = 3
  NumBlocks = 3
  STEP_UNITS = 4
  REQ_INCREMENT = 5
  MaxHolds = 2
  MaxResets = 1
  MaxParks = 0
  Underrun = TRUE
  HoldAtRest = TRUE
  Steps <- MCSteps
  Minor <- MCMinor
SPECIFICATION FairSpec
INVARIANTS
    MinorStepsExact
PROPERTIES
    ImplementsStepStream
    HoldCompletes
    CycleEnds
CHECK_DEADLOCK FALSE
