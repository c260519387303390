SPECIFICATION FairSpec
CONSTANTS
    Programs <- AllPrograms
    Kinds = {"CoreXY"}
    Pins = {0}
    Reversible = FALSE
    MaxLines = 3
    MaxWords = 4
    MaxEvents = 1
INVARIANTS
    PositionIsPlanned
    AccessoriesAgree
PROPERTIES
    TargetAsSaid
    OffsetsAsSaid
    
CHECK_DEADLOCK FALSE
