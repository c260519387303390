\* Two lines, two lost exchanges, two of: reset, hold, override.
CONSTANTS
    Speeds = {1}
    QUEUE_SIZE = 4
    MAX_RETRIES = 2
    Limit = 1
    InitSteps = 1
    SafetyPolling = TRUE
    MaxLines = 2
    MaxFaults = 2
    MaxInputs = 2
SPECIFICATION FairSpec
INVARIANTS
    DriveStopped
    

    
CHECK_DEADLOCK FALSE
