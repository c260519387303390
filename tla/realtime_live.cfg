\* Parking, restarts, soft and hard limits and resets around one line.
SPECIFICATION FairSpec
CONSTANTS
    QueueSize = 1
    Parking = TRUE
    Overtaken = FALSE
    Lines = {"motion", "motionPause", "spindle", "jog", "sleep", "beyond"}
    Commands = {"reset", "cycleStart", "safetyDoor", "doorSwitch", "limitSwitch"}
    MaxLines = 1
    MaxCommands = 3
INVARIANTS
    ParkingKeepsState
PROPERTIES
    
    
    ResetHonoured
