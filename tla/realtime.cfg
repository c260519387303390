\* Every line, real-time command and switch, with parking motions.
SPECIFICATION Spec
CONSTANTS
    QueueSize = 1
    Parking = TRUE
    Overtaken = FALSE
    Lines = {"motion", "motionPause", "pause", "spindle", "jog", "sleep", "unlock", "check", "beyond"}
    Commands = {"reset", "cycleStart", "feedHold", "safetyDoor", "jogCancel", "spindleStop", "doorSwitch", "limitSwitch"}
    MaxLines = 2
    MaxCommands = 3
INVARIANTS
    HoldAtRest
    SpindleRestored
    DoorSpindleOff
PROPERTIES
    HoldNotAutoResumed
