SPECIFICATION FairSpec
CONSTANTS
    Builds = {TRUE, FALSE}
    Cycles <- BothCycles
    Squared = {"Y"}
    Starts = {0, 1}
    Faults = {"ok", "dead", "stuck"}
    Search = 2
    Pulloff = 1
    Locate = 2
    MaxHomes = 1
    MaxEvents = 1
PROPERTIES
    HomedAxesKnown
    NoMotionAfterAbort
    HomingEnds
CHECK_DEADLOCK FALSE
