\* Lines, holds and overrides on a queue of three blocks.
SPECIFICATION PlanSpec
CONSTANTS
    QueueSize = 3
    Lengths = {1, 3}
    Junctions = {0, 9}
    Rates = {1}
    RapidRate = 2
    Levels = {1, 2}
    FullLevel = 2
    SomeLarge = 4
    MaxOverrides = 1
INVARIANTS
    PlanOptimal
PROPERTIES
    WithinAcceleration
    JunctionRespected
