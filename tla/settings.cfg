\* One setting of each kind that treats its copies differently, two tasks, a
\* failing write and a power cycle at any point.
CONSTANTS
    Names = {"int", "float", "string"}
    Hooked = {"int"}
    Values = {0, 1, 2}
    Default = 0
    Tasks = {main, input}
    Given = {"set", "restore", "erase", "offset"}
    MaxCommands = 3
    MaxFails = 1
    MaxRestarts = 1
SYMMETRY TaskSymmetry
SPECIFICATION Spec
INVARIANTS
    NoOldValue
    
CHECK_DEADLOCK FALSE
