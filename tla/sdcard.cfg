SPECIFICATION FairSpec
CONSTANTS
    MaxFile = 2
    MaxLines = 2
    MaxRequests = 2
    MaxParts = 1
    MaxResets = 1
INVARIANTS
    JobKnown
    
PROPERTIES
    JobEnds
