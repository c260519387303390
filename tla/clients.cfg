SPECIFICATION FairClientsSpec
CONSTANTS
    CLIENT_COUNT = 2
    Serial = 0
    RXBUFFERSIZE = 2
    LINE_BUFFER_SIZE = 3
    MaxChars = 4
    MaxRestarts = 1
INVARIANTS
    LineWhole

    
CHECK_DEADLOCK FALSE
