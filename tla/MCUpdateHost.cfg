CONSTANTS
    Roots = {"r1", "r2"}
    Others = {o1}
    HasCopy = TRUE
    MaxAsks = 1
    MaxMoves = 2
SPECIFICATION FairHostSpec

    
PROPERTIES
    WritesAreSafe
    UsbRunEnds
