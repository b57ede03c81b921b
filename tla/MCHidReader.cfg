CONSTANTS
    Devices = {d1, d2}
    NoDevice = NoDevice
    MaxDrops = 3
    MaxReopens = 3
    MaxReports = 3
    Overlap = FALSE
SPECIFICATION ServiceSpec
INVARIANTS
    NoOrphan
    NoneLeftUnsent
PROPERTIES
    ListensInTheEnd
CHECK_DEADLOCK FALSE
