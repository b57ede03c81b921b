CONSTANTS
    Boards = {a, b}
    Axes = {1, 2}
    Unknown = Unknown
    MaxCaptures = 2
    MaxTroubles = 2
    SerialFirst = TRUE
    Overlaps = FALSE
    NamelessTwice = FALSE
SPECIFICATION FairSpec
INVARIANTS
    NoForeignWrite
    CacheHonest
    SessionNeedsDialog
PROPERTIES
    DraftsKept
    WriteEnds
