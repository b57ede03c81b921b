CONSTANTS
    Transports = {t1, t2}
    None = None
    Events = 1
    MaxChanges = 3
    MaxRecords = 2
    Odds = {}
SPECIFICATION FairSpec
INVARIANTS
    OneSource
    BuiltFromSettings
    SaysWhatIs
PROPERTIES
    SourceGoesOn
