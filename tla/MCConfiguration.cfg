SPECIFICATION MCSpec
CONSTANTS
    NoCopy = NoCopy
    MaxWrites = 3
    MaxFaults = 2
    MaxSpoils = 2
    KeptBackups = 1
    MaxSetups = 3
    MaxImports = 2
    MaxFileFaults = 2
    TransferOdds = {}
INVARIANTS LastGoodSurvives AnswerIsTrue BackupIsThere
PROPERTIES Atomic
CHECK_DEADLOCK FALSE
