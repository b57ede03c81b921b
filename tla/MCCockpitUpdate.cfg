CONSTANTS
    LostAfter = 2
    ChunkTries = 2
    QuickBoot = FALSE
    MaxRuns = 2
    MaxLost = 2
SPECIFICATION FairSpec
INVARIANTS
    OkMeansInstalled
    RefusedWroteNothing
PROPERTY RunSettles
