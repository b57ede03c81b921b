SPECIFICATION MCSpec
CONSTANTS
    pdu = pdu
    adopted = adopted
    panel = panel
    NoZone = NoZone
    Boards <- MCBoards
    Pdus <- MCPdus
    Registry <- MCRegistry
    Home <- MCHome
    Odds = {}
    NoAnswer = 6
    Reask = 2
    ProbeTime = 3
    MaxMisses = 3
    MaxTroubles = 2
    MaxTurns = 2
INVARIANTS AnswersKept OnlineBoardsShow ZonesHold HealthIsTrue
PROPERTIES NeverHasty
