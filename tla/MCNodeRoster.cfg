SPECIFICATION FairRosterSpec
CONSTANTS
    BusBoards = {b1, b2}
    Bridge = bridge
    MaxLines = 1
    MaxLost = 1
    MaxStints = 2
    MaxUpdates = 2
    RosterOdds = {}
INVARIANTS StaysShown
PROPERTIES LearnsInTheEnd
