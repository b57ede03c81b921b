CONSTANTS
    MaxSeq = 3
    ReplyTimeout = 1
    KeepaliveEvery = 2
    DefaultTimeout = 3
    DeviceTimeout = 5
    MaxLost = 2
    MaxDown = 2
    LossySessionAck = FALSE
    StaleReplies = FALSE
    Overlap = FALSE
SPECIFICATION FairSpec
INVARIANTS
    GateShutInSession
    SurvivesOneLoss
PROPERTIES
    SettledByOwnReply
    ExchangesEnd
