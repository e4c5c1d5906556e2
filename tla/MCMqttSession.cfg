SPECIFICATION FairSpec
CONSTANTS
    Topics = {"a", "ab"}
    NoTopic = NoTopic
    Begins <- MCBegins
    Slots = 2
    MaxPacketId = 12
    MaxCalls = 2
    MaxConns = 2
    MaxCmds = 1
    ChanMax = 1
INVARIANTS
    OutboxInv
    SubscriptionsAgree
PROPERTIES
    AtLeastOnceSpec
    KeepaliveCorrect
    OutboxEmpties
CHECK_DEADLOCK FALSE
