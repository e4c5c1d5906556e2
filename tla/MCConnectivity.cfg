SPECIFICATION FairSpec
CONSTANTS
    connect_max <- MCMax
    QueueSize = 2
    NarrowWindow = FALSE
INVARIANTS
    StrategyInv
    WifiRetryPending
    ConnectedFlagTracksDriver
    MqttRetryPending
    OneMqttTask
PROPERTIES
    WifiComesUp
    MqttComesUp
