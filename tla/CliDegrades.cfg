\* Sessions come and go.
SPECIFICATION Spec
CONSTANTS
    Agent = Agent
    Cli = Cli
    Peers <- TwoPeers
    Sessions <- OneSession
    Peripheral = Agent
    None = None
    MaxConns = 2
    OutboundSize = 1
    BootQueueSize = 1
    MaxMissed = 2
    CrashThreshold = 2
    HardThreshold = 2
    Scenarios <- SessionsOnly
PROPERTY SessionEndIsNoCrash
CHECK_DEADLOCK FALSE
