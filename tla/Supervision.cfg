\* The peripheral and a command-line session, two connections at a time.
SPECIFICATION FairSpec
CONSTANTS
    Agent = Agent
    Cli = Cli
    Peers <- TwoPeers
    Sessions <- OneSession
    Peripheral = Agent
    None = None
    MaxConns = 2
    OutboundSize = 1
    BootQueueSize = 1
    MaxMissed = 2
    CrashThreshold = 2
    HardThreshold = 2
    Scenarios <- Shown
INVARIANTS TypeOK OpenIsRouted NormalNoStreak TightLeaseOnProbation ViolationsEndWithLease ConnectedIsWatched
PROPERTIES SilentPeerForgotten ShutdownEnds
CHECK_DEADLOCK FALSE
