\* Processes crash at any moment; either hand-overs run to their end before the
\* next verdict, rollback or lease check, or everything may interrupt them, or the
\* judge runs builds that take the place of the peripheral.
SPECIFICATION FairSpec
CONSTANTS
    NoProc = NoProc
    MaxProcs = 4
    Environments <- OrderlyOrDisturbed
INVARIANTS TypeOK OneAliveWhenOrderly NoOrphan AwaitedHandshake ServingKnowsRollback
PROPERTIES SwapResolves HandshakeEnds ShutdownLeavesNone
CHECK_DEADLOCK FALSE
