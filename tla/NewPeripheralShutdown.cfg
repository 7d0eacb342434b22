\* No disturbance at all: whom does the Shutdown of a hand-over reach?
SPECIFICATION FairSpec
CONSTANTS
    NoProc = NoProc
    MaxProcs = 4
    Environments <- NoDisturbance
INVARIANT PeripheralKept
\* Everything stops when Boot is shut down.
CHECK_DEADLOCK FALSE
