\* The judge runs a build with an invariant test; nothing else disturbs.
SPECIFICATION FairSpec
CONSTANTS
    NoProc = NoProc
    MaxProcs = 4
    Environments <- JudgeOnly
INVARIANT TestedApart
\* Everything stops when Boot is shut down.
CHECK_DEADLOCK FALSE
