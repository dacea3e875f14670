\* Clock skew: C's clock is one second ahead of A's and B's, and nothing
\* else goes wrong (no crash is needed, every block is delivered at once).
CONSTANTS
    A = A
    B = B
    C = C
    X = X
    NoKey = NoKey
    NoSig = NoSig
    StarList <- MCStarList
    Outsiders <- MCOutsiders
    Lovebases <- MCLovebases
    Timeout = 2000
    Sleeptime = 1000
    MaxTime = 8
    MaxBlocks = 5
    MaxCrashes = 1
    Delay = 0
    Skew <- FastC
    MineBeforeSync = FALSE

SPECIFICATION Spec

INVARIANT NoForkAboveGenesis

CHECK_DEADLOCK FALSE
