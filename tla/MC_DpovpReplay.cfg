\* The network of MC_DpovpChain with no crash, and one attacker.
CONSTANTS
    A = A
    B = B
    C = C
    X = X
    NoKey = NoKey
    NoSig = NoSig
    StarList <- MCStarList
    Outsiders <- MCOutsiders
    Forgers <- MCForgers
    Lovebases <- MCLovebases
    Timeout = 2000
    Sleeptime = 1000
    MaxTime = 8
    MaxBlocks = 6
    MaxCrashes = 0
    Delay = 0
    Skew <- NoSkew
    MineBeforeSync = FALSE

SPECIFICATION ReplaySpec

INVARIANT SealedByCoinbase

CHECK_DEADLOCK FALSE
