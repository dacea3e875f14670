\* miner.New sets canStart = 1 (miner.go 75): a restarted node that starts
\* mining at boot mines on the head it had on disk until the downloader
\* posts StartEvent.
CONSTANTS
    A = A
    B = B
    C = C
    X = X
    NoKey = NoKey
    NoSig = NoSig
    StarList <- MCStarList
    Outsiders <- MCOutsiders
    Lovebases <- MCLovebases
    Timeout = 2000
    Sleeptime = 1000
    MaxTime = 8
    MaxBlocks = 6
    MaxCrashes = 1
    Delay = 0
    Skew <- NoSkew
    MineBeforeSync = TRUE

SPECIFICATION Spec

INVARIANT NoForkAboveGenesis

CHECK_DEADLOCK FALSE
