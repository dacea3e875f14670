\* Turns of 2 s and a 1 s minimum gap give a 6 s loop; 8 s of clock cover
\* a self-succession after a loop, so every slot case (0, 1, 2) occurs.
\* Only A's operator calls SetLovebase (OnlyALovebase).
CONSTANTS
    A = A
    B = B
    C = C
    X = X
    NoKey = NoKey
    NoSig = NoSig
    StarList <- MCStarList
    Outsiders <- MCOutsiders
    Lovebases <- OnlyALovebase
    Timeout = 2000
    Sleeptime = 1000
    MaxTime = 8
    MaxBlocks = 5
    MaxCrashes = 1
    Delay = 0
    Skew <- NoSkew
    MineBeforeSync = FALSE

SPECIFICATION Spec

INVARIANT TypeOK
INVARIANT NoForkAboveGenesis
PROPERTY HeadsConverge

CHECK_DEADLOCK FALSE
