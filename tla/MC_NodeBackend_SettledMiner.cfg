\* A star node started without --lovebase: the wallet may gain an account,
\* two StartMining calls and one SetLovebase race Start and Stop.
CONSTANTS
    Zero = Zero
    A0 = A0
    U1 = U1
    C1 = C1
    C2 = C2
    S1 = S1
    ConfigLovebase = Zero
    Account = A0
    UserAddrs <- MCUserAddrs
    SyncMode = "full"
    NodeModeStar = TRUE
    CoreNodesCount = 3
    Callers <- MCCallers
    Setters <- MCSetters
    MaxStops = 1
SPECIFICATION Spec
INVARIANT SettledMinerMatchesLastCalls
CHECK_DEADLOCK FALSE
