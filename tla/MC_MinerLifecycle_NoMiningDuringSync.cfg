\* One property per run: NoMiningDuringSync.
CONSTANTS
    Update = Update
    User = User
    Goroutines = {g1, g2}
    MaxStops = 2
    MaxSyncs = 2
    None = None
    StartEvent = StartEvent
    DoneEvent = DoneEvent
    FailedEvent = FailedEvent

SPECIFICATION Spec

INVARIANT NoMiningDuringSync

CHECK_DEADLOCK FALSE
