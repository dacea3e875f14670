\* One property per run: DeferredStartHonoured.
CONSTANTS
    Update = Update
    User = User
    Goroutines = {g1, g2}
    MaxStops = 2
    MaxSyncs = 2
    None = None
    StartEvent = StartEvent
    DoneEvent = DoneEvent
    FailedEvent = FailedEvent

SPECIFICATION Spec

PROPERTY DeferredStartHonoured

CHECK_DEADLOCK FALSE
