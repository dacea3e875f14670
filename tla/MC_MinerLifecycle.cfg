\* Two StartMining calls, two StopMining calls and two syncs: enough for a
\* Start racing the update loop, a Stop racing a Start, and a second sync
\* after the update loop has left.
CONSTANTS
    Update = Update
    User = User
    Goroutines = {g1, g2}
    MaxStops = 2
    MaxSyncs = 2
    None = None
    StartEvent = StartEvent
    DoneEvent = DoneEvent
    FailedEvent = FailedEvent

SPECIFICATION Spec

PROPERTY ResumeAfterSync
PROPERTY CanStartRestored

\* Every goroutine ends and the downloader stops syncing: the node idles.
CHECK_DEADLOCK FALSE
