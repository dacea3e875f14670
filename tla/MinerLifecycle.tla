---------------------------- MODULE MinerLifecycle ----------------------------
(***************************************************************************)
(* Starting and stopping the miner (src/miner/miner.go) while the          *)
(* downloader syncs.  Three kinds of goroutine share the atomic flags      *)
(* mining, canStart and shouldStart:                                       *)
(*  - the update loop, which receives the downloader's events from the     *)
(*    event mux, stops mining on StartEvent and resumes it on the first    *)
(*    DoneEvent or FailedEvent, then unsubscribes for good;                *)
(*  - the goroutines StartMining spawns (network/backend.go line 337:      *)
(*    go s.miner.Start(eb));                                               *)
(*  - the API caller, which runs StopMining on its own thread.             *)
(* Each atomic load or store is one step; Start and Stop are procedures    *)
(* that several goroutines run, with a return label per goroutine.         *)
(***************************************************************************)
EXTENDS Naturals, FiniteSets

CONSTANTS
    Update,          \* the update goroutine
    User,            \* the API caller's thread
    Goroutines,      \* goroutines StartMining may spawn (bounds its calls)
    MaxStops,        \* bound on StopMining calls
    MaxSyncs,        \* bound on syncs the downloader runs
    None, StartEvent, DoneEvent, FailedEvent

Procs == {Update, User} \cup Goroutines

VARIABLES
    mining, canStart, shouldStart,  \* the Miner's int32 flags, as booleans
    starNodeFlag,                   \* set by SetStarNodeFlag before any Start
    coreNodes,                      \* GetCoreNodesCount() > 0
    running,                        \* the worker is running (worker.start/stop)
    pc, ret,                        \* program counter and return label
    uShould,                        \* update's local shouldStart (line 101)
    subscribed,                     \* update's subscription to the mux
    chan,                           \* the event being posted, or None
    dl, syncs,                      \* the downloader: idle or syncing
    stops,
    interrupted,                    \* ghost: update aborted mining for a sync
    inSync,                         \* ghost: update saw StartEvent, not yet Done
    deferred                        \* ghost: a Start deferred itself to the sync

vars == <<mining, canStart, shouldStart, starNodeFlag, coreNodes, running, pc,
          ret, uShould, subscribed, chan, dl, syncs, stops, interrupted,
          inSync, deferred>>

ghosts == <<interrupted, inSync, deferred>>

\* miner.New (lines 69-82) and network.New (lines 172-176): canStart = 1,
\* the update loop subscribed, the star-node flag set once by configuration.
Init ==
    /\ mining = FALSE /\ canStart = TRUE /\ shouldStart = FALSE
    /\ starNodeFlag \in BOOLEAN
    /\ coreNodes \in BOOLEAN
    /\ running = FALSE
    /\ pc = [p \in Procs |-> IF p = Update THEN "U_wait"
                             ELSE IF p = User THEN "idle" ELSE "unborn"]
    /\ ret = [p \in Procs |-> "idle"]
    /\ uShould = FALSE
    /\ subscribed = TRUE
    /\ chan = None
    /\ dl = "idle" /\ syncs = 0 /\ stops = 0
    /\ interrupted = FALSE /\ inSync = FALSE
    /\ deferred = FALSE

\* The variables a step of Start, Stop or update may change.
procVars == <<mining, canStart, shouldStart, running, pc, ret, uShould>>
envVars == <<starNodeFlag, coreNodes, subscribed, chan, dl, syncs, stops>>

Goto(p, l) == pc' = [pc EXCEPT ![p] = l]

\* A call of procedure entry by p, returning to label r.
Call(p, entry, r) ==
    /\ pc' = [pc EXCEPT ![p] = entry]
    /\ ret' = [ret EXCEPT ![p] = r]

Return(p) == pc' = [pc EXCEPT ![p] = ret[p]]

-----------------------------------------------------------------------------
(* Miner.Start (lines 116-136).                                            *)

\* Lines 117-124: a node that is not a star node, or an empty roster, returns.
StartCheckFlags(p) ==
    /\ pc[p] = "S_flag"
    /\ IF starNodeFlag /\ coreNodes THEN Goto(p, "S_should") ELSE Return(p)
    /\ UNCHANGED <<mining, canStart, shouldStart, running, ret, uShould>>

\* Lines 125-126: shouldStart = 1, then SetLovebase.
StartSetShould(p) ==
    /\ pc[p] = "S_should"
    /\ shouldStart' = TRUE
    /\ Goto(p, "S_can")
    /\ UNCHANGED <<mining, canStart, running, ret, uShould>>

\* Lines 128-131: while the network syncs, return and leave it to update.
StartCheckCanStart(p) ==
    /\ pc[p] = "S_can"
    /\ IF canStart THEN Goto(p, "S_mining") ELSE Return(p)
    /\ UNCHANGED <<mining, canStart, shouldStart, running, ret, uShould>>

\* Line 132.
StartSetMining(p) ==
    /\ pc[p] = "S_mining"
    /\ mining' = TRUE
    /\ Goto(p, "S_worker")
    /\ UNCHANGED <<canStart, shouldStart, running, ret, uShould>>

\* Line 135: worker.start().
StartWorker(p) ==
    /\ pc[p] = "S_worker"
    /\ running' = TRUE
    /\ Return(p)
    /\ UNCHANGED <<mining, canStart, shouldStart, ret, uShould>>

(* Miner.Stop (lines 138-142).                                             *)

\* Line 139: worker.stop().
StopWorker(p) ==
    /\ pc[p] = "T_worker"
    /\ running' = FALSE
    /\ Goto(p, "T_mining")
    /\ UNCHANGED <<mining, canStart, shouldStart, ret, uShould>>

\* Line 140.
StopClearMining(p) ==
    /\ pc[p] = "T_mining"
    /\ mining' = FALSE
    /\ Goto(p, "T_should")
    /\ UNCHANGED <<canStart, shouldStart, running, ret, uShould>>

\* Line 141.
StopClearShould(p) ==
    /\ pc[p] = "T_should"
    /\ shouldStart' = FALSE
    /\ Return(p)
    /\ UNCHANGED <<mining, canStart, running, ret, uShould>>

\* One step of Start or Stop by goroutine p.  The ghosts record that a user
\* request deferred itself to the sync, and that StopMining returned; a
\* returning StopMining gives up any resumption promised before it.
ProcStep(p) ==
    LET userStopReturns == p = User /\ pc[p] = "T_should"
    IN
    /\ \/ StartCheckFlags(p) \/ StartSetShould(p) \/ StartSetMining(p)
       \/ StartWorker(p) \/ StopWorker(p) \/ StopClearMining(p)
       \/ StartCheckCanStart(p) \/ StopClearShould(p)
    /\ UNCHANGED envVars
    /\ UNCHANGED inSync
    /\ deferred' = IF userStopReturns THEN FALSE
                   ELSE deferred \/ (p \in Goroutines /\ pc[p] = "S_can" /\ ~canStart)
    /\ interrupted' = (interrupted /\ ~userStopReturns)

-----------------------------------------------------------------------------
(* Miner.update (lines 88-114).                                            *)

\* Mutant: only DoneEvent ends the sync; a FailedEvent is not handled.
UpdateReceive_FailedIgnored ==
    /\ pc[Update] = "U_wait"
    /\ chan # None
    /\ chan' = None
    /\ Goto(Update, CASE chan = StartEvent -> "U_canStart0"
                       [] chan = DoneEvent  -> "U_loadShould"
                       [] OTHER             -> "U_wait")
    /\ inSync' = (chan = StartEvent)
    /\ UNCHANGED <<mining, canStart, shouldStart, running, ret, uShould>>
    /\ UNCHANGED <<starNodeFlag, coreNodes, subscribed, dl, syncs, stops>>
    /\ UNCHANGED <<interrupted, deferred>>

\* Lines 90-107: the loop receives the event the downloader posts;
\* StartEvent aborts mining, DoneEvent and FailedEvent resume it.
UpdateReceive ==
    /\ pc[Update] = "U_wait"
    /\ chan # None
    /\ chan' = None
    /\ Goto(Update, IF chan = StartEvent THEN "U_canStart0" ELSE "U_loadShould")
    /\ inSync' = (chan = StartEvent)
    /\ UNCHANGED <<mining, canStart, shouldStart, running, ret, uShould>>
    /\ UNCHANGED <<starNodeFlag, coreNodes, subscribed, dl, syncs, stops>>
    /\ UNCHANGED <<interrupted, deferred>>

\* Line 94.
UpdateBlockStart ==
    /\ pc[Update] = "U_canStart0"
    /\ canStart' = FALSE
    /\ Goto(Update, "U_checkMining")
    /\ UNCHANGED <<mining, shouldStart, running, ret, uShould>>

\* Miner.Mining (lines 155-157): an atomic load of mining.
Mining == mining

\* Lines 95-96: stop a running miner, else wait for the next event.
UpdateCheckMining ==
    /\ pc[Update] = "U_checkMining"
    /\ IF Mining THEN Call(Update, "T_worker", "U_setShould")
                 ELSE Goto(Update, "U_wait") /\ UNCHANGED ret
    /\ UNCHANGED <<mining, canStart, shouldStart, running, uShould>>

\* Line 101.
UpdateLoadShould ==
    /\ pc[Update] = "U_loadShould"
    /\ uShould' = shouldStart
    /\ Goto(Update, "U_canStart1")
    /\ UNCHANGED <<mining, canStart, shouldStart, running, ret>>

\* Line 103.
UpdateAllowStart ==
    /\ pc[Update] = "U_canStart1"
    /\ canStart' = TRUE
    /\ Goto(Update, "U_clearShould")
    /\ UNCHANGED <<mining, shouldStart, running, ret, uShould>>

\* Lines 104-107: clear shouldStart, then Start if it was set.
UpdateClearShould ==
    /\ pc[Update] = "U_clearShould"
    /\ shouldStart' = FALSE
    /\ IF uShould THEN Call(Update, "S_flag", "U_exit")
                  ELSE Goto(Update, "U_exit") /\ UNCHANGED ret
    /\ UNCHANGED <<mining, canStart, running, uShould>>

\* The update steps that touch only the flags.
UpdateLocal ==
    /\ \/ UpdateBlockStart \/ UpdateCheckMining \/ UpdateLoadShould
       \/ UpdateAllowStart \/ UpdateClearShould
    /\ UNCHANGED envVars
    /\ UNCHANGED ghosts

\* Mutant: the resumption is not recorded.
UpdateSetShould_NoStore ==
    /\ pc[Update] = "U_setShould"
    /\ Goto(Update, "U_wait")
    /\ interrupted' = TRUE
    /\ UNCHANGED <<mining, canStart, shouldStart, running, ret, uShould>>
    /\ UNCHANGED envVars
    /\ UNCHANGED <<inSync, deferred>>

\* Line 97: remember to resume after the sync.
UpdateSetShould ==
    /\ pc[Update] = "U_setShould"
    /\ shouldStart' = TRUE
    /\ Goto(Update, "U_wait")
    /\ interrupted' = TRUE
    /\ UNCHANGED <<mining, canStart, running, ret, uShould>>
    /\ UNCHANGED envVars
    /\ UNCHANGED <<inSync, deferred>>

\* Lines 109-111: unsubscribe and leave the loop for good; Unsubscribe
\* closes the subscription, so a Post still blocked on it returns and its
\* event is dropped.
UpdateExit ==
    /\ pc[Update] = "U_exit"
    /\ subscribed' = FALSE
    /\ chan' = None
    /\ Goto(Update, "exited")
    /\ UNCHANGED <<mining, canStart, shouldStart, running, ret, uShould>>
    /\ UNCHANGED <<starNodeFlag, coreNodes, dl, syncs, stops>>
    /\ UNCHANGED ghosts

-----------------------------------------------------------------------------
(* The API (network/backend.go lines 324-341) and the downloader.          *)

\* StartMining: go s.miner.Start(eb); the call returns at once.
StartMining(g) ==
    /\ pc[User] = "idle"
    /\ pc[g] = "unborn"
    /\ Call(g, "S_flag", "done")
    /\ UNCHANGED <<mining, canStart, shouldStart, running, uShould>>
    /\ UNCHANGED envVars
    /\ UNCHANGED <<interrupted, inSync, deferred>>

\* StopMining: s.miner.Stop() on the caller's thread.
StopMining ==
    /\ pc[User] = "idle"
    /\ stops < MaxStops
    /\ Call(User, "T_worker", "idle")
    /\ stops' = stops + 1
    /\ UNCHANGED <<mining, canStart, shouldStart, running, uShould>>
    /\ UNCHANGED <<starNodeFlag, coreNodes, subscribed, chan, dl, syncs>>
    /\ UNCHANGED ghosts

\* The downloader posts StartEvent when a sync begins; TypeMux.Post blocks
\* until the subscriber takes the event, and drops it once unsubscribed.
SyncBegin ==
    /\ dl = "idle" /\ syncs < MaxSyncs /\ chan = None
    /\ chan' = IF subscribed THEN StartEvent ELSE None
    /\ dl' = "syncing" /\ syncs' = syncs + 1
    /\ UNCHANGED procVars
    /\ UNCHANGED <<starNodeFlag, coreNodes, subscribed, stops>>
    /\ UNCHANGED ghosts

\* The sync ends with DoneEvent or FailedEvent.
SyncEnd ==
    /\ dl = "syncing" /\ chan = None
    /\ \E ev \in {DoneEvent, FailedEvent} :
          chan' = IF subscribed THEN ev ELSE None
    /\ dl' = "idle"
    /\ UNCHANGED procVars
    /\ UNCHANGED <<starNodeFlag, coreNodes, subscribed, syncs, stops>>
    /\ UNCHANGED ghosts

Next ==
    \/ \E p \in Procs : ProcStep(p)
    \/ UpdateReceive \/ UpdateLocal \/ UpdateSetShould \/ UpdateExit
    \/ \E g \in Goroutines : StartMining(g)
    \/ StopMining
    \/ SyncBegin \/ SyncEnd

(***************************************************************************)
(* Fairness: every goroutine that has begun a step sequence finishes it    *)
(* (the scheduler runs runnable goroutines), and a sync that began ends.   *)
(* The API calls and the start of a sync are the environment's choice.     *)
(***************************************************************************)
Fairness ==
    /\ \A p \in Procs : WF_vars(ProcStep(p))
    /\ WF_vars(UpdateReceive \/ UpdateLocal \/ UpdateSetShould \/ UpdateExit)
    /\ WF_vars(SyncEnd)

Spec == Init /\ [][Next]_vars /\ Fairness

-----------------------------------------------------------------------------
Labels == {"idle", "unborn", "done", "exited",
           "S_flag", "S_should", "S_can", "S_mining", "S_worker",
           "T_worker", "T_mining", "T_should",
           "U_wait", "U_canStart0", "U_checkMining", "U_setShould",
           "U_loadShould", "U_canStart1", "U_clearShould", "U_exit"}

TypeOK ==
    /\ {mining, canStart, shouldStart, running, uShould, subscribed} \subseteq BOOLEAN
    /\ pc \in [Procs -> Labels] /\ ret \in [Procs -> Labels]
    /\ chan \in {None, StartEvent, DoneEvent, FailedEvent}
    /\ dl \in {"idle", "syncing"} /\ syncs \in 0..MaxSyncs /\ stops \in 0..MaxStops

(***************************************************************************)
(* Mining that a sync interrupted resumes once the sync ends, unless the   *)
(* user stops the miner meanwhile (update, lines 95-107): the shouldStart  *)
(* flag update sets must survive until it reads it back, whatever Start    *)
(* and Stop calls run in between.                                          *)
(***************************************************************************)
ResumeAfterSync == interrupted ~> (running \/ ~interrupted)

(***************************************************************************)
(* A sync never locks mining out for good: whenever update has cleared     *)
(* canStart (line 94), canStart is set again (line 103).  This needs the   *)
(* blocking post of the sync's end to reach the loop before it             *)
(* unsubscribes, and both DoneEvent and FailedEvent to be handled.         *)
(***************************************************************************)
CanStartRestored == ~canStart ~> canStart

(***************************************************************************)
(* While the first sync runs (update took StartEvent and has not yet taken *)
(* Done or Failed) the worker does not run: update aborted it (lines       *)
(* 94-98) and Start defers to the sync (lines 128-131).                    *)
(***************************************************************************)
NoMiningDuringSync ==
    inSync /\ pc[Update] = "U_wait" => ~running

(***************************************************************************)
(* A Start that found the network syncing ("Network syncing, will start    *)
(* miner afterwards", line 129) eventually runs the miner, unless the user *)
(* stops it.                                                               *)
(***************************************************************************)
DeferredStartHonoured == deferred ~> (running \/ ~deferred)
=============================================================================
