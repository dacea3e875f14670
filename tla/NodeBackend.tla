----------------------------- MODULE NodeBackend -----------------------------
(***************************************************************************)
(* The full node's service object (src/network/backend.go) and the parts   *)
(* of the miner (src/miner/miner.go) it drives when the producer identity  *)
(* changes.  Four kinds of thread share the Loveblock object:              *)
(*  - the node, which runs New, then the service's Start, later its Stop;  *)
(*  - API callers of StartMining, each of which reads Lovebase() and       *)
(*    spawns go s.miner.Start(eb) (line 337);                              *)
(*  - those goroutines;                                                    *)
(*  - API callers of SetLovebase.                                          *)
(* Lovebase() reads networkbase under the read lock and, when it is zero,  *)
(* writes accounts[0] under the write lock: two critical sections with     *)
(* the wallet read between them.  miner.SetLovebase stores the miner's,    *)
(* the worker's and the engine's coinbase one after the other, unlocked.   *)
(* Each critical section and each store is one step.                      *)
(* The downloader, and with it canStart and shouldStart, are left to       *)
(* MinerLifecycle: here canStart stays 1 and shouldStart is never read.    *)
(***************************************************************************)
EXTENDS Integers, Sequences

CONSTANTS
    Zero,            \* common.Address{}
    ConfigLovebase,  \* config.Lovebase (Zero when no --lovebase flag)
    Account,         \* accounts[0] of wallets[0] once the keystore has one
    UserAddrs,       \* addresses an API caller passes to SetLovebase
    SyncMode,        \* config.SyncMode
    NodeModeStar,    \* config.NodeMode == NodeModeStar
    CoreNodesCount,  \* dpovpCommon.GetCoreNodesCount()
    Callers,         \* threads that call StartMining once each
    Setters,         \* threads that call SetLovebase once each
    MaxStops         \* bound on StopMining calls

Node == <<"node">>
Go(c) == <<"go", c>>
Goroutines == {Go(c) : c \in Callers}
Procs == {Node} \cup Callers \cup Setters \cup Goroutines

\* The components Stop shuts down, in the order of lines 397-411.
StopOrder == <<"dbUpgrade", "bloomIndexer", "blockchain", "protocolManager",
               "lesServer", "txPool", "miner", "eventMux", "chainDb",
               "shutdownChan">>

VARIABLES
    phase,        \* the service: "new", "created", "starting", "running",
                  \* "stopping" or "stopped"
    stopIdx,      \* the next component Stop shuts down
    networkbase,  \* s.networkbase, guarded by s.lock
    wallet,       \* accounts[0] of the first wallet, Zero while there is none
    chainCb,      \* the coinbase Start hands to blockchain.SetCoinbase
    minerCb,      \* miner.coinbase
    workerCb,     \* the worker's coinbase, which goes into headers
    engineCb,     \* d.coinbase, which Seal signs
    starNodeFlag, mining,
    pc,           \* program counter of every thread
    lb,           \* the value a thread's Lovebase() read or returns
    arg,          \* the address a thread passes to miner.SetLovebase
    stops,        \* calls of miner.Stop
    lastSet,      \* ghost: the address of the last SetLovebase to return
    lastMining    \* ghost: "start" or "stop", the last of StartMining
                  \* (returning success) and StopMining to return

vars == <<phase, stopIdx, networkbase, wallet, chainCb, minerCb, workerCb,
          engineCb, starNodeFlag, mining, pc, lb, arg, stops, lastSet,
          lastMining>>

coinbases == <<minerCb, workerCb, engineCb>>

Init ==
    /\ phase = "new" /\ stopIdx = 1
    /\ networkbase = Zero /\ wallet = Zero /\ chainCb = Zero
    /\ minerCb = Zero /\ workerCb = Zero /\ engineCb = Zero
    /\ starNodeFlag = FALSE /\ mining = FALSE
    /\ pc = [p \in Procs |-> IF p \in Goroutines THEN "none" ELSE "idle"]
    /\ lb = [p \in Procs |-> Zero]
    /\ arg = [p \in Procs |-> Zero]
    /\ stops = 0 /\ lastSet = Zero /\ lastMining = "none"

\* Miner.SetStarNodeFlag (miner.go 187-189): an atomic store of 1.
SetStarNodeFlag == starNodeFlag' = TRUE

\* network.New: a light or invalid sync mode is refused; networkbase and
\* the engine's coinbase come from config.Lovebase, the worker's and the
\* miner's start at zero (miner.New, newWorker(..., common.Address{})),
\* and a star node's miner gets its flag.
New ==
    /\ phase = "new"
    /\ SyncMode \in {"full", "fast"}
    /\ phase' = "created"
    /\ networkbase' = ConfigLovebase
    /\ engineCb' = ConfigLovebase
    /\ IF NodeModeStar THEN SetStarNodeFlag ELSE UNCHANGED starNodeFlag
    /\ UNCHANGED <<stopIdx, wallet, chainCb, minerCb, workerCb, mining, pc,
                   lb, arg, stops, lastSet, lastMining>>

\* The keystore gains an account (an import or account new).
NewAccount ==
    /\ wallet = Zero
    /\ wallet' = Account
    /\ UNCHANGED <<phase, stopIdx, networkbase, chainCb, coinbases,
                   starNodeFlag, mining, pc, lb, arg, stops, lastSet, lastMining>>

\* Where a thread goes when its Lovebase() returns v, or fails (ok FALSE):
\* the node hands the value to the blockchain whatever the error (line
\* 370); a StartMining caller spawns the miner's Start on success.
LovebaseReturn(p, v, ok) ==
    IF p = Node
    THEN /\ pc' = [pc EXCEPT ![p] = "st_set"] /\ lb' = [lb EXCEPT ![p] = v]
         /\ UNCHANGED <<arg, lastMining>>
    ELSE /\ pc' = [pc EXCEPT ![p] = "done",
                             ![Go(p)] = IF ok THEN "g_flag" ELSE "none"]
         /\ lb' = [lb EXCEPT ![p] = v]
         /\ arg' = IF ok THEN [arg EXCEPT ![Go(p)] = v] ELSE arg
         /\ lastMining' = IF ok THEN "start" ELSE lastMining

\* Mutant: the zero check of line 297 dropped.
LovebaseRead_NoZeroCheck(p) ==
    /\ pc[p] = "lb_read"
    /\ LovebaseReturn(p, networkbase, TRUE)
    /\ UNCHANGED <<phase, stopIdx, networkbase, wallet, chainCb, coinbases,
                   starNodeFlag, mining, stops, lastSet>>

\* Lovebase(), lines 293-299: the read of networkbase under RLock.
LovebaseRead(p) ==
    /\ pc[p] = "lb_read"
    /\ IF networkbase # Zero
       THEN LovebaseReturn(p, networkbase, TRUE)
       ELSE /\ pc' = [pc EXCEPT ![p] = "lb_wallet"]
            /\ UNCHANGED <<lb, arg, lastMining>>
    /\ UNCHANGED <<phase, stopIdx, networkbase, wallet, chainCb, coinbases,
                   starNodeFlag, mining, stops, lastSet>>

\* Lines 300-312: with networkbase zero, the first wallet's first account
\* is taken and stored under the write lock; without one, an error.
LovebaseWallet(p) ==
    /\ pc[p] = "lb_wallet"
    /\ IF wallet # Zero
       THEN /\ pc' = [pc EXCEPT ![p] = "lb_write"]
            /\ lb' = [lb EXCEPT ![p] = wallet] /\ UNCHANGED <<arg, lastMining>>
       ELSE LovebaseReturn(p, Zero, FALSE)
    /\ UNCHANGED <<phase, stopIdx, networkbase, wallet, chainCb, coinbases,
                   starNodeFlag, mining, stops, lastSet>>

LovebaseWrite(p) ==
    /\ pc[p] = "lb_write"
    /\ networkbase' = lb[p]
    /\ LovebaseReturn(p, lb[p], TRUE)
    /\ UNCHANGED <<phase, stopIdx, wallet, chainCb, coinbases, starNodeFlag,
                   mining, stops, lastSet>>

Lovebase(p) == LovebaseRead(p) \/ LovebaseWallet(p) \/ LovebaseWrite(p)

\* Start, lines 367-394: coinbase, _ := s.Lovebase(), then
\* blockchain.SetCoinbase(coinbase); the bloom handlers, the RPC service and
\* the protocol manager start without state the model follows.
NodeStart ==
    /\ phase = "created"
    /\ phase' = "starting"
    /\ pc' = [pc EXCEPT ![Node] = "lb_read"]
    /\ UNCHANGED <<stopIdx, networkbase, wallet, chainCb, coinbases,
                   starNodeFlag, mining, lb, arg, stops, lastSet, lastMining>>

NodeStartDone ==
    /\ pc[Node] = "st_set"
    /\ chainCb' = lb[Node]
    /\ phase' = "running"
    /\ pc' = [pc EXCEPT ![Node] = "done"]
    /\ UNCHANGED <<stopIdx, networkbase, wallet, coinbases, starNodeFlag,
                   mining, lb, arg, stops, lastSet, lastMining>>

\* StartMining, lines 324-339: eb from Lovebase(); on success go
\* s.miner.Start(eb) and return (LovebaseReturn).
StartMining(c) ==
    /\ phase = "running"
    /\ pc[c] = "idle"
    /\ pc' = [pc EXCEPT ![c] = "lb_read"]
    /\ UNCHANGED <<phase, stopIdx, networkbase, wallet, chainCb, coinbases,
                   starNodeFlag, mining, lb, arg, stops, lastSet, lastMining>>

\* SetLovebase, lines 316-322: networkbase under the write lock, then
\* miner.SetLovebase outside it.
SetLovebase(s, a) ==
    /\ phase = "running"
    /\ pc[s] = "idle"
    /\ networkbase' = a
    /\ arg' = [arg EXCEPT ![s] = a]
    /\ pc' = [pc EXCEPT ![s] = "ms_miner"]
    /\ UNCHANGED <<phase, stopIdx, wallet, chainCb, coinbases, starNodeFlag,
                   mining, lb, stops, lastSet, lastMining>>

\* miner.SetLovebase, miner.go lines 181-185: three unsynchronised stores.
\* A SetLovebase caller returns after the third; miner.Start goes on.
MinerSetLovebase(p) ==
    /\ \/ /\ pc[p] = "ms_miner" /\ minerCb' = arg[p]
          /\ pc' = [pc EXCEPT ![p] = "ms_worker"]
          /\ UNCHANGED <<workerCb, engineCb, lastSet>>
       \/ /\ pc[p] = "ms_worker" /\ workerCb' = arg[p]
          /\ pc' = [pc EXCEPT ![p] = "ms_engine"]
          /\ UNCHANGED <<minerCb, engineCb, lastSet>>
       \/ /\ pc[p] = "ms_engine" /\ engineCb' = arg[p]
          /\ pc' = [pc EXCEPT ![p] = IF p \in Setters THEN "done" ELSE "g_mine"]
          /\ lastSet' = IF p \in Setters THEN arg[p] ELSE lastSet
          /\ UNCHANGED <<minerCb, workerCb>>
    /\ UNCHANGED <<phase, stopIdx, networkbase, wallet, chainCb, starNodeFlag,
                   mining, lb, arg, stops, lastMining>>

\* miner.Start, miner.go lines 116-128: a node without the star flag, or
\* an empty roster, returns at once; otherwise shouldStart is stored (it
\* has no reader here) and the coinbase set.
MinerStartCheck(g) ==
    /\ pc[g] = "g_flag"
    /\ pc' = [pc EXCEPT ![g] = IF ~starNodeFlag \/ CoreNodesCount = 0
                                THEN "done" ELSE "ms_miner"]
    /\ UNCHANGED <<phase, stopIdx, networkbase, wallet, chainCb, coinbases,
                   starNodeFlag, mining, lb, arg, stops, lastSet, lastMining>>

\* Lines 129-135: canStart is 1 without a sync, so mining is stored and the
\* worker started.
MinerStartMining(g) ==
    /\ pc[g] = "g_mine"
    /\ mining' = TRUE
    /\ pc' = [pc EXCEPT ![g] = "done"]
    /\ UNCHANGED <<phase, stopIdx, networkbase, wallet, chainCb, coinbases,
                   starNodeFlag, lb, arg, stops, lastSet, lastMining>>

\* miner.Stop, miner.go lines 138-142: the worker stops and mining is 0.
MinerStop ==
    /\ mining' = FALSE
    /\ stops' = stops + 1

\* StopMining, line 341.
StopMining ==
    /\ phase = "running"
    /\ stops < MaxStops
    /\ MinerStop
    /\ lastMining' = "stop"
    /\ UNCHANGED <<phase, stopIdx, networkbase, wallet, chainCb, coinbases,
                   starNodeFlag, pc, lb, arg, lastSet>>

\* Stop, lines 396-415: the components shut down one at a time, in order.
NodeStop ==
    /\ phase = "running"
    /\ phase' = "stopping"
    /\ UNCHANGED <<stopIdx, networkbase, wallet, chainCb, coinbases,
                   starNodeFlag, mining, pc, lb, arg, stops, lastSet, lastMining>>

StopComponent ==
    /\ phase = "stopping"
    /\ IF StopOrder[stopIdx] = "miner" THEN MinerStop
                                       ELSE UNCHANGED <<mining, stops>>
    /\ stopIdx' = stopIdx + 1
    /\ phase' = IF stopIdx = Len(StopOrder) THEN "stopped" ELSE "stopping"
    /\ UNCHANGED <<networkbase, wallet, chainCb, coinbases, starNodeFlag, pc,
                   lb, arg, lastSet, lastMining>>

\* A step of a thread inside a call.
Step(p) ==
    \/ Lovebase(p)
    \/ MinerSetLovebase(p)
    \/ MinerStartCheck(p)
    \/ MinerStartMining(p)
    \/ (p = Node /\ NodeStartDone)

Next ==
    \/ New \/ NewAccount \/ NodeStart \/ NodeStop \/ StopComponent
    \/ StopMining
    \/ \E c \in Callers : StartMining(c)
    \/ \E s \in Setters, a \in UserAddrs : SetLovebase(s, a)
    \/ \E p \in Procs : Step(p)

\* The Go scheduler runs every runnable goroutine, so a thread inside a
\* call, the node's Stop and the worker make progress.  Calls themselves,
\* the keystore and the node's Start are the environment's.
Fairness ==
    /\ \A p \in Procs : WF_vars(Step(p))
    /\ WF_vars(StopComponent)

Spec == Init /\ [][Next]_vars /\ Fairness

-----------------------------------------------------------------------------
\* No thread is inside any call.
Quiescent == \A p \in Procs : pc[p] \in {"idle", "done", "none"}

\* Whenever the miner mines, the worker puts a real address into headers and
\* the engine signs for one: Lovebase() never hands StartMining the zero
\* address, whether networkbase came from the flag, from a SetLovebase or
\* from the wallet, and whichever of the racing stores lands last.
MiningHasCoinbase == mining => (engineCb # Zero /\ workerCb # Zero)

\* Once the calls have settled, the miner is what the last calls asked
\* for.  Its producer identity is in one piece: networkbase (what
\* Lovebase() reports), the miner's, the worker's (put into headers) and
\* the engine's coinbase (signed by Seal) all hold the address of the
\* SetLovebase that returned last (spec.md section 5: Seal and Prepare
\* observe the most recent set).  And it does not mine after a StopMining
\* that returned after every StartMining, nor after the node's Stop.
SettledMinerMatchesLastCalls ==
    Quiescent =>
        /\ lastSet # Zero =>
               \A cb \in {networkbase, minerCb, workerCb, engineCb} : cb = lastSet
        /\ (lastMining = "stop" \/ phase = "stopped") => ~mining
================================================================================
