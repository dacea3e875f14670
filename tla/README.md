# TLA+ models of the LoveBlock DPoVP engine and miner

This directory holds TLA+ models of the parts of LoveBlock that decide who may
produce a block and when, and of the machinery that starts and stops block
production. Each model is checked with TLC. Every definition is translated from
the Go sources under `src/`. The exception is the star-node roster helpers of
`common/dpovp`, which are not in this tree, so they are modelled from
`spec.md` section 3. `PROJECT.json` maps every definition to the lines it
models and lists the runs, the mutants, the findings and the hazards.

## The system

- **DPoVP engine** (`src/consensus/dpovp/dpovp.go`). It has no goroutine of its
  own.
  - `verifyHeader` (lines 97-203) checks these things, in this order:
    1. difficulty is 1;
    2. the parent is found, in the batch or in the chain;
    3. the header is not from the future;
    4. the recovered signer of `Keccak256(Coinbase)` is the roster's key for
       the coinbase;
    5. the timing table (lines 140-203): whether the producer took its turn,
       from the parent's producer, the ring position and the gap in
       milliseconds.
  - `Prepare` stamps difficulty 1 and the clock. `Finalize` credits the reward.
    `Seal` refuses a coinbase outside the roster and block 0, then signs
    `Keccak256(d.coinbase)` with the node's private key.
  - `SetCoinbase` writes `d.coinbase`.
  - `VerifyHeaders` (lines 75-91) runs one goroutine over a batch. Each header
    is checked against the batch prefix before it. Each result is offered in
    a `select` on a results channel buffered to the batch length, against the
    caller's `abort` channel.
- **Roster** (`common/dpovp`, outside `src/`). It is the ordered star list.
  `GetSlot` counts ring positions from the parent's producer to the child's.
- **Miner** (`src/miner/miner.go`). Three flags, `mining`, `canStart` and
  `shouldStart`, are shared by three parties:
  - the `update` goroutine, which stops mining on the downloader's
    `StartEvent` and resumes it on the first `DoneEvent`/`FailedEvent`, then
    unsubscribes for good;
  - the goroutines `StartMining` spawns;
  - the API caller's `Stop`.

  `SetLovebase` stores the miner's, the worker's and the engine's coinbase, one
  after the other.
- **Node backend** (`src/network/backend.go`).
  - `New` builds the engine with `config.Lovebase` and marks star nodes
    (`SetStarNodeFlag`).
  - `Lovebase()` reads `networkbase` under the read lock. When it is zero, it
    takes the wallet's first account and stores it under the write lock.
  - `StartMining` reads `Lovebase()`, runs `go s.miner.Start(eb)` and
    returns. `StopMining` calls `miner.Stop`.
  - `SetLovebase` stores `networkbase`, then calls `miner.SetLovebase`, which
    stores the miner's, the worker's and the engine's coinbase in turn.
  - `Start` hands `Lovebase()` to the blockchain. `Stop` shuts the
    components down in order, the miner before `chainDb`.
- **Parameters** (`src/params/config.go`). Mainnet and testnet use
  `Timeout` = 10 000 ms and `Sleeptime` = 3 000 ms. `TestChainConfig` and the
  test engines have zero values.

How they interact: the miner's worker builds a block on its head, waits for its
slot, then calls Prepare, Finalize and Seal and broadcasts the block. Every peer
runs `verifyHeader` on it before import. The downloader's events switch the
miner off and on.

## Modules

| Module | Models | State | Actions |
|---|---|---|---|
| `DpovpRules` | verifyHeader, VerifySeal, the roster helpers, and a reference rotation (`TurnOwner`, `InTurn`) | none (operators) | none |
| `MC_DpovpRules` | a probe of the timing table: roster, configuration, parent producer, header gap | `roster, config, parentCb, gap` | `NextSecond` |
| `DpovpChain` | a network of star nodes: mining rounds, gossip and import, SetLovebase, crash, restart and resync | `now, blocks, known, rejected, head, wcoinbase, coinbase, pending, up, synced, crashes` | `Tick, Mine, Receive, SetLovebase, SetCoinbase, Crash, Restart, SyncDone` |
| `DpovpReplay` | `DpovpChain` plus an outsider who replays a SignInfo | as DpovpChain | `Forge` |
| `NodeBackend` | backend.go's New, Start, Stop, Lovebase, SetLovebase, StartMining/StopMining, and miner.Start/Stop/SetLovebase, with each critical section and each store as one step | `phase, stopIdx, networkbase, wallet, chainCb, minerCb, workerCb, engineCb, starNodeFlag, mining, pc, lb, arg, stops, lastSet` | `New, NewAccount, NodeStart, NodeStartDone, StartMining, Lovebase(p), SetLovebase, MinerSetLovebase(p), MinerStartCheck, MinerStartMining, StopMining, NodeStop, StopComponent` |
| `VerifyBatch` | VerifyHeaders: the verifying goroutine, the buffered results, the abort channel and the in-batch parent lookup | `batch, i, err, gpc, buf, got, aborted, late` | `Loop, SelectSend, SelectAbort, Receive, Abort` |
| `VerifyStream` | what VerifyHeaders promises (spec.md section 5): an ordered stream of verdicts, sequential up to the first failure, complete unless aborted. This is an abstract specification and models no code. | `batch, out, aborted` | `Emit, Abort` |
| `MinerLifecycle` | miner.go's update/Start/Stop, with each atomic load or store as one step, plus StartMining/StopMining and the downloader | `mining, canStart, shouldStart, running, pc, ret, uShould, subscribed, chan, dl, ...` | `ProcStep(p), UpdateReceive, UpdateLocal, UpdateSetShould, UpdateExit, StartMining, StopMining, SyncBegin, SyncEnd` |

How the state corresponds to the code:

- **DpovpChain.**
  - `blocks` holds every sealed header. The `sealer` field is a ghost naming
    who really signed it.
  - `known[n]` is node n's chain database. `head[n]` is its head.
  - `wcoinbase[n]` is the worker's coinbase, which goes into headers.
    `coinbase[n]` is `d.coinbase`, which Seal checks and signs.
  - `pending[n]` holds the `SetLovebase` calls whose engine store has not
    happened yet.
  - `Mine` is one worker round: `Template`, then `Prepare`, then the slot wait
    (`SlotArrived`, spec.md 4.2/5), then `Seal` with its guards `SealOk`, then
    the write to the node's own chain.
  - `now` is real time. Node `n`'s `time.Now()` is `Clock(n) = now +
    Skew(n)`, which `Prepare` stamps and `Receive` checks future blocks
    against. `Tick` advances real time once every live node has settled
    every block sealed `Delay` seconds ago that its clock no longer puts in
    the future (`SealedAt` is a ghost: the real second of sealing).
  - `Receive` is `VerifyHeader` followed by the importer (`Import`, which keeps
    the longer chain, spec.md 4.5). A block from the future waits. A child of a
    rejected block is `UnknownAncestor`.
- **MinerLifecycle.**
  - `pc` and `ret` give each goroutine a program counter inside `Start` and
    `Stop`, which several goroutines run concurrently.
  - `chan` is the event `TypeMux.Post` is delivering. Post blocks until the
    loop takes the event, and drops it once the loop has unsubscribed.
  - The ghosts `interrupted`, `inSync` and `deferred` record what
    the properties refer to.

- **NodeBackend.**
  - `pc` gives each thread a program counter: the node, the StartMining
    callers, the goroutine each spawns, and the SetLovebase callers.
  - `lb` is the address a `Lovebase()` read or returns. `arg` is what a
    thread passes to `miner.SetLovebase`.
  - `Lovebase(p)` is three steps: the read under RLock, the wallet read, and
    the write under Lock. Its caller continues in `LovebaseReturn`.
  - `StopComponent` walks `StopOrder`, the order of lines 397-411.
  - The ghost `lastSet` is the address of the last SetLovebase to return.
    The ghost `lastMining` is `"start"` or `"stop"`, whichever of a
    successful StartMining and a StopMining returned last.
  - There is no downloader here, so `canStart` stays 1. MinerLifecycle covers
    the sync flags.
- **VerifyBatch.**
  - A header is reduced to its hash, number, parent hash and difficulty,
    plus the verdict of the later checks (`rest`), which DpovpRules models.
  - `buf` is the results channel and `got` is what the caller has read.
  - The ghost `late` records a result sent after `abort` was closed.
  - `Stream == INSTANCE VerifyStream WITH out <- got` is the refinement
    mapping: the abstract stream is what the caller has received. A
    `Receive` step is an abstract `Emit` and `Abort` is `Abort`. `Loop`,
    `SelectSend` and `SelectAbort` are stuttering steps.

A signature is modelled as the pair (key used, address hashed). `Ecrecover`
returns the key when the hashed address matches and an unrelated key
otherwise.

## Runs

| Run | Expect | Checks | Shows |
|---|---|---|---|
| `rules_rotation` | pass | `TimingMatchesRotation` | The timing table accepts a child of a non-genesis parent exactly when the reference rotation gives its producer the turn. This covers rosters of 1-3, configurations (10 s, 3 s), (1.5 s, 0.5 s) and (2 s, 1 s), and gaps from -1 s to 65 s. |
| `chain_safety` | pass | `TypeOK`, `NoForkAboveGenesis`, `HeadsConverge` | When a restarted node syncs before mining, no chain holds two children of a non-genesis block, whatever the interleaving of mining, gossip, crashes and restarts. Every chain holds only difficulty-1 blocks and a head it knows. Eventually the running nodes' heads are at the same height. |
| `chain_restart` | violation | `NoForkAboveGenesis` | `canStart` starts at 1, so a restarted node mines on its stale head before syncing, and live peers accept the fork. |
| `chain_skew` | violation | `NoForkAboveGenesis` | C's clock is one second fast, and there is no crash or delay. At real second 1, B seals its slot-1 child of A's block 1 while C, whose clock reads 2, seals its slot-2 child. Every node accepts both. The rotation is only exclusive when the clocks agree, and spec.md states no bound on skew. |
| `replay` | violation | `SealedByCoinbase` | The signature covers only the coinbase. An outsider copies A's SignInfo into its own block, and A's peers accept it. |
| `miner_resume` | pass | `ResumeAfterSync`, `CanStartRestored` | Mining that a sync interrupted resumes unless a user Stop intervenes. canStart is always restored. |
| `miner_sync_race` | violation | `NoMiningDuringSync` | `Start` passes its canStart check, `update` then sees `Mining()` false, and the worker runs through the sync. |
| `miner_deferred_lost` | violation | `DeferredStartHonoured` | `update` loads `shouldStart` just before a `Start` stores it. The start defers itself to a sync that has already ended. |
| `backend_mining` | pass | `MiningHasCoinbase` | Start, Stop, two StartMining calls, a SetLovebase and a wallet that gains an account interleave. Even so, the miner never mines for the zero address. |
| `backend_settled` | violation | `SettledMinerMatchesLastCalls` | Once every call has returned, the miner should be what the last calls asked for: not mining after the last StopMining or the node's Stop, and every copy of the producer identity on the last SetLovebase's address. In TLC's trace, the `go s.miner.Start(eb)` goroutine of a StartMining that has returned runs after a later `StopMining` and starts the worker. The same goroutine also overtakes the node's Stop and a later SetLovebase. |
| `batch_results` | pass | `VerifyHeadersRefinesStream` | This covers every batch of up to three headers. VerifyBatch implements the abstract stream of `VerifyStream` under the mapping `out <- got`. Results arrive in input order, and up to the first failure they agree with verifying the headers one at a time against a growing chain. Unless the caller aborts, every header gets a result (the abstract `Emit` is weakly fair). |
| `batch_abort` | violation | `NoResultAfterAbort` | Once `abort` is closed, both `select` cases are ready, so results are still sent after abort. |

Each property of a passing run has a mutant in `PROJECT.json`, a plausible
bug that TLC catches:

| Mutant | Breaks |
|---|---|
| An inclusive turn end in `FirstTurnOk` | `TimingMatchesRotation` and `NoForkAboveGenesis` |
| `Prepare` not setting the difficulty | `TypeOK` |
| The importer never switching its head to a received block | `HeadsConverge` |
| `update` not storing `shouldStart` | `ResumeAfterSync` |
| `update` ignoring `FailedEvent` | `CanStartRestored` |
| `Lovebase()` without its zero check | `MiningHasCoinbase` |
| `VerifyHeaders` passing `headers[:i-1]` | `VerifyHeadersRefinesStream` |

## Bounds and why they suffice

- **MC_DpovpRules.** Gaps run to 65 s, which is more than a full loop of the
  largest configuration (3 × 10 s) plus the self-succession window. So every
  branch of the table (slot 0, slot 1 inside and beyond the first loop,
  slot > 1) and every turn boundary is reached. The turns of the (1.5 s, 0.5 s)
  configuration are not whole seconds.
- **DpovpChain.** The model has three nodes, 2 s turns with a 1 s minimum gap
  (a 6 s loop), 8 s of clock, genesis plus 4 blocks, and one crash. In the
  pass run only A's operator calls SetLovebase, with A's own address
  (`OnlyALovebase`). Such a store changes nothing, so in these runs every
  block carries and is signed for its sealer's own address; the coinbase
  race is checked in NodeBackend instead. The same no-op stores on B and C
  would only multiply the states by four. That is
  enough for each of these to be accepted by a node that did not seal it:
  blocks in slot 0 (self-succession), slot 1 and slot 2 above genesis, and a
  fork at height 1. Probes of the pass configuration reach each of them.
  `Delay` = 0 is the synchrony assumption the rotation relies on. The pass
  and restart runs give every clock real time (`NoSkew`); the skew run sets
  C one second fast (`FastC`), the smallest skew a clock in seconds has. The chain
  run explores about 400 000 states in about a minute, most of it spent on
  the liveness check.
- **NodeBackend.** The node has no `--lovebase`, so every branch of
  `Lovebase()` is reached: the empty wallet, the auto-configuration and a
  set value. It also has two StartMining callers, one SetLovebase caller and
  one StopMining. That is enough for a goroutine to race a SetLovebase, for
  two `miner.SetLovebase` calls to overlap, and for a StartMining to be in
  flight when Stop begins. The run explores about 200 000 states.
- **VerifyBatch.** The batches are every sequence of one to three of six
  headers over genesis. The headers are a valid line, a sibling with a bad
  signature, a child of that sibling, a wrongly numbered header and one with
  difficulty 2. So the batch lookup finds parents before, after and outside
  the batch, and failures are followed by more headers.
- **MinerLifecycle.** Two StartMining goroutines, two StopMining calls and two
  syncs. That covers a Start racing update, a Stop racing a Start, and a
  second sync after update has left the loop.

## Fairness

The Go scheduler runs every runnable goroutine, so each goroutine that is inside
`Start`, `Stop` or the update loop gets weak fairness. A sync that has begun
ends (weak fairness on `SyncEnd`). API calls and the start of a sync are
environment choices and get no fairness. In NodeBackend, every thread inside a call and the node's Stop sequence get
weak fairness, for the same reason. In VerifyBatch, the verifying goroutine
does, and so does the caller's read loop until it aborts. Closing `abort` is
the caller's choice. In DpovpChain, real time passes, and a running node's
downloader and fetcher keep importing what it has not settled, so the
disjunction of `Tick`, `Receive` and `SyncDone` is weakly fair. One condition
is enough, because `Tick` waits for the imports. Sealing, crashes, restarts
and SetLovebase calls are environment choices and are not fair.

## Not modelled (yet), and why

- **The test engines and `TestChainConfig`**. Their zero `Timeout` makes
  `timeSpan % oneLoopTime` panic, against spec.md 4.6's claim that fakers
  accept everything. `VerifyTiming` returns `DivideByZero` for that case. It
  is test code, so no run is spent on it.
- **The single-block coinbase window.** A block sealed between the worker's
  and the engine's store in `miner.SetLovebase` is covered by DpovpChain's
  `SetLovebase`/`SetCoinbase` split, but no run gives a node a second
  Lovebase: the chain run's time budget is spent on the rotation and on
  liveness. The run list keeps only the lasting form (`backend_settled`).
- **Database writes after node stop.** A StartMining in flight during
  `Stop` starts the miner after `chainDb.Close()`. `SettledMinerMatchesLastCalls`
  catches the miner running after Stop; what the worker then does to the
  closed database is outside src/.
- **`CreateConsensusEngine` without a Dpovp section** returns a nil engine.
  `miner.SetLovebase`'s type assertion would then panic. This is a
  configuration error the model does not enumerate.
- **The default extra data size.** `makeExtraData`'s default RLP list is 30
  bytes for go1.10.x on linux but 33 bytes for a nine-character Go version
  (go1.11.13) on windows or freebsd, over the 32-byte limit, so it is
  silently dropped. The inputs are build-time strings and no consensus rule
  reads Extra, so nothing the node does depends on it.
- **`VerifyUncles`, `Author`, `CalcDifficulty`, `makeExtraData`/`SetExtra`,
  `Register`**. They are a length check, a field read, a constant, a size
  bound, and a registration that only `miner.New` calls before any Start.
  None of them has a state a property distinguishes.
- **A torn read of `d.coinbase`** (an unsynchronised 20-byte write). Each
  coinbase store is atomic in the model.
- **Finalize's reward and state root, and transaction execution.** These are
  data that none of the properties distinguish.
- **The light client (`les/backend.go`).** Its New, Start and Stop build,
  start and stop components whose code is not under src/. The light node
  never mines: `LightDummyAPI` reports `Mining` false and `Lovebase`
  unsupported, and its engine gets the zero coinbase. A light node in DpovpChain would
  be a node that only imports, crashes and restarts. Adding one to the
  chain run multiplied its states by about five (seven minutes), and its
  import path (`light.LightChain`) is outside src/, so it is left out.
- **The RPC backends (`network/api_backend.go`, `les/api_backend.go`).** Each
  call forwards to the blockchain, the txpool or the miner in one call and
  keeps no state. `SetHead` is the one two-step call (`downloader.Cancel`,
  then `blockchain.SetHead`), and both act on code outside src/.
- **Console extensions, metrics and command-line wiring.** These are
  JavaScript text, meter registration and flag parsing.
- **Liveness of sealing** (a turn eventually yields a block). The worker's
  wait for its slot is outside src/, and sealing gets no fairness.

How much of src/ the models cover: the definitions map about a fifth of
the implementation's lines. The logic that decides anything (dpovp.go,
miner.go, and backend.go's New, Start, Stop and mining calls) is mapped; the
rest is the console's JavaScript text (loveclientext.go, about 500 lines),
meter registration, RPC forwarding, the light client's wiring and
chain-parameter literals, listed above with the reason each is left out.

## Plan

1. `DpovpRules`, `MC_DpovpRules`: the verification table against the reference
   rotation (done).
2. `DpovpChain`, `DpovpReplay`: the network, the restart gate, clock skew
   and the replay (done).
3. `MinerLifecycle`: the start/stop races and the resumption liveness (done).
4. `NodeBackend`: the lazy Lovebase, StartMining's goroutine and Stop
   (done).
5. `VerifyBatch`, `VerifyStream`: VerifyHeaders refines the abstract
   verdict stream, and abort (done).
6. Next:
   - an abstract `Rotation` specification, with `DpovpChain` shown to refine
     it;
   - composing `MinerLifecycle`'s `running` with `DpovpChain`'s `Mine`.
