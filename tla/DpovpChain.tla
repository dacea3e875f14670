----------------------------- MODULE DpovpChain -----------------------------
(***************************************************************************)
(* A network of star nodes running the DPoVP engine                        *)
(* (src/consensus/dpovp/dpovp.go).  Each node seals blocks on its head     *)
(* when its slot has arrived (Prepare, Finalize and Seal of one mining     *)
(* round), gossips them, and verifies the blocks of others with            *)
(* verifyHeader before adding them to its chain.  Nodes crash and restart  *)
(* with their chain on disk, and resynchronise before mining again.        *)
(*                                                                         *)
(* now is real time in seconds; node n's clock (time.Now() in Prepare and  *)
(* verifyHeader) reads now + Skew(n).  Delay bounds how many seconds a     *)
(* block may stay undelivered to a live node that no longer sees it as    *)
(* from the future: the synchrony the rotation relies on.                  *)
(***************************************************************************)
EXTENDS Integers, Sequences, SequencesExt, FiniteSets

CONSTANTS
    StarList, Timeout, Sleeptime, NoKey, NoSig,
    Outsiders,      \* addresses that are not star nodes
    Lovebases(_),   \* the addresses an operator may set as a node's coinbase
    MaxTime,        \* last second of the clock
    MaxBlocks,      \* bound on the number of blocks, genesis included
    MaxCrashes,     \* bound on crashes
    Delay,          \* seconds a block may remain undelivered to a live node
    Skew(_),        \* Skew(n): how far n's clock is ahead of real time
    MineBeforeSync  \* a restarted node may mine before its first sync ends

ASSUME MineBeforeSync \in BOOLEAN

INSTANCE DpovpRules

Nodes == Stars

VARIABLES
    now,        \* real time, in seconds
    blocks,     \* every block sealed so far; blocks[1] is genesis
    known,      \* known[n]: ids of the blocks in n's chain database
    rejected,   \* rejected[n]: ids n's verifier refused
    head,       \* head[n]: id of n's current head block
    wcoinbase,  \* wcoinbase[n]: the worker's coinbase, stamped into headers
    coinbase,   \* coinbase[n]: the engine's d.coinbase, signed by Seal
    pending,    \* pending[n]: SetLovebase calls yet to reach the engine
    up,         \* up[n]: the node is running
    synced,     \* synced[n]: the node has caught up since it started
    crashes

vars == <<now, blocks, known, rejected, head, wcoinbase, coinbase, pending, up,
          synced, crashes>>

lovebaseVars == <<wcoinbase, coinbase, pending>>

Genesis == [number |-> 0, parent |-> 0, coinbase |-> NoKey, time |-> 0,
            difficulty |-> 1, sign |-> NoSig, sealer |-> NoKey]

Ids == 1..Len(blocks)

\* The header verifyHeader finds as parent of block id (chain.GetHeader).
ParentOf(id) == blocks[blocks[id].parent]

Settled(n, id) == id \in known[n] \cup rejected[n]

\* time.Now().Unix() on node n.
Clock(n) == now + Skew(n)

\* The real second block id was sealed at.
SealedAt(id) == IF id = 1 THEN 0 ELSE blocks[id].time - Skew(blocks[id].sealer)

Init ==
    /\ now = 0
    /\ blocks = <<Genesis>>
    /\ known = [n \in Nodes |-> {1}]
    /\ rejected = [n \in Nodes |-> {}]
    /\ head = [n \in Nodes |-> 1]
    /\ wcoinbase = [n \in Nodes |-> n]
    /\ coinbase = [n \in Nodes |-> n]
    /\ pending = [n \in Nodes |-> {}]
    /\ up = [n \in Nodes |-> TRUE]
    /\ synced = [n \in Nodes |-> TRUE]
    /\ crashes = 0

(***************************************************************************)
(* Real time advances once every live node has settled every block sealed *)
(* Delay or more seconds ago that its own clock no longer puts in the      *)
(* future.                                                                 *)
(***************************************************************************)
Tick ==
    /\ now < MaxTime
    /\ \A n \in Nodes, id \in Ids :
          /\ up[n] /\ SealedAt(id) + Delay <= now
          /\ blocks[id].time <= Clock(n)
          => Settled(n, id)
    /\ now' = now + 1
    /\ UNCHANGED <<blocks, known, rejected, head, lovebaseVars, up, synced, crashes>>

(***************************************************************************)
(* The miner's wait for its slot (outside src/: spec.md 4.2 and 5): the    *)
(* parent is genesis, or the engine's own timing rules accept the          *)
(* coinbase now.                                                           *)
(***************************************************************************)
SlotArrived(parent, header) ==
    \/ parent.number = 0
    \/ /\ header.coinbase \in Stars
       /\ VerifyTiming(parent, header) = "ok"

(***************************************************************************)
(* Seal (lines 271-299): refuses a coinbase outside the roster and the     *)
(* genesis number, then signs Keccak256(d.coinbase) with the node's own    *)
(* private key (GetPrivKey).                                               *)
(***************************************************************************)
SealOk(n, header) ==
    /\ GetCoreNodeIndex(coinbase[n]) # -1
    /\ header.number # 0

Seal(n, header) == [header EXCEPT !.sign = Sign(n, coinbase[n])]

\* The worker's template for a block on n's head, stamped with the
\* worker's coinbase; the consensus fields are still empty.
Template(n) == [number |-> blocks[head[n]].number + 1, parent |-> head[n],
                coinbase |-> wcoinbase[n], time |-> 0,
                difficulty |-> 0, sign |-> NoSig, sealer |-> n]

\* Mutant: the difficulty is left as the template has it.
Prepare_NoDifficulty(n, header) == [header EXCEPT !.time = Clock(n)]

\* Prepare (lines 236-251): the parent is on the chain (the head); Nonce and
\* MixDigest are cleared, Difficulty is 1 (CalcDifficulty, 303-305) and
\* Time is n's clock in seconds.
Prepare(n, header) == [header EXCEPT !.difficulty = 1, !.time = Clock(n)]

(***************************************************************************)
(* One mining round of node n on its head: Prepare, Finalize (257-267)     *)
(* closes the block with no uncles, Seal signs it, and the worker writes   *)
(* it to its own chain and broadcasts it.  sealer records who really       *)
(* sealed it.                                                              *)
(***************************************************************************)
Mine(n) ==
    LET header == Prepare(n, Template(n))
        b == Seal(n, header)
    IN
    /\ up[n]
    /\ synced[n] \/ MineBeforeSync
    /\ Len(blocks) < MaxBlocks
    /\ SlotArrived(blocks[head[n]], header)
    /\ SealOk(n, header)
    /\ b \notin Range(blocks)
    /\ blocks' = Append(blocks, b)
    /\ known' = [known EXCEPT ![n] = @ \cup {Len(blocks) + 1}]
    /\ head' = [head EXCEPT ![n] = Len(blocks) + 1]
    /\ UNCHANGED <<now, rejected, lovebaseVars, up, synced, crashes>>

(***************************************************************************)
(* Node n imports block id once it has settled its parent: verifyHeader    *)
(* against the parent at n's clock, then the chain takes the longer        *)
(* branch (difficulty is always 1, so length decides; spec.md 4.5).  A     *)
(* block from the future waits; any other error rejects it, and a child of *)
(* a rejected block has an unknown ancestor.                               *)
(***************************************************************************)
\* Mutant: the importer never switches its head to a received block.
Longer_NoSwitch(n, id) == head[n]

\* The longer of n's head and block id (all difficulties are 1).
Longer(n, id) == IF blocks[id].number > blocks[head[n]].number THEN id ELSE head[n]

\* The importer stores a block verifyHeader accepted, or drops it.
Import(n, id, r) ==
    IF r = "ok"
    THEN /\ known' = [known EXCEPT ![n] = @ \cup {id}]
         /\ head' = [head EXCEPT ![n] = Longer(n, id)]
         /\ UNCHANGED rejected
    ELSE /\ rejected' = [rejected EXCEPT ![n] = @ \cup {id}]
         /\ UNCHANGED <<known, head>>

Receive(n, id) ==
    LET p == blocks[id].parent
        r == IF p \in rejected[n] THEN "UnknownAncestor"
             ELSE VerifyHeader(ParentOf(id), blocks[id], Clock(n))
    IN
    /\ up[n]
    /\ ~Settled(n, id)
    /\ Settled(n, p)
    /\ r # "FutureBlock"
    /\ Import(n, id, r)
    /\ UNCHANGED <<now, blocks, lovebaseVars, up, synced, crashes>>

(***************************************************************************)
(* Miner.SetLovebase (miner.go 181-185), called by the API's SetLovebase   *)
(* and by every Miner.Start: it stores the worker's coinbase and then the  *)
(* engine's (Dpovp.SetCoinbase, dpovp.go 52-54) without a lock, so calls   *)
(* may interleave and a mining round may run between the two stores.      *)
(* Its first store, miner.coinbase, is read only by update's restart after *)
(* a sync (MinerLifecycle), not by a mining round, and is left out here.   *)
(***************************************************************************)
SetLovebase(n, a) ==
    /\ up[n]
    /\ a \in Lovebases(n)
    /\ wcoinbase' = [wcoinbase EXCEPT ![n] = a]
    /\ pending' = [pending EXCEPT ![n] = @ \cup {a}]
    /\ UNCHANGED <<now, blocks, known, rejected, head, coinbase, up, synced, crashes>>

\* The second store of a SetLovebase call: Dpovp.SetCoinbase.
SetCoinbase(n, a) ==
    /\ up[n]
    /\ a \in pending[n]
    /\ coinbase' = [coinbase EXCEPT ![n] = a]
    /\ pending' = [pending EXCEPT ![n] = @ \ {a}]
    /\ UNCHANGED <<now, blocks, known, rejected, head, wcoinbase, up, synced, crashes>>

\* A node stops; its chain database survives.
Crash(n) ==
    /\ up[n]
    /\ crashes < MaxCrashes
    /\ up' = [up EXCEPT ![n] = FALSE]
    /\ synced' = [synced EXCEPT ![n] = FALSE]
    /\ pending' = [pending EXCEPT ![n] = {}]
    /\ crashes' = crashes + 1
    /\ UNCHANGED <<now, blocks, known, rejected, head, wcoinbase, coinbase>>

\* It restarts and must catch up first.  network.New creates the engine
\* with config.Lovebase (backend.go 135, dpovp.New), and the first
\* Miner.Start hands the worker the same address.
Restart(n) ==
    /\ ~up[n]
    /\ up' = [up EXCEPT ![n] = TRUE]
    /\ wcoinbase' = [wcoinbase EXCEPT ![n] = n]
    /\ coinbase' = [coinbase EXCEPT ![n] = n]
    /\ UNCHANGED <<now, blocks, known, rejected, head, pending, synced, crashes>>

\* The downloader's sync finishes: mining may resume.
SyncDone(n) ==
    /\ up[n] /\ ~synced[n]
    /\ \A id \in Ids : Settled(n, id)
    /\ synced' = [synced EXCEPT ![n] = TRUE]
    /\ UNCHANGED <<now, blocks, known, rejected, head, lovebaseVars, up, crashes>>

Next ==
    \/ Tick
    \/ \E n \in Nodes :
          \/ Mine(n) \/ Crash(n) \/ Restart(n) \/ SyncDone(n)
          \/ \E id \in Ids : Receive(n, id)
          \/ \E a \in Lovebases(n) : SetLovebase(n, a)
          \/ \E a \in pending[n] : SetCoinbase(n, a)

\* Real time passes; a running node's downloader and fetcher keep
\* importing the blocks it has not settled, and a sync that can finish
\* does.  Sealing, crashes, restarts and SetLovebase calls are the
\* environment's and get no fairness.
\* One weak fairness condition suffices: Tick waits for the imports, and
\* once the clock stops only imports and syncs remain.
Fairness ==
    WF_vars(Tick \/ \E n \in Nodes : SyncDone(n) \/ \E id \in Ids : Receive(n, id))

Spec == Init /\ [][Next]_vars /\ Fairness

-----------------------------------------------------------------------------
\* Every block has difficulty 1: the chain's fork choice counts blocks.
Block == [number : Nat, parent : Nat, coinbase : Stars \cup Outsiders \cup {NoKey},
          time : Nat, difficulty : {1},
          sign : [key : Nodes, msg : Stars \cup Outsiders] \cup {NoSig},
          sealer : Nodes \cup Outsiders \cup {NoKey}]

TypeOK ==
    /\ now \in 0..MaxTime
    /\ blocks \in Seq(Block) /\ Len(blocks) \in 1..MaxBlocks
    /\ \A n \in Nodes :
          /\ known[n] \subseteq Ids /\ rejected[n] \subseteq Ids
          /\ known[n] \cap rejected[n] = {}
          /\ head[n] \in known[n]
    /\ wcoinbase \in [Nodes -> Stars \cup Outsiders]
    /\ coinbase \in [Nodes -> Stars \cup Outsiders]
    /\ pending \in [Nodes -> SUBSET (Stars \cup Outsiders)]
    /\ up \in [Nodes -> BOOLEAN] /\ synced \in [Nodes -> BOOLEAN]

(***************************************************************************)
(* Under the synchrony bound, the rotation admits one child per parent:    *)
(* no node's chain holds two children of the same non-genesis block.       *)
(* This is what rules out forks beyond height 1; it needs the timing       *)
(* table, the wait for the slot, gossip before the next turn and the       *)
(* resync after a restart to work together.                                *)
(***************************************************************************)
NoForkAboveGenesis ==
    \A n \in Nodes : \A i, j \in known[n] \ {1} :
        /\ blocks[i].parent = blocks[j].parent
        /\ ParentOf(i).number > 0
        => i = j

(***************************************************************************)
(* Gossip, verifyHeader and the importer's fork choice make the network    *)
(* converge: eventually every two running nodes have heads at the same     *)
(* height.  It fails if a node keeps a block the others refuse, if an     *)
(* import is lost, or if the fork choice does not switch to a longer      *)
(* branch.                                                                 *)
(***************************************************************************)
HeadsConverge ==
    <>[](\A n, m \in Nodes :
            up[n] /\ up[m] => blocks[head[n]].number = blocks[head[m]].number)
=============================================================================
