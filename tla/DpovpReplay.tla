----------------------------- MODULE DpovpReplay -----------------------------
(***************************************************************************)
(* The DPoVP network of DpovpChain with an attacker who runs no star node  *)
(* but receives the gossip.  Seal signs Keccak256(coinbase) only           *)
(* (dpovp.go 287-288), so every block of a producer carries the same       *)
(* SignInfo; the attacker copies it into a block of its own making, with   *)
(* the victim's coinbase, and gossips it in the victim's turn.             *)
(***************************************************************************)
EXTENDS DpovpChain

CONSTANT Forgers    \* the attacker's addresses (a subset of Outsiders)

ASSUME Forgers \subseteq Outsiders

\* Forger x builds on block pid a block that replays the SignInfo of block
\* id, timed so that verifyHeader's timing table admits its victim.
Forge(x, id, pid) ==
    LET v == blocks[id].coinbase
        b == [number |-> blocks[pid].number + 1, parent |-> pid,
              coinbase |-> v, time |-> now, difficulty |-> 1,
              sign |-> blocks[id].sign, sealer |-> x]
    IN
    /\ id # 1
    /\ Len(blocks) < MaxBlocks
    /\ VerifyTiming(blocks[pid], b) = "ok"
    /\ b \notin Range(blocks)
    /\ blocks' = Append(blocks, b)
    /\ UNCHANGED <<now, known, rejected, head, lovebaseVars, up, synced, crashes>>

ReplayNext == Next \/ \E x \in Forgers, id, pid \in Ids : Forge(x, id, pid)

ReplaySpec == Init /\ [][ReplayNext]_vars

(***************************************************************************)
(* Spec.md 3 and 8.2: the signature authenticates the producer.  Every     *)
(* block a star node accepts through verifyHeader was sealed by the holder *)
(* of its coinbase's key.                                                  *)
(***************************************************************************)
SealedByCoinbase ==
    \A n \in Nodes : \A id \in known[n] \ {1} :
        blocks[id].sealer = blocks[id].coinbase
=============================================================================
