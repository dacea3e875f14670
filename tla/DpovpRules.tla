----------------------------- MODULE DpovpRules -----------------------------
(***************************************************************************)
(* The stateless decision rules of the DPoVP engine                        *)
(* (src/consensus/dpovp/dpovp.go) and of the star-node roster it consults  *)
(* (common/dpovp, not part of src/: modelled from spec.md section 3).      *)
(*                                                                         *)
(* Headers are records                                                     *)
(*   [number, parent, coinbase, time, difficulty, sign]                    *)
(* with time in UNIX seconds.  A signature is a record [key, msg]: the     *)
(* private key that produced it and the address whose Keccak256 hash was   *)
(* signed.  A key is named by the address it belongs to.                   *)
(***************************************************************************)
EXTENDS Integers, Sequences, SequencesExt

CONSTANTS
    StarList,   \* the ordered roster of star-node addresses (index 0..N-1)
    Timeout,    \* Dpovp.Timeout: one producer's turn, in ms
    Sleeptime,  \* Dpovp.Sleeptime: the minimum gap between blocks, in ms
    NoKey,      \* what Ecrecover yields for a signature over another hash
    NoSig       \* an empty SignInfo (Ecrecover fails)

ASSUME Timeout \in Nat /\ Sleeptime \in Nat

Stars == ToSet(StarList)

(***************************************************************************)
(* Roster helpers of common/dpovp (spec.md section 3).                     *)
(***************************************************************************)
\* GetCoreNodesCount
GetCoreNodesCount == Len(StarList)

\* GetCoreNodeIndex: 0-based position in the roster, -1 for a non-member.
GetCoreNodeIndex(a) == SelectInSeq(StarList, LAMBDA x : x = a) - 1

\* GetPubkeyByAddress: the registered key of a star node, NoKey otherwise.
GetPubkeyByAddress(a) == IF a \in Stars THEN a ELSE NoKey

\* GetSlot: producer turns from the parent's coinbase to the child's on
\* the ring; 0 when the same node produces again.
GetSlot(p, c) ==
    LET i == GetCoreNodeIndex(p)
        j == GetCoreNodeIndex(c)
    IN  IF i = j THEN 0 ELSE ((j - i - 1) % GetCoreNodesCount) + 1

(***************************************************************************)
(* crypto.Ecrecover over Keccak256(addr): the signing key when the         *)
(* signature is over that hash, an unrelated key for any other hash, and   *)
(* an error for an empty SignInfo.                                         *)
(***************************************************************************)
Ecrecover(addr, sig) ==
    IF sig = NoSig THEN "error"
    ELSE IF sig.msg = addr THEN sig.key ELSE NoKey

\* crypto.Sign(Keccak256(addr), privKey)
Sign(key, addr) == [key |-> key, msg |-> addr]

(***************************************************************************)
(* The rotation and timing table of verifyHeader (lines 142-202), applied  *)
(* once the signature has been checked.  Go's % and / on the non-negative  *)
(* spans reached here are TLA+'s % and \div; a zero loop time is Go's      *)
(* integer-divide-by-zero panic.                                           *)
(***************************************************************************)
\* Mutant: the successor's first turn also admits its last millisecond.
FirstTurnOk_Inclusive(timeSpan) == timeSpan >= Sleeptime /\ timeSpan <= Timeout

\* Lines 177-178: the next producer, within the first loop, may seal from
\* Sleeptime until its turn of Timeout ms ends.
FirstTurnOk(timeSpan) == timeSpan >= Sleeptime /\ timeSpan < Timeout

VerifyTiming(parent, header) ==
    LET timeSpan    == (header.time - parent.time) * 1000
        nodeCount   == GetCoreNodesCount
        slot        == GetSlot(parent.coinbase, header.coinbase)
        oneLoopTime == nodeCount * Timeout
    IN
    CASE parent.number = 0                      -> "ok"
      [] timeSpan < Sleeptime                   -> "TooSoon"
      [] nodeCount = 1                          -> "ok"
      [] oneLoopTime = 0 /\ ~(slot = 1 /\ timeSpan < oneLoopTime)
                                                -> "DivideByZero"
      [] slot = 0 ->
            IF timeSpan % oneLoopTime >= oneLoopTime - Timeout
            THEN "ok" ELSE "OutOfTurn"
      [] slot = 1 /\ timeSpan < oneLoopTime ->
            IF FirstTurnOk(timeSpan) THEN "ok" ELSE "OutOfTurn"
      [] slot = 1 ->
            IF timeSpan % oneLoopTime < Timeout THEN "ok" ELSE "OutOfTurn"
      [] OTHER ->
            IF (timeSpan % oneLoopTime) \div Timeout = slot - 1
            THEN "ok" ELSE "OutOfTurn"

(***************************************************************************)
(* verifyHeader (lines 97-203): parent is the header the batch prefix or   *)
(* the chain reader returned for header.parent, now the verifier's clock   *)
(* in seconds.  A parent the reader cannot find is the caller's            *)
(* UnknownAncestor case.                                                   *)
(***************************************************************************)
VerifyHeader(parent, header, now) ==
    LET pubKey == Ecrecover(header.coinbase, header.sign)
    IN
    CASE header.difficulty # 1                          -> "InvalidDifficulty"
      [] parent.number # header.number - 1              -> "UnknownAncestor"
      [] header.time > now                              -> "FutureBlock"
      [] pubKey = "error"                               -> "BadSignature"
      [] GetPubkeyByAddress(header.coinbase) = NoKey    -> "UnknownProducer"
      [] GetPubkeyByAddress(header.coinbase) # pubKey   -> "SignerMismatch"
      [] OTHER                                          -> VerifyTiming(parent, header)

(***************************************************************************)
(* VerifySeal (lines 216-232): the recovered signer must be the coinbase;  *)
(* the roster is not consulted.                                            *)
(***************************************************************************)
VerifySeal(header) ==
    LET pubKey == Ecrecover(header.coinbase, header.sign)
    IN  CASE pubKey = "error"          -> "BadSignature"
          [] pubKey # header.coinbase  -> "SignerMismatch"
          [] OTHER                     -> "ok"

(***************************************************************************)
(* Reference definition of the rotation: a loop of N turns of Timeout ms   *)
(* starts at the parent; turn k (0-based) of every loop belongs to the     *)
(* producer k+1 places after the parent's producer.  No producer may seal  *)
(* before Sleeptime.                                                       *)
(***************************************************************************)
TurnOwner(parent, time) ==
    LET span == (time - parent.time) * 1000
        k    == (span % (GetCoreNodesCount * Timeout)) \div Timeout
    IN  StarList[((GetCoreNodeIndex(parent.coinbase) + 1 + k)
                    % GetCoreNodesCount) + 1]

InTurn(parent, header) ==
    /\ (header.time - parent.time) * 1000 >= Sleeptime
    /\ header.coinbase = TurnOwner(parent, header.time)
=============================================================================
