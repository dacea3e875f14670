---------------------------- MODULE MC_DpovpRules ----------------------------
(***************************************************************************)
(* Checks verifyHeader's rotation and timing table against the reference  *)
(* rotation of DpovpRules over bounded inputs: every roster that is a      *)
(* prefix of Producers, every configuration in Configs, every parent       *)
(* producer, and every header time from one second before the parent to   *)
(* MaxGap seconds after it (more than one full loop).  The probe walks the *)
(* header time forward one second per step.                                *)
(***************************************************************************)
EXTENDS Integers, Sequences

CONSTANTS P1, P2, P3, MaxGap, NoKey, NoSig

\* The longest roster; the probe also uses its prefixes.
Producers == <<P1, P2, P3>>

\* <<Timeout, Sleeptime>> pairs: the mainnet and testnet values of
\* params/config.go (10 s, 3 s), and two with 0 < Sleeptime < Timeout whose
\* turns are not whole seconds or are short.
Configs == {<<10000, 3000>>, <<1500, 500>>, <<2000, 1000>>}

VARIABLES roster, config, parentCb, gap

vars == <<roster, config, parentCb, gap>>

R(r, c) == INSTANCE DpovpRules
             WITH StarList <- r, Timeout <- c[1], Sleeptime <- c[2]

Rosters == {SubSeq(Producers, 1, n) : n \in 1..Len(Producers)}

\* A block at height 1 by parentCb at second 100, and a candidate child by c.
Parent == [number |-> 1, coinbase |-> parentCb, time |-> 100]
Child(c) == [number |-> 2, coinbase |-> c, time |-> 100 + gap]

Init ==
    /\ roster \in Rosters
    /\ config \in Configs
    /\ parentCb \in {roster[i] : i \in 1..Len(roster)}
    /\ gap = -1

\* The verifier's clock moves on by one second.
NextSecond ==
    /\ gap < MaxGap
    /\ gap' = gap + 1
    /\ UNCHANGED <<roster, config, parentCb>>

Spec == Init /\ [][NextSecond]_vars

(***************************************************************************)
(* verifyHeader's timing table (VerifyTiming, dpovp.go 142-202) accepts a  *)
(* child of a non-genesis parent exactly when the reference rotation says  *)
(* it is the child producer's turn: one producer per instant, none before  *)
(* Sleeptime, and the turns repeat every loop of N * Timeout ms.           *)
(***************************************************************************)
TimingMatchesRotation ==
    \A c \in {roster[i] : i \in 1..Len(roster)} :
        (R(roster, config)!VerifyTiming(Parent, Child(c)) = "ok")
            <=> R(roster, config)!InTurn(Parent, Child(c))
=============================================================================
