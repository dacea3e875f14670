----------------------------- MODULE VerifyStream -----------------------------
(***************************************************************************)
(* What VerifyHeaders promises its caller (spec.md section 5): an ordered *)
(* stream with one verdict per header of the batch.  Up to the first      *)
(* failure each verdict is the one importing the headers one at a time   *)
(* would give; after it the stream may carry any verdict.  The caller may *)
(* abort once, and then no further verdict reaches it.  Unless aborted,   *)
(* the stream is completed.                                               *)
(***************************************************************************)
EXTENDS Integers, Sequences

CONSTANTS Headers, Chain, MaxBatch

VARIABLES batch, out, aborted

Ok == "ok"

Verdicts == {Ok, "BadDifficulty", "UnknownAncestor"} \cup {h.rest : h \in Headers}

\* The verdict on the k-th header when the headers before it have been
\* imported one by one: its parent is looked up among the chain and those
\* headers by hash and number.
SequentialVerdict(k) ==
    LET h == batch[k]
        known == Chain \cup {[hash |-> batch[m].hash, number |-> batch[m].number]
                               : m \in 1..(k - 1)}
    IN  IF h.difficulty # 1 THEN "BadDifficulty"
        ELSE IF ~\E c \in known : c.hash = h.parent /\ c.number = h.number - 1
             THEN "UnknownAncestor"
             ELSE h.rest

AllOk(s) == \A m \in 1..Len(s) : s[m] = Ok

Init ==
    /\ batch \in UNION {[1..n -> Headers] : n \in 1..MaxBatch}
    /\ out = <<>> /\ aborted = FALSE

\* The next verdict reaches the caller.
Emit ==
    /\ ~aborted
    /\ Len(out) < Len(batch)
    /\ \E v \in Verdicts :
          /\ AllOk(out) => v = SequentialVerdict(Len(out) + 1)
          /\ out' = Append(out, v)
    /\ UNCHANGED <<batch, aborted>>

Abort ==
    /\ ~aborted
    /\ aborted' = TRUE
    /\ UNCHANGED <<batch, out>>

Spec == Init /\ [][Emit \/ Abort]_<<batch, out, aborted>>
             /\ WF_<<batch, out, aborted>>(Emit)
================================================================================
