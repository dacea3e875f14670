----------------------------- MODULE VerifyBatch -----------------------------
(***************************************************************************)
(* Dpovp.VerifyHeaders (src/consensus/dpovp/dpovp.go lines 75-91): one     *)
(* goroutine verifies a batch of headers in input order, each against the  *)
(* prefix of the batch before it, and offers each result in a select that *)
(* also listens on the abort channel.  The results channel is buffered to  *)
(* the batch length, so a send never blocks.  The caller reads results and *)
(* may close abort once, at any time.                                      *)
(* A header is abstracted to its hash, number, parent hash, difficulty and *)
(* the verdict of the checks after the parent lookup (signature and        *)
(* timing, which DpovpRules models).                                       *)
(***************************************************************************)
EXTENDS Integers, Sequences

CONSTANTS
    Headers,   \* headers a batch may hold: [hash, number, parent, difficulty, rest]
    Chain,     \* headers in the chain reader: [hash, number]
    MaxBatch   \* bound on the batch length

Ok == "ok"

VARIABLES
    batch,     \* the headers slice passed in
    i,         \* the goroutine's loop index
    err,       \* the result computed for header i, not yet offered
    gpc,       \* the goroutine: "loop", "select" or "exit"
    buf,       \* results: the buffered channel's contents
    got,       \* the results the caller has received, in order
    aborted,   \* the caller has closed abort
    late       \* ghost: results sent after abort was closed

vars == <<batch, i, err, gpc, buf, got, aborted, late>>

\* verifyHeader's parent lookup (lines 108-121): the first header of the
\* batch prefix whose hash is the parent hash, else the chain
\* reader's header of that hash at number - 1; missing, misnumbered or
\* misrooted is ErrUnknownAncestor.
ParentFound(h, parents) ==
    LET inBatch == {k \in 1..Len(parents) : parents[k].hash = h.parent}
    IN  IF inBatch # {}
        THEN LET p == parents[CHOOSE k \in inBatch :
                                \A m \in inBatch : k <= m]
             IN  p.number = h.number - 1
        ELSE \E c \in Chain : c.hash = h.parent /\ c.number = h.number - 1

\* verifyHeader(chain, header, parents), lines 97-139 up to the checks the
\* abstract verdict h.rest stands for.
VerifyInBatch(h, parents) ==
    IF h.difficulty # 1 THEN "BadDifficulty"
    ELSE IF ~ParentFound(h, parents) THEN "UnknownAncestor"
    ELSE h.rest

\* Mutant: each header verified against the prefix that stops one short.
ResultOf_ShortPrefix(k) == VerifyInBatch(batch[k], SubSeq(batch, 1, k - 2))

\* The i-th result: headers[i] against headers[:i] (line 82).
ResultOf(k) == VerifyInBatch(batch[k], SubSeq(batch, 1, k - 1))

Init ==
    /\ batch \in UNION {[1..n -> Headers] : n \in 1..MaxBatch}
    /\ i = 1 /\ err = Ok /\ gpc = "loop"
    /\ buf = <<>> /\ got = <<>> /\ aborted = FALSE /\ late = FALSE

\* Lines 81-82: the range loop takes the next header and verifies it.
Loop ==
    /\ gpc = "loop"
    /\ IF i > Len(batch)
       THEN gpc' = "exit" /\ UNCHANGED <<i, err>>
       ELSE gpc' = "select" /\ err' = ResultOf(i) /\ UNCHANGED i
    /\ UNCHANGED <<batch, buf, got, aborted, late>>

\* Lines 84-88: with abort closed and the buffer never full, both cases of
\* the select are ready and Go picks either.
SelectSend ==
    /\ gpc = "select"
    /\ Len(buf) < Len(batch)
    /\ buf' = Append(buf, err)
    /\ late' = (late \/ aborted)
    /\ i' = i + 1 /\ gpc' = "loop"
    /\ UNCHANGED <<batch, err, got, aborted>>

SelectAbort ==
    /\ gpc = "select"
    /\ aborted
    /\ gpc' = "exit"
    /\ UNCHANGED <<batch, i, err, buf, got, aborted, late>>

\* The caller receives the next result.
Receive ==
    /\ ~aborted
    /\ buf # <<>>
    /\ got' = Append(got, Head(buf))
    /\ buf' = Tail(buf)
    /\ UNCHANGED <<batch, i, err, gpc, aborted, late>>

\* The caller closes abort, once (a second close would panic).
Abort ==
    /\ ~aborted
    /\ aborted' = TRUE
    /\ UNCHANGED <<batch, i, err, gpc, buf, got, late>>

Next == Loop \/ SelectSend \/ SelectAbort \/ Receive \/ Abort

\* The verifying goroutine is scheduled, and the caller keeps reading until
\* it aborts; the abort itself is the caller's choice.
Spec == Init /\ [][Next]_vars
             /\ WF_vars(Loop) /\ WF_vars(SelectSend \/ SelectAbort)
             /\ WF_vars(Receive)

-----------------------------------------------------------------------------
\* The promise of lines 75-91: the results the caller receives are the
\* abstract ordered stream of VerifyStream.
Stream == INSTANCE VerifyStream WITH out <- got

\* The caller receives an ordered stream of verdicts that agrees with
\* one-at-a-time import up to the first failure and, unless it aborts,
\* holds a verdict for every header: VerifyHeaders, its goroutine and its buffered channel together
\* implement the stream VerifyStream specifies.
VerifyHeadersRefinesStream == Stream!Spec

\* After abort is closed, no further result is emitted (spec.md section 5,
\* Cancellation).
NoResultAfterAbort == ~late
================================================================================
