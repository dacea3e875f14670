---------------------------- MODULE MC_VerifyBatch ----------------------------
(* Batches of up to three headers over genesis: a valid line g-h1-h2, a    *)
(* sibling of h2 whose signature fails, a child of that sibling, a header  *)
(* numbered wrongly for its parent, and one with difficulty 2.             *)
EXTENDS VerifyBatch

MCChain == {[hash |-> "g", number |-> 0]}

Hdr(hash, number, parent, difficulty, rest) ==
    [hash |-> hash, number |-> number, parent |-> parent,
     difficulty |-> difficulty, rest |-> rest]

MCHeaders ==
    { Hdr("h1", 1, "g", 1, "ok"), Hdr("h2", 2, "h1", 1, "ok"),
      Hdr("h2b", 2, "h1", 1, "BadSignature"), Hdr("h3", 3, "h2b", 1, "ok"),
      Hdr("hm", 3, "h1", 1, "ok"), Hdr("hd", 1, "g", 2, "ok") }
================================================================================
