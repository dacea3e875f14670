---------------------------- MODULE MC_DpovpChain ----------------------------
(***************************************************************************)
(* Three star nodes A, B, C in roster order and one outside address X.    *)
(***************************************************************************)
EXTENDS DpovpChain

CONSTANTS A, B, C, X

MCStarList == <<A, B, C>>
MCOutsiders == {X}

\* Every Miner.Start calls SetLovebase with the node's configured address.
MCLovebases(n) == {n}
\* Only A's operator calls SetLovebase, again with A's own address: the
\* coinbase stores still interleave with A's mining rounds, and B's and C's
\* identical stores, which change nothing, are not multiplied in.
OnlyALovebase(n) == IF n = A THEN {A} ELSE {}
\* Every clock reads real time.
NoSkew(n) == 0

\* C's clock runs one second ahead of the others'.
FastC(n) == IF n = C THEN 1 ELSE 0
=============================================================================
