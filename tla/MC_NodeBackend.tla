---------------------------- MODULE MC_NodeBackend ----------------------------
(* The node backend with two StartMining callers and one SetLovebase caller. *)
EXTENDS NodeBackend

CONSTANTS C1, C2, S1, A0, U1

MCCallers == {C1, C2}
MCSetters == {S1}
MCUserAddrs == {U1}
================================================================================
