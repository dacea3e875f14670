---------------------------- MODULE MC_DpovpReplay ----------------------------
(***************************************************************************)
(* Three star nodes A, B, C in roster order; the attacker holds address X. *)
(***************************************************************************)
EXTENDS DpovpReplay

CONSTANTS A, B, C, X

MCStarList == <<A, B, C>>
MCOutsiders == {X}
MCForgers == {X}
MCLovebases(n) == {n}
\* Every clock reads real time.
NoSkew(n) == 0
=============================================================================
