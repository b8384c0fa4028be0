----------------------------- MODULE MCHubTables -----------------------------
(***************************************************************************)
(* HubTables for TLC: the commands are interchangeable.                     *)
(***************************************************************************)
EXTENDS HubTables, TLC

Symmetry == Permutations(Writers)
=============================================================================
