--------------------------- MODULE MCDrainLedger ---------------------------
(* Three stops competing for two witnesses. *)
EXTENDS DrainLedger, TLC
Symmetry == Permutations(Ids)
=============================================================================
