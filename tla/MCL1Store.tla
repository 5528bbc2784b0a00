----------------------------- MODULE MCL1Store -----------------------------
(* Clients can be interchanged. *)
EXTENDS L1Store, TLC

Perms == Permutations(Clients)
=============================================================================
