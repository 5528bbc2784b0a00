----------------------------- MODULE MCSnapshot -----------------------------
(* Keys can be interchanged, and so can direct callers. *)
EXTENDS Snapshot, TLC

Perms == Permutations(Keys) \cup Permutations(Direct)
=============================================================================
