---------------------------- MODULE MCLifecycle ----------------------------
(* Callers of Initialize can be interchanged. *)
EXTENDS Lifecycle, TLC

Perms == Permutations(Callers)
=============================================================================
