-------------------------------- MODULE MCWal --------------------------------
(* Writers can be interchanged. *)
EXTENDS Wal, TLC

Perms == Permutations(Writers)
=============================================================================
