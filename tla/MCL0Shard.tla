----------------------------- MODULE MCL0Shard -----------------------------
(* One shard with keys that can be interchanged. *)
EXTENDS L0Shard, TLC

Perms == Permutations(Keys)
=============================================================================
