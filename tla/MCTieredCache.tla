--------------------------- MODULE MCTieredCache ---------------------------
(* Clients, keys and promotion slots can be interchanged. *)
EXTENDS TieredCache, TLC

Perms == Permutations(Clients) \cup Permutations(Keys) \cup Permutations(PromoSlots)
=============================================================================
