----------------------------- MODULE LossyStore -----------------------------
(***************************************************************************)
(* What one shard of L0 promises, without its clock ring or its counters:  *)
(* a store of values that may drop entries, but only to make room for a    *)
(* value that is being put and does not fit.                               *)
(***************************************************************************)
EXTENDS Integers, FiniteSets

CONSTANTS Keys, Sizes, Unit, MemLimit, None

VARIABLES
    store,      \* store[k]: length of the value kept for k, 0 if none
    pending     \* the put in progress, or None

vars == <<store, pending>>

\* Bytes kept: the lengths laid out cell by cell.
Volume == Cardinality(UNION {{k} \X (1 .. store[k]) : k \in Keys})
UnitsOf(size) == (size + Unit - 1) \div Unit

Init ==
    /\ store = [k \in Keys |-> 0]
    /\ pending = None

BeginPut(k, n) ==
    /\ pending = None
    /\ pending' = [key |-> k, size |-> n]
    /\ UNCHANGED store

Drop(k) ==
    /\ pending # None
    /\ Volume + UnitsOf(pending.size) > MemLimit
    /\ store[k] # 0
    /\ store' = [store EXCEPT ![k] = 0]
    /\ UNCHANGED pending

FinishPut ==
    /\ pending # None
    /\ store' = [store EXCEPT ![pending.key] = pending.size]
    /\ pending' = None

Remove(k) ==
    /\ pending = None
    /\ store[k] # 0
    /\ store' = [store EXCEPT ![k] = 0]
    /\ UNCHANGED pending

Next ==
    \/ \E k \in Keys, n \in Sizes : BeginPut(k, n)
    \/ \E k \in Keys : Drop(k) \/ Remove(k)
    \/ FinishPut

Spec == Init /\ [][Next]_vars
=============================================================================
