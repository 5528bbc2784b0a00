---------------------------- MODULE ShardProofs ----------------------------
(* Proofs about the shards of the two tiers: about one L0 shard, for every *)
(* set of keys, ring length and memory limit, and in the second part about *)
(* L1, for every number of clients and shards and every capacity.          *)
EXTENDS L0Shard, L1Store, FiniteSetTheorems, TLAPS

\* Lengths of values, and the zero of an absent entry, are naturals.
LEMMA SizesNat == \A n \in Sizes \cup {0} : n \in Nat
BY SizesAssumption

\* The weight NewCacheEntry computes is a natural number of units.
LEMMA WeightType == \A n \in Nat : Weight(n) \in Nat
BY LimitAssumption DEF Weight

\* An absent entry weighs nothing.
LEMMA WeightZero == Weight(0) = 0
BY LimitAssumption DEF Weight

(***************************************************************************)
(* Sums over Keys, as numbers of cells.                                    *)
(***************************************************************************)

\* One key's cells are finitely many, as many as its value says.
LEMMA ColumnFacts ==
    ASSUME NEW k, NEW n \in Nat
    PROVE  IsFiniteSet({k} \X (1 .. n)) /\ Cardinality({k} \X (1 .. n)) = n
<1>1. IsFiniteSet({k}) /\ Cardinality({k}) = 1
  BY FS_Singleton
<1>2. IsFiniteSet(1 .. n) /\ Cardinality(1 .. n) = n
  BY FS_Interval
<1>3. IsFiniteSet({k} \X (1 .. n)) /\ Cardinality({k} \X (1 .. n)) = Cardinality({k}) * Cardinality(1 .. n)
  BY <1>1, <1>2, FS_Product, Zenon
<1>4. 1 * n = n
  OBVIOUS
<1>. QED  BY <1>1, <1>2, <1>3, <1>4, Zenon

\* There are finitely many cells, so their number is a natural number.
LEMMA CellsFinite ==
    ASSUME NEW f \in [Keys -> Nat]
    PROVE  IsFiniteSet(Cells(f)) /\ Total(f) \in Nat
<1>. DEFINE col == [k \in Keys |-> {k} \X (1 .. f[k])]
<1>1. IsFiniteSet({col[k] : k \in Keys})
  <2>1. col \in [Keys -> {col[k] : k \in Keys}]
    OBVIOUS
  <2>2. col \in Surjection(Keys, {col[k] : k \in Keys})
    BY <2>1 DEF Surjection
  <2>. QED  BY <2>2, KeysAssumption, FS_Surjection
<1>2. \A T \in {col[k] : k \in Keys} : IsFiniteSet(T)
  <2>1. \A k \in Keys : IsFiniteSet({k} \X (1 .. f[k]))
    BY ColumnFacts
  <2>. QED  BY <2>1, Zenon
<1>3. Cells(f) = UNION {col[k] : k \in Keys}
  BY DEF Cells
<1>4. IsFiniteSet(Cells(f))
  BY <1>1, <1>2, <1>3, FS_UNION
<1>. QED  BY <1>4, FS_CardinalityType DEF Total

\* An absent entry everywhere: the sum is zero.
LEMMA TotalZero == Total([k \in Keys |-> 0]) = 0
<1>1. Cells([k \in Keys |-> 0]) = {}
  BY DEF Cells
<1>. QED  BY <1>1, FS_EmptySet DEF Total

\* Changing one value changes the sum by the difference, and no value exceeds
\* the sum.
LEMMA TotalUpdate ==
    ASSUME NEW f \in [Keys -> Nat], NEW k \in Keys, NEW n \in Nat
    PROVE  /\ Total([f EXCEPT ![k] = n]) = Total(f) - f[k] + n
           /\ f[k] <= Total(f)
<1>. DEFINE g == [f EXCEPT ![k] = n]
            old == {k} \X (1 .. f[k])
            new == {k} \X (1 .. n)
<1>1. Cells(g) = (Cells(f) \ old) \cup new
  BY DEF Cells
<1>2. old \subseteq Cells(f) /\ (Cells(f) \ old) \cap new = {}
  BY DEF Cells
<1>3. IsFiniteSet(old) /\ Cardinality(old) = f[k] /\ IsFiniteSet(new) /\ Cardinality(new) = n
  BY ColumnFacts
<1>4. IsFiniteSet(Cells(f)) /\ Total(f) \in Nat
  BY CellsFinite
<1>5. Cells(f) \cap old = old
  BY <1>2
<1>6. IsFiniteSet(Cells(f) \ old)
  BY <1>4, FS_Difference, Zenon
<1>7. Cardinality(Cells(f) \ old) = Total(f) - f[k]
  <2>1. Cardinality(Cells(f) \ old) = Cardinality(Cells(f)) - Cardinality(Cells(f) \cap old)
    BY <1>4, FS_Difference, Zenon
  <2>. QED  BY <2>1, <1>3, <1>5, Zenon DEF Total
<1>8. Cardinality(Cells(g)) = Total(f) - f[k] + n
  <2>1. Cardinality(Cells(g)) = Cardinality(Cells(f) \ old) + Cardinality(new) - Cardinality((Cells(f) \ old) \cap new)
    BY <1>1, <1>3, <1>6, FS_Union, Zenon
  <2>2. Cardinality((Cells(f) \ old) \cap new) = 0
    BY <1>2, FS_EmptySet, Zenon
  <2>3. Cardinality(Cells(g)) = (Total(f) - f[k]) + n - 0
    BY <2>1, <2>2, <1>3, <1>7, Zenon
  <2>. QED  BY <2>3, <1>4
<1>9. f[k] <= Total(f)
  <2>1. Cardinality(old) <= Cardinality(Cells(f))
    BY <1>2, <1>4, FS_Subset, Zenon
  <2>. QED  BY <2>1, <1>3, Zenon DEF Total
<1>. QED  BY <1>8, <1>9, Zenon DEF Total

\* The two counters after one entry changes its length.
LEMMA AccountUpdate ==
    ASSUME NEW e \in [Keys -> Nat], NEW k \in Keys, NEW n \in Nat
    PROVE  /\ Total([e EXCEPT ![k] = n]) = Total(e) - e[k] + n
           /\ Total([e EXCEPT ![k] = n]) \in Nat
           /\ Total(Weights([e EXCEPT ![k] = n])) = Total(Weights(e)) - Weight(e[k]) + Weight(n)
           /\ Total(Weights([e EXCEPT ![k] = n])) \in Nat
<1>1. [e EXCEPT ![k] = n] \in [Keys -> Nat]
  OBVIOUS
<1>2. Weights(e) \in [Keys -> Nat] /\ Weights([e EXCEPT ![k] = n]) \in [Keys -> Nat]
  BY <1>1, WeightType DEF Weights
<1>3. Weights([e EXCEPT ![k] = n]) = [Weights(e) EXCEPT ![k] = Weight(n)]
  BY DEF Weights
<1>4. Weights(e)[k] = Weight(e[k]) /\ Weight(n) \in Nat
  BY WeightType DEF Weights
<1>5. Total([e EXCEPT ![k] = n]) = Total(e) - e[k] + n
  BY TotalUpdate, Zenon
<1>6. Total([Weights(e) EXCEPT ![k] = Weight(n)]) = Total(Weights(e)) - Weights(e)[k] + Weight(n)
  BY <1>2, <1>4, TotalUpdate, Zenon
<1>7. Total([e EXCEPT ![k] = n]) \in Nat /\ Total(Weights([e EXCEPT ![k] = n])) \in Nat
  BY <1>1, <1>2, CellsFinite, Zenon
<1>. QED  BY <1>3, <1>4, <1>5, <1>6, <1>7, Zenon

(***************************************************************************)
(* The clock ring.                                                         *)
(***************************************************************************)
\* A remainder lies below its modulus.
LEMMA ModRange == \A a \in Nat, m \in Nat \ {0} : a % m \in 0 .. m - 1
OBVIOUS

\* The ring has FreqCap slots.
LEMMA SlotsFinite == IsFiniteSet(Slots) /\ Cardinality(Slots) = FreqCap
BY FS_Interval, RingAssumption DEF Slots

\* Any set of slots has at most FreqCap members, and one less or one more
\* when a slot leaves or enters it.
LEMMA SlotCount ==
    ASSUME NEW S \in SUBSET Slots, NEW s \in Slots
    PROVE  /\ Cardinality(S) \in 0 .. FreqCap
           /\ s \in S => Cardinality(S \ {s}) = Cardinality(S) - 1
           /\ s \notin S => Cardinality(S \cup {s}) = Cardinality(S) + 1
<1>1. IsFiniteSet(S) /\ Cardinality(S) <= FreqCap
  BY SlotsFinite, FS_Subset
<1>2. Cardinality(S) \in Nat
  BY <1>1, FS_CardinalityType
<1>3. s \in S => Cardinality(S \ {s}) = Cardinality(S) - 1
  BY <1>1, FS_RemoveElement
<1>4. s \notin S => Cardinality(S \cup {s}) = Cardinality(S) + 1
  BY <1>1, FS_AddElement
<1>. QED  BY <1>1, <1>2, <1>3, <1>4, RingAssumption

\* The scan stays inside the ring, and passing over slots moves no key.
LEMMA ScanFacts ==
    ASSUME TypeOK, NEW n \in 0 .. freqSize
    PROVE  /\ Passed(n) \in [Slots -> ClockEntry]
           /\ \A s \in Slots : Passed(n)[s].key = frequency[s].key
           /\ \A i \in 0 .. freqSize - 1 : ScanSlot(i) \in Slots
<1>1. \A i \in 0 .. freqSize - 1 : ScanSlot(i) \in Slots
  BY ModRange, RingAssumption DEF TypeOK, ScanSlot, Slots
<1>2. \A s \in Slots : frequency[s] \in ClockEntry
  BY DEF TypeOK
<1>3. \A s \in Slots : /\ [frequency[s] EXCEPT !.reference = FALSE] \in ClockEntry
                       /\ [frequency[s] EXCEPT !.reference = FALSE].key = frequency[s].key
  BY <1>2 DEF ClockEntry
<1>. QED  BY <1>1, <1>2, <1>3 DEF Passed

(***************************************************************************)
(* The inductive invariant.  The counters' types follow from the           *)
(* accounting (a difference is natural because it is a number of cells, a  *)
(* freqSize is at most FreqCap because it is a number of slots), and the   *)
(* accounting needs the types, so they are proved together.                *)
(***************************************************************************)
IInv == TypeOK /\ RingAccounting /\ MemoryAccounting

\* Replacing the length of one entry and adjusting the counters by the
\* difference keeps them exact: what Store, Evict, Delete and Demote do.
LEMMA EntryChange ==
    ASSUME IInv, NEW k \in Keys, NEW n \in Sizes \cup {0},
           entries' = [entries EXCEPT ![k] = n],
           usedMemory' = usedMemory - entries[k] + n,
           weight' = weight - Weight(entries[k]) + Weight(n)
    PROVE  /\ entries' \in [Keys -> Sizes \cup {0}]
           /\ usedMemory' \in Nat
           /\ weight' \in Nat
           /\ MemoryAccounting'
<1>1. entries \in [Keys -> Sizes \cup {0}] /\ entries' \in [Keys -> Sizes \cup {0}]
  BY DEF IInv, TypeOK
<1>2. entries \in [Keys -> Nat] /\ n \in Nat
  <2>1. \A x \in Keys : entries[x] \in Nat
    BY <1>1, SizesNat
  <2>. QED  BY <1>1, <2>1, SizesNat
<1>3. usedMemory = Total(entries) /\ weight = Total(Weights(entries))
  BY DEF IInv, MemoryAccounting
<1>4. usedMemory' = Total(entries') /\ usedMemory' \in Nat
  BY <1>2, <1>3, AccountUpdate, Zenon
<1>5. weight' = Total(Weights(entries')) /\ weight' \in Nat
  BY <1>2, <1>3, AccountUpdate, Zenon
<1>. QED  BY <1>1, <1>4, <1>5 DEF MemoryAccounting

\* The same with nothing stored in its place.
LEMMA EntryRemoval ==
    ASSUME IInv, NEW k \in Keys,
           entries' = [entries EXCEPT ![k] = 0],
           usedMemory' = usedMemory - entries[k],
           weight' = weight - Weight(entries[k])
    PROVE  /\ entries' \in [Keys -> Sizes \cup {0}]
           /\ usedMemory' \in Nat
           /\ weight' \in Nat
           /\ MemoryAccounting'
<1>1. usedMemory \in Nat /\ weight \in Nat /\ entries[k] \in Nat
  BY SizesNat DEF IInv, TypeOK
<1>2. Weight(entries[k]) \in Nat
  BY <1>1, WeightType
<1>3. usedMemory' = usedMemory - entries[k] + 0
  BY <1>1
<1>4. weight' = weight - Weight(entries[k]) + Weight(0)
  BY <1>1, <1>2, WeightZero
<1>. QED  BY <1>3, <1>4, EntryChange

\* A slot leaves the ring.
LEMMA SlotFreed ==
    ASSUME IInv, NEW s \in Occupied,
           frequency' \in [Slots -> ClockEntry],
           \A t \in Slots : frequency'[t].key = IF t = s THEN None ELSE frequency[t].key,
           freqSize' = freqSize - 1
    PROVE  freqSize' \in 0 .. FreqCap /\ RingAccounting'
<1>1. Occupied' = Occupied \ {s} /\ Occupied \subseteq Slots /\ Occupied' \subseteq Slots
  BY DEF Occupied
<1>2. freqSize' = Cardinality(Occupied')
  BY <1>1, SlotCount DEF IInv, RingAccounting
<1>3. Cardinality(Occupied') \in 0 .. FreqCap
  BY <1>1, SlotCount
<1>. QED  BY <1>2, <1>3 DEF RingAccounting

\* A step that moves no key in the ring.
LEMMA SameSlots ==
    ASSUME RingAccounting, freqSize' = freqSize,
           \A t \in Slots : frequency'[t].key = frequency[t].key
    PROVE  RingAccounting'
<1>1. Occupied' = Occupied
  BY DEF Occupied
<1>. QED  BY <1>1 DEF RingAccounting

\* A new shard (l0.New) satisfies the inductive invariant.
LEMMA InitIInv == Init => IInv
<1>. SUFFICES ASSUME Init PROVE IInv
  OBVIOUS
<1>1. TypeOK
  BY RingAssumption DEF Init, TypeOK, Slots, ClockEntry
<1>2. RingAccounting
  <2>1. Occupied = {}
    BY DEF Init, Occupied
  <2>. QED  BY <2>1, FS_EmptySet DEF Init, RingAccounting
<1>3. MemoryAccounting
  <2>1. Weights(entries) = [k \in Keys |-> 0]
    BY WeightZero DEF Init, Weights
  <2>. QED  BY <2>1, TotalZero DEF Init, MemoryAccounting
<1>. QED  BY <1>1, <1>2, <1>3 DEF IInv

\* evictOne with a victim: one entry, its bytes, its units and one slot go.
LEMMA EvictKeepsIInv == ASSUME IInv, NEW i \in 0 .. freqSize - 1, Evict(i) PROVE IInv'
<1>. DEFINE v == ScanSlot(i)
            k == frequency[v].key
<1>. USE DEF IInv
<1>1. v \in Slots /\ i \in 0 .. freqSize
  BY ScanFacts DEF TypeOK
<1>2. k \in Keys /\ v \in Occupied
  BY <1>1 DEF Evict, FirstVictim, Evictable, Occupied, Resident
<1>3. /\ entries' \in [Keys -> Sizes \cup {0}] /\ usedMemory' \in Nat /\ weight' \in Nat
      /\ MemoryAccounting'
  BY <1>2, EntryRemoval DEF Evict
<1>4. /\ frequency' \in [Slots -> ClockEntry]
      /\ \A t \in Slots : frequency'[t].key = IF t = v THEN None ELSE frequency[t].key
  <2>1. Passed(i) \in [Slots -> ClockEntry] /\ \A s \in Slots : Passed(i)[s].key = frequency[s].key
    BY <1>1, ScanFacts
  <2>2. frequency' = [Passed(i) EXCEPT ![v].key = None]
    BY DEF Evict
  <2>. QED  BY <1>1, <2>1, <2>2 DEF ClockEntry
<1>5. freqSize' \in 0 .. FreqCap /\ RingAccounting'
  BY <1>2, <1>4, SlotFreed DEF Evict
<1>6. clockHand' \in Slots
  BY <1>1, ModRange, RingAssumption DEF Evict, Slots
<1>. QED  BY <1>3, <1>4, <1>5, <1>6 DEF Evict, TypeOK

\* evictOne without a victim only clears reference bits.
LEMMA EvictNothingKeepsIInv == ASSUME IInv, EvictNothing PROVE IInv'
<1>. USE DEF IInv
<1>1. freqSize \in 0 .. freqSize
  BY DEF TypeOK
<1>2. frequency' \in [Slots -> ClockEntry] /\ \A s \in Slots : frequency'[s].key = frequency[s].key
  BY <1>1, ScanFacts DEF EvictNothing
<1>3. RingAccounting'
  BY <1>2, SameSlots DEF EvictNothing
<1>4. MemoryAccounting'
  BY DEF EvictNothing, MemoryAccounting
<1>. QED  BY <1>2, <1>3, <1>4 DEF EvictNothing, TypeOK

\* addToClock keeps the ring's part of the invariant.
LEMMA AddToClockKeepsRing ==
    ASSUME IInv, NEW k \in Keys, AddToClock(k)
    PROVE  /\ frequency' \in [Slots -> ClockEntry]
           /\ freqSize' \in 0 .. FreqCap
           /\ clockHand' \in Slots
           /\ RingAccounting'
<1>. USE DEF IInv
<1>1. CASE \E i \in Slots :
             LET s == (clockHand + i) % FreqCap
             IN  /\ frequency[s].key = None
                 /\ frequency' = [frequency EXCEPT ![s] = [key |-> k, reference |-> TRUE]]
                 /\ freqSize' = IF freqSize < FreqCap THEN freqSize + 1 ELSE freqSize
                 /\ UNCHANGED clockHand
  <2>1. PICK s \in Slots :
               /\ frequency[s].key = None
               /\ frequency' = [frequency EXCEPT ![s] = [key |-> k, reference |-> TRUE]]
               /\ freqSize' = IF freqSize < FreqCap THEN freqSize + 1 ELSE freqSize
               /\ UNCHANGED clockHand
    <3>1. \A i \in Slots : (clockHand + i) % FreqCap \in Slots
      BY ModRange, RingAssumption DEF TypeOK, Slots
    <3>. QED  BY <1>1, <3>1, Zenon
  <2>2. frequency' \in [Slots -> ClockEntry]
    BY <2>1 DEF TypeOK, ClockEntry
  <2>3. s \notin Occupied /\ Occupied \subseteq Slots /\ Occupied' = Occupied \cup {s}
    BY <2>1, NoneAssumption DEF Occupied, TypeOK
  <2>4. /\ Cardinality(Occupied \cup {s}) = Cardinality(Occupied) + 1
        /\ Cardinality(Occupied \cup {s}) \in 0 .. FreqCap
    BY <2>3, SlotCount
  <2>5. freqSize' = freqSize + 1
    BY <2>1, <2>4, RingAssumption DEF RingAccounting, TypeOK
  <2>. QED  BY <2>1, <2>2, <2>3, <2>4, <2>5 DEF RingAccounting, TypeOK
<1>2. CASE clockHand' = (clockHand + 1) % FreqCap /\ UNCHANGED <<frequency, freqSize>>
  <2>1. clockHand' \in Slots
    BY <1>2, ModRange, RingAssumption DEF TypeOK, Slots
  <2>. QED  BY <1>2, <2>1, SameSlots DEF TypeOK
<1>. QED  BY <1>1, <1>2 DEF AddToClock

\* The end of Set: the counters change by the difference of the lengths.
LEMMA StoreKeepsIInv == ASSUME IInv, Store PROVE IInv'
<1>. USE DEF IInv
<1>1. req.key \in Keys /\ req.size \in Sizes
  BY DEF Store, TypeOK, Request
<1>2. /\ entries' \in [Keys -> Sizes \cup {0}] /\ usedMemory' \in Nat /\ weight' \in Nat
      /\ MemoryAccounting'
  BY <1>1, EntryChange DEF Store
<1>3. /\ frequency' \in [Slots -> ClockEntry] /\ freqSize' \in 0 .. FreqCap /\ clockHand' \in Slots
      /\ RingAccounting'
  BY <1>1, AddToClockKeepsRing DEF Store
<1>. QED  BY <1>2, <1>3 DEF Store, TypeOK

\* Delete takes an entry out of the map and leaves the ring alone.
LEMMA DeleteKeepsIInv == ASSUME IInv, NEW k \in Keys, Delete(k) PROVE IInv'
<1>. USE DEF IInv
<1>1. /\ entries' \in [Keys -> Sizes \cup {0}] /\ usedMemory' \in Nat /\ weight' \in Nat
      /\ MemoryAccounting'
  BY EntryRemoval DEF Delete
<1>2. RingAccounting'
  BY SameSlots DEF Delete
<1>. QED  BY <1>1, <1>2 DEF Delete, TypeOK

\* Demote takes an entry out of the map and one of its slots, if it has any.
LEMMA DemoteKeepsIInv == ASSUME IInv, NEW k \in Keys, Demote(k) PROVE IInv'
<1>. USE DEF IInv
<1>1. /\ entries' \in [Keys -> Sizes \cup {0}] /\ usedMemory' \in Nat /\ weight' \in Nat
      /\ MemoryAccounting'
  BY EntryRemoval DEF Demote
<1>2. frequency' \in [Slots -> ClockEntry] /\ freqSize' \in 0 .. FreqCap /\ RingAccounting'
  <2>1. CASE UNCHANGED <<frequency, freqSize>>
    BY <2>1, SameSlots DEF TypeOK
  <2>2. CASE \E s \in Slots : /\ frequency[s].key = k
                              /\ frequency' = [frequency EXCEPT ![s].key = None]
                              /\ freqSize' = freqSize - 1
    <3>1. PICK s \in Slots : /\ frequency[s].key = k
                             /\ frequency' = [frequency EXCEPT ![s].key = None]
                             /\ freqSize' = freqSize - 1
      BY <2>2
    <3>2. s \in Occupied
      BY <3>1, NoneAssumption DEF Occupied
    <3>3. /\ frequency' \in [Slots -> ClockEntry]
          /\ \A t \in Slots : frequency'[t].key = IF t = s THEN None ELSE frequency[t].key
      BY <3>1 DEF TypeOK, ClockEntry
    <3>. QED  BY <3>1, <3>2, <3>3, SlotFreed
  <2>. QED  BY <2>1, <2>2 DEF Demote
<1>. QED  BY <1>1, <1>2 DEF Demote, TypeOK

\* Every operation of the shard keeps the inductive invariant.
LEMMA NextIInv == IInv /\ [Next]_vars => IInv'
<1>. SUFFICES ASSUME IInv, [Next]_vars PROVE IInv'
  OBVIOUS
<1>1. ASSUME NEW k \in Keys, NEW n \in Sizes, SetLock(k, n) PROVE IInv'
  <2>1. TypeOK'
    BY <1>1 DEF IInv, TypeOK, SetLock, Request
  <2>2. RingAccounting' /\ MemoryAccounting'
    BY <1>1, SameSlots DEF IInv, SetLock, MemoryAccounting
  <2>. QED  BY <2>1, <2>2 DEF IInv
<1>2. CASE UNCHANGED vars
  <2>1. TypeOK'
    BY <1>2 DEF IInv, TypeOK, vars
  <2>2. RingAccounting' /\ MemoryAccounting'
    BY <1>2, SameSlots DEF IInv, vars, MemoryAccounting
  <2>. QED  BY <2>1, <2>2 DEF IInv
<1>. QED
  BY <1>1, <1>2, EvictKeepsIInv, EvictNothingKeepsIInv, StoreKeepsIInv, DeleteKeepsIInv,
     DemoteKeepsIInv DEF Next

\* Every reachable state satisfies the inductive invariant.
THEOREM Invariant == Spec => []IInv
BY InitIInv, NextIInv, PTL DEF Spec

\* The shard's variables keep their types: in particular the unsigned
\* counters usedMemory, weight and freqSize never go below zero, and freqSize
\* never exceeds the ring.
THEOREM TypeCorrect == Spec => []TypeOK
<1>1. IInv => TypeOK
  BY DEF IInv
<1>. QED  BY <1>1, Invariant, PTL

\* freqSize is the number of occupied slots in every reachable state.
THEOREM RingAccounted == Spec => []RingAccounting
<1>1. IInv => RingAccounting
  BY DEF IInv
<1>. QED  BY <1>1, Invariant, PTL

\* usedMemory and weight are exact in every reachable state.
THEOREM MemoryAccounted == Spec => []MemoryAccounting
<1>1. IInv => MemoryAccounting
  BY DEF IInv
<1>. QED  BY <1>1, Invariant, PTL

-----------------------------------------------------------------------------
(***************************************************************************)
(* What a step may do to the ring's view of the map.                       *)
(***************************************************************************)

\* The scan of a positions and that of at most one less differ in the last one.
LEMMA ScanShrinks ==
    ASSUME NEW a \in Nat, NEW b \in Nat, b \in {a, a - 1},
           NEW s \in 0 .. a - 1, s \notin 0 .. b - 1
    PROVE  b = a - 1 /\ s = b
OBVIOUS

\* A longer scan covers a shorter one.
LEMMA ScanGrows ==
    ASSUME NEW a \in Nat, NEW b \in {a, a + 1}
    PROVE  0 .. a - 1 \subseteq 0 .. b - 1
OBVIOUS

\* A step that takes at most k out of the map and at most slots of k out of
\* the ring, and ends the scan one position earlier at most, leaves every other
\* resident key tracked, and findable unless it stood in that position.
LEMMA TrackingByKey ==
    ASSUME TypeOK, TypeOK', NEW k \in Keys,
           Resident' = Resident \ {k},
           freqSize' \in {freqSize, freqSize - 1},
           \A s \in Slots : frequency[s].key \notin {k, None} => frequency'[s].key = frequency[s].key
    PROVE  TrackingStep
<1>1. \A x \in Tracked : x # k => x \in Tracked'
  BY DEF Tracked, Occupied
<1>2. ASSUME NEW x \in Findable, x # k, x \notin Findable'
      PROVE  freqSize' = freqSize - 1 /\ frequency[freqSize'].key = x
  <2>1. PICK s \in Scanned \cap Occupied : frequency[s].key = x
    BY DEF Findable
  <2>2. s \in Occupied' /\ frequency'[s].key = x
    BY <2>1, <1>2 DEF Occupied
  <2>3. s \notin Scanned'
    BY <2>2, <1>2 DEF Findable
  <2>4. freqSize \in Nat /\ freqSize' \in Nat
    BY RingAssumption DEF TypeOK
  <2>5. s \in 0 .. freqSize - 1 /\ s \notin 0 .. freqSize' - 1
    BY <2>1, <2>3 DEF Scanned
  <2>6. freqSize' = freqSize - 1 /\ s = freqSize'
    BY <2>4, <2>5, ScanShrinks
  <2>. QED  BY <2>1, <2>6
<1>. QED  BY <1>1, <1>2 DEF TrackingStep

\* The same when the map, the ring's keys and their number stay as they are.
LEMMA TrackingUnchanged ==
    ASSUME Resident' = Resident, freqSize' = freqSize,
           \A s \in Slots : frequency'[s].key = frequency[s].key
    PROVE  TrackingStep
<1>1. Tracked' = Tracked /\ Findable' = Findable
  BY DEF Tracked, Occupied, Findable, Scanned
<1>. QED  BY <1>1 DEF TrackingStep

\* The end of Set gives its key a slot, or finds the ring full.
LEMMA StoreTracks == ASSUME IInv, Store PROVE TrackingStep
<1>. USE DEF IInv
<1>1. req.key \in Keys /\ req.size \in Sizes /\ 0 \notin Sizes
  BY SizesAssumption DEF Store, TypeOK, Request
<1>2. Resident' = Resident \cup {req.key}
  BY <1>1 DEF Store, Resident, TypeOK
<1>3. \A i \in Slots : (clockHand + i) % FreqCap \in Slots
  BY ModRange, RingAssumption DEF TypeOK, Slots
<1>4. \A s \in Slots : frequency[s].key # None => frequency'[s].key = frequency[s].key
  BY <1>3 DEF Store, AddToClock, TypeOK
<1>5. req.key \in Tracked' \/ Occupied = Slots
  <2>1. CASE \E s \in Slots : frequency' = [frequency EXCEPT ![s] = [key |-> req.key, reference |-> TRUE]]
    <3>1. PICK s \in Slots : frequency' = [frequency EXCEPT ![s] = [key |-> req.key, reference |-> TRUE]]
      BY <2>1
    <3>2. frequency'[s].key = req.key /\ req.key # None
      BY <3>1, <1>1, NoneAssumption DEF TypeOK
    <3>. QED  BY <3>2 DEF Tracked, Occupied
  <2>2. CASE \A s \in Slots : frequency[s].key # None
    BY <2>2 DEF Occupied
  <2>. QED  BY <2>1, <2>2, <1>3 DEF Store, AddToClock
<1>6. Tracked \subseteq Tracked'
  BY <1>4 DEF Tracked, Occupied
<1>7. Findable \subseteq Findable'
  <2>1. freqSize \in Nat /\ freqSize' \in {freqSize, freqSize + 1}
    BY DEF Store, AddToClock, TypeOK
  <2>2. Scanned \subseteq Scanned'
    BY <2>1, ScanGrows DEF Scanned
  <2>. QED  BY <2>2, <1>4 DEF Findable, Occupied
<1>. QED  BY <1>2, <1>5, <1>6, <1>7 DEF TrackingStep

\* Every operation of the shard keeps tracked keys tracked.
LEMMA NextTracks == IInv /\ [Next]_vars => [TrackingStep]_vars
<1>. SUFFICES ASSUME IInv, Next PROVE TrackingStep
  OBVIOUS
<1>. USE DEF IInv
<1>0. TypeOK'
  BY NextIInv
<1>1. ASSUME NEW k \in Keys, NEW n \in Sizes, SetLock(k, n) PROVE TrackingStep
  BY <1>1, TrackingUnchanged DEF SetLock, Resident
<1>2. ASSUME NEW i \in 0 .. freqSize - 1, Evict(i) PROVE TrackingStep
  <2>. DEFINE v == ScanSlot(i)
              k == frequency[v].key
  <2>1. v \in Slots /\ i \in 0 .. freqSize
    BY ScanFacts DEF TypeOK
  <2>2. k \in Keys
    BY <1>2 DEF Evict, FirstVictim, Evictable, Resident
  <2>3. Resident' = Resident \ {k}
    BY <1>2, <2>2 DEF Evict, Resident, TypeOK
  <2>4. Passed(i) \in [Slots -> ClockEntry] /\ \A s \in Slots : Passed(i)[s].key = frequency[s].key
    BY <2>1, ScanFacts
  <2>5. \A s \in Slots : s # v => frequency'[s].key = frequency[s].key
    BY <1>2, <2>4 DEF Evict
  <2>6. freqSize' = freqSize - 1
    BY <1>2 DEF Evict
  <2>. QED  BY <1>0, <2>2, <2>3, <2>5, <2>6, TrackingByKey
<1>3. ASSUME EvictNothing PROVE TrackingStep
  <2>1. freqSize \in 0 .. freqSize
    BY DEF TypeOK
  <2>. QED  BY <1>3, <2>1, ScanFacts, TrackingUnchanged DEF EvictNothing, Resident
<1>4. ASSUME NEW k \in Keys, Delete(k) PROVE TrackingStep
  <2>1. Resident' = Resident \ {k} /\ frequency' = frequency /\ freqSize' = freqSize
    BY <1>4 DEF Delete, Resident, TypeOK
  <2>. QED  BY <1>0, <2>1, TrackingByKey
<1>5. ASSUME NEW k \in Keys, Demote(k) PROVE TrackingStep
  <2>1. Resident' = Resident \ {k}
    BY <1>5 DEF Demote, Resident, TypeOK
  <2>2. \A s \in Slots : frequency[s].key \notin {k, None} => frequency'[s].key = frequency[s].key
    BY <1>5 DEF Demote, TypeOK
  <2>3. freqSize' \in {freqSize, freqSize - 1}
    BY <1>5 DEF Demote
  <2>. QED  BY <1>0, <2>1, <2>2, <2>3, TrackingByKey
<1>. QED  BY <1>1, <1>2, <1>3, <1>4, <1>5, StoreTracks DEF Next

\* A resident key with a slot keeps one; it leaves the scanned positions only
\* with the last of them, when the slot of another key is freed; and a key
\* becomes resident without a slot only when the ring is full.
THEOREM TrackingIsKept == Spec => TrackingKept
BY Invariant, NextTracks, PTL DEF Spec, TrackingKept

-----------------------------------------------------------------------------
(***************************************************************************)
(* The shard implements LossyStore.  Only the step that evicts needs the   *)
(* invariant: the counter that lets the loop run is the true volume.       *)
(***************************************************************************)
\* A new shard is an empty LossyStore.
LEMMA InitRefines == Init => Abstract!Init
BY DEF Init, Abstract!Init

\* Every step of the shard is a step of LossyStore or leaves it unchanged.
LEMMA NextRefines == IInv /\ [Next]_vars => [Abstract!Next]_(Abstract!vars)
<1>. SUFFICES ASSUME IInv, [Next]_vars PROVE Abstract!Next \/ UNCHANGED <<entries, req>>
  BY DEF Abstract!vars
<1>. USE DEF IInv
<1>1. ASSUME NEW k \in Keys, NEW n \in Sizes, SetLock(k, n) PROVE Abstract!Next
  BY <1>1 DEF SetLock, TypeOK, Abstract!Next, Abstract!BeginPut
<1>2. ASSUME NEW i \in 0 .. freqSize - 1, Evict(i) PROVE Abstract!Next
  <2>. DEFINE k == frequency[ScanSlot(i)].key
  <2>1. k \in Keys /\ entries[k] # 0
    BY <1>2 DEF Evict, FirstVictim, Evictable, Resident
  <2>2. req # None
    BY <1>2, NoneAssumption DEF Evict, TypeOK, Request
  <2>3. Abstract!Volume = usedMemory
    BY Zenon DEF Abstract!Volume, MemoryAccounting, Total, Cells, Cardinality, Abstract!Cardinality
  <2>4. Abstract!Volume + Abstract!UnitsOf(req.size) > MemLimit
    BY <1>2, <2>3 DEF Evict, NeedsRoom, Weight, Abstract!UnitsOf
  <2>5. Abstract!Drop(k)
    BY <1>2, <2>1, <2>2, <2>4 DEF Evict, Abstract!Drop
  <2>. QED  BY <2>1, <2>5 DEF Abstract!Next
<1>3. ASSUME Store PROVE Abstract!Next
  <2>1. req # None
    BY <1>3, NoneAssumption DEF Store, TypeOK, Request
  <2>. QED  BY <1>3, <2>1 DEF Store, Abstract!Next, Abstract!FinishPut
<1>4. ASSUME NEW k \in Keys, Delete(k) \/ Demote(k) PROVE Abstract!Next
  BY <1>4 DEF Delete, Demote, Resident, TypeOK, Abstract!Next, Abstract!Remove
<1>5. ASSUME EvictNothing \/ UNCHANGED vars PROVE UNCHANGED <<entries, req>>
  BY <1>5 DEF EvictNothing, vars
<1>. QED  BY <1>1, <1>2, <1>3, <1>4, <1>5 DEF Next

\* Every behaviour of the shard is one of LossyStore: entries are lost only
\* to make room for a value that truly does not fit, or on request.
THEOREM Refinement == Spec => ImplementsLossyStore
BY InitRefines, NextRefines, Invariant, PTL DEF Spec, ImplementsLossyStore, Abstract!Spec

(***************************************************************************)
(* L1: L1Store.                                                            *)
(***************************************************************************)

\* The sum over the first n shards.
Part(f, n) == Cardinality(ShardCells(f, 1 .. n))

\* A Set or Delete between its beginning and its end.
Running == [kind : {"set", "delete"}, next : 1 .. NumShards + 1, sum : Nat]

\* Every client is in no call, or in one.
OpTypes ==
    /\ DOMAIN op = Clients
    /\ op = [c \in Clients |-> op[c]]
    /\ \A c \in Clients : op[c] = Idle \/ op[c] \in Running

\* Types of the shards' counters and of the places of Close and the sync.
StoreTypes ==
    /\ syncMode \in {"immediate", "periodic"}
    /\ written \in [Shards -> Nat] /\ synced \in [Shards -> Nat] /\ measured \in [Shards -> Nat]
    /\ promised \in [Shards -> Nat] /\ mark \in [Shards -> Nat]
    /\ open \in SUBSET Shards
    /\ closer \in 0 .. NumShards + 1 /\ syncer \in 0 .. NumShards
    /\ late \in Nat
    /\ OpTypes

\* What is promised of a shard is on disk.  A shard whose db.Close succeeded is
\* on disk as a whole, Close has closed the shards before its next one, and the
\* sync has brought those before its next one as far as it owes.
ShardKept(s) ==
    /\ promised[s] <= synced[s] /\ synced[s] <= written[s]
    /\ s \notin open \cup closeErrors => synced[s] = written[s]
    /\ s < closer => s \notin open
    /\ mark[s] <= written[s]
    /\ s < syncer => mark[s] <= synced[s]

PromisesOnDisk == \A s \in Shards : ShardKept(s)

\* Once a Set was done on a full store, there are sizes, all of them reached
\* and none undercut since, that fill the store by themselves; only the calls
\* in old, which began before, can still be done, because every other Set has
\* read at least as much; and late and old together are no more than clients.
LateAreOld ==
    late > 0 => \E base \in [Shards -> Nat], old \in SUBSET Clients :
        /\ \A s \in Shards : base[s] <= measured[s]
        /\ ShardTotal(base) >= MaxCapacity
        /\ late + Cardinality(old) <= Cardinality(Clients)
        /\ \A c \in Clients \ old : op[c].kind = "set" =>
               op[c].next <= NumShards /\ op[c].sum >= Part(base, op[c].next - 1)

\* The inductive invariant of the store.
StoreInv == StoreTypes /\ PromisesOnDisk /\ LateAreOld

\* The first n shards have finitely many cells.
LEMMA PartFinite ==
    ASSUME NEW f \in [Shards -> Nat], NEW n \in 0 .. NumShards
    PROVE  IsFiniteSet(ShardCells(f, 1 .. n)) /\ Part(f, n) \in Nat
<1>. DEFINE S == 1 .. n
            col == [s \in S |-> {s} \X (1 .. f[s])]
<1>1. S \subseteq Shards /\ IsFiniteSet(S)
  <2>1. n \in Int /\ 1 \in Int /\ S \subseteq Shards
    BY ShardsAssumption DEF Shards
  <2>. QED  BY <2>1, FS_Interval
<1>2. IsFiniteSet({col[s] : s \in S})
  <2>. HIDE DEF S
  <2>1. col \in [S -> {col[s] : s \in S}]
    OBVIOUS
  <2>2. col \in Surjection(S, {col[s] : s \in S})
    BY <2>1 DEF Surjection
  <2>. QED  BY <2>2, <1>1, FS_Surjection
<1>3. \A T \in {col[s] : s \in S} : IsFiniteSet(T)
  <2>. HIDE DEF S
  <2>1. \A s \in S : IsFiniteSet({s} \X (1 .. f[s]))
    BY <1>1, ColumnFacts
  <2>. QED  BY <2>1, Zenon
<1>. HIDE DEF S
<1>4. ShardCells(f, S) = UNION {col[s] : s \in S}
  BY DEF ShardCells
<1>5. IsFiniteSet(ShardCells(f, S))
  BY <1>2, <1>3, <1>4, FS_UNION
<1>. QED  BY <1>5, FS_CardinalityType DEF Part, S

\* No shards, no cells.
LEMMA PartZero == \A f : Part(f, 0) = 0
<1>1. \A f : ShardCells(f, 1 .. 0) = {}
  BY DEF ShardCells
<1>. QED BY <1>1, FS_EmptySet DEF Part

\* All shards: the sum that is compared with the capacity.
LEMMA PartAll == \A f : Part(f, NumShards) = ShardTotal(f)
BY DEF Part, ShardTotal, Shards

\* The sum grows by the next shard's size.
LEMMA PartNext ==
    ASSUME NEW f \in [Shards -> Nat], NEW s \in Shards
    PROVE  Part(f, s) = Part(f, s - 1) + f[s]
<1>. DEFINE A == ShardCells(f, 1 .. s - 1)
            B == {s} \X (1 .. f[s])
<1>1. s \in 0 .. NumShards /\ s - 1 \in 0 .. NumShards
  BY ShardsAssumption DEF Shards
<1>2. ShardCells(f, 1 .. s) = A \cup B
  <2>1. 1 .. s = (1 .. s - 1) \cup {s}
    BY <1>1, ShardsAssumption
  <2>. QED BY <2>1, Zenon DEF ShardCells
<1>3. A \cap B = {}
  BY <1>1, ShardsAssumption DEF ShardCells
<1>4. IsFiniteSet(A) /\ Part(f, s - 1) \in Nat
  BY <1>1, PartFinite
<1>5. IsFiniteSet(B) /\ Cardinality(B) = f[s] /\ f[s] \in Nat
  BY ColumnFacts
<1>6. Cardinality(A \cup B) = Cardinality(A) + Cardinality(B) - Cardinality(A \cap B)
  BY <1>4, <1>5, FS_Union, Zenon
<1>7. Cardinality(A \cap B) = 0
  BY <1>3, FS_EmptySet, Zenon
<1>8. Part(f, s) = Part(f, s - 1) + f[s] - 0
  BY <1>2, <1>5, <1>6, <1>7, Zenon DEF Part
<1>. QED BY <1>4, <1>5, <1>8

\* Taking one client out of a set of clients.
LEMMA OneLess ==
    ASSUME IsFiniteSet(Clients), NEW old \in SUBSET Clients, NEW c \in old
    PROVE  /\ Cardinality(old) \in Nat /\ Cardinality(old \ {c}) \in Nat
           /\ Cardinality(old \ {c}) + 1 = Cardinality(old)
<1>1. IsFiniteSet(old) BY FS_Subset
<1>2. Cardinality(old) \in Nat /\ Cardinality(old \ {c}) = Cardinality(old) - 1
  BY <1>1, FS_RemoveElement, FS_CardinalityType
<1>3. IsFiniteSet(old \ {c}) /\ Cardinality(old \ {c}) \in Nat
  BY <1>1, FS_RemoveElement, FS_CardinalityType
<1>. QED BY <1>2, <1>3

\* A store that has just been opened.
LEMMA InitStoreInv == ASSUME StoreInit PROVE StoreInv
<1>. USE ShardsAssumption, BoundsAssumption DEF StoreInit, Each
<1>1. StoreTypes BY DEF StoreTypes, OpTypes, Shards
<1>2. PromisesOnDisk BY DEF PromisesOnDisk, ShardKept, Shards
<1>3. LateAreOld BY DEF LateAreOld
<1>. QED BY <1>1, <1>2, <1>3 DEF StoreInv

\* The calls' own steps change nothing PromisesOnDisk speaks of.
LEMMA CallsKeepPromises ==
    ASSUME StoreTypes, PromisesOnDisk, UNCHANGED <<written, synced, open, closer, closeErrors, syncer, mark,
           promised>>
    PROVE  PromisesOnDisk'
BY DEF PromisesOnDisk, ShardKept

\* A call that begins has read nothing, and is not one of the old ones.
LEMMA BeginKeepsStoreInv == 
    ASSUME StoreInv, NEW c \in Clients, BeginSet(c) \/ BeginDelete(c) PROVE StoreInv'
<1>. USE ShardsAssumption DEF StoreInv
<1>. DEFINE begun == op'[c]
<1>1. /\ UNCHANGED <<syncMode, written, synced, measured, open, closed, closer, closeErrors, syncer,
       late, mark, promised>>
      /\ op[c] = Idle
      /\ \A b \in Clients \ {c} : op'[b] = op[b]
      /\ DOMAIN op' = Clients /\ op' = [b \in Clients |-> op'[b]]
  BY DEF BeginSet, BeginDelete, badger, history, StoreTypes, OpTypes
<1>2. begun \in Running /\ (begun.kind = "set" => begun.next = 1 /\ begun.sum = 0)
  BY DEF BeginSet, BeginDelete, StoreTypes, OpTypes, Running
<1>. HIDE DEF begun
<1>3. StoreTypes'
  BY <1>1, <1>2 DEF StoreTypes, OpTypes, begun
<1>4. PromisesOnDisk'
  BY <1>1, CallsKeepPromises
<1>5. LateAreOld'
  <2>1. SUFFICES ASSUME late > 0 PROVE LateAreOld'
    BY <1>1 DEF LateAreOld
  <2>2. PICK base \in [Shards -> Nat], old \in SUBSET Clients :
        /\ \A s \in Shards : base[s] <= measured[s]
        /\ ShardTotal(base) >= MaxCapacity
        /\ late + Cardinality(old) <= Cardinality(Clients)
        /\ \A b \in Clients \ old : op[b].kind = "set" =>
               op[b].next <= NumShards /\ op[b].sum >= Part(base, op[b].next - 1)
    BY <2>1 DEF LateAreOld
  <2>3. begun.kind = "set" => begun.next <= NumShards /\ begun.sum >= Part(base, begun.next - 1)
    BY <1>2, PartZero
  <2>4. \A b \in Clients \ old : op'[b].kind = "set" =>
               op'[b].next <= NumShards /\ op'[b].sum >= Part(base, op'[b].next - 1)
    BY <2>2, <2>3, <1>1 DEF begun
  <2>. QED BY <1>1, <2>2, <2>4 DEF LateAreOld
<1>. QED BY <1>3, <1>4, <1>5

\* A Set that is not old reads at least the share of the next shard, and is
\* refused after the last one.
LEMMA ReadSizeKeepsStoreInv == 
    ASSUME StoreInv, NEW c \in Clients, ReadSize(c) PROVE StoreInv'
<1>. USE ShardsAssumption DEF StoreInv
<1>. DEFINE s == op[c].next
            sum == op[c].sum + measured[s]
<1>1. /\ UNCHANGED <<syncMode, written, synced, measured, open, closed, closer, closeErrors, syncer,
       late, mark, promised>>
      /\ op[c].kind = "set" /\ s <= NumShards
      /\ op' = [op EXCEPT ![c] = IF s = NumShards /\ sum >= MaxCapacity THEN Idle
                                   ELSE [op[c] EXCEPT !.next = s + 1, !.sum = IF s = NumShards THEN 0 ELSE sum]]
  BY DEF ReadSize, badger, history
<1>2. op[c] \in Running /\ s \in Shards /\ measured[s] \in Nat /\ sum \in Nat /\ op[c].sum \in Nat
  <2>1. op[c] \in Running
    BY <1>1 DEF StoreTypes, OpTypes, Idle
  <2>. QED BY <2>1, <1>1 DEF StoreTypes, OpTypes, Running, Shards
<1>3. /\ \A b \in Clients \ {c} : op'[b] = op[b]
      /\ DOMAIN op' = Clients /\ op' = [b \in Clients |-> op'[b]]
  BY <1>1 DEF StoreTypes, OpTypes
<1>4. \/ s = NumShards /\ op'[c] = Idle
      \/ /\ op'[c] = [op[c] EXCEPT !.next = s + 1, !.sum = IF s = NumShards THEN 0 ELSE sum]
         /\ s = NumShards => sum < MaxCapacity
  BY <1>1, <1>2 DEF StoreTypes, OpTypes
<1>. HIDE DEF s, sum
<1>5. \/ s = NumShards /\ op'[c] = Idle
      \/ /\ op'[c] \in Running
         /\ op'[c].kind = "set"
         /\ op'[c].next = s + 1
         /\ s # NumShards => op'[c].sum = sum
         /\ s = NumShards => sum < MaxCapacity
  <2>1. s + 1 \in 1 .. NumShards + 1
    BY <1>2 DEF Shards
  <2>2. (IF s = NumShards THEN 0 ELSE sum) \in Nat
    BY <1>2
  <2>4. CASE op'[c] = [op[c] EXCEPT !.next = s + 1, !.sum = IF s = NumShards THEN 0 ELSE sum]
    <3>. DEFINE m == IF s = NumShards THEN 0 ELSE sum
    <3>1. m \in Nat /\ (s # NumShards => m = sum)
      BY <2>2
    <3>2. op'[c] = [op[c] EXCEPT !.next = s + 1, !.sum = m]
      BY <2>4
    <3>. HIDE DEF m
    <3>3. op'[c] \in Running /\ op'[c].kind = op[c].kind /\ op'[c].next = s + 1 /\ op'[c].sum = m
      <4>. DEFINE n == s + 1
                  r == op[c]
                  q == op'[c]
      <4>1. n \in 1 .. NumShards + 1 /\ m \in Nat /\ r \in Running
        BY <2>1, <3>1, <1>2
      <4>2. q = [r EXCEPT !.next = n, !.sum = m]
        BY <3>2
      <4>. HIDE DEF n, r, q
      <4>3. q \in Running /\ q.kind = r.kind /\ q.next = n /\ q.sum = m
        BY ONLY <4>1, <4>2 DEF Running
      <4>. QED BY <4>3 DEF n, r, q
    <3>4. s = NumShards => sum < MaxCapacity \/ op'[c] = Idle
      BY <1>4
    <3>. QED BY <3>1, <3>3, <3>4, <1>1
  <2>. QED BY <2>4, <1>4
<1>6. StoreTypes'
  BY <1>1, <1>3, <1>5 DEF StoreTypes, OpTypes
<1>7. PromisesOnDisk'
  BY <1>1, CallsKeepPromises
<1>8. LateAreOld'
  <2>1. SUFFICES ASSUME late > 0 PROVE LateAreOld'
    BY <1>1 DEF LateAreOld
  <2>2. PICK base \in [Shards -> Nat], old \in SUBSET Clients :
        /\ \A t \in Shards : base[t] <= measured[t]
        /\ ShardTotal(base) >= MaxCapacity
        /\ late + Cardinality(old) <= Cardinality(Clients)
        /\ \A b \in Clients \ old : op[b].kind = "set" =>
               op[b].next <= NumShards /\ op[b].sum >= Part(base, op[b].next - 1)
    BY <2>1 DEF LateAreOld
  <2>3. ASSUME c \notin old
        PROVE  op'[c].kind = "set" =>
                  op'[c].next <= NumShards /\ op'[c].sum >= Part(base, op'[c].next - 1)
    <3>1. op[c].sum >= Part(base, s - 1)
      BY <2>2, <2>3, <1>1 DEF s
    <3>2. Part(base, s) = Part(base, s - 1) + base[s] /\ Part(base, s - 1) \in Nat /\ base[s] \in Nat
      <4>1. s - 1 \in 0 .. NumShards
        BY <1>2 DEF Shards
      <4>. QED BY <4>1, <1>2, PartNext, PartFinite
    <3>3. sum >= Part(base, s)
      <4>1. base[s] <= measured[s] BY <2>2, <1>2
      <4>. QED BY <4>1, <3>1, <3>2, <1>2 DEF sum
    <3>4. CASE s = NumShards
      <4>1. sum >= ShardTotal(base)
        BY <3>3, <3>4, PartAll
      <4>2. ShardTotal(base) \in Nat
        BY <3>2, <3>4, PartAll
      <4>3. op'[c] = Idle
        BY <4>1, <4>2, <2>2, <1>2, <1>5, <3>4
      <4>. QED BY <4>3 DEF Idle
    <3>5. CASE s # NumShards
      <4>1. op'[c].next = s + 1 /\ op'[c].sum = sum
        BY <1>5, <3>5
      <4>2. s + 1 <= NumShards /\ (s + 1) - 1 = s
        BY <1>2, <3>5 DEF Shards
      <4>. QED BY <4>1, <4>2, <3>3
    <3>. QED BY <3>4, <3>5
  <2>4. \A b \in Clients \ old : op'[b].kind = "set" =>
               op'[b].next <= NumShards /\ op'[b].sum >= Part(base, op'[b].next - 1)
    BY <2>2, <2>3, <1>3
  <2>. QED BY <1>1, <2>2, <2>4 DEF LateAreOld
<1>. QED BY <1>6, <1>7, <1>8

\* A Set that is done on a full store is an old one, and is old no more; the
\* first of them makes all other calls old.
LEMMA WriteKeepsStoreInv == 
    ASSUME StoreInv, NEW c \in Clients, NEW s \in Shards, Write(c, s) PROVE StoreInv'
<1>. USE ShardsAssumption DEF StoreInv
<1>1. /\ UNCHANGED <<syncMode, measured, open, closed, closer, closeErrors, syncer, mark>>
      /\ op[c] # Idle /\ op[c].next > NumShards
      /\ op' = [op EXCEPT ![c] = Idle]
      /\ \/ s \in open /\ Update(s)
         \/ UNCHANGED <<written, synced, promised>>
      /\ \/ late' = late
         \/ op[c].kind = "set" /\ ShardTotal(measured) >= MaxCapacity /\ late' = late + 1
  BY DEF Write
<1>2. op'[c] = Idle /\ \A b \in Clients \ {c} : op'[b] = op[b]
  BY <1>1 DEF StoreTypes, OpTypes
<1>3. \/ UNCHANGED <<written, synced, promised>>
      \/ /\ s \in open
         /\ written' = [written EXCEPT ![s] = written[s] + 1]
         /\ \/ synced' = [synced EXCEPT ![s] = written[s] + 1] /\
                   promised' = [promised EXCEPT ![s] = written[s] + 1]
            \/ UNCHANGED <<synced, promised>>
  BY <1>1 DEF Update, StoreTypes
<1>4. StoreTypes'
  BY <1>1, <1>2, <1>3 DEF StoreTypes, OpTypes
<1>5. PromisesOnDisk'
  <2>1. SUFFICES ASSUME NEW t \in Shards PROVE ShardKept(t)'
    BY DEF PromisesOnDisk
  <2>. QED BY <1>1, <1>3 DEF StoreTypes, PromisesOnDisk, ShardKept
<1>6. LateAreOld'
  <2>1. CASE late' = late
    <3>1. SUFFICES ASSUME late > 0 PROVE LateAreOld'
      BY <2>1 DEF LateAreOld
    <3>2. PICK base \in [Shards -> Nat], old \in SUBSET Clients :
          /\ \A t \in Shards : base[t] <= measured[t]
          /\ ShardTotal(base) >= MaxCapacity
          /\ late + Cardinality(old) <= Cardinality(Clients)
          /\ \A b \in Clients \ old : op[b].kind = "set" =>
                 op[b].next <= NumShards /\ op[b].sum >= Part(base, op[b].next - 1)
      BY <3>1 DEF LateAreOld
    <3>3. \A b \in Clients \ old : op'[b].kind = "set" =>
                 op'[b].next <= NumShards /\ op'[b].sum >= Part(base, op'[b].next - 1)
      BY <3>2, <1>2 DEF Idle
    <3>. QED BY <1>1, <2>1, <3>2, <3>3 DEF LateAreOld
  <2>2. CASE op[c].kind = "set" /\ ShardTotal(measured) >= MaxCapacity /\ late' = late + 1 /\ late = 0
    <3>1. /\ \A b \in Clients \ (Clients \ {c}) : op'[b].kind # "set"
      BY <1>2 DEF Idle
    <3>2. Cardinality(Clients \ {c}) + 1 = Cardinality(Clients) /\
              Cardinality(Clients) \in Nat /\ Cardinality(Clients \ {c}) \in Nat
      BY ClientsAssumption, OneLess
    <3>3. late' + Cardinality(Clients \ {c}) <= Cardinality(Clients)
      BY <2>2, <3>2
    <3>4. measured \in [Shards -> Nat] /\ \A t \in Shards : measured[t] <= measured'[t]
      BY <1>1 DEF StoreTypes, OpTypes
    <3>. QED BY <2>2, <3>1, <3>3, <3>4 DEF LateAreOld
  <2>3. CASE op[c].kind = "set" /\ ShardTotal(measured) >= MaxCapacity /\ late' = late + 1 /\ late # 0
    <3>1. late > 0 /\ late \in Nat
      BY <2>3 DEF StoreTypes, OpTypes
    <3>2. PICK base \in [Shards -> Nat], old \in SUBSET Clients :
          /\ \A t \in Shards : base[t] <= measured[t]
          /\ ShardTotal(base) >= MaxCapacity
          /\ late + Cardinality(old) <= Cardinality(Clients)
          /\ \A b \in Clients \ old : op[b].kind = "set" =>
                 op[b].next <= NumShards /\ op[b].sum >= Part(base, op[b].next - 1)
      BY <3>1 DEF LateAreOld
    <3>3. c \in old
      <4>1. op[c] \in Running
        BY <1>1 DEF StoreTypes, OpTypes
      <4>2. ~(op[c].next <= NumShards)
        BY <4>1, <1>1 DEF Running
      <4>. QED BY <4>2, <3>2, <2>3
    <3>4. Cardinality(old \ {c}) + 1 = Cardinality(old) /\ Cardinality(old) \in Nat /\
              Cardinality(old \ {c}) \in Nat
      BY <3>3, ClientsAssumption, OneLess
    <3>5. Cardinality(Clients) \in Nat
      BY ClientsAssumption, FS_CardinalityType
    <3>6. late' + Cardinality(old \ {c}) <= Cardinality(Clients)
      BY <3>1, <3>2, <3>4, <3>5, <2>3
    <3>7. \A b \in Clients \ (old \ {c}) : op'[b].kind = "set" =>
                 op'[b].next <= NumShards /\ op'[b].sum >= Part(base, op'[b].next - 1)
      BY <3>2, <1>2 DEF Idle
    <3>8. old \ {c} \in SUBSET Clients
      OBVIOUS
    <3>. QED BY <1>1, <3>2, <3>6, <3>7, <3>8 DEF LateAreOld
  <2>. QED BY <1>1, <2>1, <2>2, <2>3
<1>. QED BY <1>4, <1>5, <1>6

\* A size that grows leaves the store full; one that falls ends the count.
LEMMA MeasureKeepsStoreInv == 
    ASSUME StoreInv, NEW s \in Shards, NEW n \in 0 .. MaxWrites, Measure(s, n) PROVE StoreInv'
<1>. USE BoundsAssumption DEF StoreInv
<1>1. /\ UNCHANGED <<syncMode, written, synced, open, closed, closer, closeErrors, syncer, op, mark, promised>>
      /\ measured' = [measured EXCEPT ![s] = n]
      /\ late' = 0 \/ (late' = late /\ n > measured[s])
      /\ n \in Nat
  BY DEF Measure
<1>2. StoreTypes'
  BY <1>1 DEF StoreTypes, OpTypes
<1>3. PromisesOnDisk'
  BY <1>1, CallsKeepPromises
<1>4. LateAreOld'
  <2>1. SUFFICES ASSUME late' > 0 PROVE LateAreOld'
    BY DEF LateAreOld
  <2>2. late' = late /\ n > measured[s] /\ late > 0
    BY <1>1, <2>1
  <2>3. PICK base \in [Shards -> Nat], old \in SUBSET Clients :
        /\ \A t \in Shards : base[t] <= measured[t]
        /\ ShardTotal(base) >= MaxCapacity
        /\ late + Cardinality(old) <= Cardinality(Clients)
        /\ \A b \in Clients \ old : op[b].kind = "set" =>
               op[b].next <= NumShards /\ op[b].sum >= Part(base, op[b].next - 1)
    BY <2>2 DEF LateAreOld
  <2>4. \A t \in Shards : base[t] <= measured'[t]
    BY <1>1, <2>2, <2>3 DEF StoreTypes, OpTypes
  <2>. QED BY <1>1, <2>2, <2>3, <2>4 DEF LateAreOld
<1>. QED BY <1>2, <1>3, <1>4

\* The sync worker and Close do not touch calls, sizes or the count of late Sets.
LEMMA WorkerKeepsLate ==
    ASSUME LateAreOld, UNCHANGED <<measured, op, late>>
    PROVE  LateAreOld'
BY DEF LateAreOld

\* The sync begins, and brings one shard after the other to disk.
LEMMA SyncKeepsStoreInv == ASSUME StoreInv, Tick \/ SyncShard PROVE StoreInv'
<1>. USE ShardsAssumption DEF StoreInv
<1>1. LateAreOld' /\ OpTypes'
  BY WorkerKeepsLate DEF Tick, SyncShard, badger, OpTypes, StoreTypes
<1>2. CASE Tick
  <2>1. /\ UNCHANGED <<syncMode, written, synced, measured, open, closer, closeErrors, late, promised>>
        /\ syncer' = 1 /\ mark' = written
    BY <1>2 DEF Tick, badger
  <2>2. StoreTypes' BY <1>1, <2>1 DEF StoreTypes
  <2>3. ASSUME NEW s \in Shards PROVE ShardKept(s)'
    <3>1. ~(s < 1) /\ written[s] \in Nat
      BY DEF Shards, StoreTypes
    <3>. QED BY <2>1, <3>1 DEF PromisesOnDisk, ShardKept
  <2>. QED BY <1>1, <2>2, <2>3 DEF PromisesOnDisk
<1>3. CASE SyncShard
  <2>1. /\ UNCHANGED <<syncMode, written, measured, open, closed, closer, closeErrors, op, late>>
        /\ syncer \in Shards /\ syncer \in Nat
    BY <1>3 DEF SyncShard, StoreTypes, Shards
  <2>2. PICK owed \in [Shards -> Nat] :
          /\ SyncNext(owed) /\ synced' \in [Shards -> Nat]
          /\ \A s \in Shards \ {syncer} : synced'[s] = synced[s] /\ owed[s] = mark[s]
          /\ synced'[syncer] \in {synced[syncer], written[syncer]}
          /\ (synced'[syncer] = written[syncer] /\ owed[syncer] = mark[syncer]) \/ owed[syncer] = 0
    <3>1. CASE synced' = [synced EXCEPT ![syncer] = written[syncer]] /\ SyncNext(mark)
      <4>1. synced' \in [Shards -> Nat] /\ mark \in [Shards -> Nat]
        BY <2>1, <3>1 DEF StoreTypes
      <4>. QED BY <2>1, <3>1, <4>1 DEF StoreTypes
    <3>2. CASE UNCHANGED synced /\ SyncNext([mark EXCEPT ![syncer] = 0])
      <4>1. synced' \in [Shards -> Nat] /\ [mark EXCEPT ![syncer] = 0] \in [Shards -> Nat]
        BY <2>1, <3>2 DEF StoreTypes
      <4>. QED BY <2>1, <3>2, <4>1 DEF StoreTypes
    <3>. QED BY <1>3, <3>1, <3>2 DEF SyncShard
  <2>3. \A s \in Shards : s \in Nat /\ promised[s] \in Nat /\ synced[s] \in Nat /\ synced'[s] \in Nat
                                 /\ written[s] \in Nat /\ mark[s] \in Nat /\ owed[s] \in Nat
    <3>1. synced' \in [Shards -> Nat] /\ owed \in [Shards -> Nat]
      BY <2>2
    <3>. QED BY <3>1 DEF StoreTypes, Shards
  <2>4. ASSUME NEW s \in Shards
        PROVE  /\ promised[s] <= synced'[s] /\ synced'[s] <= written[s]
               /\ s <= syncer => owed[s] <= synced'[s]
               /\ s \notin open \cup closeErrors => synced'[s] = written[s]
               /\ s < closer => s \notin open
               /\ owed[s] <= written[s]
    <3>1. ShardKept(s) BY DEF PromisesOnDisk
    <3>2. CASE s = syncer
      BY <2>2, <2>3, <3>1, <3>2 DEF ShardKept
    <3>3. CASE s # syncer
      <4>1. synced'[s] = synced[s] /\ owed[s] = mark[s]
        BY <2>2, <3>3
      <4>2. s <= syncer => s < syncer
        BY <2>1, <2>3, <3>3
      <4>. QED BY <3>1, <4>1, <4>2 DEF ShardKept
    <3>. QED BY <3>2, <3>3
  <2>5. CASE syncer' = syncer + 1 /\ promised' = promised /\ mark' = owed /\ syncer < NumShards
    <3>1. syncer' \in 0 .. NumShards
      BY <2>1, <2>5 DEF Shards
    <3>3. StoreTypes' BY <1>1, <2>1, <2>2, <2>5, <3>1 DEF StoreTypes
    <3>2. ASSUME NEW s \in Shards PROVE ShardKept(s)'
      <4>1. s < syncer + 1 => s <= syncer
        BY <2>1 DEF Shards
      <4>. QED BY <2>1, <2>4, <2>5, <4>1 DEF ShardKept
    <3>. QED BY <1>1, <3>2, <3>3 DEF PromisesOnDisk
  <2>6. CASE /\ syncer' = 0 /\ syncer = NumShards /\ mark' = Each(0)
             /\ promised' = [s \in Shards |-> IF owed[s] > promised[s] THEN owed[s] ELSE promised[s]]
    <3>1. StoreTypes' BY <1>1, <2>1, <2>2, <2>6 DEF StoreTypes, Each
    <3>2. ASSUME NEW s \in Shards PROVE ShardKept(s)'
      <4>1. s <= syncer /\ ~(s < 0)
        BY <2>6 DEF Shards
      <4>2. mark'[s] = 0 /\ promised'[s] <= synced'[s]
        BY <2>4, <2>6, <4>1 DEF Each
      <4>. QED BY <2>1, <2>3, <2>4, <2>6, <4>1, <4>2 DEF ShardKept
    <3>. QED BY <1>1, <3>1, <3>2 DEF PromisesOnDisk
  <2>. QED BY <2>1, <2>2, <2>5, <2>6 DEF SyncNext, Shards
<1>. QED BY <1>2, <1>3

\* Close closes one shard after the other, and brings it to disk or not.
LEMMA CloseKeepsStoreInv == ASSUME StoreInv, BeginClose \/ CloseShard PROVE StoreInv'
<1>. USE ShardsAssumption DEF StoreInv
<1>1. LateAreOld' /\ OpTypes'
  BY WorkerKeepsLate DEF BeginClose, CloseShard, badger, history, OpTypes, StoreTypes
<1>2. CASE BeginClose
  <2>1. /\ UNCHANGED <<syncMode, written, synced, measured, open, closeErrors, syncer, late, mark, promised>>
        /\ closer' = 1
    BY <1>2 DEF BeginClose, badger, history
  <2>2. StoreTypes' BY <1>1, <2>1 DEF StoreTypes
  <2>3. ASSUME NEW s \in Shards PROVE ShardKept(s)'
    <3>1. ~(s < 1)
      BY ShardsAssumption DEF Shards
    <3>. QED BY <2>1, <3>1 DEF PromisesOnDisk, ShardKept
  <2>. QED BY <1>1, <2>2, <2>3 DEF PromisesOnDisk
<1>3. CASE CloseShard
  <2>1. /\ UNCHANGED <<syncMode, written, measured, syncer, late, mark>>
        /\ open' = open \ {closer} /\ closer' = closer + 1 /\ closer \in Shards
        /\ \/ synced' = [synced EXCEPT ![closer] = written[closer]] /\ closeErrors' = closeErrors
           \/ synced' = synced /\ closeErrors' = closeErrors \cup {closer}
        /\ \/ promised' = promised
           \/ /\ closer = NumShards
              /\ promised' = [s \in Shards |-> IF s \in closeErrors' THEN promised[s] ELSE written[s]]
    BY <1>3 DEF CloseShard
  <2>2. synced' \in [Shards -> Nat] /\ closer' \in 0 .. NumShards + 1
    <3>1. synced' \in [Shards -> Nat]
      BY <2>1 DEF StoreTypes
    <3>2. closer' \in 0 .. NumShards + 1
      BY <2>1 DEF Shards
    <3>. QED BY <3>1, <3>2
  <2>3. StoreTypes'
    <3>1. promised' \in [Shards -> Nat]
      BY <2>1 DEF StoreTypes
    <3>. QED BY <1>1, <2>1, <2>2, <3>1 DEF StoreTypes
  <2>4. ASSUME NEW s \in Shards PROVE ShardKept(s)'
    <3>1. s \in Nat /\ promised[s] \in Nat /\ synced[s] \in Nat /\ written[s] \in Nat /\
              mark[s] \in Nat /\ closer \in Nat
      <4>1. s \in Nat /\ closer \in Nat
        BY <2>1 DEF Shards
      <4>. QED BY <4>1 DEF StoreTypes
    <3>2. ShardKept(s) BY DEF PromisesOnDisk
    <3>3. /\ synced'[s] = synced[s] \/ (s = closer /\ synced'[s] = written[s])
          /\ s = closer => s \in closeErrors' \/ synced'[s] = written[s]
          /\ s # closer => (s \in closeErrors' <=> s \in closeErrors)
      BY <2>1 DEF StoreTypes
    <3>4. s < closer' <=> s < closer \/ s = closer
      BY <2>1, <3>1
    <3>5. synced'[s] <= written[s] /\ synced[s] <= synced'[s]
      BY <3>1, <3>2, <3>3 DEF ShardKept
    <3>6. s \notin open' \cup closeErrors' => synced'[s] = written[s]
      BY <2>1, <3>2, <3>3 DEF ShardKept
    <3>7. s < closer' => s \notin open'
      BY <2>1, <3>2, <3>4 DEF ShardKept
    <3>8. promised'[s] <= synced'[s]
      <4>1. CASE promised' = promised
        BY <4>1, <3>1, <3>2, <3>3, <3>5 DEF ShardKept
      <4>2. CASE closer = NumShards /\ promised'[s] = IF s \in closeErrors' THEN promised[s] ELSE written[s]
        <5>1. s < closer'
          BY <2>1, <4>2, <3>4 DEF Shards
        <5>2. s \notin closeErrors' => synced'[s] = written[s]
          BY <5>1, <3>6, <3>7
        <5>3. CASE s \in closeErrors'
          <6>1. promised'[s] = promised[s] /\ promised[s] <= synced[s]
            BY <4>2, <5>3, <3>2 DEF ShardKept
          <6>. QED BY <6>1, <3>1, <3>3, <3>5
        <5>4. CASE s \notin closeErrors'
          BY <4>2, <5>2, <5>4, <3>1
        <5>. QED BY <5>3, <5>4
      <4>. QED BY <2>1, <4>1, <4>2
    <3>9. s < syncer => mark[s] <= synced'[s]
      BY <3>1, <3>2, <3>3, <3>5 DEF ShardKept
    <3>10. mark[s] <= written[s]
      BY <3>2 DEF ShardKept
    <3>. QED BY <2>1, <3>5, <3>6, <3>7, <3>8, <3>9, <3>10 DEF ShardKept
  <2>. QED BY <1>1, <2>3, <2>4 DEF PromisesOnDisk
<1>. QED BY <1>2, <1>3

\* A crash keeps what is on disk, which includes all that is promised.
LEMMA CrashKeepsStoreInv == 
    ASSUME StoreInv, NEW cut \in [Shards -> 0 .. MaxWrites], Crash(cut) PROVE StoreInv'
<1>. USE ShardsAssumption, BoundsAssumption DEF StoreInv
<1>1. /\ written' = cut /\ synced' = cut /\ open' = {} /\ closer' = NumShards + 1 /\ syncer' = 0
      /\ late' = 0 /\ mark' = Each(0)
      /\ op' = [c \in Clients |-> Idle]
      /\ measured' = Each(0) /\ UNCHANGED <<syncMode, promised>>
      /\ \A s \in Shards : cut[s] \in synced[s] .. written[s]
  BY DEF Crash
<1>2. cut \in [Shards -> Nat]
  OBVIOUS
<1>3. OpTypes' BY <1>1 DEF OpTypes
<1>4. StoreTypes' BY <1>1, <1>2, <1>3 DEF StoreTypes, Each
<1>5. ASSUME NEW s \in Shards PROVE ShardKept(s)'
  <2>1. ShardKept(s) BY DEF PromisesOnDisk
  <2>2. promised[s] \in Nat /\ synced[s] \in Nat /\ written[s] \in Nat /\ cut[s] \in Nat /\ s \in Nat
    BY <1>2 DEF StoreTypes, Shards
  <2>3. synced[s] <= cut[s]
    BY <1>1, <2>2
  <2>4. promised[s] <= cut[s]
    BY <2>1, <2>2, <2>3 DEF ShardKept
  <2>5. mark'[s] = 0
    BY <1>1 DEF Each
  <2>. QED BY <1>1, <2>2, <2>4, <2>5 DEF ShardKept
<1>6. LateAreOld' BY <1>1 DEF LateAreOld
<1>. QED BY <1>4, <1>5, <1>6 DEF PromisesOnDisk

\* Every step of the store keeps the invariant.
LEMMA NextKeepsStoreInv == ASSUME StoreInv, [StoreNext]_storeVars PROVE StoreInv'
<1>1. CASE UNCHANGED storeVars
  <2>1. UNCHANGED <<syncMode, written, synced, measured, open, closed, closer, closeErrors, syncer, op,
         late, mark, promised>>
    BY <1>1 DEF storeVars, badger, history
  <2>. QED BY <2>1 DEF StoreInv, StoreTypes, OpTypes, PromisesOnDisk, ShardKept, LateAreOld
<1>. QED BY <1>1, BeginKeepsStoreInv, ReadSizeKeepsStoreInv, WriteKeepsStoreInv,
       MeasureKeepsStoreInv, SyncKeepsStoreInv,
            CloseKeepsStoreInv, CrashKeepsStoreInv DEF StoreNext

\* Every state of the store satisfies the invariant.
THEOREM StoreInvariant == StoreSpec => []StoreInv
<1>1. StoreInit => StoreInv BY InitStoreInv
<1>2. StoreInv /\ [StoreNext]_storeVars => StoreInv' BY NextKeepsStoreInv
<1>. QED BY <1>1, <1>2, PTL DEF StoreSpec

\* No crash takes back a write that returned in immediate mode, that was there
\* when an ended sync began which did not fail on its shard, or that came before
\* the end of a Close that did not fail on its shard, for any number of shards
\* and clients.
THEOREM PromisesAreKept == StoreSpec => []PromisedSurvives
<1>1. StoreInv => PromisedSurvives
  <2>1. ASSUME StoreInv, NEW s \in Shards PROVE promised[s] <= written[s]
    <3>1. promised[s] \in Nat /\ synced[s] \in Nat /\ written[s] \in Nat
      BY <2>1 DEF StoreInv, StoreTypes
    <3>. QED BY <2>1, <3>1 DEF StoreInv, PromisesOnDisk, ShardKept
  <2>. QED BY <2>1 DEF PromisedSurvives
<1>. QED BY <1>1, StoreInvariant, PTL

\* Although the capacity is checked without a lock and on sizes read at
\* different times, a full store takes at most one more Set of each client.
THEOREM OvershootIsBounded == StoreSpec => []OvershootBounded
<1>1. StoreInv => OvershootBounded
  <2>1. SUFFICES ASSUME StoreInv, late > 0 PROVE late <= Cardinality(Clients)
    <3>1. Cardinality(Clients) \in Nat BY ClientsAssumption, FS_CardinalityType
    <3>. QED BY <3>1 DEF StoreInv, StoreTypes, OvershootBounded
  <2>2. PICK old \in SUBSET Clients : late + Cardinality(old) <= Cardinality(Clients)
    BY <2>1 DEF StoreInv, LateAreOld
  <2>3. Cardinality(old) \in Nat /\ Cardinality(Clients) \in Nat /\ late \in Nat
    BY <2>1, ClientsAssumption, FS_CardinalityType, FS_Subset DEF StoreInv, StoreTypes
  <2>. QED BY <2>2, <2>3
<1>. QED BY <1>1, StoreInvariant, PTL
=============================================================================
