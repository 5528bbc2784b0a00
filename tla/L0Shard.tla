------------------------------ MODULE L0Shard ------------------------------
(***************************************************************************)
(* One shard of the in-memory tier (pkg/l0/l0_cache.go, type shard): the   *)
(* map of entries, the clock ring that eviction scans, and the memory and  *)
(* weight counters.  Every operation on a shard runs under shard.mu, so    *)
(* Delete and Demote are single steps.  Set holds the lock across its      *)
(* eviction loop; the loop is one step per call of evictOne, because       *)
(* usedMemory is also read without the lock (MemoryUsage, UsageRatio).     *)
(*                                                                         *)
(* A value is abstracted to its length in bytes.  The checks before the    *)
(* lock (closed cache, empty key or value, value above MaxPayloadBytes)    *)
(* reject a request without touching the shard, so Keys and Sizes are the  *)
(* requests that pass them.  A zero length cannot be stored and stands for *)
(* an absent entry.  Get, Exists, GetTier, Promote and EvictCandidates     *)
(* read the map and change nothing of what is modelled here: in            *)
(* particular Get does not set the reference bit of the key's slot.        *)
(***************************************************************************)
EXTENDS Integers, FiniteSets

CONSTANTS
    Keys,       \* the keys that hash to this shard
    Sizes,      \* lengths of the values clients store
    Unit,       \* WeightedUnitBytes: an entry's weight is counted in these
    MemLimit,   \* getShardMemoryLimit(): bytes this shard may use
    FreqCap,    \* number of slots of the clock ring
    None        \* the key of an empty slot ("")

ASSUME KeysAssumption == IsFiniteSet(Keys)
ASSUME NoneAssumption == None \notin Keys \cup [key : Keys, size : Sizes]
ASSUME SizesAssumption == Sizes \subseteq Nat \ {0}
ASSUME LimitAssumption == Unit \in Nat \ {0} /\ MemLimit \in Nat
ASSUME RingAssumption == FreqCap \in Nat \ {0}

VARIABLES
    entries,    \* entries[k]: length of the value stored for k, 0 if absent
    frequency,  \* the clock ring
    freqSize,   \* occupied slots, as the code counts them
    clockHand,
    usedMemory, \* bytes, as the code counts them
    weight,     \* units, as the code counts them
    pc,         \* "idle": lock free; else where the Set that holds it is
    req         \* key and length of the Set that holds the lock, or None

vars == <<entries, frequency, freqSize, clockHand, usedMemory, weight, pc, req>>

Slots == 0 .. FreqCap - 1
ClockEntry == [key : Keys \cup {None}, reference : BOOLEAN]
Request == [key : Keys, size : Sizes]

(***************************************************************************)
(* Derived values.                                                         *)
(***************************************************************************)
\* NewCacheEntry: bytes rounded up to whole units.
Weight(size) == (size + Unit - 1) \div Unit

Resident == {k \in Keys : entries[k] # 0}
Occupied == {s \in Slots : frequency[s].key # None}

\* The keys some slot of the ring names.
Tracked == {frequency[s].key : s \in Occupied}

\* The positions evictOne scans, and the keys it can find there.  An occupied
\* slot behind them is out of reach until the ring fills up again.
Scanned == 0 .. freqSize - 1
Findable == {frequency[s].key : s \in Scanned \cap Occupied}

\* The entries' units of f laid out one by one; their number is the sum of f
\* over Keys.
Cells(f) == UNION {{k} \X (1 .. f[k]) : k \in Keys}
Total(f) == Cardinality(Cells(f))

Weights(e) == [k \in Keys |-> Weight(e[k])]

(***************************************************************************)
(* evictOne scans positions 0 .. freqSize-1 of the ring from the hand,     *)
(* modulo freqSize (the number of occupied slots, not the ring's length),  *)
(* and takes the first slot that is not referenced and whose key is still  *)
(* resident.  The slots it passes lose their reference bit.                *)
(***************************************************************************)
ScanSlot(i) == (clockHand + i) % freqSize

Evictable(s) ==
    /\ frequency[s].key # None
    /\ ~frequency[s].reference
    /\ frequency[s].key \in Resident

FirstVictim(i) ==
    /\ i \in 0 .. freqSize - 1
    /\ Evictable(ScanSlot(i))
    /\ \A j \in 0 .. i - 1 : ~Evictable(ScanSlot(j))

\* The ring after the first n positions of the scan.
Passed(n) ==
    [s \in Slots |->
        IF frequency[s].key # None /\ \E j \in 0 .. n - 1 : s = ScanSlot(j)
        THEN [frequency[s] EXCEPT !.reference = FALSE]
        ELSE frequency[s]]

\* Mutant: makes room already when the value would fit exactly.
NeedsRoomAtLimit == usedMemory + Weight(req.size) >= MemLimit /\ Resident # {}

\* Bytes are compared with units here, as the code does.
NeedsRoom == usedMemory + Weight(req.size) > MemLimit /\ Resident # {}

-----------------------------------------------------------------------------
Init ==
    /\ entries = [k \in Keys |-> 0]
    /\ frequency = [s \in Slots |-> [key |-> None, reference |-> FALSE]]
    /\ freqSize = 0
    /\ clockHand = 0
    /\ usedMemory = 0
    /\ weight = 0
    /\ pc = "idle"
    /\ req = None

\* Set takes the shard's lock.
SetLock(k, n) ==
    /\ pc = "idle"
    /\ pc' = "evict"
    /\ req' = [key |-> k, size |-> n]
    /\ UNCHANGED <<entries, frequency, freqSize, clockHand, usedMemory, weight>>

\* One turn of Set's loop in which evictOne finds a victim.
Evict(i) ==
    LET v == ScanSlot(i)
        k == frequency[v].key
    IN  /\ pc = "evict"
        /\ NeedsRoom
        /\ FirstVictim(i)
        /\ entries' = [entries EXCEPT ![k] = 0]
        /\ usedMemory' = usedMemory - entries[k]
        /\ weight' = weight - Weight(entries[k])
        /\ frequency' = [Passed(i) EXCEPT ![v].key = None]
        /\ freqSize' = freqSize - 1
        /\ clockHand' = (v + 1) % FreqCap
        /\ UNCHANGED <<pc, req>>

\* Mutant: Set does not leave its loop when nothing was evicted.
EvictNothingRetries ==
    /\ pc = "evict"
    /\ NeedsRoom
    /\ \A i \in 0 .. freqSize - 1 : ~FirstVictim(i)
    /\ frequency' = Passed(freqSize)
    /\ UNCHANGED <<entries, freqSize, clockHand, usedMemory, weight, pc, req>>

\* evictOne returns false: Set leaves its loop and stores the value anyway.
EvictNothing ==
    /\ pc = "evict"
    /\ NeedsRoom
    /\ \A i \in 0 .. freqSize - 1 : ~FirstVictim(i)
    /\ frequency' = Passed(freqSize)
    /\ pc' = "store"
    /\ UNCHANGED <<entries, freqSize, clockHand, usedMemory, weight, req>>

\* Mutant: the hand of a full ring is not wrapped.
AddToClockUnwrapped(k) ==
    \/ \E i \in Slots :
          LET s == (clockHand + i) % FreqCap
          IN  /\ frequency[s].key = None
              /\ \A j \in 0 .. i - 1 : frequency[(clockHand + j) % FreqCap].key # None
              /\ frequency' = [frequency EXCEPT ![s] = [key |-> k, reference |-> TRUE]]
              /\ freqSize' = IF freqSize < FreqCap THEN freqSize + 1 ELSE freqSize
              /\ UNCHANGED clockHand
    \/ /\ \A s \in Slots : frequency[s].key # None
       /\ clockHand' = clockHand + 1
       /\ UNCHANGED <<frequency, freqSize>>

\* Mutant: the slot under the hand is taken whether it is empty or not.
AddToClockOverwrites(k) ==
    /\ frequency' = [frequency EXCEPT ![clockHand] = [key |-> k, reference |-> TRUE]]
    /\ freqSize' = IF frequency[clockHand].key = None THEN freqSize + 1 ELSE freqSize
    /\ clockHand' = (clockHand + 1) % FreqCap

\* addToClock: the first empty slot from the hand; a full ring only moves the
\* hand, and the key gets no slot.
AddToClock(k) ==
    \/ \E i \in Slots :
          LET s == (clockHand + i) % FreqCap
          IN  /\ frequency[s].key = None
              /\ \A j \in 0 .. i - 1 : frequency[(clockHand + j) % FreqCap].key # None
              /\ frequency' = [frequency EXCEPT ![s] = [key |-> k, reference |-> TRUE]]
              /\ freqSize' = IF freqSize < FreqCap THEN freqSize + 1 ELSE freqSize
              /\ UNCHANGED clockHand
    \/ /\ \A s \in Slots : frequency[s].key # None
       /\ clockHand' = (clockHand + 1) % FreqCap
       /\ UNCHANGED <<frequency, freqSize>>

\* The rest of Set: replace the entry, account for it, enter it in the clock.
Store ==
    /\ pc = "store" \/ (pc = "evict" /\ ~NeedsRoom)
    /\ entries' = [entries EXCEPT ![req.key] = req.size]
    /\ usedMemory' = usedMemory - entries[req.key] + req.size
    /\ weight' = weight - Weight(entries[req.key]) + Weight(req.size)
    /\ AddToClock(req.key)
    /\ pc' = "idle"
    /\ req' = None

\* Mutant: the weight is not given back.
DeleteKeepsWeight(k) ==
    /\ pc = "idle"
    /\ k \in Resident
    /\ entries' = [entries EXCEPT ![k] = 0]
    /\ usedMemory' = usedMemory - entries[k]
    /\ UNCHANGED <<frequency, freqSize, clockHand, weight, pc, req>>

\* Delete leaves the key's slots in the ring.
Delete(k) ==
    /\ pc = "idle"
    /\ k \in Resident
    /\ entries' = [entries EXCEPT ![k] = 0]
    /\ usedMemory' = usedMemory - entries[k]
    /\ weight' = weight - Weight(entries[k])
    /\ UNCHANGED <<frequency, freqSize, clockHand, pc, req>>

\* Mutant: all slots that name the key are emptied, but one is counted.
DemoteCountsOne(k) ==
    /\ pc = "idle"
    /\ k \in Resident
    /\ entries' = [entries EXCEPT ![k] = 0]
    /\ usedMemory' = usedMemory - entries[k]
    /\ weight' = weight - Weight(entries[k])
    /\ frequency' = [s \in Slots |-> IF frequency[s].key = k THEN [frequency[s] EXCEPT !.key = None] ELSE frequency[s]]
    /\ freqSize' = IF k \in Tracked THEN freqSize - 1 ELSE freqSize
    /\ UNCHANGED <<clockHand, pc, req>>

\* Demote also empties the lowest slot that names the key.
Demote(k) ==
    /\ pc = "idle"
    /\ k \in Resident
    /\ entries' = [entries EXCEPT ![k] = 0]
    /\ usedMemory' = usedMemory - entries[k]
    /\ weight' = weight - Weight(entries[k])
    /\ \/ \E s \in Slots :
             /\ frequency[s].key = k
             /\ \A t \in 0 .. s - 1 : frequency[t].key # k
             /\ frequency' = [frequency EXCEPT ![s].key = None]
             /\ freqSize' = freqSize - 1
       \/ k \notin Tracked /\ UNCHANGED <<frequency, freqSize>>
    /\ UNCHANGED <<clockHand, pc, req>>

Next ==
    \/ \E k \in Keys, n \in Sizes : SetLock(k, n)
    \/ \E i \in 0 .. freqSize - 1 : Evict(i)
    \/ EvictNothing
    \/ Store
    \/ \E k \in Keys : Delete(k) \/ Demote(k)

\* A goroutine inside Set keeps running while it holds the lock.
Fairness ==
    WF_vars((\E i \in 0 .. freqSize - 1 : Evict(i)) \/ EvictNothing \/ Store)

Spec == Init /\ [][Next]_vars
FairSpec == Spec /\ Fairness

-----------------------------------------------------------------------------
(* Properties. *)

TypeOK ==
    /\ entries \in [Keys -> Sizes \cup {0}]
    /\ frequency \in [Slots -> ClockEntry]
    /\ freqSize \in 0 .. FreqCap
    /\ clockHand \in Slots
    /\ usedMemory \in Nat
    /\ weight \in Nat
    /\ pc \in {"idle", "evict", "store"}
    /\ IF pc = "idle" THEN req = None ELSE req \in Request

\* freqSize counts the occupied slots exactly, through updates, evictions,
\* deletes that leave slots behind and demotions that empty only one: the
\* scan's modulus and the guard in addToClock depend on it.
RingAccounting == freqSize = Cardinality(Occupied)

\* usedMemory is the number of bytes of the resident values and weight their
\* number of units, so the unsigned subtractions never wrap.
MemoryAccounting ==
    /\ usedMemory = Total(entries)
    /\ weight = Total(Weights(entries))

\* What eviction can reach is lost one key at a time.  A resident key that has
\* a slot keeps one; it gets out of evictOne's reach only in a step that frees
\* the slot of another key, and only if it stood in the last position scanned,
\* since freqSize is the end of the scan as well as a count.  A key enters the
\* map without a slot only when the ring is full.
TrackingStep ==
    \A k \in Resident' :
        /\ k \in Resident \cap Tracked => k \in Tracked'
        /\ k \in (Resident \cap Findable) \ Findable' =>
              freqSize' = freqSize - 1 /\ frequency[freqSize'].key = k
        /\ k \notin Resident \cup Tracked' => Occupied = Slots
TrackingKept == [][TrackingStep]_vars

\* A Set that has the lock finishes: its eviction loop cannot turn forever.
SetTerminates == pc # "idle" ~> pc = "idle"

(***************************************************************************)
(* What the shard promises its users, whatever the ring does: LossyStore.  *)
(***************************************************************************)
Abstract == INSTANCE LossyStore WITH store <- entries, pending <- req

\* The shard loses an entry only while a Set is running whose weight and the
\* true number of bytes held exceed the limit, or because a caller removed
\* it; and nothing becomes resident but the value of a Set.
ImplementsLossyStore == Abstract!Spec
=============================================================================
