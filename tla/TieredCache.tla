---------------------------- MODULE TieredCache ----------------------------
(***************************************************************************)
(* The cache as its clients see it (pkg/tieredcache/tieredcache.go): Get,  *)
(* Set, Delete and SetToL1 walk the tiers one call at a time, with no lock *)
(* across the calls; Get copies an L1 hit up to L0 in a goroutine of its   *)
(* own; the tiering worker copies L0 entries down and removes them from    *)
(* L0; the pre-warming Initialize has started copies L1 entries up while   *)
(* clients already call; Close shuts the tiers one after the other.        *)
(*                                                                         *)
(* A tier is the map from keys to values its calls work on, and one call   *)
(* on a tier is one step (each is atomic under the tier's shard lock).     *)
(* What a tier may do on its own is kept: storing in L0 may evict other    *)
(* keys (LossyStore says when), and L1 may refuse a change.                *)
(* The write-ahead log is kept as what its last record for a key says.     *)
(* Every Set stores a value of its own, so values are version numbers.     *)
(* Results of calls and TTLs are not modelled: entries live until they are *)
(* removed.                                                                *)
(***************************************************************************)
EXTENDS Integers, FiniteSets

CONSTANTS
    Clients,        \* goroutines calling the cache
    Keys,
    Calls,          \* the calls the clients make
    MaxVersion,     \* bound: number of values the clients store
    PromoSlots,     \* bound: promotion goroutines alive at a time
    UseWAL,         \* ShouldUseWAL(): sync_mode is not immediate, wal_enabled
    L1Refusals,     \* whether L1 ever refuses a change (at capacity, I/O error)
    TieringOn,      \* L2.Enabled: the tiering worker runs
    PreWarmOn,      \* Initialize starts pre-warming from L1
    Inherited,      \* keys L1 holds at the start
    None

Kinds == {"set", "delete", "get", "setToL1"}
Values == 0 .. MaxVersion \* 0 is a value L1 held at the start
Copy == [key : Keys, val : Values]

ASSUME BoundsAssumption == MaxVersion \in Nat /\ Calls \subseteq Kinds /\ Inherited \subseteq Keys
ASSUME FlagsAssumption == UseWAL \in BOOLEAN /\ L1Refusals \in BOOLEAN /\ TieringOn \in BOOLEAN
                          /\ PreWarmOn \in BOOLEAN
ASSUME NoneAssumption == None \notin Values \cup Keys \cup Copy

VARIABLES
    l0, l1,     \* the value each tier holds for a key, or None
    wal,        \* what the last log record for a key leaves, or None
    op,         \* the call each client is in
    promo,      \* promotion goroutines that have not stored their copy yet
    worker,     \* the tiering worker
    warm,       \* pre-warming: keys it has not come to, copies not stored yet
    closing,    \* how far Close has come
    version,    \* values handed out so far
    latest,     \* history: value of the last Set begun, None after a Delete
    mixed       \* history: keys whose last change overlapped or failed

vars == <<l0, l1, wal, op, promo, worker, warm, closing, version, latest, mixed>>

Idle == [kind |-> "idle"]
Ops == [kind : Kinds, at : {"l0", "l1", "wal"}, key : Keys, val : Values \cup {None}]

\* Close goes through these in order: the flag and the cancelled context,
\* then each tier, then the log.
ClosingSteps == <<"open", "flagged", "l0closed", "l1closed", "done">>
L0Open == closing \in {"open", "flagged"}
L1Open == L0Open \/ closing = "l0closed"
WALOpen == closing # "done"

-----------------------------------------------------------------------------
(* Who may still write a key. *)

Busy(c) == op[c].kind # "idle"
Mutating(c, k) == Busy(c) /\ op[c].kind # "get" /\ op[c].key = k
Mutated(k) == \E c \in Clients : Mutating(c, k)

\* Copies of k's value that are on their way into a tier.
PromoCopies == {promo[s] : s \in PromoSlots} \ {None}
TierCopies == worker.batch \cup ({worker.copy} \ {None})
Carried(k) == \E m \in PromoCopies \cup TierCopies \cup warm.copies : m.key = k

\* mixed, after a copy of k's value is taken while k is being changed.
CopyTaken(ks) == mixed' = mixed \cup {k \in ks : Mutated(k)}

-----------------------------------------------------------------------------
Init ==
    /\ l0 = [k \in Keys |-> None]
    /\ l1 = [k \in Keys |-> IF k \in Inherited THEN 0 ELSE None]
    /\ wal = l1
    /\ op = [c \in Clients |-> Idle]
    /\ promo = [s \in PromoSlots |-> None]
    /\ worker = [at |-> "idle", batch |-> {}, copy |-> None]
    /\ warm = [left |-> IF PreWarmOn THEN Keys ELSE {}, copies |-> {}]
    /\ closing = "open"
    /\ version = 0
    /\ latest = l1
    /\ mixed = {}

\* l0.Set: the value is stored, and entries of other keys may be evicted.
StoreL0(k, v) ==
    \E evicted \in SUBSET (Keys \ {k}) :
        l0' = [x \in Keys |-> IF x = k THEN v ELSE IF x \in evicted THEN None ELSE l0[x]]

\* l0.Get and l0.Delete.
HitL0(k) == L0Open /\ l0[k] # None
RemoveL0(k) == L0Open /\ l0' = [l0 EXCEPT ![k] = None]

\* l1.Set stores the value, or refuses it.
StoreL1(k, v) == L1Open /\ l1' = [l1 EXCEPT ![k] = v]
RefuseL1 == (~L1Open \/ L1Refusals) /\ UNCHANGED l1

\* l1.Get and l1.Delete; deleting an absent key is no error.
HitL1(k) == L1Open /\ l1[k] # None
RemoveL1(k) == L1Open /\ l1' = [l1 EXCEPT ![k] = None]

(***************************************************************************)
(* Calls begin with the check of the closed flag.                          *)
(***************************************************************************)
Begin(c, kind, k, v, at) ==
    /\ kind \in Calls
    /\ ~Busy(c)
    /\ closing = "open"
    /\ op' = [op EXCEPT ![c] = [kind |-> kind, at |-> at, key |-> k, val |-> v]]
    /\ UNCHANGED <<l0, l1, wal, promo, worker, warm, closing>>

BeginSet(c, k) ==
    /\ version < MaxVersion
    /\ version' = version + 1
    /\ Begin(c, "set", k, version', "l0")
    /\ latest' = [latest EXCEPT ![k] = version']
    /\ mixed' = IF Mutated(k) \/ Carried(k) THEN mixed \cup {k} ELSE mixed \ {k}

BeginDelete(c, k) ==
    /\ Begin(c, "delete", k, None, "l0")
    /\ latest' = [latest EXCEPT ![k] = None]
    /\ mixed' = IF Mutated(k) \/ Carried(k) THEN mixed \cup {k} ELSE mixed \ {k}
    /\ UNCHANGED version

\* SetToL1 bypasses L0 by design, so the tiers may differ afterwards.
BeginSetToL1(c, k) ==
    /\ version < MaxVersion
    /\ version' = version + 1
    /\ Begin(c, "setToL1", k, version', "l1")
    /\ latest' = [latest EXCEPT ![k] = version']
    /\ mixed' = mixed \cup {k}

BeginGet(c, k) ==
    /\ Begin(c, "get", k, None, "l0")
    /\ UNCHANGED <<version, latest, mixed>>

Advance(c, at) == op' = [op EXCEPT ![c].at = at]
Return(c) == op' = [op EXCEPT ![c] = Idle]

-----------------------------------------------------------------------------
(* Set and Delete: L0, then L1, then the log. *)

SetL0(c) ==
    LET k == op[c].key
    IN  /\ op[c].kind = "set" /\ op[c].at = "l0"
        /\ IF L0Open THEN StoreL0(k, op[c].val) /\ UNCHANGED mixed
                     ELSE UNCHANGED l0 /\ mixed' = mixed \cup {k}
        /\ Advance(c, "l1")
        /\ UNCHANGED <<l1, wal, promo, worker, warm, closing, version, latest>>

\* Mutant: L1 is left to the tiering worker.
SetL1WriteBack(c) ==
    /\ op[c].kind = "set" /\ op[c].at = "l1"
    /\ Advance(c, "wal")
    /\ UNCHANGED <<l0, l1, wal, promo, worker, warm, closing, version, latest, mixed>>

\* A refused L1 write is a warning: the call goes on and its error stays.
SetL1(c) ==
    LET k == op[c].key
    IN  /\ op[c].kind = "set" /\ op[c].at = "l1"
        /\ \/ StoreL1(k, op[c].val) /\ UNCHANGED mixed
           \/ RefuseL1 /\ mixed' = mixed \cup {k}
        /\ Advance(c, "wal")
        /\ UNCHANGED <<l0, wal, promo, worker, warm, closing, version, latest>>

\* SetToL1 ends with its L1 write and returns what L1 returned.
SetToL1(c) ==
    /\ op[c].kind = "setToL1"
    /\ StoreL1(op[c].key, op[c].val) \/ RefuseL1
    /\ Return(c)
    /\ UNCHANGED <<l0, wal, promo, worker, warm, closing, version, latest, mixed>>

\* Mutant: a key that L0 does not hold ends the call.
DeleteL0ReturnsNotFound(c) ==
    LET k == op[c].key
    IN  /\ op[c].kind = "delete" /\ op[c].at = "l0"
        /\ \/ RemoveL0(k) /\ UNCHANGED mixed
           \/ ~L0Open /\ UNCHANGED l0 /\ mixed' = mixed \cup {k}
        /\ IF l0[k] = None THEN Return(c) ELSE Advance(c, "l1")
        /\ UNCHANGED <<l1, wal, promo, worker, warm, closing, version, latest>>

DeleteL0(c) ==
    LET k == op[c].key
    IN  /\ op[c].kind = "delete" /\ op[c].at = "l0"
        /\ \/ RemoveL0(k) /\ UNCHANGED mixed
           \/ ~L0Open /\ UNCHANGED l0 /\ mixed' = mixed \cup {k}
        /\ Advance(c, "l1")
        /\ UNCHANGED <<l1, wal, promo, worker, warm, closing, version, latest>>

DeleteL1(c) ==
    LET k == op[c].key
    IN  /\ op[c].kind = "delete" /\ op[c].at = "l1"
        /\ \/ RemoveL1(k) /\ Advance(c, "wal") /\ UNCHANGED mixed
           \/ RefuseL1 /\ Advance(c, "wal") /\ mixed' = mixed \cup {k}
        /\ UNCHANGED <<l0, wal, promo, worker, warm, closing, version, latest>>

\* The end of Set and of Delete; an error of the log is a warning, and
\* without a log the step only returns.
Log(c) ==
    LET k == op[c].key
    IN  /\ Busy(c) /\ op[c].at = "wal"
        /\ \/ UseWAL /\ WALOpen /\ wal' = [wal EXCEPT ![k] = op[c].val] /\ UNCHANGED mixed
           \/ UseWAL /\ UNCHANGED wal /\ mixed' = mixed \cup {k}
           \/ ~UseWAL /\ UNCHANGED <<wal, mixed>>
        /\ Return(c)
        /\ UNCHANGED <<l0, l1, promo, worker, warm, closing, version, latest>>

-----------------------------------------------------------------------------
(* Get: L0, then L1; an L1 hit is promoted in the background. *)

GetL0(c) ==
    /\ op[c].kind = "get" /\ op[c].at = "l0"
    /\ IF HitL0(op[c].key) THEN Return(c) ELSE Advance(c, "l1")
    /\ UNCHANGED <<l0, l1, wal, promo, worker, warm, closing, version, latest, mixed>>

\* Mutant: what L1 returned is promoted without looking at the error.
GetL1PromotesMiss(c) ==
    LET k == op[c].key
    IN  /\ op[c].kind = "get" /\ op[c].at = "l1"
        /\ \E s \in PromoSlots :
              promo[s] = None /\ promo' = [promo EXCEPT ![s] = [key |-> k, val |-> l1[k]]]
        /\ CopyTaken({k})
        /\ Return(c)
        /\ UNCHANGED <<l0, l1, wal, worker, warm, closing, version, latest>>

GetL1(c) ==
    LET k == op[c].key
    IN  /\ op[c].kind = "get" /\ op[c].at = "l1"
        /\ IF HitL1(k)
           THEN /\ \E s \in PromoSlots :
                      promo[s] = None /\ promo' = [promo EXCEPT ![s] = [key |-> k, val |-> l1[k]]]
                /\ CopyTaken({k})
           ELSE UNCHANGED <<promo, mixed>>
        /\ Return(c)
        /\ UNCHANGED <<l0, l1, wal, worker, warm, closing, version, latest>>

\* The goroutine's l0.Set; its error, if L0 has been closed, is dropped.
Promote(s) ==
    /\ promo[s] # None
    /\ IF L0Open THEN StoreL0(promo[s].key, promo[s].val) ELSE UNCHANGED l0
    /\ promo' = [promo EXCEPT ![s] = None]
    /\ UNCHANGED <<l1, wal, op, worker, warm, closing, version, latest, mixed>>

-----------------------------------------------------------------------------
(* performTiering, one call at a time. *)

\* EvictCandidates: a batch of L0 entries.  The usage threshold may be met
\* whatever the entries are, since their sizes are not modelled; and a tick
\* may win over Close's cancellation.
TierCollect(ks) ==
    /\ TieringOn
    /\ L0Open
    /\ worker.at = "idle"
    /\ ks # {} /\ \A k \in ks : l0[k] # None
    /\ worker' = [at |-> "copy", batch |-> {[key |-> k, val |-> l0[k]] : k \in ks}, copy |-> None]
    /\ CopyTaken(ks)
    /\ UNCHANGED <<l0, l1, wal, op, promo, warm, closing, version, latest>>

\* On to the next entry of the batch, or to the end of the run.
NextEntry(batch) == [at |-> IF batch = {} THEN "idle" ELSE "copy", batch |-> batch, copy |-> None]

\* Phase 1: l1.Set with the value the batch was collected with.
TierCopy(m) ==
    /\ worker.at = "copy" /\ m \in worker.batch
    /\ \/ /\ StoreL1(m.key, m.val)
          /\ worker' = [at |-> "verify", batch |-> worker.batch \ {m}, copy |-> m]
       \/ RefuseL1 /\ worker' = NextEntry(worker.batch \ {m})
    /\ UNCHANGED <<l0, wal, op, promo, warm, closing, version, latest, mixed>>

\* Phase 2: the key, not the value, is looked up in L1.
TierVerify ==
    /\ worker.at = "verify"
    /\ worker' = IF HitL1(worker.copy.key)
                 THEN [worker EXCEPT !.at = "demote"]
                 ELSE NextEntry(worker.batch)
    /\ UNCHANGED <<l0, l1, wal, op, promo, warm, closing, version, latest, mixed>>

\* Phase 3: l0.Demote removes whatever L0 now holds for the key; its error
\* changes nothing.
TierDemote ==
    /\ worker.at = "demote"
    /\ RemoveL0(worker.copy.key) \/ (~L0Open /\ UNCHANGED l0)
    /\ worker' = NextEntry(worker.batch)
    /\ UNCHANGED <<l1, wal, op, promo, warm, closing, version, latest, mixed>>

-----------------------------------------------------------------------------
(* preWarmL0, as a carrier of values. *)

\* The iterator comes to a shard of L1, whose keys are ks: its transaction
\* sees the entries as they are at that moment.  On a closed L1 it sees none
\* (Badger panics; PreWarm has the details).
WarmRead(ks) ==
    /\ ks \subseteq warm.left /\ ks # {}
    /\ warm' = [left |-> warm.left \ ks,
                copies |-> warm.copies \cup {[key |-> k, val |-> l1[k]] : k \in {k \in ks : HitL1(k)}}]
    /\ CopyTaken(ks)
    /\ UNCHANGED <<l0, l1, wal, op, promo, worker, closing, version, latest>>

\* A pre-warm worker's l0.Set; or the copy is given up (memory limit, or L0
\* has been closed).
WarmStore(m) ==
    /\ m \in warm.copies
    /\ \/ L0Open /\ StoreL0(m.key, m.val)
       \/ UNCHANGED l0
    /\ warm' = [warm EXCEPT !.copies = @ \ {m}]
    /\ UNCHANGED <<l1, wal, op, promo, worker, closing, version, latest, mixed>>

-----------------------------------------------------------------------------
\* Close sets the flag, then closes L0, L1 and the log.
Close ==
    /\ \E i \in 1 .. 4 : closing = ClosingSteps[i] /\ closing' = ClosingSteps[i + 1]
    /\ UNCHANGED <<l0, l1, wal, op, promo, worker, warm, version, latest, mixed>>

Next ==
    \/ \E c \in Clients, k \in Keys :
          BeginSet(c, k) \/ BeginDelete(c, k) \/ BeginSetToL1(c, k) \/ BeginGet(c, k)
    \/ \E c \in Clients :
          \/ SetL0(c) \/ SetL1(c) \/ SetToL1(c) \/ DeleteL0(c) \/ DeleteL1(c) \/ Log(c)
          \/ GetL0(c) \/ GetL1(c)
    \/ \E s \in PromoSlots : Promote(s)
    \/ \E ks \in SUBSET Keys : TierCollect(ks)
    \/ \E m \in worker.batch : TierCopy(m)
    \/ TierVerify
    \/ TierDemote
    \/ \E ks \in SUBSET Keys : WarmRead(ks)
    \/ \E m \in warm.copies : WarmStore(m)
    \/ Close

Spec == Init /\ [][Next]_vars

-----------------------------------------------------------------------------
(* Properties. *)

TypeOK ==
    /\ l0 \in [Keys -> Values \cup {None}]
    /\ l1 \in [Keys -> Values \cup {None}]
    /\ wal \in [Keys -> Values \cup {None}]
    /\ op \in [Clients -> Ops \cup {Idle}]
    /\ promo \in [PromoSlots -> Copy \cup {None}]
    /\ worker \in [at : {"idle", "copy", "verify", "demote"}, batch : SUBSET Copy, copy : Copy \cup {None}]
    /\ warm \in [left : SUBSET Keys, copies : SUBSET Copy]
    /\ closing \in {"open", "flagged", "l0closed", "l1closed", "done"}
    /\ version \in 0 .. MaxVersion
    /\ latest \in [Keys -> Values \cup {None}]
    /\ mixed \subseteq Keys

\* If the last Set or Delete of a key met no other change of that key, no
\* copy of an older value on its way into a tier and no failing tier, then
\* once it has returned L1 and the log hold its result and L0 holds it or
\* nothing - and stays so through any later promotions, tiering and
\* pre-warming.
TiersAgree ==
    \A k \in Keys \ mixed :
        ~Mutated(k) => /\ l0[k] \in {None, latest[k]}
                       /\ l1[k] = latest[k]
                       /\ UseWAL => wal[k] = latest[k]
=============================================================================
