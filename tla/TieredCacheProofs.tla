------------------------- MODULE TieredCacheProofs -------------------------
(* Proofs about the tiers, for every number of clients, keys and values,   *)
(* with and without log, refusals, tiering and pre-warming.                *)
EXTENDS TieredCache, TLAPS

\* A Get never comes to the log, a Delete leaves nothing, and SetToL1 is only
\* ever about to write L1; its key is in mixed.
CallShape ==
    \A c \in Clients :
        /\ op[c].kind = "get" => op[c].at # "wal"
        /\ op[c].kind = "delete" => op[c].val = None
        /\ op[c].kind = "setToL1" => op[c].at = "l1" /\ op[c].key \in mixed

\* A key that is not in mixed is changed by one call at a time, and then no
\* copy of its value is on its way.
OneMutator ==
    \A k \in Keys \ mixed :
        /\ \A c, d \in Clients : Mutating(c, k) /\ Mutating(d, k) => c = d
        /\ Mutated(k) => ~Carried(k)

Copies == PromoCopies \cup TierCopies \cup warm.copies

\* A copy on its way into a tier is of the latest value.
CopiesAreLatest == \A m \in Copies : m.key \notin mixed => m.val = latest[m.key]

\* How far the call that changes a key has come says what the tiers hold.
TiersFollow ==
    \A c \in Clients, k \in Keys \ mixed :
        Mutating(c, k) =>
            /\ op[c].val = latest[k]
            /\ op[c].at \in {"l1", "wal"} => l0[k] \in {None, latest[k]}
            /\ op[c].at = "wal" => l1[k] = latest[k]

IInv == TypeOK /\ CallShape /\ OneMutator /\ CopiesAreLatest /\ TiersFollow /\ TiersAgree

\* Before any call the log and L1 agree and L0 is empty.
LEMMA InitIInv == Init => IInv
<1>. SUFFICES ASSUME Init PROVE IInv
  OBVIOUS
<1>1. \A c \in Clients : op[c].kind = "idle"
  BY DEF Init, Idle
<1>2. Copies = {}
  BY DEF Init, Copies, PromoCopies, TierCopies
<1>3. TypeOK
  BY BoundsAssumption DEF Init, TypeOK, Values
<1>4. TiersAgree
  BY DEF Init, TiersAgree
<1>. QED  BY <1>1, <1>2, <1>3, <1>4
     DEF IInv, CallShape, OneMutator, CopiesAreLatest, TiersFollow, Mutating, Mutated, Busy

-----------------------------------------------------------------------------
(* What the steps have in common. *)

\* l0.Set: the key has the value, and other keys at most lose theirs.
LEMMA StoredInL0 ==
    ASSUME TypeOK, NEW k \in Keys, NEW v \in Values \cup {None}, StoreL0(k, v)
    PROVE  /\ l0' \in [Keys -> Values \cup {None}]
           /\ l0'[k] = v
           /\ \A x \in Keys \ {k} : l0'[x] \in {l0[x], None}
BY DEF StoreL0, TypeOK

\* While a call goes on and returns, no copy is made and no other call
\* begins.
LEMMA CallGoesOn ==
    ASSUME IInv, NEW c \in Clients, Busy(c),
           op'[c] = Idle \/ (op'[c].kind = op[c].kind /\ op'[c].key = op[c].key
                             /\ op'[c].val = op[c].val /\ op'[c].at # op[c].at /\ (op[c].kind = "get" => op'[c].at # "wal")
                             /\ op[c].kind # "setToL1"),
           \A d \in Clients \ {c} : op'[d] = op[d],
           mixed \subseteq mixed',
           UNCHANGED <<promo, worker, warm, latest>>
    PROVE  CallShape' /\ OneMutator' /\ CopiesAreLatest'
<1>1. \A d \in Clients, k \in Keys : Mutating(d, k)' => Mutating(d, k)
  BY DEF Mutating, Busy, Idle
<1>2. Copies' = Copies /\ \A k \in Keys : Carried(k)' = Carried(k)
  BY DEF Copies, PromoCopies, TierCopies, Carried
<1>3. CallShape'
  BY DEF IInv, CallShape, Idle
<1>4. OneMutator'
  BY <1>1, <1>2 DEF IInv, OneMutator, Mutated
<1>5. CopiesAreLatest'
  BY <1>2 DEF IInv, CopiesAreLatest
<1>. QED  BY <1>3, <1>4, <1>5
\* Copies are taken from L0 or L1 of keys nobody is changing, or the keys go
\* into mixed.
LEMMA CopiesTaken ==
    ASSUME IInv, NEW ks \in SUBSET Keys, CopyTaken(ks),
           \A m \in Copies' \ Copies :
              m.key \in ks /\ m.val # None /\ m.val \in {l0[m.key], l1[m.key]},
           \A d \in Clients, k \in Keys : Mutating(d, k)' <=> Mutating(d, k),
           UNCHANGED latest
    PROVE  OneMutator' /\ CopiesAreLatest'
<1>1. mixed' = mixed \cup {k \in ks : Mutated(k)}
  BY DEF CopyTaken
<1>2. ASSUME NEW m \in Copies', m.key \notin mixed' PROVE m.val = latest'[m.key]
  <2>1. CASE m \in Copies
    BY <1>1, <1>2, <2>1 DEF IInv, CopiesAreLatest
  <2>2. CASE m \notin Copies
    BY <1>1, <1>2, <2>2 DEF IInv, TiersAgree
  <2>. QED  BY <2>1, <2>2
<1>3. ASSUME NEW k \in Keys \ mixed', Mutated(k)' PROVE ~Carried(k)'
  <2>1. Mutated(k) /\ k \notin ks /\ ~Carried(k)
    BY <1>1, <1>3 DEF IInv, OneMutator, Mutated
  <2>2. \A m \in Copies : m.key # k
    BY <2>1 DEF Carried, Copies
  <2>. QED  BY <2>1, <2>2 DEF Carried, Copies
<1>4. ASSUME NEW k \in Keys \ mixed', NEW c \in Clients, NEW d \in Clients,
             Mutating(c, k)', Mutating(d, k)' PROVE c = d
  BY <1>1, <1>4 DEF IInv, OneMutator
<1>5. CopiesAreLatest'
  BY <1>2 DEF CopiesAreLatest
<1>6. OneMutator'
  BY <1>3, <1>4 DEF OneMutator
<1>. QED  BY <1>5, <1>6

\* Tiers only gain what a copy carries and lose what L0 may lose, and no copy
\* is added.
LEMMA CopyStored ==
    ASSUME IInv, NEW m \in Copies, m.key \in Keys,
           Copies' \subseteq Copies,
           \A k \in Keys : l0'[k] \in {None, l0[k]} \/ (k = m.key /\ l0'[k] = m.val),
           \A k \in Keys : l1'[k] = l1[k] \/ (k = m.key /\ l1'[k] = m.val),
           UNCHANGED <<wal, op, latest, mixed>>
    PROVE  CallShape' /\ OneMutator' /\ CopiesAreLatest' /\ TiersFollow' /\ TiersAgree'
<1>1. \A c \in Clients, k \in Keys : Mutating(c, k)' <=> Mutating(c, k)
  BY DEF Mutating, Busy
<1>2. \A k \in Keys : Carried(k)' => Carried(k)
  BY DEF Carried, Copies
<1>3. m.key \notin mixed => ~Mutated(m.key) /\ m.val = latest[m.key]
  BY DEF IInv, OneMutator, CopiesAreLatest, Carried, Copies
<1>4. CallShape'
  BY DEF IInv, CallShape
<1>5. OneMutator'
  BY <1>1, <1>2 DEF IInv, OneMutator, Mutated
<1>6. CopiesAreLatest'
  BY DEF IInv, CopiesAreLatest
<1>7. TiersFollow'
  BY <1>1, <1>3 DEF IInv, TiersFollow, Mutated
<1>8. TiersAgree'
  BY <1>1, <1>3 DEF IInv, TiersAgree, Mutated
<1>. QED  BY <1>4, <1>5, <1>6, <1>7, <1>8

-----------------------------------------------------------------------------
(* Calls begin. *)

\* A Set or a Delete is the only change of its key, or the key is in mixed.
LEMMA MutationBegins ==
    ASSUME IInv, NEW c \in Clients, NEW k \in Keys, NEW kind \in Kinds \ {"get"},
           NEW v \in Values \cup {None}, NEW at \in {"l0", "l1"},
           Begin(c, kind, k, v, at),
           latest' = [latest EXCEPT ![k] = v],
           mixed' \subseteq mixed \cup {k}, mixed \ {k} \subseteq mixed',
           k \notin mixed' => at = "l0" /\ kind # "setToL1" /\ ~Mutated(k) /\ ~Carried(k),
           kind = "setToL1" => at = "l1", kind = "delete" => v = None,
           version' \in 0 .. MaxVersion
    PROVE  IInv'
<1>1. op' = [op EXCEPT ![c] = [kind |-> kind, at |-> at, key |-> k, val |-> v]] /\ ~Busy(c)
      /\ UNCHANGED <<l0, l1, wal, promo, worker, warm, closing>>
  BY DEF Begin
<1>2. op \in [Clients -> Ops \cup {Idle}] /\ op' \in [Clients -> Ops \cup {Idle}]
  BY <1>1 DEF IInv, TypeOK, Ops
<1>3. TypeOK'
  BY <1>1, <1>2 DEF IInv, TypeOK
<1>4. \A d \in Clients, x \in Keys :
        Mutating(d, x)' <=> IF d = c THEN x = k ELSE Mutating(d, x)
  BY <1>1, <1>2 DEF Mutating, Busy, Kinds
<1>5. \A d \in Clients, x \in Keys : Mutating(d, x) => d # c
  BY <1>1 DEF Mutating
<1>6. Copies' = Copies /\ \A x \in Keys : Carried(x)' = Carried(x)
  BY <1>1 DEF Copies, PromoCopies, TierCopies, Carried
<1>7. CallShape'
  <2>1. op'[c].kind = kind /\ op'[c].at = at /\ op'[c].key = k /\ op'[c].val = v
    BY <1>1 DEF IInv, TypeOK
  <2>2. \A d \in Clients \ {c} : op[d].kind = "setToL1" => op[d].key \in mixed'
    <3>. SUFFICES ASSUME NEW d \in Clients \ {c}, op[d].kind = "setToL1" PROVE op[d].key \in mixed'
      OBVIOUS
    <3>1. op[d].key \in mixed
      BY DEF IInv, CallShape
    <3>2. op[d].key = k => Mutated(k)
      BY DEF Mutated, Mutating, Busy
    <3>. QED  BY <3>1, <3>2
  <2>3. \A d \in Clients \ {c} : op'[d] = op[d]
    BY <1>1 DEF IInv, TypeOK
  <2>. QED  BY <2>1, <2>2, <2>3 DEF IInv, CallShape
<1>8. OneMutator'
  BY <1>4, <1>5, <1>6 DEF IInv, OneMutator, Mutated
<1>9. CopiesAreLatest'
  BY <1>6 DEF IInv, CopiesAreLatest, Carried, Copies, TypeOK
<1>10. TiersFollow'
  BY <1>1, <1>2, <1>4, <1>5 DEF IInv, TiersFollow, TypeOK, Mutated
<1>11. TiersAgree'
  BY <1>1, <1>4, <1>5 DEF IInv, TiersAgree, TypeOK, Mutated
<1>. QED  BY <1>3, <1>7, <1>8, <1>9, <1>10, <1>11 DEF IInv
\* Set, Delete and SetToL1 pass their look at the closed flag.
LEMMA BeginKeepsIInv ==
    ASSUME IInv, NEW c \in Clients, NEW k \in Keys,
           BeginSet(c, k) \/ BeginDelete(c, k) \/ BeginSetToL1(c, k)
    PROVE  IInv'
<1>1. version \in 0 .. MaxVersion /\ MaxVersion \in Nat /\ mixed \subseteq Keys
      /\ latest \in [Keys -> Values \cup {None}]
  BY BoundsAssumption DEF IInv, TypeOK
<1>2. CASE BeginSet(c, k)
  <2>1. version' = version + 1 /\ version' \in 0 .. MaxVersion
    BY <1>1, <1>2 DEF BeginSet
  <2>2. version' \in Values
    BY <2>1 DEF Values
  <2>3. /\ Begin(c, "set", k, version', "l0")
        /\ latest' = [latest EXCEPT ![k] = version']
        /\ mixed' = IF Mutated(k) \/ Carried(k) THEN mixed \cup {k} ELSE mixed \ {k}
    BY <1>2 DEF BeginSet
  <2>. QED  BY <2>1, <2>2, <2>3, MutationBegins DEF Kinds
<1>3. CASE BeginDelete(c, k)
  <2>1. /\ Begin(c, "delete", k, None, "l0")
        /\ latest' = [latest EXCEPT ![k] = None]
        /\ mixed' = IF Mutated(k) \/ Carried(k) THEN mixed \cup {k} ELSE mixed \ {k}
        /\ version' = version
    BY <1>3 DEF BeginDelete
  <2>. QED  BY <1>1, <2>1, MutationBegins DEF Kinds
<1>4. CASE BeginSetToL1(c, k)
  <2>1. version' = version + 1 /\ version' \in 0 .. MaxVersion
    BY <1>1, <1>4 DEF BeginSetToL1
  <2>2. version' \in Values
    BY <2>1 DEF Values
  <2>3. /\ Begin(c, "setToL1", k, version', "l1")
        /\ latest' = [latest EXCEPT ![k] = version']
        /\ mixed' = mixed \cup {k}
    BY <1>4 DEF BeginSetToL1
  <2>. QED  BY <2>1, <2>2, <2>3, MutationBegins DEF Kinds
<1>. QED  BY <1>2, <1>3, <1>4

\* A Get begins; it changes nothing yet.
LEMMA BeginGetKeepsIInv ==
    ASSUME IInv, NEW c \in Clients, NEW k \in Keys, BeginGet(c, k)
    PROVE  IInv'
<1>1. op' = [op EXCEPT ![c] = [kind |-> "get", at |-> "l0", key |-> k, val |-> None]] /\ ~Busy(c)
      /\ UNCHANGED <<l0, l1, wal, promo, worker, warm, closing, version, latest, mixed>>
  BY DEF BeginGet, Begin
<1>2. TypeOK'
  BY <1>1 DEF IInv, TypeOK, Ops, Kinds
<1>3. \A d \in Clients, x \in Keys : Mutating(d, x)' <=> Mutating(d, x)
  BY <1>1 DEF IInv, TypeOK, Mutating, Busy
<1>4. Copies' = Copies /\ \A x \in Keys : Carried(x)' = Carried(x)
  BY <1>1 DEF Copies, PromoCopies, TierCopies, Carried
<1>5. CallShape'
  BY <1>1 DEF IInv, TypeOK, CallShape
<1>6. OneMutator' /\ CopiesAreLatest'
  BY <1>1, <1>3, <1>4 DEF IInv, OneMutator, Mutated, CopiesAreLatest
<1>7. \A d \in Clients, x \in Keys : Mutating(d, x) => op'[d] = op[d]
  BY <1>1 DEF IInv, TypeOK, Mutating
<1>8. TiersFollow' /\ TiersAgree'
  BY <1>1, <1>3, <1>7 DEF IInv, TiersFollow, TiersAgree, Mutated
<1>. QED  BY <1>2, <1>5, <1>6, <1>8 DEF IInv

-----------------------------------------------------------------------------
(* Calls go on. *)

\* What Advance and Return make of a call.
LEMMA CallSteps ==
    ASSUME TypeOK, NEW c \in Clients, Busy(c), NEW at \in {"l0", "l1", "wal"},
           Advance(c, at) \/ Return(c)
    PROVE  /\ op' \in [Clients -> Ops \cup {Idle}]
           /\ Advance(c, at) => op'[c] = [op[c] EXCEPT !.at = at] /\ op'[c].kind = op[c].kind
                                /\ op'[c].key = op[c].key /\ op'[c].val = op[c].val
                                /\ op'[c].at = at
           /\ Return(c) => op'[c] = Idle
           /\ \A d \in Clients \ {c} : op'[d] = op[d]
           /\ op[c] \in Ops
<1>1. op[c] \in Ops /\ op \in [Clients -> Ops \cup {Idle}]
  BY DEF TypeOK, Busy, Idle
<1>2. [op[c] EXCEPT !.at = at] \in Ops
  BY <1>1 DEF Ops
<1>. QED  BY <1>1, <1>2 DEF Advance, Return, Ops

\* A Set or a Delete that has done its part in one tier and goes on.
LEMMA CallFollowed ==
    ASSUME IInv, NEW c \in Clients, NEW at \in {"l1", "wal"},
           op[c].kind \in {"set", "delete"}, op[c].at # at, Advance(c, at),
           mixed \subseteq mixed', mixed' \subseteq Keys,
           l0' \in [Keys -> Values \cup {None}], l1' \in [Keys -> Values \cup {None}],
           \A x \in Keys \ {op[c].key} : l0'[x] \in {l0[x], None} /\ l1'[x] = l1[x],
           op[c].key \notin mixed' => /\ l0'[op[c].key] \in {None, latest[op[c].key]}
                                      /\ at = "wal" => l1'[op[c].key] = latest[op[c].key],
           UNCHANGED <<wal, promo, worker, warm, closing, version, latest>>
    PROVE  IInv'
<1>. DEFINE k == op[c].key
<1>1. TypeOK /\ Busy(c) /\ op[c] \in Ops /\ k \in Keys
  BY CallSteps DEF IInv, Busy, Ops
<1>2. /\ op' \in [Clients -> Ops \cup {Idle}] /\ \A d \in Clients \ {c} : op'[d] = op[d]
      /\ op'[c].kind = op[c].kind /\ op'[c].key = k /\ op'[c].val = op[c].val /\ op'[c].at = at
  BY <1>1, CallSteps
<1>3. TypeOK'
  BY <1>1, <1>2 DEF TypeOK
<1>4. CallShape' /\ OneMutator' /\ CopiesAreLatest'
  BY <1>1, <1>2, CallGoesOn
<1>5. \A d \in Clients, x \in Keys : Mutating(d, x)' <=> Mutating(d, x)
  BY <1>1, <1>2 DEF Mutating, Busy
<1>6. Mutating(c, k)
  BY <1>1 DEF Mutating
<1>7. TiersFollow'
  <2>. SUFFICES ASSUME NEW d \in Clients, NEW x \in Keys \ mixed', Mutating(d, x)
                PROVE  /\ op'[d].val = latest[x]
                       /\ op'[d].at \in {"l1", "wal"} => l0'[x] \in {None, latest[x]}
                       /\ op'[d].at = "wal" => l1'[x] = latest[x]
    BY <1>5 DEF TiersFollow
  <2>1. x \in Keys \ mixed
    OBVIOUS
  <2>2. CASE d = c
    BY <1>2, <2>1, <2>2 DEF IInv, TiersFollow, Mutating
  <2>3. CASE d # c
    BY <1>1, <1>2, <1>6, <2>1, <2>3 DEF IInv, TiersFollow, OneMutator
  <2>. QED  BY <2>2, <2>3
<1>8. TiersAgree'
  BY <1>1, <1>5, <1>6 DEF IInv, TiersAgree, Mutated
<1>. QED  BY <1>3, <1>4, <1>7, <1>8 DEF IInv

\* Set's first call: what L0 has is the value or, later, nothing.
LEMMA SetL0KeepsIInv == ASSUME IInv, NEW c \in Clients, SetL0(c) PROVE IInv'
<1>. DEFINE k == op[c].key
<1>1. /\ op[c].kind = "set" /\ op[c].at = "l0" /\ Busy(c) /\ Advance(c, "l1")
      /\ UNCHANGED <<l1, wal, promo, worker, warm, closing, version, latest>>
  BY DEF SetL0, Busy
<1>2. TypeOK /\ k \in Keys /\ op[c].val \in Values \cup {None}
  BY <1>1, CallSteps DEF IInv, Ops
<1>3. mixed \subseteq mixed' /\ mixed' \subseteq Keys
  BY <1>2 DEF SetL0, TypeOK
<1>4. k \notin mixed => op[c].val = latest[k]
  BY <1>1, <1>2 DEF IInv, TiersFollow, Mutating
<1>5. /\ l0' \in [Keys -> Values \cup {None}]
      /\ \A x \in Keys \ {k} : l0'[x] \in {l0[x], None}
      /\ k \notin mixed' => l0'[k] = op[c].val
  <2>1. CASE L0Open
    BY <1>2, <2>1, StoredInL0 DEF SetL0
  <2>2. CASE ~L0Open
    BY <1>2, <2>2 DEF SetL0, TypeOK
  <2>. QED  BY <2>1, <2>2
<1>6. k \notin mixed' => l0'[k] \in {None, latest[k]}
  BY <1>3, <1>4, <1>5
<1>7. l1' \in [Keys -> Values \cup {None}] /\ \A x \in Keys : l1'[x] = l1[x]
  BY <1>1, <1>2 DEF TypeOK
<1>. QED  BY <1>1, <1>3, <1>5, <1>6, <1>7, CallFollowed

\* Set's second call: L1 has the value, or its refusal puts the key in mixed.
LEMMA SetL1KeepsIInv == ASSUME IInv, NEW c \in Clients, SetL1(c) PROVE IInv'
<1>. DEFINE k == op[c].key
<1>1. /\ op[c].kind = "set" /\ op[c].at = "l1" /\ Busy(c) /\ Advance(c, "wal")
      /\ UNCHANGED <<l0, wal, promo, worker, warm, closing, version, latest>>
  BY DEF SetL1, Busy
<1>2. TypeOK /\ k \in Keys /\ op[c].val \in Values \cup {None}
  BY <1>1, CallSteps DEF IInv, Ops
<1>3. k \notin mixed => op[c].val = latest[k] /\ l0[k] \in {None, latest[k]}
  BY <1>1, <1>2 DEF IInv, TiersFollow, Mutating
<1>4. \/ StoreL1(k, op[c].val) /\ mixed' = mixed
      \/ l1' = l1 /\ mixed' = mixed \cup {k}
  BY DEF SetL1, RefuseL1
<1>5. /\ l1' \in [Keys -> Values \cup {None}]
      /\ \A x \in Keys \ {k} : l1'[x] = l1[x]
      /\ k \notin mixed' => l1'[k] = latest[k]
  BY <1>2, <1>3, <1>4 DEF StoreL1, TypeOK
<1>6. mixed \subseteq mixed' /\ mixed' \subseteq Keys
  BY <1>2, <1>4 DEF TypeOK
<1>7. l0' \in [Keys -> Values \cup {None}] /\ \A x \in Keys : l0'[x] = l0[x]
  BY <1>1, <1>2 DEF TypeOK
<1>8. k \notin mixed' => l0'[k] \in {None, latest[k]}
  BY <1>1, <1>3, <1>6
<1>. QED  BY <1>1, <1>5, <1>6, <1>7, <1>8, CallFollowed

\* Delete's first call: the key is not in L0, whether or not it was.
LEMMA DeleteL0KeepsIInv == ASSUME IInv, NEW c \in Clients, DeleteL0(c) PROVE IInv'
<1>. DEFINE k == op[c].key
<1>1. /\ op[c].kind = "delete" /\ op[c].at = "l0" /\ Busy(c) /\ Advance(c, "l1")
      /\ UNCHANGED <<l1, wal, promo, worker, warm, closing, version, latest>>
  BY DEF DeleteL0, Busy
<1>2. TypeOK /\ k \in Keys
  BY <1>1, CallSteps DEF IInv, Ops
<1>3. \/ RemoveL0(k) /\ mixed' = mixed
      \/ l0' = l0 /\ mixed' = mixed \cup {k}
  BY DEF DeleteL0
<1>4. /\ l0' \in [Keys -> Values \cup {None}]
      /\ \A x \in Keys \ {k} : l0'[x] = l0[x]
      /\ k \notin mixed' => l0'[k] = None
  BY <1>2, <1>3 DEF RemoveL0, TypeOK
<1>5. mixed \subseteq mixed' /\ mixed' \subseteq Keys
  BY <1>2, <1>3 DEF TypeOK
<1>6. l1' \in [Keys -> Values \cup {None}] /\ \A x \in Keys : l1'[x] = l1[x]
  BY <1>1, <1>2 DEF TypeOK
<1>. QED  BY <1>1, <1>4, <1>5, <1>6, CallFollowed

\* Delete's second call: the key is not in L1, or the error puts it in mixed.
LEMMA DeleteL1KeepsIInv == ASSUME IInv, NEW c \in Clients, DeleteL1(c) PROVE IInv'
<1>. DEFINE k == op[c].key
<1>1. /\ op[c].kind = "delete" /\ op[c].at = "l1" /\ Busy(c) /\ Advance(c, "wal")
      /\ UNCHANGED <<l0, wal, promo, worker, warm, closing, version, latest>>
  BY DEF DeleteL1, Busy
<1>2. TypeOK /\ k \in Keys
  BY <1>1, CallSteps DEF IInv, Ops
<1>3. k \notin mixed => op[c].val = latest[k] /\ l0[k] \in {None, latest[k]}
  BY <1>1, <1>2 DEF IInv, TiersFollow, Mutating
<1>4. op[c].val = None
  BY <1>1 DEF IInv, CallShape
<1>5. \/ RemoveL1(k) /\ mixed' = mixed
      \/ l1' = l1 /\ mixed' = mixed \cup {k}
  BY DEF DeleteL1, RefuseL1
<1>6. /\ l1' \in [Keys -> Values \cup {None}]
      /\ \A x \in Keys \ {k} : l1'[x] = l1[x]
      /\ k \notin mixed' => l1'[k] = latest[k]
  BY <1>2, <1>3, <1>4, <1>5 DEF RemoveL1, TypeOK
<1>7. mixed \subseteq mixed' /\ mixed' \subseteq Keys
  BY <1>2, <1>5 DEF TypeOK
<1>8. l0' \in [Keys -> Values \cup {None}] /\ \A x \in Keys : l0'[x] = l0[x]
  BY <1>1, <1>2 DEF TypeOK
<1>9. k \notin mixed' => l0'[k] \in {None, latest[k]}
  BY <1>1, <1>3, <1>7
<1>. QED  BY <1>1, <1>6, <1>7, <1>8, <1>9, CallFollowed

\* A call returns.  If its key is not in mixed the tiers have come to agree
\* on it.
LEMMA CallReturned ==
    ASSUME IInv, NEW c \in Clients, Busy(c), Return(c),
           mixed \subseteq mixed', mixed' \subseteq Keys,
           l1' \in [Keys -> Values \cup {None}], wal' \in [Keys -> Values \cup {None}],
           \A x \in Keys \ mixed' : l1'[x] = l1[x],
           \A x \in Keys \ mixed' : wal'[x] = wal[x] \/ x = op[c].key,
           op[c].kind = "get" => UNCHANGED wal,
           (op[c].kind # "get" /\ op[c].key \notin mixed') =>
               op[c].at = "wal" /\ (UseWAL => wal'[op[c].key] = latest[op[c].key]),
           UNCHANGED <<l0, promo, worker, warm, closing, version, latest>>
    PROVE  IInv'
<1>. DEFINE k == op[c].key
<1>1. TypeOK /\ op[c] \in Ops /\ k \in Keys
  BY CallSteps DEF IInv, Ops
<1>2. /\ op' \in [Clients -> Ops \cup {Idle}] /\ \A d \in Clients \ {c} : op'[d] = op[d]
      /\ op'[c] = Idle
  BY <1>1, CallSteps
<1>3. TypeOK'
  BY <1>1, <1>2 DEF TypeOK
<1>4. CallShape' /\ OneMutator' /\ CopiesAreLatest'
  BY <1>1, <1>2, CallGoesOn
<1>5. \A d \in Clients, x \in Keys : Mutating(d, x)' <=> d # c /\ Mutating(d, x)
  BY <1>2 DEF Mutating, Busy, Idle
<1>6. TiersFollow'
  BY <1>2, <1>5 DEF IInv, TiersFollow
<1>7. TiersAgree'
  <2>. SUFFICES ASSUME NEW x \in Keys \ mixed', ~Mutated(x)'
                PROVE  l0[x] \in {None, latest[x]} /\ l1[x] = latest[x] /\ (UseWAL => wal'[x] = latest[x])
    BY DEF TiersAgree
  <2>1. x \in Keys \ mixed
    OBVIOUS
  <2>2. CASE Mutating(c, x)
    <3>1. x = k /\ op[c].kind # "get"
      BY <2>2 DEF Mutating
    <3>. QED  BY <2>1, <2>2, <3>1 DEF IInv, TiersFollow
  <2>3. CASE ~Mutating(c, x)
    <3>1. ~Mutated(x)
      BY <1>5, <2>3 DEF Mutated
    <3>2. wal'[x] = wal[x]
      BY <2>3 DEF Mutating
    <3>. QED  BY <2>1, <3>1, <3>2 DEF IInv, TiersAgree
  <2>. QED  BY <2>2, <2>3
<1>. QED  BY <1>3, <1>4, <1>6, <1>7 DEF IInv

\* SetToL1 writes L1 and returns; its key is in mixed, whatever L1 said.
LEMMA SetToL1KeepsIInv == ASSUME IInv, NEW c \in Clients, SetToL1(c) PROVE IInv'
<1>1. /\ op[c].kind = "setToL1" /\ Busy(c) /\ Return(c)
      /\ UNCHANGED <<l0, wal, promo, worker, warm, closing, version, latest, mixed>>
  BY DEF SetToL1, Busy
<1>2. TypeOK /\ op[c].key \in Keys /\ op[c].val \in Values \cup {None} /\ op[c].key \in mixed
  BY <1>1, CallSteps DEF IInv, Ops, CallShape
<1>3. l1' \in [Keys -> Values \cup {None}] /\ \A x \in Keys \ mixed : l1'[x] = l1[x]
  BY <1>2 DEF SetToL1, StoreL1, RefuseL1, TypeOK
<1>. QED  BY <1>1, <1>2, <1>3, CallReturned DEF TypeOK

\* The end of Set and Delete: the log has the result, if there is a log.
LEMMA LogKeepsIInv == ASSUME IInv, NEW c \in Clients, Log(c) PROVE IInv'
<1>. DEFINE k == op[c].key
<1>1. /\ op[c].at = "wal" /\ Busy(c) /\ Return(c) /\ op[c].kind # "get"
      /\ UNCHANGED <<l0, l1, promo, worker, warm, closing, version, latest>>
  BY DEF Log, IInv, CallShape
<1>2. TypeOK /\ k \in Keys /\ op[c].val \in Values \cup {None}
  BY <1>1, CallSteps DEF IInv, Ops
<1>3. k \notin mixed => op[c].val = latest[k]
  BY <1>1, <1>2 DEF IInv, TiersFollow, Mutating
<1>4. \/ UseWAL /\ wal' = [wal EXCEPT ![k] = op[c].val] /\ mixed' = mixed
      \/ wal' = wal /\ mixed' = mixed \cup {k}
      \/ ~UseWAL /\ wal' = wal /\ mixed' = mixed
  BY DEF Log
<1>5. wal' \in [Keys -> Values \cup {None}] /\ \A x \in Keys \ {k} : wal'[x] = wal[x]
  BY <1>2, <1>4 DEF TypeOK
<1>6. k \notin mixed' => (UseWAL => wal'[k] = latest[k])
  BY <1>2, <1>3, <1>4 DEF TypeOK
<1>7. mixed \subseteq mixed' /\ mixed' \subseteq Keys
  BY <1>2, <1>4 DEF TypeOK
<1>. QED  BY <1>1, <1>2, <1>5, <1>6, <1>7, CallReturned DEF TypeOK

\* A Get asks L0, and returns or goes on to L1.
LEMMA GetL0KeepsIInv == ASSUME IInv, NEW c \in Clients, GetL0(c) PROVE IInv'
<1>1. /\ op[c].kind = "get" /\ op[c].at = "l0" /\ Busy(c)
      /\ UNCHANGED <<l0, l1, wal, promo, worker, warm, closing, version, latest, mixed>>
  BY DEF GetL0, Busy
<1>2. CASE Return(c)
  BY <1>1, <1>2, CallReturned DEF IInv, TypeOK
<1>3. CASE Advance(c, "l1")
  <2>1. /\ op' \in [Clients -> Ops \cup {Idle}] /\ \A d \in Clients \ {c} : op'[d] = op[d]
        /\ op'[c].kind = "get" /\ op'[c].key = op[c].key /\ op'[c].val = op[c].val /\ op'[c].at = "l1"
    BY <1>1, <1>3, CallSteps DEF IInv
  <2>2. CallShape' /\ OneMutator' /\ CopiesAreLatest'
    BY <1>1, <2>1, CallGoesOn
  <2>3. \A d \in Clients, x \in Keys : (Mutating(d, x)' <=> Mutating(d, x)) /\ (Mutating(d, x) => d # c)
    BY <1>1, <2>1 DEF Mutating, Busy
  <2>4. TypeOK'
    BY <1>1, <2>1 DEF IInv, TypeOK
  <2>5. TiersFollow' /\ TiersAgree'
    BY <1>1, <2>1, <2>3 DEF IInv, TiersFollow, TiersAgree, Mutated
  <2>. QED  BY <2>2, <2>4, <2>5 DEF IInv
<1>. QED  BY <1>2, <1>3 DEF GetL0
\* A Get returns, and an L1 hit leaves a copy for a promotion goroutine.
LEMMA GetL1KeepsIInv == ASSUME IInv, NEW c \in Clients, GetL1(c) PROVE IInv'
<1>. DEFINE k == op[c].key
<1>1. /\ op[c].kind = "get" /\ op[c].at = "l1" /\ Busy(c) /\ Return(c)
      /\ UNCHANGED <<l0, l1, wal, worker, warm, closing, version, latest>>
  BY DEF GetL1, Busy
<1>2. TypeOK /\ k \in Keys
  BY <1>1, CallSteps DEF IInv, Ops
<1>3. CASE UNCHANGED <<promo, mixed>>
  BY <1>1, <1>2, <1>3, CallReturned DEF TypeOK
<1>4. ASSUME NEW s \in PromoSlots, HitL1(k), CopyTaken({k}), promo[s] = None,
             promo' = [promo EXCEPT ![s] = [key |-> k, val |-> l1[k]]]
      PROVE  IInv'
  <2>. DEFINE m == [key |-> k, val |-> l1[k]]
  <2>1. m \in Copy /\ l1[k] # None
    BY <1>2, <1>4 DEF HitL1, TypeOK, Copy
  <2>2. Copies' \subseteq Copies \cup {m}
    BY <1>1, <1>2, <1>4 DEF Copies, PromoCopies, TierCopies, TypeOK
  <2>3. op' \in [Clients -> Ops \cup {Idle}] /\ op'[c] = Idle /\ \A d \in Clients \ {c} : op'[d] = op[d]
    BY <1>1, <1>2, CallSteps
  <2>4. mixed' \subseteq Keys /\ mixed \subseteq mixed'
    BY <1>2, <1>4 DEF CopyTaken, TypeOK
  <2>5. TypeOK'
    BY <1>1, <1>2, <1>4, <2>1, <2>3, <2>4 DEF TypeOK
  <2>6. \A d \in Clients, x \in Keys : (Mutating(d, x)' <=> Mutating(d, x)) /\ (Mutating(d, x) => d # c)
    BY <1>1, <2>3 DEF Mutating, Busy, Idle
  <2>7. OneMutator' /\ CopiesAreLatest'
    BY <1>1, <1>2, <1>4, <2>1, <2>2, <2>6, CopiesTaken
  <2>8. CallShape'
    BY <2>3, <2>4 DEF IInv, CallShape, Idle
  <2>9. TiersFollow' /\ TiersAgree'
    BY <1>1, <2>3, <2>4, <2>6 DEF IInv, TiersFollow, TiersAgree, Mutated
  <2>. QED  BY <2>5, <2>7, <2>8, <2>9 DEF IInv
<1>. QED  BY <1>3, <1>4 DEF GetL1

-----------------------------------------------------------------------------
(* Copies are carried. *)

\* Every copy has a key and a value.
LEMMA CopiesType == TypeOK => Copies \subseteq Copy
BY DEF TypeOK, Copies, PromoCopies, TierCopies

\* A promotion goroutine stores its copy in L0.
LEMMA PromoteKeepsIInv == ASSUME IInv, NEW s \in PromoSlots, Promote(s) PROVE IInv'
<1>. DEFINE m == promo[s]
<1>1. m # None /\ promo' = [promo EXCEPT ![s] = None]
      /\ UNCHANGED <<l1, wal, op, worker, warm, closing, version, latest, mixed>>
  BY DEF Promote
<1>2. TypeOK /\ m \in Copies /\ m \in Copy
  BY <1>1 DEF IInv, TypeOK, Copies, PromoCopies
<1>3. Copies' \subseteq Copies
  BY <1>1, <1>2 DEF Copies, PromoCopies, TierCopies, TypeOK
<1>4. /\ l0' \in [Keys -> Values \cup {None}]
      /\ \A k \in Keys : l0'[k] \in {None, l0[k]} \/ (k = m.key /\ l0'[k] = m.val)
  <2>1. CASE L0Open
    BY <1>2, <2>1, StoredInL0 DEF Promote, Copy
  <2>2. CASE ~L0Open
    BY <1>2, <2>2 DEF Promote, TypeOK
  <2>. QED  BY <2>1, <2>2
<1>5. TypeOK'
  BY <1>1, <1>2, <1>4 DEF TypeOK
<1>6. CallShape' /\ OneMutator' /\ CopiesAreLatest' /\ TiersFollow' /\ TiersAgree'
  BY <1>1, <1>2, <1>3, <1>4, CopyStored DEF Copy
<1>. QED  BY <1>5, <1>6 DEF IInv

\* The tiering worker collects its batch from L0.
LEMMA TierCollectKeepsIInv == ASSUME IInv, NEW ks \in SUBSET Keys, TierCollect(ks) PROVE IInv'
<1>. DEFINE new == {[key |-> k, val |-> l0[k]] : k \in ks}
<1>1. /\ \A k \in ks : l0[k] # None
      /\ worker' = [at |-> "copy", batch |-> new, copy |-> None]
      /\ CopyTaken(ks)
      /\ UNCHANGED <<l0, l1, wal, op, promo, warm, closing, version, latest>>
  BY DEF TierCollect
<1>2. TypeOK /\ new \subseteq Copy
  BY <1>1 DEF IInv, TypeOK, Copy
<1>3. mixed' \subseteq Keys /\ mixed \subseteq mixed'
  BY <1>1, <1>2 DEF CopyTaken, TypeOK
<1>4. TypeOK'
  BY <1>1, <1>2, <1>3 DEF TypeOK
<1>5. \A m \in Copies' \ Copies : m \in new
  BY <1>1 DEF Copies, PromoCopies, TierCopies
<1>6. \A d \in Clients, x \in Keys : Mutating(d, x)' <=> Mutating(d, x)
  BY <1>1 DEF Mutating, Busy
<1>7. OneMutator' /\ CopiesAreLatest'
  BY <1>1, <1>5, <1>6, CopiesTaken
<1>8. CallShape'
  BY <1>1, <1>3 DEF IInv, CallShape
<1>9. TiersFollow' /\ TiersAgree'
  BY <1>1, <1>3, <1>6 DEF IInv, TiersFollow, TiersAgree, Mutated
<1>. QED  BY <1>4, <1>7, <1>8, <1>9 DEF IInv

\* The worker stores one entry of its batch in L1, or L1 refuses it.
LEMMA TierCopyKeepsIInv == ASSUME IInv, NEW m \in worker.batch, TierCopy(m) PROVE IInv'
<1>1. /\ worker' \in [at : {"idle", "copy", "verify", "demote"}, batch : {worker.batch \ {m}}, copy : {None, m}]
      /\ UNCHANGED <<l0, wal, op, promo, warm, closing, version, latest, mixed>>
  BY DEF TierCopy, NextEntry
<1>2. TypeOK /\ m \in Copies /\ m \in Copy
  BY DEF IInv, TypeOK, Copies, TierCopies
<1>3. Copies' \subseteq Copies
  BY <1>1, <1>2 DEF Copies, PromoCopies, TierCopies
<1>4. /\ l1' \in [Keys -> Values \cup {None}]
      /\ \A k \in Keys : l1'[k] = l1[k] \/ (k = m.key /\ l1'[k] = m.val)
  BY <1>2 DEF TierCopy, StoreL1, RefuseL1, TypeOK, Copy
<1>5. TypeOK'
  BY <1>1, <1>2, <1>4 DEF TypeOK
<1>6. CallShape' /\ OneMutator' /\ CopiesAreLatest' /\ TiersFollow' /\ TiersAgree'
  BY <1>1, <1>2, <1>3, <1>4, CopyStored DEF Copy
<1>. QED  BY <1>5, <1>6 DEF IInv

\* A step that takes at most an entry of L0 and drops copies.
LEMMA OnlyLoses ==
    ASSUME IInv, TypeOK', Copies' \subseteq Copies,
           \A k \in Keys : l0'[k] \in {None, l0[k]},
           UNCHANGED <<l1, wal, op, latest, mixed>>
    PROVE  IInv'
<1>1. \A c \in Clients, k \in Keys : Mutating(c, k)' <=> Mutating(c, k)
  BY DEF Mutating, Busy
<1>2. \A k \in Keys : Carried(k)' => Carried(k)
  BY DEF Carried, Copies
<1>3. CallShape' /\ CopiesAreLatest'
  BY DEF IInv, CallShape, CopiesAreLatest
<1>4. OneMutator'
  BY <1>1, <1>2 DEF IInv, OneMutator, Mutated
<1>5. TiersFollow' /\ TiersAgree'
  BY <1>1 DEF IInv, TiersFollow, TiersAgree, Mutated
<1>. QED  BY <1>3, <1>4, <1>5 DEF IInv

\* The worker looks the key up in L1.
LEMMA TierVerifyKeepsIInv == ASSUME IInv, TierVerify PROVE IInv'
<1>1. /\ worker' \in [at : {"idle", "copy", "demote"}, batch : {worker.batch}, copy : {None, worker.copy}]
      /\ UNCHANGED <<l0, l1, wal, op, promo, warm, closing, version, latest, mixed>>
  BY DEF TierVerify, NextEntry, IInv, TypeOK
<1>2. Copies' \subseteq Copies
  BY <1>1 DEF Copies, PromoCopies, TierCopies
<1>3. TypeOK'
  BY <1>1 DEF IInv, TypeOK
<1>. QED  BY <1>1, <1>2, <1>3, OnlyLoses DEF IInv, TypeOK

\* The worker demotes the key, whatever L0 holds for it.
LEMMA TierDemoteKeepsIInv == ASSUME IInv, TierDemote PROVE IInv'
<1>1. /\ worker' \in [at : {"idle", "copy"}, batch : {worker.batch}, copy : {None}]
      /\ UNCHANGED <<l1, wal, op, promo, warm, closing, version, latest, mixed>>
  BY DEF TierDemote, NextEntry, IInv, TypeOK
<1>2. Copies' \subseteq Copies
  BY <1>1 DEF Copies, PromoCopies, TierCopies
<1>3. l0' \in [Keys -> Values \cup {None}] /\ \A k \in Keys : l0'[k] \in {None, l0[k]}
  BY DEF TierDemote, RemoveL0, IInv, TypeOK
<1>4. TypeOK'
  BY <1>1, <1>3 DEF IInv, TypeOK
<1>. QED  BY <1>1, <1>2, <1>3, <1>4, OnlyLoses

\* Pre-warming reads the entries of a shard of L1.
LEMMA WarmReadKeepsIInv == ASSUME IInv, NEW ks \in SUBSET Keys, WarmRead(ks) PROVE IInv'
<1>. DEFINE new == {[key |-> k, val |-> l1[k]] : k \in {k \in ks : HitL1(k)}}
<1>1. /\ warm' = [left |-> warm.left \ ks, copies |-> warm.copies \cup new]
      /\ CopyTaken(ks)
      /\ UNCHANGED <<l0, l1, wal, op, promo, worker, closing, version, latest>>
  BY DEF WarmRead
<1>2. TypeOK /\ new \subseteq Copy /\ \A m \in new : m.key \in ks /\ m.val = l1[m.key] /\ m.val # None
  BY DEF IInv, TypeOK, Copy, HitL1
<1>3. mixed' \subseteq Keys /\ mixed \subseteq mixed'
  BY <1>1, <1>2 DEF CopyTaken, TypeOK
<1>4. TypeOK'
  BY <1>1, <1>2, <1>3 DEF TypeOK
<1>5. \A m \in Copies' \ Copies : m \in new
  BY <1>1 DEF Copies, PromoCopies, TierCopies
<1>6. \A d \in Clients, x \in Keys : Mutating(d, x)' <=> Mutating(d, x)
  BY <1>1 DEF Mutating, Busy
<1>7. OneMutator' /\ CopiesAreLatest'
  BY <1>1, <1>2, <1>5, <1>6, CopiesTaken
<1>8. CallShape'
  BY <1>1, <1>3 DEF IInv, CallShape
<1>9. TiersFollow' /\ TiersAgree'
  BY <1>1, <1>3, <1>6 DEF IInv, TiersFollow, TiersAgree, Mutated
<1>. QED  BY <1>4, <1>7, <1>8, <1>9 DEF IInv

\* A pre-warm worker stores its copy in L0 or gives it up.
LEMMA WarmStoreKeepsIInv == ASSUME IInv, NEW m \in warm.copies, WarmStore(m) PROVE IInv'
<1>1. /\ warm' = [warm EXCEPT !.copies = warm.copies \ {m}]
      /\ UNCHANGED <<l1, wal, op, promo, worker, closing, version, latest, mixed>>
  BY DEF WarmStore
<1>2. TypeOK /\ m \in Copies /\ m \in Copy
  BY DEF IInv, TypeOK, Copies
<1>3. Copies' \subseteq Copies
  BY <1>1, <1>2 DEF Copies, PromoCopies, TierCopies, TypeOK
<1>4. /\ l0' \in [Keys -> Values \cup {None}]
      /\ \A k \in Keys : l0'[k] \in {None, l0[k]} \/ (k = m.key /\ l0'[k] = m.val)
  <2>1. CASE StoreL0(m.key, m.val)
    BY <1>2, <2>1, StoredInL0 DEF Copy
  <2>2. CASE UNCHANGED l0
    BY <1>2, <2>2 DEF TypeOK
  <2>. QED  BY <2>1, <2>2 DEF WarmStore
<1>5. TypeOK'
  BY <1>1, <1>2, <1>4 DEF TypeOK
<1>6. CallShape' /\ OneMutator' /\ CopiesAreLatest' /\ TiersFollow' /\ TiersAgree'
  BY <1>1, <1>2, <1>3, <1>4, CopyStored DEF Copy
<1>. QED  BY <1>5, <1>6 DEF IInv

\* Close shuts the next tier, or nothing happens.
LEMMA CloseKeepsIInv == ASSUME IInv, Close \/ UNCHANGED vars PROVE IInv'
<1>1. UNCHANGED <<l0, l1, wal, op, promo, worker, warm, version, latest, mixed>>
      /\ closing' \in {"open", "flagged", "l0closed", "l1closed", "done"}
  BY DEF Close, ClosingSteps, vars, IInv, TypeOK
<1>2. Copies' = Copies
  BY <1>1 DEF Copies, PromoCopies, TierCopies
<1>3. TypeOK'
  BY <1>1 DEF IInv, TypeOK
<1>. QED  BY <1>1, <1>2, <1>3, OnlyLoses

-----------------------------------------------------------------------------
\* Every step of the cache keeps the invariant.
LEMMA NextIInv == IInv /\ [Next]_vars => IInv'
<1>. SUFFICES ASSUME IInv, [Next]_vars PROVE IInv'
  OBVIOUS
<1>1. ASSUME NEW c \in Clients, NEW k \in Keys,
             BeginSet(c, k) \/ BeginDelete(c, k) \/ BeginSetToL1(c, k) \/ BeginGet(c, k)
      PROVE  IInv'
  BY <1>1, BeginKeepsIInv, BeginGetKeepsIInv
<1>2. ASSUME NEW c \in Clients,
             SetL0(c) \/ SetL1(c) \/ SetToL1(c) \/ DeleteL0(c) \/ DeleteL1(c) \/ Log(c)
      PROVE  IInv'
  BY <1>2, SetL0KeepsIInv, SetL1KeepsIInv, SetToL1KeepsIInv, DeleteL0KeepsIInv, DeleteL1KeepsIInv, LogKeepsIInv
<1>3. ASSUME NEW c \in Clients, GetL0(c) \/ GetL1(c) PROVE IInv'
  BY <1>3, GetL0KeepsIInv, GetL1KeepsIInv
<1>4. ASSUME \E s \in PromoSlots : Promote(s) PROVE IInv'
  BY <1>4, PromoteKeepsIInv
<1>5. ASSUME (\E ks \in SUBSET Keys : TierCollect(ks)) \/ (\E m \in worker.batch : TierCopy(m))
      PROVE  IInv'
  BY <1>5, TierCollectKeepsIInv, TierCopyKeepsIInv
<1>6. ASSUME TierVerify \/ TierDemote PROVE IInv'
  BY <1>6, TierVerifyKeepsIInv, TierDemoteKeepsIInv
<1>7. ASSUME (\E ks \in SUBSET Keys : WarmRead(ks)) \/ (\E m \in warm.copies : WarmStore(m))
      PROVE  IInv'
  BY <1>7, WarmReadKeepsIInv, WarmStoreKeepsIInv
<1>8. ASSUME Close \/ UNCHANGED vars PROVE IInv'
  BY <1>8, CloseKeepsIInv
<1>. QED  BY <1>1, <1>2, <1>3, <1>4, <1>5, <1>6, <1>7, <1>8 DEF Next

\* The inductive invariant holds at all times.
THEOREM Invariant == Spec => []IInv
BY InitIInv, NextIInv, PTL DEF Spec

\* Tiers, log, calls and copies keep their types.
THEOREM TypeCorrect == Spec => []TypeOK
<1>1. IInv => TypeOK
  BY DEF IInv
<1>. QED  BY <1>1, Invariant, PTL

\* Whatever calls, promotions, tiering and pre-warming do around it, and
\* however far Close has come, the tiers agree on a key whose last Set or
\* Delete met no other change, no older copy and no failing tier.
THEOREM TiersStayInAgreement == Spec => []TiersAgree
<1>1. IInv => TiersAgree
  BY DEF IInv
<1>. QED  BY <1>1, Invariant, PTL
=============================================================================
