--------------------------- MODULE PreWarmProofs ---------------------------
(* Proofs about pre-warming, for every number of shards and keys, every    *)
(* pool of workers and batch size, and any changes of L1 meanwhile.        *)
EXTENDS PreWarm, FiniteSetTheorems, WellFoundedInduction, TLAPS

\* What TypeOK leaves open: the store, the iterator and the histories.
Iter == [at : {"init", "on", "closed"}, shard : Nat \ {0}, cur : Nat, entry : Entry \cup {NoEntry},
         left : SUBSET Entry]
Shape ==
    /\ TypeOK
    /\ db \in [Keys -> Nat] /\ open \subseteq Shards
    /\ iter \in Iter
    /\ version \in Nat \ {0} /\ touched \subseteq Keys /\ cut \in BOOLEAN
    /\ IsFiniteSet(read) /\ IsFiniteSet(loaded) /\ IsFiniteSet(rejected)

\* The goroutines: who has an entry in hand, and who may have ended.
GoroutinesFollow ==
    /\ \A w \in Workers : doing[w] # NoEntry <=> at[w] = "store"
    /\ \A w \in Workers : at[w] = "ended" => entryChan = <<>> /\ chanClosed = TRUE
    /\ chanClosed = TRUE <=> producer \in {"wait", "done"}
    /\ producer \in {"wait", "done"} => batch = <<>>
    /\ producer = "done" => \A w \in Workers : at[w] = "ended"
    /\ producer \in {"next", "body"} => Len(batch) < BatchSize

\* Where the iterator stands: on an entry of its shard, before the others of
\* the transaction.
IteratorOn ==
    /\ producer # "done" => iter.at # "closed"
    /\ producer = "body" => iter.at = "on"
    /\ iter.at = "on" =>
          /\ iter.shard \in Shards /\ iter.entry \in Entry
          /\ \A e \in iter.left \cup {iter.entry} : getShard(e.key) = iter.shard
          /\ \A e \in iter.left : iter.entry.key < e.key
          /\ \A e, f \in iter.left : e.key = f.key => e = f

\* What has been read lies behind the iterator, one entry to a key.
ReadBehind ==
    /\ \A e, f \in read : e.key = f.key => e = f
    /\ iter.at # "closed" => \A e \in read :
          \/ getShard(e.key) < iter.shard
          \/ /\ iter.at = "on" /\ getShard(e.key) = iter.shard
             /\ e.key <= iter.entry.key
             /\ producer = "body" => e.key < iter.entry.key

\* It is, or will be, what L1 holds, unless a client changed that.
Current(e) == e.key \notin touched => db[e.key] = e.val
ReadIsCurrent ==
    /\ \A e \in read : e.key \notin Unreadable /\ Current(e)
    /\ iter.at = "on" => \A e \in iter.left \cup {iter.entry} : Current(e)

\* Nothing readable behind the iterator has been left out.
Wanted == {k \in Keys \ (touched \cup Unreadable) : db[k] # Absent}
EntryOf(k) == [key |-> k, val |-> db[k]]
ReadIsComplete ==
    ~cut =>
      /\ producer \in {"sendRest", "wait", "done"} => iter.shard > NumShards
      /\ \A k \in Wanted :
          /\ getShard(k) < iter.shard => EntryOf(k) \in read
          /\ (iter.at = "on" /\ getShard(k) = iter.shard) =>
                \/ EntryOf(k) \in read \cup iter.left
                \/ producer = "body" /\ EntryOf(k) = iter.entry

\* No entry is in two places.
OnePlace ==
    /\ IsInjective(batch) /\ IsInjective(entryChan)
    /\ \A v, w \in Workers : doing[v] # NoEntry /\ doing[v] = doing[w] => v = w
    /\ Range(batch) \cap Range(entryChan) = {}
    /\ InHands \cap (Range(batch) \cup Range(entryChan)) = {}
    /\ (loaded \cup rejected) \cap (Range(batch) \cup Range(entryChan) \cup InHands) = {}
    /\ loaded \cap rejected = {}

IInv ==
    /\ Shape /\ GoroutinesFollow /\ IteratorOn /\ ReadBehind /\ ReadIsCurrent /\ ReadIsComplete
    /\ OnePlace /\ EachEntryOnce

-----------------------------------------------------------------------------
(* Operators. *)

\* getShard: every key has a shard.
LEMMA ShardOf == ASSUME NEW k \in Keys PROVE getShard(k) \in Shards
  BY StoreAssumption DEF Keys, Shards, getShard

\* What append and a send add.
LEMMA AppendRange ==
    ASSUME NEW S, NEW s \in Seq(S), NEW e \in S
    PROVE  /\ Append(s, e) \in Seq(S)
           /\ Len(Append(s, e)) = Len(s) + 1
           /\ Range(Append(s, e)) = Range(s) \cup {e}
           /\ IsInjective(s) /\ e \notin Range(s) => IsInjective(Append(s, e))
<1>. DEFINE t == Append(s, e)
<1>1. /\ t \in Seq(S) /\ Len(s) \in Nat /\ Len(t) = Len(s) + 1
      /\ DOMAIN s = 1 .. Len(s) /\ DOMAIN t = 1 .. Len(s) + 1
      /\ t[Len(s) + 1] = e /\ \A i \in 1 .. Len(s) : t[i] = s[i]
  OBVIOUS
<1>. HIDE DEF t
<1>2. Range(t) = Range(s) \cup {e}
  BY <1>1 DEF Range
<1>3. IsInjective(s) /\ e \notin Range(s) => IsInjective(t)
  BY <1>1 DEF Range, IsInjective
<1>. QED  BY <1>1, <1>2, <1>3 DEF t

\* What a receive takes.
LEMMA TailRange ==
    ASSUME NEW S, NEW s \in Seq(S), s # <<>>
    PROVE  /\ Tail(s) \in Seq(S) /\ Head(s) \in S
           /\ Len(Tail(s)) = Len(s) - 1 /\ Len(s) \in Nat \ {0}
           /\ Range(s) = Range(Tail(s)) \cup {Head(s)}
           /\ IsInjective(s) => IsInjective(Tail(s)) /\ Head(s) \notin Range(Tail(s))
<1>. DEFINE t == Tail(s)
            e == Head(s)
<1>1. /\ t \in Seq(S) /\ e \in S /\ Len(s) \in Nat \ {0} /\ Len(t) = Len(s) - 1
      /\ DOMAIN s = 1 .. Len(s) /\ DOMAIN t = 1 .. Len(s) - 1
      /\ e = s[1] /\ \A i \in 1 .. Len(s) - 1 : t[i] = s[i + 1]
  OBVIOUS
<1>. HIDE DEF t, e
<1>2. Range(s) = Range(t) \cup {e}
  <2>1. \A i \in DOMAIN s : i = 1 \/ i - 1 \in DOMAIN t
    BY <1>1
  <2>2. \A i \in DOMAIN t : i + 1 \in DOMAIN s /\ t[i] = s[i + 1]
    BY <1>1
  <2>3. \A i \in DOMAIN s : i = 1 \/ s[i] = t[i - 1]
    BY <1>1
  <2>4. 1 \in DOMAIN s
    BY <1>1
  <2>5. ASSUME NEW x \in Range(s) PROVE x \in Range(t) \cup {e}
    <3>1. PICK i \in DOMAIN s : x = s[i]
      BY DEF Range
    <3>. QED  BY <1>1, <2>1, <2>3, <3>1 DEF Range
  <2>6. ASSUME NEW x \in Range(t) \cup {e} PROVE x \in Range(s)
    BY <1>1, <2>2, <2>4 DEF Range
  <2>. QED  BY <2>5, <2>6
<1>3. ASSUME IsInjective(s) PROVE IsInjective(t) /\ e \notin Range(t)
  <2>1. \A i, j \in 1 .. Len(s) : s[i] = s[j] => i = j
    BY <1>1, <1>3 DEF IsInjective
  <2>2. \A i, j \in 1 .. Len(s) - 1 : t[i] = t[j] => i = j
    BY <1>1, <2>1
  <2>3. \A i \in 1 .. Len(s) - 1 : t[i] # e
    BY <1>1, <2>1
  <2>. QED  BY <1>1, <2>2, <2>3 DEF IsInjective, Range
<1>. QED  BY <1>1, <1>2, <1>3 DEF t, e

\* An iterator has a first entry to stand on.
LEMMA FirstEntry ==
    ASSUME NEW S \in SUBSET Entry, S # {}
    PROVE  \E x \in S : \A y \in S : x.key <= y.key
<1>. DEFINE T == {x.key : x \in S}
<1>1. \A x \in S : x.key \in Nat
  BY DEF Entry, Keys
<1>2. T \subseteq Nat /\ T # {}
  BY <1>1
<1>. HIDE DEF T
<1>3. PICK n \in T : \A m \in T : ~(<<m, n>> \in OpToRel(<, Nat))
  BY <1>2, NatLessThanWellFounded, WFMin
<1>4. \A m \in T : ~(m < n)
  BY <1>2, <1>3 DEF OpToRel
<1>5. \A m \in T : n <= m
  BY <1>2, <1>4
<1>. QED  BY <1>5 DEF T

\* MoveToFirst: the rest of the iterator stays as it was.
LEMMA Moved ==
    ASSUME NEW it \in Iter, NEW S \in SUBSET Entry, S # {}, NEW m, m = MoveToFirst(it, S)
    PROVE  /\ m \in Iter /\ m.at = "on" /\ m.shard = it.shard
           /\ m.entry \in S /\ m.left = S \ {m.entry}
           /\ \A y \in S : m.entry.key <= y.key
<1>. DEFINE e == CHOOSE x \in S : \A y \in S : x.key <= y.key
<1>1. e \in S /\ \A y \in S : e.key <= y.key
  BY FirstEntry
<1>. HIDE DEF e
<1>2. m = [it EXCEPT !.at = "on", !.entry = e, !.left = S \ {e}]
  BY DEF MoveToFirst, e
<1>3. m \in Iter /\ m.at = "on" /\ m.shard = it.shard /\ m.entry = e /\ m.left = S \ {e}
  BY <1>1, <1>2 DEF Iter
<1>. QED  BY <1>1, <1>3

-----------------------------------------------------------------------------
(* The start, and what a step leaves alone. *)

\* Pre-warming starts with nothing read.
LEMMA InitIInv == Init => IInv
<1>. SUFFICES ASSUME Init PROVE IInv
  OBVIOUS
<1>1. /\ iter = [at |-> "init", shard |-> 1, cur |-> 0, entry |-> NoEntry, left |-> {}]
      /\ iter.at = "init" /\ iter.shard = 1
  BY DEF Init, NewIterator
<1>2. batch = <<>> /\ entryChan = <<>> /\ read = {} /\ loaded = {} /\ rejected = {} /\ producer = "next"
  BY DEF Init
<1>3. \A w \in Workers : doing[w] = NoEntry /\ at[w] = "receive"
  BY DEF Init
<1>4. IsFiniteSet({}) /\ Cardinality({}) = 0
  BY FS_EmptySet
<1>5. BatchSize \in Nat \ {0} /\ Cardinality(Workers) \in Nat
  BY WorkersAssumption, FS_CardinalityType
<1>6. <<>> \in Seq(Entry) /\ Len(<<>>) = 0 /\ Range(<<>>) = {} /\ IsInjective(<<>>)
  BY DEF Range, IsInjective
<1>7. InHands = {} /\ {w \in Workers : doing[w] # NoEntry} = {}
  BY <1>3 DEF InHands
<1>8. Shape
  <2>1. iter \in Iter
    BY <1>1 DEF Iter
  <2>2. db \in [Keys -> Nat]
    BY DEF Init, Absent
  <2>3. TypeOK
    <3>1. doing \in [Workers -> Entry \cup {NoEntry}] /\ at \in [Workers -> {"receive", "store", "report", "ended"}]
      BY DEF Init
    <3>2. Len(batch) <= BatchSize /\ Len(entryChan) <= BatchSize /\ resultChan \in 0 .. ResultCap
      BY <1>2, <1>5, <1>6 DEF Init, ResultCap
    <3>. QED  BY <1>1, <1>2, <1>6, <3>1, <3>2 DEF Init, TypeOK
  <2>4. open = Shards /\ version \in Nat \ {0} /\ touched = {} /\ cut = FALSE
    BY DEF Init
  <2>. QED  BY <1>2, <1>4, <2>1, <2>2, <2>3, <2>4 DEF Shape
<1>9. GoroutinesFollow
  <2>1. Len(batch) < BatchSize
    BY <1>2, <1>5, <1>6
  <2>. QED  BY <1>2, <1>3, <2>1 DEF Init, GoroutinesFollow
<1>10. IteratorOn /\ ReadBehind /\ ReadIsCurrent
  BY <1>1, <1>2 DEF IteratorOn, ReadBehind, ReadIsCurrent
<1>11. ReadIsComplete
  <2>1. \A k \in Keys : ~(getShard(k) < iter.shard)
    BY <1>1, ShardOf, StoreAssumption DEF Shards
  <2>. QED  BY <1>1, <1>2, <2>1 DEF ReadIsComplete, Wanted
<1>12. OnePlace
  BY <1>2, <1>3, <1>6, <1>7 DEF OnePlace
<1>13. EachEntryOnce
  <2>1. read = Range(batch) \cup Range(entryChan) \cup InHands \cup loaded \cup rejected
    BY <1>2, <1>6, <1>7
  <2>2. /\ Cardinality(read) = 0 /\ Cardinality(loaded) = 0 /\ Cardinality(rejected) = 0
        /\ Cardinality({w \in Workers : doing[w] # NoEntry}) = 0
        /\ Len(batch) = 0 /\ Len(entryChan) = 0
    BY <1>2, <1>4, <1>6, <1>7
  <2>. QED  BY <2>1, <2>2 DEF EachEntryOnce
<1>. QED  BY <1>8, <1>9, <1>10, <1>11, <1>12, <1>13 DEF IInv

\* A step of the pool or of Close.
LEMMA IteratorUnmoved ==
    ASSUME IInv, UNCHANGED <<db, iter, read, touched, cut, producer>>
    PROVE  IteratorOn' /\ ReadBehind' /\ ReadIsCurrent' /\ ReadIsComplete'
<1>1. IteratorOn' /\ ReadBehind'
  BY DEF IInv, IteratorOn, ReadBehind
<1>2. ReadIsCurrent'
  BY DEF IInv, ReadIsCurrent, Current
<1>3. ReadIsComplete'
  BY DEF IInv, ReadIsComplete, Wanted, EntryOf
<1>. QED  BY <1>1, <1>2, <1>3

\* A step that hands no entry on.
LEMMA EntriesUnmoved ==
    ASSUME IInv, UNCHANGED <<batch, entryChan, doing, loaded, rejected, read>>
    PROVE  OnePlace' /\ EachEntryOnce'
<1>1. InHands' = InHands
  BY DEF InHands
<1>2. OnePlace'
  BY <1>1 DEF IInv, OnePlace
<1>3. EachEntryOnce'
  BY <1>1 DEF IInv, EachEntryOnce
<1>. QED  BY <1>2, <1>3

-----------------------------------------------------------------------------
(* The iterator moves. *)

\* A step of the iterator to an entry or to the next shard changes no more
\* than where it stands.
LEMMA TurnKeepsShape ==
    ASSUME IInv, iter' \in Iter, txns' \subseteq Shards, producer = "next", producer' \in {"next", "body"},
           UNCHANGED <<store, batch, entryChan, chanClosed, pool, l0Closed, version, read, cut, touched>>
    PROVE  Shape' /\ GoroutinesFollow' /\ OnePlace' /\ EachEntryOnce'
<1>1. /\ UNCHANGED <<db, open, batch, entryChan, chanClosed, doing, at, resultChan, loaded, rejected, l0Closed,
                     version, read, cut, touched>>
      /\ iter'.at \in {"init", "on", "closed"}
  BY DEF store, pool, Iter
<1>2. TypeOK'
  BY <1>1 DEF IInv, Shape, TypeOK
<1>3. Shape'
  BY <1>1, <1>2 DEF IInv, Shape
<1>4. GoroutinesFollow'
  BY <1>1 DEF IInv, GoroutinesFollow
<1>5. OnePlace' /\ EachEntryOnce'
  BY <1>1, EntriesUnmoved
<1>. QED  BY <1>3, <1>4, <1>5

\* A shard is done, or empty: the next one.
LEMMA NextTurnKeepsIInv == ASSUME IInv, NextTurn PROVE IInv'
<1>1. /\ producer = "next" /\ producer' = producer
      /\ UNCHANGED <<store, batch, entryChan, chanClosed, pool, l0Closed, version, read, cut, touched, db>>
      /\ txns' = txns
  BY DEF NextTurn, store, InitEmptyShard, LeaveShard
<1>2. iter \in Iter /\ iter.shard \in Nat \ {0} /\ txns \subseteq Shards
  BY DEF IInv, Shape, TypeOK, Iter
<1>3. /\ iter' \in Iter /\ iter'.at = "init" /\ iter'.shard = iter.shard + 1
      /\ iter.at \in {"init", "on"}
  <2>1. iter.shard + 1 \in Nat \ {0} /\ iter.shard \in Nat
    BY <1>2
  <2>2. CASE InitEmptyShard
    <3>1. iter' = [iter EXCEPT !.cur = iter.shard, !.shard = iter.shard + 1] /\ iter.at = "init"
      BY <2>2 DEF InitEmptyShard
    <3>. QED  BY ONLY <1>2, <2>1, <3>1 DEF Iter
  <2>3. CASE LeaveShard
    <3>1. iter' = [iter EXCEPT !.at = "init", !.shard = iter.shard + 1] /\ iter.at = "on"
      BY <2>3 DEF LeaveShard
    <3>. QED  BY ONLY <1>2, <2>1, <3>1 DEF Iter
  <2>. QED  BY <2>2, <2>3 DEF NextTurn
<1>4. Shape' /\ GoroutinesFollow' /\ OnePlace' /\ EachEntryOnce'
  BY <1>1, <1>2, <1>3, TurnKeepsShape
<1>5. IteratorOn'
  BY <1>1, <1>3 DEF IteratorOn
<1>6. \A e \in read : getShard(e.key) \in Nat
  BY ShardOf DEF IInv, Shape, TypeOK, Entry, Shards
<1>7. ReadBehind'
  BY <1>1, <1>2, <1>3, <1>6 DEF IInv, ReadBehind
<1>8. ReadIsCurrent'
  BY <1>1, <1>3 DEF IInv, ReadIsCurrent, Current
<1>9. ReadIsComplete'
  <2>1. SUFFICES ASSUME ~cut, NEW k \in Wanted, getShard(k) < iter.shard + 1 PROVE EntryOf(k) \in read
    BY <1>1, <1>3 DEF ReadIsComplete, Wanted, EntryOf
  <2>2. getShard(k) < iter.shard => EntryOf(k) \in read
    BY <2>1 DEF IInv, ReadIsComplete
  <2>3. getShard(k) \in Nat /\ k \in Keys
    BY ShardOf DEF Wanted, Shards
  <2>4. CASE getShard(k) = iter.shard
    <3>1. CASE InitEmptyShard
      <4>1. Contents(iter.shard) = {}
        BY <3>1 DEF InitEmptyShard
      <4>. QED  BY <2>3, <2>4, <4>1 DEF Contents, Wanted
    <3>2. CASE LeaveShard
      <4>1. iter.at = "on" /\ iter.left = {}
        BY <3>2 DEF LeaveShard
      <4>. QED  BY <1>1, <2>1, <2>4, <4>1 DEF IInv, ReadIsComplete
    <3>. QED  BY <3>1, <3>2 DEF NextTurn
  <2>. QED  BY <1>2, <2>1, <2>2, <2>3, <2>4
<1>. QED  BY <1>4, <1>5, <1>7, <1>8, <1>9 DEF IInv

\* The entries the iterator finds: those of a new transaction, or the rest of
\* the one it is in.  All that has been read lies before them.
Found(S) ==
    /\ S \in SUBSET Entry /\ S # {}
    /\ iter.shard \in Shards
    /\ \A e \in S : getShard(e.key) = iter.shard /\ Current(e)
    /\ \A e, f \in S : e.key = f.key => e = f
    /\ \A e \in read : \/ getShard(e.key) < iter.shard
                       \/ getShard(e.key) = iter.shard /\ \A f \in S : e.key < f.key
    /\ ~cut => \A k \in Wanted :
          /\ getShard(k) < iter.shard => EntryOf(k) \in read
          /\ getShard(k) = iter.shard => EntryOf(k) \in read \cup S
    /\ \E it \in Iter : it.shard = iter.shard /\ iter' = MoveToFirst(it, S)
    /\ txns' \subseteq Shards

\* A transaction on a shard sees what L1 holds there.
LEMMA InitShardFinds == ASSUME IInv, producer = "next", InitShard PROVE Found(Contents(iter.shard))
<1>. DEFINE S == Contents(iter.shard)
            it == [iter EXCEPT !.cur = iter.shard]
<1>1. /\ iter.at = "init" /\ iter.shard \in open /\ S # {}
      /\ iter' = MoveToFirst(it, S) /\ txns' = txns \cup {iter.shard}
  BY DEF InitShard
<1>2. db \in [Keys -> Nat] /\ iter \in Iter /\ iter.shard \in Shards /\ txns \subseteq Shards
  BY <1>1 DEF IInv, Shape, TypeOK
<1>3. \A e : e \in S <=> \E k \in Keys : getShard(k) = iter.shard /\ db[k] # Absent /\ e = EntryOf(k)
  BY DEF Contents, EntryOf
<1>4. it \in Iter /\ it.shard = iter.shard
  <2>1. iter.shard \in Nat
    BY <1>2 DEF Shards
  <2>. QED  BY ONLY <1>2, <2>1 DEF Iter
<1>. HIDE DEF S, it
<1>5. \A k \in Keys : db[k] # Absent => EntryOf(k) \in Entry /\ EntryOf(k).key = k /\ EntryOf(k).val = db[k]
  BY <1>2 DEF EntryOf, Entry, Absent
<1>6. S \in SUBSET Entry
  BY <1>3, <1>5
<1>7. \A e \in S : getShard(e.key) = iter.shard /\ Current(e)
  BY <1>3, <1>5 DEF Current
<1>8. \A e, f \in S : e.key = f.key => e = f
  BY <1>3, <1>5
<1>9. \A e \in read : getShard(e.key) < iter.shard
  BY <1>1 DEF IInv, ReadBehind
<1>10. ASSUME ~cut, NEW k \in Wanted
       PROVE  /\ getShard(k) < iter.shard => EntryOf(k) \in read
              /\ getShard(k) = iter.shard => EntryOf(k) \in read \cup S
  BY <1>3, <1>10 DEF IInv, ReadIsComplete, Wanted
<1>11. txns' \subseteq Shards
  BY <1>1, <1>2
<1>. QED  BY <1>1, <1>2, <1>4, <1>6, <1>7, <1>8, <1>9, <1>10, <1>11 DEF Found, S

\* So does the rest of it.
LEMMA NextInShardFinds == ASSUME IInv, producer = "next", NextInShard PROVE Found(iter.left)
<1>1. iter.at = "on" /\ iter.left # {} /\ iter' = MoveToFirst(iter, iter.left) /\ txns' = txns
  BY DEF NextInShard
<1>2. iter \in Iter /\ iter.left \in SUBSET Entry /\ txns \subseteq Shards
  BY DEF IInv, Shape, TypeOK, Iter
<1>3. /\ iter.shard \in Shards /\ iter.entry \in Entry
      /\ \A e \in iter.left : getShard(e.key) = iter.shard /\ iter.entry.key < e.key
      /\ \A e, f \in iter.left : e.key = f.key => e = f
  BY <1>1 DEF IInv, IteratorOn
<1>4. \A e \in iter.left : Current(e)
  BY <1>1 DEF IInv, ReadIsCurrent
<1>5. \A e \in Entry : e.key \in Int
  BY DEF Entry, Keys
<1>6. ASSUME NEW e \in read, ~(getShard(e.key) < iter.shard)
      PROVE  getShard(e.key) = iter.shard /\ \A f \in iter.left : e.key < f.key
  <2>1. getShard(e.key) = iter.shard /\ e.key <= iter.entry.key
    BY <1>1, <1>6 DEF IInv, ReadBehind
  <2>2. e.key \in Int /\ iter.entry.key \in Int
    BY <1>3, <1>5 DEF IInv, Shape, TypeOK
  <2>. QED  BY <1>2, <1>3, <1>5, <2>1, <2>2
<1>7. ASSUME ~cut, NEW k \in Wanted
      PROVE  /\ getShard(k) < iter.shard => EntryOf(k) \in read
             /\ getShard(k) = iter.shard => EntryOf(k) \in read \cup iter.left
  BY <1>1, <1>7 DEF IInv, ReadIsComplete
<1>. QED  BY <1>1, <1>2, <1>3, <1>4, <1>6, <1>7 DEF Found

\* The iterator goes to the first of them.
LEMMA NextEntryKeepsIInv == ASSUME IInv, NextEntry PROVE IInv'
<1>1. /\ producer = "next" /\ producer' = "body"
      /\ UNCHANGED <<store, batch, entryChan, chanClosed, pool, l0Closed, version, read, cut, touched, db>>
  BY DEF NextEntry, store
<1>2. PICK S : Found(S)
  BY <1>1, InitShardFinds, NextInShardFinds DEF NextEntry
<1>3. /\ iter' \in Iter /\ iter'.at = "on" /\ iter'.shard = iter.shard
      /\ iter'.entry \in S /\ iter'.left = S \ {iter'.entry}
      /\ \A y \in S : iter'.entry.key <= y.key
  BY <1>2, Moved DEF Found
<1>4. \A y \in S : y \in Entry /\ y.key \in Int
  BY <1>2 DEF Found, Entry, Keys
<1>5. Shape' /\ GoroutinesFollow' /\ OnePlace' /\ EachEntryOnce'
  BY <1>1, <1>2, <1>3, TurnKeepsShape DEF Found
<1>6. IteratorOn'
  <2>1. \A e \in S : getShard(e.key) = iter.shard
    BY <1>2 DEF Found
  <2>2. \A e, f \in S : e.key = f.key => e = f
    BY <1>2 DEF Found
  <2>3. \A e \in iter'.left : iter'.entry.key < e.key
    BY <1>3, <1>4, <2>2
  <2>4. iter'.shard \in Shards
    BY <1>2, <1>3 DEF Found
  <2>. QED  BY <1>1, <1>3, <1>4, <2>1, <2>2, <2>3, <2>4 DEF IteratorOn
<1>7. ReadBehind'
  <2>1. ASSUME NEW e \in read, ~(getShard(e.key) < iter.shard)
        PROVE  getShard(e.key) = iter.shard /\ e.key < iter'.entry.key
    BY <1>2, <1>3, <2>1 DEF Found
  <2>2. \A e \in read : e.key \in Int
    BY DEF IInv, Shape, TypeOK, Entry, Keys
  <2>3. iter'.entry.key \in Int
    BY <1>3, <1>4
  <2>. QED  BY <1>1, <1>3, <2>1, <2>2, <2>3 DEF IInv, ReadBehind
<1>8. ReadIsCurrent'
  <2>1. \A e \in S : Current(e)
    BY <1>2 DEF Found
  <2>. QED  BY <1>1, <1>3, <2>1 DEF IInv, ReadIsCurrent, Current
<1>9. ReadIsComplete'
  <2>1. SUFFICES ASSUME ~cut, NEW k \in Wanted
                 PROVE  /\ getShard(k) < iter.shard => EntryOf(k) \in read
                        /\ getShard(k) = iter.shard => EntryOf(k) \in read \cup iter'.left \cup {iter'.entry}
    BY <1>1, <1>3 DEF ReadIsComplete, Wanted, EntryOf
  <2>. QED  BY <1>2, <1>3, <2>1 DEF Found
<1>. QED  BY <1>5, <1>6, <1>7, <1>8, <1>9 DEF IInv

\* The end of the iteration, or of the process.
LEMMA NextFalseKeepsIInv == ASSUME IInv, NextFalse PROVE IInv'
<1>1. /\ producer = "next" /\ producer' \in {"sendRest", "panicked"}
      /\ producer' = "sendRest" => iter.shard > NumShards
      /\ UNCHANGED <<db, open, iter, txns, batch, entryChan, chanClosed, doing, at, resultChan, loaded, rejected,
                     l0Closed, version, read, cut, touched>>
  BY DEF NextFalse, Exhausted, store, iterator, pool
<1>2. TypeOK'
  BY <1>1 DEF IInv, Shape, TypeOK
<1>3. Shape' /\ GoroutinesFollow'
  BY <1>1, <1>2 DEF IInv, Shape, GoroutinesFollow
<1>4. IteratorOn' /\ ReadBehind'
  BY <1>1 DEF IInv, IteratorOn, ReadBehind
<1>5. ReadIsCurrent'
  BY <1>1 DEF IInv, ReadIsCurrent, Current
<1>6. ReadIsComplete'
  BY <1>1 DEF IInv, ReadIsComplete, Wanted, EntryOf
<1>7. OnePlace' /\ EachEntryOnce'
  BY <1>1, EntriesUnmoved
<1>. QED  BY <1>3, <1>4, <1>5, <1>6, <1>7 DEF IInv

-----------------------------------------------------------------------------
(* The entries move. *)

Busy == {w \in Workers : doing[w] # NoEntry}

\* What EachEntryOnce counts are numbers: all the sets are finite.
LEMMA Counts ==
    ASSUME Shape
    PROVE  /\ Cardinality(read) \in Nat /\ Cardinality(loaded) \in Nat /\ Cardinality(rejected) \in Nat
           /\ IsFiniteSet(Busy) /\ Cardinality(Busy) \in Nat
           /\ Len(batch) \in Nat /\ Len(entryChan) \in Nat
<1>1. IsFiniteSet(Busy)
  BY WorkersAssumption, FS_Subset DEF Busy
<1>. QED  BY <1>1, FS_CardinalityType DEF Shape, TypeOK

\* EachEntryOnce in those words.
LEMMA Counted ==
    ASSUME EachEntryOnce
    PROVE  Cardinality(read) = Len(batch) + Len(entryChan) + Cardinality(Busy)
                               + Cardinality(loaded) + Cardinality(rejected)
  BY DEF EachEntryOnce, Busy

\* The iterator's entry has not been read before, and joins the batch.
LEMMA CollectKeepsIInv == ASSUME IInv, Collect PROVE IInv'
<1>. DEFINE e == iter.entry
<1>1. /\ producer = "body" /\ e.key \notin Unreadable
      /\ batch' = Append(batch, e) /\ read' = read \cup {e}
      /\ producer' = IF Len(batch') >= BatchSize THEN "send" ELSE "next"
      /\ UNCHANGED <<db, open, iter, txns, entryChan, chanClosed, doing, at, resultChan, loaded, rejected,
                     l0Closed, version, cut, touched>>
  BY DEF Collect, store, iterator, pool
<1>2. /\ iter.at = "on" /\ iter.shard \in Shards /\ e \in Entry /\ getShard(e.key) = iter.shard
      /\ e.key \in Int /\ iter.shard \in Int
  <2>1. iter.at = "on"
    BY <1>1 DEF IInv, IteratorOn
  <2>2. iter.shard \in Shards /\ e \in Entry /\ getShard(e.key) = iter.shard
    BY <2>1 DEF IInv, IteratorOn
  <2>. QED  BY <2>1, <2>2 DEF Entry, Keys, Shards
<1>3. batch \in Seq(Entry) /\ read \subseteq Entry /\ BatchSize \in Nat \ {0} /\ Len(batch) < BatchSize
  BY <1>1, WorkersAssumption DEF IInv, Shape, TypeOK, GoroutinesFollow
<1>4. ASSUME NEW f \in read PROVE getShard(f.key) < iter.shard \/ (getShard(f.key) = iter.shard /\ f.key < e.key)
  BY <1>1, <1>2, <1>4 DEF IInv, ReadBehind
<1>. HIDE DEF e
<1>5. \A f \in read : f.key # e.key
  BY <1>2, <1>4
<1>6. e \notin read
  BY <1>5
<1>7. batch' \in Seq(Entry) /\ Len(batch') = Len(batch) + 1 /\ Range(batch') = Range(batch) \cup {e}
      /\ (IsInjective(batch) /\ e \notin Range(batch) => IsInjective(batch'))
  BY <1>1, <1>2, <1>3, AppendRange
<1>8. IsFiniteSet(read') /\ Cardinality(read') = Cardinality(read) + 1
  BY <1>1, <1>6, FS_AddElement DEF IInv, Shape
<1>9. Shape'
  <2>1. Len(batch') <= BatchSize /\ read' \subseteq Entry
    BY <1>1, <1>2, <1>3, <1>7
  <2>2. TypeOK'
    BY <1>1, <1>2, <1>7, <2>1 DEF IInv, Shape, TypeOK
  <2>. QED  BY <1>1, <1>8, <2>2 DEF IInv, Shape
<1>10. GoroutinesFollow'
  <2>1. producer' = "next" => Len(batch') < BatchSize
    BY <1>1, <1>3, <1>7
  <2>2. producer' \in {"send", "next"}
    BY <1>1
  <2>. QED  BY <1>1, <2>1, <2>2 DEF IInv, GoroutinesFollow
<1>11. IteratorOn'
  BY <1>1, <1>2 DEF IInv, IteratorOn
<1>12. ReadBehind'
  <2>1. \A f, g \in read' : f.key = g.key => f = g
    BY <1>1, <1>5 DEF IInv, ReadBehind
  <2>2. \A f \in read' : getShard(f.key) < iter.shard \/ (getShard(f.key) = iter.shard /\ f.key <= e.key)
    <3>1. \A f \in read : f.key \in Int
      BY <1>3 DEF Entry, Keys
    <3>. QED  BY <1>1, <1>2, <1>4, <3>1
  <2>3. producer' # "body"
    BY <1>1
  <2>. QED  BY <1>1, <1>2, <2>1, <2>2, <2>3 DEF ReadBehind, e
<1>13. ReadIsCurrent'
  <2>1. Current(e) /\ \A f \in read : f.key \notin Unreadable /\ Current(f)
    BY <1>2 DEF IInv, ReadIsCurrent, e
  <2>. QED  BY <1>1, <1>2, <2>1 DEF IInv, ReadIsCurrent, Current
<1>14. ReadIsComplete'
  <2>1. producer' \notin {"body", "sendRest", "wait", "done"}
    BY <1>1
  <2>. QED  BY <1>1, <2>1 DEF IInv, ReadIsComplete, Wanted, EntryOf, e
<1>15. /\ read = Range(batch) \cup Range(entryChan) \cup InHands \cup loaded \cup rejected
       /\ InHands' = InHands
  BY <1>1 DEF IInv, EachEntryOnce, InHands
<1>16. OnePlace'
  BY <1>1, <1>6, <1>7, <1>15 DEF IInv, OnePlace
<1>17. EachEntryOnce'
  <2>1. read' = Range(batch') \cup Range(entryChan') \cup InHands' \cup loaded' \cup rejected'
    BY <1>1, <1>7, <1>15
  <2>2. Cardinality(read') = Len(batch') + Len(entryChan') + Cardinality(Busy)
                             + Cardinality(loaded') + Cardinality(rejected')
    BY <1>1, <1>7, <1>8, Counts, Counted DEF IInv
  <2>. QED  BY <1>1, <2>1, <2>2 DEF EachEntryOnce, Busy
<1>. QED  BY <1>9, <1>10, <1>11, <1>12, <1>13, <1>14, <1>16, <1>17 DEF IInv

\* An entry without a value is left out.
LEMMA SkipKeepsIInv == ASSUME IInv, Skip PROVE IInv'
<1>1. /\ producer = "body" /\ iter.entry.key \in Unreadable /\ producer' = "next"
      /\ UNCHANGED <<db, open, iter, txns, batch, entryChan, chanClosed, doing, at, resultChan, loaded, rejected,
                     l0Closed, version, read, cut, touched>>
  BY DEF Skip, store, iterator, pool
<1>2. TypeOK'
  BY <1>1 DEF IInv, Shape, TypeOK
<1>3. Shape' /\ GoroutinesFollow'
  BY <1>1, <1>2 DEF IInv, Shape, GoroutinesFollow
<1>4. IteratorOn' /\ ReadBehind'
  BY <1>1 DEF IInv, IteratorOn, ReadBehind
<1>5. ReadIsCurrent'
  BY <1>1 DEF IInv, ReadIsCurrent, Current
<1>6. ReadIsComplete'
  <2>1. \A k \in Wanted : EntryOf(k) # iter.entry
    BY <1>1 DEF Wanted, EntryOf
  <2>. QED  BY <1>1, <2>1 DEF IInv, ReadIsComplete, Wanted, EntryOf
<1>7. OnePlace' /\ EachEntryOnce'
  BY <1>1, EntriesUnmoved
<1>. QED  BY <1>3, <1>4, <1>5, <1>6, <1>7 DEF IInv

\* A limit ends the loop; what has been read stays read.
LEMMA StopIteratingKeepsIInv == ASSUME IInv, StopIterating PROVE IInv'
<1>1. /\ producer = "body" /\ producer' = "sendRest" /\ cut' = TRUE
      /\ UNCHANGED <<db, open, iter, txns, batch, entryChan, chanClosed, doing, at, resultChan, loaded, rejected,
                     l0Closed, version, read, touched>>
  BY DEF StopIterating, store, iterator, pool
<1>2. TypeOK'
  BY <1>1 DEF IInv, Shape, TypeOK
<1>3. Shape' /\ GoroutinesFollow'
  BY <1>1, <1>2 DEF IInv, Shape, GoroutinesFollow
<1>4. IteratorOn' /\ ReadBehind'
  BY <1>1 DEF IInv, IteratorOn, ReadBehind
<1>5. ReadIsCurrent'
  BY <1>1 DEF IInv, ReadIsCurrent, Current
<1>6. ReadIsComplete'
  BY <1>1 DEF ReadIsComplete
<1>7. OnePlace' /\ EachEntryOnce'
  BY <1>1, EntriesUnmoved
<1>. QED  BY <1>3, <1>4, <1>5, <1>6, <1>7 DEF IInv

\* The first entry of the batch goes to the end of the channel.
LEMMA SendKeepsIInv == ASSUME IInv, Send PROVE IInv'
<1>. DEFINE e == Head(batch)
<1>1. /\ producer \in {"send", "sendRest"} /\ batch # <<>> /\ Len(entryChan) < BatchSize
      /\ entryChan' = Append(entryChan, e) /\ batch' = Tail(batch)
      /\ producer' = IF producer = "send" /\ batch' = <<>> THEN "next" ELSE producer
      /\ UNCHANGED <<db, open, iter, txns, chanClosed, doing, at, resultChan, loaded, rejected, l0Closed,
                     version, read, cut, touched>>
  BY DEF Send, store, iterator, pool
<1>2. batch \in Seq(Entry) /\ entryChan \in Seq(Entry) /\ BatchSize \in Nat \ {0} /\ Len(batch) <= BatchSize
  BY WorkersAssumption DEF IInv, Shape, TypeOK
<1>3. /\ batch' \in Seq(Entry) /\ e \in Entry /\ Len(batch') = Len(batch) - 1 /\ Len(batch) \in Nat \ {0}
      /\ Range(batch) = Range(batch') \cup {e}
      /\ (IsInjective(batch) => IsInjective(batch') /\ e \notin Range(batch'))
  BY <1>1, <1>2, TailRange
<1>. HIDE DEF e
<1>4. /\ entryChan' \in Seq(Entry) /\ Len(entryChan') = Len(entryChan) + 1
      /\ Range(entryChan') = Range(entryChan) \cup {e}
      /\ (IsInjective(entryChan) /\ e \notin Range(entryChan) => IsInjective(entryChan'))
  BY <1>1, <1>2, <1>3, AppendRange
<1>5. Len(batch') <= BatchSize /\ Len(entryChan') <= BatchSize /\ producer' \in {"next", "send", "sendRest"}
      /\ (producer' = "next" => Len(batch') < BatchSize) /\ (producer' = "sendRest" <=> producer = "sendRest")
  <2>1. batch' = <<>> => Len(batch') = 0
    OBVIOUS
  <2>. QED  BY <1>1, <1>2, <1>3, <1>4, <2>1
<1>6. Shape'
  <2>1. TypeOK'
    BY <1>1, <1>3, <1>4, <1>5 DEF IInv, Shape, TypeOK
  <2>. QED  BY <1>1, <2>1 DEF IInv, Shape
<1>7. GoroutinesFollow'
  BY <1>1, <1>5 DEF IInv, GoroutinesFollow
<1>8. IteratorOn' /\ ReadBehind'
  BY <1>1, <1>5 DEF IInv, IteratorOn, ReadBehind
<1>9. ReadIsCurrent'
  BY <1>1 DEF IInv, ReadIsCurrent, Current
<1>10. ReadIsComplete'
  BY <1>1, <1>5 DEF IInv, ReadIsComplete, Wanted, EntryOf
<1>11. InHands' = InHands
  BY <1>1 DEF InHands
<1>12. OnePlace'
  BY <1>1, <1>3, <1>4, <1>11 DEF IInv, OnePlace
<1>13. EachEntryOnce'
  <2>1. read' = Range(batch') \cup Range(entryChan') \cup InHands' \cup loaded' \cup rejected'
    BY <1>1, <1>3, <1>4, <1>11 DEF IInv, EachEntryOnce
  <2>2. Cardinality(read') = Len(batch') + Len(entryChan') + Cardinality(Busy)
                             + Cardinality(loaded') + Cardinality(rejected')
    BY <1>1, <1>3, <1>4, Counts, Counted DEF IInv
  <2>. QED  BY <1>1, <2>1, <2>2 DEF EachEntryOnce, Busy
<1>. QED  BY <1>6, <1>7, <1>8, <1>9, <1>10, <1>12, <1>13 DEF IInv

\* The channel is closed when the last batch has been sent.
LEMMA CloseEntryChanKeepsIInv == ASSUME IInv, CloseEntryChan PROVE IInv'
<1>1. /\ producer = "sendRest" /\ batch = <<>> /\ chanClosed' = TRUE /\ producer' = "wait"
      /\ UNCHANGED <<db, open, iter, txns, batch, entryChan, doing, at, resultChan, loaded, rejected, l0Closed,
                     version, read, cut, touched>>
  BY DEF CloseEntryChan, store, iterator, pool
<1>2. TypeOK'
  BY <1>1 DEF IInv, Shape, TypeOK
<1>3. Shape' /\ GoroutinesFollow'
  BY <1>1, <1>2 DEF IInv, Shape, GoroutinesFollow
<1>4. IteratorOn' /\ ReadBehind'
  BY <1>1 DEF IInv, IteratorOn, ReadBehind
<1>5. ReadIsCurrent'
  BY <1>1 DEF IInv, ReadIsCurrent, Current
<1>6. ReadIsComplete'
  BY <1>1 DEF IInv, ReadIsComplete, Wanted, EntryOf
<1>7. OnePlace' /\ EachEntryOnce'
  BY <1>1, EntriesUnmoved
<1>. QED  BY <1>3, <1>4, <1>5, <1>6, <1>7 DEF IInv

\* All workers have ended; the iterator is closed.
LEMMA FinishKeepsIInv == ASSUME IInv, Finish PROVE IInv'
<1>1. /\ producer = "wait" /\ producer' = "done" /\ resultChan' = 0
      /\ \A w \in Workers : at[w] = "ended"
      /\ iter' = [iter EXCEPT !.at = "closed"] /\ txns' = txns \ {iter.cur}
      /\ UNCHANGED <<db, open, batch, entryChan, chanClosed, doing, at, loaded, rejected, l0Closed,
                     version, read, cut, touched>>
  BY DEF Finish, CloseIterator, store
<1>2. iter' \in Iter /\ iter'.at = "closed" /\ iter'.shard = iter.shard
  <2>1. iter \in Iter
    BY DEF IInv, Shape
  <2>. QED  BY ONLY <1>1, <2>1 DEF Iter
<1>3. TypeOK'
  <2>1. Cardinality(Workers) \in Nat
    BY WorkersAssumption, FS_CardinalityType
  <2>2. resultChan' \in 0 .. ResultCap'
    BY <1>1, <2>1 DEF ResultCap
  <2>3. txns' \subseteq Shards
    BY <1>1 DEF IInv, Shape, TypeOK
  <2>. QED  BY <1>1, <1>2, <2>2, <2>3 DEF IInv, Shape, TypeOK
<1>4. Shape' /\ GoroutinesFollow'
  BY <1>1, <1>2, <1>3 DEF IInv, Shape, GoroutinesFollow
<1>5. IteratorOn' /\ ReadBehind'
  BY <1>1, <1>2 DEF IInv, IteratorOn, ReadBehind
<1>6. ReadIsCurrent'
  BY <1>1, <1>2 DEF IInv, ReadIsCurrent, Current
<1>7. ReadIsComplete'
  <2>1. ASSUME ~cut
        PROVE  /\ iter.shard > NumShards
               /\ \A k \in Wanted : getShard(k) < iter.shard => EntryOf(k) \in read
    BY <1>1, <2>1 DEF IInv, ReadIsComplete
  <2>. QED  BY <1>1, <1>2, <2>1 DEF ReadIsComplete, Wanted, EntryOf
<1>8. OnePlace' /\ EachEntryOnce'
  BY <1>1, EntriesUnmoved
<1>. QED  BY <1>4, <1>5, <1>6, <1>7, <1>8 DEF IInv

-----------------------------------------------------------------------------
(* The workers. *)

\* A worker takes the oldest entry in the channel.
LEMMA ReceiveKeepsIInv == ASSUME IInv, NEW w \in Workers, Receive(w) PROVE IInv'
<1>. DEFINE e == Head(entryChan)
<1>1. /\ at[w] = "receive" /\ entryChan # <<>> /\ entryChan' = Tail(entryChan)
      /\ doing' = [doing EXCEPT ![w] = e] /\ at' = [at EXCEPT ![w] = "store"]
      /\ UNCHANGED <<db, open, iter, txns, producer, batch, chanClosed, resultChan, loaded, rejected, l0Closed,
                     version, read, cut, touched>>
  BY DEF Receive, store, iterator
<1>2. /\ entryChan \in Seq(Entry) /\ Len(entryChan) <= BatchSize /\ BatchSize \in Nat \ {0}
      /\ doing \in [Workers -> Entry \cup {NoEntry}]
      /\ at \in [Workers -> {"receive", "store", "report", "ended"}]
  BY WorkersAssumption DEF IInv, Shape, TypeOK
<1>3. /\ entryChan' \in Seq(Entry) /\ e \in Entry /\ Len(entryChan') = Len(entryChan) - 1
      /\ Len(entryChan) \in Nat \ {0} /\ Range(entryChan) = Range(entryChan') \cup {e}
      /\ (IsInjective(entryChan) => IsInjective(entryChan') /\ e \notin Range(entryChan'))
  BY <1>1, <1>2, TailRange
<1>. HIDE DEF e
<1>4. e # NoEntry
  BY <1>3 DEF Entry, NoEntry, Absent
<1>5. doing[w] = NoEntry
  BY <1>1 DEF IInv, GoroutinesFollow
<1>6. /\ doing' \in [Workers -> Entry \cup {NoEntry}]
      /\ at' \in [Workers -> {"receive", "store", "report", "ended"}]
      /\ \A v \in Workers : doing'[v] = IF v = w THEN e ELSE doing[v]
      /\ \A v \in Workers : at'[v] = IF v = w THEN "store" ELSE at[v]
  BY <1>1, <1>2, <1>3
<1>7. InHands' = InHands \cup {e} /\ Busy' = Busy \cup {w} /\ w \notin Busy
  BY <1>4, <1>5, <1>6 DEF InHands, Busy
<1>8. Shape'
  <2>1. Len(entryChan') <= BatchSize
    BY <1>2, <1>3
  <2>2. TypeOK'
    BY <1>1, <1>3, <1>6, <2>1 DEF IInv, Shape, TypeOK
  <2>. QED  BY <1>1, <2>2 DEF IInv, Shape
<1>9. GoroutinesFollow'
  <2>1. \A v \in Workers : at[v] # "ended"
    BY <1>1 DEF IInv, GoroutinesFollow
  <2>. QED  BY <1>1, <1>4, <1>6, <2>1 DEF IInv, GoroutinesFollow
<1>10. IteratorOn' /\ ReadBehind' /\ ReadIsCurrent' /\ ReadIsComplete'
  BY <1>1, IteratorUnmoved
<1>11. OnePlace'
  <2>1. e \notin InHands /\ e \notin Range(batch) /\ e \notin loaded \cup rejected /\ e \notin Range(entryChan')
    BY <1>3 DEF IInv, OnePlace
  <2>2. \A u, v \in Workers : doing'[v] # NoEntry /\ doing'[u] = doing'[v] => u = v
    BY <1>4, <1>6, <2>1 DEF IInv, OnePlace, InHands
  <2>. QED  BY <1>1, <1>3, <1>7, <2>1, <2>2 DEF IInv, OnePlace
<1>12. EachEntryOnce'
  <2>1. read' = Range(batch') \cup Range(entryChan') \cup InHands' \cup loaded' \cup rejected'
    BY <1>1, <1>3, <1>7 DEF IInv, EachEntryOnce
  <2>2. Cardinality(Busy') = Cardinality(Busy) + 1
    BY <1>7, Counts, FS_AddElement DEF IInv
  <2>3. Cardinality(read') = Len(batch') + Len(entryChan') + Cardinality(Busy')
                             + Cardinality(loaded') + Cardinality(rejected')
    BY <1>1, <1>3, <2>2, Counts, Counted DEF IInv
  <2>. QED  BY <2>1, <2>3 DEF EachEntryOnce, Busy
<1>. QED  BY <1>8, <1>9, <1>10, <1>11, <1>12 DEF IInv

\* The channel is closed and empty.
LEMMA EndKeepsIInv == ASSUME IInv, NEW w \in Workers, End(w) PROVE IInv'
<1>1. /\ at[w] = "receive" /\ entryChan = <<>> /\ chanClosed /\ at' = [at EXCEPT ![w] = "ended"]
      /\ UNCHANGED <<db, open, iter, txns, producer, batch, entryChan, chanClosed, doing, resultChan, loaded,
                     rejected, l0Closed, version, read, cut, touched>>
  BY DEF End, store, iterator
<1>2. /\ at' \in [Workers -> {"receive", "store", "report", "ended"}]
      /\ \A v \in Workers : at'[v] = IF v = w THEN "ended" ELSE at[v]
  BY <1>1 DEF IInv, Shape, TypeOK
<1>3. chanClosed = TRUE
  BY <1>1 DEF IInv, Shape, TypeOK
<1>4. Shape'
  <2>1. TypeOK'
    BY <1>1, <1>2 DEF IInv, Shape, TypeOK
  <2>. QED  BY <1>1, <2>1 DEF IInv, Shape
<1>5. GoroutinesFollow'
  BY <1>1, <1>2, <1>3 DEF IInv, GoroutinesFollow
<1>6. IteratorOn' /\ ReadBehind' /\ ReadIsCurrent' /\ ReadIsComplete'
  BY <1>1, IteratorUnmoved
<1>7. OnePlace' /\ EachEntryOnce'
  BY <1>1, EntriesUnmoved
<1>. QED  BY <1>4, <1>5, <1>6, <1>7 DEF IInv

\* The entry in hand is stored in L0, or L0 rejects it.
LEMMA StoreKeepsIInv == ASSUME IInv, NEW w \in Workers, Store(w) PROVE IInv'
<1>. DEFINE e == doing[w]
<1>1. /\ at[w] = "store" /\ doing' = [doing EXCEPT ![w] = NoEntry]
      /\ \/ rejected' = rejected \cup {e} /\ at' = [at EXCEPT ![w] = "report"] /\ loaded' = loaded
         \/ loaded' = loaded \cup {e} /\ at' = [at EXCEPT ![w] = "receive"] /\ rejected' = rejected
      /\ UNCHANGED <<db, open, iter, txns, producer, batch, entryChan, chanClosed, resultChan, l0Closed,
                     version, read, cut, touched>>
  BY DEF Store, store, iterator
<1>2. /\ doing \in [Workers -> Entry \cup {NoEntry}]
      /\ at \in [Workers -> {"receive", "store", "report", "ended"}]
  BY DEF IInv, Shape, TypeOK
<1>3. e # NoEntry /\ e \in Entry
  BY <1>1, <1>2 DEF IInv, GoroutinesFollow
<1>4. /\ doing' \in [Workers -> Entry \cup {NoEntry}]
      /\ at' \in [Workers -> {"receive", "store", "report", "ended"}]
      /\ \A v \in Workers : doing'[v] = IF v = w THEN NoEntry ELSE doing[v]
      /\ \A v \in Workers : at'[v] = IF v = w THEN at'[w] ELSE at[v]
      /\ at'[w] \in {"report", "receive"}
  BY <1>1, <1>2
<1>5. \A v \in Workers : doing[v] = e => v = w
  BY <1>3 DEF IInv, OnePlace
<1>. HIDE DEF e
<1>6. InHands = InHands' \cup {e} /\ e \notin InHands'
  <2>1. e = doing[w] /\ e # NoEntry
    BY <1>3 DEF e
  <2>2. \A v \in Workers : v # w => doing'[v] = doing[v] /\ doing[v] # e
    BY <1>4, <1>5
  <2>3. doing'[w] = NoEntry
    BY <1>4
  <2>. QED  BY <2>1, <2>2, <2>3 DEF InHands
<1>7. Busy' = Busy \ {w} /\ w \in Busy
  BY <1>3, <1>4 DEF Busy, e
<1>8. e \notin loaded /\ e \notin rejected /\ e \notin Range(batch) /\ e \notin Range(entryChan)
  BY <1>6 DEF IInv, OnePlace
<1>9. /\ IsFiniteSet(loaded') /\ IsFiniteSet(rejected')
      /\ Cardinality(loaded') + Cardinality(rejected') = Cardinality(loaded) + Cardinality(rejected) + 1
  <2>1. IsFiniteSet(loaded) /\ IsFiniteSet(rejected)
    BY DEF IInv, Shape
  <2>2. /\ IsFiniteSet(loaded \cup {e}) /\ Cardinality(loaded \cup {e}) = Cardinality(loaded) + 1
        /\ IsFiniteSet(rejected \cup {e}) /\ Cardinality(rejected \cup {e}) = Cardinality(rejected) + 1
    BY <1>8, <2>1, FS_AddElement
  <2>3. Cardinality(loaded) \in Nat /\ Cardinality(rejected) \in Nat
    BY <2>1, FS_CardinalityType
  <2>4. CASE rejected' = rejected \cup {e} /\ loaded' = loaded
    <3>1. Cardinality(loaded') = Cardinality(loaded) /\ Cardinality(rejected') = Cardinality(rejected) + 1
      BY <2>2, <2>4
    <3>. QED  BY <2>1, <2>2, <2>3, <2>4, <3>1
  <2>5. CASE loaded' = loaded \cup {e} /\ rejected' = rejected
    <3>1. Cardinality(loaded') = Cardinality(loaded) + 1 /\ Cardinality(rejected') = Cardinality(rejected)
      BY <2>2, <2>5
    <3>. QED  BY <2>1, <2>2, <2>3, <2>5, <3>1
  <2>. QED  BY <1>1, <2>4, <2>5
<1>10. Shape'
  <2>1. loaded' \cup rejected' \cup read' \subseteq Entry
    BY <1>1, <1>3 DEF IInv, Shape, TypeOK
  <2>2. TypeOK'
    BY <1>1, <1>4, <2>1 DEF IInv, Shape, TypeOK
  <2>. QED  BY <1>1, <1>9, <2>2 DEF IInv, Shape
<1>11. GoroutinesFollow'
  <2>1. at[w] # "ended" /\ producer # "done"
    BY <1>1 DEF IInv, GoroutinesFollow
  <2>2. \A v \in Workers : doing'[v] # NoEntry <=> at'[v] = "store"
    BY <1>4 DEF IInv, GoroutinesFollow
  <2>3. \A v \in Workers : at'[v] = "ended" => at[v] = "ended"
    BY <1>4
  <2>. QED  BY <1>1, <2>1, <2>2, <2>3 DEF IInv, GoroutinesFollow
<1>12. IteratorOn' /\ ReadBehind' /\ ReadIsCurrent' /\ ReadIsComplete'
  BY <1>1, IteratorUnmoved
<1>13. OnePlace'
  <2>1. \A u, v \in Workers : doing'[v] # NoEntry /\ doing'[u] = doing'[v] => u = v
    BY <1>4 DEF IInv, OnePlace
  <2>2. /\ (loaded' \cup rejected') \cap (Range(batch) \cup Range(entryChan) \cup InHands') = {}
        /\ loaded' \cap rejected' = {}
    BY <1>1, <1>6, <1>8 DEF IInv, OnePlace
  <2>. QED  BY <1>1, <1>6, <2>1, <2>2 DEF IInv, OnePlace
<1>14. EachEntryOnce'
  <2>1. read' = Range(batch') \cup Range(entryChan') \cup InHands' \cup loaded' \cup rejected'
    <3>1. read = Range(batch) \cup Range(entryChan) \cup InHands \cup loaded \cup rejected
      BY DEF IInv, EachEntryOnce
    <3>. QED  BY <1>1, <1>6, <3>1
  <2>2. Cardinality(Busy') = Cardinality(Busy) - 1
    BY <1>7, Counts, FS_RemoveElement DEF IInv
  <2>3. Cardinality(loaded') \in Nat /\ Cardinality(rejected') \in Nat
    BY <1>9, FS_CardinalityType
  <2>4. Cardinality(read') = Len(batch') + Len(entryChan') + Cardinality(Busy')
                             + Cardinality(loaded') + Cardinality(rejected')
    <3>1. /\ Cardinality(read) = Len(batch) + Len(entryChan) + Cardinality(Busy)
                                 + Cardinality(loaded) + Cardinality(rejected)
          /\ Cardinality(Busy) \in Nat /\ Len(batch) \in Nat /\ Len(entryChan) \in Nat
          /\ Cardinality(loaded) \in Nat /\ Cardinality(rejected) \in Nat
      BY Counts, Counted DEF IInv
    <3>2. read' = read /\ batch' = batch /\ entryChan' = entryChan
      BY <1>1
    <3>3. /\ Cardinality(read') = Cardinality(read) /\ Len(batch') = Len(batch)
          /\ Len(entryChan') = Len(entryChan)
      BY <3>2
    <3>. DEFINE f == Cardinality(loaded')
                g == Cardinality(rejected')
                a == Len(batch)
                b == Len(entryChan)
                c == Cardinality(Busy)
                d == Cardinality(loaded)
                h == Cardinality(rejected)
    <3>4. f \in Nat /\ g \in Nat /\ f + g = d + h + 1
      BY <1>9, <2>3
    <3>5. a \in Nat /\ b \in Nat /\ c \in Nat /\ d \in Nat /\ h \in Nat
      BY <3>1
    <3>6. Cardinality(read') = a + b + c + d + h /\ Cardinality(Busy') = c - 1
      BY <2>2, <3>1, <3>3
    <3>7. Len(batch') = a /\ Len(entryChan') = b
      BY <3>3
    <3>. HIDE DEF a, b, c, d, f, g, h
    <3>8. Cardinality(read') = a + b + Cardinality(Busy') + f + g
      BY <3>4, <3>5, <3>6
    <3>. QED  BY <3>7, <3>8 DEF f, g
  <2>. QED  BY <2>1, <2>4 DEF EachEntryOnce, Busy
<1>. QED  BY <1>10, <1>11, <1>12, <1>13, <1>14 DEF IInv

\* The error goes into the buffer.
LEMMA ReportKeepsIInv == ASSUME IInv, NEW w \in Workers, Report(w) PROVE IInv'
<1>1. /\ at[w] = "report" /\ resultChan < ResultCap /\ resultChan' = resultChan + 1
      /\ at' = [at EXCEPT ![w] = "receive"]
      /\ UNCHANGED <<db, open, iter, txns, producer, batch, entryChan, chanClosed, doing, loaded, rejected,
                     l0Closed, version, read, cut, touched>>
  BY DEF Report, store, iterator
<1>2. /\ at' \in [Workers -> {"receive", "store", "report", "ended"}]
      /\ \A v \in Workers : at'[v] = IF v = w THEN "receive" ELSE at[v]
  BY <1>1 DEF IInv, Shape, TypeOK
<1>3. Shape'
  <2>1. ResultCap \in Nat
    BY WorkersAssumption, FS_CardinalityType DEF ResultCap
  <2>2. resultChan' \in 0 .. ResultCap
    BY <1>1, <2>1 DEF IInv, Shape, TypeOK
  <2>3. TypeOK'
    BY <1>1, <1>2, <2>2 DEF IInv, Shape, TypeOK
  <2>. QED  BY <1>1, <2>3 DEF IInv, Shape
<1>4. GoroutinesFollow'
  <2>1. producer # "done"
    BY <1>1 DEF IInv, GoroutinesFollow
  <2>2. \A v \in Workers : doing'[v] # NoEntry <=> at'[v] = "store"
    BY <1>1, <1>2 DEF IInv, GoroutinesFollow
  <2>3. \A v \in Workers : at'[v] = "ended" => at[v] = "ended"
    BY <1>2
  <2>. QED  BY <1>1, <2>1, <2>2, <2>3 DEF IInv, GoroutinesFollow
<1>5. IteratorOn' /\ ReadBehind' /\ ReadIsCurrent' /\ ReadIsComplete'
  BY <1>1, IteratorUnmoved
<1>6. OnePlace' /\ EachEntryOnce'
  BY <1>1, EntriesUnmoved
<1>. QED  BY <1>3, <1>4, <1>5, <1>6 DEF IInv

-----------------------------------------------------------------------------
(* The cache around it. *)

\* A change of L1 concerns its own key, which counts as touched from then on.
LEMMA ChangeL1KeepsIInv ==
    ASSUME IInv, NEW k \in Keys, NEW v \in {Absent, version + 1}, ChangeL1(k, v) PROVE IInv'
<1>1. /\ version' = version + 1 /\ db' = [db EXCEPT ![k] = v] /\ touched' = touched \cup {k}
      /\ UNCHANGED <<open, iter, txns, producer, batch, entryChan, chanClosed, doing, at, resultChan, loaded,
                     rejected, l0Closed, read, cut>>
  BY DEF ChangeL1, iterator, pool
<1>2. db \in [Keys -> Nat] /\ version \in Nat \ {0} /\ touched \subseteq Keys
  BY DEF IInv, Shape
<1>3. db' \in [Keys -> Nat] /\ \A x \in Keys : x # k => db'[x] = db[x]
  <2>1. v \in Nat
    BY <1>2 DEF Absent
  <2>. QED  BY <1>1, <1>2, <2>1
<1>4. Shape'
  <2>1. TypeOK'
    BY <1>1 DEF IInv, Shape, TypeOK
  <2>2. version' \in Nat \ {0} /\ touched' \subseteq Keys
    BY <1>1, <1>2
  <2>. QED  BY <1>1, <1>3, <2>1, <2>2 DEF IInv, Shape
<1>5. GoroutinesFollow' /\ IteratorOn' /\ ReadBehind'
  BY <1>1 DEF IInv, GoroutinesFollow, IteratorOn, ReadBehind
<1>6. \A e \in Entry : Current(e) => Current(e)'
  BY <1>1, <1>3 DEF Current, Entry
<1>7. ReadIsCurrent'
  <2>1. read \subseteq Entry
    BY DEF IInv, Shape, TypeOK
  <2>2. iter.at = "on" => iter.entry \in Entry /\ iter.left \subseteq Entry
    BY DEF IInv, IteratorOn, Shape, Iter
  <2>. QED  BY <1>1, <1>6, <2>1, <2>2 DEF IInv, ReadIsCurrent
<1>8. ReadIsComplete'
  <2>1. \A x \in Wanted' : x \in Wanted /\ EntryOf(x)' = EntryOf(x)
    BY <1>1, <1>3 DEF Wanted, EntryOf
  <2>. QED  BY <1>1, <2>1 DEF IInv, ReadIsComplete
<1>9. OnePlace' /\ EachEntryOnce'
  BY <1>1, EntriesUnmoved
<1>. QED  BY <1>4, <1>5, <1>7, <1>8, <1>9 DEF IInv

\* Close closes L0 and the shards of L1 under the goroutines.
LEMMA CloseKeepsIInv == ASSUME IInv, CloseL0 \/ \E s \in Shards : CloseShard(s) PROVE IInv'
<1>1. /\ open' \subseteq open /\ l0Closed' \in BOOLEAN
      /\ UNCHANGED <<db, iter, txns, producer, batch, entryChan, chanClosed, doing, at, resultChan, loaded,
                     rejected, version, read, cut, touched>>
  <2>1. l0Closed \in BOOLEAN
    BY DEF IInv, Shape, TypeOK
  <2>2. CASE CloseL0
    BY <2>2 DEF CloseL0, store, iterator, pool
  <2>3. CASE \E s \in Shards : CloseShard(s)
    BY <2>1, <2>3 DEF CloseShard, iterator, pool
  <2>. QED  BY <2>2, <2>3
<1>2. TypeOK'
  BY <1>1 DEF IInv, Shape, TypeOK
<1>3. Shape' /\ GoroutinesFollow'
  BY <1>1, <1>2 DEF IInv, Shape, GoroutinesFollow
<1>4. IteratorOn' /\ ReadBehind' /\ ReadIsCurrent' /\ ReadIsComplete'
  BY <1>1, IteratorUnmoved
<1>5. OnePlace' /\ EachEntryOnce'
  BY <1>1, EntriesUnmoved
<1>. QED  BY <1>3, <1>4, <1>5 DEF IInv

-----------------------------------------------------------------------------
(* The theorems. *)

\* Every step of pre-warming and of the cache around it keeps the invariant.
LEMMA NextKeepsIInv == IInv /\ [Next]_vars => IInv'
<1>. SUFFICES ASSUME IInv, [Next]_vars PROVE IInv'
  OBVIOUS
<1>1. CASE NextTurn \/ NextEntry \/ NextFalse
  BY <1>1, NextTurnKeepsIInv, NextEntryKeepsIInv, NextFalseKeepsIInv
<1>2. CASE Collect \/ Skip \/ StopIterating
  BY <1>2, CollectKeepsIInv, SkipKeepsIInv, StopIteratingKeepsIInv
<1>3. CASE Send \/ CloseEntryChan \/ Finish
  BY <1>3, SendKeepsIInv, CloseEntryChanKeepsIInv, FinishKeepsIInv
<1>4. ASSUME NEW w \in Workers, Work(w) PROVE IInv'
  BY <1>4, ReceiveKeepsIInv, EndKeepsIInv, StoreKeepsIInv, ReportKeepsIInv DEF Work
<1>5. ASSUME NEW k \in Keys, NEW v \in {Absent, version + 1}, ChangeL1(k, v) PROVE IInv'
  BY <1>5, ChangeL1KeepsIInv
<1>6. CASE CloseL0 \/ \E s \in Shards : CloseShard(s)
  BY <1>6, CloseKeepsIInv
<1>7. CASE UNCHANGED vars
  <2>1. UNCHANGED <<db, open, iter, txns, producer, batch, entryChan, chanClosed, doing, at, resultChan, loaded,
                    rejected, l0Closed, version, read, cut, touched>>
    BY <1>7 DEF vars, store, iterator, pool
  <2>2. TypeOK'
    BY <2>1 DEF IInv, Shape, TypeOK
  <2>3. Shape' /\ GoroutinesFollow'
    BY <2>1, <2>2 DEF IInv, Shape, GoroutinesFollow
  <2>4. IteratorOn' /\ ReadBehind' /\ ReadIsCurrent' /\ ReadIsComplete'
    BY <2>1, IteratorUnmoved
  <2>5. OnePlace' /\ EachEntryOnce'
    BY <2>1, EntriesUnmoved
  <2>. QED  BY <2>3, <2>4, <2>5 DEF IInv
<1>. QED  BY <1>1, <1>2, <1>3, <1>4, <1>5, <1>6, <1>7 DEF Next, Produce

\* The inductive invariant holds throughout, whether or not the cache is
\* closed meanwhile.
THEOREM Invariant == Spec => []IInv
<1>1. Init => IInv
  BY InitIInv
<1>2. IInv /\ [Next]_vars => IInv'
  BY NextKeepsIInv
<1>. QED  BY <1>1, <1>2, PTL DEF Spec

\* The batch and the channels never outgrow their capacity.
THEOREM TypeCorrect == Spec => []TypeOK
<1>1. IInv => TypeOK
  BY DEF IInv, Shape
<1>. QED  BY <1>1, Invariant, PTL

\* No entry is dropped or handled twice between the iterator and L0.
THEOREM EntriesStayApart == Spec => []EachEntryOnce
<1>1. IInv => EachEntryOnce
  BY DEF IInv
<1>. QED  BY <1>1, Invariant, PTL

\* A pre-warming that ran to its end tried every entry of L1 that stayed as
\* it was, and nothing else but changed keys, each with one value.
THEOREM WarmingIsComplete == Spec => []WarmedIsComplete
<1>1. ASSUME IInv PROVE WarmedIsComplete
  <2>. DEFINE tried == loaded \cup rejected
              inL1 == UNION {Contents(s) : s \in Shards}
  <2>1. SUFFICES ASSUME producer = "done", ~cut
                 PROVE  /\ {e \in tried : e.key \notin touched} = {e \in inL1 : e.key \notin touched \cup Unreadable}
                        /\ \A e, f \in tried : e.key = f.key => e = f
    BY DEF WarmedIsComplete
  <2>2. tried = read
    <3>1. \A w \in Workers : at[w] = "ended" /\ doing[w] = NoEntry
      BY <1>1, <2>1 DEF IInv, GoroutinesFollow
    <3>2. batch = <<>> /\ entryChan = <<>>
      BY <1>1, <2>1, <3>1, WorkersAssumption DEF IInv, GoroutinesFollow
    <3>3. InHands = {} /\ Range(batch) = {} /\ Range(entryChan) = {}
      BY <3>1, <3>2 DEF InHands, Range
    <3>. QED  BY <1>1, <3>3 DEF IInv, EachEntryOnce
  <2>3. \A e : e \in inL1 <=> \E k \in Keys : db[k] # Absent /\ e = EntryOf(k)
    BY ShardOf DEF Contents, EntryOf
  <2>4. \A e \in read : e \in Entry /\ e.key \notin Unreadable /\ Current(e)
    BY <1>1 DEF IInv, Shape, TypeOK, ReadIsCurrent
  <2>5. \A k \in Wanted : EntryOf(k) \in read
    <3>1. iter.shard > NumShards /\ iter.shard \in Nat /\ NumShards \in Nat
      BY <1>1, <2>1, StoreAssumption DEF IInv, ReadIsComplete, Shape, Iter
    <3>2. \A k \in Keys : getShard(k) < iter.shard
      BY <3>1, ShardOf DEF Shards
    <3>. QED  BY <1>1, <2>1, <3>2 DEF IInv, ReadIsComplete, Wanted
  <2>. HIDE DEF tried, inL1
  <2>6. \A e \in read : e.key \notin touched => e \in inL1
    <3>1. SUFFICES ASSUME NEW e \in read, e.key \notin touched PROVE e \in inL1
      OBVIOUS
    <3>2. e \in Entry /\ db[e.key] = e.val
      BY <2>4, <3>1 DEF Current
    <3>3. e.key \in Keys /\ db[e.key] # Absent /\ e = EntryOf(e.key)
      BY <3>2 DEF Entry, EntryOf
    <3>. QED  BY <2>3, <3>3
  <2>7. \A e \in inL1 : e.key \notin touched \cup Unreadable => e \in read
    <3>1. SUFFICES ASSUME NEW e \in inL1, e.key \notin touched \cup Unreadable PROVE e \in read
      OBVIOUS
    <3>2. PICK k \in Keys : db[k] # Absent /\ e = EntryOf(k)
      BY <2>3
    <3>3. e.key = k
      BY <3>2 DEF EntryOf
    <3>. QED  BY <2>5, <3>1, <3>2, <3>3 DEF Wanted
  <2>8. \A e, f \in read : e.key = f.key => e = f
    BY <1>1 DEF IInv, ReadBehind
  <2>. QED  BY <2>2, <2>4, <2>6, <2>7, <2>8
<1>. QED  BY <1>1, Invariant, PTL
=============================================================================
