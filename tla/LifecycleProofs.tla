-------------------------- MODULE LifecycleProofs --------------------------
(* Proofs about Initialize and Close, for every set of callers, number of  *)
(* shards and number of attempts.                                          *)
EXTENDS Lifecycle, TLAPS

Busy(c) == at[c] \in {"l0", "l1", "serve"}

\* The initializing flag lets one caller at a time past it.
OneInitialize ==
    /\ initializing = \E c \in Callers : Busy(c)
    /\ \A c, d \in Callers : Busy(c) /\ Busy(d) => c = d

\* That caller's instances are the newest, and become the fields' in turn.
NewestIsMade ==
    /\ l1 <= made
    /\ \A c \in Callers :
          /\ Busy(c) => mine[c] = made /\ made > 0
          /\ at[c] \in {"l0", "l1"} => l1 < made
          /\ at[c] \in {"l1", "serve"} => l0 = made
          /\ at[c] = "serve" => l1 = made

\* l1.New has opened the shards before the next one.
ShardsOpened ==
    \A c \in Callers : at[c] = "l1" => \A i \in Shards : i < next[c] => dirs[i] = mine[c]

Serving == l0 \in open0 /\ \A i \in Shards : dirs[i] = l1

\* What the caller has opened stays open until Close begins.
OpenUntilClose ==
    /\ \A c \in Callers : ~closed => /\ at[c] = "l1" => l0 \in open0
                                     /\ at[c] = "serve" => Serving
    /\ initialized /\ ~again => \A c \in Callers : ~Busy(c)
    /\ initialized /\ ~closed /\ ~again => Serving

\* Unless Initialize was called again, the only L0 that can be open is the
\* field's, and a failed attempt has left none.
OnlyFieldOpen ==
    ~again =>
        /\ open0 \subseteq {l0}
        /\ (~initialized /\ \A c \in Callers : at[c] \notin {"l1", "serve"}) => open0 = {}

\* Close meets no Initialize later than when it begins.
CloseTracked ==
    /\ closed = (closing # "no")
    /\ closed /\ ~raced =>
          /\ \A c \in Callers : at[c] = "idle"
          /\ ~again /\ closing \in {"l1", "done"} => open0 = {}
          /\ closing = "done" => \A i \in Shards : dirs[i] = 0

IInv ==
    /\ TypeOK /\ OneInitialize /\ NewestIsMade /\ ShardsOpened /\ DirectoriesAreOwned
    /\ OpenUntilClose /\ OnlyFieldOpen /\ CloseTracked

\* New: nothing is open and nobody is initializing.
LEMMA InitIInv == Init => IInv
<1>. SUFFICES ASSUME Init PROVE IInv
  OBVIOUS
<1>1. TypeOK
  <2>1. 1 \in Shards /\ 0 \in 0 .. MaxInits
    BY BoundsAssumption DEF Shards
  <2>. QED  BY <2>1 DEF Init, TypeOK
<1>2. OneInitialize /\ NewestIsMade /\ ShardsOpened /\ DirectoriesAreOwned
  <2>1. \A c \in Callers : at[c] = "idle" /\ ~Busy(c)
    BY DEF Init, Busy
  <2>2. l1 <= made /\ initializing = FALSE /\ \A i \in Shards : dirs[i] = 0
    BY DEF Init
  <2>. QED  BY <2>1, <2>2 DEF OneInitialize, NewestIsMade, ShardsOpened, DirectoriesAreOwned
<1>3. OpenUntilClose /\ OnlyFieldOpen /\ CloseTracked
  BY DEF Init, OpenUntilClose, Busy, OnlyFieldOpen, CloseTracked
<1>. QED  BY <1>1, <1>2, <1>3 DEF IInv

-----------------------------------------------------------------------------
(* Initialize. *)

\* The look at the closed flag.
LEMMA BeginKeepsIInv == ASSUME IInv, NEW c \in Callers, Begin(c) PROVE IInv'
<1>1. /\ at[c] = "idle" /\ ~closed /\ at' = [at EXCEPT ![c] = "flag"]
      /\ UNCHANGED <<closed, initializing, initialized, l0, l1, open0, dirs, mine, next, closing, made, again, raced>>
  BY DEF Begin
<1>2. at' \in [Callers -> {"idle", "flag", "l0", "l1", "serve"}]
      /\ \A d \in Callers : at'[d] = IF d = c THEN "flag" ELSE at[d]
  BY <1>1 DEF IInv, TypeOK
<1>3. TypeOK'
  BY <1>1, <1>2 DEF IInv, TypeOK
<1>4. \A d \in Callers : Busy(d)' = Busy(d)
  BY <1>1, <1>2 DEF Busy
<1>5. OneInitialize'
  BY <1>1, <1>4 DEF IInv, OneInitialize
<1>6. NewestIsMade' /\ ShardsOpened'
  BY <1>1, <1>2, <1>4 DEF IInv, NewestIsMade, ShardsOpened
<1>7. DirectoriesAreOwned'
  <2>1. {d \in Callers : at'[d] = "l1"} = {d \in Callers : at[d] = "l1"}
    BY <1>1, <1>2
  <2>. QED  BY <1>1, <2>1 DEF IInv, DirectoriesAreOwned
<1>8. OpenUntilClose'
  BY <1>1, <1>2, <1>4 DEF IInv, OpenUntilClose, Serving
<1>9. OnlyFieldOpen' /\ CloseTracked'
  BY <1>1, <1>2 DEF IInv, OnlyFieldOpen, CloseTracked
<1>. QED  BY <1>3, <1>5, <1>6, <1>7, <1>8, <1>9 DEF IInv

\* The Swap of the initializing flag.
LEMMA FlagKeepsIInv == ASSUME IInv, NEW c \in Callers, Flag(c) PROVE IInv'
<1>1. /\ at[c] = "flag" /\ initializing' = TRUE
      /\ UNCHANGED <<closed, initialized, l0, l1, open0, dirs, next, closing, raced>>
  BY DEF Flag
<1>2. TypeOK /\ made \in Nat /\ l1 \in Nat
  BY BoundsAssumption DEF IInv, TypeOK, Instances
<1>3. CASE initializing
  <2>1. /\ at' = [at EXCEPT ![c] = "idle"] /\ UNCHANGED <<made, mine, again>>
    BY <1>3 DEF Flag
  <2>2. at' \in [Callers -> {"idle", "flag", "l0", "l1", "serve"}]
        /\ \A d \in Callers : at'[d] = IF d = c THEN "idle" ELSE at[d]
    BY <1>2, <2>1 DEF TypeOK
  <2>3. \A d \in Callers : Busy(d)' = Busy(d)
    BY <1>1, <2>2 DEF Busy
  <2>4. {d \in Callers : at'[d] = "l1"} = {d \in Callers : at[d] = "l1"}
    BY <1>1, <2>2
  <2>5. TypeOK'
    BY <1>1, <1>2, <2>1, <2>2 DEF TypeOK
  <2>6. OneInitialize'
    BY <1>1, <1>3, <2>3 DEF IInv, OneInitialize
  <2>7. NewestIsMade' /\ ShardsOpened' /\ DirectoriesAreOwned'
    BY <1>1, <2>1, <2>2, <2>3, <2>4 DEF IInv, NewestIsMade, ShardsOpened, DirectoriesAreOwned
  <2>8. OpenUntilClose' /\ OnlyFieldOpen' /\ CloseTracked'
    BY <1>1, <2>1, <2>2, <2>3 DEF IInv, OpenUntilClose, Serving, OnlyFieldOpen, CloseTracked
  <2>. QED  BY <2>5, <2>6, <2>7, <2>8 DEF IInv
<1>4. CASE ~initializing
  <2>1. /\ made < MaxInits /\ made' = made + 1 /\ mine' = [mine EXCEPT ![c] = made']
        /\ at' = [at EXCEPT ![c] = "l0"] /\ again' = (again \/ initialized)
    BY <1>4 DEF Flag
  <2>2. at' \in [Callers -> {"idle", "flag", "l0", "l1", "serve"}]
        /\ \A d \in Callers : at'[d] = IF d = c THEN "l0" ELSE at[d]
    BY <1>2, <2>1 DEF TypeOK
  <2>3. made' \in Instances /\ made' \in 0 .. MaxInits
    BY <1>2, <2>1, BoundsAssumption DEF Instances
  <2>4. mine' \in [Callers -> Instances \cup {0}]
        /\ \A d \in Callers : mine'[d] = IF d = c THEN made' ELSE mine[d]
    BY <1>2, <2>1, <2>3 DEF TypeOK
  <2>5. \A d \in Callers : ~Busy(d) /\ Busy(d)' = (d = c)
    BY <1>4, <2>2 DEF IInv, OneInitialize, Busy
  <2>6. TypeOK'
    BY <1>1, <1>2, <2>1, <2>2, <2>3, <2>4 DEF TypeOK
  <2>7. OneInitialize'
    BY <1>1, <2>5 DEF OneInitialize
  <2>8. NewestIsMade'
    BY <1>1, <1>2, <2>1, <2>2, <2>4, <2>5 DEF IInv, NewestIsMade, Busy
  <2>9. \A d \in Callers : at'[d] # "l1" /\ at[d] # "l1" /\ at'[d] # "serve" /\ at[d] # "serve"
    BY <2>2, <2>5 DEF Busy
  <2>10. ShardsOpened' /\ DirectoriesAreOwned'
    BY <1>1, <2>9 DEF IInv, ShardsOpened, DirectoriesAreOwned
  <2>11. OpenUntilClose'
    BY <1>1, <2>1, <2>5, <2>9 DEF IInv, OpenUntilClose, Serving
  <2>12. OnlyFieldOpen' /\ CloseTracked'
    BY <1>1, <2>1, <2>2, <2>9 DEF IInv, OnlyFieldOpen, CloseTracked
  <2>. QED  BY <2>6, <2>7, <2>8, <2>10, <2>11, <2>12 DEF IInv
<1>. QED  BY <1>3, <1>4

\* l0.New; the field is set before l1.New is called.
LEMMA OpenL0KeepsIInv == ASSUME IInv, NEW c \in Callers, OpenL0(c) PROVE IInv'
<1>1. /\ at[c] = "l0" /\ l0' = mine[c] /\ open0' = open0 \cup {mine[c]}
      /\ next' = [next EXCEPT ![c] = 1] /\ at' = [at EXCEPT ![c] = "l1"]
      /\ UNCHANGED <<closed, initializing, initialized, l1, dirs, mine, closing, made, again, raced>>
  BY DEF OpenL0
<1>2. TypeOK /\ Busy(c) /\ mine[c] = made /\ made > 0 /\ l1 < made
  BY <1>1 DEF IInv, NewestIsMade, Busy
<1>3. at' \in [Callers -> {"idle", "flag", "l0", "l1", "serve"}]
      /\ \A d \in Callers : at'[d] = IF d = c THEN "l1" ELSE at[d]
  BY <1>1, <1>2 DEF TypeOK
<1>4. 1 \in Shards /\ made \in Instances
  BY <1>2, BoundsAssumption DEF Shards, Instances, TypeOK
<1>5. next' \in [Callers -> Shards] /\ \A d \in Callers : next'[d] = IF d = c THEN 1 ELSE next[d]
  BY <1>1, <1>2, <1>4 DEF TypeOK
<1>6. \A d \in Callers : Busy(d)' = Busy(d) /\ (Busy(d) => d = c)
  BY <1>1, <1>2, <1>3 DEF IInv, OneInitialize, Busy
<1>7. TypeOK'
  BY <1>1, <1>2, <1>3, <1>4, <1>5 DEF TypeOK
<1>8. OneInitialize' /\ NewestIsMade'
  BY <1>1, <1>2, <1>3, <1>6 DEF IInv, OneInitialize, NewestIsMade, Busy
<1>9. ShardsOpened'
  BY <1>1, <1>3, <1>5 DEF IInv, ShardsOpened, Shards
<1>10. DirectoriesAreOwned'
  <2>1. {d \in Callers : at[d] = "l1"} \subseteq {d \in Callers : at'[d] = "l1"}
    BY <1>3
  <2>. QED  BY <1>1, <2>1 DEF IInv, DirectoriesAreOwned
<1>11. OpenUntilClose'
  BY <1>1, <1>2, <1>3, <1>6 DEF IInv, OpenUntilClose, Serving, Busy
<1>12. OnlyFieldOpen'
  <2>1. \A d \in Callers : at[d] \notin {"l1", "serve"}
    BY <1>1, <1>6 DEF Busy
  <2>2. ~again => ~initialized
    BY <1>2 DEF IInv, OpenUntilClose
  <2>. QED  BY <1>1, <1>3, <2>1, <2>2 DEF IInv, OnlyFieldOpen
<1>13. CloseTracked'
  BY <1>1, <1>3 DEF IInv, CloseTracked
<1>. QED  BY <1>7, <1>8, <1>9, <1>10, <1>11, <1>12, <1>13 DEF IInv

\* One more shard; with the last one all are the new L1's, so the old one's
\* field can go.
LEMMA OpenShardKeepsIInv == ASSUME IInv, NEW c \in Callers, OpenShard(c) PROVE IInv'
<1>1. /\ at[c] = "l1" /\ dirs' = [dirs EXCEPT ![next[c]] = mine[c]]
      /\ UNCHANGED <<closed, initializing, initialized, l0, open0, mine, closing, made, again, raced>>
  BY DEF OpenShard
<1>2. TypeOK /\ Busy(c) /\ mine[c] = made /\ made > 0 /\ l1 < made /\ l0 = made /\ next[c] \in Shards
  BY <1>1 DEF IInv, NewestIsMade, Busy, TypeOK
<1>3. made \in Instances
  BY <1>2, BoundsAssumption DEF Instances, TypeOK
<1>4. dirs' \in [Shards -> Instances \cup {0}]
      /\ \A i \in Shards : dirs'[i] = IF i = next[c] THEN made ELSE dirs[i]
  BY <1>1, <1>2, <1>3 DEF TypeOK
<1>5. \A d \in Callers : Busy(d) => d = c
  BY <1>1, <1>2 DEF IInv, OneInitialize
<1>6. \A d \in Callers : at[d] = "l1" => d = c
  BY <1>5 DEF Busy
<1>7. ~closed => l0 \in open0
  BY <1>1 DEF IInv, OpenUntilClose
<1>8. initialized => again
  BY <1>2 DEF IInv, OpenUntilClose
<1>9. \A i \in Shards : i < next[c] => dirs[i] = made
  BY <1>1, <1>2 DEF IInv, ShardsOpened
<1>10. CASE next[c] = NumShards
  <2>1. l1' = made /\ at' = [at EXCEPT ![c] = "serve"] /\ UNCHANGED next
    BY <1>2, <1>10 DEF OpenShard
  <2>2. at' \in [Callers -> {"idle", "flag", "l0", "l1", "serve"}]
        /\ \A d \in Callers : at'[d] = IF d = c THEN "serve" ELSE at[d]
    BY <1>2, <2>1 DEF TypeOK
  <2>3. \A i \in Shards : dirs'[i] = made
    <3>1. \A i \in Shards : i < next[c] \/ i = next[c]
      BY <1>10, BoundsAssumption DEF Shards
    <3>. QED  BY <1>4, <1>9, <3>1
  <2>4. \A d \in Callers : Busy(d)' = Busy(d)
    BY <1>1, <2>2 DEF Busy
  <2>5. TypeOK'
    BY <1>1, <1>2, <1>3, <1>4, <2>1, <2>2 DEF TypeOK
  <2>6. OneInitialize'
    BY <1>1, <2>4 DEF IInv, OneInitialize
  <2>7. NewestIsMade'
    <3>1. \A d \in Callers : d # c => ~Busy(d)' /\ at'[d] \notin {"l0", "l1", "serve"}
      BY <1>5, <2>2, <2>4 DEF Busy
    <3>2. made \in Int
      BY <1>2 DEF TypeOK
    <3>. QED  BY <1>1, <1>2, <2>1, <2>2, <3>1, <3>2 DEF NewestIsMade
  <2>8. ShardsOpened' /\ DirectoriesAreOwned'
    BY <1>1, <1>6, <2>1, <2>2, <2>3 DEF ShardsOpened, DirectoriesAreOwned
  <2>9. OpenUntilClose'
    BY <1>1, <1>2, <1>7, <1>8, <2>1, <2>2, <2>3, <1>5, <2>4 DEF IInv, OpenUntilClose, Serving, Busy
  <2>10. OnlyFieldOpen' /\ CloseTracked'
    BY <1>1, <2>2 DEF IInv, OnlyFieldOpen, CloseTracked
  <2>. QED  BY <2>5, <2>6, <2>7, <2>8, <2>9, <2>10 DEF IInv
<1>11. CASE next[c] # NumShards
  <2>1. next' = [next EXCEPT ![c] = next[c] + 1] /\ UNCHANGED <<l1, at>>
    BY <1>11 DEF OpenShard
  <2>2. next[c] + 1 \in Shards
    BY <1>2, <1>11, BoundsAssumption DEF Shards
  <2>3. next' \in [Callers -> Shards] /\ next'[c] = next[c] + 1
    BY <1>2, <2>1, <2>2 DEF TypeOK
  <2>4. \A d \in Callers : Busy(d)' = Busy(d)
    BY <2>1 DEF Busy
  <2>5. TypeOK'
    BY <1>1, <1>2, <1>4, <2>1, <2>3 DEF TypeOK
  <2>6. OneInitialize' /\ NewestIsMade'
    BY <1>1, <2>1, <2>4 DEF IInv, OneInitialize, NewestIsMade
  <2>7. ShardsOpened'
    <3>1. \A i \in Shards : i < next[c] + 1 => i < next[c] \/ i = next[c]
      BY <1>2 DEF Shards
    <3>2. \A i \in Shards : i < next'[c] => dirs'[i] = made
      BY <1>4, <1>9, <2>3, <3>1
    <3>. QED  BY <1>1, <1>2, <1>6, <2>1, <3>2 DEF ShardsOpened
  <2>8. DirectoriesAreOwned'
    BY <1>1, <1>2, <1>4, <2>1 DEF IInv, DirectoriesAreOwned
  <2>9. OpenUntilClose'
    BY <1>1, <1>6, <1>7, <1>8, <2>1, <2>4, <1>2, <1>5 DEF IInv, OpenUntilClose, Serving, Busy
  <2>10. OnlyFieldOpen' /\ CloseTracked'
    BY <1>1, <2>1 DEF IInv, OnlyFieldOpen, CloseTracked
  <2>. QED  BY <2>5, <2>6, <2>7, <2>8, <2>9, <2>10 DEF IInv
<1>. QED  BY <1>10, <1>11

\* A shard cannot be opened: the new L1 lets its shards go, and the new L0 is
\* closed.
LEMMA FailShardKeepsIInv == ASSUME IInv, NEW c \in Callers, FailShard(c) PROVE IInv'
<1>1. /\ at[c] = "l1" /\ dirs' = [i \in Shards |-> IF dirs[i] = mine[c] THEN 0 ELSE dirs[i]]
      /\ open0' = open0 \ {l0} /\ at' = [at EXCEPT ![c] = "idle"] /\ initializing' = FALSE
      /\ UNCHANGED <<closed, initialized, l0, l1, mine, next, closing, made, again, raced>>
  BY DEF FailShard
<1>2. TypeOK /\ Busy(c) /\ mine[c] = made
  BY <1>1 DEF IInv, NewestIsMade, Busy
<1>3. at' \in [Callers -> {"idle", "flag", "l0", "l1", "serve"}]
      /\ \A d \in Callers : at'[d] = IF d = c THEN "idle" ELSE at[d]
  BY <1>1, <1>2 DEF TypeOK
<1>4. \A d \in Callers : Busy(d) => d = c
  BY <1>1, <1>2 DEF IInv, OneInitialize
<1>5. \A d \in Callers : ~Busy(d)' /\ at'[d] \notin {"l0", "l1", "serve"} /\ (at[d] = "l1" => d = c)
  BY <1>3, <1>4 DEF Busy
<1>6. TypeOK'
  BY <1>1, <1>2, <1>3 DEF TypeOK
<1>7. OneInitialize' /\ NewestIsMade' /\ ShardsOpened'
  BY <1>1, <1>5 DEF IInv, OneInitialize, NewestIsMade, ShardsOpened
<1>8. DirectoriesAreOwned'
  BY <1>1, <1>5 DEF IInv, DirectoriesAreOwned
<1>9. initialized => again
  BY <1>2 DEF IInv, OpenUntilClose
<1>10. OpenUntilClose'
  BY <1>1, <1>5, <1>9 DEF OpenUntilClose
<1>11. OnlyFieldOpen'
  BY <1>1 DEF IInv, OnlyFieldOpen
<1>12. CloseTracked'
  BY <1>1, <1>3 DEF IInv, CloseTracked
<1>. QED  BY <1>6, <1>7, <1>8, <1>10, <1>11, <1>12 DEF IInv

\* l0.New fails: the attempt ends before anything was opened.
LEMMA FailL0KeepsIInv == ASSUME IInv, NEW c \in Callers, FailL0(c) PROVE IInv'
<1>1. /\ at[c] = "l0" /\ at' = [at EXCEPT ![c] = "idle"] /\ initializing' = FALSE
      /\ UNCHANGED <<closed, initialized, l0, l1, open0, dirs, mine, next, closing, made, again, raced>>
  BY DEF FailL0
<1>2. TypeOK /\ Busy(c)
  BY <1>1 DEF IInv, Busy
<1>3. at' \in [Callers -> {"idle", "flag", "l0", "l1", "serve"}]
      /\ \A d \in Callers : at'[d] = IF d = c THEN "idle" ELSE at[d]
  BY <1>1, <1>2 DEF TypeOK
<1>4. \A d \in Callers : Busy(d) => d = c
  BY <1>1, <1>2 DEF IInv, OneInitialize
<1>5. \A d \in Callers : ~Busy(d)' /\ at'[d] \notin {"l0", "l1", "serve"} /\ at[d] \notin {"l1", "serve"}
  BY <1>1, <1>3, <1>4 DEF Busy
<1>6. TypeOK'
  BY <1>1, <1>2, <1>3 DEF TypeOK
<1>7. OneInitialize' /\ NewestIsMade' /\ ShardsOpened'
  BY <1>1, <1>5 DEF IInv, OneInitialize, NewestIsMade, ShardsOpened
<1>8. DirectoriesAreOwned'
  BY <1>1, <1>5 DEF IInv, DirectoriesAreOwned
<1>9. OpenUntilClose' /\ OnlyFieldOpen'
  BY <1>1, <1>5 DEF IInv, OpenUntilClose, Serving, OnlyFieldOpen
<1>10. CloseTracked'
  BY <1>1, <1>3 DEF IInv, CloseTracked
<1>. QED  BY <1>6, <1>7, <1>8, <1>9, <1>10 DEF IInv

\* The cache is initialized.
LEMMA ServeKeepsIInv == ASSUME IInv, NEW c \in Callers, Serve(c) PROVE IInv'
<1>1. /\ at[c] = "serve" /\ initialized' /\ ~initializing' /\ at' = [at EXCEPT ![c] = "idle"]
      /\ initialized' \in BOOLEAN /\ initializing' \in BOOLEAN
      /\ UNCHANGED <<closed, l0, l1, open0, dirs, mine, next, closing, made, again, raced>>
  BY DEF Serve
<1>2. TypeOK /\ Busy(c)
  BY <1>1 DEF IInv, Busy
<1>3. at' \in [Callers -> {"idle", "flag", "l0", "l1", "serve"}]
      /\ \A d \in Callers : at'[d] = IF d = c THEN "idle" ELSE at[d]
  BY <1>1, <1>2 DEF TypeOK
<1>4. \A d \in Callers : Busy(d) => d = c
  BY <1>1, <1>2 DEF IInv, OneInitialize
<1>5. \A d \in Callers : ~Busy(d)' /\ at'[d] \notin {"l0", "l1", "serve"} /\ at[d] # "l1"
  BY <1>1, <1>3, <1>4 DEF Busy
<1>6. TypeOK'
  BY <1>1, <1>2, <1>3 DEF TypeOK
<1>7. OneInitialize' /\ NewestIsMade' /\ ShardsOpened'
  BY <1>1, <1>5 DEF IInv, OneInitialize, NewestIsMade, ShardsOpened
<1>8. DirectoriesAreOwned'
  BY <1>1, <1>5 DEF IInv, DirectoriesAreOwned
<1>9. ~closed => Serving
  BY <1>1 DEF IInv, OpenUntilClose
<1>10. OpenUntilClose'
  BY <1>1, <1>5, <1>9 DEF OpenUntilClose, Serving
<1>11. OnlyFieldOpen'
  BY <1>1 DEF IInv, OnlyFieldOpen
<1>12. CloseTracked'
  BY <1>1, <1>3 DEF IInv, CloseTracked
<1>. QED  BY <1>6, <1>7, <1>8, <1>10, <1>11, <1>12 DEF IInv

-----------------------------------------------------------------------------
(* Close, and the theorems. *)

\* The Swap of the closed flag.
LEMMA BeginCloseKeepsIInv == ASSUME IInv, BeginClose PROVE IInv'
<1>1. /\ ~closed /\ closed' = TRUE /\ closing' = "l0" /\ raced' = \E c \in Callers : at[c] # "idle"
      /\ UNCHANGED <<initializing, initialized, l0, l1, open0, dirs, at, mine, next, made, again>>
  BY DEF BeginClose
<1>2. TypeOK'
  BY <1>1 DEF IInv, TypeOK
<1>3. OneInitialize' /\ NewestIsMade' /\ ShardsOpened' /\ DirectoriesAreOwned'
  BY <1>1 DEF IInv, OneInitialize, Busy, NewestIsMade, ShardsOpened, DirectoriesAreOwned
<1>4. OpenUntilClose' /\ OnlyFieldOpen' /\ CloseTracked'
  BY <1>1 DEF IInv, OpenUntilClose, Busy, OnlyFieldOpen, CloseTracked
<1>. QED  BY <1>2, <1>3, <1>4 DEF IInv

\* Close of L0: the field's instance, the only one there is.
LEMMA CloseL0KeepsIInv == ASSUME IInv, CloseL0 PROVE IInv'
<1>1. /\ closing = "l0" /\ open0' = open0 \ {l0} /\ closing' = "l1"
      /\ UNCHANGED <<closed, initializing, initialized, l0, l1, dirs, at, mine, next, made, again, raced>>
  BY DEF CloseL0
<1>2. closed
  BY <1>1 DEF IInv, CloseTracked
<1>3. TypeOK'
  BY <1>1 DEF IInv, TypeOK
<1>4. OneInitialize' /\ NewestIsMade' /\ ShardsOpened' /\ DirectoriesAreOwned'
  BY <1>1 DEF IInv, OneInitialize, Busy, NewestIsMade, ShardsOpened, DirectoriesAreOwned
<1>5. OpenUntilClose' /\ OnlyFieldOpen' /\ CloseTracked'
  BY <1>1, <1>2 DEF IInv, OpenUntilClose, Busy, OnlyFieldOpen, CloseTracked
<1>. QED  BY <1>3, <1>4, <1>5 DEF IInv

\* Close of L1: the field's instance; with no Initialize running every open
\* shard is its own.
LEMMA CloseL1KeepsIInv == ASSUME IInv, CloseL1 PROVE IInv'
<1>1. /\ closing = "l1" /\ closing' = "done"
      /\ dirs' = IF l1 = 0 THEN dirs ELSE [i \in Shards |-> IF dirs[i] = l1 THEN 0 ELSE dirs[i]]
      /\ UNCHANGED <<closed, initializing, initialized, l0, l1, open0, at, mine, next, made, again, raced>>
  BY DEF CloseL1
<1>2. TypeOK /\ closed
  BY <1>1 DEF IInv, CloseTracked
<1>3. dirs' \in [Shards -> Instances \cup {0}]
      /\ \A i \in Shards : dirs'[i] = IF dirs[i] = l1 THEN 0 ELSE dirs[i]
  BY <1>1, <1>2 DEF TypeOK
<1>4. TypeOK'
  BY <1>1, <1>2, <1>3 DEF TypeOK
<1>5. OneInitialize' /\ NewestIsMade'
  BY <1>1 DEF IInv, OneInitialize, Busy, NewestIsMade
<1>6. ShardsOpened'
  <2>1. made \in Int /\ l1 \in Int
    BY <1>2, BoundsAssumption DEF TypeOK, Instances
  <2>2. \A c \in Callers : at[c] = "l1" => mine[c] = made /\ l1 < made
    BY DEF IInv, NewestIsMade, Busy
  <2>3. \A c \in Callers : at[c] = "l1" => mine[c] # l1
    BY <2>1, <2>2
  <2>. QED  BY <1>1, <1>3, <2>3 DEF IInv, ShardsOpened
<1>7. DirectoriesAreOwned'
  BY <1>1, <1>3 DEF IInv, DirectoriesAreOwned
<1>8. OpenUntilClose' /\ OnlyFieldOpen'
  BY <1>1, <1>2 DEF IInv, OpenUntilClose, Busy, OnlyFieldOpen
<1>9. CloseTracked'
  <2>1. ASSUME ~raced PROVE \A i \in Shards : dirs'[i] = 0
    <3>1. \A c \in Callers : at[c] # "l1"
      BY <1>2, <2>1 DEF IInv, CloseTracked
    <3>2. \A i \in Shards : dirs[i] \in {0, l1}
      BY <3>1 DEF IInv, DirectoriesAreOwned
    <3>. QED  BY <1>3, <3>2
  <2>. QED  BY <1>1, <2>1 DEF IInv, CloseTracked
<1>. QED  BY <1>4, <1>5, <1>6, <1>7, <1>8, <1>9 DEF IInv

\* Every step of Initialize and Close, however they interleave.
LEMMA NextKeepsIInv == IInv /\ [Next]_vars => IInv'
<1>. SUFFICES ASSUME IInv, [Next]_vars PROVE IInv'
  OBVIOUS
<1>1. ASSUME NEW c \in Callers,
             \/ Begin(c) \/ Flag(c) \/ OpenL0(c) \/ FailL0(c)
             \/ OpenShard(c) \/ FailShard(c) \/ Serve(c)
      PROVE  IInv'
  BY <1>1, BeginKeepsIInv, FlagKeepsIInv, OpenL0KeepsIInv, FailL0KeepsIInv, OpenShardKeepsIInv,
     FailShardKeepsIInv, ServeKeepsIInv
<1>2. CASE BeginClose \/ CloseL0 \/ CloseL1
  BY <1>2, BeginCloseKeepsIInv, CloseL0KeepsIInv, CloseL1KeepsIInv
<1>3. CASE UNCHANGED vars
  <2>1. UNCHANGED <<closed, initializing, initialized, l0, l1, open0, dirs, at, mine, next, closing, made, again, raced>>
    BY <1>3 DEF vars
  <2>2. TypeOK' /\ DirectoriesAreOwned' /\ ShardsOpened'
    BY <2>1 DEF IInv, TypeOK, DirectoriesAreOwned, ShardsOpened
  <2>3. OneInitialize' /\ NewestIsMade'
    BY <2>1 DEF IInv, OneInitialize, NewestIsMade, Busy
  <2>4. OpenUntilClose' /\ OnlyFieldOpen' /\ CloseTracked'
    BY <2>1 DEF IInv, OpenUntilClose, Serving, OnlyFieldOpen, CloseTracked, Busy
  <2>. QED  BY <2>2, <2>3, <2>4 DEF IInv
<1>. QED  BY <1>1, <1>2, <1>3 DEF Next

\* The inductive invariant of Initialize and Close.
THEOREM Invariant == Spec => []IInv
<1>. QED  BY InitIInv, NextKeepsIInv, PTL DEF Spec

\* The flags, fields and instances have their types.
THEOREM TypeCorrect == Spec => []TypeOK
<1>1. IInv => TypeOK
  BY DEF IInv
<1>. QED  BY <1>1, Invariant, PTL

\* No directory stays locked by an L1 that neither the field nor a running
\* l1.New has, whichever attempts of Initialize failed and at which shard.
THEOREM DirectoriesAreHeld == Spec => []DirectoriesAreOwned
<1>1. IInv => DirectoriesAreOwned
  BY DEF IInv
<1>. QED  BY <1>1, Invariant, PTL

\* An initialized cache has its L0 and all shards of its L1 open until Close
\* begins, unless Initialize was called again.
THEOREM InitializedCacheServes == Spec => []InitializedServes
<1>1. IInv => InitializedServes
  BY DEF IInv, OpenUntilClose, Serving, InitializedServes
<1>. QED  BY <1>1, Invariant, PTL

\* A Close that met no running Initialize leaves no tier open.
THEOREM CloseLeavesNothingOpen == Spec => []CloseClosesAllTiers
<1>1. IInv => CloseClosesAllTiers
  BY DEF IInv, CloseTracked, CloseClosesAllTiers
<1>. QED  BY <1>1, Invariant, PTL

=============================================================================
