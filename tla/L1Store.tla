------------------------------ MODULE L1Store ------------------------------
(***************************************************************************)
(* The disk tier (pkg/l1/l1_badger.go) as far as room and durability go:   *)
(* Set with its capacity check, which reads the shards' sizes one at a     *)
(* time before it takes the lock of its own shard; Delete; the sync        *)
(* worker; Close; and a crash.  What a shard holds for a key is the        *)
(* business of L1Iterator and TieredCache: here a shard is the number of   *)
(* writes it has taken.  Get, Exists and the statistics only read.         *)
(*                                                                         *)
(* Badger (external): a write is on disk at once with SyncWrites,          *)
(* otherwise once db.Sync or db.Close has succeeded; a crash keeps what is *)
(* on disk and any part of the rest from its beginning; updates and syncs  *)
(* may fail, and do on a closed database; a database whose Close failed is *)
(* closed all the same; db.Size is refreshed in the background and counts  *)
(* tables only, so it is some number up to the writes taken.  Sync mode    *)
(* "disabled" asks for a database in memory and is left out.               *)
(*                                                                         *)
(* A module may extend L0Shard and this one: their names differ.           *)
(***************************************************************************)
EXTENDS Integers, FiniteSets

CONSTANTS
    Clients,
    NumShards,      \* shardCount
    MaxCapacity,    \* maxCapacity, in writes
    Found,          \* writes each shard was found with when it was opened
    MaxWrites       \* bound: writes

ASSUME ShardsAssumption == NumShards \in Nat \ {0} /\ MaxCapacity \in Nat \ {0}
ASSUME BoundsAssumption == Found \in Nat /\ MaxWrites \in Nat
ASSUME ClientsAssumption == IsFiniteSet(Clients)

Shards == 1 .. NumShards
Each(n) == [s \in Shards |-> n]

VARIABLES
    syncMode,
    written,    \* written[s]: number of writes shard s has taken
    synced,     \* synced[s]: how many of them are on disk
    measured,   \* measured[s]: what db.Size returns
    open,       \* shards whose database is open
    closed,     \* the flag
    closer,     \* next shard Close will close, 0 before it gets there
    closeErrors, \* shards whose db.Close failed
    syncer,     \* next shard of the running sync, 0 if none runs
    op,         \* the Set or Delete each client is in
    late,       \* history: Sets done since the store was full and no shard shrank
    mark,       \* history: writes each shard had when the running sync began, 0 if
                \* its db.Sync has failed since
    promised    \* history: writes of each shard that must outlive a crash

badger == <<written, synced, measured, open>>
history == <<late, mark, promised>>
storeVars == <<syncMode, badger, closed, closer, closeErrors, syncer, op, history>>

Idle == [kind |-> "idle"]
\* The sum of f[s] over all shards, as a number of cells, f[s] for shard s.
ShardCells(f, S) == UNION {{s} \X (1 .. f[s]) : s \in S}
ShardTotal(f) == Cardinality(ShardCells(f, Shards))

StoreInit ==
    /\ syncMode \in {"immediate", "periodic"}
    /\ written = Each(Found) /\ synced = Each(Found)
    /\ measured \in [Shards -> 0 .. Found]
    /\ open = Shards
    /\ closed = FALSE
    /\ closer = 0 /\ closeErrors = {}
    /\ syncer = 0
    /\ op = [c \in Clients |-> Idle]
    /\ late = 0 /\ mark = Each(0) /\ promised = Each(Found)

-----------------------------------------------------------------------------
(* Set and Delete.  The key, and with it the shard, matters only in Write. *)

BeginSet(c) ==
    /\ ~closed
    /\ op[c] = Idle
    /\ op' = [op EXCEPT ![c] = [kind |-> "set", next |-> 1, sum |-> 0]]
    /\ UNCHANGED <<syncMode, badger, closed, closer, closeErrors, syncer, history>>

\* Mutant: only the size of one shard is compared.
ReadOneSize(c) ==
    /\ op[c].kind = "set" /\ op[c].next <= NumShards
    /\ op' = [op EXCEPT ![c] = IF measured[op[c].next] >= MaxCapacity THEN Idle
                               ELSE [op[c] EXCEPT !.next = NumShards + 1]]
    /\ UNCHANGED <<syncMode, badger, closed, closer, closeErrors, syncer, history>>

\* DiskUsage reads one shard under its read lock; after the last one the sum
\* is compared with the capacity.
ReadSize(c) ==
    /\ op[c].kind = "set" /\ op[c].next <= NumShards
    /\ LET s == op[c].next
           sum == op[c].sum + measured[s]
       IN  op' = [op EXCEPT ![c] = IF s = NumShards /\ sum >= MaxCapacity THEN Idle
                                   ELSE [op[c] EXCEPT !.next = s + 1, !.sum = IF s = NumShards THEN 0 ELSE sum]]
    /\ UNCHANGED <<syncMode, badger, closed, closer, closeErrors, syncer, history>>

BeginDelete(c) ==
    /\ ~closed
    /\ op[c] = Idle
    /\ op' = [op EXCEPT ![c] = [kind |-> "delete", next |-> NumShards + 1, sum |-> 0]]
    /\ UNCHANGED <<syncMode, badger, closed, closer, closeErrors, syncer, history>>

\* db.Update under the shard's lock; with SyncWrites it returns when the
\* write is on disk.
Update(s) ==
    /\ written' = [written EXCEPT ![s] = @ + 1]
    /\ IF syncMode = "immediate"
       THEN /\ synced' = [synced EXCEPT ![s] = written'[s]]
            /\ promised' = [promised EXCEPT ![s] = written'[s]]
       ELSE UNCHANGED <<synced, promised>>

\* The transaction on the key's shard s, or Badger's error: Close may have been
\* faster.
Write(c, s) ==
    /\ op[c] # Idle /\ op[c].next > NumShards
    /\ op' = [op EXCEPT ![c] = Idle]
    /\ \/ /\ s \in open /\ ShardTotal(written) < MaxWrites
          /\ Update(s)
          /\ late' = IF op[c].kind = "set" /\ ShardTotal(measured) >= MaxCapacity THEN late + 1 ELSE late
       \/ UNCHANGED <<written, synced, promised, late>>
    /\ UNCHANGED <<syncMode, measured, open, closed, closer, closeErrors, syncer, mark>>

\* Badger refreshes the size of one shard.
Measure(s, n) ==
    /\ s \in open
    /\ n <= written[s] /\ n # measured[s]
    /\ measured' = [measured EXCEPT ![s] = n]
    /\ late' = IF n > measured[s] /\ ShardTotal(measured') >= MaxCapacity THEN late ELSE 0
    /\ UNCHANGED <<syncMode, written, synced, open, closed, closer, closeErrors, syncer, op, mark, promised>>

-----------------------------------------------------------------------------
(* The sync worker and Close. *)

\* A tick; once Close has cancelled the context the select may still take it.
Tick ==
    /\ syncMode = "periodic"
    /\ syncer = 0 /\ open # {}
    /\ syncer' = 1
    /\ mark' = written
    /\ UNCHANGED <<syncMode, badger, closed, closer, closeErrors, op, late, promised>>

\* sync goes on to the next shard, or returns: the writes that were there when
\* it began must be on disk then, those of shards whose db.Sync failed apart.
SyncNext(owed) ==
    IF syncer < NumShards
    THEN syncer' = syncer + 1 /\ mark' = owed /\ UNCHANGED promised
    ELSE /\ syncer' = 0
         /\ promised' = [s \in Shards |-> IF owed[s] > promised[s] THEN owed[s] ELSE promised[s]]
         /\ mark' = Each(0)

\* Mutant: the last shard is left out.
SyncShardButLast ==
    /\ syncer # 0
    /\ synced' = IF syncer \in open /\ syncer < NumShards THEN [synced EXCEPT ![syncer] = written[syncer]] ELSE synced
    /\ SyncNext(mark)
    /\ UNCHANGED <<syncMode, written, measured, open, closed, closer, closeErrors, op, late>>

\* sync, one shard at a time; the error of db.Sync is dropped.
SyncShard ==
    /\ syncer # 0
    /\ \/ /\ syncer \in open
          /\ synced' = [synced EXCEPT ![syncer] = written[syncer]]
          /\ SyncNext(mark)
       \/ UNCHANGED synced /\ SyncNext([mark EXCEPT ![syncer] = 0])
    /\ UNCHANGED <<syncMode, written, measured, open, closed, closer, closeErrors, op, late>>

BeginClose ==
    /\ ~closed
    /\ closed' = TRUE
    /\ closer' = 1
    /\ UNCHANGED <<syncMode, badger, closeErrors, syncer, op, history>>

\* db.Close under the shard's lock writes everything to disk, or fails, and
\* Close goes on and returns the error at the end.
CloseShard ==
    /\ closer \in Shards
    /\ open' = open \ {closer}
    /\ \/ synced' = [synced EXCEPT ![closer] = written[closer]] /\ UNCHANGED closeErrors
       \/ closeErrors' = closeErrors \cup {closer} /\ UNCHANGED synced
    /\ closer' = closer + 1
    /\ promised' = IF closer = NumShards
                   THEN [s \in Shards |-> IF s \in closeErrors' THEN promised[s] ELSE written[s]]
                   ELSE promised
    /\ UNCHANGED <<syncMode, written, measured, closed, syncer, op, late, mark>>

\* The process or the machine goes down; cut[s] of a shard's writes are left
\* for the next New.
Crash(cut) ==
    /\ open # {} \/ synced # written
    /\ \A s \in Shards : cut[s] \in synced[s] .. written[s]
    /\ written' = cut /\ synced' = cut /\ measured' = Each(0)
    /\ open' = {}
    /\ closed' = TRUE
    /\ closer' = NumShards + 1 /\ closeErrors' = {}
    /\ syncer' = 0
    /\ op' = [c \in Clients |-> Idle]
    /\ late' = 0 /\ mark' = Each(0)
    /\ UNCHANGED <<syncMode, promised>>

StoreNext ==
    \/ \E c \in Clients : BeginSet(c) \/ ReadSize(c) \/ BeginDelete(c)
    \/ \E c \in Clients, s \in Shards : Write(c, s)
    \/ \E s \in Shards, n \in 0 .. MaxWrites : Measure(s, n)
    \/ Tick \/ SyncShard \/ BeginClose \/ CloseShard
    \/ \E cut \in [Shards -> 0 .. MaxWrites] : Crash(cut)

StoreSpec == StoreInit /\ [][StoreNext]_storeVars

-----------------------------------------------------------------------------
(* Properties. *)

\* Although Set checks the capacity before it takes a lock, and on sizes read
\* at different times, a full store takes at most one more Set of each client
\* until the measured size of some shard falls.  (Then the sum a Set reads may
\* be below the capacity although the store is full all the time.)
OvershootBounded == late <= Cardinality(Clients)

\* A crash takes no write back that returned in immediate mode, that was there
\* when a sync began which has ended and whose db.Sync of the shard succeeded,
\* or that came before the end of a Close whose db.Close of the shard succeeded
\* - also when Sets, the sync worker and Close overlap, and other shards fail.
\* (A sync does not say which shards it missed: what it had to make durable is
\* then left to the next one, or lost.)
PromisedSurvives == \A s \in Shards : promised[s] <= written[s]
=============================================================================
