# A TLA+ specification of tieredcache

tieredcache is a cache in Go with an in-memory tier (L0), a tier on disk in
Badger (L1), an optional chain of external sinks (L2), a write-ahead log, and
snapshots of L0. This directory models the parts of it whose correctness
depends on order: operations that interleave without a common lock, goroutines
that carry copies of values, counters updated in several places, and what is on
disk after a crash. TLC checks the models on small instances; the safety properties they
have there are also proved for all instances with TLAPS.

The definitions are translated from the code, and where the code and its
documentation disagree the models follow the code. `PROJECT.json` gives, for
every definition, the file and lines it models.

## 1. Inventory

### Parts, state and operations

| Part (source) | State | Operations |
|---|---|---|
| L0 shard (`pkg/l0/l0_cache.go`) | map of entries, clock ring, `freqSize`, `clockHand`, `usedMemory`, `weight` | `Set` with its eviction loop, `Delete`, `Demote`; reads: `Get`, `Exists`, `GetTier`, `Promote`, `EvictCandidates` |
| L0 snapshots (`pkg/l0/snapshot.go`, timer and `Close` in `l0_cache.go`) | `snapshotting` flag, temporary file, published files | `snapshot`, `WriteSnapshot`, `RestoreFromSnapshot`, cleaning |
| Tiered operations (`pkg/tieredcache/tieredcache.go`) | the tiers, calls in progress, promotions in flight | `Get`, `Set`, `Delete`, `SetToL1`, the promotion goroutine |
| Tiering worker (same file) | batch of candidates | `performTiering`: copy, verify, demote |
| Pre-warming (same file, `preWarmL0`) | L1 iterator, two bounded channels, worker pool | one producer, several workers |
| Lifecycle (same file; `New`/`Close` of L0 and L1) | flags `closed`, `initializing`, `initialized`; the tier fields; Badger's directory locks | `Initialize`, `Close` |
| Write-ahead log (`pkg/replay/recovery.go`) | file, `sequence`, mutex, checkpoint files | `Write`, `createCheckpoint`, `Close`, `initWAL`, `Recover` |
| L1 (`pkg/l1/l1_badger.go`) | Badger shards, their sizes, sync worker, iterators and their transactions | `Get`, `Set`, `Delete`, iterators, `New`, `Close` |
| Retry queue, dead letter queue (`pkg/l2/retry.go`) | queue in memory, one file per item | `Add`, `GetAll`, `LoadFromDisk` |
| Sink manager (`pkg/l2/sinks.go`) | registered sinks, closed flag, counters | `RegisterSink`, `Write`, `WriteBatch`, `Delete`, `Close`; reads: `GetSink`, `PingAll`, `Stats` |
| Configuration (`pkg/config/config.go`) | none of its own | load, defaults, validation |
| Errors and constants, statistics, commands | counters | none that other parts depend on |

### How the parts interact

A client's `Set` calls L0, then L1, then the log, one after the other, with no
lock across the calls; `Delete` does the same. `Get` asks L0, then L1, and
starts a goroutine that stores an L1 hit in L0 at any later time. The tiering
worker takes L0 entries, writes them to L1 and removes the *key* from L0.
Pre-warming and the restore of a snapshot write to L0 in the background of a
cache that already serves. `Initialize` and `Close` share plain fields and
coordinate by three atomic flags. Snapshots are taken by a timer, by `Close`
and by direct callers, which share one flag in two layers of code.

### What is hard

* **Copies that outlive their original**: promotions, tiering batches and
  pre-warming carry values that may have been replaced or deleted when they are
  stored.
* **Several tiers, no transaction**: a tier may refuse a change that the others
  have made, and two changes may reach the tiers in different orders.
* **Counters kept by hand**: `freqSize`, `usedMemory` and `weight` are changed
  in four places each, one of them unsigned; the eviction scan uses `freqSize`
  as its modulus although the occupied slots need not be the first ones.
* **Crashes**: the temporary file and the rename of a snapshot; torn log
  records; sequence numbers that start again; retry files removed too early or
  too late.
* **Bounded channels** between goroutines that wait for each other, and worker
  pools that take a key's records out of order.
* **Checks made before the lock**: L1's capacity, the closed flags.

### What makes the parts correct

* L0 shard: exact counters; eviction only when there is too little room; an
  entry keeps its slot while it stays, and leaves the reach of eviction only at
  the end of a scan range that shrinks; every `Set` ends.
* Tiers: after a change that met no other change, no old copy and no failure,
  all tiers hold its result, and later promotions and tiering keep that.
* Pre-warming: every entry of L1 is tried, and each read one is stored or
  rejected once; it ends.
* Snapshots: one writer; published files are whole and exact for untouched
  keys; the newest file survives and is the one restored, but for what clients
  changed and `Set` evicted meanwhile.
* Log: records in order of their numbers; checkpoints behind the log; a closed
  log is on disk and stays; a restart replays what was written, in order, and
  says whether a record failed.
* L1: once the sizes Badger reports reach the capacity, at most the Sets under
  way are still taken; what was synced successfully survives a crash.
* Lifecycle: a locked directory belongs to the field's L1 or to a running
  `l1.New`; an initialized cache has its tiers; `Close` closes what is open.
* Retry queue: an item is held once and never vanishes; a saved item survives
  until it is loaded again.
* Sinks: an error is reported exactly when a sink refused; the sinks agree;
  `Close` tells which sinks are still open; every call returns.

The hazards, each at its line with the properties that would catch it, are the
`hazards` of `PROJECT.json`.

## 2. Modules

| Module | Models | Extends or instantiates |
|---|---|---|
| `LossyStore` | what a shard of L0 promises: a map that drops entries only to make room | |
| `L0Shard` | the shard: map, clock ring, counters | `INSTANCE LossyStore` |
| `TieredCache` | Get, Set, Delete, SetToL1, promotion, tiering, pre-warming's copies, Close | |
| `L1Iterator` | L1's iterator: state, and the parts of its `Next` and `Close` | |
| `PreWarm` | `preWarmL0`, composed with the iterator it runs on | `EXTENDS L1Iterator` |
| `Lifecycle` | Initialize and Close | |
| `Snapshot` | snapshots of L0 and their restore | |
| `Wal` | the write-ahead log, and which records recovery selects | |
| `RecoverApply` | how recovery applies the selected records | |
| `L1Store` | L1's room and durability: capacity check, sync worker, Close, crash | |
| `RetryQueue` | the persistent retry queue and the dead letter queue | |
| `SinkManager` | the fan-out to L2's sinks | |
| `ShardProofs` | inductive invariants and theorems (section 4) about both tiers' shards | `EXTENDS L0Shard, L1Store, TLAPS` |
| `RecoveryProofs` | the same for both halves of recovery | `EXTENDS Wal, RecoverApply, TLAPS` |
| `TieredCacheProofs`, `PreWarmProofs`, `SnapshotProofs`, `LifecycleProofs`, `RetryQueueProofs`, `SinkManagerProofs` | the same for the module they are named after | that module, TLAPS |
| `MC...` | the symmetry sets for TLC | the module of the same name |

Some definitions are preceded by a variant marked `Mutant:`. It
is the definition with a plausible bug, used to see that a property notices it;
no specification uses it.

### L0Shard

A value is its length in bytes; 0 is an absent entry. All operations hold the
shard's mutex, so `Delete` and `Demote` are steps. `Set` is a step for taking
the lock (`SetLock`), one for each call of `evictOne` (`Evict(i)`, where `i` is
the number of slots passed over, or `EvictNothing`), and `Store` for the rest,
`addToClock` included. What looks odd in the model is what the code does:
`NeedsRoom` adds bytes and units; `ScanSlot` reduces modulo `freqSize`, but the
hand modulo the ring's length; `Delete` leaves the key's slots in the ring; an
update enters the key again; a full ring gives a new key no slot.

`LossyStore` has no ring and no counters. Its `Drop` is allowed only while a
put is in progress and the *true* volume plus the put's units exceeds the limit.

### TieredCache

One call on a tier is one step, since each is atomic under the tier's own lock;
the calls of one operation interleave with everything else. `op[c]` is where a
client is, `promo` the promotion goroutines that have not stored their copy,
`worker` the tiering worker between its calls, `warm` the copies pre-warming
has read (a shard of L1 at a time) and not stored. Storing in L0 may evict any
other keys (that is `LossyStore`), L1 may refuse a write, the log may fail, and
`Close` shuts the tiers one at a time while calls are in progress. Values are
version numbers; what a call returns is not modelled. `latest` and `mixed` are
history: `mixed` has the keys whose last change overlapped another one or a copy in flight, or failed in a tier.

### PreWarm and L1Iterator

Producer, workers, `entryChan` (a sequence of at most `BatchSize`) and
`resultChan` (a number of at most one per worker). The producer's `iter.Next()`
is the iterator's: one step for each shard entered, entry passed or shard left,
with a transaction per shard that sees the shard as it was when it began, while
`ChangeL1` changes the store. The iteration may stop at any entry, since the
memory checks depend on the runtime; L0 rejects the keys in `Bad`, and all of
them once it is closed; the values of `Unreadable` keys are skipped. Close
closes L0 and then the shards, and entering a closed shard panics.

### Lifecycle

Instances of L0 and L1 are numbers, so that a field can point to one instance
while another is open. `l0.New` may fail; L1 opens its shards one at a time and
any shard may fail; `dirs` is Badger's directory lock (external).

### Snapshot

Timer, Close and any number of direct callers pass through the flag's layers
(`outer` for `snapshot()`, `inner` for `WriteSnapshot`), then the two passes
over the shards (one key per shard), the rename, and the cleaning. A file is
its sequence of frames. Checksum, sync, close and rename are one step
(`Publish`), before which an I/O error or a crash leaves no file of a final
name. An I/O error may end each writing step and a crash each state; a restart
restores the newest file, frame by frame, next to clients. `Store` is
`l0.Set`, for clients and for the restore: it may evict any of the resident
entries while the new one has no room, as though all keys shared one shard
with room for `Room` entries; which ones it takes is the business of `L0Shard`.
`evicted` and `changed` are history.

### Wal

Write calls (flag, mutex, number, write), checkpoint goroutines, Close, process
and machine crashes (the latter lose an unsynced suffix and may tear a record),
reopening, and the records Recover selects. Timestamps are kept as whether they
have a monotonic clock reading, which Go's `String()` prints and JSON does not
carry; the checksum is the tuple of what is hashed.

### RecoverApply

What `Recover` does with the records `Wal` selects: the producer's `select`
with its `default` (a nil into `errorChan` if there is room), `entryChan`, the
workers' calls of `applyFunc` and their blocking reports, and the collection of
errors after `wg.Wait`. The log is any sequence of sets, sets of empty values
(which `Set` logs although the tiers refuse them) and deletes. A delete of a
key that L0 does not hold is an error, as in the code. Close may cancel the
context and then close L0 at any point.

### L1Store

A shard is the number of writes it has taken and how many are on disk; keys are
left to the other modules. `ReadSize` is one turn of `DiskUsage`, which Set
runs before it takes any lock; what Badger reports as a shard's size
(`measured`) lags behind and may fall. `db.Sync` and `db.Close` of a shard may
fail: `sync` drops the error and goes on, `Close` keeps it (`closeErrors`) and
goes on. `promised` is history: writes that returned in mode "immediate", that
a finished sync found on a shard it synced without error, or that preceded the
end of a Close on a shard it closed without error. A crash keeps a prefix of
each shard's writes, at least what is on disk; it may come after Close as well.

### RetryQueue

Add and GetAll read the slice and write it back in two steps under the mutex,
and LoadFromDisk, which takes no mutex, does the same next to them, so that a
lost update is possible; `raced` is history and tells when they overlapped.
LoadFromDisk may be called at any time, lists the files that are there then,
and reads, appends and removes them one by one; reading and removing may fail.
A file's name is the wall clock's, so an Add may take the name of a file that is
there and replace it (`displaced`); `here` has the items this process has added
or loaded, and `reread` those of them whose file LoadFromDisk read all the same.
The caller (external: no code in the repository uses the queues) finishes items one
at a time or hands them to the dead letter queue, and may crash at any point.

### SinkManager

`call[w]` has one stage per sink the call was sent to: in the sink, answered,
done. A goroutine of Write ends only when Close does not hold the lock. `last`
is history: the last call begun, the sinks it was sent to, and whether another
one was under way. The sinks are external; each holds a value or refuses, and
may fail to close (`closeErrors`). `late` has the sinks registered behind a
Close that has ended.
`Calls` of the run has Write and Delete; WriteBatch is a Delete that stores a
value, as far as control goes.

## 3. Runs

Passing runs:

| Run | Instance | Shows |
|---|---|---|
| `l0_shard` | 3 keys, lengths 1 and 3, units of 2, limit 4, ring of 3 | counters exact, slots kept, every Set ends, `LossyStore` implemented |
| `cache_clients` | 2 clients, 1 key, 2 values, 2 promotions, log, refusals, tiering | `TiersAgree` |
| `cache_keys` | 1 client, 2 keys inherited in L1, 2 more values, pre-warming, L0 evictions, batches of two | `TiersAgree` |
| `prewarm` | 5 keys in 2 shards, any contents, 1 change of L1, 2 workers, batches of 2, two rejected keys and an unreadable one, Close at any time | no entry dropped or handled twice; every untouched entry tried; it ends unless more stores fail than there are workers |
| `snapshot` | 2 direct callers, timer, Close; 2 keys, room for 2, 3 values, one file kept, one stop | one writer, whole and exact files, newest kept and restored but for changed and evicted keys |
| `wal` | 2 writers, 3 writes, a checkpoint every 2, 2 stops | order, checkpoints behind the log, closed logs last |
| `recover_apply` | all logs of 3 records on 2 keys, 2 workers, channels of 2 and 4, Close | replay in log order but for keys that crossed; an honest result; it returns unless errors overflow |
| `lifecycle` | 2 callers, 2 shards, 3 attempts, a Close | every lock has its owner, initialized caches serve, an undisturbed Close closes everything |
| `l1_store` | 2 clients, 2 shards, both sync modes, capacity 1, 5 writes, failing syncs and closes, a crash | overshoot of at most one Set per client; writes synced or closed without error survive |
| `retry_queue` | 2 items, queue of 1, dead letters of 1, 3 calls of LoadFromDisk, equal file names, 2 crashes | one holder, nothing vanishes, saved items survive to the next load |
| `sinks` | 2 sinks, 2 callers, 2 calls, a Close | errors reported, sinks agree, Close tells what is open, calls return |

A run that shows a disagreement between the code and what a document says of
it (a finding in `PROJECT.json`, with the quoted line): `wal_replay`. No record
passes its checksum after a restart, since the checksum covers the monotonic
clock reading, and nothing is replayed.

Further behaviours that the models have, because the code has them, and that
the passing properties are stated around:

* `L0Shard` (`l0_cache.go:216`): a shard may exceed its limit by more than its
  largest value, as bytes are compared with units and a value is stored when
  nothing could be evicted. `evictOne` (`:411`) returns false after a pass that
  only cleared reference bits, and does not look at slots above `freqSize`: with
  the ring `[a, b, c]`, Demote of `a` leaves `c` in a slot no scan comes to until
  the ring fills up again. `TrackingKept` says that no key gets out of reach in
  any other way.
* `TieredCache` (`tieredcache.go:384`): a promotion that read L1 before a Set or
  a Delete stores its old value in L0 afterwards, where it stays. Set (`:431`)
  returns no error for a value that L1 refused. `mixed` has these keys.
* `TieredCache` (`tieredcache.go:649`): the tiering worker writes the value it
  collected over a newer one in L1, verifies only that the key exists, and
  demotes the newer one from L0, although the comment at `:654` says that phase
  2 "prevents data loss". Pre-warming (`:245`) may store an old or a deleted
  value over what a client has done since. `mixed` has these keys too.
* `PreWarm` (`tieredcache.go:246`): one failed store more than there are workers
  (for instance after a Close) blocks workers, producer and `wg.Wait` for ever.
  After Close the iterator may enter a closed database, which panics
  (`l1_badger.go:580`); transactions on shards it has left stay open (`:567`).
* `Snapshot` (`l0_cache.go:498`): `snapshot()` takes the flag that
  `WriteSnapshot` then finds taken, so neither the timer nor Close ever writes
  a file, although the comment at `:379` says "Take a final snapshot before
  closing". Only direct callers write.
* `Snapshot` (`snapshot.go:286`): the restore of a whole file always ends with
  an error at its checksum, after all entries have been stored. Storing one may
  evict others that were restored before (`:309`), of which nothing is told.
* `Wal` (`recovery.go:140`, `:361`): a restarted log numbers from one next to
  old checkpoints, and appends behind a torn record, where nothing is read.
* `Lifecycle` (`tieredcache.go:80`, `:84`): a Close during Initialize leaves
  tiers open; a second Initialize leaves the cache without L0. The history
  variables `raced` and `again` mark these cases. In the first one the L1 that
  Initialize puts into its field behind Close is closed by nobody, since every
  later Close returns at the flag (`:563`).
* `RecoverApply` (`recovery.go:254`): with several workers two records of a key
  may be applied in the wrong order, although SPEC.md:245 says "Replay WAL
  entries in order"; a cancelled Recover still takes the last record's number
  as its sequence; a failed record may block Recover for ever once nils and
  errors fill `errorChan`.
* `L1Store` (`l1_badger.go:402`): the sum of sizes read at different times may
  be below the capacity although the store is full at all times, when one
  shard shrinks while another grows. A sync whose `db.Sync` failed on a shard
  (`:487`) ends like any other, and a crash may take writes it should have made
  durable (`plans/failure_analysis.md`, L1-05); so may a crash after a Close
  that returned the shard's error (`:437`).
* `RetryQueue` (`retry.go:61`, `:109`): an item is lost by a crash between its
  loading and its delivery, and a delivered item is loaded again. A LoadFromDisk
  called after an Add (`:89`) loads the item a second time, as does one after a
  file that could not be removed. Two Adds at the same nanosecond (`:75`) share
  one file, which has the second item only. An overlapped append of
  LoadFromDisk (`:108`) loses or doubles items. A dead letter whose file cannot
  be written (`:165`) is an error although the queue has the item.
* `SinkManager` (`sinks.go:285`): calls after Close reach closed sinks, a sink
  registered after Close is never closed, and a second Close returns before the
  first is done. Write counts itself twice (`:153`, `:160`).

### Bounds

*l0_shard*: with three keys and three slots the ring can be full of duplicates
of one key while another has no slot, and the occupied slots can have gaps;
lengths 1 and 3 with units of 2 make bytes and units differ, and two values
exceed the limit. *TieredCache*: two mutators, or one mutator and one carrier
of a copy, are enough for any overlap on a key, and keys meet only in L0's
evictions and in tiering batches, for which two keys suffice. *PreWarm*: five
entries in batches of two make two full batches and a rest, more than the
channel and the workers hold together; two shards have a first and a last, and
one change can come before, during or after a shard's iteration. *Wal*: three writes reach one
checkpoint and one record behind it; two stops allow a crash of a recovered
process. *RecoverApply*: three records are two of one key and one of another,
or three of one; four places in `errorChan` can be filled by the producer's
nils and leave too few for errors. *L1Store*: two clients pass the check
together on two shards whose sizes differ; five writes go past the capacity
and leave unsynced ones on both shards. *SinkManager*: two calls overlap or
follow each other, two sinks answer in either order. *Snapshot*: two direct callers are the
two that can both get past the outer layer; two keys make each pass
interruptible, and with room for two entries a Set of either may evict the
other; one file is kept, so the second one is cleaned, and the one stop may
fall between rename and cleaning. That a file has more entries than there is
room for is left to the proof. *Lifecycle*: two shards have a first and a last, three attempts
allow fail, succeed, and again. *RetryQueue*: a queue of one is
overfilled when an item is loaded next to an added one; two items can share a
file name; three loads allow one before and one after a crash and one more of
a file that stayed; the second crash is the one that matters.

The bounds are the constants commented `bound:`.

`SYMMETRY` is used for sets of model values in runs of safety properties only.
Deadlock checking is off where the system may stop: calls run out of the bounded
versions, items or attempts, and closed caches rest. It is on for `l0_shard`
and `snapshot`.

### Fairness

`L0Shard`: weak fairness of the steps of a Set that holds the lock; the loop
has no blocking call, so the scheduler runs it. `PreWarm`: weak fairness of the
producer and of each worker; a goroutine whose channel operation can proceed is
run. `RecoverApply`: the same for `Recover`'s goroutines. `SinkManager`: weak
fairness of the goroutines of a call, of the sinks' answers (their calls take a
context, and a sink that never answers blocks its caller for ever in the code
too) and of a Close that has begun. Nothing is assumed of clients, of `Close`
being called, or of failures.

## 4. Proofs

Eight modules `...Proofs` prove, with TLAPS, that every behaviour of the
specification has the safety properties TLC checks on a small instance, for
every value of the constants that satisfies the named assumptions. All of them
go the same way: `IInv` is the inductive invariant, a conjunction of named
parts; `InitIInv` and one lemma `...KeepsIInv` per action (or group of like
actions) establish it; the theorem `Invariant` is `Spec => []IInv`, and the
other theorems follow from what `IInv` implies. TLC checked each `IInv` on the
module's run before it was proved. In the second parts of `ShardProofs` and
`RecoveryProofs` the invariants are `StoreInv` and `ReplayInv`; the names of
`L1Store` and `RecoverApply` differ from those of `L0Shard` and `Wal` so that
one module can extend both.

| Module | Theorems | Property of the run |
|---|---|---|
| `ShardProofs` | `TypeCorrect`, `RingAccounted`, `MemoryAccounted`, `TrackingIsKept`, `Refinement` | `TypeOK`, `RingAccounting`, `MemoryAccounting`, `TrackingKept`, `ImplementsLossyStore` |
| `ShardProofs`, second part | `PromisesAreKept`, `OvershootIsBounded` | `PromisedSurvives`, `OvershootBounded` (`L1Store`) |
| `TieredCacheProofs` | `TypeCorrect`, `TiersStayInAgreement` | `TypeOK`, `TiersAgree` |
| `PreWarmProofs` | `TypeCorrect`, `EntriesStayApart`, `WarmingIsComplete` | `TypeOK`, `EachEntryOnce`, `WarmedIsComplete` |
| `SnapshotProofs` | `TypeCorrect`, `WritersAreApart`, `FilesAreWholeAlways`, `UntouchedKeysAreExact`, `NewestIsKept`, `RestoreIsExact` | `TypeOK`, `OneWriter`, `PublishedIsWhole`, `SnapshotIsExact`, `NewestSurvives`, `RestoredIsNewest` |
| `RecoveryProofs` | `TypeCorrect`, `NumbersAscend`, `CheckpointsStayBehind`, `CloseSyncsAll`, `ClosedLogSurvives`, `NothingIsReplayed` | `TypeOK`, `NumberedInOrder`, `CheckpointBehindLog`, `ClosedIsSynced`, `ClosedSurvives`, none |
| `RecoveryProofs`, second part | `ReplayKeepsOrder`, `RecoverIsHonest` | `ReplayedInOrder`, `ResultIsHonest` (`RecoverApply`) |
| `LifecycleProofs` | `TypeCorrect`, `DirectoriesAreHeld`, `InitializedCacheServes`, `CloseLeavesNothingOpen` | `TypeOK`, `DirectoriesAreOwned`, `InitializedServes`, `CloseClosesAllTiers` |
| `RetryQueueProofs` | `HeldOnce`, `NothingVanishes`, `FilesSurvive` | `OneHolder`, `Accounted`, `SurvivesCrash` |
| `SinkManagerProofs` | `ErrorAnswered`, `SinksLeftAgreeing`, `CloseAccountsForSinks` | `ErrorIffRefused`, `SinksAgree`, `CloseTellsWhatIsOpen` |

### Assumptions

They are the `ASSUME`s of the modules: bounds are natural numbers, sizes that
the code divides by or indexes with are positive, sets of keys and workers are
finite where they are counted, markers differ from data, and the direct callers
of `Snapshot` are neither its timer nor its Close. Two of them were
missing until the proofs asked for them: `None` is not a file (`Snapshot`), and
neither `None` nor `"close"` is the name of a writer (`Wal`, where they stand
for the other holders of the mutex). Nothing else is assumed: in particular
the number of keys, shards, clients, callers, sinks, records and restarts is
arbitrary.

### Why the properties are not inductive, and what is

* **L0Shard**: `IInv == TypeOK /\ RingAccounting /\ MemoryAccounting`. That
  `usedMemory` stays natural needs it to be the sum, and that `freqSize` stays
  natural needs it to be the number of slots. Sums are cardinalities of sets of
  cells (`Cells(f)`: one pair per key and unit), so that `TotalUpdate` follows
  from the cardinality of disjoint unions; `SlotCount` does the same for the
  ring. The refinement needs `IInv` too: `Drop` is guarded by the true volume
  while the code tests its counter. `TrackingIsKept` holds because no action
  except `Evict` and `Demote` empties a slot, and these remove the key from the
  map in the same step; and because each of them takes one position at most from
  the scan range, its last (`ScanShrinks`), which needs `freqSize` to be exact.
* **TieredCache**: `TiersAgree` speaks of keys at rest, and says nothing while
  a change is under way. `TiersFollow` says what the tiers hold for each place
  a change can have reached; `OneMutator` that a key outside `mixed` is changed
  by one call at a time and has no copy under way meanwhile; `CopiesAreLatest`
  that a copy of such a key, in a promotion, a tiering batch or pre-warming, is
  of its latest value, so that storing it at any later time does no harm.
  `CallShape` rules out calls in places their kind never comes to.
* **PreWarm**: `GoroutinesFollow` ties the producer's and the workers' places
  to the channel (nobody has ended while something is in it); `IteratorOn` and
  `ReadBehind` say where the iterator stands and that what has been read lies
  behind it, one entry a key, which makes the next entry a new one;
  `ReadIsCurrent` and `ReadIsComplete` that it is what L1 holds, with nothing
  readable left out, except where clients changed keys; `OnePlace` that no
  entry is in two places, from which the count in `EachEntryOnce` stays exact.
  `FirstEntry` (a transaction that is not empty has a first key) rests on the
  library's theorem that the natural numbers are well-founded.
* **Snapshot**: `OneOwner` extends `OneWriter` to the caller between the outer
  and the inner look at the flag, for whom the flag is up as well; `TempFollows`
  describes the temporary file during the second pass, `FilesAreWhole` the
  published ones and the one being restored, `RestoreFollows` the rest of the
  file that is still to be read and, with `RestoredUpTo`, what L0 has of the
  frames read so far; `NoneEvicted` that with room for the whole file no frame
  makes Set evict: the frames have different keys, so L0 holds fewer entries
  than the file at each of them. `DownIsEmpty` is what a restart starts from.
* **Wal**: `Mutex` gives the writer between its number and its record, or
  `Close` between its sync and the closing, exclusive use; `SequenceAhead` puts
  the records of this process at or below the sequence, strictly below it while
  one is being written, so that the next one comes last (`NumberedInOrder`) and
  a checkpoint read under the mutex is behind it (`CheckpointsBehind`);
  `Counted` bounds the sequence by the number of calls that wait no more;
  `SyncedUntilClosed` and `SafeIsSynced` carry the synced part from `Close`
  through crashes. `RecordsAreStamped` (every record was hashed with a
  monotonic clock reading) gives `NothingIsReplayed`: the disagreement that
  `wal_replay` shows on one log holds for all of them.
* **Lifecycle**: `OneInitialize` (the flag is up exactly while one caller is
  past it) and `NewestIsMade` identify the instances that caller is making
  with the fields; `ShardsOpened`, `OpenUntilClose` and `OnlyFieldOpen` say
  what is open at each place of it, and `CloseTracked` what is left when
  `Close` comes to each tier.
* **RetryQueue**: `Undisturbed` says that, until LoadFromDisk's append has been
  overlapped, the slice a section has read is the queue; that the item Add will
  append is new to the process, and the one LoadFromDisk will append is new or
  in `reread`; and that what the process has had (`here`) is what it holds, or
  is delivered or a dead letter. `Numbered` says that files, and what the process
  has had, are of items offered before, so that the next item is in no file.
  `SurvivesCrash` is inductive on the types alone and does not need `~raced`.
* **SinkManager**: `ErrorKept` describes `lastErr` while some goroutines of a
  call have ended and others have not; `LastHeld` the sinks that have answered
  the last call, while no other call has met it; `CloseTracked` splits the
  registered sinks into those closed, those that failed to close and those
  `Close` is still to come to, which needs the lock RegisterSink takes.
* **RecoverApply** (`ReplayInv`): `ChannelInOrder` says that the channel holds
  the last records sent, in log order, and `TakenOnce` that everything before
  them is applied, failed or in exactly one worker's hands; together they make
  a record that is taken later than all taken before it. `OneInHand` then says
  that a record in hand whose key has not crossed is the only one of its key
  there and later than the applied ones, and `HoldsLast` is `ReplayedInOrder`
  without its `CHOOSE`. For `Success`, `ErrorsKept` follows a failure from the
  worker to `errorChan`.
* **L1Store** (`StoreInv`): `ShardKept` puts `promised <= synced <= written`
  on each shard, with what a running sync and `Close` have done so far: a shard
  that is closed without error has all its writes on disk, and one the sync has
  passed has those it was found with, unless its `db.Sync` failed.
  `LateAreOld` is the argument for the overshoot: once a Set was done on a full
  store, there are sizes, all reached and none undercut since, that fill it by
  themselves; a call that began later reads at least as much and is refused, so
  only the calls from before can add to `late`, each once. The sum over the
  shards is a number of cells, as in `L0Shard`.

### Only model-checked

* `SetTerminates`, `EndsIfFewFail`, `EndsUnlessErrorsOverflow` and `CallsEnd`:
  liveness under fairness is out of this prover's reach.
* `FullReplay` is violated, as the finding says; `NothingIsReplayed` is why.

## 5. Not modelled

* TTLs and lazy expiry; promotion and pre-warming store with TTL 0, so that a
  promoted entry outlives the L1 entry it was copied from.
* Badger, beyond what the code relies on; sync mode "disabled", which asks
  Badger for a database in memory with a directory.
* The L2 read in `Get`, since no sink is registered anywhere; `PingAll`.
* `CalculateBackoff` and `IsRetryable`: pure functions that nothing calls.
* The restore of a snapshot as a carrier of old values into a serving cache;
  `Snapshot` has it next to clients of L0 alone.
* Configuration, statistics, the commands: sequential input and output. The
  validation does not look at the pre-warming's workers and batch size; with no
  workers pre-warming never ends, and the models assume there are some.
* The data race on `AccessedAt` and `AccessCount`: no code reads these fields.
  Torn values under data races (`lastErr`, the slice in LoadFromDisk).

## 6. Plan

What is left is proof:

1. What the tiers promise as a map, as `LossyStore` does for one shard, and
   that `TieredCache` keeps it for the keys outside `mixed`.
2. An action property of the log, to be tried with TLC first: the highest
   checkpoint saved never falls.
