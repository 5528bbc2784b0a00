------------------------------ MODULE PreWarm ------------------------------
(***************************************************************************)
(* preWarmL0 (pkg/tieredcache/tieredcache.go): after a restart a producer  *)
(* iterates over L1 (L1Iterator) and hands the entries, batch by batch, to *)
(* a pool of workers through a bounded channel; the workers store them in  *)
(* L0 and report errors through a second bounded channel, which is read    *)
(* only after all workers have ended.  It runs in the background of a      *)
(* cache that serves: L1 changes under the iterator, and Close may close   *)
(* L0 and then the shards of L1.                                           *)
(*                                                                         *)
(* A channel is a sequence (entryChan) or, where only its filling matters, *)
(* a number (resultChan).  Memory pressure, which the code reads from the  *)
(* runtime, may end the iteration at any entry.                            *)
(***************************************************************************)
EXTENDS L1Iterator, Sequences, Functions

CONSTANTS
    Workers,    \* the PreWarmWorkers goroutines
    BatchSize,  \* PreWarmBatchSize: batch length and capacity of entryChan
    Bad,        \* keys whose entries L0 rejects (longer than its MaxPayloadBytes)
    Unreadable, \* keys whose values Badger cannot read
    MaxChanges, \* bound: changes of L1 during pre-warming
    MayClose    \* whether the cache may be closed during pre-warming

ASSUME WorkersAssumption == IsFiniteSet(Workers) /\ Workers # {} /\ BatchSize \in Nat \ {0}
ASSUME InputAssumption == Bad \cup Unreadable \subseteq Keys /\ MaxChanges \in Nat /\ MayClose \in BOOLEAN

ResultCap == Cardinality(Workers)

VARIABLES
    producer,   \* "next", "body", "send", "sendRest", "wait", "done" or "panicked"
    batch,      \* entries not sent yet, in order
    entryChan,
    chanClosed,
    doing,      \* doing[w]: entry in the worker's hands, or NoEntry
    at,         \* at[w]: "receive", "store", "report" or "ended"
    resultChan, \* errors in the buffer
    loaded,     \* entries stored in L0
    rejected,   \* entries l0.Set returned an error for
    l0Closed,
    version,    \* value of the last change of L1
    read,       \* history: entries that joined a batch
    cut,        \* history: whether a memory limit ended the iteration
    touched     \* history: keys changed during pre-warming

pool == <<doing, at, resultChan, loaded, rejected>>
vars == <<store, iterator, producer, batch, entryChan, chanClosed, pool, l0Closed, version, read, cut, touched>>

Init ==
    /\ db \in [Keys -> {Absent, 1}]
    /\ open = Shards
    /\ iter = NewIterator
    /\ txns = {}
    /\ producer = "next"
    /\ batch = <<>>
    /\ entryChan = <<>>
    /\ chanClosed = FALSE
    /\ doing = [w \in Workers |-> NoEntry]
    /\ at = [w \in Workers |-> "receive"]
    /\ resultChan = 0
    /\ loaded = {}
    /\ rejected = {}
    /\ l0Closed = FALSE
    /\ version = 1
    /\ read = {}
    /\ cut = FALSE
    /\ touched = {}

-----------------------------------------------------------------------------
(* The producer. *)

\* iter.Next(): turns that find no entry, one that does, and the end.
NextTurn ==
    /\ producer = "next"
    /\ InitEmptyShard \/ LeaveShard
    /\ UNCHANGED <<store, producer, batch, entryChan, chanClosed, pool, l0Closed, version, read, cut, touched>>

NextEntry ==
    /\ producer = "next"
    /\ InitShard \/ NextInShard
    /\ producer' = "body"
    /\ UNCHANGED <<store, batch, entryChan, chanClosed, pool, l0Closed, version, read, cut, touched>>

NextFalse ==
    /\ producer = "next"
    /\ \/ Exhausted /\ producer' = "sendRest"
       \/ InitPanics /\ producer' = "panicked"
    /\ UNCHANGED <<store, iterator, batch, entryChan, chanClosed, pool, l0Closed, version, read, cut, touched>>

\* The entry joins the batch, and a full batch is sent.
Collect ==
    /\ producer = "body"
    /\ iter.entry.key \notin Unreadable
    /\ batch' = Append(batch, iter.entry)
    /\ read' = read \cup {iter.entry}
    /\ producer' = IF Len(batch') >= BatchSize THEN "send" ELSE "next"
    /\ UNCHANGED <<store, iterator, entryChan, chanClosed, pool, l0Closed, version, cut, touched>>

\* Its value cannot be read.
Skip ==
    /\ producer = "body"
    /\ iter.entry.key \in Unreadable
    /\ producer' = "next"
    /\ UNCHANGED <<store, iterator, batch, entryChan, chanClosed, pool, l0Closed, version, read, cut, touched>>

\* A memory limit ends the loop.
StopIterating ==
    /\ producer = "body"
    /\ producer' = "sendRest"
    /\ cut' = TRUE
    /\ UNCHANGED <<store, iterator, batch, entryChan, chanClosed, pool, l0Closed, version, read, touched>>

\* Mutant: a send that does not wait for room.
SendUnbounded ==
    /\ producer \in {"send", "sendRest"}
    /\ batch # <<>>
    /\ entryChan' = Append(entryChan, Head(batch))
    /\ batch' = Tail(batch)
    /\ producer' = IF producer = "send" /\ batch' = <<>> THEN "next" ELSE producer
    /\ UNCHANGED <<store, iterator, chanClosed, pool, l0Closed, version, read, cut, touched>>

\* entryChan <- e: blocks while the buffer is full.
Send ==
    /\ producer \in {"send", "sendRest"}
    /\ batch # <<>>
    /\ Len(entryChan) < BatchSize
    /\ entryChan' = Append(entryChan, Head(batch))
    /\ batch' = Tail(batch)
    /\ producer' = IF producer = "send" /\ batch' = <<>> THEN "next" ELSE producer
    /\ UNCHANGED <<store, iterator, chanClosed, pool, l0Closed, version, read, cut, touched>>

CloseEntryChan ==
    /\ producer = "sendRest"
    /\ batch = <<>>
    /\ chanClosed' = TRUE
    /\ producer' = "wait"
    /\ UNCHANGED <<store, iterator, batch, entryChan, pool, l0Closed, version, read, cut, touched>>

\* wg.Wait(), then the results are drained and the iterator is closed.
Finish ==
    /\ producer = "wait"
    /\ \A w \in Workers : at[w] = "ended"
    /\ producer' = "done"
    /\ resultChan' = 0
    /\ CloseIterator
    /\ UNCHANGED <<store, batch, entryChan, chanClosed, doing, at, loaded, rejected, l0Closed, version, read, cut, touched>>

-----------------------------------------------------------------------------
(* The workers. *)

\* Mutant: the entry is read and taken off the channel in two steps.
ReceivePeeks(w) ==
    /\ at[w] = "receive"
    /\ entryChan # <<>>
    /\ doing' = [doing EXCEPT ![w] = Head(entryChan)]
    /\ at' = [at EXCEPT ![w] = "store"]
    /\ UNCHANGED <<store, iterator, producer, batch, entryChan, chanClosed, resultChan, loaded, rejected, l0Closed, version, read, cut, touched>>

Receive(w) ==
    /\ at[w] = "receive"
    /\ entryChan # <<>>
    /\ doing' = [doing EXCEPT ![w] = Head(entryChan)]
    /\ entryChan' = Tail(entryChan)
    /\ at' = [at EXCEPT ![w] = "store"]
    /\ UNCHANGED <<store, iterator, producer, batch, chanClosed, resultChan, loaded, rejected, l0Closed, version, read, cut, touched>>

\* The range loop ends when the channel is closed and empty.
End(w) ==
    /\ at[w] = "receive"
    /\ entryChan = <<>> /\ chanClosed
    /\ at' = [at EXCEPT ![w] = "ended"]
    /\ UNCHANGED <<store, iterator, producer, batch, entryChan, chanClosed, doing, resultChan, loaded, rejected, l0Closed, version, read, cut, touched>>

Fails(e) == l0Closed \/ e.key \in Bad

Store(w) ==
    /\ at[w] = "store"
    /\ IF Fails(doing[w])
       THEN /\ rejected' = rejected \cup {doing[w]}
            /\ at' = [at EXCEPT ![w] = "report"]
            /\ UNCHANGED loaded
       ELSE /\ loaded' = loaded \cup {doing[w]}
            /\ at' = [at EXCEPT ![w] = "receive"]
            /\ UNCHANGED rejected
    /\ doing' = [doing EXCEPT ![w] = NoEntry]
    /\ UNCHANGED <<store, iterator, producer, batch, entryChan, chanClosed, resultChan, l0Closed, version, read, cut, touched>>

\* Mutant: one slot too few.
ReportShort(w) ==
    /\ at[w] = "report"
    /\ resultChan < ResultCap - 1
    /\ resultChan' = resultChan + 1
    /\ at' = [at EXCEPT ![w] = "receive"]
    /\ UNCHANGED <<store, iterator, producer, batch, entryChan, chanClosed, doing, loaded, rejected, l0Closed, version, read, cut, touched>>

\* resultChan <- err: blocks while the buffer is full.
Report(w) ==
    /\ at[w] = "report"
    /\ resultChan < ResultCap
    /\ resultChan' = resultChan + 1
    /\ at' = [at EXCEPT ![w] = "receive"]
    /\ UNCHANGED <<store, iterator, producer, batch, entryChan, chanClosed, doing, loaded, rejected, l0Closed, version, read, cut, touched>>

-----------------------------------------------------------------------------
(* The cache around it. *)

\* A Set, a Delete or the tiering worker changes L1.
ChangeL1(k, v) ==
    /\ version <= MaxChanges
    /\ getShard(k) \in open /\ producer # "done"
    /\ v \in {Absent, version + 1}
    /\ version' = version + 1
    /\ db' = [db EXCEPT ![k] = v]
    /\ touched' = touched \cup {k}
    /\ UNCHANGED <<open, iterator, producer, batch, entryChan, chanClosed, pool, l0Closed, read, cut>>

\* TieredCache.Close closes L0 and then the shards of L1, one by one; the
\* goroutines of pre-warming are not told.
CloseL0 ==
    /\ MayClose
    /\ ~l0Closed
    /\ l0Closed' = TRUE
    /\ UNCHANGED <<store, iterator, producer, batch, entryChan, chanClosed, pool, version, read, cut, touched>>

CloseShard(s) ==
    /\ l0Closed
    /\ s \in open /\ \A t \in open : s <= t
    /\ open' = open \ {s}
    /\ UNCHANGED <<db, iterator, producer, batch, entryChan, chanClosed, pool, l0Closed, version, read, cut, touched>>

-----------------------------------------------------------------------------
Produce ==
    \/ NextTurn \/ NextEntry \/ NextFalse
    \/ Collect \/ Skip \/ StopIterating
    \/ Send \/ CloseEntryChan \/ Finish
\* A panic ends the process.
Work(w) == producer # "panicked" /\ (Receive(w) \/ End(w) \/ Store(w) \/ Report(w))

Next ==
    \/ Produce
    \/ \E w \in Workers : Work(w)
    \/ \E k \in Keys, v \in {Absent, version + 1} : ChangeL1(k, v)
    \/ CloseL0
    \/ \E s \in Shards : CloseShard(s)

\* Every goroutine that can run is scheduled; L1 is finite, so the iteration
\* ends; nobody has to close the cache.
Fairness == WF_vars(Produce) /\ \A w \in Workers : WF_vars(Work(w))

Spec == Init /\ [][Next]_vars
FairSpec == Spec /\ Fairness

-----------------------------------------------------------------------------
(* Properties. *)

TypeOK ==
    /\ producer \in {"next", "body", "send", "sendRest", "wait", "done", "panicked"}
    /\ iter.at \in {"init", "on", "closed"} /\ txns \subseteq Shards
    /\ batch \in Seq(Entry) /\ Len(batch) <= BatchSize
    /\ entryChan \in Seq(Entry) /\ Len(entryChan) <= BatchSize
    /\ chanClosed \in BOOLEAN
    /\ doing \in [Workers -> Entry \cup {NoEntry}]
    /\ at \in [Workers -> {"receive", "store", "report", "ended"}]
    /\ resultChan \in 0 .. ResultCap
    /\ loaded \cup rejected \cup read \subseteq Entry
    /\ l0Closed \in BOOLEAN

InHands == {doing[w] : w \in Workers} \ {NoEntry}

\* Every entry that joined a batch is in exactly one place - the batch, the
\* channel, one worker's hands, L0, or among the rejected - so that none is
\* dropped or stored twice on the way, whatever the workers' order.
EachEntryOnce ==
    /\ read = Range(batch) \cup Range(entryChan) \cup InHands \cup loaded \cup rejected
    /\ Cardinality(read) = Len(batch) + Len(entryChan)
                           + Cardinality({w \in Workers : doing[w] # NoEntry})
                           + Cardinality(loaded) + Cardinality(rejected)

\* When pre-warming is over and no memory limit stopped it, it has tried to
\* store every readable key of L1 that was not changed meanwhile, with the
\* value it has in L1; and of a changed key, no two values.
WarmedIsComplete ==
    (producer = "done" /\ ~cut) =>
        LET tried == loaded \cup rejected
            inL1 == UNION {Contents(s) : s \in Shards}
        IN  /\ {e \in tried : e.key \notin touched} = {e \in inL1 : e.key \notin touched \cup Unreadable}
            /\ \A e, f \in tried : e.key = f.key => e = f

\* Pre-warming ends, as long as L0 does not reject more entries than
\* resultChan has room for: nobody reads that channel before the workers end.
\* (Or it ends the process, when Close was faster.)
EndsIfFewFail ==
    <>(producer \in {"done", "panicked"} \/ Cardinality(rejected) > Cardinality(Workers))
=============================================================================
