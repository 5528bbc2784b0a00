---------------------------- MODULE RecoverApply ----------------------------
(***************************************************************************)
(* The second half of Recover (pkg/replay/recovery.go) with the applyFunc  *)
(* of performRecovery (pkg/tieredcache/tieredcache.go): the records that   *)
(* were read from the log go through a bounded channel to a pool of        *)
(* workers, which change L0; errors go into a second bounded channel that  *)
(* is read only after all workers have ended.  Close may cancel the        *)
(* context and then close L0 meanwhile.                                    *)
(*                                                                         *)
(* Which records the log yields is the business of module Wal; here they   *)
(* are any sequence that Set and Delete may have logged.  A record's value *)
(* is its position.  Set and Delete log with tier 0, so applyFunc's        *)
(* branches for tier 1 are not reached.                                    *)
(*                                                                         *)
(* A module may extend Wal and this one: their names differ.               *)
(***************************************************************************)
EXTENDS Integers, Sequences, FiniteSets

CONSTANTS
    Keys,
    N,          \* bound: number of records
    Workers,    \* the maxWorkers goroutines
    EntryCap,   \* WALEntryChannelBuffer
    ErrorCap,   \* ErrorChannelBuffer
    MayClose    \* whether the cache may be closed during recovery

ASSUME SizeAssumption == N \in Nat /\ EntryCap \in Nat \ {0} /\ ErrorCap \in Nat
ASSUME WorkersAssumption == IsFiniteSet(Workers) /\ Workers # {}
ASSUME MayCloseAssumption == MayClose \in BOOLEAN

Positions == 1 .. N
Absent == 0

\* "setEmpty" is a Set of an empty value, which is logged although the tiers
\* reject it.
Operations == {"set", "setEmpty", "delete"}
Records == [op : Operations, key : Keys]

VARIABLES
    entries,    \* what replayWAL returned
    producer,   \* "select", "send", "wait" or "done"
    sent,       \* EntriesReplayed: records put into entryChan
    entryChan,  \* the positions in the channel
    chanClosed, \* entryChan has been closed
    workerAt,   \* workerAt[w]: "receive", "apply", "report" or "ended"
    doing,      \* doing[w]: position of the record in the worker's hands, or 0
    nils, errs, \* what errorChan holds: the producer's nils, the workers' errors
    ctxDone,
    l0Closed,
    l0,         \* value of each key in L0, or Absent
    success,    \* result.Success
    applied,    \* history: records applied without an error
    failed,     \* history: records applyFunc returned an error for
    crossed     \* history: keys with two records in workers' hands at a time

chans == <<entryChan, chanClosed, nils, errs>>
replayVars == <<entries, producer, sent, chans, workerAt, doing, ctxDone, l0Closed, l0, success, applied, failed, crossed>>

ReplayInit ==
    /\ entries \in [Positions -> Records]
    /\ producer = "select"
    /\ sent = 0
    /\ entryChan = <<>>
    /\ chanClosed = FALSE
    /\ workerAt = [w \in Workers |-> "receive"]
    /\ doing = [w \in Workers |-> 0]
    /\ nils = 0 /\ errs = 0
    /\ ctxDone = FALSE
    /\ l0Closed = FALSE
    /\ l0 = [k \in Keys |-> Absent]
    /\ success = TRUE
    /\ applied = {}
    /\ failed = {}
    /\ crossed = {}

ErrorRoom == nils + errs < ErrorCap

-----------------------------------------------------------------------------
(* The producer. *)

\* Mutant: without a default case the producer waits for room.
SelectNoDefault ==
    /\ producer = "select" /\ sent < N
    /\ \/ ctxDone /\ producer' = "wait" /\ chanClosed' = TRUE /\ UNCHANGED nils
       \/ ErrorRoom /\ nils' = nils + 1 /\ producer' = "send" /\ UNCHANGED chanClosed
    /\ UNCHANGED <<entries, sent, entryChan, errs, workerAt, doing, ctxDone, l0Closed, l0, success, applied, failed, crossed>>

\* The select before each record: a cancelled context ends the loop, a nil
\* goes into errorChan if there is room, and if several cases are ready any
\* of them is taken.
Select ==
    /\ producer = "select" /\ sent < N
    /\ \/ ctxDone /\ producer' = "wait" /\ chanClosed' = TRUE /\ UNCHANGED nils
       \/ ErrorRoom /\ nils' = nils + 1 /\ producer' = "send" /\ UNCHANGED chanClosed
       \/ ~ctxDone /\ ~ErrorRoom /\ producer' = "send" /\ UNCHANGED <<nils, chanClosed>>
    /\ UNCHANGED <<entries, sent, entryChan, errs, workerAt, doing, ctxDone, l0Closed, l0, success, applied, failed, crossed>>

Send ==
    /\ producer = "send"
    /\ Len(entryChan) < EntryCap
    /\ sent' = sent + 1
    /\ entryChan' = Append(entryChan, sent')
    /\ producer' = "select"
    /\ UNCHANGED <<entries, chanClosed, nils, errs, workerAt, doing, ctxDone, l0Closed, l0, success, applied, failed, crossed>>

CloseEntryChan ==
    /\ producer = "select" /\ sent = N
    /\ chanClosed' = TRUE
    /\ producer' = "wait"
    /\ UNCHANGED <<entries, sent, entryChan, nils, errs, workerAt, doing, ctxDone, l0Closed, l0, success, applied, failed, crossed>>

\* Mutant: the errors are collected as soon as the last record is sent.
CollectEarly ==
    /\ producer = "wait"
    /\ success' = (errs = 0)
    /\ nils' = 0 /\ errs' = 0
    /\ producer' = "done"
    /\ UNCHANGED <<entries, sent, entryChan, chanClosed, workerAt, doing, ctxDone, l0Closed, l0, applied, failed, crossed>>

\* wg.Wait, then errorChan is closed and read.
Collect ==
    /\ producer = "wait"
    /\ \A w \in Workers : workerAt[w] = "ended"
    /\ success' = (errs = 0)
    /\ nils' = 0 /\ errs' = 0
    /\ producer' = "done"
    /\ UNCHANGED <<entries, sent, entryChan, chanClosed, workerAt, doing, ctxDone, l0Closed, l0, applied, failed, crossed>>

-----------------------------------------------------------------------------
(* The workers. *)

\* Keys of the records other workers have received and not applied yet.
InHand(w) == {entries[doing[v]].key : v \in {u \in Workers \ {w} : workerAt[u] = "apply"}}

\* Mutant: the youngest record is taken first.
ReceiveLast(w) ==
    /\ workerAt[w] = "receive" /\ entryChan # <<>>
    /\ workerAt' = [workerAt EXCEPT ![w] = "apply"]
    /\ doing' = [doing EXCEPT ![w] = entryChan[Len(entryChan)]]
    /\ entryChan' = SubSeq(entryChan, 1, Len(entryChan) - 1)
    /\ crossed' = crossed \cup ({entries[doing'[w]].key} \cap InHand(w))
    /\ UNCHANGED <<entries, producer, sent, chanClosed, nils, errs, ctxDone, l0Closed, l0, success, applied, failed>>

Receive(w) ==
    /\ workerAt[w] = "receive" /\ entryChan # <<>>
    /\ workerAt' = [workerAt EXCEPT ![w] = "apply"]
    /\ doing' = [doing EXCEPT ![w] = Head(entryChan)]
    /\ entryChan' = Tail(entryChan)
    /\ crossed' = crossed \cup ({entries[doing'[w]].key} \cap InHand(w))
    /\ UNCHANGED <<entries, producer, sent, chanClosed, nils, errs, ctxDone, l0Closed, l0, success, applied, failed>>

End(w) ==
    /\ workerAt[w] = "receive" /\ entryChan = <<>> /\ chanClosed
    /\ workerAt' = [workerAt EXCEPT ![w] = "ended"]
    /\ UNCHANGED <<entries, producer, sent, chans, doing, ctxDone, l0Closed, l0, success, applied, failed, crossed>>

\* Errors of applyFunc: L0 is closed, the value is empty, or the key to be
\* deleted is not there.
Fails(i) ==
    \/ l0Closed
    \/ entries[i].op = "setEmpty"
    \/ entries[i].op = "delete" /\ l0[entries[i].key] = Absent

\* L0 after applying record i: l0.Set may evict other keys.
L0After(i) ==
    LET k == entries[i].key
    IN  IF entries[i].op = "delete" THEN {[l0 EXCEPT ![k] = Absent]}
        ELSE {[x \in Keys |-> IF x = k THEN i ELSE IF x \in evicted THEN Absent ELSE l0[x]] :
                 evicted \in SUBSET (Keys \ {k})}

Apply(w) ==
    LET i == doing[w]
    IN  /\ workerAt[w] = "apply"
        /\ doing' = [doing EXCEPT ![w] = 0]
        /\ \/ /\ Fails(i)
              /\ failed' = failed \cup {i}
              /\ workerAt' = [workerAt EXCEPT ![w] = "report"]
              /\ UNCHANGED <<l0, applied>>
           \/ /\ ~Fails(i)
              /\ l0' \in L0After(i)
              /\ applied' = applied \cup {i}
              /\ workerAt' = [workerAt EXCEPT ![w] = "receive"]
              /\ UNCHANGED failed
        /\ UNCHANGED <<entries, producer, sent, chans, ctxDone, l0Closed, success, crossed>>

\* errorChan <- err blocks while the channel is full.
Report(w) ==
    /\ workerAt[w] = "report"
    /\ ErrorRoom
    /\ errs' = errs + 1
    /\ workerAt' = [workerAt EXCEPT ![w] = "receive"]
    /\ UNCHANGED <<entries, producer, sent, entryChan, chanClosed, nils, doing, ctxDone, l0Closed, l0, success, applied, failed, crossed>>

-----------------------------------------------------------------------------
\* TieredCache.Close cancels the context, then closes L0.
Cancel ==
    /\ MayClose /\ ~ctxDone
    /\ ctxDone' = TRUE
    /\ UNCHANGED <<entries, producer, sent, chans, workerAt, doing, l0Closed, l0, success, applied, failed, crossed>>

CloseL0 ==
    /\ ctxDone /\ ~l0Closed
    /\ l0Closed' = TRUE
    /\ UNCHANGED <<entries, producer, sent, chans, workerAt, doing, ctxDone, l0, success, applied, failed, crossed>>

Produce == Select \/ Send \/ CloseEntryChan \/ Collect
Work(w) == Receive(w) \/ End(w) \/ Apply(w) \/ Report(w)

ReplayNext ==
    \/ Produce
    \/ \E w \in Workers : Work(w)
    \/ Cancel \/ CloseL0

ReplaySpec == ReplayInit /\ [][ReplayNext]_replayVars

\* A goroutine whose next step can proceed is run.
Fairness == WF_replayVars(Produce) /\ \A w \in Workers : WF_replayVars(Work(w))
FairSpec == ReplaySpec /\ Fairness

-----------------------------------------------------------------------------
(* Properties. *)

\* What replaying the records of k with positions in S, in log order, leaves:
\* its value is that of the last one, unless that one is a delete.
LastValue(k, S) ==
    LET own == {i \in S : entries[i].key = k}
    IN  IF own = {} THEN Absent
        ELSE LET last == CHOOSE i \in own : \A j \in own : j <= i
             IN  IF entries[last].op = "delete" THEN Absent ELSE last

\* Unless two records of a key were in workers' hands at the same time, L0
\* holds at each moment what its records applied so far leave in log order,
\* or has evicted it; so one worker replays in order, and several do for keys
\* that did not cross.
ReplayedInOrder ==
    \A k \in Keys \ crossed : l0[k] \in {Absent, LastValue(k, applied)}

\* When Recover returns, the EntriesReplayed records it counted are those
\* applied or failed, none twice and none left behind in the channel, and
\* Success says whether one of them failed.
ResultIsHonest ==
    producer = "done" => /\ applied \cup failed = 1 .. sent
                         /\ applied \cap failed = {}
                         /\ success = (failed = {})
                         /\ sent < N => ctxDone

\* Recover returns, unless a record fails and the failures and the producer's
\* nils together outgrow errorChan (in which case a worker waits for ever).
EndsUnlessErrorsOverflow ==
    <>(producer = "done" \/ (failed # {} /\ sent + Cardinality(failed) > ErrorCap))
=============================================================================
