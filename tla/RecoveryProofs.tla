--------------------------- MODULE RecoveryProofs ---------------------------
(* Proofs about the write-ahead log, for every set of writers, checkpoint  *)
(* interval and number of writes and restarts; and, in the second part,    *)
(* about the replay of the records Recover has read (RecoverApply).        *)
EXTENDS Wal, RecoverApply, FiniteSetTheorems, TLAPS

\* Who is inside the mutex.
Mutex ==
    /\ \A w \in Writers : at[w] = "write" => mu = w
    /\ phase \in {"sync", "close"} => mu = "close"

\* Write calls that wait for it have ids of their own, and the sequence
\* counts only such as wait no more.
Waiting == {rec[w] : w \in {v \in Writers : at[v] = "lock"}}
Counted ==
    /\ \A w \in Writers : at[w] = "lock" => rec[w] \in 1 .. writes
    /\ \A v, w \in Writers : at[v] = "lock" /\ at[w] = "lock" /\ rec[v] = rec[w] => v = w
    /\ sequence <= Cardinality((1 .. writes) \ Waiting)

\* A record's checksum was made with the monotonic clock reading.
Stamped(r) == r \in Record /\ r.checksum = ComputeChecksum(r.seq, r.id, TRUE)
RecordsAreStamped ==
    /\ \A i \in 1 .. Len(file) : file[i] # Torn => Stamped(file[i])
    /\ \A w \in Writers : at[w] = "write" => Stamped(rec[w]) /\ rec[w].seq = sequence

\* The records of this process, in the file before the one being written.
SequenceAhead ==
    phase # "down" =>
        /\ first \in 0 .. Len(file)
        /\ \A i \in first + 1 .. Len(file) : file[i] # Torn =>
              /\ file[i].seq <= sequence
              /\ \A w \in Writers : at[w] = "write" => file[i].seq < sequence

CheckpointsBehind ==
    /\ pending # <<>> => sequence > 0
    /\ \A i \in 1 .. Len(pending) : pending[i] # None =>
          /\ pending[i] \in 1 .. sequence
          /\ \A w \in Writers : at[w] = "write" => pending[i] < sequence

\* Between its sync and the closing of the file Close has the mutex.
SyncedUntilClosed ==
    /\ phase \notin {"closed", "down"} => wal = TRUE
    /\ phase = "close" => synced = Len(file)
SafeIsSynced == \A id \in safe : \E i \in 1 .. synced : file[i] # Torn /\ file[i].id = id

IInv ==
    /\ TypeOK /\ Mutex /\ Counted /\ RecordsAreStamped /\ SequenceAhead /\ NumberedInOrder
    /\ CheckpointsBehind /\ SyncedUntilClosed /\ ClosedIsSynced /\ SafeIsSynced

\* The number and the id of a record.
LEMMA RecordParts ==
    ASSUME NEW r, Stamped(r)
    PROVE  r \in Record /\ r.seq \in 1 .. MaxWrites /\ r.seq \in Int /\ r.id \in Ids
<1>1. r \in Record
  BY DEF Stamped
<1>2. r.seq \in 1 .. MaxWrites /\ r.id \in Ids
  BY <1>1 DEF Record
<1>. QED  BY <1>1, <1>2, BoundsAssumption

\* Every record in the file was hashed with a clock reading that decoding
\* loses, so replayWAL takes none of them for intact.
LEMMA NoneVerifies == TypeOK /\ RecordsAreStamped => Replayable = {}
<1>. SUFFICES ASSUME TypeOK, RecordsAreStamped, NEW i \in Replayable PROVE FALSE
  OBVIOUS
<1>1. i \in DOMAIN file /\ file[i] # Torn
  BY DEF Replayable, ReadablePart, TypeOK
<1>2. i \in 1 .. Len(file)
  BY <1>1 DEF TypeOK
<1>3. Stamped(file[i])
  BY <1>1, <1>2 DEF RecordsAreStamped
<1>. DEFINE r == Decode(file[i])
<1>4. r.seq = file[i].seq /\ r.id = file[i].id /\ r.checksum = file[i].checksum /\ r.mono = FALSE
  BY <1>3 DEF Stamped, Decode, Record
<1>5. r.checksum = <<r.seq, r.id, TRUE>>
  BY <1>3, <1>4 DEF Stamped, ComputeChecksum
<1>. HIDE DEF r
<1>6. ~VerifyChecksum(r)
  <2>1. r.checksum[3] = TRUE
    BY <1>5
  <2>2. ASSUME VerifyChecksum(r) PROVE r.checksum[3] = FALSE
    BY <1>4, <2>2 DEF VerifyChecksum, ComputeChecksum
  <2>. QED  BY <2>1, <2>2, Zenon
<1>. QED  BY <1>6 DEF Replayable, r

\* A new log.
LEMMA InitIInv == Init => IInv
<1>. SUFFICES ASSUME Init PROVE IInv
  OBVIOUS
<1>1. Len(file) = 0 /\ file = <<>> /\ pending = <<>> /\ \A w \in Writers : at[w] = "idle"
  BY DEF Init
<1>2. TypeOK
  <2>1. 0 \in 0 .. MaxWrites /\ 0 \in 0 .. MaxStops /\ 0 \in 0 .. 0
    BY BoundsAssumption
  <2>2. file \in Seq(Record \cup {Torn}) /\ pending \in Seq((1 .. MaxWrites) \cup {None})
    BY <1>1
  <2>3. at \in [Writers -> {"idle", "lock", "write"}] /\ \A w \in Writers : rec[w] = None
    BY DEF Init
  <2>. QED  BY <1>1, <2>1, <2>2, <2>3 DEF Init, TypeOK
<1>3. Counted
  <2>1. (1 .. writes) \ Waiting = {}
    BY DEF Init
  <2>2. sequence = 0 /\ Cardinality({}) = 0
    BY FS_EmptySet DEF Init
  <2>3. sequence <= Cardinality((1 .. writes) \ Waiting)
    BY <2>1, <2>2
  <2>4. \A w \in Writers : at[w] # "lock"
    BY <1>1
  <2>. QED  BY <2>3, <2>4 DEF Counted
<1>4. Mutex /\ RecordsAreStamped /\ SequenceAhead /\ NumberedInOrder /\ CheckpointsBehind
  BY <1>1 DEF Init, Mutex, RecordsAreStamped, SequenceAhead, NumberedInOrder, CheckpointsBehind
<1>5. SyncedUntilClosed /\ ClosedIsSynced /\ SafeIsSynced
  BY DEF Init, SyncedUntilClosed, ClosedIsSynced, SafeIsSynced
<1>. QED  BY <1>2, <1>3, <1>4, <1>5 DEF IInv

\* A step that leaves the writers and the file alone.
LEMMA LogUnmoved ==
    ASSUME IInv, UNCHANGED <<file, sequence, at, rec, writes, first>>, phase # "down"
    PROVE  Counted' /\ RecordsAreStamped' /\ SequenceAhead' /\ NumberedInOrder'
<1>1. Waiting' = Waiting
  BY DEF Waiting
<1>2. Counted'
  BY <1>1 DEF IInv, Counted
<1>3. RecordsAreStamped' /\ SequenceAhead' /\ NumberedInOrder'
  BY DEF IInv, RecordsAreStamped, SequenceAhead, NumberedInOrder
<1>. QED  BY <1>2, <1>3

\* Recover replays nothing, and so leaves the sequence at zero.
LEMMA RecoverKeepsIInv == ASSUME IInv, Recover PROVE IInv'
<1>1. /\ phase = "recovering" /\ phase' = "serving"
      /\ UNCHANGED <<file, synced, mu, at, rec, closed, wal, pending, checkpoints, writes, stops, first,
                     returned, behind, safe>>
  BY DEF Recover
<1>2. Replayable = {}
  BY NoneVerifies DEF IInv
<1>3. sequence' = sequence /\ replayed' = {}
  BY <1>2 DEF Recover
<1>4. TypeOK'
  BY <1>1, <1>3 DEF IInv, TypeOK
<1>5. Counted' /\ RecordsAreStamped' /\ SequenceAhead' /\ NumberedInOrder'
  BY <1>1, <1>3, LogUnmoved
<1>6. Mutex' /\ CheckpointsBehind'
  BY <1>1, <1>3 DEF IInv, Mutex, CheckpointsBehind
<1>7. SyncedUntilClosed' /\ ClosedIsSynced' /\ SafeIsSynced'
  BY <1>1 DEF IInv, SyncedUntilClosed, ClosedIsSynced, SafeIsSynced
<1>. QED  BY <1>4, <1>5, <1>6, <1>7 DEF IInv

-----------------------------------------------------------------------------
(* Write. *)

\* A Write call is given an id, which waits.
LEMMA CallKeepsIInv == ASSUME IInv, NEW w \in Writers, Call(w) PROVE IInv'
<1>1. /\ phase = "serving" /\ at[w] = "idle" /\ writes < MaxWrites /\ writes' = writes + 1
      /\ at' = [at EXCEPT ![w] = "lock"] /\ rec' = [rec EXCEPT ![w] = writes']
      /\ UNCHANGED <<file, synced, sequence, mu, closed, wal, pending, checkpoints, phase, replayed, stops,
                     first, returned, behind, safe>>
  BY DEF Call
<1>2. TypeOK /\ writes \in Nat
  BY BoundsAssumption DEF IInv, TypeOK
<1>3. /\ at' \in [Writers -> {"idle", "lock", "write"}]
      /\ \A v \in Writers : at'[v] = IF v = w THEN "lock" ELSE at[v]
  BY <1>1, <1>2 DEF TypeOK
<1>4. writes' \in 0 .. MaxWrites /\ writes' \in Ids /\ 1 .. writes' = 1 .. writes \cup {writes'}
      /\ writes' \notin 1 .. writes
  BY <1>1, <1>2, BoundsAssumption DEF Ids
<1>5. /\ DOMAIN rec' = Writers
      /\ \A v \in Writers : rec'[v] = IF v = w THEN writes' ELSE rec[v]
  BY <1>1, <1>2, <1>4 DEF TypeOK
<1>6. TypeOK'
  BY <1>1, <1>2, <1>3, <1>4, <1>5 DEF TypeOK
<1>7. Counted'
  <2>1. \A v \in Writers : at[v] = "lock" => rec[v] \in 1 .. writes
    BY DEF IInv, Counted
  <2>2. Waiting' = Waiting \cup {writes'}
    BY <1>1, <1>3, <1>5 DEF Waiting
  <2>3. (1 .. writes') \ Waiting' = (1 .. writes) \ Waiting
    BY <1>4, <2>1, <2>2 DEF Waiting
  <2>4. \A v \in Writers : at'[v] = "lock" => rec'[v] \in 1 .. writes'
    BY <1>3, <1>4, <1>5, <2>1
  <2>5. \A v, u \in Writers : at'[v] = "lock" /\ at'[u] = "lock" /\ rec'[v] = rec'[u] => v = u
    BY <1>3, <1>4, <1>5, <2>1 DEF IInv, Counted
  <2>. QED  BY <1>1, <2>3, <2>4, <2>5 DEF IInv, Counted
<1>8. \A v \in Writers : at'[v] = "write" => at[v] = "write" /\ rec'[v] = rec[v]
  BY <1>3, <1>5
<1>9. Mutex' /\ RecordsAreStamped'
  BY <1>1, <1>8 DEF IInv, Mutex, RecordsAreStamped
<1>10. SequenceAhead' /\ NumberedInOrder' /\ CheckpointsBehind'
  BY <1>1, <1>8 DEF IInv, SequenceAhead, NumberedInOrder, CheckpointsBehind
<1>11. SyncedUntilClosed' /\ ClosedIsSynced' /\ SafeIsSynced'
  BY <1>1 DEF IInv, SyncedUntilClosed, ClosedIsSynced, SafeIsSynced
<1>. QED  BY <1>6, <1>7, <1>9, <1>10, <1>11 DEF IInv

\* There is a number left for every call that waits.
LEMMA SequenceFits ==
    ASSUME IInv, NEW w \in Writers, at[w] = "lock", NEW S, S = (1 .. writes) \ (Waiting \ {rec[w]})
    PROVE  sequence + 1 <= Cardinality(S) /\ sequence + 1 \in 1 .. MaxWrites
<1>. DEFINE T == (1 .. writes) \ Waiting
            id == rec[w]
<1>1. writes \in Nat /\ sequence \in Nat /\ MaxWrites \in Nat /\ writes <= MaxWrites
  BY BoundsAssumption DEF IInv, TypeOK
<1>2. IsFiniteSet(1 .. writes) /\ Cardinality(1 .. writes) = writes
  BY <1>1, FS_Interval
<1>3. IsFiniteSet(T) /\ IsFiniteSet(S) /\ Cardinality(S) <= writes
  BY <1>2, FS_Subset
<1>4. id \in 1 .. writes /\ id \in Waiting
  BY DEF IInv, Counted, Waiting
<1>5. S = T \cup {id} /\ id \notin T
  BY <1>4
<1>6. Cardinality(S) = Cardinality(T) + 1 /\ Cardinality(T) \in Nat
  BY <1>3, <1>5, FS_AddElement, FS_CardinalityType
<1>7. sequence <= Cardinality(T)
  BY DEF IInv, Counted
<1>. HIDE DEF T
<1>8. Cardinality(S) \in Int
  BY <1>6
<1>. QED  BY <1>1, <1>3, <1>6, <1>7, <1>8

\* The mutex is taken and the record numbered: it comes behind all others.
LEMMA NumberKeepsIInv == ASSUME IInv, NEW w \in Writers, Number(w) PROVE IInv'
<1>. DEFINE r == MakeRecord(sequence + 1, rec[w])
<1>1. /\ at[w] = "lock" /\ mu = None /\ mu' = w /\ sequence' = sequence + 1
      /\ rec' = [rec EXCEPT ![w] = r] /\ at' = [at EXCEPT ![w] = "write"]
      /\ UNCHANGED <<file, synced, closed, wal, pending, checkpoints, phase, replayed, writes, stops, first,
                     returned, behind, safe>>
  BY DEF Number
<1>2. TypeOK /\ writes \in Nat /\ sequence \in Nat /\ MaxWrites \in Nat /\ writes <= MaxWrites
  BY BoundsAssumption DEF IInv, TypeOK
<1>3. sequence + 1 <= Cardinality((1 .. writes) \ (Waiting \ {rec[w]})) /\ sequence + 1 \in 1 .. MaxWrites
  BY <1>1, SequenceFits
<1>4. rec[w] \in 1 .. writes /\ rec[w] \in Ids
  <2>1. rec[w] \in 1 .. writes
    BY <1>1 DEF IInv, Counted
  <2>. QED  BY <1>2, <2>1 DEF Ids
<1>5. Stamped(r) /\ r.seq = sequence + 1
  BY <1>3, <1>4 DEF Stamped, MakeRecord, ComputeChecksum, Record
<1>. HIDE DEF r
<1>6. /\ at' \in [Writers -> {"idle", "lock", "write"}]
      /\ \A v \in Writers : at'[v] = IF v = w THEN "write" ELSE at[v]
  BY <1>1, <1>2 DEF TypeOK
<1>7. /\ DOMAIN rec' = Writers
      /\ \A v \in Writers : rec'[v] = IF v = w THEN r ELSE rec[v]
  BY <1>1, <1>2, <1>5 DEF TypeOK, Stamped
<1>8. \A v \in Writers : at[v] # "write" /\ (at'[v] = "write" <=> v = w)
  BY <1>1, <1>6, HoldersAssumption DEF IInv, Mutex
<1>9. TypeOK'
  <2>1. sequence' \in 0 .. MaxWrites
    BY <1>1, <1>2, <1>3
  <2>2. \A v \in Writers : IF at'[v] = "write" THEN rec'[v] \in Record ELSE rec'[v] \in Ids \cup {None}
    BY <1>2, <1>5, <1>6, <1>7, <1>8 DEF TypeOK, Stamped
  <2>. QED  BY <1>1, <1>2, <1>6, <1>7, <2>1, <2>2 DEF TypeOK
<1>10. Mutex'
  BY <1>1, <1>8, HoldersAssumption DEF IInv, Mutex
<1>11. Counted'
  <2>1. \A v \in Writers : at'[v] = "lock" => at[v] = "lock" /\ rec'[v] = rec[v] /\ v # w
    BY <1>6, <1>7
  <2>2. Waiting' = Waiting \ {rec[w]}
    BY <1>1, <1>6, <1>7, <2>1 DEF Waiting, IInv, Counted
  <2>. QED  BY <1>1, <1>3, <2>1, <2>2 DEF IInv, Counted
<1>12. RecordsAreStamped'
  BY <1>1, <1>5, <1>7, <1>8 DEF IInv, RecordsAreStamped
<1>13. \A i \in 1 .. Len(file) : file[i] # Torn => file[i].seq \in Int
  BY RecordParts DEF IInv, RecordsAreStamped
<1>14. SequenceAhead'
  <2>1. ASSUME phase # "down", NEW i \in first + 1 .. Len(file), file[i] # Torn
        PROVE  file[i].seq <= sequence /\ i \in 1 .. Len(file)
    BY <2>1 DEF IInv, SequenceAhead
  <2>2. ASSUME phase # "down", NEW i \in first + 1 .. Len(file), file[i] # Torn
        PROVE  file[i].seq < sequence + 1
    BY <1>2, <1>13, <2>1, <2>2
  <2>3. ASSUME NEW n \in Int, n < sequence + 1 PROVE n <= sequence + 1
    BY <1>2, <2>3
  <2>. QED  BY <1>1, <1>13, <2>1, <2>2, <2>3 DEF IInv, SequenceAhead
<1>15. NumberedInOrder'
  BY <1>1 DEF IInv, NumberedInOrder
<1>16. CheckpointsBehind'
  BY <1>1, <1>2 DEF IInv, CheckpointsBehind
<1>17. SyncedUntilClosed' /\ ClosedIsSynced' /\ SafeIsSynced'
  BY <1>1 DEF IInv, SyncedUntilClosed, ClosedIsSynced, SafeIsSynced
<1>. QED  BY <1>9, <1>10, <1>11, <1>12, <1>14, <1>15, <1>16, <1>17 DEF IInv

\* The record goes to the end of the file, whole, torn or not at all.
LEMMA WriteRecordKeepsIInv == ASSUME IInv, NEW w \in Writers, WriteRecord(w) PROVE IInv'
<1>1. /\ at[w] = "write" /\ mu' = None /\ at' = [at EXCEPT ![w] = "idle"] /\ rec' = [rec EXCEPT ![w] = None]
      /\ UNCHANGED <<synced, sequence, closed, wal, checkpoints, phase, replayed, writes, stops, first, behind,
                     safe>>
  BY DEF WriteRecord
<1>2. /\ file' = file \/ (wal /\ \E x \in {rec[w], Torn} : file' = Append(file, x))
      /\ returned' = returned \cup {rec[w].id} \/ returned' = returned
      /\ pending' = pending \/ pending' = Append(pending, None)
  BY DEF WriteRecord, FailedWrite
<1>3. TypeOK /\ file \in Seq(Record \cup {Torn}) /\ Len(file) \in Nat /\ synced \in 0 .. Len(file)
  BY DEF IInv, TypeOK
<1>4. Stamped(rec[w]) /\ rec[w].seq = sequence /\ mu = w /\ phase \notin {"sync", "close"}
  BY <1>1, HoldersAssumption DEF IInv, RecordsAreStamped, Mutex
<1>5. rec[w] \in Record /\ sequence \in 1 .. MaxWrites /\ rec[w].id \in Ids /\ sequence \in Int
  BY <1>4, RecordParts
<1>6. /\ at' \in [Writers -> {"idle", "lock", "write"}]
      /\ \A v \in Writers : at'[v] = IF v = w THEN "idle" ELSE at[v]
  BY <1>1, <1>3 DEF TypeOK
<1>7. /\ DOMAIN rec' = Writers
      /\ \A v \in Writers : rec'[v] = IF v = w THEN None ELSE rec[v]
  BY <1>1, <1>3 DEF TypeOK
<1>8. \A v \in Writers : at'[v] # "write"
  BY <1>4, <1>6 DEF IInv, Mutex
<1>9. \/ file' = file
      \/ /\ wal /\ file' \in Seq(Record \cup {Torn}) /\ Len(file') = Len(file) + 1
         /\ \A i \in 1 .. Len(file) : file'[i] = file[i]
         /\ file'[Len(file) + 1] \in {rec[w], Torn}
  BY <1>2, <1>3, <1>5
<1>10. file' \in Seq(Record \cup {Torn}) /\ synced \in 0 .. Len(file')
  BY <1>3, <1>9
<1>11. pending' \in Seq((1 .. MaxWrites) \cup {None})
       /\ \A i \in 1 .. Len(pending') : pending'[i] # None => i \in 1 .. Len(pending) /\ pending'[i] = pending[i]
  <2>1. pending \in Seq((1 .. MaxWrites) \cup {None})
    BY <1>3 DEF TypeOK
  <2>. QED  BY <1>2, <2>1
<1>12. TypeOK'
  <2>1. \A v \in Writers : IF at'[v] = "write" THEN rec'[v] \in Record ELSE rec'[v] \in Ids \cup {None}
    BY <1>3, <1>6, <1>7, <1>8 DEF TypeOK
  <2>2. returned' \subseteq Ids
    BY <1>2, <1>3, <1>5 DEF TypeOK
  <2>. QED  BY <1>1, <1>3, <1>6, <1>7, <1>10, <1>11, <2>1, <2>2 DEF TypeOK
<1>13. Mutex'
  BY <1>1, <1>4, <1>8 DEF Mutex
<1>14. Counted'
  <2>1. \A v \in Writers : at'[v] = "lock" <=> at[v] = "lock"
    BY <1>1, <1>6
  <2>2. \A v \in Writers : at[v] = "lock" => rec'[v] = rec[v]
    BY <1>1, <1>7
  <2>3. Waiting' = Waiting
    BY <2>1, <2>2 DEF Waiting
  <2>. QED  BY <1>1, <2>1, <2>2, <2>3 DEF IInv, Counted
<1>15. \A i \in 1 .. Len(file') :
          \/ i \in 1 .. Len(file) /\ file'[i] = file[i]
          \/ wal /\ i = Len(file) + 1 /\ file'[i] \in {rec[w], Torn}
  BY <1>3, <1>9
<1>16. RecordsAreStamped'
  BY <1>4, <1>8, <1>15 DEF IInv, RecordsAreStamped
<1>17. ASSUME phase # "down"
       PROVE  /\ first \in 0 .. Len(file) /\ first \in 0 .. Len(file')
              /\ \A i \in first + 1 .. Len(file) : file[i] # Torn => file[i].seq < sequence
              /\ \A i \in first + 1 .. Len(file') : i \in first + 1 .. Len(file) \/ i = Len(file) + 1
              /\ \A i \in first + 1 .. Len(file') : i \in 1 .. Len(file')
  <2>1. /\ first \in 0 .. Len(file)
        /\ \A i \in first + 1 .. Len(file) : file[i] # Torn => file[i].seq < sequence
    BY <1>1, <1>17 DEF IInv, SequenceAhead
  <2>. QED  BY <1>3, <1>9, <2>1
<1>18. SequenceAhead'
  <2>1. SUFFICES ASSUME phase # "down", NEW i \in first + 1 .. Len(file'), file'[i] # Torn
                 PROVE  file'[i].seq <= sequence
    BY <1>1, <1>8, <1>17 DEF SequenceAhead
  <2>2. CASE i = Len(file) + 1
    BY <1>3, <1>4, <1>5, <1>15, <1>17, <2>1, <2>2
  <2>3. CASE i \in first + 1 .. Len(file)
    <3>1. file'[i] = file[i] /\ i \in 1 .. Len(file)
      BY <1>3, <1>15, <1>17, <2>1, <2>3
    <3>2. file[i].seq < sequence /\ file[i].seq \in Int
      BY <1>17, <2>1, <2>3, <3>1, RecordParts DEF IInv, RecordsAreStamped
    <3>. QED  BY <1>5, <3>1, <3>2
  <2>. QED  BY <1>17, <2>1, <2>2, <2>3
<1>19. NumberedInOrder'
  <2>1. SUFFICES ASSUME phase # "down", NEW i \in first + 1 .. Len(file'), NEW j \in first + 1 .. Len(file'),
                        i < j, file'[i] # Torn, file'[j] # Torn
                 PROVE  file'[i].seq < file'[j].seq
    BY <1>1 DEF NumberedInOrder
  <2>2. i \in first + 1 .. Len(file) /\ i \in 1 .. Len(file)
    BY <1>3, <1>9, <1>17, <2>1
  <2>3. file'[i] = file[i]
    BY <1>3, <1>15, <1>17, <2>1, <2>2
  <2>4. CASE j = Len(file) + 1
    <3>1. file'[j] = rec[w]
      BY <1>3, <1>15, <1>17, <2>1, <2>4
    <3>. QED  BY <1>4, <1>17, <2>1, <2>2, <2>3, <3>1
  <2>5. CASE j \in first + 1 .. Len(file)
    <3>1. file'[j] = file[j]
      BY <1>3, <1>15, <1>17, <2>1, <2>5
    <3>. QED  BY <2>1, <2>2, <2>3, <2>5, <3>1 DEF IInv, NumberedInOrder
  <2>. QED  BY <1>17, <2>1, <2>4, <2>5
<1>20. CheckpointsBehind'
  BY <1>1, <1>5, <1>8, <1>11 DEF IInv, CheckpointsBehind
<1>21. SyncedUntilClosed' /\ ClosedIsSynced'
  BY <1>1, <1>4, <1>9 DEF IInv, SyncedUntilClosed, ClosedIsSynced
<1>22. SafeIsSynced'
  <2>1. \A i \in 1 .. synced : i \in 1 .. Len(file)
    BY <1>3
  <2>. QED  BY <1>1, <1>9, <2>1 DEF IInv, SafeIsSynced
<1>. QED  BY <1>12, <1>13, <1>14, <1>16, <1>18, <1>19, <1>20, <1>21, <1>22 DEF IInv

-----------------------------------------------------------------------------
(* Checkpoints. *)

\* What is left when a goroutine has gone.
LEMMA RemoveParts ==
    ASSUME NEW S, NEW s \in Seq(S), NEW i \in 1 .. Len(s)
    PROVE  /\ RemoveAt(s, i) \in Seq(S)
           /\ \A j \in 1 .. Len(RemoveAt(s, i)) : \E k \in 1 .. Len(s) : RemoveAt(s, i)[j] = s[k]
<1>. DEFINE a == SubSeq(s, 1, i - 1)
            b == SubSeq(s, i + 1, Len(s))
<1>1. a \in Seq(S) /\ Len(a) = i - 1 /\ \A j \in 1 .. Len(a) : a[j] = s[j] /\ j \in 1 .. Len(s)
  OBVIOUS
<1>2. b \in Seq(S) /\ Len(b) = Len(s) - i
  OBVIOUS
<1>3. \A j \in 1 .. Len(b) : b[j] = s[i + j] /\ i + j \in 1 .. Len(s)
  OBVIOUS
<1>4. RemoveAt(s, i) = a \o b
  BY DEF RemoveAt
<1>. HIDE DEF a, b
<1>5. a \o b \in Seq(S) /\ Len(a \o b) = Len(a) + Len(b)
  BY <1>1, <1>2
<1>6. \A j \in 1 .. Len(a \o b) : j \in 1 .. Len(a) \/ j - Len(a) \in 1 .. Len(b)
  BY <1>1, <1>2, <1>5
<1>7. ASSUME NEW j \in 1 .. Len(a \o b) PROVE \E k \in 1 .. Len(s) : (a \o b)[j] = s[k]
  <2>1. CASE j \in 1 .. Len(a)
    <3>1. (a \o b)[j] = a[j]
      BY <1>1, <1>2, <2>1
    <3>. QED  BY <1>1, <2>1, <3>1
  <2>2. CASE j - Len(a) \in 1 .. Len(b)
    <3>1. (a \o b)[j] = b[j - Len(a)]
      BY <1>1, <1>2, <1>5, <2>2
    <3>. QED  BY <1>3, <2>2, <3>1
  <2>. QED  BY <1>6, <2>1, <2>2
<1>. QED  BY <1>4, <1>5, <1>7

\* A checkpoint goroutine reads the sequence when nobody is writing.
LEMMA ReadSequenceKeepsIInv == ASSUME IInv, NEW i \in DOMAIN pending, ReadSequence(i) PROVE IInv'
<1>1. /\ mu = None /\ pending' = [pending EXCEPT ![i] = sequence]
      /\ UNCHANGED <<file, synced, sequence, mu, at, rec, closed, wal, checkpoints, phase, replayed, writes,
                     stops, first, returned, behind, safe>>
  BY DEF ReadSequence
<1>2. TypeOK /\ pending \in Seq((1 .. MaxWrites) \cup {None}) /\ sequence \in 0 .. MaxWrites
  BY DEF IInv, TypeOK
<1>3. i \in 1 .. Len(pending) /\ pending # <<>>
  BY <1>2
<1>4. sequence \in 1 .. MaxWrites /\ sequence \in 1 .. sequence
  BY <1>2, <1>3, BoundsAssumption DEF IInv, CheckpointsBehind
<1>5. /\ pending' \in Seq((1 .. MaxWrites) \cup {None}) /\ Len(pending') = Len(pending)
      /\ \A j \in 1 .. Len(pending) : pending'[j] = IF j = i THEN sequence ELSE pending[j]
  BY <1>1, <1>2, <1>3, <1>4
<1>6. \A w \in Writers : at[w] # "write"
  BY <1>1, HoldersAssumption DEF IInv, Mutex
<1>7. TypeOK'
  BY <1>1, <1>2, <1>5 DEF TypeOK
<1>8. CheckpointsBehind'
  BY <1>1, <1>3, <1>4, <1>5, <1>6 DEF IInv, CheckpointsBehind
<1>9. Counted'
  <2>1. Waiting' = Waiting
    BY <1>1 DEF Waiting
  <2>. QED  BY <1>1, <2>1 DEF IInv, Counted
<1>10. RecordsAreStamped' /\ SequenceAhead' /\ NumberedInOrder' /\ Mutex'
  BY <1>1 DEF IInv, RecordsAreStamped, SequenceAhead, NumberedInOrder, Mutex
<1>11. SyncedUntilClosed' /\ ClosedIsSynced' /\ SafeIsSynced'
  BY <1>1 DEF IInv, SyncedUntilClosed, ClosedIsSynced, SafeIsSynced
<1>. QED  BY <1>7, <1>8, <1>9, <1>10, <1>11 DEF IInv

\* It saves what it has read, and ends.
LEMMA SaveCheckpointKeepsIInv == ASSUME IInv, NEW i \in DOMAIN pending, SaveCheckpoint(i) PROVE IInv'
<1>1. /\ pending[i] # None /\ checkpoints' = checkpoints \cup {pending[i]} /\ pending' = RemoveAt(pending, i)
      /\ UNCHANGED <<file, synced, sequence, mu, at, rec, closed, wal, phase, replayed, writes, stops, first,
                     returned, safe>>
  BY DEF SaveCheckpoint
<1>2. TypeOK /\ pending \in Seq((1 .. MaxWrites) \cup {None})
  BY DEF IInv, TypeOK
<1>3. i \in 1 .. Len(pending) /\ pending # <<>> /\ pending[i] \in 1 .. MaxWrites
  BY <1>1, <1>2
<1>4. /\ pending' \in Seq((1 .. MaxWrites) \cup {None})
      /\ \A j \in 1 .. Len(pending') : \E k \in 1 .. Len(pending) : pending'[j] = pending[k]
  BY <1>1, <1>2, <1>3, RemoveParts
<1>5. TypeOK'
  BY <1>1, <1>2, <1>3, <1>4 DEF TypeOK
<1>6. CheckpointsBehind'
  <2>1. sequence > 0
    BY <1>3 DEF IInv, CheckpointsBehind
  <2>2. ASSUME NEW j \in 1 .. Len(pending'), pending'[j] # None
        PROVE  pending'[j] \in 1 .. sequence /\ \A w \in Writers : at[w] = "write" => pending'[j] < sequence
    BY <1>4, <2>2 DEF IInv, CheckpointsBehind
  <2>. QED  BY <1>1, <2>1, <2>2 DEF CheckpointsBehind
<1>7. Counted'
  <2>1. Waiting' = Waiting
    BY <1>1 DEF Waiting
  <2>. QED  BY <1>1, <2>1 DEF IInv, Counted
<1>8. RecordsAreStamped' /\ SequenceAhead' /\ NumberedInOrder' /\ Mutex'
  BY <1>1 DEF IInv, RecordsAreStamped, SequenceAhead, NumberedInOrder, Mutex
<1>9. SyncedUntilClosed' /\ ClosedIsSynced' /\ SafeIsSynced'
  BY <1>1 DEF IInv, SyncedUntilClosed, ClosedIsSynced, SafeIsSynced
<1>. QED  BY <1>5, <1>6, <1>7, <1>8, <1>9 DEF IInv

-----------------------------------------------------------------------------
(* Close, crash and the next manager. *)

\* Close sets the flag before it takes the mutex.
LEMMA BeginCloseKeepsIInv == ASSUME IInv, BeginClose PROVE IInv'
<1>1. /\ phase = "serving" /\ phase' = "closing" /\ closed' = TRUE /\ stops < MaxStops /\ stops' = stops + 1
      /\ UNCHANGED <<file, synced, sequence, mu, at, rec, wal, pending, checkpoints, replayed, writes, first,
                     returned, behind, safe>>
  BY DEF BeginClose
<1>2. TypeOK'
  <2>1. stops' \in 0 .. MaxStops
    BY <1>1, BoundsAssumption DEF IInv, TypeOK
  <2>. QED  BY <1>1, <2>1 DEF IInv, TypeOK
<1>3. Counted' /\ RecordsAreStamped' /\ SequenceAhead' /\ NumberedInOrder'
  BY <1>1, LogUnmoved
<1>4. Mutex' /\ CheckpointsBehind'
  BY <1>1 DEF IInv, Mutex, CheckpointsBehind
<1>5. SyncedUntilClosed' /\ ClosedIsSynced' /\ SafeIsSynced'
  BY <1>1 DEF IInv, SyncedUntilClosed, ClosedIsSynced, SafeIsSynced
<1>. QED  BY <1>2, <1>3, <1>4, <1>5 DEF IInv

\* Close has the mutex: no Write is between its number and its record.
LEMMA CloseLockKeepsIInv == ASSUME IInv, CloseLock PROVE IInv'
<1>1. /\ phase = "closing" /\ phase' = "sync" /\ mu = None /\ mu' = "close"
      /\ UNCHANGED <<file, synced, sequence, at, rec, closed, wal, pending, checkpoints, replayed, writes, stops,
                     first, returned, behind, safe>>
  BY DEF CloseLock
<1>2. TypeOK'
  BY <1>1 DEF IInv, TypeOK
<1>3. Counted' /\ RecordsAreStamped' /\ SequenceAhead' /\ NumberedInOrder'
  BY <1>1, LogUnmoved
<1>4. \A w \in Writers : at[w] # "write"
  BY <1>1, HoldersAssumption DEF IInv, Mutex
<1>5. Mutex' /\ CheckpointsBehind'
  BY <1>1, <1>4 DEF IInv, Mutex, CheckpointsBehind
<1>6. SyncedUntilClosed' /\ ClosedIsSynced' /\ SafeIsSynced'
  BY <1>1 DEF IInv, SyncedUntilClosed, ClosedIsSynced, SafeIsSynced
<1>. QED  BY <1>2, <1>3, <1>5, <1>6 DEF IInv

\* The file is synced, or an error of that ends Close with the file open.
LEMMA CloseSyncKeepsIInv == ASSUME IInv, CloseSync PROVE IInv'
<1>1. /\ phase = "sync"
      /\ \/ synced' = Len(file) /\ phase' = "close" /\ mu' = mu
         \/ phase' = "closed" /\ mu' = None /\ synced' = synced
      /\ UNCHANGED <<file, sequence, at, rec, closed, wal, pending, checkpoints, replayed, writes, stops, first,
                     returned, behind, safe>>
  BY DEF CloseSync
<1>2. Len(file) \in Nat /\ synced \in 0 .. Len(file)
  BY DEF IInv, TypeOK
<1>3. TypeOK'
  BY <1>1, <1>2 DEF IInv, TypeOK
<1>4. Counted' /\ RecordsAreStamped' /\ SequenceAhead' /\ NumberedInOrder'
  BY <1>1, LogUnmoved
<1>5. mu = "close" /\ \A w \in Writers : at[w] # "write"
  BY <1>1, HoldersAssumption DEF IInv, Mutex
<1>6. Mutex' /\ CheckpointsBehind'
  BY <1>1, <1>5 DEF IInv, Mutex, CheckpointsBehind
<1>7. SyncedUntilClosed'
  BY <1>1 DEF IInv, SyncedUntilClosed
<1>8. ClosedIsSynced'
  <2>1. wal = TRUE
    BY <1>1 DEF IInv, SyncedUntilClosed
  <2>. QED  BY <1>1, <2>1 DEF ClosedIsSynced
<1>9. SafeIsSynced'
  BY <1>1, <1>2 DEF IInv, SafeIsSynced
<1>. QED  BY <1>3, <1>4, <1>6, <1>7, <1>8, <1>9 DEF IInv

\* The file is closed; what had returned is in its synced part.
LEMMA CloseFileKeepsIInv == ASSUME IInv, CloseFile PROVE IInv'
<1>1. /\ phase = "close" /\ phase' = "closed" /\ wal' = FALSE /\ mu' = None
      /\ safe' = returned \cap IdsIn(file)
      /\ UNCHANGED <<file, synced, sequence, at, rec, closed, pending, checkpoints, replayed, writes, stops,
                     first, returned, behind>>
  BY DEF CloseFile
<1>2. synced = Len(file) /\ file \in Seq(Record \cup {Torn})
  BY <1>1 DEF IInv, SyncedUntilClosed, TypeOK
<1>3. TypeOK'
  <2>1. safe' \subseteq Ids
    BY <1>1 DEF IInv, TypeOK
  <2>. QED  BY <1>1, <2>1 DEF IInv, TypeOK
<1>4. Counted' /\ RecordsAreStamped' /\ SequenceAhead' /\ NumberedInOrder'
  BY <1>1, LogUnmoved
<1>5. mu = "close" /\ \A w \in Writers : at[w] # "write"
  BY <1>1, HoldersAssumption DEF IInv, Mutex
<1>6. Mutex' /\ CheckpointsBehind'
  BY <1>1, <1>5 DEF IInv, Mutex, CheckpointsBehind
<1>7. SyncedUntilClosed' /\ ClosedIsSynced'
  BY <1>1, <1>2 DEF SyncedUntilClosed, ClosedIsSynced
<1>8. SafeIsSynced'
  BY <1>1, <1>2 DEF SafeIsSynced, IdsIn
<1>. QED  BY <1>3, <1>4, <1>6, <1>7, <1>8 DEF IInv

\* What holds of a process that has forgotten everything.
LEMMA ForgetParts ==
    ASSUME IInv, Forget, phase' = "down"
    PROVE  /\ Mutex' /\ Counted' /\ SequenceAhead' /\ NumberedInOrder' /\ CheckpointsBehind'
           /\ SyncedUntilClosed' /\ ClosedIsSynced'
           /\ \A w \in Writers : at'[w] = "idle" /\ rec'[w] = None
<1>1. \A w \in Writers : at'[w] = "idle" /\ rec'[w] = None
  BY DEF Forget
<1>2. pending' = <<>> /\ sequence' = 0 /\ writes' = writes
  BY DEF Forget
<1>3. Counted'
  <2>1. Waiting' = {}
    BY <1>1 DEF Waiting
  <2>2. writes' \in Nat
    BY <1>2, BoundsAssumption DEF IInv, TypeOK
  <2>3. Cardinality(1 .. writes') = writes'
    BY <2>2, FS_Interval
  <2>4. (1 .. writes') \ Waiting' = 1 .. writes'
    BY <2>1
  <2>5. sequence' <= Cardinality((1 .. writes') \ Waiting')
    <3>1. Cardinality((1 .. writes') \ Waiting') = writes'
      BY <2>3, <2>4, Zenon
    <3>2. sequence' <= writes'
      BY <1>2, <2>2
    <3>. QED  BY <3>1, <3>2
  <2>6. \A w \in Writers : at'[w] # "lock"
    BY <1>1
  <2>. QED  BY <2>5, <2>6 DEF Counted
<1>4. Mutex' /\ CheckpointsBehind'
  BY <1>1, <1>2 DEF Mutex, CheckpointsBehind
<1>5. SequenceAhead' /\ NumberedInOrder' /\ SyncedUntilClosed' /\ ClosedIsSynced'
  BY DEF SequenceAhead, NumberedInOrder, SyncedUntilClosed, ClosedIsSynced
<1>. QED  BY <1>1, <1>3, <1>4, <1>5

\* The types of such a process.
LEMMA ForgetTypes ==
    ASSUME IInv, Forget, phase' = "down", stops' \in 0 .. MaxStops, checkpoints' \subseteq checkpoints,
           file' \in Seq(Record \cup {Torn}), synced <= Len(file')
    PROVE  TypeOK'
<1>1. TypeOK
  BY DEF IInv
<1>2. /\ sequence' = 0 /\ mu' = None /\ closed' = FALSE /\ wal' = FALSE /\ pending' = <<>> /\ replayed' = {}
      /\ UNCHANGED <<synced, writes, returned, behind, safe>>
  BY DEF Forget
<1>3. /\ at' \in [Writers -> {"idle", "lock", "write"}]
      /\ DOMAIN rec' = Writers
      /\ \A w \in Writers : IF at'[w] = "write" THEN rec'[w] \in Record ELSE rec'[w] \in Ids \cup {None}
  BY DEF Forget
<1>4. synced' \in 0 .. Len(file')
  BY <1>1, <1>2 DEF TypeOK
<1>5. pending' \in Seq((1 .. MaxWrites) \cup {None}) /\ sequence' \in 0 .. MaxWrites
  BY <1>2, BoundsAssumption
<1>6. checkpoints' \subseteq 1 .. MaxWrites
  BY <1>1 DEF TypeOK
<1>. QED  BY <1>1, <1>2, <1>3, <1>4, <1>5, <1>6 DEF TypeOK

\* The process of a closed manager ends.
LEMMA ExitKeepsIInv == ASSUME IInv, Exit PROVE IInv'
<1>1. phase' = "down" /\ Forget /\ UNCHANGED <<file, checkpoints, stops, first, synced, safe>>
  BY DEF Exit, Forget
<1>2. TypeOK'
  <2>1. stops' \in 0 .. MaxStops /\ file' \in Seq(Record \cup {Torn}) /\ synced <= Len(file')
    BY <1>1 DEF IInv, TypeOK
  <2>. QED  BY <1>1, <2>1, ForgetTypes
<1>3. RecordsAreStamped'
  BY <1>1, ForgetParts DEF IInv, RecordsAreStamped
<1>4. SafeIsSynced'
  BY <1>1 DEF IInv, SafeIsSynced
<1>. QED  BY <1>1, <1>2, <1>3, <1>4, ForgetParts DEF IInv

\* What a crash leaves of the file.
LEMMA CrashParts ==
    ASSUME NEW S, NEW s \in Seq(S), NEW n \in 0 .. Len(s), NEW x \in S, NEW t,
           t = SubSeq(s, 1, n) \/ t = SubSeq(s, 1, n) \o <<x>>
    PROVE  /\ t \in Seq(S) /\ n <= Len(t)
           /\ \A i \in 1 .. n : t[i] = s[i]
           /\ \A i \in 1 .. Len(t) : (i \in 1 .. n /\ t[i] = s[i]) \/ t[i] = x
<1>. DEFINE a == SubSeq(s, 1, n)
<1>1. a \in Seq(S) /\ Len(a) = n /\ \A i \in 1 .. n : a[i] = s[i]
  OBVIOUS
<1>. HIDE DEF a
<1>2. CASE t = a
  BY <1>1, <1>2
<1>3. CASE t = a \o <<x>>
  <2>1. t \in Seq(S) /\ Len(t) = n + 1 /\ t[n + 1] = x /\ \A i \in 1 .. n : t[i] = a[i]
    BY <1>1, <1>3
  <2>. QED  BY <1>1, <2>1
<1>. QED  BY <1>2, <1>3 DEF a

\* A crash keeps the synced part of the file.
LEMMA CrashKeepsIInv == ASSUME IInv, Crash PROVE IInv'
<1>1. /\ phase' = "down" /\ Forget /\ stops < MaxStops /\ stops' = stops + 1
      /\ checkpoints' \subseteq checkpoints /\ synced' = synced /\ safe' = safe
  BY DEF Crash, Forget
<1>2. PICK n \in synced .. Len(file) :
         file' = SubSeq(file, 1, n) \/ file' = SubSeq(file, 1, n) \o <<Torn>>
  <2>1. PICK n \in synced .. Len(file), torn \in BOOLEAN :
           file' = SubSeq(file, 1, n) \o (IF torn THEN <<Torn>> ELSE <<>>)
    BY DEF Crash
  <2>2. n \in 0 .. Len(file) /\ file \in Seq(Record \cup {Torn})
    BY <2>1 DEF IInv, TypeOK
  <2>3. SubSeq(file, 1, n) \in Seq(Record \cup {Torn})
    BY <2>2
  <2>4. SubSeq(file, 1, n) \o <<>> = SubSeq(file, 1, n)
    BY <2>3
  <2>. QED  BY <2>1, <2>4
<1>3. file \in Seq(Record \cup {Torn}) /\ synced \in 0 .. Len(file) /\ n \in 0 .. Len(file) /\ synced <= n
  BY <1>2 DEF IInv, TypeOK
<1>4. /\ file' \in Seq(Record \cup {Torn}) /\ n <= Len(file')
      /\ \A i \in 1 .. n : file'[i] = file[i]
      /\ \A i \in 1 .. Len(file') : (i \in 1 .. n /\ file'[i] = file[i]) \/ file'[i] = Torn
  BY <1>2, <1>3, CrashParts
<1>5. TypeOK'
  <2>1. stops' \in 0 .. MaxStops
    BY <1>1, BoundsAssumption DEF IInv, TypeOK
  <2>2. synced <= Len(file')
    BY <1>3, <1>4
  <2>. QED  BY <1>1, <1>4, <2>1, <2>2, ForgetTypes
<1>6. RecordsAreStamped'
  <2>1. \A i \in 1 .. n : i \in 1 .. Len(file)
    BY <1>3
  <2>2. \A w \in Writers : at'[w] # "write"
    BY <1>1, ForgetParts
  <2>. QED  BY <1>4, <2>1, <2>2 DEF IInv, RecordsAreStamped
<1>7. SafeIsSynced'
  <2>1. \A i \in 1 .. synced : i \in 1 .. n
    BY <1>3
  <2>. QED  BY <1>1, <1>4, <2>1 DEF IInv, SafeIsSynced
<1>. QED  BY <1>1, <1>5, <1>6, <1>7, ForgetParts DEF IInv

\* A new manager finds the file as it was left; none of it is its own.
LEMMA OpenKeepsIInv == ASSUME IInv, Open PROVE IInv'
<1>1. /\ phase = "down" /\ phase' = "recovering" /\ wal' = TRUE /\ first' = Len(file)
      /\ UNCHANGED <<file, synced, sequence, mu, at, rec, closed, pending, checkpoints, replayed, writes, stops,
                     returned, behind, safe>>
  BY DEF Open
<1>2. Len(file) \in Nat
  BY DEF IInv, TypeOK
<1>3. TypeOK'
  BY <1>1 DEF IInv, TypeOK
<1>4. Counted'
  <2>1. Waiting' = Waiting
    BY <1>1 DEF Waiting
  <2>. QED  BY <1>1, <2>1 DEF IInv, Counted
<1>5. RecordsAreStamped' /\ CheckpointsBehind' /\ Mutex'
  BY <1>1 DEF IInv, RecordsAreStamped, CheckpointsBehind, Mutex
<1>6. first' \in 0 .. Len(file') /\ \A i \in first' + 1 .. Len(file') : FALSE
  BY <1>1, <1>2
<1>7. SequenceAhead' /\ NumberedInOrder'
  BY <1>6 DEF SequenceAhead, NumberedInOrder
<1>8. SyncedUntilClosed' /\ ClosedIsSynced' /\ SafeIsSynced'
  BY <1>1 DEF IInv, SyncedUntilClosed, ClosedIsSynced, SafeIsSynced
<1>. QED  BY <1>3, <1>4, <1>5, <1>7, <1>8 DEF IInv

-----------------------------------------------------------------------------
(* The theorems. *)

\* Every step of the log keeps the invariant.
LEMMA NextKeepsIInv == IInv /\ [Next]_vars => IInv'
<1>. SUFFICES ASSUME IInv, [Next]_vars PROVE IInv'
  OBVIOUS
<1>1. CASE Recover
  BY <1>1, RecoverKeepsIInv
<1>2. ASSUME NEW w \in Writers, Call(w) \/ Number(w) \/ WriteRecord(w) PROVE IInv'
  BY <1>2, CallKeepsIInv, NumberKeepsIInv, WriteRecordKeepsIInv
<1>3. ASSUME NEW i \in DOMAIN pending, ReadSequence(i) \/ SaveCheckpoint(i) PROVE IInv'
  BY <1>3, ReadSequenceKeepsIInv, SaveCheckpointKeepsIInv
<1>4. CASE BeginClose \/ CloseLock \/ CloseSync \/ CloseFile
  BY <1>4, BeginCloseKeepsIInv, CloseLockKeepsIInv, CloseSyncKeepsIInv, CloseFileKeepsIInv
<1>5. CASE Exit \/ Crash \/ Open
  BY <1>5, ExitKeepsIInv, CrashKeepsIInv, OpenKeepsIInv
<1>6. CASE UNCHANGED vars
  <2>1. Waiting' = Waiting
    BY <1>6 DEF vars, Waiting
  <2>2. Counted' /\ TypeOK'
    BY <1>6, <2>1 DEF vars, IInv, Counted, TypeOK
  <2>3. Mutex' /\ RecordsAreStamped' /\ SequenceAhead' /\ NumberedInOrder' /\ CheckpointsBehind'
    BY <1>6 DEF vars, IInv, Mutex, RecordsAreStamped, SequenceAhead, NumberedInOrder, CheckpointsBehind
  <2>4. SyncedUntilClosed' /\ ClosedIsSynced' /\ SafeIsSynced'
    BY <1>6 DEF vars, IInv, SyncedUntilClosed, ClosedIsSynced, SafeIsSynced
  <2>. QED  BY <2>2, <2>3, <2>4 DEF IInv
<1>. QED  BY <1>1, <1>2, <1>3, <1>4, <1>5, <1>6 DEF Next

\* The inductive invariant holds of the log in every state, through closes,
\* crashes and reopenings.
THEOREM Invariant == Spec => []IInv
<1>1. Init => IInv
  BY InitIInv
<1>2. IInv /\ [Next]_vars => IInv'
  BY NextKeepsIInv
<1>. QED  BY <1>1, <1>2, PTL DEF Spec

\* The log's variables stay in their types: the sequence, for one, never
\* exceeds the number of Write calls.
THEOREM TypeCorrect == Spec => []TypeOK
<1>1. IInv => TypeOK
  BY DEF IInv
<1>. QED  BY <1>1, Invariant, PTL

\* Records lie in the file in the order Write numbered them.
THEOREM NumbersAscend == Spec => []NumberedInOrder
<1>1. IInv => NumberedInOrder
  BY DEF IInv
<1>. QED  BY <1>1, Invariant, PTL

\* The goroutine of a checkpoint never read a number whose record Write had
\* still to put in the file.
THEOREM CheckpointsStayBehind == Spec => []CheckpointBehindLog
<1>1. ASSUME IInv PROVE CheckpointBehindLog
  <2>1. SUFFICES ASSUME NEW c \in Range(pending) \ {None}, NEW w \in Writers, at[w] = "write"
                 PROVE  rec[w].seq > c
    BY DEF CheckpointBehindLog
  <2>2. PICK i \in 1 .. Len(pending) : pending[i] = c
    BY <1>1 DEF IInv, TypeOK, Range
  <2>3. c \in 1 .. sequence /\ c < sequence
    BY <1>1, <2>1, <2>2 DEF IInv, CheckpointsBehind
  <2>4. rec[w].seq = sequence
    BY <1>1, <2>1 DEF IInv, RecordsAreStamped
  <2>. QED  BY <1>1, <2>3, <2>4 DEF IInv, TypeOK
<1>. QED  BY <1>1, Invariant, PTL

\* When Close has closed the file, all of it is on disk.
THEOREM CloseSyncsAll == Spec => []ClosedIsSynced
<1>1. IInv => ClosedIsSynced
  BY DEF IInv
<1>. QED  BY <1>1, Invariant, PTL

\* What was written when a Close ended is in the file after every crash.
THEOREM ClosedLogSurvives == Spec => []ClosedSurvives
<1>1. ASSUME IInv PROVE ClosedSurvives
  <2>1. SUFFICES ASSUME NEW id \in safe PROVE id \in IdsIn(file)
    BY DEF ClosedSurvives
  <2>2. PICK i \in 1 .. synced : file[i] # Torn /\ file[i].id = id
    BY <1>1 DEF IInv, SafeIsSynced
  <2>3. i \in DOMAIN file
    BY <1>1 DEF IInv, TypeOK
  <2>. QED  BY <2>2, <2>3 DEF IdsIn
<1>. QED  BY <1>1, Invariant, PTL

\* No record is ever taken for intact when it is read back, so Recover
\* replays nothing, whatever was written: the reason FullReplay fails.
THEOREM NothingIsReplayed == Spec => [](Replayable = {})
<1>1. IInv => Replayable = {}
  BY NoneVerifies DEF IInv
<1>. QED  BY <1>1, Invariant, PTL

(***************************************************************************)
(* The second half of Recover: RecoverApply, for every log, pool of        *)
(* workers and channel size.                                               *)
(***************************************************************************)

\* Records taken out of the channel.
Received == 1 .. sent - Len(entryChan)

\* Types, and records by their position in the log.
ApplyTypes ==
    /\ entries \in [Positions -> Records]
    /\ producer \in {"select", "send", "wait", "done"}
    /\ sent \in 0 .. N
    /\ entryChan \in Seq(Nat)
    /\ workerAt \in [Workers -> {"receive", "apply", "report", "ended"}]
    /\ doing \in [Workers -> Nat]
    /\ nils \in Nat /\ errs \in Nat
    /\ l0 \in [Keys -> Nat]
    /\ applied \in SUBSET Nat /\ failed \in SUBSET Nat

\* The channel holds the records sent last, in log order.
ChannelInOrder ==
    /\ Len(entryChan) <= sent
    /\ \A n \in 1 .. Len(entryChan) : entryChan[n] = sent - Len(entryChan) + n

\* Each record taken from the channel is applied, failed or in one worker's
\* hands, and only in one of these.
TakenOnce ==
    /\ \A i \in Nat : i \in Received <=>
          i \in applied \/ i \in failed \/ \E w \in Workers : workerAt[w] = "apply" /\ doing[w] = i
    /\ \A i \in applied : i \notin failed
    /\ \A w \in Workers : workerAt[w] = "apply" =>
              doing[w] \in Received /\ doing[w] \notin applied /\ doing[w] \notin failed
    /\ \A v, w \in Workers : workerAt[v] = "apply" /\ workerAt[w] = "apply" /\
              doing[v] = doing[w] => v = w

\* Where the producer is, what it has sent and when workers have ended.
ProducerFollows ==
    /\ producer = "send" => sent < N
    /\ producer \in {"wait", "done"} => chanClosed = TRUE /\ (sent = N \/ ctxDone = TRUE)
    /\ chanClosed = TRUE => producer \in {"wait", "done"}
    /\ \A w \in Workers : workerAt[w] = "ended" => chanClosed = TRUE /\ Len(entryChan) = 0
    /\ producer = "done" => \A w \in Workers : workerAt[w] = "ended"

\* A failed record's error is in errorChan or about to go there; after the
\* channel was read, in Success.
ErrorsKept ==
    /\ producer # "done" => ((\E i \in failed : TRUE) <=>
              (errs > 0 \/ \E w \in Workers : workerAt[w] = "report"))
    /\ producer = "done" => success = (failed = {})

\* Unless its key has crossed, a record in a worker's hands is the only one
\* of its key there, and later than all applied ones.
OneInHand ==
    \A w \in Workers : workerAt[w] = "apply" /\ entries[doing[w]].key \notin crossed =>
        /\ \A j \in applied : entries[j].key = entries[doing[w]].key => j < doing[w]
        /\ \A v \in Workers \ {w} : workerAt[v] = "apply" =>
                  entries[doing[v]].key # entries[doing[w]].key

\* Unless its key has crossed, what L0 holds is the last applied record of
\* the key, which is a Set (ReplayedInOrder without its CHOOSE).
HoldsLast ==
    \A k \in Keys \ crossed : l0[k] # Absent =>
        /\ l0[k] \in applied
        /\ entries[l0[k]].key = k /\ entries[l0[k]].op # "delete"
        /\ \A j \in applied : entries[j].key = k => j <= l0[k]

\* The inductive invariant of the replay.
ReplayInv ==
    /\ ApplyTypes /\ ChannelInOrder /\ TakenOnce /\ ProducerFollows
    /\ ErrorsKept /\ OneInHand /\ HoldsLast

\* Nothing has been sent, applied or reported.
LEMMA InitReplayInv == ASSUME ReplayInit PROVE ReplayInv
<1>. USE DEF ReplayInit
<1>1. ApplyTypes
  BY SizeAssumption DEF ApplyTypes, Absent
<1>2. ChannelInOrder /\ TakenOnce
  BY DEF ChannelInOrder, TakenOnce, Received
<1>3. ProducerFollows /\ ErrorsKept /\ OneInHand
  BY DEF ProducerFollows, ErrorsKept, OneInHand
<1>4. HoldsLast
  BY DEF HoldsLast
<1>. QED BY <1>1, <1>2, <1>3, <1>4 DEF ReplayInv

\* The producer between two records, when it closes the channel, and when it
\* collects the errors after all workers have ended.
LEMMA ProducerKeepsReplayInv == ASSUME ReplayInv, Select \/ CloseEntryChan \/ Collect PROVE ReplayInv'
<1>. USE DEF ReplayInv
<1>1. CASE Select
  <2>. USE <1>1 DEF Select
  <2>1. ApplyTypes'  BY DEF ApplyTypes
  <2>2. ChannelInOrder' /\ TakenOnce'
    BY DEF ChannelInOrder, TakenOnce, Received
  <2>3. ProducerFollows' BY DEF ProducerFollows
  <2>4. ErrorsKept' BY DEF ErrorsKept
  <2>5. OneInHand' /\ HoldsLast' BY DEF OneInHand, HoldsLast
  <2>. QED BY <2>1, <2>2, <2>3, <2>4, <2>5
<1>2. CASE CloseEntryChan
  <2>. USE <1>2 DEF CloseEntryChan
  <2>1. ApplyTypes'  BY DEF ApplyTypes
  <2>2. ChannelInOrder' /\ TakenOnce'
    BY DEF ChannelInOrder, TakenOnce, Received
  <2>3. ProducerFollows' BY DEF ProducerFollows
  <2>4. ErrorsKept' BY DEF ErrorsKept
  <2>5. OneInHand' /\ HoldsLast' BY DEF OneInHand, HoldsLast
  <2>. QED BY <2>1, <2>2, <2>3, <2>4, <2>5
<1>3. CASE Collect
  <2>. USE <1>3 DEF Collect
  <2>1. ApplyTypes'  BY DEF ApplyTypes
  <2>2. ChannelInOrder' /\ TakenOnce'
    BY DEF ChannelInOrder, TakenOnce, Received
  <2>3. ProducerFollows' BY DEF ProducerFollows
  <2>4. ErrorsKept' 
     <3>1. failed = {} <=> ~(\E i \in failed : TRUE)  OBVIOUS
     <3>2. failed = {} <=> errs = 0 BY <3>1 DEF ErrorsKept, ApplyTypes
     <3>. QED BY <3>2 DEF ErrorsKept
  <2>5. OneInHand' /\ HoldsLast' BY DEF OneInHand, HoldsLast
  <2>. QED BY <2>1, <2>2, <2>3, <2>4, <2>5
<1>. QED BY <1>1, <1>2, <1>3

\* A record enters the channel behind the others.
LEMMA SendKeepsReplayInv == ASSUME ReplayInv, Send PROVE ReplayInv'
<1>. USE DEF ReplayInv, Send
<1>1. sent < N /\ sent \in Nat /\ N \in Nat /\ sent' = sent + 1 /\ entryChan \in Seq(Nat)
  BY SizeAssumption DEF ApplyTypes, ProducerFollows
<1>2. /\ entryChan' \in Seq(Nat) 
      /\ Len(entryChan') = Len(entryChan) + 1
      /\ \A n \in 1 .. Len(entryChan) : entryChan'[n] = entryChan[n]
      /\ entryChan'[Len(entryChan) + 1] = sent + 1
      /\ Len(entryChan) \in Nat
  BY <1>1
<1>3. ApplyTypes' BY <1>1, <1>2 DEF ApplyTypes
<1>4. ChannelInOrder'
  BY <1>1, <1>2 DEF ChannelInOrder
<1>5. Received' = Received
  BY <1>1, <1>2 DEF Received
<1>6. TakenOnce' BY <1>5 DEF TakenOnce
<1>7. ProducerFollows' BY DEF ProducerFollows
<1>8. ErrorsKept' BY DEF ErrorsKept
<1>9. OneInHand' /\ HoldsLast' BY DEF OneInHand, HoldsLast
<1>. QED BY <1>3, <1>4, <1>6, <1>7, <1>8, <1>9

\* A worker takes the oldest record: it is later than all taken before it,
\* and its key crosses if another worker has one of the key.
LEMMA ReceiveKeepsReplayInv == ASSUME ReplayInv, NEW w \in Workers, Receive(w) PROVE ReplayInv'
<1>. USE DEF ReplayInv, Receive
<1>. DEFINE i == Head(entryChan)
<1>1. entryChan \in Seq(Nat) /\ entryChan # <<>> /\ sent \in Nat /\ N \in Nat /\ sent <= N
  BY SizeAssumption DEF ApplyTypes
<1>2. /\ entryChan' \in Seq(Nat) 
      /\ Len(entryChan) \in Nat \ {0}
      /\ Len(entryChan') = Len(entryChan) - 1
      /\ \A n \in 1 .. Len(entryChan') : entryChan'[n] = entryChan[n + 1]
      /\ i = entryChan[1]
  BY <1>1
<1>3. i = sent - Len(entryChan) + 1 /\ i \in Nat /\ i \in 1 .. N
  BY <1>1, <1>2 DEF ChannelInOrder
<1>4. /\ \A j \in Nat : j \in Received' <=> j \in Received \/ j = i
      /\ \A j \in Received : j < i /\ j \in Nat
      /\ Received \in SUBSET Nat
  BY <1>1, <1>2, <1>3 DEF Received, ChannelInOrder
<1>5. workerAt' = [workerAt EXCEPT ![w] = "apply"] /\ doing' = [doing EXCEPT ![w] = i] /\
          workerAt[w] = "receive"
  OBVIOUS
<1>. HIDE DEF i
<1>6. /\ workerAt'[w] = "apply" /\ doing'[w] = i
      /\ \A v \in Workers \ {w} : workerAt'[v] = workerAt[v] /\ doing'[v] = doing[v]
  BY <1>5 DEF ApplyTypes
<1>7. ApplyTypes' 
   BY <1>2, <1>3, <1>5 DEF ApplyTypes
<1>8. ChannelInOrder'
  BY <1>1, <1>2 DEF ChannelInOrder
<1>9. TakenOnce'
  <2>1. /\ applied \in SUBSET Nat /\ failed \in SUBSET Nat /\ doing \in [Workers -> Nat]
        /\ applied' = applied /\ failed' = failed
        /\ i \notin Received /\ i \in Nat
    BY <1>3, <1>4 DEF ApplyTypes
  <2>2. \A j \in Nat : (\E v \in Workers : workerAt'[v] = "apply" /\ doing'[v] = j)
                         <=> j = i \/ \E v \in Workers : workerAt[v] = "apply" /\ doing[v] = j
    BY <1>5, <1>6
  <2>3. \A j \in Nat : j \in Received' <=>
            (j \in applied' \/ j \in failed' \/ \E v \in Workers : workerAt'[v] = "apply" /\
                      doing'[v] = j)
    BY <2>1, <2>2, <1>4 DEF TakenOnce
  <2>4. i \notin applied /\ i \notin failed /\ \A v \in Workers : workerAt[v] = "apply" => doing[v] # i
    BY <2>1, <1>3 DEF TakenOnce
  <2>5. \A v \in Workers : workerAt'[v] = "apply" =>
            doing'[v] \in Received' /\ doing'[v] \notin applied' /\ doing'[v] \notin failed'
    <3>1. SUFFICES ASSUME NEW v \in Workers, workerAt'[v] = "apply"
                   PROVE  doing'[v] \in Received' /\ doing'[v] \notin applied' /\
                             doing'[v] \notin failed'
      OBVIOUS
    <3>2. CASE v = w
      BY <3>2, <2>1, <2>4, <1>3, <1>4, <1>6
    <3>3. CASE v # w
      BY <3>1, <3>3, <2>1, <1>4, <1>6 DEF TakenOnce
    <3>. QED BY <3>2, <3>3
  <2>6. \A u, v \in Workers : workerAt'[u] = "apply" /\ workerAt'[v] = "apply" /\
            doing'[u] = doing'[v] => u = v
    BY <2>4, <1>6 DEF TakenOnce
  <2>. QED BY <2>1, <2>3, <2>5, <2>6 DEF TakenOnce
<1>10. ProducerFollows' 
  <2>1. \A v \in Workers : workerAt[v] # "ended"
    BY <1>2 DEF ProducerFollows
  <2>2. \A v \in Workers : workerAt'[v] # "ended"
    BY <2>1, <1>6
  <2>. QED BY <2>1, <2>2 DEF ProducerFollows
<1>11. ErrorsKept' 
  <2>1. producer # "done" 
    BY <1>5 DEF ProducerFollows
  <2>2. (\E v \in Workers : workerAt'[v] = "report") <=> (\E v \in Workers : workerAt[v] = "report")
    BY <1>5, <1>6
  <2>. QED BY <2>1, <2>2 DEF ErrorsKept
<1>12. OneInHand'
  <2>1. SUFFICES ASSUME NEW v \in Workers, workerAt'[v] = "apply", entries[doing'[v]].key \notin crossed'
                 PROVE  /\ \A j \in applied : entries[j].key = entries[doing'[v]].key => j < doing'[v]
                        /\ \A u \in Workers \ {v} : workerAt'[u] = "apply" =>
                                  entries[doing'[u]].key # entries[doing'[v]].key
    BY DEF OneInHand
  <2>2. \A u \in Workers \ {w} : workerAt[u] = "apply" /\
            entries[doing[u]].key = entries[i].key => entries[i].key \in crossed'
    BY <1>6 DEF InHand
  <2>3. crossed \subseteq crossed'
    OBVIOUS
  <2>4. \A j \in applied : j < i
    BY <1>4 DEF TakenOnce, ApplyTypes
  <2>5. CASE v = w
    BY <2>1, <2>2, <2>4, <2>5, <1>6
  <2>6. CASE v # w
    BY <2>1, <2>2, <2>3, <2>6, <1>6 DEF OneInHand
  <2>. QED BY <2>5, <2>6
<1>13. HoldsLast' BY DEF HoldsLast
<1>. QED BY <1>7, <1>8, <1>9, <1>10, <1>11, <1>12, <1>13

\* A worker ends when the channel is closed and empty.
LEMMA EndKeepsReplayInv == ASSUME ReplayInv, NEW w \in Workers, End(w) PROVE ReplayInv'
<1>. USE DEF ReplayInv, End, chans
<1>1. /\ workerAt[w] = "receive" /\ workerAt'[w] = "ended"
      /\ \A v \in Workers \ {w} : workerAt'[v] = workerAt[v]
  BY DEF ApplyTypes
<1>2. ApplyTypes' BY DEF ApplyTypes
<1>3. ChannelInOrder'
  BY DEF ChannelInOrder
<1>4. TakenOnce' 
  BY <1>1 DEF TakenOnce, Received
<1>5. ProducerFollows' 
  BY <1>1 DEF ProducerFollows
<1>6. ErrorsKept' 
  <2>1. producer # "done" 
    BY <1>1 DEF ProducerFollows
  <2>2. (\E v \in Workers : workerAt'[v] = "report") <=> (\E v \in Workers : workerAt[v] = "report")
    BY <1>1
  <2>. QED BY <2>1, <2>2 DEF ErrorsKept
<1>7. OneInHand' /\ HoldsLast' 
  BY <1>1 DEF OneInHand, HoldsLast
<1>. QED BY <1>2, <1>3, <1>4, <1>5, <1>6, <1>7

\* The error of a failed record goes into errorChan.
LEMMA ReportKeepsReplayInv == ASSUME ReplayInv, NEW w \in Workers, Report(w) PROVE ReplayInv'
<1>. USE DEF ReplayInv, Report
<1>1. /\ workerAt[w] = "report" /\ workerAt'[w] = "receive"
      /\ \A v \in Workers \ {w} : workerAt'[v] = workerAt[v]
  BY DEF ApplyTypes
<1>2. ApplyTypes' BY DEF ApplyTypes
<1>3. ChannelInOrder'
  BY DEF ChannelInOrder
<1>4. TakenOnce' 
  BY <1>1 DEF TakenOnce, Received
<1>5. ProducerFollows' 
  BY <1>1 DEF ProducerFollows
<1>6. ErrorsKept' 
  <2>1. producer # "done" 
    BY <1>1 DEF ProducerFollows
  <2>2. errs' > 0
    BY DEF ApplyTypes
  <2>. QED BY <1>1, <2>1, <2>2 DEF ErrorsKept
<1>7. OneInHand' /\ HoldsLast' 
  BY <1>1 DEF OneInHand, HoldsLast
<1>. QED BY <1>2, <1>3, <1>4, <1>5, <1>6, <1>7

\* A record is applied, and L0 may evict others, or it fails.
LEMMA ApplyKeepsReplayInv == ASSUME ReplayInv, NEW w \in Workers, Apply(w) PROVE ReplayInv'
<1>. DEFINE i == doing[w]
            k == entries[i].key
<1>1. /\ workerAt[w] = "apply" /\ doing' = [doing EXCEPT ![w] = 0]
      /\ UNCHANGED <<entries, producer, sent, entryChan, chanClosed, nils, errs, ctxDone,
             l0Closed, success, crossed>>
  BY DEF Apply, chans
<1>2. \/ failed' = failed \cup {i} /\ workerAt' = [workerAt EXCEPT ![w] = "report"] /\
          l0' = l0 /\ applied' = applied
      \/ l0' \in L0After(i) /\ applied' = applied \cup {i} /\
                workerAt' = [workerAt EXCEPT ![w] = "receive"] /\ failed' = failed
  BY DEF Apply
<1>3. i \in Received /\ i \in Nat /\ i \notin applied /\ i \notin failed /\ i \in Positions
  BY <1>1, SizeAssumption DEF ReplayInv, TakenOnce, ApplyTypes, ChannelInOrder, Received, Positions
<1>4. k \in Keys /\ entries[i].op \in Operations
  BY <1>3 DEF ReplayInv, ApplyTypes, Records
<1>5. /\ \A v \in Workers \ {w} : workerAt'[v] = workerAt[v] /\ doing'[v] = doing[v]
      /\ workerAt'[w] \in {"report", "receive"} /\
                workerAt' \in [Workers -> {"receive", "apply", "report", "ended"}]
      /\ doing' \in [Workers -> Nat]
  BY <1>1, <1>2 DEF ReplayInv, ApplyTypes
<1>6. \/ l0' = l0
      \/ entries[i].op = "delete" /\ l0' = [l0 EXCEPT ![k] = Absent]
      \/ /\ entries[i].op # "delete" /\ l0' \in [Keys -> Nat] /\ l0'[k] = i
         /\ \A x \in Keys \ {k} : l0'[x] \in {Absent, l0[x]}
  <2>1. CASE entries[i].op = "delete"
    BY <1>2, <2>1 DEF L0After
  <2>2. CASE entries[i].op # "delete" /\ l0' # l0
    <3>1. PICK evicted \in SUBSET (Keys \ {k}) : 
             l0' = [x \in Keys |-> IF x = k THEN i ELSE IF x \in evicted THEN Absent ELSE l0[x]]
      BY <1>2, <2>2 DEF L0After
    <3>2. l0 \in [Keys -> Nat] BY DEF ReplayInv, ApplyTypes
    <3>. HIDE DEF k, i
    <3>. QED BY <3>1, <3>2, <2>2, <1>3, <1>4 DEF Absent
  <2>. QED BY <2>1, <2>2
<1>7. /\ applied' \in SUBSET Nat /\ failed' \in SUBSET Nat
      /\ \A j \in Nat : j \in applied' \/ j \in failed' <=> j \in applied \/ j \in failed \/ j = i
      /\ \A j \in applied' : j \notin failed'
      /\ applied \subseteq applied'
      /\ \A j \in applied' : j \in applied \/ j = i
  <2>1. /\ applied \in SUBSET Nat /\ failed \in SUBSET Nat
        /\ \A j \in applied : j \notin failed
    BY DEF ReplayInv, ApplyTypes, TakenOnce
  <2>. HIDE DEF i
  <2>2. CASE failed' = failed \cup {i} /\ applied' = applied
    BY <2>1, <2>2, <1>3
  <2>3. CASE applied' = applied \cup {i} /\ failed' = failed
    BY <2>1, <2>3, <1>3
  <2>. QED BY <2>2, <2>3, <1>2
<1>8. (l0' = l0 /\ applied' = applied) \/ (l0' \in L0After(i) /\ applied' = applied \cup {i})
  BY <1>2
<1>9. ApplyTypes'
  <2>1. l0' \in [Keys -> Nat]
    BY <1>6, <1>4 DEF ReplayInv, ApplyTypes, Absent
  <2>. QED BY <2>1, <1>1, <1>5, <1>7 DEF ReplayInv, ApplyTypes
<1>10. ChannelInOrder'
  BY <1>1 DEF ReplayInv, ChannelInOrder
<1>11. TakenOnce'
  <2>1. Received' = Received
    BY <1>1 DEF Received
  <2>2. \A j \in Nat : (\E v \in Workers : workerAt[v] = "apply" /\ doing[v] = j)
                         <=> j = i \/ \E v \in Workers : workerAt'[v] = "apply" /\ doing'[v] = j
    BY <1>1, <1>5
  <2>3. \A v \in Workers : workerAt'[v] = "apply" =>
            v # w /\ workerAt[v] = "apply" /\ doing'[v] = doing[v] /\ doing[v] # i
    BY <1>1, <1>5 DEF ReplayInv, TakenOnce
  <2>. HIDE DEF i
  <2>4. \A j \in Nat : j \in Received' <=>
            (j \in applied' \/ j \in failed' \/ \E v \in Workers : workerAt'[v] = "apply" /\
                      doing'[v] = j)
    BY <2>1, <2>2, <1>3, <1>7 DEF ReplayInv, TakenOnce
  <2>5. \A v \in Workers : workerAt'[v] = "apply" =>
            doing'[v] \in Received' /\ doing'[v] \notin applied' /\ doing'[v] \notin failed'
    BY <2>1, <2>3, <1>7 DEF ReplayInv, TakenOnce, ApplyTypes
  <2>6. \A u, v \in Workers : workerAt'[u] = "apply" /\ workerAt'[v] = "apply" /\
            doing'[u] = doing'[v] => u = v
    BY <2>3 DEF ReplayInv, TakenOnce
  <2>. QED BY <2>4, <2>5, <2>6, <1>7 DEF TakenOnce
<1>12. ProducerFollows'
  BY <1>1, <1>5 DEF ReplayInv, ProducerFollows
<1>13. ErrorsKept'
  <2>1. producer # "done"
    BY <1>1 DEF ReplayInv, ProducerFollows
  <2>2. CASE failed' = failed \cup {i} /\ workerAt' = [workerAt EXCEPT ![w] = "report"]
    <3>1. workerAt'[w] = "report" BY <2>2 DEF ReplayInv, ApplyTypes
    <3>. QED BY <2>1, <2>2, <3>1, <1>1 DEF ErrorsKept
  <2>3. CASE failed' = failed /\ workerAt' = [workerAt EXCEPT ![w] = "receive"]
    <3>1. (\E v \in Workers : workerAt'[v] = "report") <=> (\E v \in Workers : workerAt[v] = "report")
      BY <2>3, <1>1, <1>5 DEF ReplayInv, ApplyTypes
    <3>. QED BY <2>1, <2>3, <3>1, <1>1 DEF ReplayInv, ErrorsKept
  <2>. QED BY <2>2, <2>3, <1>2
<1>14. OneInHand'
  <2>1. SUFFICES ASSUME NEW v \in Workers, workerAt'[v] = "apply", entries[doing'[v]].key \notin crossed
                 PROVE  /\ \A j \in applied' : entries[j].key = entries[doing'[v]].key => j < doing'[v]
                        /\ \A u \in Workers \ {v} : workerAt'[u] = "apply" =>
                                  entries[doing'[u]].key # entries[doing'[v]].key
    BY <1>1 DEF OneInHand
  <2>2. v # w /\ workerAt[v] = "apply" /\ doing'[v] = doing[v]
    BY <2>1, <1>5
  <2>3. k # entries[doing[v]].key
    BY <2>1, <2>2, <1>1 DEF ReplayInv, OneInHand
  <2>4. \A u \in Workers : workerAt'[u] = "apply" => workerAt[u] = "apply" /\ doing'[u] = doing[u]
    BY <1>5
  <2>. QED BY <2>1, <2>2, <2>3, <2>4, <1>7 DEF ReplayInv, OneInHand
<1>15. HoldsLast'
  <2>1. SUFFICES ASSUME NEW x \in Keys \ crossed, l0'[x] # Absent
                 PROVE  /\ l0'[x] \in applied'
                        /\ entries[l0'[x]].key = x /\ entries[l0'[x]].op # "delete"
                        /\ \A j \in applied' : entries[j].key = x => j <= l0'[x]
    BY <1>1 DEF HoldsLast
  <2>2. CASE l0' = l0 /\ applied' = applied
    BY <2>1, <2>2 DEF ReplayInv, HoldsLast
  <2>3. CASE l0' \in L0After(i) /\ applied' = applied \cup {i}
    <3>1. \/ entries[i].op = "delete" /\ l0' = [l0 EXCEPT ![k] = Absent]
          \/ /\ entries[i].op # "delete" /\ l0'[k] = i
             /\ \A y \in Keys \ {k} : l0'[y] \in {Absent, l0[y]}
      <4>1. CASE entries[i].op = "delete"
        BY <2>3, <4>1 DEF L0After
      <4>2. CASE entries[i].op # "delete"
        <5>1. PICK evicted \in SUBSET (Keys \ {k}) : 
                 l0' = [y \in Keys |-> IF y = k THEN i ELSE IF y \in evicted THEN Absent ELSE l0[y]]
          BY <2>3, <4>2 DEF L0After
        <5>. HIDE DEF k, i
        <5>. QED BY <5>1, <4>2, <1>4
      <4>. QED BY <4>1, <4>2
    <3>2. CASE x = k
      <4>1. entries[i].op # "delete" /\ l0'[k] = i
        BY <3>1, <3>2, <2>1, <1>4 DEF ReplayInv, ApplyTypes
      <4>2. \A j \in applied : entries[j].key = k => j < i
        BY <3>2, <2>1, <1>1 DEF ReplayInv, OneInHand
      <4>. HIDE DEF i
      <4>3. \A j \in applied' : entries[j].key = k => j <= i
        BY <4>2, <1>3, <1>7 DEF ReplayInv, ApplyTypes
      <4>. QED BY <4>1, <4>3, <3>2, <2>3
    <3>3. CASE x # k
      <4>1. l0'[x] = l0[x]
        BY <3>1, <3>3, <2>1, <1>4 DEF ReplayInv, ApplyTypes
      <4>. QED BY <4>1, <3>3, <2>1, <2>3 DEF ReplayInv, HoldsLast
    <3>. QED BY <3>2, <3>3
  <2>. QED BY <2>2, <2>3, <1>8
<1>. HIDE DEF i, k
<1>. QED BY <1>9, <1>10, <1>11, <1>12, <1>13, <1>14, <1>15 DEF ReplayInv

\* Cancelling and closing L0 move no record.
LEMMA CancelKeepsReplayInv ==
    ASSUME ReplayInv, Cancel \/ CloseL0 \/ UNCHANGED replayVars
    PROVE  ReplayInv'
<1>1. UNCHANGED <<entries, producer, sent, entryChan, chanClosed, workerAt, doing, nils, errs,
       l0, success, applied, failed, crossed>>
      /\ (ctxDone = TRUE => ctxDone' = TRUE)
  BY DEF Cancel, CloseL0, replayVars, chans
<1>2. ApplyTypes' /\ ChannelInOrder' /\ TakenOnce'
  BY <1>1 DEF ReplayInv, ApplyTypes, ChannelInOrder, TakenOnce, Received
<1>3. ProducerFollows' /\ ErrorsKept' /\ OneInHand' /\ HoldsLast'
  BY <1>1 DEF ReplayInv, ProducerFollows, ErrorsKept, OneInHand, HoldsLast
<1>. QED BY <1>2, <1>3 DEF ReplayInv

\* Every step of the replay keeps the invariant.
LEMMA NextKeepsReplayInv == ASSUME ReplayInv, [ReplayNext]_replayVars PROVE ReplayInv'
<1>. QED BY ProducerKeepsReplayInv, SendKeepsReplayInv, ReceiveKeepsReplayInv, EndKeepsReplayInv,
       ApplyKeepsReplayInv, ReportKeepsReplayInv, CancelKeepsReplayInv
   DEF ReplayNext, Produce, Work

\* Every state of the replay satisfies the invariant.
THEOREM ReplayInvariant == ReplaySpec => []ReplayInv
<1>1. ReplayInit => ReplayInv BY InitReplayInv
<1>2. ReplayInv /\ [ReplayNext]_replayVars => ReplayInv' BY NextKeepsReplayInv
<1>. QED BY <1>1, <1>2, PTL DEF ReplaySpec

\* Whatever the pool's interleaving, the evictions and the moment of Close,
\* a key whose records were never in two workers' hands at a time holds in L0
\* what its records applied so far leave in log order, or has been evicted.
THEOREM ReplayKeepsOrder == ReplaySpec => []ReplayedInOrder
<1>1. ReplayInv => ReplayedInOrder
  <2>1. SUFFICES ASSUME ReplayInv, NEW k \in Keys \ crossed, l0[k] # Absent
                 PROVE  l0[k] = LastValue(k, applied)
    BY DEF ReplayedInOrder
  <2>. DEFINE own == {i \in applied : entries[i].key = k}
  <2>2. /\ l0[k] \in own /\ entries[l0[k]].op # "delete" 
        /\ \A j \in own : j <= l0[k]
        /\ \A j \in own : j \in Nat
    BY <2>1 DEF ReplayInv, HoldsLast, ApplyTypes
  <2>3. \A i \in own : (\A j \in own : j <= i) => i = l0[k]
    BY <2>2
  <2>4. LastValue(k, applied) = IF own = {} THEN Absent
        ELSE LET last == CHOOSE i \in own : \A j \in own : j <= i
             IN  IF entries[last].op = "delete" THEN Absent ELSE last
    BY DEF LastValue
  <2>. HIDE DEF own
  <2>5. (CHOOSE i \in own : \A j \in own : j <= i) = l0[k]
    BY <2>2, <2>3
  <2>. QED BY <2>2, <2>4, <2>5
<1>. QED BY <1>1, ReplayInvariant, PTL

\* When Recover returns, the EntriesReplayed records it counted were each
\* applied or failed, and Success says whether one of them failed.
THEOREM RecoverIsHonest == ReplaySpec => []ResultIsHonest
<1>1. ReplayInv => ResultIsHonest
  <2>1. SUFFICES ASSUME ReplayInv, producer = "done"
                 PROVE  ResultIsHonest
    BY DEF ResultIsHonest
  <2>2. /\ chanClosed = TRUE /\ (sent = N \/ ctxDone = TRUE)
        /\ \A w \in Workers : workerAt[w] = "ended"
    BY <2>1 DEF ReplayInv, ProducerFollows
  <2>3. Received = 1 .. sent
    <3>1. Len(entryChan) = 0
      BY <2>1, <2>2, WorkersAssumption DEF ReplayInv, ProducerFollows
    <3>. QED BY <2>1, <3>1 DEF Received, ReplayInv, ApplyTypes
  <2>4. applied \cup failed = Received /\ applied \cap failed = {}
    <3>1. Received \subseteq Nat /\ applied \subseteq Nat /\ failed \subseteq Nat
      BY <2>1, <2>3 DEF ReplayInv, ApplyTypes
    <3>2. \A i \in Nat : i \in Received <=> i \in applied \/ i \in failed
      BY <2>1, <2>2 DEF ReplayInv, TakenOnce
    <3>. QED BY <2>1, <3>1, <3>2 DEF ReplayInv, TakenOnce
  <2>5. success = (failed = {})
    BY <2>1 DEF ReplayInv, ErrorsKept
  <2>6. sent < N => ctxDone
    BY <2>2, SizeAssumption
  <2>. QED BY <2>3, <2>4, <2>5, <2>6 DEF ResultIsHonest
<1>. QED BY <1>1, ReplayInvariant, PTL
=============================================================================
