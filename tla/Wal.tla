-------------------------------- MODULE Wal --------------------------------
(***************************************************************************)
(* The write-ahead log (pkg/replay/recovery.go): concurrent Write calls    *)
(* under the manager's mutex, the checkpoint goroutines they start, Close, *)
(* a crash of the process or of the machine, the next NewRecoveryManager,  *)
(* and Recover, which reads the log back.                                  *)
(*                                                                         *)
(* A record stands for its operation, key and value by a number unique to  *)
(* the Write.  The file is a sequence of records; a crash or a failed      *)
(* write may leave a Torn one.  Of a timestamp only its monotonic clock    *)
(* reading is kept: time.Now() has one, its String() shows it, JSON does   *)
(* not carry it.  A checksum is the tuple of what is hashed.  The cache    *)
(* calls Write only after it has called Recover.                           *)
(***************************************************************************)
EXTENDS Integers, Sequences, FiniteSets, SequencesExt

CONSTANTS
    Writers,    \* goroutines calling Write
    Interval,   \* checkpointInterval
    MaxWrites,  \* bound: Write calls in all
    MaxStops,   \* bound: crashes and closes
    None, Torn

ASSUME IntervalAssumption == Interval \in Nat \ {0}
ASSUME BoundsAssumption == MaxWrites \in Nat /\ MaxStops \in Nat
ASSUME HoldersAssumption == None \notin Writers /\ None # "close" /\ "close" \notin Writers

Ids == 1 .. MaxWrites
Record == [id : Ids, seq : 1 .. MaxWrites, mono : BOOLEAN,
           checksum : (1 .. MaxWrites) \X Ids \X BOOLEAN]

VARIABLES
    file,       \* wal.log as the operating system holds it
    synced,     \* how much of it is on disk
    sequence,   \* m.sequence
    mu,         \* the writer or "close" that holds m.mu, or None
    at, rec,    \* where each writer is, and its record (before Number, its id)
    closed,     \* m.closed
    wal,        \* whether the file handle is open
    pending,    \* checkpoint goroutines: the sequence read, None before that
    checkpoints,\* sequences of the checkpoint files
    phase,      \* "recovering", "serving"; in Close "closing", "sync", "close";
                \* "closed"; "down"
    replayed,   \* ids Recover handed to the apply function
    writes, stops,
    first,      \* history: length of the file when this process opened it
    returned,   \* history: ids whose Write returned without an error
    behind,     \* history: records on file when the last checkpoint was saved
    safe        \* history: ids whose Write had returned when a Close ended

vars == <<file, synced, sequence, mu, at, rec, closed, wal, pending, checkpoints, phase, replayed,
          writes, stops, first, returned, behind, safe>>

-----------------------------------------------------------------------------
(* Records on their way to the file and back. *)

\* computeChecksum: sequence, key, value, operation, and the timestamp's text.
ComputeChecksum(seq, id, mono) == <<seq, id, mono>>

\* Write stamps the record with time.Now() and then hashes it.
MakeRecord(seq, id) ==
    [id |-> id, seq |-> seq, mono |-> TRUE, checksum |-> ComputeChecksum(seq, id, TRUE)]

\* decodeEntry: what JSON gives back.
Decode(r) == [r EXCEPT !.mono = FALSE]

VerifyChecksum(r) == r.checksum = ComputeChecksum(r.seq, r.id, r.mono)

IdsIn(f) == {f[i].id : i \in {j \in DOMAIN f : f[j] # Torn}}

\* The framing is lost at a torn record: what was appended behind it cannot
\* be read any more (left out: the missing bytes happen to be as many as the
\* records behind them).
ReadablePart(f) ==
    {i \in DOMAIN f : \A j \in 1 .. i : f[j] # Torn}

LatestCheckpoint ==
    CHOOSE c \in checkpoints \cup {0} : \A d \in checkpoints : d <= c

\* replayWAL: what of the file is handed on.
Replayable ==
    {i \in ReadablePart(file) :
        LET r == Decode(file[i]) IN r.seq > LatestCheckpoint /\ VerifyChecksum(r)}

-----------------------------------------------------------------------------
Init ==
    /\ file = <<>>
    /\ synced = 0
    /\ sequence = 0
    /\ mu = None
    /\ at = [w \in Writers |-> "idle"]
    /\ rec = [w \in Writers |-> None]
    /\ closed = FALSE
    /\ wal = TRUE
    /\ pending = <<>>
    /\ checkpoints = {}
    /\ phase = "recovering"
    /\ replayed = {}
    /\ writes = 0
    /\ stops = 0
    /\ first = 0
    /\ returned = {}
    /\ behind = 0
    /\ safe = {}

\* Recover; it moves the sequence only if it replays something.
Recover ==
    /\ phase = "recovering"
    /\ phase' = "serving"
    /\ replayed' = {file[i].id : i \in Replayable}
    /\ sequence' = IF Replayable = {} THEN sequence
                   ELSE file[CHOOSE i \in Replayable : \A j \in Replayable : j <= i].seq
    /\ UNCHANGED <<file, synced, mu, at, rec, closed, wal, pending, checkpoints, writes, stops, first,
                   returned, behind, safe>>

\* Write: the closed flag is read before the lock is taken.
Call(w) ==
    /\ phase = "serving"
    /\ at[w] = "idle"
    /\ writes < MaxWrites
    /\ ~closed
    /\ at' = [at EXCEPT ![w] = "lock"]
    /\ writes' = writes + 1
    /\ rec' = [rec EXCEPT ![w] = writes']
    /\ UNCHANGED <<file, synced, sequence, mu, closed, wal, pending, checkpoints, phase, replayed, stops,
                   first, returned, behind, safe>>

\* Mutant: the mutex is not taken.
NumberUnlocked(w) ==
    /\ at[w] = "lock"
    /\ sequence' = sequence + 1
    /\ rec' = [rec EXCEPT ![w] = MakeRecord(sequence', rec[w])]
    /\ at' = [at EXCEPT ![w] = "write"]
    /\ UNCHANGED <<file, synced, mu, closed, wal, pending, checkpoints, phase, replayed, writes, stops, first,
                   returned, behind, safe>>

\* Mutant: the record gets the number the sequence had before.
NumberFromZero(w) ==
    /\ at[w] = "lock"
    /\ mu = None
    /\ mu' = w
    /\ sequence' = sequence + 1
    /\ rec' = [rec EXCEPT ![w] = MakeRecord(sequence, rec[w])]
    /\ at' = [at EXCEPT ![w] = "write"]
    /\ UNCHANGED <<file, synced, closed, wal, pending, checkpoints, phase, replayed, writes, stops, first,
                   returned, behind, safe>>

\* The lock is taken and the record numbered, stamped and hashed.
Number(w) ==
    /\ at[w] = "lock"
    /\ mu = None
    /\ mu' = w
    /\ sequence' = sequence + 1
    /\ rec' = [rec EXCEPT ![w] = MakeRecord(sequence', rec[w])]
    /\ at' = [at EXCEPT ![w] = "write"]
    /\ UNCHANGED <<file, synced, closed, wal, pending, checkpoints, phase, replayed, writes, stops, first,
                   returned, behind, safe>>

\* An error of the file write: the number is used up and part of the record
\* may be in the file.  To a file that Close has closed nothing is written.
FailedWrite ==
    \/ UNCHANGED file
    \/ wal /\ file' = Append(file, Torn)

\* The file write, the checkpoint it may trigger, and the unlock.
WriteRecord(w) ==
    /\ at[w] = "write"
    /\ \/ /\ wal
          /\ file' = Append(file, rec[w])
          /\ returned' = returned \cup {rec[w].id}
          /\ pending' = IF sequence % Interval = 0 THEN Append(pending, None) ELSE pending
       \/ FailedWrite /\ UNCHANGED <<returned, pending>>
    /\ mu' = None
    /\ at' = [at EXCEPT ![w] = "idle"]
    /\ rec' = [rec EXCEPT ![w] = None]
    /\ UNCHANGED <<synced, sequence, closed, wal, checkpoints, phase, replayed, writes, stops, first, behind,
                   safe>>

\* Mutant: the sequence is read without the mutex.
ReadSequenceUnlocked(i) ==
    /\ pending[i] = None
    /\ pending' = [pending EXCEPT ![i] = sequence]
    /\ UNCHANGED <<file, synced, sequence, mu, at, rec, closed, wal, checkpoints, phase, replayed, writes,
                   stops, first, returned, behind, safe>>

\* checkpoint: the sequence is read under the lock, the file written after it.
ReadSequence(i) ==
    /\ pending[i] = None
    /\ mu = None
    /\ pending' = [pending EXCEPT ![i] = sequence]
    /\ UNCHANGED <<file, synced, sequence, mu, at, rec, closed, wal, checkpoints, phase, replayed, writes,
                   stops, first, returned, behind, safe>>

SaveCheckpoint(i) ==
    /\ pending[i] # None
    /\ checkpoints' = checkpoints \cup {pending[i]}
    /\ pending' = RemoveAt(pending, i)
    /\ behind' = Len(file)
    /\ UNCHANGED <<file, synced, sequence, mu, at, rec, closed, wal, phase, replayed, writes, stops, first,
                   returned, safe>>

-----------------------------------------------------------------------------
BeginClose ==
    /\ phase = "serving"
    /\ stops < MaxStops
    /\ stops' = stops + 1
    /\ closed' = TRUE
    /\ phase' = "closing"
    /\ UNCHANGED <<file, synced, sequence, mu, at, rec, wal, pending, checkpoints, replayed, writes, first,
                   returned, behind, safe>>

\* Mutant: Close does not wait for Write calls in progress.
CloseUnlocked ==
    /\ phase = "closing"
    /\ phase' = "sync"
    /\ UNCHANGED <<file, synced, sequence, mu, at, rec, closed, wal, pending, checkpoints, replayed, writes,
                   stops, first, returned, behind, safe>>

CloseLock ==
    /\ phase = "closing"
    /\ mu = None
    /\ mu' = "close"
    /\ phase' = "sync"
    /\ UNCHANGED <<file, synced, sequence, at, rec, closed, wal, pending, checkpoints, replayed, writes, stops,
                   first, returned, behind, safe>>

\* An error of Sync ends Close with the file still open.
CloseSync ==
    /\ phase = "sync"
    /\ \/ synced' = Len(file) /\ phase' = "close" /\ UNCHANGED mu
       \/ phase' = "closed" /\ mu' = None /\ UNCHANGED synced
    /\ UNCHANGED <<file, sequence, at, rec, closed, wal, pending, checkpoints, replayed, writes, stops, first,
                   returned, behind, safe>>

CloseFile ==
    /\ phase = "close"
    /\ phase' = "closed"
    /\ wal' = FALSE
    /\ mu' = None
    /\ safe' = returned \cap IdsIn(file)
    /\ UNCHANGED <<file, synced, sequence, at, rec, closed, pending, checkpoints, replayed, writes, stops, first,
                   returned, behind>>

\* What ends with the process.
Forget ==
    /\ sequence' = 0
    /\ mu' = None
    /\ at' = [w \in Writers |-> "idle"]
    /\ rec' = [w \in Writers |-> None]
    /\ closed' = FALSE
    /\ wal' = FALSE
    /\ pending' = <<>>
    /\ replayed' = {}
    /\ UNCHANGED <<synced, writes, returned, behind, safe>>

Exit ==
    /\ phase = "closed"
    /\ phase' = "down"
    /\ Forget
    /\ UNCHANGED <<file, checkpoints, stops, first>>

\* The process or the machine stops: the file keeps its synced part, any part
\* of the rest, and perhaps the beginning of one more record.  Checkpoint
\* files are not synced and may be lost (a partly written one is ignored).
Crash ==
    /\ phase # "down"
    /\ stops < MaxStops
    /\ stops' = stops + 1
    /\ phase' = "down"
    /\ \E n \in synced .. Len(file), torn \in BOOLEAN :
          /\ torn => n < Len(file) \/ \E w \in Writers : at[w] = "write"
          /\ file' = SubSeq(file, 1, n) \o (IF torn THEN <<Torn>> ELSE <<>>)
    /\ checkpoints' \in SUBSET checkpoints
    /\ Forget
    /\ UNCHANGED first

\* Mutant: the file is opened with O_TRUNC.
OpenTruncates ==
    /\ phase = "down"
    /\ phase' = "recovering"
    /\ wal' = TRUE
    /\ file' = <<>>
    /\ synced' = 0
    /\ first' = 0
    /\ UNCHANGED <<sequence, mu, at, rec, closed, pending, checkpoints, replayed, writes, stops, returned,
                   behind, safe>>

\* initWAL: a new manager appends to the same file, numbering from zero again.
Open ==
    /\ phase = "down"
    /\ phase' = "recovering"
    /\ wal' = TRUE
    /\ first' = Len(file)
    /\ UNCHANGED <<file, synced, sequence, mu, at, rec, closed, pending, checkpoints, replayed, writes, stops,
                   returned, behind, safe>>

Next ==
    \/ Recover
    \/ \E w \in Writers : Call(w) \/ Number(w) \/ WriteRecord(w)
    \/ \E i \in DOMAIN pending : ReadSequence(i) \/ SaveCheckpoint(i)
    \/ BeginClose \/ CloseLock \/ CloseSync \/ CloseFile \/ Exit
    \/ Crash \/ Open

Spec == Init /\ [][Next]_vars

-----------------------------------------------------------------------------
(* Properties. *)

TypeOK ==
    /\ file \in Seq(Record \cup {Torn})
    /\ synced \in 0 .. Len(file)
    /\ sequence \in 0 .. MaxWrites
    /\ mu \in Writers \cup {"close", None}
    /\ at \in [Writers -> {"idle", "lock", "write"}]
    /\ DOMAIN rec = Writers
    /\ \A w \in Writers : IF at[w] = "write" THEN rec[w] \in Record ELSE rec[w] \in Ids \cup {None}
    /\ closed \in BOOLEAN /\ wal \in BOOLEAN
    /\ pending \in Seq((1 .. MaxWrites) \cup {None})
    /\ checkpoints \subseteq 1 .. MaxWrites
    /\ phase \in {"recovering", "serving", "closing", "sync", "close", "closed", "down"}
    /\ replayed \subseteq Ids /\ returned \subseteq Ids /\ safe \subseteq Ids
    /\ writes \in 0 .. MaxWrites /\ stops \in 0 .. MaxStops

\* The records a process writes lie in the file in the order of their
\* numbers, however its Write calls interleave and whichever fail.
NumberedInOrder ==
    phase # "down" =>
        \A i, j \in first + 1 .. Len(file) :
            (i < j /\ file[i] # Torn /\ file[j] # Torn) => file[i].seq < file[j].seq

\* A checkpoint never runs ahead of the log: when its goroutine has read the
\* sequence, no record up to it is still to be written to the file.
CheckpointBehindLog ==
    \A c \in Range(pending) \ {None}, w \in Writers :
        at[w] = "write" => rec[w].seq > c

\* When Close has closed the file every record in it is on disk, also those
\* of Write calls that passed the closed check before Close began.
ClosedIsSynced == (phase = "closed" /\ ~wal) => synced = Len(file)

\* What had been written when a Close ended stays in the file through every
\* later crash.
ClosedSurvives == safe \subseteq IdsIn(file)

\* README: "Full replay/recovery on application restart".  After Recover, the
\* readable records behind the last checkpoint have been replayed.
FullReplay ==
    phase = "serving" =>
        \A i \in ReadablePart(file) \cap (behind + 1 .. first) : file[i].id \in replayed
=============================================================================
