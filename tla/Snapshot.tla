------------------------------ MODULE Snapshot ------------------------------
(***************************************************************************)
(* Snapshots of L0 (pkg/l0/snapshot.go and the snapshot timer and Close of *)
(* pkg/l0/l0_cache.go): the snapshotting flag, the temporary file that is  *)
(* filled entry by entry while clients go on, the rename that publishes    *)
(* it, the cleaning of old files, and the restore at the next start.       *)
(*                                                                         *)
(* WriteSnapshot locks one shard at a time; one step visits one key, as    *)
(* though each were in a shard of its own, while Set evicts as though all  *)
(* shared one, with Room for so many entries: which entries it takes out   *)
(* is the business of L0Shard.  A file is the sequence of frames behind    *)
(* its header: an entry per key, then the checksum.  A restart brings up   *)
(* an empty L0 and, with rebuild_from: snapshot, restores the latest file  *)
(* while clients already use the cache.                                    *)
(***************************************************************************)
EXTENDS Integers, Sequences, FiniteSets, Functions

CONSTANTS
    Keys,
    Direct,     \* goroutines that call WriteSnapshot themselves
    Room,       \* entries the memory limit of a shard has room for
    MaxVersion, \* bound: values the clients store
    Keep,       \* MaxSnapshotsToKeep
    MaxStops,   \* bound: crashes and closes
    Checksum,   \* the frame that ends a file
    None

Values == 1 .. MaxVersion
EntryFrame == [key : Keys, val : Values]
Frames == Seq(EntryFrame \cup {Checksum})

ASSUME BoundsAssumption ==
    MaxVersion \in Nat /\ MaxStops \in Nat /\ Keep \in Nat \ {0} /\ Room \in Nat \ {0}
ASSUME InputAssumption ==
    /\ IsFiniteSet(Keys) /\ Checksum \notin EntryFrame
    /\ None \notin Values /\ None \notin Frames
    /\ "timer" \notin Direct /\ "close" \notin Direct

\* The goroutines that take snapshots.
Callers == {"timer", "close"} \cup Direct

VARIABLES
    mem,        \* what L0 holds
    version,
    up,         \* "running", "closing", "closed" or "down"
    snapshotting,
    at,         \* at[g]: where caller g is
    todo,       \* keys whose shard the current pass has not visited yet
    temp,       \* frames written to the temporary file
    disk,       \* the published files, oldest first
    reading,    \* frames the restore has not read yet, or None
    stops,
    touched,    \* history: keys changed since the running snapshot began
    newest,     \* history: the file published last
    source,     \* history: the newest file when this process started
    changed,    \* history: keys clients have changed in this process
    evicted     \* history: keys Set has evicted in this process

vars == <<mem, version, up, snapshotting, at, todo, temp, disk, reading, stops, touched, newest, source, changed, evicted>>

\* Where a caller is inside WriteSnapshot past its flag, writing.
Writing == {"count", "entries", "publish", "clean"}

-----------------------------------------------------------------------------
Init ==
    /\ mem = [k \in Keys |-> None]
    /\ version = 0
    /\ up = "running"
    /\ snapshotting = FALSE
    /\ at = [g \in Callers |-> "idle"]
    /\ todo = {}
    /\ temp = <<>>
    /\ disk = <<>>
    /\ reading = None
    /\ stops = 0
    /\ touched = {}
    /\ newest = None
    /\ source = None
    /\ changed = {} /\ evicted = {}

Resident == {k \in Keys : mem[k] # None}

\* l0.Set: the eviction loop goes on while the new entry has no room and evictOne
\* finds a victim, which may be the key's own old entry.
Store(k, v) ==
    \E out \in SUBSET Resident :
        /\ out # {} => Cardinality(Resident \ out) + 1 >= Room
        /\ mem' = [j \in Keys |-> IF j = k THEN v ELSE IF j \in out THEN None ELSE mem[j]]
        /\ touched' = touched \cup out \cup {k}
        /\ evicted' = evicted \cup (out \ {k})

\* Clients.
Set(k) ==
    /\ up = "running"
    /\ version < MaxVersion
    /\ version' = version + 1
    /\ Store(k, version')
    /\ changed' = changed \cup {k}
    /\ UNCHANGED <<up, snapshotting, at, todo, temp, disk, reading, stops, newest, source>>

Delete(k) ==
    /\ up = "running"
    /\ mem[k] # None
    /\ mem' = [mem EXCEPT ![k] = None]
    /\ touched' = touched \cup {k}
    /\ changed' = changed \cup {k}
    /\ UNCHANGED <<version, up, snapshotting, at, todo, temp, disk, reading, stops, newest, source, evicted>>

-----------------------------------------------------------------------------
(* Who calls: the timer, which looks at the flag before it starts a        *)
(* goroutine, and whose last tick may win over Close's cancellation; Close;*)
(* and users of the package, whom a closed cache does not stop.            *)

Start(g, where) ==
    /\ at[g] = "idle"
    /\ at' = [at EXCEPT ![g] = where]
    /\ UNCHANGED <<mem, version, snapshotting, todo, temp, disk, reading, touched, newest, source, changed, evicted>>

Tick == up # "down" /\ ~snapshotting /\ Start("timer", "outer") /\ UNCHANGED <<up, stops>>

BeginClose ==
    /\ up = "running"
    /\ stops < MaxStops
    /\ stops' = stops + 1
    /\ up' = "closing"
    /\ Start("close", "outer")

CallDirect(g) == up # "down" /\ Start(g, "inner") /\ UNCHANGED <<up, stops>>

\* snapshot(): sets the flag, or returns if it is set.
Outer(g) ==
    /\ at[g] = "outer"
    /\ snapshotting' = TRUE
    /\ at' = [at EXCEPT ![g] = IF snapshotting THEN "returned" ELSE "inner"]
    /\ UNCHANGED <<mem, version, up, todo, temp, disk, reading, stops, touched, newest, source, changed, evicted>>

\* Mutant: a call that is turned away lowers the flag.
InnerLowersFlag(g) ==
    /\ at[g] = "inner"
    /\ IF snapshotting
       THEN /\ at' = [at EXCEPT ![g] = "returned"]
            /\ snapshotting' = FALSE
            /\ UNCHANGED <<todo, temp, touched>>
       ELSE /\ at' = [at EXCEPT ![g] = "count"]
            /\ snapshotting' = TRUE
            /\ todo' = Keys
            /\ temp' = <<>>
            /\ touched' = {}
    /\ UNCHANGED <<mem, version, up, disk, reading, stops, newest, source, changed, evicted>>

\* WriteSnapshot(): sets the flag again, or returns if it is set.  Called
\* from snapshot() it always is; snapshot() then clears it on its way out.
Inner(g) ==
    /\ at[g] = "inner"
    /\ IF snapshotting
       THEN /\ at' = [at EXCEPT ![g] = "returned"]
            /\ snapshotting' = (g \in Direct)
            /\ UNCHANGED <<todo, temp, touched>>
       ELSE /\ at' = [at EXCEPT ![g] = "count"]
            /\ snapshotting' = TRUE
            /\ todo' = Keys
            /\ temp' = <<>>
            /\ touched' = {}
    /\ UNCHANGED <<mem, version, up, disk, reading, stops, newest, source, changed, evicted>>

\* Mutant: the second pass goes on where the first one stopped.
CountKeepsPosition(g, k) ==
    /\ at[g] = "count"
    /\ k \in todo
    /\ at' = [at EXCEPT ![g] = "entries"]
    /\ todo' = IF todo = {k} THEN Keys ELSE todo \ {k}
    /\ UNCHANGED <<mem, version, up, snapshotting, temp, disk, reading, stops, touched, newest, source, changed, evicted>>

\* The first pass over the shards counts entries for the header.
Count(g, k) ==
    /\ at[g] = "count"
    /\ k \in todo
    /\ IF todo = {k} THEN at' = [at EXCEPT ![g] = "entries"] /\ todo' = Keys
                     ELSE UNCHANGED at /\ todo' = todo \ {k}
    /\ UNCHANGED <<mem, version, up, snapshotting, temp, disk, reading, stops, touched, newest, source, changed, evicted>>

\* Mutant: a key deleted between the two passes is written all the same.
WriteEntryUnchecked(g, k) ==
    /\ at[g] = "entries"
    /\ k \in todo
    /\ todo' = todo \ {k}
    /\ temp' = Append(temp, [key |-> k, val |-> mem[k]])
    /\ at' = IF todo' = {} THEN [at EXCEPT ![g] = "publish"] ELSE at
    /\ UNCHANGED <<mem, version, up, snapshotting, disk, reading, stops, touched, newest, source, changed, evicted>>

\* The second pass writes them.
WriteEntry(g, k) ==
    /\ at[g] = "entries"
    /\ k \in todo
    /\ todo' = todo \ {k}
    /\ temp' = IF mem[k] = None THEN temp ELSE Append(temp, [key |-> k, val |-> mem[k]])
    /\ at' = IF todo' = {} THEN [at EXCEPT ![g] = "publish"] ELSE at
    /\ UNCHANGED <<mem, version, up, snapshotting, disk, reading, stops, touched, newest, source, changed, evicted>>

\* Mutant: the file is renamed before the checksum is written.
PublishUnsealed(g) ==
    /\ at[g] = "publish"
    /\ disk' = Append(disk, temp)
    /\ newest' = temp
    /\ temp' = <<>>
    /\ at' = [at EXCEPT ![g] = "clean"]
    /\ UNCHANGED <<mem, version, up, snapshotting, todo, reading, stops, touched, source, changed, evicted>>

\* Checksum, sync, close and rename.
Publish(g) ==
    /\ at[g] = "publish"
    /\ disk' = Append(disk, Append(temp, Checksum))
    /\ newest' = Append(temp, Checksum)
    /\ temp' = <<>>
    /\ at' = [at EXCEPT ![g] = "clean"]
    /\ UNCHANGED <<mem, version, up, snapshotting, todo, reading, stops, touched, source, changed, evicted>>

\* Any I/O error before the rename removes the temporary file.
WriteFails(g) ==
    /\ at[g] \in Writing \ {"clean"}
    /\ at' = [at EXCEPT ![g] = "returned"]
    /\ snapshotting' = FALSE
    /\ temp' = <<>>
    /\ UNCHANGED <<mem, version, up, todo, disk, reading, stops, touched, newest, source, changed, evicted>>

\* Mutant: the files are listed newest first.
CleanKeepsOldest(g) ==
    /\ at[g] = "clean"
    /\ disk' = SubSeq(disk, 1, IF Len(disk) > Keep THEN Keep ELSE Len(disk))
    /\ at' = [at EXCEPT ![g] = "returned"]
    /\ snapshotting' = FALSE
    /\ UNCHANGED <<mem, version, up, todo, temp, reading, stops, touched, newest, source, changed, evicted>>

\* cleanOldSnapshots removes all but the last Keep names.
Clean(g) ==
    /\ at[g] = "clean"
    /\ disk' = SubSeq(disk, IF Len(disk) > Keep THEN Len(disk) - Keep + 1 ELSE 1, Len(disk))
    /\ at' = [at EXCEPT ![g] = "returned"]
    /\ snapshotting' = FALSE
    /\ UNCHANGED <<mem, version, up, todo, temp, reading, stops, touched, newest, source, changed, evicted>>

Return(g) ==
    /\ at[g] = "returned"
    /\ at' = [at EXCEPT ![g] = "idle"]
    /\ up' = IF g = "close" THEN "closed" ELSE up
    /\ UNCHANGED <<mem, version, snapshotting, todo, temp, disk, reading, stops, touched, newest, source, changed, evicted>>

-----------------------------------------------------------------------------
\* The process ends, after Close or by a crash at any point: the published
\* files stay, memory and goroutines go.
Stop ==
    /\ up # "down"
    /\ up # "closed" => stops < MaxStops
    /\ stops' = IF up = "closed" THEN stops ELSE stops + 1
    /\ up' = "down"
    /\ mem' = [k \in Keys |-> None]
    /\ snapshotting' = FALSE
    /\ at' = [g \in Callers |-> "idle"]
    /\ todo' = {}
    /\ temp' = <<>>
    /\ reading' = None
    /\ touched' = {}
    /\ source' = None
    /\ changed' = {} /\ evicted' = {}
    /\ UNCHANGED <<version, disk, newest>>

\* Mutant: the first name in the directory is taken.
RestartOldest ==
    /\ up = "down"
    /\ up' = "running"
    /\ reading' = IF disk = <<>> THEN None ELSE disk[1]
    /\ source' = newest
    /\ UNCHANGED <<mem, version, snapshotting, at, todo, temp, disk, stops, touched, newest, changed, evicted>>

\* A new process: the latest file, if any, is to be restored.
Restart ==
    /\ up = "down"
    /\ up' = "running"
    /\ reading' = IF disk = <<>> THEN None ELSE disk[Len(disk)]
    /\ source' = newest
    /\ UNCHANGED <<mem, version, snapshotting, at, todo, temp, disk, stops, touched, newest, changed, evicted>>

\* RestoreFromSnapshot reads every frame as an entry until the end of the
\* file: an entry is stored in L0, and the checksum, which cannot be read as
\* one, is an error.  (The comparison of checksums behind the loop is never
\* reached with a published file.)
RestoreFrame ==
    /\ reading # None
    /\ reading # <<>>
    /\ IF Head(reading) = Checksum
       THEN reading' = None /\ UNCHANGED <<mem, touched, evicted>>
       ELSE /\ IF up = "running" THEN Store(Head(reading).key, Head(reading).val)
                                 ELSE UNCHANGED <<mem, touched, evicted>>
            /\ reading' = Tail(reading)
    /\ UNCHANGED <<version, up, snapshotting, at, todo, temp, disk, stops, newest, source, changed>>

Next ==
    \/ \E k \in Keys : Set(k) \/ Delete(k)
    \/ Tick \/ BeginClose \/ \E g \in Direct : CallDirect(g)
    \/ \E g \in Callers :
          \/ Outer(g) \/ Inner(g) \/ Publish(g) \/ WriteFails(g) \/ Clean(g) \/ Return(g)
          \/ \E k \in Keys : Count(g, k) \/ WriteEntry(g, k)
    \/ Stop \/ Restart \/ RestoreFrame

Spec == Init /\ [][Next]_vars

-----------------------------------------------------------------------------
(* Properties. *)

TypeOK ==
    /\ mem \in [Keys -> Values \cup {None}]
    /\ version \in 0 .. MaxVersion
    /\ up \in {"running", "closing", "closed", "down"}
    /\ snapshotting \in BOOLEAN
    /\ at \in [Callers -> {"idle", "outer", "inner", "returned"} \cup Writing]
    /\ todo \subseteq Keys
    /\ temp \in Seq(EntryFrame)
    /\ disk \in Seq(Frames)
    /\ reading = None \/ reading \in Frames
    /\ stops \in 0 .. MaxStops
    /\ touched \subseteq Keys
    /\ newest = None \/ newest \in Frames
    /\ source = None \/ source \in Frames
    /\ changed \subseteq Keys /\ evicted \subseteq Keys

\* One goroutine at a time writes a snapshot, and the flag is up while it
\* does: direct calls race for it with one another and with the timer and
\* Close, and an early return of one must not lower it for another.
OneWriter ==
    \A g \in Callers : at[g] \in Writing =>
        snapshotting /\ \A h \in Callers \ {g} : at[h] \notin Writing

\* A published file is whole, whatever crash or I/O error came when: its
\* checksum is there, behind entries of different keys.
PublishedIsWhole ==
    \A i \in DOMAIN disk :
        LET f == disk[i] IN
        /\ f # <<>> /\ f[Len(f)] = Checksum
        /\ \A a, b \in 1 .. Len(f) - 1 : f[a] # Checksum /\ (a # b => f[a].key # f[b].key)

\* A snapshot is exact for the keys that did not change while it was taken.
SnapshotIsExact ==
    \A g \in Callers : at[g] = "publish" =>
        \A k \in Keys \ touched :
            {temp[i].val : i \in {j \in DOMAIN temp : temp[j].key = k}} = {mem[k]} \ {None}

\* Cleaning, crashes before it included, never removes the newest file.
NewestSurvives == newest # None => disk # <<>> /\ disk[Len(disk)] = newest

\* The values file f has for key k.
FileValues(f, k) == {f[i].val : i \in {j \in 1 .. Len(f) - 1 : f[j].key = k}}

\* CONFIG.md, rebuild_from: "Restore L0 from the latest disk snapshot".  When
\* the restore has ended - with an error, at the checksum - L0 holds of the
\* keys clients did not change meanwhile nothing but what the newest file has,
\* wherever a crash between publishing and cleaning has left an older file, and
\* all of it but what Set has evicted; and it has evicted nothing if no client
\* changed anything and the memory limit has room for all entries of the file.
RestoredIsNewest ==
    (up = "running" /\ source # None /\ reading = None) =>
        /\ \A k \in Keys \ changed : {mem[k]} \ {None} \subseteq FileValues(source, k)
        /\ \A k \in Keys \ (changed \cup evicted) : {mem[k]} \ {None} = FileValues(source, k)
        /\ changed = {} /\ Len(source) - 1 <= Room => evicted = {}
=============================================================================
