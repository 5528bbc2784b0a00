--------------------------- MODULE SnapshotProofs ---------------------------
(* Proofs about the snapshots of L0, for every set of keys and of direct     *)
(* callers, every number of values, restarts and files to keep, and every  *)
(* memory limit.                                                           *)
EXTENDS Snapshot, FiniteSetTheorems, TLAPS

Places == {"idle", "outer", "inner", "returned"} \cup Writing

\* The callers the flag is up for: snapshot() between its own look at the
\* flag and WriteSnapshot's, and a WriteSnapshot that has begun.
Owns(g) == at[g] \in Writing \/ (at[g] = "inner" /\ g \notin Direct)
OneOwner == \A g \in Callers : Owns(g) => snapshotting /\ \A h \in Callers \ {g} : ~Owns(h)

KeysDiffer(f, n) == \A a, b \in 1 .. n : a # b => f[a].key # f[b].key
ValuesOf(f, n, k) == {f[i].val : i \in {j \in 1 .. n : f[j].key = k}}
Whole(f) ==
    /\ f # <<>> /\ f[Len(f)] = Checksum
    /\ \A a \in 1 .. Len(f) - 1 : f[a] # Checksum
    /\ KeysDiffer(f, Len(f) - 1)

\* The temporary file has the untouched keys visited so far, each once.
TempFollows ==
    \A g \in Callers :
        /\ at[g] = "count" => temp = <<>>
        /\ at[g] = "publish" => todo = {}
        /\ at[g] \in {"entries", "publish"} =>
              /\ KeysDiffer(temp, Len(temp))
              /\ \A i \in 1 .. Len(temp) : temp[i].key \notin todo
              /\ \A k \in Keys \ (touched \cup todo) : ValuesOf(temp, Len(temp), k) = {mem[k]} \ {None}

FilesAreWhole ==
    /\ \A i \in 1 .. Len(disk) : Whole(disk[i])
    /\ source # None => Whole(source)

\* L0 has the first n frames of the file, but for what clients changed and Set
\* evicted.
RestoredUpTo(n) ==
    /\ \A k \in Keys \ changed : {mem[k]} \ {None} \subseteq ValuesOf(source, n, k)
    /\ \A k \in Keys \ (changed \cup evicted) : {mem[k]} \ {None} = ValuesOf(source, n, k)
    /\ changed = {} /\ Len(source) - 1 <= Room => evicted = {}

\* What is still to be read of the file is its end, and L0 has the rest.
RestoreFollows ==
    (up = "running" /\ source # None) =>
        /\ reading # None =>
              /\ Len(reading) \in 1 .. Len(source)
              /\ \A i \in 1 .. Len(reading) : reading[i] = source[Len(source) - Len(reading) + i]
              /\ RestoredUpTo(Len(source) - Len(reading))
        /\ reading = None => RestoredUpTo(Len(source) - 1)

\* Nothing of a process is left when it is down.
DownIsEmpty ==
    up = "down" =>
        /\ \A k \in Keys : mem[k] = None
        /\ reading = None /\ changed = {} /\ evicted = {}
        /\ \A g \in Callers : at[g] = "idle"

IInv ==
    /\ TypeOK /\ OneOwner /\ TempFollows /\ FilesAreWhole /\ NewestSurvives
    /\ RestoreFollows /\ DownIsEmpty

-----------------------------------------------------------------------------
(* Sequences, and the parts of the state most steps leave alone. *)

\* What Append, SubSeq up to the end and Tail give.
LEMMA AppendParts ==
    ASSUME NEW S, NEW s \in Seq(S), NEW e \in S
    PROVE  /\ Append(s, e) \in Seq(S) /\ Len(Append(s, e)) = Len(s) + 1 /\ Len(s) \in Nat
           /\ \A i \in 1 .. Len(s) : Append(s, e)[i] = s[i]
           /\ Append(s, e)[Len(s) + 1] = e /\ Append(s, e) # <<>>
  OBVIOUS

\* What the rest of a file is.
LEMMA SuffixParts ==
    ASSUME NEW S, NEW s \in Seq(S), NEW m \in 1 .. Len(s) + 1
    PROVE  /\ SubSeq(s, m, Len(s)) \in Seq(S) /\ Len(SubSeq(s, m, Len(s))) = Len(s) - m + 1
           /\ \A i \in 1 .. Len(s) - m + 1 : SubSeq(s, m, Len(s))[i] = s[m + i - 1]
  OBVIOUS

\* What is left when the restore has read one frame.
LEMMA TailParts ==
    ASSUME NEW S, NEW s \in Seq(S), s # <<>>
    PROVE  /\ Tail(s) \in Seq(S) /\ Len(Tail(s)) = Len(s) - 1 /\ Len(s) \in Nat \ {0}
           /\ Head(s) = s[1] /\ Head(s) \in S
           /\ \A i \in 1 .. Len(s) - 1 : Tail(s)[i] = s[i + 1]
  OBVIOUS

\* One caller moves.
LEMMA AtStep ==
    ASSUME TypeOK, NEW g \in Callers, NEW v \in Places, at' = [at EXCEPT ![g] = v]
    PROVE  /\ at' \in [Callers -> Places]
           /\ \A h \in Callers : at'[h] = IF h = g THEN v ELSE at[h]
  BY DEF TypeOK, Places

\* A step that starts no writing and leaves its state alone.
LEMMA TempUnmoved ==
    ASSUME TempFollows, UNCHANGED <<mem, todo, temp, touched>>,
           \A g \in Callers : at'[g] \in {"count", "entries", "publish"} => at'[g] = at[g]
    PROVE  TempFollows'
  BY DEF TempFollows

\* A step that publishes no file and cleans none.
LEMMA FilesUnmoved ==
    ASSUME FilesAreWhole, NewestSurvives, UNCHANGED <<disk, newest, source>>
    PROVE  FilesAreWhole' /\ NewestSurvives'
  BY DEF FilesAreWhole, NewestSurvives

\* A step that changes neither L0 nor what the restore has read.
LEMMA RestoreUnmoved ==
    ASSUME RestoreFollows, UNCHANGED <<mem, reading, source, changed, evicted>>,
           up' = "running" => up = "running"
    PROVE  RestoreFollows'
  BY DEF RestoreFollows, RestoredUpTo

\* A call, a look at the flag or a return: a caller moves outside the writing
\* of a file.
LEMMA MoveKeepsIInv ==
    ASSUME IInv, NEW g \in Callers, NEW v \in {"idle", "outer", "inner", "returned"},
           at' = [at EXCEPT ![g] = v], up # "down", up' \in {up, "closing", "closed"},
           stops' \in 0 .. MaxStops, snapshotting' \in BOOLEAN, OneOwner',
           UNCHANGED <<mem, version, todo, temp, disk, reading, touched, newest, source, changed, evicted>>
    PROVE  IInv'
<1>1. TypeOK /\ v \in Places
  BY DEF IInv, Places
<1>2. at' \in [Callers -> Places] /\ \A h \in Callers : at'[h] = IF h = g THEN v ELSE at[h]
  BY <1>1, AtStep
<1>3. TypeOK'
  BY <1>1, <1>2 DEF TypeOK, Places
<1>4. TempFollows'
  BY <1>2, TempUnmoved DEF IInv
<1>5. FilesAreWhole' /\ NewestSurvives'
  BY FilesUnmoved DEF IInv
<1>6. RestoreFollows'
  BY <1>1, RestoreUnmoved DEF IInv
<1>7. DownIsEmpty'
  BY DEF DownIsEmpty
<1>. QED  BY <1>3, <1>4, <1>5, <1>6, <1>7 DEF IInv

\* Nothing is taken, published or to be restored at first.
LEMMA InitIInv == Init => IInv
<1>. SUFFICES ASSUME Init PROVE IInv
  OBVIOUS
<1>1. TypeOK
  <2>1. 0 \in 0 .. MaxVersion /\ 0 \in 0 .. MaxStops
    BY BoundsAssumption
  <2>2. <<>> \in Seq(EntryFrame) /\ <<>> \in Seq(Frames)
    OBVIOUS
  <2>3. at \in [Callers -> {"idle", "outer", "inner", "returned"} \cup Writing]
        /\ mem \in [Keys -> Values \cup {None}]
    BY DEF Init
  <2>. QED  BY <2>1, <2>2, <2>3 DEF Init, TypeOK
<1>2. OneOwner /\ TempFollows
  BY DEF Init, OneOwner, Owns, Writing, TempFollows
<1>3. FilesAreWhole /\ NewestSurvives /\ RestoreFollows /\ DownIsEmpty
  BY DEF Init, FilesAreWhole, NewestSurvives, RestoreFollows, DownIsEmpty
<1>. QED  BY <1>1, <1>2, <1>3 DEF IInv

-----------------------------------------------------------------------------
(* Calls and the flag. *)

\* The timer, Close and users of the package call.
LEMMA CallsKeepIInv == ASSUME IInv, Tick \/ BeginClose \/ (\E d \in Direct : CallDirect(d)) PROVE IInv'
<1>1. PICK g \in Callers, v \in {"outer", "inner"} :
        /\ at[g] = "idle" /\ at' = [at EXCEPT ![g] = v] /\ (v = "inner" => g \in Direct)
        /\ UNCHANGED <<mem, version, snapshotting, todo, temp, disk, reading, touched, newest, source, changed, evicted>>
  BY DEF Tick, BeginClose, CallDirect, Start, Callers
<1>2. TypeOK /\ v \in Places
  BY DEF IInv, Places
<1>3. up # "down" /\ up' \in {up, "closing", "closed"}
  BY DEF Tick, BeginClose, CallDirect
<1>4. stops' \in 0 .. MaxStops
  <2>1. CASE UNCHANGED stops
    BY <1>2, <2>1 DEF TypeOK
  <2>2. CASE stops < MaxStops /\ stops' = stops + 1
    BY <1>2, <2>2, BoundsAssumption DEF TypeOK
  <2>. QED  BY <2>1, <2>2 DEF Tick, BeginClose, CallDirect
<1>5. OneOwner'
  <2>1. \A h \in Callers : at'[h] = IF h = g THEN v ELSE at[h]
    BY <1>1, <1>2, AtStep
  <2>2. \A h \in Callers : Owns(h)' => Owns(h)
    BY <1>1, <2>1 DEF Owns, Writing
  <2>. QED  BY <1>1, <2>2 DEF IInv, OneOwner
<1>6. v \in {"idle", "outer", "inner", "returned"} /\ snapshotting' \in BOOLEAN
  BY <1>1, <1>2 DEF TypeOK
<1>. QED  BY <1>1, <1>3, <1>4, <1>5, <1>6, MoveKeepsIInv

\* snapshot() takes the flag, or leaves it to the one who has it.
LEMMA OuterKeepsIInv == ASSUME IInv, NEW g \in Callers, Outer(g) PROVE IInv'
<1>. DEFINE v == IF snapshotting THEN "returned" ELSE "inner"
<1>1. /\ at[g] = "outer" /\ snapshotting' = TRUE /\ at' = [at EXCEPT ![g] = v]
      /\ UNCHANGED <<mem, version, up, todo, temp, disk, reading, stops, touched, newest, source, changed, evicted>>
  BY DEF Outer
<1>2. TypeOK /\ v \in {"idle", "outer", "inner", "returned"} /\ v \in Places
  BY DEF IInv, Places
<1>3. up # "down"
  BY <1>1 DEF IInv, DownIsEmpty
<1>4. OneOwner'
  <2>1. \A h \in Callers : at'[h] = IF h = g THEN v ELSE at[h]
    BY <1>1, <1>2, AtStep
  <2>2. CASE snapshotting
    <3>1. \A h \in Callers : Owns(h)' => Owns(h)
      BY <2>1, <2>2 DEF Owns, Writing
    <3>. QED  BY <1>1, <2>2, <3>1 DEF IInv, OneOwner
  <2>3. CASE ~snapshotting
    <3>1. \A h \in Callers \ {g} : ~Owns(h)'
      BY <2>1, <2>3 DEF IInv, OneOwner, Owns
    <3>. QED  BY <1>1, <3>1 DEF OneOwner
  <2>. QED  BY <2>2, <2>3
<1>. HIDE DEF v
<1>. QED  BY <1>1, <1>2, <1>3, <1>4, MoveKeepsIInv DEF TypeOK

\* WriteSnapshot(): the timer and Close own the flag, return and lower it; a
\* direct call begins if it is down.
LEMMA InnerKeepsIInv == ASSUME IInv, NEW g \in Callers, Inner(g) PROVE IInv'
<1>1. at[g] = "inner" /\ UNCHANGED <<mem, version, up, disk, reading, stops, newest, source, changed, evicted>>
  BY DEF Inner
<1>2. TypeOK /\ up # "down" /\ (g \notin Direct => snapshotting)
  BY <1>1 DEF IInv, DownIsEmpty, OneOwner, Owns
<1>3. CASE snapshotting
  <2>1. at' = [at EXCEPT ![g] = "returned"] /\ snapshotting' = (g \in Direct) /\ UNCHANGED <<todo, temp, touched>>
    BY <1>3 DEF Inner
  <2>2. "returned" \in Places /\ "returned" \in {"idle", "outer", "inner", "returned"}
    BY DEF Places
  <2>3. \A h \in Callers : at'[h] = IF h = g THEN "returned" ELSE at[h]
    BY <1>2, <2>1, <2>2, AtStep
  <2>4. \A h \in Callers : Owns(h)' => h # g /\ Owns(h)
    BY <2>3 DEF Owns, Writing
  <2>5. OneOwner'
    <3>1. CASE g \in Direct
      BY <2>1, <2>4, <1>3, <3>1 DEF IInv, OneOwner
    <3>2. CASE g \notin Direct
      <4>1. Owns(g)
        BY <1>1, <3>2 DEF Owns
      <4>. QED  BY <2>4, <4>1 DEF IInv, OneOwner
    <3>. QED  BY <3>1, <3>2
  <2>6. snapshotting' \in BOOLEAN /\ stops' \in 0 .. MaxStops /\ up' \in {up, "closing", "closed"}
    BY <1>1, <1>2, <2>1 DEF TypeOK
  <2>. QED  BY <1>1, <1>2, <2>1, <2>2, <2>5, <2>6, MoveKeepsIInv
<1>4. CASE ~snapshotting
  <2>1. /\ at' = [at EXCEPT ![g] = "count"] /\ snapshotting' = TRUE
        /\ todo' = Keys /\ temp' = <<>> /\ touched' = {}
    BY <1>4 DEF Inner
  <2>2. "count" \in Places
    BY DEF Places, Writing
  <2>3. at' \in [Callers -> Places] /\ \A h \in Callers : at'[h] = IF h = g THEN "count" ELSE at[h]
    BY <1>2, <2>1, <2>2, AtStep
  <2>4. \A h \in Callers \ {g} : ~Owns(h)' /\ at'[h] \notin Writing
    BY <1>4, <2>3 DEF IInv, OneOwner, Owns
  <2>5. TypeOK'
    BY <1>1, <1>2, <2>1, <2>3 DEF TypeOK, Places
  <2>6. OneOwner'
    BY <2>1, <2>4 DEF OneOwner
  <2>7. TempFollows'
    BY <2>1, <2>3, <2>4 DEF TempFollows, Writing
  <2>8. FilesAreWhole' /\ NewestSurvives' /\ RestoreFollows'
    BY <1>1, FilesUnmoved, RestoreUnmoved DEF IInv
  <2>9. DownIsEmpty'
    BY <1>1, <1>2 DEF DownIsEmpty
  <2>. QED  BY <2>5, <2>6, <2>7, <2>8, <2>9 DEF IInv
<1>. QED  BY <1>3, <1>4

\* A caller goes; after Close's snapshot the cache is closed.
LEMMA ReturnKeepsIInv == ASSUME IInv, NEW g \in Callers, Return(g) PROVE IInv'
<1>1. /\ at[g] = "returned" /\ at' = [at EXCEPT ![g] = "idle"] /\ up' \in {up, "closing", "closed"}
      /\ UNCHANGED <<mem, version, snapshotting, todo, temp, disk, reading, stops, touched, newest, source, changed, evicted>>
  BY DEF Return
<1>2. TypeOK /\ up # "down" /\ "idle" \in Places /\ "idle" \in {"idle", "outer", "inner", "returned"}
  BY <1>1 DEF IInv, DownIsEmpty, Places
<1>3. OneOwner'
  <2>1. \A h \in Callers : at'[h] = IF h = g THEN "idle" ELSE at[h]
    BY <1>1, <1>2, AtStep
  <2>2. \A h \in Callers : Owns(h)' => Owns(h)
    BY <2>1 DEF Owns, Writing
  <2>. QED  BY <1>1, <2>2 DEF IInv, OneOwner
<1>4. snapshotting' \in BOOLEAN /\ stops' \in 0 .. MaxStops
  BY <1>1, <1>2 DEF TypeOK
<1>. QED  BY <1>1, <1>2, <1>3, <1>4, MoveKeepsIInv

-----------------------------------------------------------------------------
(* The writing of a file. *)

\* The values of one key among the frames of a file.
LEMMA ValuesOfOneMore ==
    ASSUME NEW f, NEW n \in Nat, NEW k
    PROVE  ValuesOf(f, n + 1, k) = ValuesOf(f, n, k) \cup (IF f[n + 1].key = k THEN {f[n + 1].val} ELSE {})
<1>1. \A i : i \in 1 .. n + 1 <=> i \in 1 .. n \/ i = n + 1
  OBVIOUS
<1>. QED  BY <1>1 DEF ValuesOf

\* They depend on the frames before n only.
LEMMA ValuesOfSame ==
    ASSUME NEW f, NEW g, NEW n \in Nat, NEW k, \A i \in 1 .. n : f[i] = g[i]
    PROVE  ValuesOf(f, n, k) = ValuesOf(g, n, k)
  BY DEF ValuesOf

\* A key no frame is about has none.
LEMMA ValuesOfNone ==
    ASSUME NEW f, NEW n \in Nat, NEW k, \A i \in 1 .. n : f[i].key # k
    PROVE  ValuesOf(f, n, k) = {}
  BY DEF ValuesOf

\* The caller that writes is the only one, and the flag is up.
LEMMA WriterIsAlone ==
    ASSUME IInv, NEW g \in Callers, at[g] \in Writing
    PROVE  /\ TypeOK /\ snapshotting /\ up # "down"
           /\ \A h \in Callers \ {g} : ~Owns(h) /\ at[h] \notin Writing
<1>1. Owns(g)
  BY DEF Owns
<1>. QED  BY <1>1 DEF IInv, OneOwner, Owns, DownIsEmpty, Writing

\* It goes on writing.
LEMMA WriterGoesOn ==
    ASSUME IInv, NEW g \in Callers, at[g] \in Writing, NEW v \in Writing,
           at' = [at EXCEPT ![g] = v], UNCHANGED <<snapshotting, up>>
    PROVE  /\ at' \in [Callers -> Places] /\ at'[g] = v
           /\ \A h \in Callers \ {g} : at'[h] = at[h] /\ at'[h] \notin Writing
           /\ OneOwner' /\ DownIsEmpty'
<1>1. TypeOK /\ v \in Places
  BY DEF IInv, Places
<1>2. at' \in [Callers -> Places] /\ \A h \in Callers : at'[h] = IF h = g THEN v ELSE at[h]
  BY <1>1, AtStep
<1>3. /\ snapshotting /\ up # "down"
      /\ \A h \in Callers \ {g} : ~Owns(h) /\ at[h] \notin Writing
  BY WriterIsAlone
<1>4. OneOwner'
  BY <1>2, <1>3 DEF OneOwner, Owns
<1>. QED  BY <1>2, <1>3, <1>4 DEF DownIsEmpty

\* Or is done with it, and lowers the flag.
LEMMA WriterEnds ==
    ASSUME IInv, NEW g \in Callers, at[g] \in Writing,
           at' = [at EXCEPT ![g] = "returned"], UNCHANGED up
    PROVE  /\ at' \in [Callers -> Places]
           /\ \A h \in Callers : at'[h] \notin Writing
           /\ OneOwner' /\ TempFollows' /\ DownIsEmpty'
<1>1. TypeOK /\ "returned" \in Places
  BY DEF IInv, Places
<1>2. at' \in [Callers -> Places] /\ \A h \in Callers : at'[h] = IF h = g THEN "returned" ELSE at[h]
  BY <1>1, AtStep
<1>3. up # "down" /\ \A h \in Callers \ {g} : ~Owns(h) /\ at[h] \notin Writing
  BY WriterIsAlone
<1>4. \A h \in Callers : at'[h] \notin Writing /\ ~Owns(h)'
  BY <1>2, <1>3 DEF Owns, Writing
<1>5. OneOwner' /\ TempFollows'
  BY <1>4 DEF OneOwner, TempFollows, Writing
<1>. QED  BY <1>2, <1>3, <1>4, <1>5 DEF DownIsEmpty

\* The pass that counts leaves the file empty.
LEMMA CountKeepsIInv == ASSUME IInv, NEW g \in Callers, NEW k \in Keys, Count(g, k) PROVE IInv'
<1>1. /\ at[g] = "count" /\ at[g] \in Writing /\ todo' \subseteq Keys
      /\ UNCHANGED <<mem, version, up, snapshotting, temp, disk, reading, stops, touched, newest, source, changed, evicted>>
  BY DEF Count, Writing, IInv, TypeOK
<1>2. TypeOK /\ temp = <<>>
  BY <1>1 DEF IInv, TempFollows
<1>3. FilesAreWhole' /\ NewestSurvives' /\ RestoreFollows'
  BY <1>1, FilesUnmoved, RestoreUnmoved DEF IInv
<1>4. CASE at' = [at EXCEPT ![g] = "entries"] /\ todo' = Keys
  <2>1. "entries" \in Writing
    BY DEF Writing
  <2>2. /\ at' \in [Callers -> Places] /\ at'[g] = "entries"
        /\ \A h \in Callers \ {g} : at'[h] = at[h] /\ at'[h] \notin Writing
        /\ OneOwner' /\ DownIsEmpty'
    BY <1>1, <1>4, <2>1, WriterGoesOn
  <2>3. TypeOK'
    BY <1>1, <1>2, <2>2 DEF TypeOK, Places
  <2>4. TempFollows'
    <3>1. Len(temp) = 0 /\ temp' = <<>> /\ Len(temp') = 0
      BY <1>1, <1>2
    <3>. QED  BY <1>1, <1>4, <2>2, <3>1 DEF TempFollows, Writing, KeysDiffer
  <2>. QED  BY <1>3, <2>2, <2>3, <2>4 DEF IInv
<1>5. CASE UNCHANGED at
  <2>1. TypeOK'
    BY <1>1, <1>2, <1>5 DEF TypeOK
  <2>2. OneOwner' /\ DownIsEmpty'
    BY <1>1, <1>5 DEF IInv, OneOwner, Owns, DownIsEmpty
  <2>3. \A h \in Callers \ {g} : at[h] \notin Writing
    BY <1>1, WriterIsAlone
  <2>4. TempFollows'
    BY <1>1, <1>2, <1>5, <2>3 DEF TempFollows, Writing
  <2>. QED  BY <1>3, <2>1, <2>2, <2>4 DEF IInv
<1>. QED  BY <1>4, <1>5 DEF Count

\* The pass that writes visits a key once, so its frame is the only one.
LEMMA WriteEntryKeepsIInv == ASSUME IInv, NEW g \in Callers, NEW k \in Keys, WriteEntry(g, k) PROVE IInv'
<1>. DEFINE frame == [key |-> k, val |-> mem[k]]
<1>1. /\ at[g] = "entries" /\ at[g] \in Writing /\ k \in todo /\ todo' = todo \ {k}
      /\ temp' = IF mem[k] = None THEN temp ELSE Append(temp, frame)
      /\ at' = IF todo' = {} THEN [at EXCEPT ![g] = "publish"] ELSE at
      /\ UNCHANGED <<mem, version, up, snapshotting, disk, reading, stops, touched, newest, source, changed, evicted>>
  BY DEF WriteEntry, Writing
<1>2. TypeOK
  BY DEF IInv
<1>3. mem[k] # None => frame \in EntryFrame
  BY <1>2 DEF TypeOK, EntryFrame
<1>4. frame.key = k /\ frame.val = mem[k]
  OBVIOUS
<1>. HIDE DEF frame
<1>5. temp \in Seq(EntryFrame) /\ Len(temp) \in Nat
  BY <1>2 DEF TypeOK
<1>6. /\ KeysDiffer(temp, Len(temp))
      /\ \A i \in 1 .. Len(temp) : temp[i].key \notin todo
      /\ \A j \in Keys \ (touched \cup todo) : ValuesOf(temp, Len(temp), j) = {mem[j]} \ {None}
  BY <1>1 DEF IInv, TempFollows
<1>7. ValuesOf(temp, Len(temp), k) = {}
  BY <1>1, <1>5, <1>6, ValuesOfNone
<1>8. \A h \in Callers \ {g} : at'[h] = at[h] /\ at'[h] \notin Writing
  <2>1. "publish" \in Writing
    BY DEF Writing
  <2>2. CASE todo' = {}
    BY <1>1, <2>1, <2>2, WriterGoesOn
  <2>3. CASE todo' # {}
    BY <1>1, <2>3, WriterIsAlone
  <2>. QED  BY <2>2, <2>3
<1>9. /\ at' \in [Callers -> Places] /\ at'[g] = (IF todo' = {} THEN "publish" ELSE "entries")
      /\ OneOwner' /\ DownIsEmpty'
  <2>1. "publish" \in Writing
    BY DEF Writing
  <2>2. CASE todo' = {}
    BY <1>1, <2>1, <2>2, WriterGoesOn
  <2>3. CASE todo' # {}
    BY <1>1, <1>2, <2>3 DEF IInv, OneOwner, Owns, DownIsEmpty, TypeOK, Places
  <2>. QED  BY <2>2, <2>3
<1>10. /\ temp' \in Seq(EntryFrame)
       /\ KeysDiffer(temp', Len(temp'))
       /\ \A i \in 1 .. Len(temp') : temp'[i].key \notin todo'
       /\ \A j \in Keys \ (touched \cup todo') : ValuesOf(temp', Len(temp'), j) = {mem[j]} \ {None}
  <2>1. CASE mem[k] = None
    <3>1. temp' = temp
      BY <1>1, <2>1
    <3>2. {mem[k]} \ {None} = {}
      BY <2>1
    <3>. QED  BY <1>1, <1>5, <1>6, <1>7, <3>1, <3>2
  <2>2. CASE mem[k] # None
    <3>1. temp' = Append(temp, frame) /\ frame \in EntryFrame
      BY <1>1, <1>3, <2>2
    <3>2. /\ temp' \in Seq(EntryFrame) /\ Len(temp') = Len(temp) + 1
          /\ \A i \in 1 .. Len(temp) : temp'[i] = temp[i]
          /\ temp'[Len(temp) + 1] = frame
      BY <1>5, <3>1, AppendParts
    <3>3. \A i \in 1 .. Len(temp') : i \in 1 .. Len(temp) \/ i = Len(temp) + 1
      BY <1>5, <3>2
    <3>4. KeysDiffer(temp', Len(temp'))
      <4>1. SUFFICES ASSUME NEW a \in 1 .. Len(temp'), NEW b \in 1 .. Len(temp'), a # b
                     PROVE  temp'[a].key # temp'[b].key
        BY DEF KeysDiffer
      <4>2. CASE a \in 1 .. Len(temp) /\ b \in 1 .. Len(temp)
        BY <1>6, <3>2, <4>1, <4>2 DEF KeysDiffer
      <4>3. CASE a = Len(temp) + 1 \/ b = Len(temp) + 1
        BY <1>1, <1>4, <1>6, <3>2, <3>3, <4>1, <4>3
      <4>. QED  BY <3>3, <4>2, <4>3
    <3>5. \A i \in 1 .. Len(temp') : temp'[i].key \notin todo'
      BY <1>1, <1>4, <1>6, <3>2, <3>3
    <3>6. ASSUME NEW j \in Keys \ (touched \cup todo')
          PROVE  ValuesOf(temp', Len(temp'), j) = {mem[j]} \ {None}
      <4>1. ValuesOf(temp', Len(temp), j) = ValuesOf(temp, Len(temp), j)
        BY <1>5, <3>2, ValuesOfSame
      <4>2. ValuesOf(temp', Len(temp'), j)
              = ValuesOf(temp, Len(temp), j) \cup (IF k = j THEN {mem[k]} ELSE {})
        BY <1>4, <1>5, <3>2, <4>1, ValuesOfOneMore
      <4>3. CASE j = k
        BY <1>7, <2>2, <4>2, <4>3
      <4>4. CASE j # k
        BY <1>1, <1>6, <4>2, <4>4, <3>6
      <4>. QED  BY <4>3, <4>4
    <3>. QED  BY <3>2, <3>4, <3>5, <3>6
  <2>. QED  BY <2>1, <2>2
<1>11. TypeOK'
  BY <1>1, <1>2, <1>9, <1>10 DEF TypeOK, Places
<1>12. TempFollows'
  BY <1>1, <1>8, <1>9, <1>10 DEF TempFollows, Writing
<1>13. FilesAreWhole' /\ NewestSurvives' /\ RestoreFollows'
  BY <1>1, FilesUnmoved, RestoreUnmoved DEF IInv
<1>. QED  BY <1>9, <1>11, <1>12, <1>13 DEF IInv

\* The checksum behind the frames makes the file whole, and the rename makes
\* it the newest.
LEMMA PublishKeepsIInv == ASSUME IInv, NEW g \in Callers, Publish(g) PROVE IInv'
<1>. DEFINE file == Append(temp, Checksum)
<1>1. /\ at[g] = "publish" /\ at[g] \in Writing /\ at' = [at EXCEPT ![g] = "clean"] /\ "clean" \in Writing
      /\ disk' = Append(disk, file) /\ newest' = file /\ temp' = <<>>
      /\ UNCHANGED <<mem, version, up, snapshotting, todo, reading, stops, touched, source, changed, evicted>>
  BY DEF Publish, Writing
<1>2. TypeOK /\ temp \in Seq(EntryFrame) /\ temp \in Frames /\ disk \in Seq(Frames) /\ temp' \in Seq(EntryFrame)
  BY <1>1 DEF IInv, TypeOK, Frames
<1>3. /\ file \in Frames /\ file # <<>> /\ Len(file) = Len(temp) + 1 /\ Len(temp) \in Nat
      /\ \A i \in 1 .. Len(temp) : file[i] = temp[i]
      /\ file[Len(temp) + 1] = Checksum
  <2>1. temp \in Seq(EntryFrame \cup {Checksum}) /\ Checksum \in EntryFrame \cup {Checksum}
    BY <1>2 DEF Frames
  <2>2. file \in Seq(EntryFrame \cup {Checksum})
    BY <2>1, AppendParts
  <2>. QED  BY <2>1, <2>2, AppendParts DEF Frames
<1>. HIDE DEF file
<1>4. /\ Len(disk) \in Nat /\ disk' \in Seq(Frames) /\ disk' # <<>> /\ Len(disk') = Len(disk) + 1
      /\ \A i \in 1 .. Len(disk) : disk'[i] = disk[i]
      /\ disk'[Len(disk) + 1] = file
  BY <1>1, <1>2, <1>3, AppendParts
<1>5. Whole(file)
  <2>1. Len(file) - 1 = Len(temp)
    BY <1>3
  <2>2. \A a \in 1 .. Len(temp) : file[a] # Checksum
    BY <1>2, <1>3, InputAssumption
  <2>3. KeysDiffer(temp, Len(temp))
    BY <1>1 DEF IInv, TempFollows
  <2>4. KeysDiffer(file, Len(temp))
    BY <1>3, <2>3 DEF KeysDiffer
  <2>. QED  BY <1>3, <2>1, <2>2, <2>4 DEF Whole
<1>6. /\ at' \in [Callers -> Places] /\ at'[g] = "clean"
      /\ \A h \in Callers \ {g} : at'[h] = at[h] /\ at'[h] \notin Writing
      /\ OneOwner' /\ DownIsEmpty'
  BY <1>1, WriterGoesOn
<1>7. TypeOK'
  BY <1>1, <1>2, <1>3, <1>4, <1>6 DEF TypeOK, Places
<1>8. TempFollows'
  BY <1>6 DEF TempFollows, Writing
<1>9. FilesAreWhole'
  <2>1. \A i \in 1 .. Len(disk') : i \in 1 .. Len(disk) \/ i = Len(disk) + 1
    BY <1>4
  <2>. QED  BY <1>1, <1>4, <1>5, <2>1 DEF IInv, FilesAreWhole
<1>10. NewestSurvives'
  BY <1>1, <1>4 DEF NewestSurvives
<1>11. RestoreFollows'
  BY <1>1, RestoreUnmoved DEF IInv
<1>. QED  BY <1>6, <1>7, <1>8, <1>9, <1>10, <1>11 DEF IInv

\* An error removes the temporary file only.
LEMMA WriteFailsKeepsIInv == ASSUME IInv, NEW g \in Callers, WriteFails(g) PROVE IInv'
<1>1. /\ at[g] \in Writing /\ at' = [at EXCEPT ![g] = "returned"] /\ snapshotting' = FALSE /\ temp' = <<>>
      /\ UNCHANGED <<mem, version, up, todo, disk, reading, stops, touched, newest, source, changed, evicted>>
  BY DEF WriteFails
<1>2. TypeOK /\ temp' \in Seq(EntryFrame)
  BY <1>1 DEF IInv
<1>3. at' \in [Callers -> Places] /\ OneOwner' /\ TempFollows' /\ DownIsEmpty'
  BY <1>1, WriterEnds
<1>4. TypeOK'
  BY <1>1, <1>2, <1>3 DEF TypeOK, Places
<1>5. FilesAreWhole' /\ NewestSurvives' /\ RestoreFollows'
  BY <1>1, FilesUnmoved, RestoreUnmoved DEF IInv
<1>. QED  BY <1>3, <1>4, <1>5 DEF IInv

\* The files cleaned are the oldest: the end of the list stays.
LEMMA CleanKeepsIInv == ASSUME IInv, NEW g \in Callers, Clean(g) PROVE IInv'
<1>. DEFINE first == IF Len(disk) > Keep THEN Len(disk) - Keep + 1 ELSE 1
<1>1. /\ at[g] \in Writing /\ at' = [at EXCEPT ![g] = "returned"] /\ snapshotting' = FALSE
      /\ disk' = SubSeq(disk, first, Len(disk))
      /\ UNCHANGED <<mem, version, up, todo, temp, reading, stops, touched, newest, source, changed, evicted>>
  BY DEF Clean, Writing
<1>2. TypeOK /\ disk \in Seq(Frames) /\ Len(disk) \in Nat
  BY DEF IInv, TypeOK
<1>3. first \in 1 .. Len(disk) + 1 /\ (Len(disk) # 0 => first \in 1 .. Len(disk))
  BY <1>2, BoundsAssumption
<1>. HIDE DEF first
<1>4. /\ disk' \in Seq(Frames) /\ Len(disk') = Len(disk) - first + 1
      /\ \A i \in 1 .. Len(disk) - first + 1 : disk'[i] = disk[first + i - 1]
  BY <1>1, <1>2, <1>3, SuffixParts
<1>5. at' \in [Callers -> Places] /\ OneOwner' /\ TempFollows' /\ DownIsEmpty'
  BY <1>1, WriterEnds
<1>6. TypeOK'
  BY <1>1, <1>2, <1>4, <1>5 DEF TypeOK, Places
<1>7. FilesAreWhole'
  <2>1. \A i \in 1 .. Len(disk') : first + i - 1 \in 1 .. Len(disk) /\ disk'[i] = disk[first + i - 1]
    BY <1>2, <1>3, <1>4
  <2>. QED  BY <1>1, <2>1 DEF IInv, FilesAreWhole
<1>8. NewestSurvives'
  <2>1. SUFFICES ASSUME newest # None PROVE disk' # <<>> /\ disk'[Len(disk')] = newest
    BY <1>1 DEF NewestSurvives
  <2>2. disk # <<>> /\ disk[Len(disk)] = newest
    BY <2>1 DEF IInv, NewestSurvives
  <2>3. Len(disk) # 0
    BY <1>2, <2>2
  <2>4. Len(disk') \in 1 .. Len(disk) - first + 1 /\ first + Len(disk') - 1 = Len(disk)
    BY <1>2, <1>3, <1>4, <2>3
  <2>5. disk' # <<>>
    BY <1>4, <2>4
  <2>. QED  BY <1>4, <2>2, <2>4, <2>5
<1>9. RestoreFollows'
  BY <1>1, RestoreUnmoved DEF IInv
<1>. QED  BY <1>5, <1>6, <1>7, <1>8, <1>9 DEF IInv

-----------------------------------------------------------------------------
(* Clients, restarts and the restore. *)

\* Set stores the key and may evict others, all of which are touched.
LEMMA StoreParts ==
    ASSUME TypeOK, NEW k \in Keys, NEW v \in Values, Store(k, v)
    PROVE  /\ mem' \in [Keys -> Values \cup {None}] /\ mem'[k] = v
           /\ touched' \subseteq Keys /\ evicted' \subseteq Keys
           /\ \E out \in SUBSET Resident :
                 /\ out # {} => Cardinality(Resident \ out) + 1 >= Room
                 /\ \A j \in Keys \ (out \cup {k}) : mem'[j] = mem[j]
                 /\ \A j \in out \ {k} : mem'[j] = None
                 /\ touched' = touched \cup out \cup {k}
                 /\ evicted' = evicted \cup (out \ {k})
<1>1. PICK out \in SUBSET Resident :
        /\ out # {} => Cardinality(Resident \ out) + 1 >= Room
        /\ mem' = [j \in Keys |-> IF j = k THEN v ELSE IF j \in out THEN None ELSE mem[j]]
        /\ touched' = touched \cup out \cup {k}
        /\ evicted' = evicted \cup (out \ {k})
  BY DEF Store
<1>2. out \subseteq Keys
  BY DEF Resident
<1>3. /\ mem' \in [Keys -> Values \cup {None}] /\ mem'[k] = v
      /\ \A j \in Keys \ (out \cup {k}) : mem'[j] = mem[j]
      /\ \A j \in out \ {k} : mem'[j] = None
  BY <1>1, <1>2 DEF TypeOK
<1>4. touched' \subseteq Keys /\ evicted' \subseteq Keys
  BY <1>1, <1>2 DEF TypeOK
<1>. QED  BY <1>1, <1>3, <1>4

\* A client changes a key, which then is touched and changed; others go.
LEMMA ClientKeepsIInv == ASSUME IInv, NEW k \in Keys, Set(k) \/ Delete(k) PROVE IInv'
<1>2. TypeOK
  BY DEF IInv
<1>1. /\ up = "running" /\ changed' = changed \cup {k}
      /\ version' \in 0 .. MaxVersion
      /\ mem' \in [Keys -> Values \cup {None}] /\ touched' \subseteq Keys /\ evicted' \subseteq Keys
      /\ UNCHANGED <<up, snapshotting, at, todo, temp, disk, reading, stops, newest, source>>
      /\ \E out \in SUBSET Keys :
            /\ \A j \in Keys \ (out \cup {k}) : mem'[j] = mem[j]
            /\ \A j \in out \ {k} : mem'[j] = None
            /\ touched' = touched \cup out \cup {k}
            /\ evicted' = evicted \cup (out \ {k})
  <2>1. CASE Set(k)
    <3>1. version + 1 \in Values /\ version + 1 \in 0 .. MaxVersion
      BY <2>1, BoundsAssumption DEF Set, IInv, TypeOK, Values
    <3>2. version' = version + 1 /\ Store(k, version + 1)
      BY <2>1 DEF Set
    <3>3. /\ mem' \in [Keys -> Values \cup {None}] /\ touched' \subseteq Keys /\ evicted' \subseteq Keys
          /\ \E out \in SUBSET Resident :
                /\ \A j \in Keys \ (out \cup {k}) : mem'[j] = mem[j]
                /\ \A j \in out \ {k} : mem'[j] = None
                /\ touched' = touched \cup out \cup {k}
                /\ evicted' = evicted \cup (out \ {k})
      BY <1>2, <3>1, <3>2, StoreParts
    <3>4. SUBSET Resident \subseteq SUBSET Keys
      BY DEF Resident
    <3>5. /\ up = "running" /\ changed' = changed \cup {k}
          /\ UNCHANGED <<up, snapshotting, at, todo, temp, disk, reading, stops, newest, source>>
      BY <2>1 DEF Set
    <3>6. \E out \in SUBSET Keys :
                /\ \A j \in Keys \ (out \cup {k}) : mem'[j] = mem[j]
                /\ \A j \in out \ {k} : mem'[j] = None
                /\ touched' = touched \cup out \cup {k}
                /\ evicted' = evicted \cup (out \ {k})
      BY <3>3, <3>4
    <3>. QED  BY <3>1, <3>2, <3>3, <3>5, <3>6
  <2>2. CASE Delete(k)
    <3>1. /\ up = "running" /\ changed' = changed \cup {k} /\ mem' = [mem EXCEPT ![k] = None]
          /\ touched' = touched \cup {k} /\ evicted' = evicted /\ version' = version
          /\ UNCHANGED <<up, snapshotting, at, todo, temp, disk, reading, stops, newest, source>>
      BY <2>2 DEF Delete
    <3>2. mem' \in [Keys -> Values \cup {None}] /\ \A j \in Keys \ ({} \cup {k}) : mem'[j] = mem[j]
      BY <1>2, <3>1 DEF TypeOK
    <3>3. version' \in 0 .. MaxVersion /\ touched' \subseteq Keys /\ evicted' \subseteq Keys
      BY <1>2, <3>1 DEF TypeOK
    <3>4. {} \in SUBSET Keys /\ touched' = touched \cup {} \cup {k} /\ evicted' = evicted \cup ({} \ {k})
      BY <3>1
    <3>. QED  BY <3>1, <3>2, <3>3, <3>4
  <2>. QED  BY <2>1, <2>2
<1>3. PICK out \in SUBSET Keys :
        /\ \A j \in Keys \ (out \cup {k}) : mem'[j] = mem[j]
        /\ \A j \in out \ {k} : mem'[j] = None
        /\ touched' = touched \cup out \cup {k}
        /\ evicted' = evicted \cup (out \ {k})
  BY <1>1
<1>4. TypeOK'
  BY <1>1, <1>2 DEF TypeOK
<1>5. OneOwner' /\ DownIsEmpty'
  BY <1>1 DEF IInv, OneOwner, Owns, DownIsEmpty
<1>6. TempFollows'
  BY <1>1, <1>3 DEF IInv, TempFollows
<1>7. FilesAreWhole' /\ NewestSurvives'
  BY <1>1, FilesUnmoved DEF IInv
<1>8. RestoreFollows'
  <2>1. ASSUME NEW n, RestoredUpTo(n) PROVE RestoredUpTo(n)'
    BY <1>1, <1>3, <2>1 DEF RestoredUpTo
  <2>2. UNCHANGED <<up, source, reading>>
    BY <1>1
  <2>3. RestoreFollows
    BY DEF IInv
  <2>. QED  BY <2>1, <2>2, <2>3 DEF RestoreFollows
<1>. QED  BY <1>4, <1>5, <1>6, <1>7, <1>8 DEF IInv

\* The process ends; the files stay.
LEMMA StopKeepsIInv == ASSUME IInv, Stop PROVE IInv'
<1>1. /\ up' = "down" /\ mem' = [k \in Keys |-> None] /\ snapshotting' = FALSE
      /\ at' = [g \in Callers |-> "idle"] /\ todo' = {} /\ temp' = <<>> /\ reading' = None
      /\ touched' = {} /\ source' = None /\ changed' = {} /\ evicted' = {}
      /\ UNCHANGED <<version, disk, newest>>
  BY DEF Stop
<1>2. TypeOK'
  <2>1. stops' \in 0 .. MaxStops
    BY BoundsAssumption DEF Stop, IInv, TypeOK
  <2>2. /\ mem' \in [Keys -> Values \cup {None}] /\ temp' \in Seq(EntryFrame)
        /\ at' \in [Callers -> {"idle", "outer", "inner", "returned"} \cup Writing]
    BY <1>1
  <2>. QED  BY <1>1, <2>1, <2>2 DEF IInv, TypeOK
<1>3. OneOwner' /\ TempFollows' /\ DownIsEmpty'
  BY <1>1 DEF OneOwner, Owns, Writing, TempFollows, DownIsEmpty
<1>4. FilesAreWhole' /\ NewestSurvives' /\ RestoreFollows'
  BY <1>1 DEF IInv, FilesAreWhole, NewestSurvives, RestoreFollows
<1>. QED  BY <1>2, <1>3, <1>4 DEF IInv

\* The next process reads the newest file from its first frame.
LEMMA RestartKeepsIInv == ASSUME IInv, Restart PROVE IInv'
<1>1. /\ up = "down" /\ up' = "running" /\ source' = newest
      /\ reading' = IF disk = <<>> THEN None ELSE disk[Len(disk)]
      /\ UNCHANGED <<mem, version, snapshotting, at, todo, temp, disk, stops, touched, newest, changed, evicted>>
  BY DEF Restart
<1>2. TypeOK /\ disk \in Seq(Frames) /\ Len(disk) \in Nat
  BY DEF IInv, TypeOK
<1>3. (\A k \in Keys : mem[k] = None) /\ changed = {} /\ evicted = {}
  BY <1>1 DEF IInv, DownIsEmpty
<1>4. disk # <<>> => Len(disk) \in 1 .. Len(disk) /\ disk[Len(disk)] \in Frames
  BY <1>2
<1>5. TypeOK'
  BY <1>1, <1>2, <1>4 DEF TypeOK
<1>6. newest # None => reading' = newest /\ newest \in Frames /\ Whole(newest)
  BY <1>1, <1>4 DEF IInv, NewestSurvives, FilesAreWhole
<1>7. FilesAreWhole' /\ NewestSurvives'
  BY <1>1, <1>6 DEF IInv, FilesAreWhole, NewestSurvives
<1>8. RestoreFollows'
  <2>1. SUFFICES ASSUME newest # None PROVE RestoreFollows'
    BY <1>1 DEF RestoreFollows
  <2>2. /\ reading' = newest /\ source' = newest /\ newest \in Frames /\ newest # <<>> /\ newest # None
    BY <1>1, <1>6, <2>1 DEF Whole
  <2>3. Len(newest) \in Nat /\ Len(newest) \in 1 .. Len(newest)
        /\ Len(newest) - Len(newest) = 0 /\ \A i \in 1 .. Len(newest) : Len(newest) - Len(newest) + i = i
    BY <2>2 DEF Frames
  <2>4. \A k \in Keys : ValuesOf(newest, 0, k) = {} /\ {mem'[k]} \ {None} = {}
    <3>1. \A k \in Keys : ValuesOf(newest, 0, k) = {}
      BY DEF ValuesOf
    <3>. QED  BY <1>1, <1>3, <3>1
  <2>5. RestoredUpTo(0)'
    BY <1>1, <1>3, <2>2, <2>4 DEF RestoredUpTo
  <2>. QED  BY <2>2, <2>3, <2>5 DEF RestoreFollows
<1>9. TempFollows'
  BY <1>1, TempUnmoved DEF IInv
<1>10. OneOwner' /\ DownIsEmpty'
  BY <1>1 DEF IInv, OneOwner, Owns, DownIsEmpty
<1>. QED  BY <1>5, <1>7, <1>8, <1>9, <1>10 DEF IInv

\* Set evicts nothing if L0 holds only keys of n frames, fewer than it has room for.
LEMMA NoneEvicted ==
    ASSUME TypeOK, NEW f, NEW n \in Nat, n < Room,
           \A k \in Keys : {mem[k]} \ {None} \subseteq ValuesOf(f, n, k),
           NEW out \in SUBSET Resident, out # {} => Cardinality(Resident \ out) + 1 >= Room
    PROVE  out = {}
<1>. DEFINE T == {f[i].key : i \in 1 .. n}
<1>1. IsFiniteSet(T) /\ Cardinality(T) \in Nat /\ Cardinality(T) <= n
  <2>. DEFINE h == [i \in 1 .. n |-> f[i].key]
  <2>1. h \in Surjection(1 .. n, T)
    BY DEF Surjection
  <2>2. IsFiniteSet(1 .. n) /\ Cardinality(1 .. n) = n
    BY FS_CountingElements, FS_Interval
  <2>. HIDE DEF h, T
  <2>3. IsFiniteSet(T) /\ Cardinality(T) <= Cardinality(1 .. n)
    BY <2>1, <2>2, FS_Surjection
  <2>. QED  BY <2>2, <2>3, FS_CardinalityType
<1>2. Resident \subseteq T
  BY DEF Resident, ValuesOf
<1>. HIDE DEF T
<1>3. IsFiniteSet(Resident) /\ Cardinality(Resident) \in Nat /\ Cardinality(Resident) <= Cardinality(T)
  BY <1>1, <1>2, FS_Subset, FS_CardinalityType
<1>4. SUFFICES ASSUME out # {} PROVE FALSE
  OBVIOUS
<1>5. PICK x \in out : TRUE
  BY <1>4
<1>6. IsFiniteSet(Resident \ {x}) /\ Cardinality(Resident \ {x}) = Cardinality(Resident) - 1
      /\ Cardinality(Resident \ {x}) \in Nat
  BY <1>3, <1>5, FS_RemoveElement, FS_CardinalityType
<1>7. Cardinality(Resident \ out) <= Cardinality(Resident \ {x}) /\ Cardinality(Resident \ out) \in Nat
  <2>1. Resident \ out \in SUBSET (Resident \ {x})
    BY <1>5
  <2>. QED  BY <1>6, <2>1, FS_Subset, FS_CardinalityType
<1>. DEFINE c == Cardinality(Resident \ out)
            d == Cardinality(Resident)
            e == Cardinality(T)
            m == Cardinality(Resident \ {x})
<1>8. /\ c \in Nat /\ d \in Nat /\ e \in Nat /\ m \in Nat /\ Room \in Nat
      /\ c + 1 >= Room /\ c <= m /\ m = d - 1 /\ d <= e /\ e <= n
  BY <1>1, <1>3, <1>4, <1>6, <1>7, BoundsAssumption
<1>. HIDE DEF c, d, e, m
<1>. QED  BY <1>8

\* A frame is stored, and is the only one of its key; the checksum ends the
\* restore at the end of the file.
LEMMA RestoreFrameKeepsIInv == ASSUME IInv, RestoreFrame PROVE IInv'
<1>1. /\ reading # None /\ reading # <<>>
      /\ UNCHANGED <<version, up, snapshotting, at, todo, temp, disk, stops, newest, source, changed>>
  BY DEF RestoreFrame
<1>2. TypeOK /\ reading \in Frames /\ up # "down"
  BY <1>1 DEF IInv, TypeOK, DownIsEmpty
<1>3. /\ Tail(reading) \in Frames /\ Len(Tail(reading)) = Len(reading) - 1 /\ Len(reading) \in Nat \ {0}
      /\ Head(reading) = reading[1] /\ Head(reading) \in EntryFrame \cup {Checksum}
      /\ \A i \in 1 .. Len(reading) - 1 : Tail(reading)[i] = reading[i + 1]
  BY <1>1, <1>2, TailParts DEF Frames
<1>4. OneOwner' /\ DownIsEmpty'
  BY <1>1, <1>2 DEF IInv, OneOwner, Owns, DownIsEmpty
<1>5. FilesAreWhole' /\ NewestSurvives'
  BY <1>1, FilesUnmoved DEF IInv
<1>6. ASSUME up = "running", source # None
      PROVE  /\ source \in Frames /\ Len(source) \in Nat /\ Whole(source)
             /\ Len(reading) \in 1 .. Len(source)
             /\ \A i \in 1 .. Len(reading) : reading[i] = source[Len(source) - Len(reading) + i]
             /\ RestoredUpTo(Len(source) - Len(reading))
  BY <1>1, <1>6 DEF IInv, TypeOK, FilesAreWhole, RestoreFollows, Frames
<1>7. CASE Head(reading) = Checksum
  <2>1. reading' = None /\ UNCHANGED <<mem, touched, evicted>>
    BY <1>7 DEF RestoreFrame
  <2>2. TypeOK'
    BY <1>1, <1>2, <2>1 DEF TypeOK
  <2>3. TempFollows'
    BY <1>1, <2>1, TempUnmoved DEF IInv
  <2>4. RestoreFollows'
    <3>1. SUFFICES ASSUME up = "running", source # None PROVE RestoreFollows'
      BY <1>1 DEF RestoreFollows
    <3>2. Len(source) - Len(reading) + 1 \in 1 .. Len(source)
          /\ source[Len(source) - Len(reading) + 1] = Checksum
      BY <1>3, <1>6, <1>7, <3>1
    <3>3. Len(source) - Len(reading) + 1 = Len(source)
      BY <1>3, <1>6, <3>1, <3>2 DEF Whole
    <3>4. Len(source) - Len(reading) = Len(source) - 1
      BY <1>3, <1>6, <3>1, <3>3
    <3>5. RestoredUpTo(Len(source) - 1)'
      BY <1>1, <1>6, <2>1, <3>1, <3>4 DEF RestoredUpTo
    <3>. QED  BY <1>1, <2>1, <3>5 DEF RestoreFollows
  <2>. QED  BY <1>4, <1>5, <2>2, <2>3, <2>4 DEF IInv
<1>8. CASE Head(reading) # Checksum
  <2>1. PICK frame \in EntryFrame : frame = Head(reading)
    BY <1>3, <1>8
  <2>2. frame.key \in Keys /\ frame.val \in Values /\ frame.val # None
    BY InputAssumption DEF EntryFrame
  <2>3. /\ reading' = Tail(reading)
        /\ \/ up = "running" /\ Store(frame.key, frame.val)
           \/ up # "running" /\ UNCHANGED <<mem, touched, evicted>>
    BY <1>8, <2>1 DEF RestoreFrame
  <2>4. /\ mem' \in [Keys -> Values \cup {None}] /\ touched' \subseteq Keys /\ evicted' \subseteq Keys
        /\ touched \subseteq touched' /\ \A k \in Keys \ touched' : mem'[k] = mem[k]
    <3>1. CASE Store(frame.key, frame.val)
      <4>1. /\ mem' \in [Keys -> Values \cup {None}] /\ touched' \subseteq Keys /\ evicted' \subseteq Keys
            /\ \E out \in SUBSET Resident :
                  /\ \A j \in Keys \ (out \cup {frame.key}) : mem'[j] = mem[j]
                  /\ touched' = touched \cup out \cup {frame.key}
        BY <1>2, <2>2, <3>1, StoreParts
      <4>. QED  BY <4>1
    <3>2. CASE UNCHANGED <<mem, touched, evicted>>
      BY <1>2, <3>2 DEF TypeOK
    <3>. QED  BY <2>3, <3>1, <3>2
  <2>5. TypeOK'
    BY <1>1, <1>2, <1>3, <2>3, <2>4 DEF TypeOK
  <2>6. TempFollows'
    BY <1>1, <2>4 DEF IInv, TempFollows
  <2>7. RestoreFollows'
    <3>1. SUFFICES ASSUME up = "running", source # None PROVE RestoreFollows'
      BY <1>1 DEF RestoreFollows
    <3>. DEFINE n == Len(source)
                m == Len(reading)
                p == n - m
    <3>2. /\ n \in Nat /\ m \in 1 .. n /\ p \in Nat /\ p + 1 \in 1 .. n /\ p + 1 = n - (m - 1)
          /\ source[p + 1] = frame
      BY <1>3, <1>6, <2>1, <3>1
    <3>3. p + 1 # n
      BY <1>6, <1>8, <2>1, <3>1, <3>2 DEF Whole
    <3>4. p + 1 \in 1 .. n - 1 /\ m - 1 \in 1 .. n /\ \A i \in 1 .. p : i \in 1 .. n - 1 /\ i # p + 1
      BY <3>2, <3>3
    <3>5. \A i \in 1 .. p : source[i].key # frame.key
      BY <1>6, <3>1, <3>2, <3>4 DEF Whole, KeysDiffer
    <3>6. reading' # None /\ Len(reading') = m - 1
      BY <1>3, <2>3, InputAssumption
    <3>7. \A i \in 1 .. m - 1 : reading'[i] = source[n - (m - 1) + i]
      <4>1. SUFFICES ASSUME NEW i \in 1 .. m - 1 PROVE reading'[i] = source[n - (m - 1) + i]
        OBVIOUS
      <4>2. i + 1 \in 1 .. m /\ n - m + (i + 1) = n - (m - 1) + i
        BY <3>2, <4>1
      <4>. QED  BY <1>3, <1>6, <2>3, <3>1, <4>2
    <3>8. PICK out \in SUBSET Resident :
            /\ out # {} => Cardinality(Resident \ out) + 1 >= Room
            /\ \A j \in Keys \ (out \cup {frame.key}) : mem'[j] = mem[j]
            /\ \A j \in out \ {frame.key} : mem'[j] = None
            /\ evicted' = evicted \cup (out \ {frame.key})
      BY <1>2, <2>2, <2>3, <3>1, StoreParts
    <3>9. mem'[frame.key] = frame.val
      BY <1>2, <2>2, <2>3, <3>1, StoreParts
    <3>10. RestoredUpTo(p) /\ UNCHANGED <<changed, source>>
      BY <1>1, <1>6, <3>1
    <3>11. \A k \in Keys : ValuesOf(source, p + 1, k)
                  = ValuesOf(source, p, k) \cup (IF frame.key = k THEN {frame.val} ELSE {})
      BY <3>2, ValuesOfOneMore
    <3>12. ValuesOf(source, p, frame.key) = {}
      BY <3>2, <3>5, ValuesOfNone
    <3>13. changed = {} /\ n - 1 <= Room => evicted' = {}
      <4>1. SUFFICES ASSUME changed = {}, n - 1 <= Room PROVE out = {} /\ evicted = {}
        BY <3>8
      <4>2. evicted = {} /\ \A k \in Keys : {mem[k]} \ {None} \subseteq ValuesOf(source, p, k)
        BY <3>10, <4>1 DEF RestoredUpTo
      <4>3. p \in Nat /\ p < Room
        BY <3>2, <3>4, <4>1, BoundsAssumption
      <4>. HIDE DEF p, n
      <4>. QED  BY <1>2, <3>8, <4>2, <4>3, NoneEvicted
    <3>14. PICK q \in Nat : q = p + 1
      BY <3>2
    <3>15. RestoredUpTo(q)'
      <4>1. ASSUME NEW k \in Keys \ changed
            PROVE  {mem'[k]} \ {None} \subseteq ValuesOf(source, p + 1, k)
        <5>1. CASE k = frame.key
          BY <3>9, <3>11, <5>1
        <5>2. CASE k # frame.key
          <6>1. ValuesOf(source, p + 1, k) = ValuesOf(source, p, k)
            BY <3>11, <5>2
          <6>2. {mem'[k]} \ {None} \subseteq {mem[k]} \ {None}
            BY <3>8, <5>2
          <6>. QED  BY <3>10, <6>1, <6>2 DEF RestoredUpTo
        <5>. QED  BY <5>1, <5>2
      <4>2. ASSUME NEW k \in Keys \ (changed \cup evicted')
            PROVE  {mem'[k]} \ {None} = ValuesOf(source, p + 1, k)
        <5>1. CASE k = frame.key
          BY <2>2, <3>9, <3>11, <3>12, <5>1
        <5>2. CASE k # frame.key
          <6>1. ValuesOf(source, p + 1, k) = ValuesOf(source, p, k)
            BY <3>11, <5>2
          <6>2. mem'[k] = mem[k] /\ k \notin evicted
            BY <3>8, <4>2, <5>2
          <6>. QED  BY <3>10, <6>1, <6>2 DEF RestoredUpTo
        <5>. QED  BY <5>1, <5>2
      <4>. HIDE DEF p
      <4>. QED  BY <3>10, <3>13, <3>14, <4>1, <4>2 DEF RestoredUpTo
    <3>16. /\ UNCHANGED <<up, source>> /\ Len(source') - Len(reading') = q
           /\ Len(reading') \in 1 .. Len(source')
           /\ \A i \in 1 .. Len(reading') : reading'[i] = source'[Len(source') - Len(reading') + i]
      BY <1>1, <3>2, <3>4, <3>6, <3>7, <3>14
    <3>. HIDE DEF p
    <3>. QED  BY <3>6, <3>15, <3>16 DEF RestoreFollows
  <2>. QED  BY <1>4, <1>5, <2>5, <2>6, <2>7 DEF IInv
<1>. QED  BY <1>7, <1>8

-----------------------------------------------------------------------------
(* The theorems. *)

\* Every step of clients, callers, restarts and the restore.
LEMMA NextKeepsIInv == IInv /\ [Next]_vars => IInv'
<1>. SUFFICES ASSUME IInv, [Next]_vars PROVE IInv'
  OBVIOUS
<1>1. CASE \E k \in Keys : Set(k) \/ Delete(k)
  BY <1>1, ClientKeepsIInv
<1>2. CASE Tick \/ BeginClose \/ \E g \in Direct : CallDirect(g)
  BY <1>2, CallsKeepIInv
<1>3. ASSUME NEW g \in Callers,
             Outer(g) \/ Inner(g) \/ Publish(g) \/ WriteFails(g) \/ Clean(g) \/ Return(g)
      PROVE  IInv'
  BY <1>3, OuterKeepsIInv, InnerKeepsIInv, PublishKeepsIInv, WriteFailsKeepsIInv, CleanKeepsIInv,
     ReturnKeepsIInv
<1>4. ASSUME NEW g \in Callers, NEW k \in Keys, Count(g, k) \/ WriteEntry(g, k) PROVE IInv'
  BY <1>4, CountKeepsIInv, WriteEntryKeepsIInv
<1>5. CASE Stop \/ Restart \/ RestoreFrame
  BY <1>5, StopKeepsIInv, RestartKeepsIInv, RestoreFrameKeepsIInv
<1>6. CASE UNCHANGED vars
  <2>1. UNCHANGED <<mem, version, up, snapshotting, at, todo, temp, disk, reading, stops, touched, newest, source, changed, evicted>>
    BY <1>6 DEF vars
  <2>2. TypeOK' /\ TempFollows' /\ FilesAreWhole' /\ NewestSurvives' /\ RestoreFollows'
    BY <2>1, TempUnmoved, FilesUnmoved, RestoreUnmoved DEF IInv, TypeOK
  <2>3. OneOwner' /\ DownIsEmpty'
    BY <2>1 DEF IInv, OneOwner, Owns, DownIsEmpty
  <2>. QED  BY <2>2, <2>3 DEF IInv
<1>. QED  BY <1>1, <1>2, <1>3, <1>4, <1>5, <1>6 DEF Next

\* The inductive invariant of the snapshots.
THEOREM Invariant == Spec => []IInv
<1>. QED  BY InitIInv, NextKeepsIInv, PTL DEF Spec

\* Memory, flags, files and the restore's frames have their types.
THEOREM TypeCorrect == Spec => []TypeOK
<1>1. IInv => TypeOK
  BY DEF IInv
<1>. QED  BY <1>1, Invariant, PTL

\* The two layers of the snapshotting flag keep the writers apart.
THEOREM WritersAreApart == Spec => []OneWriter
<1>1. IInv => OneWriter
  BY DEF IInv, OneOwner, Owns, OneWriter
<1>. QED  BY <1>1, Invariant, PTL

\* Whatever fails or crashes, a file that is renamed into place has its
\* checksum, behind one frame a key.
THEOREM FilesAreWholeAlways == Spec => []PublishedIsWhole
<1>1. IInv => PublishedIsWhole
  <2>1. SUFFICES ASSUME IInv, NEW i \in DOMAIN disk
                 PROVE  /\ disk[i] # <<>> /\ disk[i][Len(disk[i])] = Checksum
                        /\ \A a, b \in 1 .. Len(disk[i]) - 1 :
                              disk[i][a] # Checksum /\ (a # b => disk[i][a].key # disk[i][b].key)
    BY DEF PublishedIsWhole
  <2>2. i \in 1 .. Len(disk)
    BY <2>1 DEF IInv, TypeOK
  <2>3. Whole(disk[i])
    BY <2>1, <2>2 DEF IInv, FilesAreWhole
  <2>. QED  BY <2>3 DEF Whole, KeysDiffer
<1>. QED  BY <1>1, Invariant, PTL

\* A key that no client changed during a snapshot is in the file with its
\* value, or is absent from both.
THEOREM UntouchedKeysAreExact == Spec => []SnapshotIsExact
<1>1. IInv => SnapshotIsExact
  <2>1. SUFFICES ASSUME IInv, NEW g \in Callers, at[g] = "publish", NEW k \in Keys \ touched
                 PROVE  {temp[i].val : i \in {j \in DOMAIN temp : temp[j].key = k}} = {mem[k]} \ {None}
    BY DEF SnapshotIsExact
  <2>2. DOMAIN temp = 1 .. Len(temp)
    BY <2>1 DEF IInv, TypeOK
  <2>3. ValuesOf(temp, Len(temp), k) = {mem[k]} \ {None}
    BY <2>1 DEF IInv, TempFollows
  <2>. QED  BY <2>2, <2>3 DEF ValuesOf
<1>. QED  BY <1>1, Invariant, PTL

\* cleanOldSnapshots never removes the newest file.
THEOREM NewestIsKept == Spec => []NewestSurvives
<1>1. IInv => NewestSurvives
  BY DEF IInv
<1>. QED  BY <1>1, Invariant, PTL

\* A restore that has ended has brought back the newest file, but for the keys
\* clients changed meanwhile and those Set evicted, and Set evicts none if the
\* file fits in memory and clients change nothing.
THEOREM RestoreIsExact == Spec => []RestoredIsNewest
<1>1. IInv => RestoredIsNewest
  <2>1. \A k : FileValues(source, k) = ValuesOf(source, Len(source) - 1, k)
    BY DEF FileValues, ValuesOf
  <2>. QED  BY <2>1 DEF IInv, RestoreFollows, RestoredUpTo, RestoredIsNewest
<1>. QED  BY <1>1, Invariant, PTL
=============================================================================
