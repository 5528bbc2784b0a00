-------------------------- MODULE RetryQueueProofs --------------------------
(* Proofs about the retry queue, for every bound on items, loads, crashes  *)
(* and queue lengths.                                                      *)
EXTENDS RetryQueue, TLAPS

Sections ==
    [call : {"Add"}, item : Items, read : Seq(Items)]
        \cup [call : {"GetAll"}, item : {None}, read : Seq(Items)]
Loadings ==
    [left : SUBSET Names, name : {None}, item : {None}, read : {<<>>}]
        \cup [left : SUBSET Names, name : Names, item : Items, read : Seq(Items)]

TypeOK ==
    /\ items \in Seq(Items)
    /\ files \in [Names -> Items \cup {None}]
    /\ section \in Sections \cup {None}
    /\ loading \in Loadings
    /\ added \in 0 .. MaxItems
    /\ raced \in BOOLEAN

Seen == 1 .. added
Adding == section # None /\ section.call = "Add"

\* The queue and the caller's hands.
Held == Range(items) \cup retrying

\* Items in files, and items this process has had, were offered to Add.
Numbered ==
    /\ Saved \cup here \subseteq Seen
    /\ Adding => section.item \in Seen
    /\ Appending => loading.item \in Seen

\* Until LoadFromDisk's append and Add or GetAll overlap, each of them writes
\* back the items it read and its own, which the process has not had before -
\* LoadFromDisk's apart, which is then counted as read again - and what the
\* process has had it holds, or has finished with.
Undisturbed ==
    ~raced =>
        /\ Held \subseteq here
        /\ here \subseteq Held \cup delivered \cup deadFiles
        /\ section = None \/ ~Appending
        /\ section # None => section.read = items
        /\ Adding => section.item \notin here
        /\ Appending => /\ loading.read = items
                        /\ files[loading.name] = loading.item
                        /\ loading.item \in here => loading.item \in reread

IInv == TypeOK /\ Numbered /\ Undisturbed /\ OneHolder /\ Accounted

-----------------------------------------------------------------------------
(* Slices, files and numbers. *)

\* What a slice holds twice is in D.
DoublesIn(s, D) == \A a, b \in DOMAIN s : a # b /\ s[a] = s[b] => s[a] \in D

\* The empty slice.
LEMMA EmptyRange == \A S, D : <<>> \in Seq(S) /\ Range(<<>>) = {} /\ DoublesIn(<<>>, D)
  BY DEF Range, DoublesIn

\* What append adds to a slice, and what it doubles.
LEMMA AppendRange ==
    ASSUME NEW S, NEW s \in Seq(S), NEW e \in S, NEW D
    PROVE  /\ Append(s, e) \in Seq(S)
           /\ Range(Append(s, e)) = Range(s) \cup {e}
           /\ DoublesIn(s, D) /\ (e \in Range(s) => e \in D) => DoublesIn(Append(s, e), D)
<1>. DEFINE t == Append(s, e)
<1>1. /\ t \in Seq(S) /\ Len(s) \in Nat
      /\ DOMAIN s = 1 .. Len(s) /\ DOMAIN t = 1 .. Len(s) + 1
      /\ t[Len(s) + 1] = e /\ \A i \in 1 .. Len(s) : t[i] = s[i]
  OBVIOUS
<1>. HIDE DEF t
<1>2. 1 .. Len(s) + 1 = 1 .. Len(s) \cup {Len(s) + 1}
  BY <1>1
<1>3. Range(t) = Range(s) \cup {e}
  BY <1>1, <1>2 DEF Range
<1>4. ASSUME DoublesIn(s, D), e \in Range(s) => e \in D PROVE DoublesIn(t, D)
  BY <1>1, <1>2, <1>4 DEF Range, DoublesIn
<1>. QED  BY <1>1, <1>3, <1>4 DEF t

\* OneHolder in terms of DoublesIn.
LEMMA OneHolderDef ==
    /\ OneHolder <=> (~raced => DoublesIn(items, reread) /\ Range(items) \cap retrying \subseteq reread)
    /\ OneHolder' <=> (~raced' => DoublesIn(items', reread') /\ Range(items') \cap retrying' \subseteq reread')
  BY DEF OneHolder, DoublesIn

\* Writing and removing one file.
LEMMA FileChange ==
    ASSUME TypeOK, NEW n \in Names, NEW i \in Items \cup {None}, files' = [files EXCEPT ![n] = i]
    PROVE  /\ files' \in [Names -> Items \cup {None}]
           /\ Saved \ {files[n]} \subseteq Saved'
           /\ Saved' \subseteq Saved \cup ({i} \ {None})
           /\ i # None => i \in Saved'
           /\ None \notin Saved
<1>1. files \in [Names -> Items \cup {None}]
  BY DEF TypeOK
<1>2. files' \in [Names -> Items \cup {None}]
      /\ files'[n] = i /\ \A m \in Names : m # n => files'[m] = files[m]
  BY <1>1
<1>. QED  BY <1>1, <1>2 DEF Saved, Existing

\* Numbers of items offered so far.
LEMMA SeenGrows == ASSUME TypeOK, added' = added + 1, added < MaxItems
                   PROVE  /\ added' \in 0 .. MaxItems /\ added' \in Items
                          /\ Seen' = Seen \cup {added'} /\ added' \notin Seen
<1>1. added \in Nat /\ MaxItems \in Nat
  BY BoundsAssumption DEF TypeOK
<1>2. added' \in 0 .. MaxItems /\ added' \in Items
  BY <1>1 DEF Items
<1>3. Seen' = Seen \cup {added'} /\ added' \notin Seen
  BY <1>1 DEF Seen
<1>. QED  BY <1>2, <1>3

\* NewRetryQueue: nothing anywhere.
LEMMA InitIInv == Init => IInv
<1>. SUFFICES ASSUME Init PROVE IInv
  OBVIOUS
<1>1. items = <<>> /\ Range(items) = {} /\ DoublesIn(items, reread)
  BY EmptyRange DEF Init
<1>2. loading \in Loadings /\ ~Appending
  BY DEF Init, Loadings, NotLoading, Appending
<1>3. added \in 0 .. MaxItems
  BY BoundsAssumption DEF Init
<1>4. items \in Seq(Items)
  BY <1>1, EmptyRange
<1>5. TypeOK
  BY <1>2, <1>3, <1>4 DEF Init, TypeOK
<1>6. Saved = {}
  BY DEF Init, Saved, Existing
<1>7. Numbered
  BY <1>2, <1>6 DEF Init, Numbered, Adding
<1>8. Undisturbed /\ Accounted
  BY <1>1, <1>2 DEF Init, Adding, Undisturbed, Held, Accounted
<1>9. OneHolder
  BY <1>1, OneHolderDef DEF Init
<1>. QED  BY <1>5, <1>7, <1>8, <1>9 DEF IInv

-----------------------------------------------------------------------------
(* Add and GetAll. *)

\* Add takes the mutex with a number nobody has seen.
LEMMA AddReadKeepsIInv == ASSUME IInv, AddRead PROVE IInv'
<1>1. /\ section = None /\ added < MaxItems /\ added' = added + 1
      /\ section' = IF Full THEN None ELSE [call |-> "Add", item |-> added', read |-> items]
      /\ raced' = (raced \/ Appending)
      /\ UNCHANGED <<items, files, loading, retrying, delivered, deadFiles,
                     accepted, displaced, gone, here, reread>>
  BY DEF AddRead, outside, history
<1>2. TypeOK
  BY DEF IInv
<1>3. added' \in 0 .. MaxItems /\ added' \in Items /\ Seen' = Seen \cup {added'} /\ added' \notin Seen
  BY <1>1, <1>2, SeenGrows
<1>4. section' \in Sections \cup {None}
      /\ (section' # None => section'.call = "Add" /\ section'.item = added' /\ section'.read = items)
  BY <1>1, <1>2, <1>3 DEF TypeOK, Sections
<1>5. TypeOK'
  BY <1>1, <1>2, <1>3, <1>4 DEF TypeOK, Loadings, Appending
<1>6. Held' = Held /\ Appending' = Appending /\ Saved' = Saved
  BY <1>1 DEF Held, Appending, Saved, Existing
<1>7. Numbered'
  BY <1>1, <1>3, <1>4, <1>6 DEF IInv, Numbered, Adding
<1>8. Undisturbed'
  BY <1>1, <1>3, <1>4, <1>6 DEF IInv, Numbered, Undisturbed, Adding
<1>9. OneHolder' /\ Accounted'
  BY <1>1, <1>6 DEF IInv, OneHolder, Accounted
<1>. QED  BY <1>5, <1>7, <1>8, <1>9 DEF IInv

\* Add appends its item to what it read, and leaves a file, a file in another
\* one's place, or none.
LEMMA AddWriteKeepsIInv == ASSUME IInv, AddWrite PROVE IInv'
<1>. DEFINE i == section.item
<1>1. /\ Adding /\ section' = None
      /\ items' = Append(section.read, i)
      /\ accepted' = accepted \cup {i} /\ here' = here \cup {i}
      /\ Persist(i)
      /\ UNCHANGED <<loading, retrying, delivered, deadFiles, added, gone, reread, raced>>
  BY DEF AddWrite, Adding, outside, bounds
<1>2. TypeOK /\ i \in Items /\ section.read \in Seq(Items) /\ i \in Seen
  BY <1>1 DEF IInv, TypeOK, Sections, Adding, Numbered
<1>. HIDE DEF i
<1>3. items' \in Seq(Items) /\ Range(items') = Range(section.read) \cup {i}
      /\ (DoublesIn(section.read, reread) /\ (i \in Range(section.read) => i \in reread)
             => DoublesIn(items', reread))
  BY <1>1, <1>2, AppendRange
<1>4. /\ files' \in [Names -> Items \cup {None}] /\ Saved' \subseteq Saved \cup {i}
      /\ displaced \subseteq displaced' /\ Saved \subseteq Saved' \cup displaced'
  <2>1. CASE UNCHANGED <<files, displaced>>
    BY <1>2, <2>1 DEF TypeOK, Saved, Existing
  <2>2. ASSUME NEW n \in {i} \cup Existing,
               files' = [files EXCEPT ![n] = i],
               displaced' = displaced \cup ({files[n]} \ {None})
        PROVE  <1>4
    <3>1. n \in Names
      BY <1>2, <2>2 DEF Existing, Names
    <3>. QED  BY <1>2, <2>2, <3>1, FileChange
  <2>. QED  BY <1>1, <2>1, <2>2 DEF Persist
<1>5. TypeOK'
  BY <1>1, <1>2, <1>3, <1>4 DEF TypeOK
<1>6. ~Adding' /\ Appending' = Appending /\ Seen' = Seen
  BY <1>1 DEF Adding, Appending, Seen
<1>7. Numbered'
  BY <1>1, <1>2, <1>4, <1>6 DEF IInv, Numbered
<1>8. ASSUME ~raced
      PROVE  /\ section.read = items /\ i \notin here /\ ~Appending
             /\ Held \subseteq here /\ here \subseteq Held \cup delivered \cup deadFiles
             /\ Held' = Held \cup {i}
             /\ DoublesIn(items, reread) /\ Range(items) \cap retrying \subseteq reread
             /\ accepted \ (delivered \cup gone \cup (displaced \ here)) \subseteq Held \cup Saved \cup deadFiles
  <2>1. section.read = items /\ i \notin here /\ ~Appending
        /\ Held \subseteq here /\ here \subseteq Held \cup delivered \cup deadFiles
    BY <1>1, <1>8 DEF IInv, Undisturbed, Adding, i
  <2>2. Held' = Held \cup {i}
    BY <1>1, <1>3, <2>1 DEF Held
  <2>3. DoublesIn(items, reread) /\ Range(items) \cap retrying \subseteq reread
    BY <1>8, OneHolderDef DEF IInv
  <2>4. accepted \ (delivered \cup gone \cup (displaced \ here)) \subseteq Held \cup Saved \cup deadFiles
    BY <1>8 DEF IInv, Accounted, Held
  <2>. QED  BY <2>1, <2>2, <2>3, <2>4
<1>9. Undisturbed'
  BY <1>1, <1>6, <1>8 DEF Undisturbed
<1>10. OneHolder'
  <2>1. SUFFICES ASSUME ~raced PROVE DoublesIn(items', reread) /\ Range(items') \cap retrying \subseteq reread
    BY <1>1, OneHolderDef
  <2>2. i \notin Range(items) /\ i \notin retrying
    BY <1>8, <2>1 DEF Held
  <2>. QED  BY <1>3, <1>8, <2>1, <2>2
<1>11. Accounted'
  <2>1. SUFFICES ASSUME ~raced
                 PROVE  accepted' \ (delivered \cup gone \cup (displaced' \ here'))
                            \subseteq Held' \cup Saved' \cup deadFiles
    BY <1>1 DEF Accounted, Held
  <2>. QED  BY <1>1, <1>4, <1>8, <2>1
<1>. QED  BY <1>5, <1>7, <1>9, <1>10, <1>11 DEF IInv

\* GetAll takes the mutex.
LEMMA GetAllReadKeepsIInv == ASSUME IInv, GetAllRead PROVE IInv'
<1>1. /\ section = None
      /\ section' = [call |-> "GetAll", item |-> None, read |-> items]
      /\ raced' = (raced \/ Appending)
      /\ UNCHANGED <<items, files, loading, retrying, delivered, deadFiles, added,
                     accepted, displaced, gone, here, reread>>
  BY DEF GetAllRead, outside, bounds, history
<1>2. TypeOK
  BY DEF IInv
<1>3. section' \in Sections /\ section'.call = "GetAll" /\ section'.read = items
  BY <1>1, <1>2 DEF TypeOK, Sections
<1>4. TypeOK'
  BY <1>1, <1>2, <1>3 DEF TypeOK, Appending
<1>5. ~Adding' /\ Held' = Held /\ Appending' = Appending /\ Seen' = Seen /\ Saved' = Saved
  BY <1>1, <1>3 DEF Adding, Held, Appending, Seen, Saved, Existing
<1>6. Numbered' /\ Undisturbed'
  BY <1>1, <1>3, <1>5 DEF IInv, Numbered, Undisturbed
<1>7. OneHolder' /\ Accounted'
  BY <1>1, <1>5 DEF IInv, OneHolder, Accounted
<1>. QED  BY <1>4, <1>6, <1>7 DEF IInv

\* GetAll hands the items over.
LEMMA GetAllWriteKeepsIInv == ASSUME IInv, GetAllWrite PROVE IInv'
<1>1. /\ section # None /\ section' = None
      /\ retrying' = retrying \cup Range(section.read) /\ items' = <<>>
      /\ UNCHANGED <<files, loading, delivered, deadFiles, added,
                     accepted, displaced, gone, here, reread, raced>>
  BY DEF GetAllWrite, bounds, history
<1>2. items' \in Seq(Items) /\ Range(items') = {} /\ DoublesIn(items', reread)
  BY <1>1, EmptyRange
<1>3. TypeOK'
  BY <1>1, <1>2 DEF IInv, TypeOK
<1>4. ~Adding' /\ Appending' = Appending /\ Seen' = Seen /\ Saved' = Saved
  BY <1>1 DEF Adding, Appending, Seen, Saved, Existing
<1>5. Numbered'
  BY <1>1, <1>4 DEF IInv, Numbered
<1>6. ASSUME ~raced
      PROVE  section.read = items /\ ~Appending /\ Held' = Held
  BY <1>1, <1>2, <1>6 DEF IInv, Undisturbed, Held
<1>7. Undisturbed'
  BY <1>1, <1>4, <1>6 DEF IInv, Undisturbed
<1>8. OneHolder'
  BY <1>1, <1>2, OneHolderDef
<1>9. Accounted'
  BY <1>1, <1>2, <1>4, <1>6 DEF IInv, Accounted, Held
<1>. QED  BY <1>3, <1>5, <1>7, <1>8, <1>9 DEF IInv

-----------------------------------------------------------------------------
(* LoadFromDisk. *)

\* The Glob, and a file that cannot be read: only the names left change.
LEMMA LoadListKeepsIInv ==
    ASSUME IInv, LoadFromDisk \/ \E n \in Names : LoadFails(n) PROVE IInv'
<1>1. PICK L \in SUBSET Names :
        /\ ~Appending /\ loading' = [loading EXCEPT !.left = L]
        /\ UNCHANGED <<items, files, section, retrying, delivered, deadFiles, added,
                       accepted, displaced, gone, here, reread, raced>>
  <2>1. loading.left \in SUBSET Names
    BY DEF IInv, TypeOK, Loadings
  <2>2. CASE LoadFromDisk
    BY <2>2 DEF LoadFromDisk, NotLoading, Appending, Existing, outside, history
  <2>3. CASE \E n \in Names : LoadFails(n)
    <3>1. PICK n \in Names : LoadFails(n)
      BY <2>3
    <3>2. loading.left \ {n} \in SUBSET Names
      BY <2>1
    <3>. QED  BY <3>1, <3>2 DEF LoadFails, outside, bounds, history
  <2>. QED  BY <2>2, <2>3
<1>2. TypeOK
  BY DEF IInv
<1>3. loading' \in Loadings /\ loading'.item = loading.item
  BY <1>1, <1>2 DEF TypeOK, Loadings
<1>4. TypeOK'
  BY <1>1, <1>2, <1>3 DEF TypeOK
<1>5. Held' = Held /\ Adding' = Adding /\ Seen' = Seen /\ ~Appending' /\ Saved' = Saved
  BY <1>1, <1>3 DEF Held, Adding, Seen, Appending, Saved, Existing
<1>6. Numbered' /\ Undisturbed'
  BY <1>1, <1>5 DEF IInv, Numbered, Undisturbed
<1>7. OneHolder' /\ Accounted'
  BY <1>1, <1>5 DEF IInv, OneHolder, Accounted
<1>. QED  BY <1>4, <1>6, <1>7 DEF IInv

\* It reads a file, and the slice it will append to.
LEMMA LoadReadKeepsIInv == ASSUME IInv, NEW n \in Names, LoadRead(n) PROVE IInv'
<1>1. /\ n \in Existing /\ ~Appending
      /\ loading' = [left |-> loading.left \ {n}, name |-> n, item |-> files[n], read |-> items]
      /\ reread' = reread \cup ({files[n]} \cap here)
      /\ raced' = (raced \/ section # None)
      /\ UNCHANGED <<items, files, section, retrying, delivered, deadFiles, added,
                     accepted, displaced, gone, here>>
  BY DEF LoadRead, outside, bounds
<1>2. TypeOK /\ files[n] \in Items /\ files[n] \in Seen
  BY <1>1 DEF IInv, TypeOK, Numbered, Saved, Existing
<1>3. loading' \in Loadings /\ loading'.name = n /\ loading'.item = files[n] /\ loading'.read = items
  BY <1>1, <1>2 DEF TypeOK, Loadings
<1>4. TypeOK'
  BY <1>1, <1>2, <1>3 DEF TypeOK
<1>5. Held' = Held /\ Adding' = Adding /\ Seen' = Seen /\ Saved' = Saved
  BY <1>1 DEF Held, Adding, Seen, Saved, Existing
<1>6. Numbered'
  BY <1>1, <1>2, <1>3, <1>5 DEF IInv, Numbered
<1>7. Undisturbed'
  BY <1>1, <1>3, <1>5 DEF IInv, Undisturbed, Adding
<1>8. OneHolder'
  BY <1>1 DEF IInv, OneHolder
<1>9. Accounted'
  BY <1>1, <1>5 DEF IInv, Accounted
<1>. QED  BY <1>4, <1>6, <1>7, <1>8, <1>9 DEF IInv

\* The item is in the queue before its file goes, if it goes.
LEMMA LoadWriteKeepsIInv == ASSUME IInv, LoadWrite PROVE IInv'
<1>. DEFINE i == loading.item  n == loading.name
<1>1. /\ Appending
      /\ items' = Append(loading.read, i)
      /\ Remove(n, i) /\ here' = here \cup {i}
      /\ loading' = [NotLoading EXCEPT !.left = loading.left]
      /\ UNCHANGED <<section, retrying, delivered, deadFiles, added, accepted, gone, reread, raced>>
  BY DEF LoadWrite, outside, bounds
<1>2. TypeOK /\ i \in Items /\ n \in Names /\ loading.read \in Seq(Items) /\ loading.left \subseteq Names
      /\ i \in Seen
  BY <1>1 DEF IInv, TypeOK, Loadings, Appending, Numbered
<1>3. ASSUME ~raced
      PROVE  /\ loading.read = items /\ files[n] = i /\ (i \in here => i \in reread)
             /\ section = None
             /\ Held \subseteq here /\ here \subseteq Held \cup delivered \cup deadFiles
  BY <1>1, <1>3 DEF IInv, Undisturbed
<1>. HIDE DEF i, n
<1>4. items' \in Seq(Items) /\ Range(items') = Range(loading.read) \cup {i}
      /\ (DoublesIn(loading.read, reread) /\ (i \in Range(loading.read) => i \in reread)
             => DoublesIn(items', reread))
  BY <1>1, <1>2, AppendRange
<1>5. loading' \in Loadings /\ loading'.item = None
  BY <1>1, <1>2 DEF Loadings, NotLoading
<1>6. /\ files' \in [Names -> Items \cup {None}] /\ Saved' \subseteq Saved
      /\ ~raced => Saved \subseteq Saved' \cup {i} /\ displaced' = displaced
  <2>1. CASE UNCHANGED <<files, reloaded, displaced>>
    BY <1>2, <2>1 DEF TypeOK, Saved, Existing
  <2>2. CASE files' = [files EXCEPT ![n] = None] /\ displaced' = displaced \cup ({files[n]} \ {i})
    BY <1>2, <1>3, <2>2, FileChange
  <2>. QED  BY <1>1, <2>1, <2>2 DEF Remove
<1>7. TypeOK'
  BY <1>1, <1>2, <1>4, <1>5, <1>6 DEF TypeOK
<1>8. Adding' = Adding /\ ~Appending' /\ Seen' = Seen
  BY <1>1, <1>5 DEF Adding, Appending, Seen
<1>9. Numbered'
  BY <1>1, <1>2, <1>6, <1>8 DEF IInv, Numbered
<1>10. ASSUME ~raced PROVE Held' = Held \cup {i}
  BY <1>1, <1>3, <1>4, <1>10 DEF Held
<1>11. Undisturbed'
  BY <1>1, <1>3, <1>8, <1>10 DEF Undisturbed, Adding
<1>12. OneHolder'
  <2>1. SUFFICES ASSUME ~raced PROVE DoublesIn(items', reread) /\ Range(items') \cap retrying \subseteq reread
    BY <1>1, OneHolderDef
  <2>2. i \in Range(items) \cup retrying => i \in reread
    BY <1>3, <2>1 DEF Held
  <2>3. DoublesIn(items, reread) /\ Range(items) \cap retrying \subseteq reread
    BY <2>1, OneHolderDef DEF IInv
  <2>. QED  BY <1>3, <1>4, <2>1, <2>2, <2>3
<1>13. Accounted'
  <2>1. SUFFICES ASSUME ~raced
                 PROVE  accepted \ (delivered \cup gone \cup (displaced \ here'))
                            \subseteq Held' \cup Saved' \cup deadFiles
    BY <1>1, <1>6 DEF Accounted, Held
  <2>2. accepted \ (delivered \cup gone \cup (displaced \ here)) \subseteq Held \cup Saved \cup deadFiles
    BY <2>1 DEF IInv, Accounted, Held
  <2>. QED  BY <1>1, <1>6, <1>10, <2>1, <2>2
<1>. QED  BY <1>7, <1>9, <1>11, <1>12, <1>13 DEF IInv

-----------------------------------------------------------------------------
(* The caller, and crashes. *)

\* An item leaves the caller's hands delivered, or with a dead letter's file.
LEMMA CallerKeepsIInv ==
    ASSUME IInv, Exhume \/ \E i \in Items : Retried(i) \/ Bury(i) PROVE IInv'
<1>1. /\ UNCHANGED <<items, files, section, loading, added,
                     accepted, displaced, gone, here, reread, raced>>
      /\ retrying' \subseteq retrying
  BY DEF Exhume, Retried, Bury, queue, bounds, history
<1>2. retrying \cup delivered \cup deadFiles \subseteq retrying' \cup delivered' \cup deadFiles'
      /\ delivered \subseteq delivered' /\ deadFiles \subseteq deadFiles'
  BY DEF Exhume, Retried, Bury
<1>3. TypeOK'
  BY <1>1 DEF IInv, TypeOK
<1>4. Adding' = Adding /\ Appending' = Appending /\ Seen' = Seen /\ Saved' = Saved
  BY <1>1 DEF Adding, Appending, Seen, Saved, Existing
<1>5. Numbered'
  BY <1>1, <1>4 DEF IInv, Numbered
<1>6. Held' \subseteq Held /\ Held \subseteq Held' \cup delivered' \cup deadFiles'
  BY <1>1, <1>2 DEF Held
<1>7. Undisturbed'
  BY <1>1, <1>2, <1>4, <1>6 DEF IInv, Undisturbed
<1>8. OneHolder'
  BY <1>1 DEF IInv, OneHolder
<1>9. Accounted'
  BY <1>1, <1>2, <1>4 DEF IInv, Accounted
<1>. QED  BY <1>3, <1>5, <1>7, <1>8, <1>9 DEF IInv

\* The next process begins with the files.
LEMMA CrashKeepsIInv == ASSUME IInv, Crash PROVE IInv'
<1>1. /\ items' = <<>> /\ section' = None /\ retrying' = {} /\ raced' = FALSE
      /\ loading' = NotLoading /\ here' = {} /\ reread' = {}
      /\ gone' = gone \cup (accepted \ (Saved \cup delivered \cup deadFiles))
      /\ UNCHANGED <<files, delivered, deadFiles, added, accepted, displaced>>
  BY DEF Crash
<1>2. items' \in Seq(Items) /\ Range(items') = {} /\ DoublesIn(items', reread')
  BY <1>1, EmptyRange
<1>3. loading' \in Loadings /\ ~Appending'
  BY <1>1 DEF Loadings, NotLoading, Appending
<1>4. TypeOK'
  BY <1>1, <1>2, <1>3 DEF IInv, TypeOK
<1>5. ~Adding' /\ Seen' = Seen /\ Saved' = Saved
  BY <1>1 DEF Adding, Seen, Saved, Existing
<1>6. Numbered'
  BY <1>1, <1>3, <1>5 DEF IInv, Numbered
<1>7. Undisturbed'
  BY <1>1, <1>2, <1>3, <1>5 DEF Undisturbed, Held
<1>8. OneHolder'
  BY <1>1, <1>2, OneHolderDef
<1>9. Accounted'
  BY <1>1, <1>5 DEF Accounted
<1>. QED  BY <1>4, <1>6, <1>7, <1>8, <1>9 DEF IInv

-----------------------------------------------------------------------------
(* The theorems. *)

\* Every step of the queues, LoadFromDisk, the caller and a crash.
LEMMA NextKeepsIInv == IInv /\ [Next]_vars => IInv'
<1>. SUFFICES ASSUME IInv, [Next]_vars PROVE IInv'
  OBVIOUS
<1>1. CASE AddRead \/ AddWrite \/ GetAllRead \/ GetAllWrite
  BY <1>1, AddReadKeepsIInv, AddWriteKeepsIInv, GetAllReadKeepsIInv, GetAllWriteKeepsIInv
<1>2. CASE LoadFromDisk \/ LoadWrite \/ \E n \in Names : LoadRead(n) \/ LoadFails(n)
  BY <1>2, LoadListKeepsIInv, LoadWriteKeepsIInv, LoadReadKeepsIInv
<1>3. CASE Exhume \/ \E i \in Items : Retried(i) \/ Bury(i)
  BY <1>3, CallerKeepsIInv
<1>4. CASE Crash
  BY <1>4, CrashKeepsIInv
<1>5. CASE UNCHANGED vars
  BY <1>5 DEF vars, queue, outside, bounds, history, IInv, TypeOK, Numbered, Undisturbed,
              OneHolder, Accounted, Adding, Appending, Seen, Held, Saved, Existing
<1>. QED  BY <1>1, <1>2, <1>3, <1>4, <1>5 DEF Next

\* The inductive invariant of the retry queue.
THEOREM Invariant == Spec => []IInv
<1>. QED  BY InitIInv, NextKeepsIInv, PTL DEF Spec

\* Within a process Add, GetAll and LoadFromDisk leave an item in one place,
\* once, unless LoadFromDisk read its file when the process had it already, or
\* LoadFromDisk's unlocked append was overlapped.
THEOREM HeldOnce == Spec => []OneHolder
<1>1. IInv => OneHolder
  BY DEF IInv
<1>. QED  BY <1>1, Invariant, PTL

\* An accepted item that had a file in every crash, and kept it until it was
\* loaded, is somewhere until it is delivered, unless LoadFromDisk's unlocked
\* append was overlapped.
THEOREM NothingVanishes == Spec => []Accounted
<1>1. IInv => Accounted
  BY DEF IInv
<1>. QED  BY <1>1, Invariant, PTL

\* Only LoadFromDisk removes the file of an item, and only an item whose file
\* gets the same name replaces it, whatever overlaps and whenever the process
\* crashes.
THEOREM FilesSurvive == Spec => []SurvivesCrash
<1>1. Init => SurvivesCrash
  BY DEF Init, SurvivesCrash
<1>2. IInv /\ SurvivesCrash /\ [Next]_vars => SurvivesCrash'
  <2>. SUFFICES ASSUME IInv, SurvivesCrash, [Next]_vars PROVE SurvivesCrash'
    OBVIOUS
  <2>1. CASE AddWrite
    <3>. DEFINE i == section.item
    <3>1. i \in Items /\ TypeOK
      BY <2>1 DEF IInv, TypeOK, Sections, AddWrite
    <3>2. accepted' = accepted \cup {i} /\ Persist(i) /\ UNCHANGED reloaded
      BY <2>1 DEF AddWrite
    <3>. HIDE DEF i
    <3>3. CASE unsaved' = unsaved \cup {i} /\ UNCHANGED <<files, displaced>>
      BY <3>2, <3>3 DEF SurvivesCrash, Saved, Existing
    <3>4. ASSUME NEW n \in {i} \cup Existing, files' = [files EXCEPT ![n] = i],
                 displaced' = displaced \cup ({files[n]} \ {None}), UNCHANGED unsaved
          PROVE  SurvivesCrash'
      <4>1. n \in Names /\ i # None
        BY <3>1, <3>4, NoneAssumption DEF Existing, Names
      <4>2. Saved \ {files[n]} \subseteq Saved' /\ i \in Saved' /\ None \notin Saved
        BY <3>1, <3>4, <4>1, FileChange
      <4>. QED  BY <3>2, <3>4, <4>2 DEF SurvivesCrash
    <3>. QED  BY <3>2, <3>3, <3>4 DEF Persist
  <2>2. CASE LoadWrite
    <3>. DEFINE i == loading.item  n == loading.name
    <3>1. n \in Names /\ TypeOK
      BY <2>2 DEF IInv, TypeOK, Loadings, LoadWrite, Appending
    <3>2. Remove(n, i) /\ UNCHANGED <<accepted, unsaved>>
      BY <2>2 DEF LoadWrite
    <3>. HIDE DEF i, n
    <3>3. CASE UNCHANGED <<files, reloaded, displaced>>
      BY <3>2, <3>3 DEF SurvivesCrash, Saved, Existing
    <3>4. CASE files' = [files EXCEPT ![n] = None] /\ reloaded' = reloaded \cup {i}
               /\ displaced' = displaced \cup ({files[n]} \ {i})
      <4>1. Saved \ {files[n]} \subseteq Saved'
        BY <3>1, <3>4, FileChange
      <4>. QED  BY <3>2, <3>4, <4>1 DEF SurvivesCrash
    <3>. QED  BY <3>2, <3>3, <3>4 DEF Remove
  <2>3. CASE AddRead \/ GetAllRead \/ GetAllWrite \/ LoadFromDisk \/ Exhume \/ Crash \/ UNCHANGED vars
    BY <2>3 DEF AddRead, GetAllRead, GetAllWrite, LoadFromDisk, Exhume, Crash, vars, queue, outside,
                history, SurvivesCrash, Saved, Existing
  <2>4. ASSUME NEW i \in Items, Retried(i) \/ Bury(i) PROVE SurvivesCrash'
    BY <2>4 DEF Retried, Bury, queue, history, SurvivesCrash, Saved, Existing
  <2>5. ASSUME NEW n \in Names, LoadRead(n) \/ LoadFails(n) PROVE SurvivesCrash'
    BY <2>5 DEF LoadRead, LoadFails, history, SurvivesCrash, Saved, Existing
  <2>. QED  BY <2>1, <2>2, <2>3, <2>4, <2>5 DEF Next
<1>. QED  BY <1>1, <1>2, Invariant, PTL DEF Spec
=============================================================================
