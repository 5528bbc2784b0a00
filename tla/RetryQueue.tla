----------------------------- MODULE RetryQueue -----------------------------
(***************************************************************************)
(* The retry queue and the dead letter queue of L2 (pkg/l2/retry.go).      *)
(* RetryQueue: Add and GetAll under the mutex, one file per added item;    *)
(* LoadFromDisk, which may be called at any time, lists the files first    *)
(* and then reads, appends and removes them one by one, all without the    *)
(* mutex; and crashes.  DeadLetterQueue: Add and GetAll, whose files       *)
(* nothing reads.                                                          *)
(*                                                                         *)
(* Items are numbers.  A file is named after the wall clock, which may     *)
(* show the same time twice: an Add takes a new name, written as its       *)
(* item's number, or that of a file that is there.  The caller (external;  *)
(* nothing in the repository uses the queues) calls LoadFromDisk once at a *)
(* time, and works on the items GetAll gave it until each is delivered or  *)
(* a dead letter.  The slice of items is read and written back in two      *)
(* steps, since LoadFromDisk may come in between; a torn slice header,     *)
(* which Go does not exclude, is not modelled.                             *)
(***************************************************************************)
EXTENDS Integers, Sequences, FiniteSets, Functions

CONSTANTS
    MaxItems,   \* bound: items ever added
    MaxSize,    \* maxSize of the retry queue; 0 for no limit
    MaxDead,    \* maxSize of the dead letter queue; 0 for no limit
    MaxLoads,   \* bound: calls of LoadFromDisk
    MaxCrashes, \* bound: crashes
    None

ASSUME BoundsAssumption == {MaxItems, MaxSize, MaxDead, MaxLoads, MaxCrashes} \subseteq Nat

Items == 1 .. MaxItems
Names == Items

ASSUME NoneAssumption == None \notin Items

VARIABLES
    items,      \* the retry queue in memory
    files,      \* files[n]: the item in the file of that name, or None
    section,    \* the call that holds the mutex, with the items it has read
    loading,    \* LoadFromDisk: the names left, and the item it is appending
    retrying,   \* items in the caller's hands
    delivered,  \* items whose retry succeeded
    dead,       \* the dead letter queue in memory
    deadFiles,
    added,      \* items offered to Add so far
    loads,
    crashes,
    accepted,   \* history: items Add returned no error for
    unsaved,    \* history: items whose file could not be written
    displaced,  \* history: items that lost their file because of its name
    reloaded,   \* history: items whose file LoadFromDisk has removed
    gone,       \* history: items that had no file when the process crashed
    here,       \* history: items this process has added or loaded
    reread,     \* history: items LoadFromDisk read although they were here
    raced       \* history: LoadFromDisk's append overlapped Add or GetAll

queue == <<items, files, section, loading>>
outside == <<retrying, delivered, dead, deadFiles>>
bounds == <<added, loads, crashes>>
history == <<accepted, unsaved, displaced, reloaded, gone, here, reread>>
vars == <<queue, outside, bounds, history, raced>>

NotLoading == [left |-> {}, name |-> None, item |-> None, read |-> <<>>]
Appending == loading.item # None

Existing == {n \in Names : files[n] # None}
Saved == {files[n] : n \in Existing}

Init ==
    /\ items = <<>>
    /\ files = [n \in Names |-> None]
    /\ section = None
    /\ loading = NotLoading
    /\ retrying = {} /\ delivered = {}
    /\ dead = <<>> /\ deadFiles = {}
    /\ added = 0 /\ loads = 0 /\ crashes = 0
    /\ accepted = {} /\ unsaved = {} /\ displaced = {} /\ reloaded = {} /\ gone = {}
    /\ here = {} /\ reread = {}
    /\ raced = FALSE

Full == MaxSize > 0 /\ Len(items) >= MaxSize
DeadFull == MaxDead > 0 /\ Len(dead) >= MaxDead

-----------------------------------------------------------------------------
(* Add and GetAll. *)

AddRead ==
    /\ section = None
    /\ added < MaxItems
    /\ added' = added + 1
    /\ section' = IF Full THEN None ELSE [call |-> "Add", item |-> added', read |-> items]
    /\ raced' = (raced \/ Appending)
    /\ UNCHANGED <<items, files, loading, outside, loads, crashes, history>>

\* persistToDisk, whose error is dropped; a file of the same name is replaced.
Persist(i) ==
    \/ \E n \in {i} \cup Existing :
          /\ files' = [files EXCEPT ![n] = i]
          /\ displaced' = displaced \cup ({files[n]} \ {None})
          /\ UNCHANGED unsaved
    \/ unsaved' = unsaved \cup {i} /\ UNCHANGED <<files, displaced>>

AddWrite ==
    /\ section # None /\ section.call = "Add"
    /\ items' = Append(section.read, section.item)
    /\ accepted' = accepted \cup {section.item}
    /\ here' = here \cup {section.item}
    /\ Persist(section.item)
    /\ section' = None
    /\ UNCHANGED <<loading, outside, bounds, reloaded, gone, reread, raced>>

GetAllRead ==
    /\ section = None
    /\ items # <<>>
    /\ section' = [call |-> "GetAll", item |-> None, read |-> items]
    /\ raced' = (raced \/ Appending)
    /\ UNCHANGED <<items, files, loading, outside, bounds, history>>

\* Mutant: the queue is not emptied.
GetAllKeepsItems ==
    /\ section # None /\ section.call = "GetAll"
    /\ retrying' = retrying \cup Range(section.read)
    /\ section' = None
    /\ UNCHANGED <<items, files, loading, delivered, dead, deadFiles, bounds, history, raced>>

\* Mutant: the files are removed together with the items in memory.
GetAllRemovesFiles ==
    /\ section # None /\ section.call = "GetAll"
    /\ retrying' = retrying \cup Range(section.read)
    /\ items' = <<>>
    /\ files' = [n \in Names |-> IF files[n] \in Range(section.read) THEN None ELSE files[n]]
    /\ section' = None
    /\ UNCHANGED <<loading, delivered, dead, deadFiles, bounds, history, raced>>

\* The queue is emptied, and the files stay.
GetAllWrite ==
    /\ section # None /\ section.call = "GetAll"
    /\ retrying' = retrying \cup Range(section.read)
    /\ items' = <<>>
    /\ section' = None
    /\ UNCHANGED <<files, loading, delivered, dead, deadFiles, bounds, history, raced>>

-----------------------------------------------------------------------------
(* LoadFromDisk, one file at a time. *)

\* The Glob.
LoadFromDisk ==
    /\ loads < MaxLoads
    /\ loading = NotLoading
    /\ loads' = loads + 1
    /\ loading' = [loading EXCEPT !.left = Existing]
    /\ UNCHANGED <<items, files, section, outside, added, crashes, history, raced>>

LoadRead(n) ==
    /\ n \in loading.left \cap Existing /\ ~Appending
    /\ loading' = [left |-> loading.left \ {n}, name |-> n, item |-> files[n], read |-> items]
    /\ reread' = reread \cup ({files[n]} \cap here)
    /\ raced' = (raced \/ section # None)
    /\ UNCHANGED <<items, files, section, outside, bounds, accepted, unsaved, displaced, reloaded, gone, here>>

\* A file that cannot be read stays.
LoadFails(n) ==
    /\ n \in loading.left /\ ~Appending
    /\ loading' = [loading EXCEPT !.left = @ \ {n}]
    /\ UNCHANGED <<items, files, section, outside, bounds, history, raced>>

\* os.Remove, whose error is dropped; an Add may have replaced the file since
\* it was read.
Remove(n, i) ==
    \/ /\ files' = [files EXCEPT ![n] = None]
       /\ reloaded' = reloaded \cup {i}
       /\ displaced' = displaced \cup ({files[n]} \ {i})
    \/ UNCHANGED <<files, reloaded, displaced>>

\* Mutant: a full queue drops the item, and its file is removed all the same.
LoadDropsIfFull ==
    /\ Appending
    /\ items' = IF Full THEN items ELSE Append(loading.read, loading.item)
    /\ Remove(loading.name, loading.item)
    /\ here' = here \cup {loading.item}
    /\ loading' = [NotLoading EXCEPT !.left = loading.left]
    /\ UNCHANGED <<section, outside, bounds, accepted, unsaved, gone, reread, raced>>

\* The append - the size limit is not looked at - and the removal.
LoadWrite ==
    /\ Appending
    /\ items' = Append(loading.read, loading.item)
    /\ Remove(loading.name, loading.item)
    /\ here' = here \cup {loading.item}
    /\ loading' = [NotLoading EXCEPT !.left = loading.left]
    /\ UNCHANGED <<section, outside, bounds, accepted, unsaved, gone, reread, raced>>

-----------------------------------------------------------------------------
(* The caller and the dead letter queue. *)

\* The retry of one item succeeds.
Retried(i) ==
    /\ i \in retrying
    /\ retrying' = retrying \ {i}
    /\ delivered' = delivered \cup {i}
    /\ UNCHANGED <<queue, dead, deadFiles, bounds, history, raced>>

\* DeadLetterQueue.Add.  A full queue and a file that cannot be written are
\* errors, on which the caller keeps the item; but in the second case the
\* queue has it as well.
Bury(i) ==
    /\ i \in retrying
    /\ ~DeadFull
    /\ dead' = Append(dead, i)
    /\ \/ deadFiles' = deadFiles \cup {i} /\ retrying' = retrying \ {i}
       \/ UNCHANGED <<deadFiles, retrying>>
    /\ UNCHANGED <<queue, delivered, bounds, history, raced>>

\* DeadLetterQueue.GetAll.
Exhume ==
    /\ dead # <<>>
    /\ dead' = <<>>
    /\ UNCHANGED <<queue, retrying, delivered, deadFiles, bounds, history, raced>>

\* The process ends and the next one starts.
Crash ==
    /\ crashes < MaxCrashes
    /\ crashes' = crashes + 1
    /\ items' = <<>>
    /\ section' = None
    /\ loading' = NotLoading
    /\ retrying' = {}
    /\ dead' = <<>>
    /\ gone' = gone \cup (accepted \ (Saved \cup delivered \cup deadFiles))
    /\ here' = {} /\ reread' = {}
    /\ raced' = FALSE
    /\ UNCHANGED <<files, delivered, deadFiles, added, loads, accepted, unsaved, displaced, reloaded>>

Next ==
    \/ AddRead \/ AddWrite \/ GetAllRead \/ GetAllWrite
    \/ LoadFromDisk \/ LoadWrite \/ \E n \in Names : LoadRead(n) \/ LoadFails(n)
    \/ \E i \in Items : Retried(i) \/ Bury(i)
    \/ Exhume \/ Crash

Spec == Init /\ [][Next]_vars

-----------------------------------------------------------------------------
(* Properties. *)

\* Within a process an item is in one place only - the queue holds it once,
\* and not while the caller has it, so that no retry runs twice at a time -
\* unless LoadFromDisk read the item's file when the process had it already (a
\* call after an Add, or after a file could not be removed), or its append
\* overlapped Add or GetAll.
OneHolder ==
    ~raced =>
        /\ \A a, b \in DOMAIN items : a # b /\ items[a] = items[b] => items[a] \in reread
        /\ Range(items) \cap retrying \subseteq reread

\* An item whose file was written outlives a crash at any point - in the
\* queue or in the middle of its retry - until LoadFromDisk has loaded it,
\* whatever overlaps, unless another item got a file of the same name.
SurvivesCrash == accepted \ (unsaved \cup displaced \cup reloaded) \subseteq Saved

\* An accepted item is always somewhere - in the queue, in the caller's
\* hands, in a file, or in a dead letter's file - until it is delivered,
\* unless it had no file in a crash, lost its file to another item's before
\* this process loaded it, or LoadFromDisk's append was overlapped.
Accounted ==
    ~raced => accepted \ (delivered \cup gone \cup (displaced \ here))
                 \subseteq Range(items) \cup retrying \cup Saved \cup deadFiles
=============================================================================
