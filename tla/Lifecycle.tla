----------------------------- MODULE Lifecycle -----------------------------
(***************************************************************************)
(* Opening and closing the cache (pkg/tieredcache/tieredcache.go,          *)
(* Initialize and Close; New and Close of pkg/l0 and pkg/l1).  The tiers   *)
(* are plain fields of TieredCache: Initialize and Close coordinate by the *)
(* three atomic flags only.                                                *)
(*                                                                         *)
(* Every l0.New and l1.New makes a new instance, named by a number.  An L1 *)
(* opens its Badger shards one by one; Badger locks a shard's directory,   *)
(* so only one instance has it open.  Opening a shard may also fail for    *)
(* reasons of its own.  L2 holds no resource and is left out; the recovery *)
(* manager is made by New and is the subject of Wal.                       *)
(***************************************************************************)
EXTENDS Integers

CONSTANTS
    Callers,    \* goroutines calling Initialize
    NumShards,  \* shards of L1
    MaxInits    \* bound: calls of Initialize that get past the flags

ASSUME BoundsAssumption == NumShards \in Nat \ {0} /\ MaxInits \in Nat

VARIABLES
    closed, initializing, initialized,
    l0, l1,     \* the instances the fields point to, 0 for nil
    open0,      \* L0 instances that are open
    dirs,       \* dirs[i]: the L1 instance that has shard i open, 0 for none
    at,         \* where each caller of Initialize is
    mine,       \* the instances each caller is making
    next,       \* number of the next shard each caller opens
    closing,    \* how far Close has come
    made,       \* instances made so far
    again,      \* history: a tier was opened on a cache already initialized
    raced       \* history: an Initialize was running when Close began

vars == <<closed, initializing, initialized, l0, l1, open0, dirs, at, mine, next, closing, made, again, raced>>

Shards == 1 .. NumShards
Instances == 1 .. MaxInits

-----------------------------------------------------------------------------
Init ==
    /\ closed = FALSE /\ initializing = FALSE /\ initialized = FALSE
    /\ l0 = 0 /\ l1 = 0
    /\ open0 = {}
    /\ dirs = [i \in Shards |-> 0]
    /\ at = [c \in Callers |-> "idle"]
    /\ mine = [c \in Callers |-> 0]
    /\ next = [c \in Callers |-> 1]
    /\ closing = "no"
    /\ made = 0
    /\ again = FALSE
    /\ raced = FALSE

\* Initialize: the closed flag is only looked at here.
Begin(c) ==
    /\ at[c] = "idle"
    /\ ~closed
    /\ at' = [at EXCEPT ![c] = "flag"]
    /\ UNCHANGED <<closed, initializing, initialized, l0, l1, open0, dirs, mine, next, closing, made, again, raced>>

\* Another Initialize in progress is an error; one that has ended is not seen.
Flag(c) ==
    /\ at[c] = "flag"
    /\ IF initializing
       THEN at' = [at EXCEPT ![c] = "idle"] /\ UNCHANGED <<made, mine, again>>
       ELSE /\ made < MaxInits
            /\ made' = made + 1
            /\ mine' = [mine EXCEPT ![c] = made']
            /\ at' = [at EXCEPT ![c] = "l0"]
            /\ again' = (again \/ initialized)
    /\ initializing' = TRUE
    /\ UNCHANGED <<closed, initialized, l0, l1, open0, dirs, next, closing, raced>>

\* Mutant: an attempt goes on at the shard where the last one failed.
OpenL0KeepsShard(c) ==
    /\ at[c] = "l0"
    /\ l0' = mine[c]
    /\ open0' = open0 \cup {mine[c]}
    /\ at' = [at EXCEPT ![c] = "l1"]
    /\ UNCHANGED <<closed, initializing, initialized, l1, dirs, mine, next, closing, made, again, raced>>

OpenL0(c) ==
    /\ at[c] = "l0"
    /\ l0' = mine[c]
    /\ open0' = open0 \cup {mine[c]}
    /\ next' = [next EXCEPT ![c] = 1]
    /\ at' = [at EXCEPT ![c] = "l1"]
    /\ UNCHANGED <<closed, initializing, initialized, l1, dirs, mine, closing, made, again, raced>>

\* l0.New refuses its configuration; the fields stay as they are.
FailL0(c) ==
    /\ at[c] = "l0"
    /\ at' = [at EXCEPT ![c] = "idle"]
    /\ initializing' = FALSE
    /\ UNCHANGED <<closed, initialized, l0, l1, open0, dirs, mine, next, closing, made, again, raced>>

\* Mutant: the loop counts past the last shard.
OpenShardRunsOn(c) ==
    /\ at[c] = "l1"
    /\ dirs[next[c]] = 0
    /\ dirs' = [dirs EXCEPT ![next[c]] = mine[c]]
    /\ IF next[c] = NumShards
       THEN l1' = mine[c] /\ at' = [at EXCEPT ![c] = "serve"]
       ELSE UNCHANGED <<l1, at>>
    /\ next' = [next EXCEPT ![c] = @ + 1]
    /\ UNCHANGED <<closed, initializing, initialized, l0, open0, mine, closing, made, again, raced>>

\* l1.New, one shard at a time; with the last one the field is set.
OpenShard(c) ==
    /\ at[c] = "l1"
    /\ dirs[next[c]] = 0
    /\ dirs' = [dirs EXCEPT ![next[c]] = mine[c]]
    /\ IF next[c] = NumShards
       THEN l1' = mine[c] /\ at' = [at EXCEPT ![c] = "serve"] /\ UNCHANGED next
       ELSE next' = [next EXCEPT ![c] = @ + 1] /\ UNCHANGED <<l1, at>>
    /\ UNCHANGED <<closed, initializing, initialized, l0, open0, mine, closing, made, again, raced>>

\* Mutant: the shards opened before the one that failed stay open.
FailShardLeaks(c) ==
    /\ at[c] = "l1"
    /\ open0' = open0 \ {l0}
    /\ at' = [at EXCEPT ![c] = "idle"]
    /\ initializing' = FALSE
    /\ UNCHANGED <<closed, initialized, l0, l1, dirs, mine, next, closing, made, again, raced>>

\* Mutant: the error path leaves the new L0 open.
FailShardKeepsL0(c) ==
    /\ at[c] = "l1"
    /\ dirs' = [i \in Shards |-> IF dirs[i] = mine[c] THEN 0 ELSE dirs[i]]
    /\ at' = [at EXCEPT ![c] = "idle"]
    /\ initializing' = FALSE
    /\ UNCHANGED <<closed, initialized, l0, l1, open0, mine, next, closing, made, again, raced>>

\* A shard cannot be opened: l1.New closes the shards it has opened, and
\* Initialize closes the L0 the field points to and returns the error.
FailShard(c) ==
    /\ at[c] = "l1"
    /\ dirs' = [i \in Shards |-> IF dirs[i] = mine[c] THEN 0 ELSE dirs[i]]
    /\ open0' = open0 \ {l0}
    /\ at' = [at EXCEPT ![c] = "idle"]
    /\ initializing' = FALSE
    /\ UNCHANGED <<closed, initialized, l0, l1, mine, next, closing, made, again, raced>>

\* Recovery and the start of the background goroutines.
Serve(c) ==
    /\ at[c] = "serve"
    /\ initialized' = TRUE
    /\ initializing' = FALSE
    /\ at' = [at EXCEPT ![c] = "idle"]
    /\ UNCHANGED <<closed, l0, l1, open0, dirs, mine, next, closing, made, again, raced>>

-----------------------------------------------------------------------------
\* Close: the flag, then each tier whose field is set.
BeginClose ==
    /\ ~closed
    /\ closed' = TRUE
    /\ closing' = "l0"
    /\ raced' = \E c \in Callers : at[c] # "idle"
    /\ UNCHANGED <<initializing, initialized, l0, l1, open0, dirs, at, mine, next, made, again>>

CloseL0 ==
    /\ closing = "l0"
    /\ open0' = open0 \ {l0}
    /\ closing' = "l1"
    /\ UNCHANGED <<closed, initializing, initialized, l0, l1, dirs, at, mine, next, made, again, raced>>

CloseL1 ==
    /\ closing = "l1"
    /\ dirs' = IF l1 = 0 THEN dirs ELSE [i \in Shards |-> IF dirs[i] = l1 THEN 0 ELSE dirs[i]]
    /\ closing' = "done"
    /\ UNCHANGED <<closed, initializing, initialized, l0, l1, open0, at, mine, next, made, again, raced>>

Next ==
    \/ \E c \in Callers :
          \/ Begin(c) \/ Flag(c) \/ OpenL0(c) \/ FailL0(c)
          \/ OpenShard(c) \/ FailShard(c) \/ Serve(c)
    \/ BeginClose \/ CloseL0 \/ CloseL1

Spec == Init /\ [][Next]_vars

-----------------------------------------------------------------------------
(* Properties. *)

TypeOK ==
    /\ closed \in BOOLEAN /\ initializing \in BOOLEAN /\ initialized \in BOOLEAN
    /\ again \in BOOLEAN /\ raced \in BOOLEAN
    /\ l0 \in Instances \cup {0} /\ l1 \in Instances \cup {0}
    /\ open0 \subseteq Instances
    /\ dirs \in [Shards -> Instances \cup {0}]
    /\ at \in [Callers -> {"idle", "flag", "l0", "l1", "serve"}]
    /\ mine \in [Callers -> Instances \cup {0}]
    /\ next \in [Callers -> Shards]
    /\ closing \in {"no", "l0", "l1", "done"}
    /\ made \in 0 .. MaxInits

\* A locked Badger directory belongs to the field's L1 or to a call of l1.New
\* in progress, whichever shard's opening failed and however calls of
\* Initialize follow on each other: failed and replaced instances hold none.
\* (The field's L1 itself stays open when a Close overtook its Initialize, and
\* no later Close gets to it.)
DirectoriesAreOwned ==
    \A i \in Shards : dirs[i] \in {0, l1} \cup {mine[c] : c \in {d \in Callers : at[d] = "l1"}}

\* A cache that has been initialized, after any number of failed attempts,
\* and is not closed has an open L0 and an L1 with every shard open - unless
\* Initialize was called on it again.
InitializedServes ==
    (initialized /\ ~closed /\ ~again) => l0 \in open0 /\ \A i \in Shards : dirs[i] = l1

\* Comment on Close: "Close closes all tiers".  When it has returned no tier
\* is open, whatever attempts to initialize failed before - unless it met an
\* Initialize past its look at the closed flag, which goes on to open tiers
\* behind it, or the cache had been initialized twice.
CloseClosesAllTiers ==
    (closing = "done" /\ ~raced /\ ~again) => open0 = {} /\ \A i \in Shards : dirs[i] = 0
=============================================================================
