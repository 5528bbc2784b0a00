----------------------------- MODULE L1Iterator -----------------------------
(***************************************************************************)
(* L1's iterator (pkg/l1/l1_badger.go, L1Iterator): it walks the shards in *)
(* order, with a read transaction for each, while clients go on changing   *)
(* the store.  A transaction (Badger, external) sees its shard as it was   *)
(* when it began.  The module has the iterator's state and the parts of    *)
(* Next and Close; PreWarm calls them.                                     *)
(***************************************************************************)
EXTENDS Integers, FiniteSets

CONSTANTS
    NumShards,  \* shardCount
    NumKeys

ASSUME StoreAssumption == NumShards \in Nat \ {0} /\ NumKeys \in Nat

Shards == 1 .. NumShards
Keys == 1 .. NumKeys
Absent == 0
Entry == [key : Keys, val : Nat \ {Absent}]
NoEntry == [key |-> 0, val |-> Absent]

VARIABLES
    db,     \* db[k]: the value L1 holds for k, or Absent
    open,   \* shards whose database is open
    iter,   \* the iterator
    txns    \* shards on which it holds a transaction

store == <<db, open>>
iterator == <<iter, txns>>

\* getShard: a fixed distribution of the keys.
getShard(k) == ((k - 1) % NumShards) + 1

Contents(s) == {[key |-> k, val |-> db[k]] : k \in {x \in Keys : getShard(x) = s /\ db[x] # Absent}}

\* NewIterator.  shard is the shard Next works on, cur the one of the last
\* transaction, entry the current entry and left those of the shard to come.
NewIterator == [at |-> "init", shard |-> 1, cur |-> 0, entry |-> NoEntry, left |-> {}]

\* Badger iterates in key order.
MoveToFirst(it, entries) ==
    LET e == CHOOSE x \in entries : \A y \in entries : x.key <= y.key
    IN  [it EXCEPT !.at = "on", !.entry = e, !.left = entries \ {e}]

\* One turn of initShard's loop: a transaction on the next shard, discarded
\* at once if the shard is empty.
InitEmptyShard ==
    /\ iter.at = "init" /\ iter.shard \in open
    /\ Contents(iter.shard) = {}
    /\ iter' = [iter EXCEPT !.cur = iter.shard, !.shard = @ + 1]
    /\ UNCHANGED txns

InitShard ==
    /\ iter.at = "init" /\ iter.shard \in open
    /\ Contents(iter.shard) # {}
    /\ iter' = MoveToFirst([iter EXCEPT !.cur = iter.shard], Contents(iter.shard))
    /\ txns' = txns \cup {iter.shard}

\* Badger panics when a closed database is to be iterated, and initShard does
\* not look at the cache's closed flag.
InitPanics == iter.at = "init" /\ iter.shard \in Shards \ open

NextInShard ==
    /\ iter.at = "on" /\ iter.left # {}
    /\ iter' = MoveToFirst(iter, iter.left)
    /\ UNCHANGED txns

\* Mutant: initShard increments the shard that Next has incremented.
LeaveShardTwice ==
    /\ iter.at = "on" /\ iter.left = {}
    /\ iter' = [iter EXCEPT !.at = "init", !.shard = @ + 2]
    /\ UNCHANGED txns

\* At the end of a shard the transaction on it is left open.
LeaveShard ==
    /\ iter.at = "on" /\ iter.left = {}
    /\ iter' = [iter EXCEPT !.at = "init", !.shard = @ + 1]
    /\ UNCHANGED txns

Exhausted == iter.at = "init" /\ iter.shard > NumShards

\* Close, which knows of the last transaction only.
CloseIterator ==
    /\ iter' = [iter EXCEPT !.at = "closed"]
    /\ txns' = txns \ {iter.cur}
=============================================================================
