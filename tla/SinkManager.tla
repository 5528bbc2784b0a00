---------------------------- MODULE SinkManager ----------------------------
(***************************************************************************)
(* The sink manager of L2 (pkg/l2/sinks.go): RegisterSink; Write,          *)
(* WriteBatch and Delete, which copy the list of sinks under the read lock *)
(* and start one goroutine per sink; and Close, which holds the lock while *)
(* it closes the sinks.                                                    *)
(*                                                                         *)
(* All calls are about one key.  The sinks (external: the Sink interface   *)
(* has no implementation in the repository) hold a value for it and may    *)
(* refuse any call.  The goroutines of a call write lastErr without        *)
(* synchronisation; a torn interface value is not modelled.  Counters and  *)
(* PingAll, which change nothing a call depends on, are left out; the lock *)
(* Write's goroutines take to update the counters is not.                  *)
(***************************************************************************)
EXTENDS Integers, FiniteSets

CONSTANTS
    Sinks,      \* names of the sinks that may be registered
    Callers,    \* goroutines calling Write, WriteBatch and Delete
    Calls,      \* the calls they make
    MaxCalls,   \* bound: calls made in all
    None

Kinds == {"write", "batch", "delete"}

ASSUME CallsAssumption == MaxCalls \in Nat /\ Calls \subseteq Kinds
ASSUME NoneAssumption == None \notin Sinks \cup Callers \cup 1 .. MaxCalls

VARIABLES
    sinks,      \* the registered sinks
    holds,      \* the value each sink holds, or None
    call,       \* the call each caller is in, or has returned from
    calls,      \* calls made so far
    closer,     \* how far the Close that set the flag has come
    toClose,    \* sinks it has not come to yet
    shut,       \* sinks whose Close returned no error
    closeErrors,\* sinks whose Close returned one
    late,       \* history: sinks registered after Close had ended
    last        \* history: the last call begun, and whether it met no other

vars == <<sinks, holds, call, calls, closer, toClose, shut, closeErrors, late, last>>
closing == <<closer, toClose, shut, closeErrors>>

Locked == closer = "closing"
Active(w) == call[w].kind \in Kinds
Returned(w) == call[w].kind = "returned"

Init ==
    /\ sinks = {}
    /\ holds = [s \in Sinks |-> None]
    /\ call = [w \in Callers |-> [kind |-> "idle"]]
    /\ calls = 0
    /\ closer = "out"
    /\ toClose = {}
    /\ shut = {}
    /\ closeErrors = {}
    /\ late = {}
    /\ last = [by |-> None, val |-> None, sinks |-> {}, alone |-> FALSE]

\* Mutant: the lock is not taken.
RegisterSinkUnlocked(s) ==
    /\ s \notin sinks
    /\ sinks' = sinks \cup {s}
    /\ late' = IF closer = "closed" THEN late \cup {s} ELSE late
    /\ UNCHANGED <<holds, call, calls, closing, last>>

\* RegisterSink; a name that is taken is an error.  The closed flag is not
\* looked at.
RegisterSink(s) ==
    /\ ~Locked
    /\ s \notin sinks
    /\ sinks' = sinks \cup {s}
    /\ late' = IF closer = "closed" THEN late \cup {s} ELSE late
    /\ UNCHANGED <<holds, call, calls, closing, last>>

-----------------------------------------------------------------------------
(* Write, WriteBatch and Delete. *)

\* The list is copied and the goroutines are started.  Without sinks Write
\* and WriteBatch return an error, and Delete returns none.  (WriteBatch of
\* no items returns before it does anything.)
Begin(w, kind) ==
    LET val == IF kind = "delete" THEN None ELSE calls + 1
    IN  /\ ~Active(w) /\ ~Locked
        /\ calls < MaxCalls
        /\ calls' = calls + 1
        /\ call' = [call EXCEPT ![w] =
              [kind |-> kind, val |-> val, at |-> [s \in sinks |-> "sink"], refused |-> {},
               lastErr |-> IF sinks = {} /\ kind # "delete" THEN "no sinks" ELSE None]]
        /\ last' = [by |-> w, val |-> val, sinks |-> sinks,
                    alone |-> \A v \in Callers \ {w} : ~Active(v)]
        /\ UNCHANGED <<sinks, holds, closing, late>>

At(w, s, stage) == Active(w) /\ s \in DOMAIN call[w].at /\ call[w].at[s] = stage

\* The goroutine for s goes on to a stage of its call.
GoesOn(w, s, stage, refused, lastErr) ==
    call' = [call EXCEPT ![w].at[s] = stage, ![w].refused = refused, ![w].lastErr = lastErr]

\* The call of one sink, which takes the value or returns an error.
CallSink(w, s) ==
    /\ At(w, s, "sink")
    /\ \/ /\ holds' = [holds EXCEPT ![s] = call[w].val]
          /\ GoesOn(w, s, "answered", call[w].refused, call[w].lastErr)
       \/ /\ UNCHANGED holds
          /\ GoesOn(w, s, "answered", call[w].refused \cup {s}, call[w].lastErr)
    /\ UNCHANGED <<sinks, calls, closing, late, last>>

\* A goroutine of Write takes the lock first, for the counters.
MayEnd(w) == call[w].kind = "write" => ~Locked

\* Mutant: lastErr is assigned whether or not there is an error.
EndWithAnyError(w, s) ==
    /\ At(w, s, "answered") /\ MayEnd(w)
    /\ GoesOn(w, s, "done", call[w].refused, IF s \in call[w].refused THEN s ELSE None)
    /\ UNCHANGED <<sinks, holds, calls, closing, late, last>>

\* The goroutine ends; its error overwrites the one another has left.
EndGoroutine(w, s) ==
    /\ At(w, s, "answered") /\ MayEnd(w)
    /\ GoesOn(w, s, "done", call[w].refused, IF s \in call[w].refused THEN s ELSE call[w].lastErr)
    /\ UNCHANGED <<sinks, holds, calls, closing, late, last>>

AllDone(w) == \A s \in DOMAIN call[w].at : call[w].at[s] = "done"

Answer(w) ==
    call' = [call EXCEPT ![w] = [kind |-> "returned", failed |-> call[w].lastErr # None]]

\* Mutant: the first goroutine that is done answers for all.
ReturnOnFirst(w) ==
    /\ Active(w)
    /\ \E s \in DOMAIN call[w].at : call[w].at[s] = "done"
    /\ Answer(w)
    /\ UNCHANGED <<sinks, holds, calls, closing, late, last>>

\* wg.Wait, and the last error is returned.
Return(w) ==
    /\ Active(w) /\ AllDone(w)
    /\ Answer(w)
    /\ UNCHANGED <<sinks, holds, calls, closing, late, last>>

-----------------------------------------------------------------------------
(* Close. *)

\* The Swap of the flag; a Close that finds it set returns and changes
\* nothing.
BeginClose ==
    /\ closer = "out"
    /\ closer' = "waiting"
    /\ UNCHANGED <<sinks, holds, call, calls, toClose, shut, closeErrors, late, last>>

LockForClose ==
    /\ closer = "waiting"
    /\ closer' = "closing"
    /\ toClose' = sinks
    /\ UNCHANGED <<sinks, holds, call, calls, shut, closeErrors, late, last>>

\* Close of one sink, which returns an error or none.
Shut(s) ==
    \/ shut' = shut \cup {s} /\ UNCHANGED closeErrors
    \/ closeErrors' = closeErrors \cup {s} /\ UNCHANGED shut

\* Mutant: the calls under way are waited for, with the lock held.
CloseSinkAfterCalls(s) ==
    /\ closer = "closing" /\ s \in toClose
    /\ \A w \in Callers : ~Active(w)
    /\ Shut(s)
    /\ toClose' = toClose \ {s}
    /\ UNCHANGED <<sinks, holds, call, calls, closer, late, last>>

\* A sink's error is kept for the result, and the loop goes on.
CloseSink(s) ==
    /\ closer = "closing" /\ s \in toClose
    /\ Shut(s)
    /\ toClose' = toClose \ {s}
    /\ UNCHANGED <<sinks, holds, call, calls, closer, late, last>>

\* Close returns the errors it has kept, or nil.
EndClose ==
    /\ closer = "closing" /\ toClose = {}
    /\ closer' = "closed"
    /\ UNCHANGED <<sinks, holds, call, calls, toClose, shut, closeErrors, late, last>>

Next ==
    \/ \E w \in Callers : Return(w) \/ \E kind \in Calls : Begin(w, kind)
    \/ \E w \in Callers, s \in Sinks : CallSink(w, s) \/ EndGoroutine(w, s)
    \/ \E s \in Sinks : RegisterSink(s) \/ CloseSink(s)
    \/ BeginClose \/ LockForClose \/ EndClose

Spec == Init /\ [][Next]_vars

\* The goroutines run, the sinks answer, and a Close that has begun goes on;
\* nobody has to call anything.
Fairness ==
    /\ \A w \in Callers : WF_vars(Return(w))
    /\ \A w \in Callers, s \in Sinks : WF_vars(CallSink(w, s) \/ EndGoroutine(w, s))
    /\ WF_vars(LockForClose \/ EndClose \/ \E s \in Sinks : CloseSink(s))

FairSpec == Spec /\ Fairness

-----------------------------------------------------------------------------
(* Properties. *)

\* However the goroutines of a call interleave on lastErr, the call returns
\* an error if and only if some sink it was sent to refused, or, but for a
\* Delete, there was none; and the error is one of those sinks' own.
ErrorIffRefused ==
    \A w \in Callers :
        Active(w) /\ AllDone(w) =>
            LET sent == DOMAIN call[w].at
            IN  CASE call[w].refused # {} -> call[w].lastErr \in call[w].refused
                  [] sent = {} /\ call[w].kind # "delete" -> call[w].lastErr = "no sinks"
                  [] OTHER -> call[w].lastErr = None

\* A call that has returned without an error, and that no other call
\* overlapped, has left its value in every sink registered when it began, so
\* the sinks agree until the next call begins, whatever is registered or
\* closed meanwhile.
SinksAgree ==
    \A w \in Callers :
        last.by = w /\ last.alone /\ Returned(w) /\ ~call[w].failed
            => \A s \in last.sinks : holds[s] = last.val

\* The error of Close tells exactly which sinks are still open, also those
\* registered while Close waited for the lock: it is nil if and only if every
\* registered sink is closed, but for those that are registered behind it,
\* which no later Close gets to.
CloseTellsWhatIsOpen == closer = "closed" => sinks \ (shut \cup late) = closeErrors

\* Every Write, WriteBatch and Delete returns, also when Close holds the lock
\* its goroutines need.
CallsEnd == \A w \in Callers : Active(w) ~> Returned(w)
=============================================================================
