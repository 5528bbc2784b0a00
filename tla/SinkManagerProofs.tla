------------------------- MODULE SinkManagerProofs -------------------------
(* Proofs about the sink manager, for every set of sinks and callers and   *)
(* every number of calls.                                                  *)
EXTENDS SinkManager, TLAPS

Stages == {"sink", "answered", "done"}
Vals == 1 .. MaxCalls \cup {None}
Progresses == UNION {[S -> Stages] : S \in SUBSET Sinks}
ActiveCalls ==
    [kind : Kinds, val : Vals, at : Progresses,
     refused : SUBSET Sinks, lastErr : Sinks \cup {None, "no sinks"}]

AnyCall == ActiveCalls \cup [kind : {"returned"}, failed : BOOLEAN] \cup {[kind |-> "idle"]}

TypeOK ==
    /\ sinks \subseteq Sinks
    /\ holds \in [Sinks -> 1 .. MaxCalls \cup {None}]
    /\ call \in [Callers -> AnyCall]
    /\ calls \in 0 .. MaxCalls

\* Sinks that have refused and whose goroutine has ended.
Reported(w) == {s \in call[w].refused : call[w].at[s] = "done"}

\* lastErr is the error of one of the goroutines that ended with one.
ErrorKeptBy(w) ==
    /\ call[w].refused \subseteq {s \in DOMAIN call[w].at : call[w].at[s] # "sink"}
    /\ IF DOMAIN call[w].at = {} /\ call[w].kind # "delete" THEN call[w].lastErr = "no sinks"
       ELSE IF Reported(w) = {} THEN call[w].lastErr = None
       ELSE call[w].lastErr \in Reported(w)
ErrorKept == \A w \in Callers : Active(w) => ErrorKeptBy(w)

\* While the last call has met no other one, the sinks that have answered it
\* hold its value, or refused.
LastHeld ==
    last.alone =>
        /\ \A v \in Callers : Active(v) => v = last.by
        /\ \A w \in Callers :
              (w = last.by /\ Active(w)) =>
                  /\ call[w].val = last.val
                  /\ DOMAIN call[w].at = last.sinks
                  /\ \A s \in last.sinks \ call[w].refused :
                        call[w].at[s] # "sink" => holds[s] = last.val

\* Before Close has ended every registered sink is still to be closed, closed,
\* or has refused to be, and nothing else is; the sinks that come behind it are
\* in none of these sets.
CloseTracked ==
    /\ closer \in {"out", "waiting"} => shut = {} /\ closeErrors = {}
    /\ closer \in {"closing", "closed"} =>
          /\ sinks \ late = shut \cup closeErrors \cup toClose
          /\ shut \cap closeErrors = {} /\ (shut \cup closeErrors) \cap (toClose \cup late) = {}
    /\ closer # "closed" => late = {}
    /\ closer = "closed" => toClose = {}
    /\ closer \in {"out", "waiting", "closing", "closed"}

IInv == TypeOK /\ ErrorKept /\ LastHeld /\ SinksAgree /\ CloseTracked

\* NewSinkManager: no sinks, no calls.
LEMMA InitIInv == Init => IInv
<1>. SUFFICES ASSUME Init PROVE IInv
  OBVIOUS
<1>1. \A w \in Callers : ~Active(w) /\ ~Returned(w)
  BY DEF Init, Active, Returned, Kinds
<1>2. TypeOK
  BY CallsAssumption DEF Init, TypeOK, AnyCall
<1>3. ErrorKept /\ LastHeld /\ SinksAgree /\ CloseTracked
  BY <1>1 DEF Init, ErrorKept, LastHeld, SinksAgree, CloseTracked
<1>. QED  BY <1>2, <1>3 DEF IInv

-----------------------------------------------------------------------------
(* What a step of one sink's goroutine does to its call. *)

\* The parts of a call.
LEMMA CallParts ==
    ASSUME TypeOK, NEW w \in Callers, Active(w)
    PROVE  /\ call[w] \in ActiveCalls
           /\ call[w].at \in [DOMAIN call[w].at -> Stages]
           /\ DOMAIN call[w].at \subseteq Sinks
           /\ call[w].refused \subseteq Sinks
<1>1. call[w] \in ActiveCalls
  BY DEF TypeOK, AnyCall, Active, Kinds
<1>2. PICK S \in SUBSET Sinks : call[w].at \in [S -> Stages]
  BY <1>1 DEF ActiveCalls, Progresses
<1>. QED  BY <1>1, <1>2 DEF ActiveCalls

\* GoesOn, as a change of the parts of a call.
WentOn(w, s, stage, refused, lastErr) ==
    /\ call'[w] \in ActiveCalls
    /\ call'[w].kind = call[w].kind /\ call'[w].val = call[w].val
    /\ DOMAIN call'[w].at = DOMAIN call[w].at
    /\ \A t \in DOMAIN call[w].at : call'[w].at[t] = IF t = s THEN stage ELSE call[w].at[t]
    /\ call'[w].refused = refused /\ call'[w].lastErr = lastErr
    /\ \A v \in Callers \ {w} : call'[v] = call[v]
    /\ call' \in [Callers -> AnyCall]

\* The goroutine of one sink goes on to a stage, and may leave the sink among
\* the refused or its error in lastErr.
LEMMA StageStep ==
    ASSUME TypeOK, NEW w \in Callers, Active(w), NEW s \in DOMAIN call[w].at, NEW stage \in Stages,
           NEW refused \in SUBSET Sinks, NEW lastErr \in Sinks \cup {None, "no sinks"},
           GoesOn(w, s, stage, refused, lastErr)
    PROVE  WentOn(w, s, stage, refused, lastErr)
<1>. DEFINE S == DOMAIN call[w].at
            at == [call[w].at EXCEPT ![s] = stage]
<1>0. call[w] \in ActiveCalls /\ refused \in SUBSET Sinks /\ lastErr \in Sinks \cup {None, "no sinks"}
  BY CallParts
<1>1. call[w] \in ActiveCalls /\ call[w].at \in [S -> Stages] /\ S \subseteq Sinks
  BY CallParts
<1>2. at \in [S -> Stages] /\ \A t \in S : at[t] = IF t = s THEN stage ELSE call[w].at[t]
  BY <1>1
<1>3. call'[w] = [call[w] EXCEPT !.at = at, !.refused = refused, !.lastErr = lastErr]
  BY DEF TypeOK, GoesOn
<1>4. at \in Progresses
  BY <1>1, <1>2 DEF Progresses
<1>. HIDE DEF at
<1>5. call'[w] \in ActiveCalls /\ call'[w].at = at /\ call'[w].kind = call[w].kind
      /\ call'[w].val = call[w].val /\ call'[w].refused = refused /\ call'[w].lastErr = lastErr
  BY ONLY <1>0, <1>3, <1>4 DEF ActiveCalls
<1>6. \A v \in Callers \ {w} : call'[v] = call[v]
  BY DEF TypeOK, GoesOn
<1>7. call' \in [Callers -> AnyCall]
  <2>1. call'[w] \in AnyCall
    BY <1>5 DEF AnyCall
  <2>2. call' = [v \in Callers |-> call'[v]]
    BY DEF GoesOn, TypeOK
  <2>3. \A v \in Callers : call'[v] \in AnyCall
    BY <1>6, <2>1 DEF TypeOK
  <2>. QED  BY ONLY <2>2, <2>3
<1>. QED  BY <1>2, <1>5, <1>6, <1>7 DEF WentOn
-----------------------------------------------------------------------------
\* Registering a sink concerns no call under way.
LEMMA RegisterSinkKeepsIInv == ASSUME IInv, NEW s \in Sinks, RegisterSink(s) PROVE IInv'
<1>1. sinks' = sinks \cup {s} /\ UNCHANGED <<holds, call, calls, closing, last>>
  BY DEF RegisterSink
<1>2. TypeOK'
  BY <1>1 DEF IInv, TypeOK
<1>3. ErrorKept'
  BY <1>1 DEF IInv, ErrorKept, ErrorKeptBy, Reported, Active
<1>4. LastHeld' /\ SinksAgree'
  BY <1>1 DEF IInv, LastHeld, SinksAgree, Active, Returned
<1>5. CloseTracked'
  <2>1. /\ closer # "closing" /\ s \notin sinks
        /\ late' = IF closer = "closed" THEN late \cup {s} ELSE late
        /\ UNCHANGED <<closer, toClose, shut, closeErrors>>
    BY DEF RegisterSink, Locked, closing
  <2>2. CASE closer = "closed"
    BY <1>1, <2>1, <2>2 DEF IInv, CloseTracked
  <2>3. CASE closer # "closed"
    BY <1>1, <2>1, <2>3 DEF IInv, CloseTracked
  <2>. QED  BY <2>2, <2>3
<1>. QED  BY <1>2, <1>3, <1>4, <1>5 DEF IInv

\* A call begins with every goroutine at its sink and, with sinks, no error.
LEMMA BeginKeepsIInv ==
    ASSUME IInv, NEW w \in Callers, NEW kind \in Calls, Begin(w, kind)
    PROVE  IInv'
<1>. DEFINE val == IF kind = "delete" THEN None ELSE calls + 1
            at == [s \in sinks |-> "sink"]
            new == [kind |-> kind, val |-> val, at |-> at, refused |-> {},
                    lastErr |-> IF sinks = {} /\ kind # "delete" THEN "no sinks" ELSE None]
<1>1. /\ ~Active(w) /\ calls < MaxCalls /\ calls' = calls + 1
      /\ call' = [call EXCEPT ![w] = new]
      /\ last' = [by |-> w, val |-> val, sinks |-> sinks, alone |-> \A v \in Callers \ {w} : ~Active(v)]
      /\ UNCHANGED <<sinks, holds, closer, toClose, shut, closeErrors, late>>
  BY Zenon DEF Begin, closing
<1>2. TypeOK /\ calls + 1 \in 1 .. MaxCalls /\ calls + 1 \in 0 .. MaxCalls
  <2>1. calls < MaxCalls
    BY <1>1
  <2>. QED  BY <2>1, CallsAssumption DEF IInv, TypeOK
<1>3. val \in Vals /\ calls' \in 0 .. MaxCalls
  BY <1>1, <1>2, Zenon DEF Vals
<1>4. at \in Progresses /\ DOMAIN at = sinks /\ \A s \in sinks : at[s] = "sink"
  BY <1>2 DEF TypeOK, Progresses, Stages
<1>5. kind \in Kinds
  BY CallsAssumption
<1>. HIDE DEF val, at
<1>6. new \in ActiveCalls
  BY <1>3, <1>4, <1>5 DEF ActiveCalls
<1>7. /\ new.kind = kind /\ new.val = val /\ new.at = at /\ new.refused = {}
      /\ new.lastErr = IF sinks = {} /\ kind # "delete" THEN "no sinks" ELSE None
  OBVIOUS
<1>. HIDE DEF new
<1>8. call'[w] = new /\ \A v \in Callers \ {w} : call'[v] = call[v]
  BY <1>1, <1>2 DEF TypeOK
<1>9. TypeOK'
  <2>1. \A v \in Callers : call'[v] \in AnyCall
    BY <1>2, <1>6, <1>8 DEF TypeOK, AnyCall
  <2>2. call' = [v \in Callers |-> call'[v]]
    BY <1>1, <1>2 DEF TypeOK
  <2>3. call' \in [Callers -> AnyCall]
    BY ONLY <2>1, <2>2
  <2>. QED  BY <1>1, <1>2, <1>3, <2>3 DEF TypeOK
<1>10. ErrorKept'
  <2>1. \A v \in Callers \ {w} : Reported(v)' = Reported(v) /\ (Active(v)' => Active(v))
    BY <1>8 DEF Reported, Active
  <2>2. \A v \in Callers \ {w} : Active(v)' => ErrorKeptBy(v)'
    BY <1>8, <2>1 DEF IInv, ErrorKept, ErrorKeptBy
  <2>3. ErrorKeptBy(w)'
    BY <1>4, <1>7, <1>8 DEF ErrorKeptBy, Reported
  <2>. QED  BY <2>2, <2>3 DEF ErrorKept
<1>11. LastHeld'
  <2>1. last'.alone => \A v \in Callers \ {w} : ~Active(v)'
    BY <1>1, <1>8 DEF Active
  <2>2. last'.by = w /\ last'.val = val /\ last'.sinks = sinks
    BY <1>1
  <2>. QED  BY <1>4, <1>7, <1>8, <2>1, <2>2 DEF LastHeld
<1>12. SinksAgree'
  <2>1. last'.by = w /\ ~Returned(w)'
    BY <1>1, <1>5, <1>7, <1>8 DEF Returned, Kinds
  <2>. QED  BY <2>1 DEF SinksAgree
<1>13. CloseTracked'
  BY <1>1 DEF IInv, CloseTracked
<1>. QED  BY <1>9, <1>10, <1>11, <1>12, <1>13 DEF IInv

-----------------------------------------------------------------------------
(* The goroutines of a call. *)

\* A sink takes the value of a call, or refuses it.
LEMMA CallSinkKeepsIInv ==
    ASSUME IInv, NEW w \in Callers, NEW s \in Sinks, CallSink(w, s)
    PROVE  IInv'
<1>1. /\ Active(w) /\ s \in DOMAIN call[w].at /\ call[w].at[s] = "sink"
      /\ UNCHANGED <<sinks, calls, closer, toClose, shut, closeErrors, late, last>>
  BY DEF CallSink, At, closing
<1>2. TypeOK
  BY DEF IInv
<1>3. PICK refused \in {call[w].refused, call[w].refused \cup {s}} :
        /\ GoesOn(w, s, "answered", refused, call[w].lastErr)
        /\ s \notin refused => holds' = [holds EXCEPT ![s] = call[w].val]
        /\ s \in refused => holds' = holds \/ (refused = call[w].refused /\ holds' = [holds EXCEPT ![s] = call[w].val])
  BY Zenon DEF CallSink
<1>4. s \notin call[w].refused
  BY <1>1 DEF IInv, ErrorKept, ErrorKeptBy
<1>5. /\ call[w] \in ActiveCalls /\ call[w].val \in Vals
      /\ call[w].refused \subseteq Sinks /\ refused \in SUBSET Sinks
      /\ call[w].lastErr \in Sinks \cup {None, "no sinks"}
  <2>1. call[w] \in ActiveCalls /\ call[w].refused \subseteq Sinks
    BY <1>1, <1>2, CallParts
  <2>. QED  BY <2>1 DEF ActiveCalls
<1>6. /\ call'[w].kind = call[w].kind /\ call'[w].val = call[w].val
      /\ DOMAIN call'[w].at = DOMAIN call[w].at
      /\ \A t \in DOMAIN call[w].at : call'[w].at[t] = IF t = s THEN "answered" ELSE call[w].at[t]
      /\ call'[w].refused = refused /\ call'[w].lastErr = call[w].lastErr
      /\ \A v \in Callers \ {w} : call'[v] = call[v]
      /\ call' \in [Callers -> AnyCall]
  <2>1. "answered" \in Stages
    BY DEF Stages
  <2>2. /\ TypeOK /\ Active(w) /\ s \in DOMAIN call[w].at /\ refused \in SUBSET Sinks
        /\ call[w].lastErr \in Sinks \cup {None, "no sinks"}
        /\ GoesOn(w, s, "answered", refused, call[w].lastErr)
    BY <1>1, <1>2, <1>3, <1>5
  <2>3. WentOn(w, s, "answered", refused, call[w].lastErr)
    BY <2>1, <2>2, StageStep, Zenon
  <2>. QED  BY <2>3, Zenon DEF WentOn
<1>7. /\ holds' \in [Sinks -> Vals]
      /\ \A t \in Sinks \ {s} : holds'[t] = holds[t]
      /\ s \notin refused => holds'[s] = call[w].val
  BY <1>2, <1>3, <1>4, <1>5 DEF TypeOK, Vals
<1>8. TypeOK'
  BY <1>1, <1>2, <1>6, <1>7 DEF TypeOK, Vals
<1>9. ErrorKept'
  <2>1. SUFFICES ASSUME NEW v \in Callers, Active(v)' PROVE ErrorKeptBy(v)'
    BY DEF ErrorKept
  <2>2. CASE v # w
    <3>1. call'[v] = call[v] /\ Active(v)
      BY <1>6, <2>1, <2>2 DEF Active
    <3>2. ErrorKeptBy(v)
      BY <3>1 DEF IInv, ErrorKept
    <3>. QED  BY <3>1, <3>2, Zenon DEF ErrorKeptBy, Reported
  <2>3. CASE v = w
    <3>1. ErrorKeptBy(w)
      BY <1>1 DEF IInv, ErrorKept
    <3>2. Reported(w)' = Reported(w)
      BY <1>1, <1>3, <1>6, <3>1 DEF Reported, ErrorKeptBy
    <3>. QED  BY <1>1, <1>3, <1>6, <2>3, <3>1, <3>2 DEF ErrorKeptBy
  <2>. QED  BY <2>2, <2>3
<1>10. \A v \in Callers : Active(v)' = Active(v) /\ (Returned(v)' => v # w /\ call'[v] = call[v])
  BY <1>1, <1>6 DEF Active, Returned, Kinds
<1>11. last.alone => w = last.by
  BY <1>1 DEF IInv, LastHeld
<1>12. LastHeld'
  <2>1. SUFFICES ASSUME last.alone PROVE LastHeld'
    BY <1>1 DEF LastHeld
  <2>2. w = last.by /\ call[w].val = last.val /\ DOMAIN call[w].at = last.sinks
    BY <1>1, <1>11, <2>1 DEF IInv, LastHeld
  <2>3. ASSUME NEW t \in last.sinks \ refused, call'[w].at[t] # "sink" PROVE holds'[t] = last.val
    <3>1. CASE t = s
      BY <1>7, <2>2, <2>3, <3>1
    <3>2. CASE t # s
      <4>1. t \in Sinks /\ t \notin call[w].refused /\ call[w].at[t] # "sink"
        BY <1>1, <1>2, <1>3, <1>6, <2>2, <2>3, <3>2, CallParts
      <4>2. holds[t] = last.val
        BY <1>1, <2>1, <2>2, <2>3, <4>1 DEF IInv, LastHeld
      <4>. QED  BY <1>7, <3>2, <4>1, <4>2
    <3>. QED  BY <3>1, <3>2
  <2>4. \A v \in Callers : Active(v)' => v = last.by
    BY <1>10, <2>1 DEF IInv, LastHeld
  <2>. QED  BY <1>1, <1>6, <2>2, <2>3, <2>4 DEF LastHeld
<1>13. SinksAgree'
  BY <1>1, <1>10, <1>11 DEF IInv, SinksAgree, Returned
<1>14. CloseTracked'
  BY <1>1 DEF IInv, CloseTracked
<1>. QED  BY <1>8, <1>9, <1>12, <1>13, <1>14 DEF IInv

\* A goroutine ends, and overwrites lastErr only with its own error.
LEMMA EndGoroutineKeepsIInv ==
    ASSUME IInv, NEW w \in Callers, NEW s \in Sinks, EndGoroutine(w, s)
    PROVE  IInv'
<1>. DEFINE lastErr == IF s \in call[w].refused THEN s ELSE call[w].lastErr
<1>1. /\ Active(w) /\ s \in DOMAIN call[w].at /\ call[w].at[s] = "answered"
      /\ UNCHANGED <<sinks, holds, calls, closer, toClose, shut, closeErrors, late, last>>
      /\ GoesOn(w, s, "done", call[w].refused, lastErr)
  BY DEF EndGoroutine, At, closing
<1>2. TypeOK
  BY DEF IInv
<1>3. /\ call[w] \in ActiveCalls /\ call[w].refused \in SUBSET Sinks
      /\ DOMAIN call[w].at \subseteq Sinks
      /\ call[w].lastErr \in Sinks \cup {None, "no sinks"}
  <2>1. call[w] \in ActiveCalls /\ DOMAIN call[w].at \subseteq Sinks
    BY <1>1, <1>2, CallParts
  <2>. QED  BY <2>1 DEF ActiveCalls
<1>4. lastErr \in Sinks \cup {None, "no sinks"} /\ "done" \in Stages
  BY <1>3 DEF Stages
<1>5. /\ s \in call[w].refused => lastErr = s
      /\ s \notin call[w].refused => lastErr = call[w].lastErr
  OBVIOUS
<1>. HIDE DEF lastErr
<1>6. /\ call'[w].kind = call[w].kind /\ call'[w].val = call[w].val
      /\ DOMAIN call'[w].at = DOMAIN call[w].at
      /\ \A t \in DOMAIN call[w].at : call'[w].at[t] = IF t = s THEN "done" ELSE call[w].at[t]
      /\ call'[w].refused = call[w].refused /\ call'[w].lastErr = lastErr
      /\ \A v \in Callers \ {w} : call'[v] = call[v]
      /\ call' \in [Callers -> AnyCall]
  <2>1. WentOn(w, s, "done", call[w].refused, lastErr)
    BY <1>1, <1>2, <1>3, <1>4, StageStep, Zenon
  <2>. QED  BY <2>1, Zenon DEF WentOn
<1>7. TypeOK'
  BY <1>1, <1>2, <1>6 DEF TypeOK
<1>8. ErrorKept'
  <2>1. SUFFICES ASSUME NEW v \in Callers, Active(v)' PROVE ErrorKeptBy(v)'
    BY DEF ErrorKept
  <2>2. CASE v # w
    <3>1. call'[v] = call[v] /\ Active(v)
      BY <1>6, <2>1, <2>2 DEF Active
    <3>2. ErrorKeptBy(v)
      BY <3>1 DEF IInv, ErrorKept
    <3>. QED  BY <3>1, <3>2, Zenon DEF ErrorKeptBy, Reported
  <2>3. CASE v = w
    <3>1. ErrorKeptBy(w)
      BY <1>1 DEF IInv, ErrorKept
    <3>2. Reported(w)' = Reported(w) \cup (call[w].refused \cap {s})
      BY <1>1, <1>6, <3>1 DEF Reported, ErrorKeptBy
    <3>3. call'[w].refused \subseteq {t \in DOMAIN call'[w].at : call'[w].at[t] # "sink"}
      BY <1>1, <1>6, <3>1 DEF ErrorKeptBy
    <3>4. DOMAIN call'[w].at # {}
      BY <1>1, <1>6
    <3>5. IF Reported(w)' = {} THEN call'[w].lastErr = None ELSE call'[w].lastErr \in Reported(w)'
      BY <1>1, <1>5, <1>6, <3>1, <3>2 DEF ErrorKeptBy
    <3>. QED  BY <2>3, <3>3, <3>4, <3>5 DEF ErrorKeptBy
  <2>. QED  BY <2>2, <2>3
<1>9. \A v \in Callers : Active(v)' = Active(v) /\ (Returned(v)' => v # w /\ call'[v] = call[v])
  BY <1>1, <1>6 DEF Active, Returned, Kinds
<1>10. LastHeld'
  <2>1. SUFFICES ASSUME last.alone PROVE LastHeld'
    BY <1>1 DEF LastHeld
  <2>2. /\ w = last.by /\ call[w].val = last.val /\ DOMAIN call[w].at = last.sinks
        /\ \A t \in last.sinks \ call[w].refused : call[w].at[t] # "sink" => holds[t] = last.val
        /\ \A v \in Callers : Active(v) => v = last.by
    BY <1>1, <2>1 DEF IInv, LastHeld
  <2>3. \A t \in last.sinks : call'[w].at[t] # "sink" => call[w].at[t] # "sink"
    BY <1>1, <1>6, <2>2
  <2>. QED  BY <1>1, <1>6, <1>9, <2>2, <2>3 DEF LastHeld
<1>11. SinksAgree'
  BY <1>1, <1>9 DEF IInv, SinksAgree, Returned
<1>12. CloseTracked'
  BY <1>1 DEF IInv, CloseTracked
<1>. QED  BY <1>7, <1>8, <1>10, <1>11, <1>12 DEF IInv

\* When every goroutine is done, lastErr tells whether a sink has refused, so
\* a call that answers without an error has left its value in all of them.
LEMMA DoneIsAnswered ==
    ASSUME IInv, NEW w \in Callers, Active(w), AllDone(w)
    PROVE  /\ Reported(w) = call[w].refused
           /\ call[w].refused \subseteq DOMAIN call[w].at
           /\ call[w].lastErr = None => call[w].refused = {}
<1>1. ErrorKeptBy(w)
  BY DEF IInv, ErrorKept
<1>2. Reported(w) = call[w].refused /\ call[w].refused \subseteq DOMAIN call[w].at
  BY <1>1 DEF ErrorKeptBy, AllDone, Reported
<1>3. DOMAIN call[w].at \subseteq Sinks
  BY CallParts DEF IInv
<1>4. call[w].refused # {} => call[w].lastErr \in Sinks
  BY <1>1, <1>2, <1>3 DEF ErrorKeptBy
<1>. QED  BY <1>2, <1>4, NoneAssumption

\* The last error is returned.
LEMMA ReturnKeepsIInv ==
    ASSUME IInv, NEW w \in Callers, Return(w)
    PROVE  IInv'
<1>. DEFINE answer == [kind |-> "returned", failed |-> call[w].lastErr # None]
<1>1. /\ Active(w) /\ AllDone(w)
      /\ call' = [call EXCEPT ![w] = answer]
      /\ UNCHANGED <<sinks, holds, calls, closer, toClose, shut, closeErrors, late, last>>
  BY Zenon DEF Return, Answer, closing
<1>2. answer \in AnyCall
  BY DEF AnyCall
<1>3. answer.kind = "returned" /\ (~answer.failed => call[w].lastErr = None)
  OBVIOUS
<1>. HIDE DEF answer
<1>4. call'[w] = answer /\ \A v \in Callers \ {w} : call'[v] = call[v]
  BY <1>1 DEF IInv, TypeOK
<1>5. TypeOK'
  <2>1. \A v \in Callers : call'[v] \in AnyCall
    BY <1>2, <1>4 DEF IInv, TypeOK
  <2>2. call' = [v \in Callers |-> call'[v]]
    BY <1>1 DEF IInv, TypeOK
  <2>3. call' \in [Callers -> AnyCall]
    BY ONLY <2>1, <2>2
  <2>. QED  BY <1>1, <2>3 DEF IInv, TypeOK
<1>6. ~Active(w)' /\ \A v \in Callers \ {w} : Active(v)' = Active(v) /\ Returned(v)' = Returned(v)
  BY <1>3, <1>4 DEF Active, Returned, Kinds
<1>7. ErrorKept'
  <2>1. SUFFICES ASSUME NEW v \in Callers, Active(v)' PROVE ErrorKeptBy(v)'
    BY DEF ErrorKept
  <2>2. v # w /\ call'[v] = call[v] /\ ErrorKeptBy(v)
    BY <1>4, <1>6, <2>1 DEF IInv, ErrorKept
  <2>. QED  BY <2>2, Zenon DEF ErrorKeptBy, Reported
<1>8. LastHeld'
  <2>1. SUFFICES ASSUME last.alone PROVE \A v \in Callers : ~Active(v)'
    BY <1>1 DEF LastHeld
  <2>2. \A v \in Callers : Active(v) => v = last.by
    BY <2>1 DEF IInv, LastHeld
  <2>. QED  BY <1>1, <1>6, <2>2
<1>9. SinksAgree'
  <2>1. ASSUME last.by = w, last.alone, ~call'[w].failed
        PROVE  \A s \in last.sinks : holds[s] = last.val
    <3>1. call[w].refused = {}
      BY <1>1, <1>3, <1>4, <2>1, DoneIsAnswered
    <3>2. /\ DOMAIN call[w].at = last.sinks
          /\ \A s \in last.sinks \ call[w].refused : call[w].at[s] # "sink" => holds[s] = last.val
      BY <1>1, <2>1 DEF IInv, LastHeld
    <3>. QED  BY <1>1, <3>1, <3>2 DEF AllDone
  <2>2. ASSUME NEW v \in Callers \ {w}, last.by = v, last.alone, Returned(v)', ~call'[v].failed
        PROVE  \A s \in last.sinks : holds[s] = last.val
    BY <1>4, <1>6, <2>2 DEF IInv, SinksAgree
  <2>. QED  BY <1>1, <2>1, <2>2 DEF SinksAgree
<1>10. CloseTracked'
  BY <1>1 DEF IInv, CloseTracked
<1>. QED  BY <1>5, <1>7, <1>8, <1>9, <1>10 DEF IInv

-----------------------------------------------------------------------------
(* Close, and the theorems. *)

\* Close takes a sink off its list only as it closes it; the calls under way
\* are not its concern.
LEMMA CloseKeepsIInv ==
    ASSUME IInv, BeginClose \/ LockForClose \/ EndClose \/ \E s \in Sinks : CloseSink(s)
    PROVE  IInv'
<1>1. UNCHANGED <<sinks, holds, call, calls, last>>
  BY DEF BeginClose, LockForClose, EndClose, CloseSink
<1>2. TypeOK' /\ ErrorKept' /\ LastHeld' /\ SinksAgree'
  BY <1>1 DEF IInv, TypeOK, ErrorKept, ErrorKeptBy, Reported, LastHeld, SinksAgree, Active, Returned
<1>3. CloseTracked'
  <2>1. CASE BeginClose
    BY <2>1 DEF BeginClose, IInv, CloseTracked
  <2>2. CASE LockForClose
    BY <2>2 DEF LockForClose, IInv, CloseTracked
  <2>3. CASE EndClose
    BY <2>3 DEF EndClose, IInv, CloseTracked
  <2>4. ASSUME NEW s \in Sinks, CloseSink(s) PROVE CloseTracked'
    BY <2>4 DEF CloseSink, Shut, IInv, CloseTracked
  <2>. QED  BY <2>1, <2>2, <2>3, <2>4
<1>. QED  BY <1>2, <1>3 DEF IInv

\* Every step of callers, goroutines, registration and Close.
LEMMA NextKeepsIInv == IInv /\ [Next]_vars => IInv'
<1>. SUFFICES ASSUME IInv, [Next]_vars PROVE IInv'
  OBVIOUS
<1>1. CASE \E w \in Callers : Return(w) \/ \E kind \in Calls : Begin(w, kind)
  BY <1>1, ReturnKeepsIInv, BeginKeepsIInv
<1>2. CASE \E w \in Callers, s \in Sinks : CallSink(w, s) \/ EndGoroutine(w, s)
  BY <1>2, CallSinkKeepsIInv, EndGoroutineKeepsIInv
<1>3. CASE \E s \in Sinks : RegisterSink(s) \/ CloseSink(s)
  BY <1>3, RegisterSinkKeepsIInv, CloseKeepsIInv
<1>4. CASE BeginClose \/ LockForClose \/ EndClose
  BY <1>4, CloseKeepsIInv
<1>5. CASE UNCHANGED vars
  <2>1. TypeOK' /\ ErrorKept' /\ LastHeld' /\ SinksAgree'
    BY <1>5 DEF vars, IInv, TypeOK, ErrorKept, ErrorKeptBy, Reported, LastHeld, SinksAgree, Active, Returned
  <2>2. CloseTracked'
    BY <1>5 DEF vars, IInv, CloseTracked
  <2>. QED  BY <2>1, <2>2 DEF IInv
<1>. QED  BY <1>1, <1>2, <1>3, <1>4, <1>5 DEF Next

\* The inductive invariant of the sink manager.
THEOREM Invariant == Spec => []IInv
<1>. QED  BY InitIInv, NextKeepsIInv, PTL DEF Spec

\* However the goroutines of Write, WriteBatch and Delete race on lastErr,
\* the call returns an error if and only if some sink refused, and one of
\* those sinks' own.
THEOREM ErrorAnswered == Spec => []ErrorIffRefused
<1>1. IInv => ErrorIffRefused
  <2>1. SUFFICES ASSUME IInv, NEW w \in Callers, Active(w), AllDone(w)
                 PROVE  CASE call[w].refused # {} -> call[w].lastErr \in call[w].refused
                          [] DOMAIN call[w].at = {} /\ call[w].kind # "delete" -> call[w].lastErr = "no sinks"
                          [] OTHER -> call[w].lastErr = None
    BY DEF ErrorIffRefused
  <2>2. ErrorKeptBy(w)
    BY <2>1 DEF IInv, ErrorKept
  <2>3. Reported(w) = call[w].refused /\ call[w].refused \subseteq DOMAIN call[w].at
    BY <2>1, DoneIsAnswered
  <2>4. CASE call[w].refused # {}
    BY <2>2, <2>3, <2>4 DEF ErrorKeptBy
  <2>5. CASE call[w].refused = {}
    BY <2>2, <2>3, <2>5 DEF ErrorKeptBy
  <2>. QED  BY <2>4, <2>5
<1>. QED  BY <1>1, Invariant, PTL

\* A call no other overlapped that returns no error has left its value in all
\* the sinks its copy of the list held.
THEOREM SinksLeftAgreeing == Spec => []SinksAgree
<1>1. IInv => SinksAgree
  BY DEF IInv
<1>. QED  BY <1>1, Invariant, PTL

\* The error Close returns names exactly the sinks still open that were
\* registered before it ended, whatever was registered while it waited.
THEOREM CloseAccountsForSinks == Spec => []CloseTellsWhatIsOpen
<1>1. IInv => CloseTellsWhatIsOpen
  BY DEF IInv, CloseTracked, CloseTellsWhatIsOpen
<1>. QED  BY <1>1, Invariant, PTL
=============================================================================
