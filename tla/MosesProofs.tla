----------------------------- MODULE MosesProofs -----------------------------
(***************************************************************************)
(* Proofs about Moses for any number of runs, any pipeline, threshold,     *)
(* timeout and queue length.                                               *)
(***************************************************************************)
EXTENDS Moses, SequenceTheorems, TLAPS

(* The count and the state of one breaker agree. *)
Sound(b) == b \in Breaker /\ (b.state = "closed" <=> b.failures < Threshold)

(* Every primitive keeps a breaker sound. *)
LEMMA BreakerOperations ==
    ASSUME NEW b, Sound(b)
    PROVE  /\ Sound(Looked(b)) /\ Sound(Succeeded(b))
           /\ Sound(Failed(b)) /\ Sound(Aged(b))
<1> USE ThresholdAssumption, TimeoutAssumption DEF Sound, Breaker
<1>1. Sound(Looked(b))
  BY DEF Looked
<1>2. Sound(Succeeded(b))
  BY DEF Succeeded
<1>3. Sound(Failed(b))
  BY DEF Failed, UpTo
<1>4. Sound(Aged(b))
  BY DEF Aged, UpTo
<1> QED BY <1>1, <1>2, <1>3, <1>4

(* A new breaker is sound. *)
LEMMA NewBreakerSound == Sound(NewBreaker)
BY ThresholdAssumption, TimeoutAssumption DEF Sound, Breaker, NewBreaker

(* The dead letter queue stays a bounded queue of entries. *)
LEMMA LoggedType ==
    ASSUME NEW queue \in Seq(DLQEntry), NEW e \in DLQEntry, Len(queue) <= DLQMax
    PROVE  Logged(queue, e) \in Seq(DLQEntry) /\ Len(Logged(queue, e)) <= DLQMax
<1> DEFINE longer == Append(queue, e)
           n == Len(queue) + 1
<1>1. longer \in Seq(DLQEntry) /\ Len(longer) = n /\ Len(queue) \in Nat
  OBVIOUS
<1>2. CASE n <= DLQMax
  BY <1>1, <1>2, DLQAssumption DEF Logged
<1>3. CASE n > DLQMax
  <2>1. n - DLQMax + 1 \in 1 .. n /\ n \in 1 .. n
    BY <1>1, <1>3, DLQAssumption
  <2>2. Logged(queue, e) = SubSeq(longer, n - DLQMax + 1, n)
    BY <1>1, <1>3, DLQAssumption DEF Logged
  <2>3. SubSeq(longer, n - DLQMax + 1, n) \in Seq(DLQEntry)
        /\ Len(SubSeq(longer, n - DLQMax + 1, n)) = n - (n - DLQMax + 1) + 1
    <3> HIDE DEF longer, n
    <3>1. n - DLQMax + 1 <= n + 1
      BY <1>1, <1>3, DLQAssumption
    <3> QED BY <1>1, <2>1, <3>1, SubSeqProperties
  <2>4. n - (n - DLQMax + 1) + 1 = DLQMax
    BY <1>1, DLQAssumption
  <2> DEFINE kept == SubSeq(longer, n - DLQMax + 1, n)
  <2>5. kept \in Seq(DLQEntry) /\ Len(kept) = DLQMax /\ Logged(queue, e) = kept
    BY <2>2, <2>3, <2>4
  <2> HIDE DEF kept
  <2> QED BY <2>5, DLQAssumption
<1>4. n \in Nat
  BY <1>1
<1> QED BY <1>2, <1>3, <1>4, DLQAssumption

(* An entry is added for a failure only. *)
LEMMA LoggedOutcome ==
    ASSUME NEW o \in {"ok", "error", "invalid", "raises"}, NEW n \in 0 .. 3,
           n < Len(Calls(o)), Calls(o)[n + 1] = "log"
    PROVE  o # "ok"
BY DEF Calls

LEMMA PipelineType ==
    ASSUME NEW p \in Pipelines
    PROVE  p \in Seq(Agents)
<1>1. PICK e \in Extras : p = Ordered \o e
  BY DEF Pipelines
<1>2. Ordered \in Seq(Agents) /\ e \in Seq(Agents)
  BY PipelineAssumption
<1> QED BY <1>1, <1>2, ConcatProperties

-----------------------------------------------------------------------------
IInv == TypeOK /\ \A a \in Agents : Sound(breaker[a])

(* _run_agent makes two to four calls after an agent has returned. *)
LEMMA CallsLength ==
    ASSUME NEW o \in {"ok", "error", "invalid", "raises"}
    PROVE  /\ Calls(o) \in Seq({"success", "failure", "time", "log"})
           /\ 2 <= Len(Calls(o)) /\ Len(Calls(o)) <= 4
<1>1. CASE o = "ok"
  BY <1>1 DEF Calls
<1>2. CASE o = "error"
  BY <1>2 DEF Calls
<1>3. CASE o = "invalid"
  BY <1>3 DEF Calls
<1>4. CASE o = "raises"
  BY <1>4 DEF Calls
<1> QED BY <1>1, <1>2, <1>3, <1>4

(* A run that is at an agent is at one of the system's agents. *)
LEMMA CurrentType ==
    ASSUME TypeOK, NEW t \in Runs, pc[t] \in {"dispatch", "running", "calls"}
    PROVE  Current(t) \in Agents /\ pos[t] \in 1 .. Len(pipe[t])
BY DEF TypeOK, Current

(* Advance keeps the types of what it changes. *)
LEMMA AdvanceType ==
    ASSUME TypeOK, NEW t \in Runs, Advance(t), UNCHANGED pipe
    PROVE  /\ pc' \in [Runs -> {"idle", "dispatch", "running", "calls",
                                "inspect", "report"}]
           /\ pos' \in [Runs -> Nat \ {0}]
           /\ pc'[t] \in {"dispatch", "inspect"}
           /\ pc'[t] = "dispatch" => pos'[t] <= Len(pipe'[t])
           /\ \A u \in Runs : u # t => pc'[u] = pc[u] /\ pos'[u] = pos[u]
<1>1. Len(pipe[t]) \in Nat /\ pos[t] \in Nat \ {0}
  BY DEF TypeOK
<1>2. CASE pos[t] < Len(pipe[t])
  <2>1. /\ pos' = [pos EXCEPT ![t] = pos[t] + 1]
        /\ pc' = [pc EXCEPT ![t] = "dispatch"]
    BY <1>2 DEF Advance
  <2> QED BY <1>1, <1>2, <2>1 DEF TypeOK
<1>3. CASE ~(pos[t] < Len(pipe[t]))
  <2>1. /\ pos' = [pos EXCEPT ![t] = 1]
        /\ pc' = [pc EXCEPT ![t] = "inspect"]
    BY <1>3 DEF Advance
  <2> QED BY <1>1, <2>1 DEF TypeOK
<1> QED BY <1>2, <1>3

LEMMA FallBackType ==
    ASSUME TypeOK, NEW t \in Runs, Current(t) \in Agents, FallBack(t)
    PROVE  fallback' \in [Runs -> Seq(Agents)]
<1>1. Append(fallback[t], Current(t)) \in Seq(Agents)
  BY AppendProperties DEF TypeOK
<1> QED BY <1>1 DEF FallBack, TypeOK

LEMMA Initially == Init => IInv
<1> SUFFICES ASSUME Init PROVE IInv
  OBVIOUS
<1>1. TypeOK
  BY NewBreakerSound, DLQAssumption DEF Init, TypeOK, Sound
<1> QED BY <1>1, NewBreakerSound DEF Init, IInv

LEMMA Invariance == IInv /\ [Next]_vars => IInv'
<1> SUFFICES ASSUME IInv, [Next]_vars PROVE IInv'
  OBVIOUS
<1>0. TypeOK /\ \A a \in Agents : Sound(breaker[a])
  BY DEF IInv
<1>b. ASSUME NEW a \in Agents
      PROVE  /\ Looked(breaker[a]) \in Breaker /\ Sound(Looked(breaker[a]))
             /\ Succeeded(breaker[a]) \in Breaker /\ Sound(Succeeded(breaker[a]))
             /\ Failed(breaker[a]) \in Breaker /\ Sound(Failed(breaker[a]))
             /\ Aged(breaker[a]) \in Breaker /\ Sound(Aged(breaker[a]))
  BY <1>0, BreakerOperations DEF Sound
<1>1. ASSUME NEW t \in Runs, Start(t)
      PROVE  IInv'
  <2>1. PICK p \in Pipelines :
          /\ pipe' = [pipe EXCEPT ![t] = p]
          /\ pc' = [pc EXCEPT ![t] = IF p = << >> THEN "inspect" ELSE "dispatch"]
    BY <1>1 DEF Start
  <2>2. p \in Seq(Agents) /\ (p # << >> => 1 <= Len(p))
    BY PipelineType
  <2>3. TypeOK'
    BY <1>0, <1>1, <2>1, <2>2 DEF Start, TypeOK
  <2> QED BY <1>0, <1>1, <2>1, <2>3 DEF Start, IInv, TypeOK
<1>2. ASSUME NEW t \in Runs, Dispatch(t)
      PROVE  IInv'
  <2> DEFINE a == Current(t)
  <2>1. a \in Agents
    BY <1>0, <1>2, CurrentType DEF Dispatch
  <2>2. breaker' = [breaker EXCEPT ![a] = Looked(breaker[a])]
    BY <1>2 DEF Dispatch
  <2>3. breaker' \in [Agents -> Breaker] /\ \A c \in Agents : Sound(breaker'[c])
    BY <1>0, <1>b, <2>1, <2>2 DEF TypeOK
  <2>4. CASE Allows(breaker[a])
    BY <1>0, <1>2, <2>3, <2>4 DEF Dispatch, TypeOK, IInv
  <2>5. CASE ~Allows(breaker[a])
    <3>1. Advance(t) /\ FallBack(t) /\ pc[t] = "dispatch"
          /\ UNCHANGED <<dlq, timing, pipe, outcome, made, opened, later>>
      BY <1>2, <2>5 DEF Dispatch
    <3>2. TypeOK'
      BY <1>0, <2>1, <2>3, <3>1, AdvanceType, FallBackType DEF TypeOK
    <3> QED BY <1>0, <2>3, <3>1, <3>2, AdvanceType DEF IInv
  <2> QED BY <2>4, <2>5
<1>3. ASSUME NEW t \in Runs, Return(t)
      PROVE  IInv'
  <2>1. PICK o \in Outcomes(Current(t)) : outcome' = [outcome EXCEPT ![t] = o]
    BY <1>3 DEF Return
  <2>2. o \in {"ok", "error", "invalid", "raises"}
    BY DEF Outcomes
  <2>3. /\ Calls(o) \in Seq({"success", "failure", "time", "log"})
        /\ 2 <= Len(Calls(o))
    BY <2>2, CallsLength
  <2>4. made[t] = 0
    BY <1>0, <1>3 DEF Return, TypeOK
  <2>5. o # None
    BY <2>2, NameAssumption
  <2> QED BY <1>0, <1>3, <2>1, <2>2, <2>3, <2>4, <2>5 DEF Return, TypeOK, IInv
<1>4. ASSUME NEW t \in Runs, Call(t)
      PROVE  IInv'
  <2> DEFINE a == Current(t)
  <2>1. a \in Agents /\ pc[t] = "calls"
        /\ outcome[t] \in {"ok", "error", "invalid", "raises"}
    BY <1>0, <1>4, CurrentType DEF Call, TypeOK
  <2>2. breaker' \in [Agents -> Breaker] /\ \A c \in Agents : Sound(breaker'[c])
    BY <1>0, <1>b, <1>4, <2>1 DEF Call, Effect, TypeOK
  <2>3. /\ dlq' \in Seq(DLQEntry) /\ Len(dlq') <= DLQMax
        /\ later' \in [Runs -> {None} \cup (0 .. DLQMax)]
    <3> DEFINE c == Calls(outcome[t])[made[t] + 1]
               e == [agent |-> a, error |-> outcome[t]]
    <3>1. CASE c = "log"
      <4>1. e \in DLQEntry
        <5>1. made[t] \in 0 .. 3 /\ made[t] < Len(Calls(outcome[t]))
          BY <1>0, <2>1 DEF TypeOK
        <5>2. outcome[t] # "ok"
          BY <2>1, <3>1, <5>1, LoggedOutcome
        <5> QED BY <2>1, <5>2 DEF DLQEntry
      <4>2. dlq' = Logged(dlq, e)
            /\ later' = [u \in Runs |-> IF u = t THEN 0
                                       ELSE IF later[u] = None THEN None
                                       ELSE UpTo(later[u], DLQMax)]
        BY <1>4, <3>1 DEF Call, Effect
      <4>3. \A n \in 0 .. DLQMax : UpTo(n, DLQMax) \in 0 .. DLQMax
        BY DLQAssumption DEF UpTo
      <4>4. later' \in [Runs -> {None} \cup (0 .. DLQMax)]
        BY <1>0, <4>2, <4>3, DLQAssumption DEF TypeOK
      <4> HIDE DEF e
      <4> QED BY <1>0, <4>1, <4>2, <4>4, LoggedType DEF TypeOK
    <3>2. CASE c # "log"
      BY <1>0, <1>4, <3>2 DEF Call, Effect, TypeOK
    <3> QED BY <3>1, <3>2
  <2>4. timing' \in [Agents -> Runs \cup {None}]
    BY <1>0, <1>4, <2>1 DEF Call, Effect, TypeOK
  <2>5. /\ Calls(outcome[t]) \in Seq({"success", "failure", "time", "log"})
        /\ Len(Calls(outcome[t])) <= 4
    BY <2>1, CallsLength
  <2>6. UNCHANGED <<pipe, opened>>
    BY <1>4 DEF Call
  <2>7. CASE made[t] + 1 < Len(Calls(outcome[t]))
    <3>1. /\ made' = [made EXCEPT ![t] = made[t] + 1]
          /\ UNCHANGED <<pc, pos, outcome, fallback>>
      BY <1>4, <2>7 DEF Call
    <3>2. made[t] \in 0 .. 3
      BY <1>0 DEF TypeOK
    <3>3. made[t] + 1 \in 0 .. 3
      BY <2>5, <2>7, <3>2
    <3>4. ASSUME NEW u \in Runs
          PROVE  /\ pc'[u] \in {"dispatch", "running", "calls"}
                    => pos'[u] <= Len(pipe'[u])
                 /\ pc'[u] # "calls" => made'[u] = 0
                 /\ pc'[u] = "calls" => /\ outcome'[u] # None
                                        /\ made'[u] < Len(Calls(outcome'[u]))
      <4>1. CASE u = t
        BY <1>0, <2>1, <2>6, <2>7, <3>1, <4>1 DEF TypeOK
      <4>2. CASE u # t
        BY <1>0, <2>6, <3>1, <4>2 DEF TypeOK
      <4> QED BY <4>1, <4>2
    <3>5. made' \in [Runs -> 0 .. 3]
      BY <1>0, <3>1, <3>3 DEF TypeOK
    <3>6. TypeOK'
      BY <1>0, <2>2, <2>3, <2>4, <2>6, <3>1, <3>4, <3>5 DEF TypeOK
    <3> QED BY <2>2, <3>6 DEF IInv
  <2>8. CASE ~(made[t] + 1 < Len(Calls(outcome[t])))
    <3>1. Advance(t) /\ outcome' = [outcome EXCEPT ![t] = None]
          /\ made' = [made EXCEPT ![t] = 0]
          /\ (UNCHANGED fallback \/ FallBack(t))
      BY <1>4, <2>8 DEF Call
    <3>2. fallback' \in [Runs -> Seq(Agents)]
      BY <1>0, <2>1, <3>1, FallBackType DEF TypeOK
    <3>3. ASSUME NEW u \in Runs
          PROVE  /\ pc'[u] \in {"dispatch", "running", "calls"}
                    => pos'[u] <= Len(pipe'[u])
                 /\ pc'[u] # "calls" => made'[u] = 0
                 /\ pc'[u] = "calls" => /\ outcome'[u] # None
                                        /\ made'[u] < Len(Calls(outcome'[u]))
      <4>1. CASE u = t
        BY <1>0, <2>6, <3>1, <4>1, AdvanceType DEF TypeOK
      <4>2. CASE u # t
        <5>1. pc'[u] = pc[u] /\ pos'[u] = pos[u]
          BY <1>0, <2>6, <3>1, <4>2, AdvanceType
        <5> QED BY <1>0, <2>6, <3>1, <4>2, <5>1 DEF TypeOK
      <4> QED BY <4>1, <4>2
    <3>4. made' \in [Runs -> 0 .. 3]
          /\ outcome' \in [Runs -> {None, "ok", "error", "invalid", "raises"}]
      BY <1>0, <3>1 DEF TypeOK
    <3>5. /\ pc' \in [Runs -> {"idle", "dispatch", "running", "calls",
                              "inspect", "report"}]
          /\ pos' \in [Runs -> Nat \ {0}]
      BY <1>0, <2>6, <3>1, AdvanceType
    <3>6. TypeOK'
      BY <1>0, <2>2, <2>3, <2>4, <2>6, <3>2, <3>3, <3>4, <3>5 DEF TypeOK
    <3> QED BY <2>2, <3>6 DEF IInv
  <2> QED BY <2>7, <2>8
<1>5. ASSUME NEW t \in Runs, Inspect(t)
      PROVE  IInv'
  <2>1. CASE pos[t] <= Len(AllNames)
    <3> DEFINE a == AllNames[pos[t]]
    <3>1. a \in Agents
      BY <1>0, <2>1 DEF TypeOK, Agents
    <3>2. /\ pc[t] = "inspect"
          /\ breaker' = [breaker EXCEPT ![a] = Looked(breaker[a])]
          /\ opened' = [opened EXCEPT ![t] = IF Allows(breaker[a]) THEN @
                                             ELSE @ \cup {a}]
          /\ pos' = [pos EXCEPT ![t] = @ + 1]
          /\ UNCHANGED <<pc, dlq, timing, pipe, outcome, made, fallback, later>>
      BY <1>5, <2>1 DEF Inspect
    <3>3. breaker' \in [Agents -> Breaker] /\ \A c \in Agents : Sound(breaker'[c])
      BY <1>0, <1>b, <3>1, <3>2 DEF TypeOK
    <3> HIDE DEF a
    <3> QED BY <1>0, <3>1, <3>2, <3>3 DEF TypeOK, IInv
  <2>2. CASE ~(pos[t] <= Len(AllNames))
    BY <1>0, <1>5, <2>2 DEF Inspect, TypeOK, IInv
  <2> QED BY <2>1, <2>2
<1>6. ASSUME NEW t \in Runs, Report(t)
      PROVE  IInv'
  BY <1>0, <1>6 DEF Report, TypeOK, IInv
<1>7. CASE Tick
  BY <1>0, <1>b, <1>7 DEF Tick, run, TypeOK, IInv
<1>8. CASE UNCHANGED vars
  BY <1>0, <1>8 DEF vars, TypeOK, IInv, Current
<1> QED BY <1>1, <1>2, <1>3, <1>4, <1>5, <1>6, <1>7, <1>8 DEF Next, Step

LEMMA Inductive == Spec => []IInv
BY Initially, Invariance, PTL DEF Spec

(* Every variable has its type. *)
THEOREM TypeCorrect == Spec => []TypeOK
<1>1. IInv => TypeOK
  BY DEF IInv
<1> QED BY <1>1, Inductive, PTL

(* However many runs share a circuit breaker, its state and its count agree:
   a failed probe opens the circuit again at once. *)
THEOREM BreakerCorrect == Spec => []ClosedIffBelowThreshold
<1>1. IInv => ClosedIffBelowThreshold
  BY DEF IInv, Sound, ClosedIffBelowThreshold
<1> QED BY <1>1, Inductive, PTL

-----------------------------------------------------------------------------
(* One run at a time: no success and no failure is recorded for an agent
   whose circuit is open. *)
Armed(o, n) == \/ o = "invalid"
               \/ o = "raises" /\ n <= 2
               \/ o \in {"ok", "error"} /\ n = 0

Recording(t) == pc[t] = "running" \/ (pc[t] = "calls" /\ Armed(outcome[t], made[t]))

SInv == \A t \in Runs : Recording(t) => breaker[Current(t)].state # "open"

(* The calls that record are those made while a run is armed, and a failure
   is the last of them. *)
LEMMA ArmedCalls ==
    ASSUME NEW o \in {"ok", "error", "invalid", "raises"}, NEW n \in 0 .. 3,
           n < Len(Calls(o))
    PROVE  LET c == Calls(o)[n + 1] IN
           /\ c \in {"success", "failure"} => Armed(o, n)
           /\ n + 1 < Len(Calls(o)) /\ Armed(o, n + 1)
              => Armed(o, n) /\ c # "failure"
<1>1. CASE o = "ok"
  BY <1>1 DEF Calls, Armed
<1>2. CASE o = "error"
  BY <1>2 DEF Calls, Armed
<1>3. CASE o = "invalid"
  BY <1>3 DEF Calls, Armed
<1>4. CASE o = "raises"
  BY <1>4 DEF Calls, Armed
<1> QED BY <1>1, <1>2, <1>3, <1>4

Rest(b) == IF b.state = "open" THEN b.age ELSE 0

(* The states and rest times a single breaker may go through. *)
Moves(b, c) == \/ b.state = c.state /\ Rest(b) = Rest(c)
               \/ b.state # "open" /\ c.state = "open" /\ Rest(c) = 0
               \/ b.state = "open" /\ b.age = Timeout /\ c.state = "half-open"
               \/ b.state = "half-open" /\ c.state = "closed"

LEMMA LookedMoves == ASSUME NEW b \in Breaker PROVE Moves(b, Looked(b))
BY DEF Moves, Looked, Rest, Breaker

LEMMA RecordedMoves ==
    ASSUME NEW b, Sound(b), b.state # "open"
    PROVE  Moves(b, Succeeded(b)) /\ Moves(b, Failed(b))
BY ThresholdAssumption DEF Moves, Succeeded, Failed, UpTo, Rest, Breaker, Sound

(* A step that moves one breaker is a step of the protocol. *)
LEMMA ProtocolStep ==
    ASSUME NEW a \in Agents, NEW b, Moves(breaker[a], b),
           breaker \in [Agents -> Breaker], b \in Breaker,
           breaker' = [breaker EXCEPT ![a] = b]
    PROVE  [Circuit!Next]_(Circuit!vars)
<1> USE DEF Rest
<1>1. CASE breaker[a].state = b.state /\ Rest(breaker[a]) = Rest(b)
  BY <1>1 DEF Circuit!vars
<1>2. CASE breaker[a].state # "open" /\ b.state = "open" /\ Rest(b) = 0
  <2>1. Circuit!Trip(a)
    BY <1>2 DEF Circuit!Trip, Circuit!Move, Breaker
  <2> QED BY <2>1 DEF Circuit!Next
<1>3. CASE breaker[a].state = "open" /\ breaker[a].age = Timeout
           /\ b.state = "half-open"
  <2>1. Circuit!Probe(a)
    BY <1>3 DEF Circuit!Probe, Circuit!Move
  <2> QED BY <2>1 DEF Circuit!Next
<1>4. CASE breaker[a].state = "half-open" /\ b.state = "closed"
  <2>1. Circuit!Close(a)
    BY <1>4 DEF Circuit!Close, Circuit!Move
  <2> QED BY <2>1 DEF Circuit!Next
<1> QED BY <1>1, <1>2, <1>3, <1>4 DEF Moves

(* What a step of a run does to the breakers, when no other run is active. *)
LEMMA SerialStep ==
    ASSUME IInv, SInv, NEW t \in Runs, Start(t) \/ Step(t)
    PROVE  \/ UNCHANGED breaker
           \/ \E a \in Agents : \E b \in Breaker :
                 /\ Moves(breaker[a], b)
                 /\ breaker' = [breaker EXCEPT ![a] = b]
<1>0. TypeOK /\ \A a \in Agents : Sound(breaker[a]) /\ breaker[a] \in Breaker
  BY DEF IInv, Sound
<1>1. CASE Dispatch(t)
  <2>1. Current(t) \in Agents
        /\ breaker' = [breaker EXCEPT ![Current(t)] = Looked(breaker[Current(t)])]
    BY <1>0, <1>1, CurrentType DEF Dispatch
  <2>2. Looked(breaker[Current(t)]) \in Breaker
    BY <1>0, <2>1, BreakerOperations DEF Sound
  <2> QED BY <1>0, <2>1, <2>2, LookedMoves
<1>2. CASE Call(t)
  <2> DEFINE a == Current(t)
             c == Calls(outcome[t])[made[t] + 1]
  <2>1. a \in Agents /\ pc[t] = "calls"
        /\ outcome[t] \in {"ok", "error", "invalid", "raises"}
        /\ made[t] \in 0 .. 3 /\ made[t] < Len(Calls(outcome[t]))
    BY <1>0, <1>2, CurrentType DEF Call, TypeOK
  <2>2. c \in {"success", "failure"} => breaker[a].state # "open"
    BY <2>1, ArmedCalls DEF SInv, Recording
  <2>3. breaker' = CASE c = "success" -> [breaker EXCEPT ![a] = Succeeded(breaker[a])]
                     [] c = "failure" -> [breaker EXCEPT ![a] = Failed(breaker[a])]
                     [] OTHER -> breaker
    BY <1>2 DEF Call, Effect
  <2>4. Succeeded(breaker[a]) \in Breaker /\ Failed(breaker[a]) \in Breaker
    BY <1>0, <2>1, BreakerOperations DEF Sound
  <2> HIDE DEF a, c
  <2>5. CASE c = "success"
    BY <1>0, <2>1, <2>2, <2>3, <2>4, <2>5, RecordedMoves
  <2>6. CASE c = "failure"
    BY <1>0, <2>1, <2>2, <2>3, <2>4, <2>6, RecordedMoves
  <2>7. CASE c \notin {"success", "failure"}
    BY <2>3, <2>7
  <2> QED BY <2>5, <2>6, <2>7
<1>3. CASE Inspect(t)
  <2>1. CASE pos[t] <= Len(AllNames)
    <3>1. AllNames[pos[t]] \in Agents
          /\ breaker' = [breaker EXCEPT ![AllNames[pos[t]]] =
                            Looked(breaker[AllNames[pos[t]]])]
      BY <1>0, <1>3, <2>1 DEF Inspect, TypeOK, Agents
    <3>2. Looked(breaker[AllNames[pos[t]]]) \in Breaker
      BY <1>0, <3>1, BreakerOperations DEF Sound
    <3> QED BY <1>0, <3>1, <3>2, LookedMoves
  <2>2. CASE ~(pos[t] <= Len(AllNames))
    BY <1>3, <2>2 DEF Inspect
  <2> QED BY <2>1, <2>2
<1> QED BY <1>1, <1>2, <1>3 DEF Step, Start, Return, Report

LEMMA SerialInvariance ==
    ASSUME Serial, IInv, SInv, [Next]_vars, IInv'
    PROVE  SInv'
<1>0. TypeOK /\ TypeOK' /\ \A a \in Agents : Sound(breaker[a])
  BY DEF IInv
<1>1. ASSUME NEW t \in Runs, Start(t)
      PROVE  SInv'
  BY <1>0, <1>1 DEF Start, TypeOK, SInv, Recording, Serial
<1>2. ASSUME NEW t \in Runs, Dispatch(t)
      PROVE  SInv'
  <2>1. Current(t) \in Agents /\ pc[t] = "dispatch"
        /\ breaker' = [breaker EXCEPT ![Current(t)] = Looked(breaker[Current(t)])]
    BY <1>0, <1>2, CurrentType DEF Dispatch
  <2>2. CASE Allows(breaker[Current(t)])
    <3>1. pc'[t] = "running" /\ UNCHANGED <<pipe, pos>>
      BY <1>0, <1>2, <2>2 DEF Dispatch, TypeOK
    <3>2. breaker'[Current(t)].state # "open"
      BY <1>0, <2>1, <2>2 DEF Allows, TypeOK
    <3> QED BY <3>1, <3>2 DEF SInv, Recording, Serial, Current
  <2>3. CASE ~Allows(breaker[Current(t)])
    <3>1. Advance(t) /\ UNCHANGED pipe
      BY <1>2, <2>3 DEF Dispatch
    <3>2. pc'[t] \in {"dispatch", "inspect"}
      BY <1>0, <3>1, AdvanceType
    <3> QED BY <3>2 DEF SInv, Recording, Serial
  <2> QED BY <2>2, <2>3
<1>3. ASSUME NEW t \in Runs, Return(t)
      PROVE  SInv'
  BY <1>0, <1>3 DEF Return, TypeOK, SInv, Recording, Serial, Current
<1>4. ASSUME NEW t \in Runs, Call(t)
      PROVE  SInv'
  <2> DEFINE c == Calls(outcome[t])[made[t] + 1]
  <2>1. Current(t) \in Agents /\ pc[t] = "calls"
        /\ outcome[t] \in {"ok", "error", "invalid", "raises"}
        /\ made[t] \in 0 .. 3 /\ made[t] < Len(Calls(outcome[t]))
    BY <1>0, <1>4, CurrentType DEF Call, TypeOK
  <2>2. CASE made[t] + 1 < Len(Calls(outcome[t]))
    <3>1. /\ UNCHANGED <<pc, pos, outcome, pipe>>
          /\ made' = [made EXCEPT ![t] = made[t] + 1]
      BY <1>4, <2>2 DEF Call
    <3>2. Armed(outcome[t], made[t] + 1)
          => Armed(outcome[t], made[t]) /\ c # "failure"
      BY <2>1, <2>2, ArmedCalls
    <3>3. c # "failure" => \/ UNCHANGED breaker
                           \/ breaker'[Current(t)].state = "closed"
      BY <1>0, <1>4, <2>1 DEF Call, Effect, TypeOK, Succeeded
    <3>4. made'[t] = made[t] + 1
      BY <1>0, <3>1 DEF TypeOK
    <3> HIDE DEF c
    <3> QED BY <2>1, <3>1, <3>2, <3>3, <3>4 DEF SInv, Recording, Serial, Current
  <2>3. CASE ~(made[t] + 1 < Len(Calls(outcome[t])))
    <3>1. Advance(t) /\ UNCHANGED pipe
      BY <1>4, <2>3 DEF Call
    <3>2. pc'[t] \in {"dispatch", "inspect"}
      BY <1>0, <3>1, AdvanceType
    <3> QED BY <3>2 DEF SInv, Recording, Serial
  <2> QED BY <2>2, <2>3
<1>5. ASSUME NEW t \in Runs, Inspect(t) \/ Report(t)
      PROVE  SInv'
  BY <1>0, <1>5 DEF Inspect, Report, TypeOK, SInv, Recording, Serial
<1>6. CASE Tick
  BY <1>0, <1>6 DEF Tick, run, Aged, TypeOK, SInv, Recording, Current, Breaker
<1>7. CASE UNCHANGED vars
  BY <1>7 DEF vars, SInv, Recording, Current
<1> QED BY <1>1, <1>2, <1>3, <1>4, <1>5, <1>6, <1>7 DEF Next, Step

(* With one run at a time every circuit breaker, for any threshold and
   timeout, keeps the protocol of CircuitProtocol: no circuit closes or
   half-opens before its timeout. *)
THEOREM CircuitCorrect == ASSUME Serial PROVE Spec => CircuitSpec
<1>1. Init => SInv
  BY DEF Init, SInv, Recording
<1>2. IInv /\ IInv' /\ SInv /\ [Next]_vars => SInv'
  BY SerialInvariance
<1>3. Init => Circuit!Init
  BY DEF Init, NewBreaker, Circuit!Init
<1>4. ASSUME IInv, SInv, [Next]_vars
      PROVE  [Circuit!Next]_(Circuit!vars)
  <2>0. breaker \in [Agents -> Breaker]
    BY <1>4 DEF IInv, TypeOK
  <2>1. CASE \E t \in Runs : Start(t) \/ Step(t)
    BY <1>4, <2>0, <2>1, SerialStep, ProtocolStep DEF Circuit!vars
  <2>2. CASE Tick
    <3>1. breaker' = [a \in Agents |-> Aged(breaker[a])]
      BY <2>2 DEF Tick
    <3>2. \A a \in Agents :
             /\ breaker'[a].state = breaker[a].state
             /\ Rest(breaker'[a]) = IF /\ breaker[a].state = "open"
                                       /\ Rest(breaker[a]) < Timeout
                                    THEN Rest(breaker[a]) + 1
                                    ELSE Rest(breaker[a])
      <4> SUFFICES ASSUME NEW a \in Agents
                   PROVE  /\ breaker'[a].state = breaker[a].state
                          /\ Rest(breaker'[a]) =
                               IF breaker[a].state = "open" /\ Rest(breaker[a]) < Timeout
                               THEN Rest(breaker[a]) + 1 ELSE Rest(breaker[a])
        OBVIOUS
      <4>1. breaker[a] \in Breaker /\ breaker'[a] = Aged(breaker[a])
        BY <2>0, <3>1
      <4>2. /\ Aged(breaker[a]).state = breaker[a].state
            /\ Aged(breaker[a]).age = IF breaker[a].age < Timeout
                                      THEN breaker[a].age + 1 ELSE Timeout
        BY <4>1 DEF Aged, UpTo, Breaker
      <4>3. breaker[a].age \in Nat /\ breaker[a].age <= Timeout /\ Timeout \in Nat
        BY <4>1, TimeoutAssumption DEF Breaker
      <4> QED BY <4>1, <4>2, <4>3 DEF Rest
    <3>3. Circuit!Pass
      BY <3>2 DEF Circuit!Pass, Rest
    <3> QED BY <3>3 DEF Circuit!Next
  <2>3. CASE UNCHANGED vars
    BY <2>3 DEF vars, Circuit!vars
  <2> QED BY <1>4, <2>1, <2>2, <2>3 DEF Next
<1>5. IInv /\ SInv /\ [Next]_vars => [Circuit!Next]_(Circuit!vars)
  BY <1>4
<1> QED BY <1>1, <1>2, <1>3, <1>5, Inductive, PTL
        DEF Spec, CircuitSpec, Circuit!Spec
-----------------------------------------------------------------------------
(* What _run_agent leaves in the dead letter queue. *)
Entry(t) == [agent |-> Current(t), error |-> outcome[t]]

(* An entry lies behind those that were added later, unless they fill the
   queue. *)
Placed(queue, behind, e) ==
    /\ behind # None
    /\ \/ behind = DLQMax
       \/ behind < Len(queue) /\ queue[Len(queue) - behind] = e

(* A failure that is not the last call of its run has been logged before it. *)
LInv == \A t \in Runs : pc[t] = "calls" /\ outcome[t] = "invalid" /\ made[t] = 3
                        => Placed(dlq, later[t], Entry(t))

(* A new entry is the last one, and an old one goes one place further back
   until it has DLQMax newer ones behind it. *)
LEMMA LoggedPlaces ==
    ASSUME NEW queue \in Seq(DLQEntry), NEW e \in DLQEntry, Len(queue) <= DLQMax
    PROVE  /\ Placed(Logged(queue, e), 0, e)
           /\ \A n \in 0 .. DLQMax : \A f :
                 Placed(queue, n, f) => Placed(Logged(queue, e), UpTo(n, DLQMax), f)
<1> DEFINE longer == Append(queue, e)
           n == Len(queue) + 1
<1>1. longer \in Seq(DLQEntry) /\ Len(longer) = n /\ n \in Nat /\ longer[n] = e
      /\ \A i \in 1 .. n - 1 : longer[i] = queue[i]
  OBVIOUS
<1>0. DLQMax \in Nat /\ DLQMax > 0 /\ 0 # None
      /\ \A m \in Nat : m # None
  BY DLQAssumption, NameAssumption
(* Whether the queue is trimmed or not, its end is that of the longer one. *)
<1>2. ASSUME NEW q, NEW k \in Nat, k <= DLQMax, Len(q) = k, k > 0, k <= n,
             k = n \/ k = DLQMax,
             \A i \in 1 .. k : q[i] = longer[n - k + i]
      PROVE  /\ Placed(q, 0, e)
             /\ \A m \in 0 .. DLQMax : \A f :
                   Placed(queue, m, f) => Placed(q, UpTo(m, DLQMax), f)
  <2>1. q[k] = longer[n - k + k] /\ n - k + k = n
    BY <1>1, <1>2
  <2>2. Placed(q, 0, e)
    BY <1>0, <1>1, <1>2, <2>1 DEF Placed
  <2>3. ASSUME NEW m \in 0 .. DLQMax, NEW f, Placed(queue, m, f)
        PROVE  Placed(q, UpTo(m, DLQMax), f)
    <3>1. CASE m >= DLQMax - 1
      <4>1. UpTo(m, DLQMax) = DLQMax
        BY <1>0, <3>1 DEF UpTo
      <4> QED BY <1>0, <4>1 DEF Placed
    <3>2. CASE m < DLQMax - 1
      <4>1. UpTo(m, DLQMax) = m + 1
        BY <1>0, <3>2 DEF UpTo
      <4>2. m < n - 1 /\ queue[n - 1 - m] = f
        BY <1>0, <1>1, <2>3, <3>2 DEF Placed
      <4>3. m + 1 < k /\ k - (m + 1) \in 1 .. k
            /\ n - k + (k - (m + 1)) = n - 1 - m /\ n - 1 - m \in 1 .. n - 1
        <5> HIDE DEF n, longer
        <5> QED BY <1>0, <1>1, <1>2, <3>2, <4>2
      <4>4. q[k - (m + 1)] = longer[n - 1 - m]
        BY <1>2, <4>3
      <4>5. q[k - (m + 1)] = f
        BY <1>1, <4>2, <4>3, <4>4
      <4> QED BY <1>0, <1>2, <4>1, <4>3, <4>5 DEF Placed
    <3> QED BY <1>0, <3>1, <3>2
  <2> QED BY <2>2, <2>3
<1>3. CASE n <= DLQMax
  <2>1. Logged(queue, e) = longer
    BY <1>1, <1>3, DLQAssumption DEF Logged
  <2>2. \A i \in 1 .. n : longer[i] = longer[n - n + i]
    BY <1>1
  <2>3. n \in Nat /\ n > 0 /\ n <= n /\ Len(longer) = n
    BY <1>1
  <2> HIDE DEF longer, n
  <2>4. /\ Placed(longer, 0, e)
        /\ \A m \in 0 .. DLQMax : \A f :
              Placed(queue, m, f) => Placed(longer, UpTo(m, DLQMax), f)
    BY <1>2, <1>3, <2>2, <2>3
  <2> QED BY <2>1, <2>4
<1>4. CASE n > DLQMax
  <2> DEFINE kept == SubSeq(longer, n - DLQMax + 1, n)
  <2>1. n - DLQMax + 1 \in 1 .. n /\ n \in 1 .. n /\ n - DLQMax + 1 <= n + 1
    BY <1>1, <1>4, DLQAssumption
  <2>2. Logged(queue, e) = kept
    BY <1>1, <1>4, DLQAssumption DEF Logged
  <2> HIDE DEF longer, n
  <2>3. /\ Len(kept) = n - (n - DLQMax + 1) + 1
        /\ \A i \in 1 .. n - (n - DLQMax + 1) + 1 :
              kept[i] = longer[n - DLQMax + 1 + i - 1]
    BY <1>1, <2>1, SubSeqProperties
  <2>4. n - (n - DLQMax + 1) + 1 = DLQMax
    BY <1>0, <1>1
  <2>5. Len(kept) = DLQMax
    BY <2>3, <2>4
  <2> HIDE DEF kept
  <2>6. ASSUME NEW i \in 1 .. DLQMax
        PROVE  kept[i] = longer[n - DLQMax + i]
    <3>1. n - DLQMax + 1 + i - 1 = n - DLQMax + i
      BY <1>0, <1>1
    <3>2. i \in 1 .. n - (n - DLQMax + 1) + 1
      BY <2>4
    <3> QED BY <2>3, <3>1, <3>2
  <2>7. DLQMax \in Nat /\ DLQMax <= DLQMax /\ DLQMax > 0 /\ DLQMax <= n
    BY <1>0, <1>1, <1>4
  <2>8. /\ Placed(kept, 0, e)
        /\ \A m \in 0 .. DLQMax : \A f :
              Placed(queue, m, f) => Placed(kept, UpTo(m, DLQMax), f)
    BY <1>2, <2>5, <2>6, <2>7
  <2> QED BY <2>2, <2>8
<1> QED BY <1>0, <1>1, <1>3, <1>4

(* The call that logs, and what is left to do after it. *)
LEMMA LoggingCalls ==
    ASSUME NEW o \in {"error", "invalid", "raises"}, NEW n \in 0 .. 3,
           n < Len(Calls(o))
    PROVE  /\ n + 1 = Len(Calls(o))
              => Calls(o)[n + 1] = "log" \/ (o = "invalid" /\ n = 3)
           /\ o = "invalid" /\ n + 1 = 3 => Calls(o)[n + 1] = "log"
<1>1. CASE o = "error"
  BY <1>1 DEF Calls
<1>2. CASE o = "invalid"
  BY <1>2 DEF Calls
<1>3. CASE o = "raises"
  BY <1>3 DEF Calls
<1> QED BY <1>1, <1>2, <1>3

(* What a call does to the queue. *)
LEMMA CallQueue ==
    ASSUME TypeOK, NEW t \in Runs, Call(t)
    PROVE  /\ \A u \in Runs : \A f : u # t /\ Placed(dlq, later[u], f)
                                 => Placed(dlq', later'[u], f)
           /\ IF Calls(outcome[t])[made[t] + 1] = "log"
              THEN Placed(dlq', later'[t], Entry(t))
              ELSE UNCHANGED <<dlq, later>>
<1>1. pc[t] = "calls" /\ Current(t) \in Agents
      /\ outcome[t] \in {"ok", "error", "invalid", "raises"}
      /\ made[t] \in 0 .. 3 /\ made[t] < Len(Calls(outcome[t]))
  BY CurrentType DEF Call, TypeOK
<1> DEFINE c == Calls(outcome[t])[made[t] + 1]
<1>2. CASE c = "log"
  <2>1. Entry(t) \in DLQEntry
    BY <1>1, <1>2, LoggedOutcome DEF DLQEntry, Entry
  <2>2. dlq' = Logged(dlq, Entry(t))
        /\ later' = [u \in Runs |-> IF u = t THEN 0
                                   ELSE IF later[u] = None THEN None
                                   ELSE UpTo(later[u], DLQMax)]
    BY <1>2 DEF Call, Effect, Entry
  <2>3. ASSUME NEW u \in Runs, NEW f, u # t, Placed(dlq, later[u], f)
        PROVE  Placed(dlq', later'[u], f)
    <3>1. later[u] \in 0 .. DLQMax /\ later[u] # None
      BY <2>3 DEF Placed, TypeOK
    <3>2. later'[u] = UpTo(later[u], DLQMax)
      BY <2>2, <2>3, <3>1
    <3> QED BY <2>1, <2>2, <2>3, <3>1, <3>2, LoggedPlaces DEF TypeOK
  <2>4. Placed(dlq', later'[t], Entry(t))
    BY <2>1, <2>2, LoggedPlaces DEF TypeOK
  <2> QED BY <1>2, <2>3, <2>4
<1>3. CASE c # "log"
  <2>1. UNCHANGED <<dlq, later>>
    BY <1>3 DEF Call, Effect
  <2> QED BY <1>3, <2>1
<1> QED BY <1>2, <1>3

(* Only Call touches the queue, and only the run that moves its calls. *)
LEMMA LoggingStep ==
    ASSUME IInv, LInv, [Next]_vars
    PROVE  LInv'
<1>0. TypeOK
  BY DEF IInv
<1>1. ASSUME NEW t \in Runs, Call(t)
      PROVE  LInv'
  <2>1. pc[t] = "calls" /\ outcome[t] \in {"ok", "error", "invalid", "raises"}
        /\ made[t] \in 0 .. 3 /\ made[t] < Len(Calls(outcome[t])) /\ UNCHANGED pipe
    BY <1>0, <1>1 DEF Call, TypeOK
  <2>2. ASSUME NEW u \in Runs, u # t, pc'[u] = "calls", outcome'[u] = "invalid",
               made'[u] = 3
        PROVE  Placed(dlq', later'[u], Entry(u)')
    <3>1. pc'[u] = pc[u] /\ pos'[u] = pos[u]
      <4>1. CASE made[t] + 1 < Len(Calls(outcome[t]))
        BY <1>1, <4>1 DEF Call
      <4>2. CASE ~(made[t] + 1 < Len(Calls(outcome[t])))
        BY <1>0, <1>1, <2>1, <2>2, <4>2, AdvanceType DEF Call
      <4> QED BY <4>1, <4>2
    <3>2. outcome'[u] = outcome[u] /\ made'[u] = made[u]
      BY <1>0, <1>1, <2>2 DEF Call, TypeOK
    <3>3. Entry(u)' = Entry(u)
      BY <2>1, <3>1, <3>2 DEF Current, Entry
    <3>4. Placed(dlq, later[u], Entry(u))
      BY <2>2, <3>1, <3>2 DEF LInv
    <3> QED BY <1>0, <1>1, <2>2, <3>3, <3>4, CallQueue
  <2>3. ASSUME pc'[t] = "calls", outcome'[t] = "invalid", made'[t] = 3
        PROVE  Placed(dlq', later'[t], Entry(t)')
    <3>1. CASE made[t] + 1 < Len(Calls(outcome[t]))
      <4>1. /\ UNCHANGED <<pc, pos, outcome, pipe>>
            /\ made' = [made EXCEPT ![t] = made[t] + 1]
        BY <1>1, <3>1 DEF Call
      <4>2. made[t] + 1 = 3 /\ outcome[t] = "invalid"
        BY <1>0, <2>3, <4>1 DEF TypeOK
      <4>3. Calls(outcome[t])[made[t] + 1] = "log"
        BY <2>1, <4>2, LoggingCalls
      <4>4. Entry(t)' = Entry(t)
        BY <4>1 DEF Current, Entry
      <4> QED BY <1>0, <1>1, <4>3, <4>4, CallQueue
    <3>2. CASE ~(made[t] + 1 < Len(Calls(outcome[t])))
      BY <1>0, <1>1, <2>1, <2>3, <3>2, AdvanceType DEF Call
    <3> QED BY <3>1, <3>2
  <2> QED BY <2>2, <2>3 DEF LInv
<1>2. ASSUME NEW t \in Runs, Start(t)
      PROVE  LInv'
  BY <1>0, <1>2 DEF Start, LInv, TypeOK, Current, Entry
<1>3. ASSUME NEW t \in Runs, Dispatch(t)
      PROVE  LInv'
  <2>1. pc[t] = "dispatch" /\ UNCHANGED <<dlq, pipe, outcome, made, later>>
    BY <1>3 DEF Dispatch
  <2>2. pc'[t] # "calls"
        /\ \A u \in Runs : u # t => pc'[u] = pc[u] /\ pos'[u] = pos[u]
    <3>1. CASE Allows(breaker[Current(t)])
      BY <1>0, <1>3, <3>1 DEF Dispatch, TypeOK
    <3>2. CASE ~Allows(breaker[Current(t)])
      BY <1>0, <1>3, <2>1, <3>2, AdvanceType DEF Dispatch
    <3> QED BY <3>1, <3>2
  <2> QED BY <2>1, <2>2 DEF LInv, Current, Entry
<1>4. ASSUME NEW t \in Runs, Return(t)
      PROVE  LInv'
  <2>1. made[t] = 0 /\ UNCHANGED <<dlq, pipe, pos, made>>
    BY <1>0, <1>4 DEF Return, TypeOK
  <2>2. \A u \in Runs : u # t => /\ pc'[u] = pc[u] /\ outcome'[u] = outcome[u]
                                 /\ later'[u] = later[u]
    BY <1>0, <1>4 DEF Return, TypeOK
  <2> QED BY <2>1, <2>2 DEF LInv, Current, Entry
<1>5. ASSUME NEW t \in Runs, Inspect(t)
      PROVE  LInv'
  <2>1. pc[t] = "inspect" /\ UNCHANGED <<dlq, pipe, outcome, made, later>>
    BY <1>5 DEF Inspect
  <2>2. pc'[t] # "calls"
        /\ \A u \in Runs : u # t => pc'[u] = pc[u] /\ pos'[u] = pos[u]
    BY <1>0, <1>5 DEF Inspect, TypeOK
  <2> QED BY <2>1, <2>2 DEF LInv, Current, Entry
<1>6. ASSUME NEW t \in Runs, Report(t)
      PROVE  LInv'
  BY <1>0, <1>6 DEF Report, LInv, TypeOK, Current, Entry
<1>7. CASE Tick
  BY <1>7 DEF Tick, run, LInv, Current, Entry
<1>8. CASE UNCHANGED vars
  BY <1>8 DEF vars, LInv, Current, Entry
<1> QED BY <1>1, <1>2, <1>3, <1>4, <1>5, <1>6, <1>7, <1>8 DEF Next, Step

(* Only Call ends an execution. *)
LEMMA EndOfExecution ==
    ASSUME IInv, [Next]_vars, NEW t \in Runs,
           outcome[t] \notin {None, "ok"}, outcome'[t] = None
    PROVE  Call(t) /\ made[t] + 1 = Len(Calls(outcome[t]))
<1>0. TypeOK /\ outcome[t] # None /\ outcome[t] \in {"error", "invalid", "raises"}
  BY DEF IInv, TypeOK
<1>1. ASSUME NEW u \in Runs, Return(u)
      PROVE  FALSE
  <2>1. PICK o \in Outcomes(Current(u)) : outcome' = [outcome EXCEPT ![u] = o]
    BY <1>1 DEF Return
  <2>2. o # None
    BY <2>1, NameAssumption DEF Outcomes
  <2> QED BY <1>0, <2>1, <2>2 DEF TypeOK
<1>2. ASSUME NEW u \in Runs, Call(u)
      PROVE  Call(t) /\ made[t] + 1 = Len(Calls(outcome[t]))
  <2>1. CASE made[u] + 1 < Len(Calls(outcome[u]))
    BY <1>0, <1>2, <2>1 DEF Call
  <2>2. CASE ~(made[u] + 1 < Len(Calls(outcome[u])))
    <3>1. u = t
      BY <1>0, <1>2, <2>2 DEF Call, TypeOK
    <3>2. made[t] \in 0 .. 3 /\ made[t] < Len(Calls(outcome[t]))
      BY <1>0, <1>2, <3>1 DEF Call, TypeOK
    <3>3. Len(Calls(outcome[t])) \in Nat
      BY <1>0, CallsLength
    <3>4. made[t] + 1 = Len(Calls(outcome[t]))
      BY <2>2, <3>1, <3>2, <3>3
    <3> QED BY <1>2, <3>1, <3>4
  <2> QED BY <2>1, <2>2
<1>3. CASE Tick
  BY <1>0, <1>3 DEF Tick, run
<1>4. ASSUME NEW u \in Runs, Start(u) \/ Dispatch(u) \/ Inspect(u) \/ Report(u)
      PROVE  FALSE
  BY <1>0, <1>4 DEF Start, Dispatch, Inspect, Report
<1>5. CASE UNCHANGED vars
  BY <1>0, <1>5 DEF vars
<1> QED BY <1>1, <1>2, <1>3, <1>4, <1>5 DEF Next, Step

(* Whatever the other runs log meanwhile, and however full the queue was, the
   entry of an agent that a run executed and gave up on is in the queue, behind
   those added later, unless DLQMax of them were. *)
THEOREM FailuresAreLogged == Spec => FailuresLogged
<1>1. Init => LInv
  BY DEF Init, LInv
<1>2. IInv /\ LInv /\ [Next]_vars => LInv'
  BY LoggingStep
<1>3. ASSUME IInv, LInv, [Next]_vars, NEW t \in Runs,
             outcome[t] \notin {None, "ok"}, outcome'[t] = None
      PROVE  OnRecord(t, dlq', later'[t], outcome[t])
  <2>1. Call(t) /\ made[t] + 1 = Len(Calls(outcome[t]))
    BY <1>3, EndOfExecution
  <2>2. TypeOK /\ outcome[t] \in {"error", "invalid", "raises"} /\ pc[t] = "calls"
        /\ made[t] \in 0 .. 3 /\ made[t] < Len(Calls(outcome[t]))
    BY <1>3, <2>1 DEF IInv, TypeOK, Call
  <2>3. Calls(outcome[t])[made[t] + 1] = "log" \/ (outcome[t] = "invalid" /\ made[t] = 3)
    BY <2>1, <2>2, LoggingCalls
  <2>4. Placed(dlq', later'[t], Entry(t))
    <3>1. CASE Calls(outcome[t])[made[t] + 1] = "log"
      BY <2>1, <2>2, <3>1, CallQueue
    <3>2. CASE Calls(outcome[t])[made[t] + 1] # "log"
      <4>1. UNCHANGED <<dlq, later>>
        BY <2>1, <2>2, <3>2, CallQueue
      <4>2. Placed(dlq, later[t], Entry(t))
        BY <1>3, <2>2, <2>3, <3>2 DEF LInv
      <4> QED BY <4>1, <4>2
    <3> QED BY <3>1, <3>2
  <2> QED BY <2>4 DEF Placed, OnRecord, Entry
<1>4. IInv /\ LInv /\ [Next]_vars
      => [\A t \in Runs :
            outcome[t] \notin {None, "ok"} /\ outcome'[t] = None
            => OnRecord(t, dlq', later'[t], outcome[t])]_vars
  BY <1>3
<1> QED BY <1>1, <1>2, <1>4, Inductive, PTL DEF Spec, FailuresLogged

-----------------------------------------------------------------------------
(* One run at a time: what the report says of the agents a run has passed. *)
Past(t) == { i \in 1 .. Len(pipe[t]) : \/ pc[t] \in {"inspect", "report"}
                                       \/ pc[t] # "idle" /\ i < pos[t] }

Listed(t, a) == \E j \in 1 .. Len(fallback[t]) : fallback[t][j] = a

Distinct(p) == \A i, j \in 1 .. Len(p) : p[i] = p[j] => i = j

(* The circuit of an agent that has passed stays closed until the report. *)
PassedClosed(t) ==
    \A i \in Past(t) : ~Listed(t, pipe[t][i])
                       => /\ breaker[pipe[t][i]].state = "closed"
                          /\ pipe[t][i] \notin opened[t]

Succeeding(t) == pc[t] = "calls" /\ outcome[t] = "ok" /\ made[t] = 1

RInv == \A t \in Runs :
          /\ Distinct(pipe[t])
          /\ pc[t] \notin {"inspect", "report"} => opened[t] = {}
          /\ PassedClosed(t)
          /\ Succeeding(t) => breaker[Current(t)].state = "closed"

LEMMA PipelineDistinct ==
    ASSUME NEW p \in Pipelines
    PROVE  Distinct(p)
BY PipelineAssumption DEF Pipelines, Distinct

(* The run leaves its agent with the agent in the fallbacks, or with its
   circuit closed. *)
LEMMA AgentLeft ==
    ASSUME TypeOK, RInv, NEW t \in Runs, Advance(t), UNCHANGED <<pipe, opened>>,
           pc[t] \in {"dispatch", "calls"},
           breaker' = [breaker EXCEPT ![Current(t)] = breaker'[Current(t)]],
           \/ FallBack(t)
           \/ UNCHANGED fallback /\ breaker'[Current(t)].state = "closed"
    PROVE  PassedClosed(t)' /\ (pc'[t] \notin {"inspect", "report"} => opened'[t] = {})
<1>1. Current(t) \in Agents /\ pos[t] \in 1 .. Len(pipe[t]) /\ pos[t] \in Nat
      /\ Len(pipe[t]) \in Nat /\ pc'[t] \in {"dispatch", "inspect"} /\ opened[t] = {}
  <2>1. pc[t] \in {"dispatch", "running", "calls"} /\ pc[t] \notin {"inspect", "report"}
    OBVIOUS
  <2>2. Current(t) \in Agents /\ pos[t] \in 1 .. Len(pipe[t])
    BY <2>1, CurrentType
  <2>3. opened[t] = {}
    BY <2>1 DEF RInv
  <2>4. pc'[t] \in {"dispatch", "inspect"}
    BY AdvanceType
  <2> QED BY <2>2, <2>3, <2>4 DEF TypeOK
<1>2. \A i \in 1 .. Len(pipe[t]) : i \in Past(t)' => i < pos[t] \/ i = pos[t]
  <2>1. CASE pos[t] < Len(pipe[t])
    <3>1. pos' = [pos EXCEPT ![t] = pos[t] + 1] /\ pc' = [pc EXCEPT ![t] = "dispatch"]
      BY <2>1 DEF Advance
    <3>2. pos'[t] = pos[t] + 1 /\ pc'[t] = "dispatch"
      BY <3>1 DEF TypeOK
    <3> QED BY <1>1, <3>2 DEF Past
  <2>2. CASE ~(pos[t] < Len(pipe[t]))
    BY <1>1, <2>2
  <2> QED BY <2>1, <2>2
<1>3. ASSUME NEW i \in Past(t)', ~Listed(t, pipe[t][i])'
      PROVE  breaker'[pipe'[t][i]].state = "closed" /\ pipe'[t][i] \notin opened'[t]
  <2> DEFINE Later(a) == \E j \in 1 .. Len(fallback'[t]) : fallback'[t][j] = a
  <2>1. i \in 1 .. Len(pipe[t]) /\ pipe' = pipe /\ opened'[t] = {}
    BY <1>1 DEF Past
  <2>2. ~Later(pipe[t][i])
    BY <1>3, <2>1 DEF Listed
  <2>3. CASE i = pos[t]
    <3>1. pipe[t][i] = Current(t)
      BY <2>3 DEF Current
    <3>2. CASE FallBack(t)
      <4>1. fallback'[t] = Append(fallback[t], Current(t)) /\ fallback[t] \in Seq(Agents)
        BY <3>2 DEF FallBack, TypeOK
      <4>2. Later(Current(t))
        BY <1>1, <4>1
      <4> QED BY <2>2, <3>1, <4>2
    <3>3. CASE UNCHANGED fallback /\ breaker'[Current(t)].state = "closed"
      BY <2>1, <3>1, <3>3
    <3> QED BY <3>2, <3>3
  <2>4. CASE i < pos[t]
    <3>0. Listed(t, pipe[t][i]) => Later(pipe[t][i])
      <4>1. CASE FallBack(t)
        <5>1. fallback'[t] = Append(fallback[t], Current(t)) /\ fallback[t] \in Seq(Agents)
          BY <4>1 DEF FallBack, TypeOK
        <5> QED BY <1>1, <5>1 DEF Listed
      <4>2. CASE UNCHANGED fallback
        BY <4>2 DEF Listed
      <4> QED BY <4>1, <4>2
    <3>1. i \in Past(t) /\ ~Listed(t, pipe[t][i])
      BY <2>1, <2>2, <2>4, <3>0 DEF Past
    <3>2. breaker[pipe[t][i]].state = "closed"
      BY <3>1 DEF RInv, PassedClosed
    <3>3. pipe[t][i] # Current(t)
      BY <1>1, <2>1, <2>4 DEF RInv, Distinct, Current
    <3>4. pipe[t][i] \in Agents
      BY <2>1 DEF TypeOK
    <3>5. breaker'[pipe[t][i]] = breaker[pipe[t][i]]
      BY <3>3, <3>4 DEF TypeOK
    <3> QED BY <2>1, <3>2, <3>5
  <2> QED BY <1>2, <2>1, <2>3, <2>4
<1> QED BY <1>1, <1>3 DEF PassedClosed

(* What one call does to the circuit of the agent: a success closes it, and so
   the run that moves on after an "ok" leaves it closed. *)
LEMMA CallBreaker ==
    ASSUME IInv, NEW t \in Runs, Call(t)
    PROVE  /\ pc[t] = "calls" /\ Current(t) \in Agents
           /\ breaker' = [breaker EXCEPT ![Current(t)] = breaker'[Current(t)]]
           /\ Calls(outcome[t])[made[t] + 1] = "success"
              => breaker'[Current(t)].state = "closed"
           /\ Calls(outcome[t])[made[t] + 1] = "time" => UNCHANGED breaker
<1>1. TypeOK /\ pc[t] = "calls" /\ Current(t) \in Agents
  BY CurrentType DEF Call, IInv
<1>2. Effect(t, Calls(outcome[t])[made[t] + 1])
  BY DEF Call
<1> DEFINE c == Calls(outcome[t])[made[t] + 1]
<1>3. breaker' = CASE c = "success" -> [breaker EXCEPT ![Current(t)] = Succeeded(breaker[Current(t)])]
                   [] c = "failure" -> [breaker EXCEPT ![Current(t)] = Failed(breaker[Current(t)])]
                   [] OTHER -> breaker
  BY <1>2 DEF Effect
<1> HIDE DEF c
<1>4. CASE c = "success"
  BY <1>1, <1>3, <1>4 DEF TypeOK, Succeeded, c
<1>5. CASE c = "failure"
  BY <1>1, <1>3, <1>5 DEF TypeOK, c
<1>6. CASE c \notin {"success", "failure"}
  BY <1>1, <1>3, <1>6 DEF TypeOK, c
<1> QED BY <1>4, <1>5, <1>6

(* Of a good execution the first call records it and the second times it. *)
LEMMA GoodCalls ==
    ASSUME NEW n \in 0 .. 3, n < Len(Calls("ok"))
    PROVE  /\ n = 0 => Calls("ok")[n + 1] = "success" /\ n + 1 < Len(Calls("ok"))
           /\ n = 1 => Calls("ok")[n + 1] = "time" /\ ~(n + 1 < Len(Calls("ok")))
           /\ n \in {0, 1}
BY DEF Calls

LEMMA ReportInvariance ==
    ASSUME Serial, IInv, RInv, [Next]_vars, IInv'
    PROVE  RInv'
<1>0. TypeOK /\ TypeOK'
  BY DEF IInv
<1>1. ASSUME NEW t \in Runs, Start(t)
      PROVE  RInv'
  <2>1. PICK p \in Pipelines :
          /\ pipe' = [pipe EXCEPT ![t] = p]
          /\ pc' = [pc EXCEPT ![t] = IF p = << >> THEN "inspect" ELSE "dispatch"]
    BY <1>1 DEF Start
  <2>2. Distinct(p) /\ p \in Seq(Agents)
    BY PipelineDistinct, PipelineType
  <2>3. pipe'[t] = p /\ pos'[t] = 1 /\ opened'[t] = {}
        /\ pc'[t] = (IF p = << >> THEN "inspect" ELSE "dispatch")
    BY <1>0, <1>1, <2>1 DEF Start, TypeOK
  <2>4. Past(t)' = {}
    BY <2>2, <2>3 DEF Past
  <2> QED BY <2>2, <2>3, <2>4 DEF RInv, PassedClosed, Succeeding, Serial
<1>2. ASSUME NEW t \in Runs, Dispatch(t)
      PROVE  RInv'
  <2>1. Current(t) \in Agents /\ pc[t] = "dispatch" /\ UNCHANGED <<pipe, opened>>
        /\ breaker' = [breaker EXCEPT ![Current(t)] = Looked(breaker[Current(t)])]
    BY <1>0, <1>2, CurrentType DEF Dispatch
  <2>2. CASE Allows(breaker[Current(t)])
    <3>1. pc'[t] = "running" /\ UNCHANGED <<pos, fallback>>
      BY <1>0, <1>2, <2>2 DEF Dispatch, TypeOK
    <3>2. Past(t)' = Past(t) /\ Current(t) \notin {pipe[t][i] : i \in Past(t)}
      <4>1. Past(t)' = Past(t)
        BY <2>1, <3>1 DEF Past
      <4>2. pos[t] \in 1 .. Len(pipe[t]) /\ pos[t] \notin Past(t) /\ Past(t) \subseteq 1 .. Len(pipe[t])
        BY <1>0, <2>1, CurrentType DEF Past
      <4> QED BY <4>1, <4>2 DEF RInv, Distinct, Current
    <3>3. \A i \in Past(t) : breaker'[pipe[t][i]] = breaker[pipe[t][i]]
      BY <1>0, <2>1, <3>2 DEF Past, TypeOK
    <3>4. PassedClosed(t)'
      BY <2>1, <3>1, <3>2, <3>3 DEF RInv, PassedClosed, Listed
    <3> QED BY <2>1, <3>1, <3>4 DEF RInv, Succeeding, Serial
  <2>3. CASE ~Allows(breaker[Current(t)])
    <3>1. Advance(t) /\ FallBack(t)
      BY <1>2, <2>3 DEF Dispatch
    <3>2. breaker' = [breaker EXCEPT ![Current(t)] = breaker'[Current(t)]]
      BY <1>0, <2>1 DEF TypeOK
    <3>3. PassedClosed(t)' /\ (pc'[t] \notin {"inspect", "report"} => opened'[t] = {})
      BY <1>0, <2>1, <3>1, <3>2, AgentLeft
    <3>4. pc'[t] # "calls"
      BY <1>0, <2>1, <3>1, AdvanceType
    <3> QED BY <2>1, <3>3, <3>4 DEF RInv, Succeeding, Serial
  <2> QED BY <2>2, <2>3
<1>3. ASSUME NEW t \in Runs, Return(t)
      PROVE  RInv'
  <2>1. pc[t] = "running" /\ pc'[t] = "calls" /\ made'[t] = 0
        /\ UNCHANGED <<breaker, pipe, pos, fallback, opened>>
    BY <1>0, <1>3 DEF Return, TypeOK
  <2>2. Past(t)' = Past(t)
    BY <2>1 DEF Past
  <2> QED BY <2>1, <2>2 DEF RInv, PassedClosed, Listed, Succeeding, Serial
<1>4. ASSUME NEW t \in Runs, Call(t)
      PROVE  RInv'
  <2> DEFINE c == Calls(outcome[t])[made[t] + 1]
  <2>1. /\ pc[t] = "calls" /\ Current(t) \in Agents /\ UNCHANGED <<pipe, opened>>
        /\ outcome[t] \in {"ok", "error", "invalid", "raises"}
        /\ made[t] \in 0 .. 3 /\ made[t] < Len(Calls(outcome[t]))
        /\ breaker' = [breaker EXCEPT ![Current(t)] = breaker'[Current(t)]]
    BY <1>0, <1>4, CallBreaker DEF Call, TypeOK
  <2>2. CASE made[t] + 1 < Len(Calls(outcome[t]))
    <3>1. /\ UNCHANGED <<pc, pos, outcome, fallback>>
          /\ made' = [made EXCEPT ![t] = made[t] + 1]
      BY <1>4, <2>2 DEF Call
    <3>2. made'[t] = made[t] + 1
      BY <1>0, <3>1 DEF TypeOK
    <3>3. Past(t)' = Past(t) /\ Current(t)' = Current(t)
      BY <2>1, <3>1 DEF Past, Current
    <3>4. pos[t] \in 1 .. Len(pipe[t]) /\ pos[t] \notin Past(t) /\ Past(t) \subseteq 1 .. Len(pipe[t])
      BY <1>0, <2>1, CurrentType DEF Past
    <3>5. Current(t) \notin {pipe[t][i] : i \in Past(t)}
      BY <3>4 DEF RInv, Distinct, Current
    <3>6. \A i \in Past(t) : breaker'[pipe[t][i]] = breaker[pipe[t][i]]
      BY <1>0, <2>1, <3>5 DEF Past, TypeOK
    <3>7. PassedClosed(t)'
      BY <2>1, <3>1, <3>3, <3>6 DEF RInv, PassedClosed, Listed
    <3>8. Succeeding(t)' => breaker'[Current(t)].state = "closed"
      <4> SUFFICES ASSUME Succeeding(t)' PROVE breaker'[Current(t)].state = "closed"
        OBVIOUS
      <4>1. outcome[t] = "ok" /\ made[t] = 0
        BY <2>1, <3>1, <3>2 DEF Succeeding
      <4>2. c = "success"
        BY <2>1, <4>1, GoodCalls
      <4> QED BY <1>4, <4>2, CallBreaker
    <3> QED BY <2>1, <3>1, <3>3, <3>7, <3>8 DEF RInv, Serial
  <2>3. CASE ~(made[t] + 1 < Len(Calls(outcome[t])))
    <3>1. Advance(t)
      BY <1>4, <2>3 DEF Call
    <3>2. \/ FallBack(t)
          \/ UNCHANGED fallback /\ breaker'[Current(t)].state = "closed"
      <4>1. CASE outcome[t] = "ok"
        <5>1. made[t] = 1 /\ c = "time"
          BY <2>1, <2>3, <4>1, GoodCalls
        <5>2. UNCHANGED breaker
          BY <1>4, <5>1, CallBreaker
        <5>3. breaker[Current(t)].state = "closed"
          BY <2>1, <4>1, <5>1 DEF RInv, Succeeding
        <5>4. UNCHANGED fallback
          BY <1>4, <2>3, <4>1 DEF Call
        <5> QED BY <5>2, <5>3, <5>4
      <4>2. CASE outcome[t] # "ok"
        BY <1>4, <2>3, <4>2 DEF Call
      <4> QED BY <4>1, <4>2
    <3>3. PassedClosed(t)' /\ (pc'[t] \notin {"inspect", "report"} => opened'[t] = {})
      BY <1>0, <2>1, <3>1, <3>2, AgentLeft
    <3>4. pc'[t] # "calls"
      BY <1>0, <2>1, <3>1, AdvanceType
    <3> QED BY <2>1, <3>3, <3>4 DEF RInv, Succeeding, Serial
  <2> QED BY <2>2, <2>3
<1>5. ASSUME NEW t \in Runs, Inspect(t)
      PROVE  RInv'
  <2>1. pc[t] = "inspect" /\ pc'[t] \in {"inspect", "report"} /\ UNCHANGED <<pipe, fallback>>
    BY <1>0, <1>5 DEF Inspect, TypeOK
  <2>2. Past(t)' = Past(t)
    BY <2>1 DEF Past
  <2>3. CASE pos[t] <= Len(AllNames)
    <3> DEFINE a == AllNames[pos[t]]
    <3>1. a \in Agents
      BY <1>0, <2>3 DEF TypeOK, Agents
    <3>2. /\ breaker' = [breaker EXCEPT ![a] = Looked(breaker[a])]
          /\ opened'[t] = IF Allows(breaker[a]) THEN opened[t] ELSE opened[t] \cup {a}
      BY <1>0, <1>5, <2>3 DEF Inspect, TypeOK
    <3> HIDE DEF a
    <3>3. breaker[a].state = "closed" => Looked(breaker[a]) = breaker[a] /\ Allows(breaker[a])
      BY DEF Looked, Allows
    <3>4. ASSUME NEW i \in Past(t), ~Listed(t, pipe[t][i])
          PROVE  breaker'[pipe[t][i]].state = "closed" /\ pipe[t][i] \notin opened'[t]
      <4>1. breaker[pipe[t][i]].state = "closed" /\ pipe[t][i] \notin opened[t]
        BY <3>4 DEF RInv, PassedClosed
      <4>2. pipe[t][i] \in Agents
        BY <1>0 DEF TypeOK, Past
      <4> QED BY <1>0, <3>1, <3>2, <3>3, <4>1, <4>2 DEF TypeOK
    <3>5. PassedClosed(t)'
      BY <2>1, <2>2, <3>4 DEF PassedClosed, Listed
    <3> QED BY <2>1, <3>5 DEF RInv, Succeeding, Serial
  <2>4. CASE ~(pos[t] <= Len(AllNames))
    <3>1. UNCHANGED <<breaker, opened>>
      BY <1>5, <2>4 DEF Inspect
    <3> QED BY <2>1, <2>2, <3>1 DEF RInv, PassedClosed, Listed, Succeeding, Serial
  <2> QED BY <2>3, <2>4
<1>6. ASSUME NEW t \in Runs, Report(t)
      PROVE  RInv'
  <2>1. pc'[t] = "idle" /\ pipe'[t] = << >> /\ opened'[t] = {}
    BY <1>0, <1>6 DEF Report, TypeOK
  <2>2. Past(t)' = {} /\ Distinct(pipe'[t])
    BY <2>1 DEF Past, Distinct
  <2> QED BY <2>1, <2>2 DEF RInv, PassedClosed, Succeeding, Serial
<1>7. CASE Tick
  <2>1. UNCHANGED <<pc, pipe, pos, outcome, made, fallback, opened>>
    BY <1>7 DEF Tick, run
  <2>2. \A a \in Agents : breaker'[a].state = breaker[a].state
    BY <1>0, <1>7 DEF Tick, Aged, TypeOK, Breaker
  <2>3. ASSUME NEW t \in Runs
        PROVE  PassedClosed(t)' /\ (Succeeding(t)' => breaker'[Current(t)'].state = "closed")
    <3>1. Past(t)' = Past(t) /\ \A i \in Past(t) : pipe[t][i] \in Agents
      BY <1>0, <2>1 DEF Past, TypeOK
    <3>2. PassedClosed(t)'
      BY <2>1, <2>2, <3>1 DEF RInv, PassedClosed, Listed
    <3>3. Succeeding(t)' => Succeeding(t) /\ Current(t) \in Agents /\ Current(t)' = Current(t)
      BY <1>0, <2>1, CurrentType DEF Succeeding, Current
    <3> QED BY <2>2, <3>2, <3>3 DEF RInv
  <2> QED BY <2>1, <2>3 DEF RInv
<1>8. CASE UNCHANGED vars
  BY <1>8 DEF vars, RInv, PassedClosed, Past, Listed, Succeeding, Current, Distinct
<1> QED BY <1>1, <1>2, <1>3, <1>4, <1>5, <1>6, <1>7, <1>8 DEF Next, Step

(* With one run at a time a report is consistent: an agent that passed is not
   among those it counts as open, whatever happened to its circuit before. *)
THEOREM ReportCorrect == ASSUME Serial PROVE Spec => []ReportConsistent
<1>1. Init => RInv
  BY DEF Init, RInv, Distinct, PassedClosed, Past, Succeeding
<1>2. IInv /\ IInv' /\ RInv /\ [Next]_vars => RInv'
  BY ReportInvariance
<1>3. RInv => ReportConsistent
  BY DEF RInv, PassedClosed, Past, Listed, ReportConsistent
<1> QED BY <1>1, <1>2, <1>3, Inductive, PTL DEF Spec
=============================================================================
