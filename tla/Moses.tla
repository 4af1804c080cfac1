-------------------------------- MODULE Moses --------------------------------
(***************************************************************************)
(* The orchestrator (agents/moses.py) run by POST /liberate in the threads *)
(* of asyncio.to_thread: every run has its own MosesAgent, and all of a    *)
(* worker's runs share the circuit breakers, the dead letter queue and the *)
(* benchmark (agents/__init__.py).  A run executes its agents one after    *)
(* the other; between two calls into the shared objects other runs move.   *)
(***************************************************************************)
EXTENDS Resilience

CONSTANTS Runs,          \* threads of the pool
          Ordered,       \* the agents of every run, in order
          Extras,        \* what a request may add: gray with a denial context,
                         \* then tubman with two bureau reports or more
          AllNames,      \* the agents that have a breaker, in its dict's order
          Validated,     \* the agents whose result is validated
          None

Agents == { AllNames[i] : i \in 1 .. Len(AllNames) }

ASSUME PipelineAssumption ==
    /\ AllNames \in Seq(Agents)
    /\ Ordered \in Seq(Agents) /\ Extras \subseteq Seq(Agents)
    /\ \A e \in Extras : \A i, j \in 1 .. Len(Ordered \o e) :
           (Ordered \o e)[i] = (Ordered \o e)[j] => i = j
    /\ Validated \subseteq Agents

ASSUME NameAssumption ==
    None \notin Nat \cup {"ok", "error", "invalid", "raises"}

VARIABLES breaker,   \* agent -> shared CircuitBreaker
          dlq,       \* shared dead letter queue
          timing,    \* agent -> the run whose time the benchmark shows
          pc,        \* where a run is
          pipe,      \* the agents of the run, its reasoning_chain when done
          pos,       \* the agent it is at
          outcome,   \* how the agent's execution went
          made,      \* how many of its calls _run_agent has made since
          fallback,  \* fallback_names of the run
          opened,    \* the breakers it has counted as open for its report
          later      \* history: how many entries have been added since the
                     \* entry of its latest execution, None if it has none

vars == <<breaker, dlq, timing, pc, pipe, pos, outcome, made, fallback, opened,
          later>>

run == <<pipe, pos, outcome, made, fallback, opened, later>>

Pipelines == { Ordered \o e : e \in Extras }

Outcomes(a) == {"ok", "error"} \cup IF a \in Validated THEN {"invalid", "raises"}
                                                     ELSE {}

(* An entry of the dead letter queue: the agent and the type of its error. *)
DLQEntry == [agent : Agents, error : {"error", "invalid", "raises"}]

(* Mutant: an agent that returns an error is recorded as a success first. *)
CallsHasty(o) ==
    CASE o = "ok" -> <<"success", "time">>
      [] o = "error" -> <<"success", "failure", "log">>
      [] o = "invalid" -> <<"success", "time", "log", "failure">>
      [] o = "raises" -> <<"success", "time", "failure", "log">>

(* The calls _run_agent makes on the shared objects, in its order, after the
   agent has returned: a result is recorded as a success before it is
   validated, and the validator may find it invalid or raise. *)
Calls(o) ==
    CASE o = "ok" -> <<"success", "time">>
      [] o = "error" -> <<"failure", "log">>
      [] o = "invalid" -> <<"success", "time", "log", "failure">>
      [] o = "raises" -> <<"success", "time", "failure", "log">>

Current(t) == pipe[t][pos[t]]

-----------------------------------------------------------------------------
Init == /\ breaker = [a \in Agents |-> NewBreaker]
        /\ dlq = << >>
        /\ timing = [a \in Agents |-> None]
        /\ pc = [t \in Runs |-> "idle"]
        /\ pipe = [t \in Runs |-> << >>]
        /\ pos = [t \in Runs |-> 1]
        /\ outcome = [t \in Runs |-> None]
        /\ made = [t \in Runs |-> 0]
        /\ fallback = [t \in Runs |-> << >>]
        /\ opened = [t \in Runs |-> {}]
        /\ later = [t \in Runs |-> None]

(* POST /liberate hands a run to a thread. *)
Start(t) ==
    /\ pc[t] = "idle"
    /\ \E p \in Pipelines :
          /\ pipe' = [pipe EXCEPT ![t] = p]
          /\ pc' = [pc EXCEPT ![t] = IF p = << >> THEN "inspect" ELSE "dispatch"]
    /\ pos' = [pos EXCEPT ![t] = 1]
    /\ fallback' = [fallback EXCEPT ![t] = << >>]
    /\ opened' = [opened EXCEPT ![t] = {}]
    /\ UNCHANGED <<breaker, dlq, timing, outcome, made, later>>

(* The run goes on to its next agent, or to its report. *)
Advance(t) ==
    IF pos[t] < Len(pipe[t])
    THEN /\ pos' = [pos EXCEPT ![t] = @ + 1]
         /\ pc' = [pc EXCEPT ![t] = "dispatch"]
    ELSE /\ pos' = [pos EXCEPT ![t] = 1]
         /\ pc' = [pc EXCEPT ![t] = "inspect"]

(* Mutant: a fallback is not listed. *)
FallBackUnlisted(t) == UNCHANGED fallback

FallBack(t) == fallback' = [fallback EXCEPT ![t] = Append(@, Current(t))]

(* Mutant: a run waits for an open circuit instead of falling back. *)
DispatchWaiting(t) ==
    LET b == breaker[Current(t)] IN
    /\ pc[t] = "dispatch"
    /\ Allows(b)
    /\ breaker' = [breaker EXCEPT ![Current(t)] = Looked(b)]
    /\ pc' = [pc EXCEPT ![t] = "running"]
    /\ UNCHANGED <<dlq, timing, pipe, pos, outcome, made, fallback, opened,
                   later>>

(* allow_request: the agent starts, or is skipped with its fallback. *)
Dispatch(t) ==
    LET b == breaker[Current(t)] IN
    /\ pc[t] = "dispatch"
    /\ breaker' = [breaker EXCEPT ![Current(t)] = Looked(b)]
    /\ IF Allows(b)
       THEN /\ pc' = [pc EXCEPT ![t] = "running"]
            /\ UNCHANGED <<pos, fallback>>
       ELSE Advance(t) /\ FallBack(t)
    /\ UNCHANGED <<dlq, timing, pipe, outcome, made, opened, later>>

(* The agent returns. *)
Return(t) ==
    /\ pc[t] = "running"
    /\ \E o \in Outcomes(Current(t)) : outcome' = [outcome EXCEPT ![t] = o]
    /\ pc' = [pc EXCEPT ![t] = "calls"]
    /\ later' = [later EXCEPT ![t] = None]
    /\ UNCHANGED <<breaker, dlq, timing, pipe, pos, made, fallback, opened>>

(* What one call does to the shared objects. *)
Effect(t, call) ==
    LET a == Current(t) IN
    /\ breaker' = CASE call = "success" -> [breaker EXCEPT ![a] = Succeeded(@)]
                    [] call = "failure" -> [breaker EXCEPT ![a] = Failed(@)]
                    [] OTHER -> breaker
    /\ IF call = "log"
       THEN /\ dlq' = Logged(dlq, [agent |-> a, error |-> outcome[t]])
            /\ later' = [u \in Runs |-> IF u = t THEN 0
                                        ELSE IF later[u] = None THEN None
                                        ELSE UpTo(later[u], DLQMax)]
       ELSE UNCHANGED <<dlq, later>>
    /\ timing' = IF call = "time" THEN [timing EXCEPT ![a] = t] ELSE timing

(* The next call of _run_agent; after the last one it returns. *)
Call(t) ==
    /\ pc[t] = "calls"
    /\ Effect(t, Calls(outcome[t])[made[t] + 1])
    /\ IF made[t] + 1 < Len(Calls(outcome[t]))
       THEN /\ made' = [made EXCEPT ![t] = @ + 1]
            /\ UNCHANGED <<pc, pos, outcome, fallback>>
       ELSE /\ Advance(t)
            /\ made' = [made EXCEPT ![t] = 0]
            /\ outcome' = [outcome EXCEPT ![t] = None]
            /\ IF outcome[t] = "ok" THEN UNCHANGED fallback ELSE FallBack(t)
    /\ UNCHANGED <<pipe, opened>>

(* _assemble_output reads the state of every breaker, one lock at a time. *)
Inspect(t) ==
    /\ pc[t] = "inspect"
    /\ IF pos[t] <= Len(AllNames)
       THEN LET a == AllNames[pos[t]] IN
            /\ breaker' = [breaker EXCEPT ![a] = Looked(@)]
            /\ opened' = [opened EXCEPT ![t] = IF Allows(breaker[a]) THEN @
                                               ELSE @ \cup {a}]
            /\ pos' = [pos EXCEPT ![t] = @ + 1]
            /\ UNCHANGED pc
       ELSE /\ pc' = [pc EXCEPT ![t] = "report"]
            /\ UNCHANGED <<breaker, opened, pos>>
    /\ UNCHANGED <<dlq, timing, pipe, outcome, made, fallback, later>>

(* The report is returned and the thread goes back to the pool. *)
Report(t) ==
    /\ pc[t] = "report"
    /\ pc' = [pc EXCEPT ![t] = "idle"]
    /\ pipe' = [pipe EXCEPT ![t] = << >>]
    /\ pos' = [pos EXCEPT ![t] = 1]
    /\ fallback' = [fallback EXCEPT ![t] = << >>]
    /\ opened' = [opened EXCEPT ![t] = {}]
    /\ UNCHANGED <<breaker, dlq, timing, outcome, made, later>>

Tick == /\ breaker' = [a \in Agents |-> Aged(breaker[a])]
        /\ UNCHANGED <<dlq, timing, pc>> /\ UNCHANGED run

Step(t) == Dispatch(t) \/ Return(t) \/ Call(t) \/ Inspect(t) \/ Report(t)

Next == Tick \/ \E t \in Runs : Start(t) \/ Step(t)

Spec == Init /\ [][Next]_vars

(* Threads run, agents (pure functions) return, and time passes; clients need
   not call. *)
FairSpec == Spec /\ WF_vars(Tick) /\ \A t \in Runs : WF_vars(Step(t))

-----------------------------------------------------------------------------
(* Types; a run that is at an agent has one, and an outcome and calls to make while
   it is making them. *)
TypeOK ==
    /\ breaker \in [Agents -> Breaker]
    /\ dlq \in Seq(DLQEntry) /\ Len(dlq) <= DLQMax
    /\ timing \in [Agents -> Runs \cup {None}]
    /\ pc \in [Runs -> {"idle", "dispatch", "running", "calls", "inspect",
                        "report"}]
    /\ pipe \in [Runs -> Seq(Agents)]
    /\ pos \in [Runs -> Nat \ {0}]
    /\ outcome \in [Runs -> {None, "ok", "error", "invalid", "raises"}]
    /\ made \in [Runs -> 0 .. 3]
    /\ fallback \in [Runs -> Seq(Agents)]
    /\ opened \in [Runs -> SUBSET Agents]
    /\ later \in [Runs -> {None} \cup (0 .. DLQMax)]
    /\ \A t \in Runs :
          /\ pc[t] \in {"dispatch", "running", "calls"} => pos[t] <= Len(pipe[t])
          /\ pc[t] # "calls" => made[t] = 0
          /\ pc[t] = "calls" => /\ outcome[t] # None
                                /\ made[t] < Len(Calls(outcome[t]))

(* A circuit is closed exactly while it has counted fewer failures than the
   threshold, whichever runs counted them.  So a failed probe of a half-open
   circuit opens it again at once: record_failure never clears the count. *)
ClosedIffBelowThreshold ==
    \A a \in Agents :
        breaker[a].state = "closed" <=> breaker[a].failures < Threshold

(* The entry that run t has added for the execution it is at is in the queue,
   behind the entries that were added later, unless these fill it. *)
OnRecord(t, queue, behind, error) ==
    /\ behind # None
    /\ \/ behind = DLQMax
       \/ /\ behind < Len(queue)
          /\ queue[Len(queue) - behind] = [agent |-> Current(t), error |-> error]

(* When _run_agent gives up on an agent that it executed, it has added an
   entry of that agent and error to the dead letter queue, and the bounded
   queue still holds it at its place: of all the failures ever logged only
   DLQMax that came later, of whichever run, can have pushed it out, also
   when the queue had been full long before. *)
FailuresLogged ==
    [][\A t \in Runs :
          outcome[t] \notin {None, "ok"} /\ outcome'[t] = None
          => OnRecord(t, dlq', later'[t], outcome[t])]_vars

(* Every run accepted by POST /liberate returns its report, whatever the
   agents and the circuits do. *)
EveryRunReports == \A t \in Runs : pc[t] # "idle" ~> pc[t] = "idle"

Executing(a) == { t \in Runs : pc[t] = "running" /\ Current(t) = a }
Asked(a) == \E t \in Runs : pc[t] = "dispatch" /\ Current(t) = a
Passing(a) == \E t \in Runs : pc[t] = "calls" /\ Current(t) = a /\ outcome[t] = "ok"

(* An agent that runs keep asking for is not cut off for ever. *)
OpenIsTemporary ==
    \A a \in Agents : []<>Asked(a) => []<>(breaker[a].state # "open")

(* An agent that runs keep executing and that never returns a usable result
   trips its circuit. *)
Trips(a) == []~Passing(a) /\ []<>(Executing(a) # {})
            => <>(breaker[a].state # "closed")

(* ... which holds of the agents whose result is not validated. *)
FailingAgentTrips == \A a \in Agents \ Validated : Trips(a)

(* "After 3 consecutive failures, the circuit opens": also of the agents
   whose failure is an invalid result. *)
InvalidAgentTrips == \A a \in Validated : Trips(a)

(* "the circuit enters half-open state and allows one retry". *)
OneRetry ==
    \A a \in Agents :
        breaker[a].state = "half-open"
        => \A t, u \in Executing(a) : t = u

(* "Auto-resets after timeout_seconds": a circuit leaves the open state only
   when the timeout has passed. *)
OpenForTimeout ==
    [][\A a \in Agents :
          breaker[a].state = "open" /\ breaker'[a].state # "open"
          => breaker[a].age = Timeout]_vars

(* "The response includes performance.per_agent_ms showing exactly how long
   each agent took": the time a report shows for an agent that passed is the
   time of that run. *)
OwnTimings ==
    \A t \in Runs : pc[t] = "report" =>
        \A i \in 1 .. Len(pipe[t]) :
            \/ timing[pipe[t][i]] = t
            \/ \E j \in 1 .. Len(fallback[t]) : fallback[t][j] = pipe[t][i]

-----------------------------------------------------------------------------
(* One run at a time. *)
Serial == \A t, u \in Runs : t = u

Circuit == INSTANCE CircuitProtocol
              WITH state <- [a \in Agents |-> breaker[a].state],
                   rest <- [a \in Agents |->
                              IF breaker[a].state = "open" THEN breaker[a].age
                                                           ELSE 0]

(* With one run at a time every breaker keeps the promise of
   CircuitProtocol. *)
CircuitSpec == Circuit!Spec

(* With one run at a time the report is consistent: no agent that it counts
   as passed is among those whose circuit it counts as open. *)
ReportConsistent ==
    \A t \in Runs : pc[t] = "report" =>
        \A i \in 1 .. Len(pipe[t]) :
            pipe[t][i] \in opened[t]
            => \E j \in 1 .. Len(fallback[t]) : fallback[t][j] = pipe[t][i]
=============================================================================
