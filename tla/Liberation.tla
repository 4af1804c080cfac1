------------------------------- MODULE Liberation -------------------------------
(***************************************************************************)
(* POST /liberate and /liberate/print: what the agents of one request work *)
(* out and hand to each other.  Moses has the circuit breakers and the     *)
(* threads of the same pipeline; here a step is one agent, and it answers  *)
(* or falls back.                                                          *)
(***************************************************************************)
EXTENDS Barriers, BattlePlan, BureauScan

CONSTANTS Plans,        \* the requests: profile, target industries, denial, bureau reports
          Texts,        \* what Truth may see of the summary of the other results
          MaxFallbacks  \* agents of one request that fail

Denials == [type : STRING, notices : SUBSET STRING, reasons : SUBSET STRING]
ASSUME LiberationAssumption ==
  /\ \A plan \in Plans : /\ ValidCreditProfile(plan.profile) /\ ValidReports(plan.reports)
                         /\ plan.denial = NoValue \/ plan.denial \in Denials
  /\ \A text \in Texts : ValidText(text)
  /\ MaxFallbacks \in Nat

VARIABLES request, results, chain, fallbacks, page
libVars == <<request, results, chain, fallbacks, page>>

NoPage == [phases |-> 0]

\* _ORDERED_AGENTS and _run_conditionals.
Pipeline ==
  <<"parks", "king", "colvin", "robinson", "lewis", "phantom", "truth">>
    \o (IF request.denial # NoValue THEN <<"gray">> ELSE <<>>)
    \o (IF Len(request.reports) >= 2 THEN <<"tubman">> ELSE <<>>)

\* The typed fallbacks of Parks, King and Phantom; the others have no data.
Fallback(agent) ==
  CASE agent = "parks" -> [life_barriers |-> <<>>, doors_analysis |-> <<>>,
                           cheapest_door |-> NoDoor, roi_per_door |-> {}]
    [] agent = "king" -> [phases |-> <<[name |-> "Bureau Disputes", steps |-> <<>>, days |-> 30]>>,
                          blocked |-> <<>>, total_estimated_days |-> 30]
    [] agent = "phantom" -> [total_annual_tax |-> 3500, components |-> <<>>, kill_plan |-> <<>>,
                             capped |-> FALSE]
    [] OTHER -> <<>>

\* The answers of an agent; King reads what Parks left in the context.
Answers(agent) ==
  CASE agent = "parks" -> {Parks(request.profile, request.targets)}
    [] agent = "king" -> {King(request.profile, results["parks"].doors_analysis, {})}
    [] agent = "colvin" -> {Colvin(request.profile)}
    [] agent = "robinson" -> {Robinson(request.profile, key, answer) :
                                key \in BOOLEAN, answer \in {"listed", "empty", "failed"}}
    [] agent = "lewis" -> {Lewis(request.profile)}
    [] agent = "phantom" -> {Phantom(request.profile, "healthcare_cna")}
    [] agent = "truth" -> {Truth(text) : text \in Texts}
    [] agent = "gray" -> {Gray(request.denial)}
    [] agent = "tubman" -> {Tubman(request.reports)}

LibInit ==
  /\ request \in Plans
  /\ results = <<>> /\ chain = <<>> /\ fallbacks = {} /\ page = NoPage

NextAgent == Pipeline[Len(chain) + 1]
With(agent, data) ==
  [a \in DOMAIN results \cup {agent} |-> IF a = agent THEN data ELSE results[a]]

\* _dispatch of the next agent.
Dispatch ==
  /\ Len(chain) < Len(Pipeline)
  /\ \E data \in Answers(NextAgent) : results' = With(NextAgent, data)
  /\ chain' = Append(chain, NextAgent) /\ UNCHANGED <<request, fallbacks, page>>

\* _dispatch when the agent fails, is refused by its breaker or gives invalid data.
FallBack ==
  /\ Len(chain) < Len(Pipeline) /\ Cardinality(fallbacks) < MaxFallbacks
  /\ results' = With(NextAgent, Fallback(NextAgent))
  /\ chain' = Append(chain, NextAgent) /\ fallbacks' = fallbacks \cup {NextAgent}
  /\ UNCHANGED <<request, page>>

\* render_liberation_plan of the assembled plan, by the keys it looks for.
Read(record, key, default) == IF key \in DOMAIN record THEN record[key] ELSE default
\* Mutant: the section is rendered only with a denial.
RenderWithDenial ==
  /\ page = NoPage /\ Len(chain) = Len(Pipeline)
  /\ page' = [phases |-> Len(results["king"].phases),
              tax |-> Read(results["parks"], "poverty_tax", "Unknown"),
              actions |-> Read(results["robinson"], "actions", <<>>),
              cycles |-> Read(results["colvin"], "cycles", <<>>),
              score |-> Read(results["lewis"], "current_score", "unknown"),
              rights |-> IF "gray" \in DOMAIN results THEN Read(results["gray"], "rights", {}) ELSE {},
              scan |-> IF "gray" \in DOMAIN results /\ "tubman" \in DOMAIN results
                       THEN Read(results["tubman"], "discrepancies", {}) ELSE {}]
  /\ UNCHANGED <<request, results, chain, fallbacks>>
Render ==
  /\ page = NoPage /\ Len(chain) = Len(Pipeline)
  /\ page' = [phases |-> Len(results["king"].phases),
              tax |-> Read(results["parks"], "poverty_tax", "Unknown"),
              actions |-> Read(results["robinson"], "actions", <<>>),
              cycles |-> Read(results["colvin"], "cycles", <<>>),
              score |-> Read(results["lewis"], "current_score", "unknown"),
              rights |-> IF "gray" \in DOMAIN results THEN Read(results["gray"], "rights", {}) ELSE {},
              scan |-> IF "tubman" \in DOMAIN results
                       THEN Read(results["tubman"], "discrepancies", {}) ELSE {}]
  /\ UNCHANGED <<request, results, chain, fallbacks>>

LibNext == Dispatch \/ FallBack \/ Render
LibSpec == LibInit /\ [][LibNext]_libVars
--------------------------------------------------------------------------------
\* _validate_phantom of moses.py: what is accepted of its result.
ValidTax(tax) == 1500 <= tax /\ tax <= 15000

Answered(agent) == agent \in DOMAIN results /\ agent \notin fallbacks
P == request.profile

\* King and Parks look for the first closed door each with code of its own, King
\* in the analysis that Parks left in the context, or in the empty one of its
\* fallback: the plan sends the user to the door that Parks calls the cheapest,
\* and to none when Parks fell back (king.py, _parks_based_actions; parks.py,
\* _cheapest_door).
KingTargetsCheapestDoor ==
  Answered("king") =>
    results["king"].phases[3].actions.unlock
      = IF Answered("parks") THEN results["parks"].cheapest_door.threshold ELSE 0

\* What the cheapest door promises is true: everything behind it is closed to the
\* profile now, and a profile with its threshold and no collections would find it
\* open (parks.py: the doors and the barriers are computed apart).
DoorsOpen ==
  Answered("parks") =>
    LET door == results["parks"].cheapest_door
        later == [P EXCEPT !.score = door.threshold, !.collections = 0]
        Shut(q) == BuildEmployment(q, {}) \cup BuildHousing(q)
    IN  door.opens \subseteq Shut(P) \ Shut(later)

\* The agents agree on the industries: Phantom takes for blocked what Parks takes
\* for blocked, and every job that Lewis lists at one of its horizons is one that
\* Parks would not close for the score (phantom.py, _is_blocked; lewis.py,
\* JOBS_BY_SCORE; Lewis does not look at collections).
AgentsAgreeOnJobs ==
  /\ Answered("parks") =>
       \A i \in DOMAIN Industries : Closed(Industries[i], P) <=> IsBlocked(i, P)
  /\ Answered("lewis") =>
       \A horizon \in DOMAIN results["lewis"].projections :
         LET then == results["lewis"].projections[horizon]
         IN  \A j \in then.jobs :
               ~ Closed(Industries[j], [P EXCEPT !.score = then.score, !.collections = 0])

\* The tax stays within the range that Moses accepts, fallback included, and never
\* rises with the score: whoever reaches a further threshold of Parks pays no more
\* (phantom.py, _apply_validation, over three tables of bands).
TaxInRangeAndMonotone ==
  "phantom" \in DOMAIN results =>
    /\ ValidTax(results["phantom"].total_annual_tax)
    /\ \A industry \in DOMAIN Industries, k \in DOMAIN Thresholds :
         Thresholds[k] > P.score =>
           LET later == Phantom([P EXCEPT !.score = Thresholds[k]], industry).total_annual_tax
           IN  ValidTax(later) /\ later <= Phantom(P, industry).total_annual_tax

\* No dispute repeats itself: the rounds of one item follow each other, go to
\* different bureaus on different bases and start on the basis of King's first
\* phase, King's second phase has another basis, and after the rotation of the
\* formats the diversity is never low (colvin.py, _build_cycles and _execute;
\* king.py, _build_phase2).
CyclesVary ==
  Answered("colvin") =>
    LET cycles == Range(results["colvin"].attack_cycles)
    IN  /\ results["colvin"].diversity > LowDiversity
        /\ \A c, d \in cycles :
             c.item = d.item /\ c.cycle < d.cycle => /\ c.bureau # d.bureau /\ c.basis # d.basis
                                                    /\ c.end < d.start
        /\ Answered("king") =>
             \A i \in DOMAIN P.items :
               results["king"].phases[1].steps[i].basis # results["king"].phases[2].steps[i].basis
        /\ Answered("king") => {c.basis : c \in {d \in cycles : d.cycle = 1}}
                                = {s.basis : s \in Range(results["king"].phases[1].steps)}

\* The scan does not depend on the order of the reports, but for the bureau that a
\* mixed file is blamed on: the same pairs differ, and the same bureau is to be
\* written to (tubman.py, _cross_bureau_scan).
ScanIsSymmetric ==
  Answered("tubman") =>
    LET n == Len(request.reports)
        Turned == [i \in 1 .. n |-> request.reports[n + 1 - i]]
    IN  AccountDiscrepancies(request.reports) = AccountDiscrepancies(Turned)

\* A text that passes gets no advice, and one that fails gets some: only from 1019 words
\* on can it fail for a share of citations that is rounded down to what is allowed, and be
\* told nothing (truth.py: judged by the exact ratio, advised by the rounded one).
TruthExplains ==
  Answered("truth") =>
    LET truth == results["truth"]
    IN  /\ truth.passes => truth.recommendations = {}
        /\ ~ truth.passes /\ truth.words < 1019 => truth.recommendations # {}

\* A further notice never adds a violation, and all the required ones leave none;
\* one notice about the score stands for any of them (gray.py, _check_violations).
NoticesHelp ==
  Answered("gray") /\ request.denial.type \in DOMAIN RequiredNotices =>
    /\ \A n \in RequiredNotices[request.denial.type] \cup ScoreNotices :
         Violations([request.denial EXCEPT !.notices = @ \cup {n}]) \subseteq results["gray"].violations
    /\ results["gray"].has_violations <=> \E n \in RequiredNotices[request.denial.type] :
                                          /\ n \notin request.denial.notices
                                          /\ n \in ScoreNotices => request.denial.notices \cap ScoreNotices = {}

\* The printed plan shows the phases of the battle plan and the discrepancies of
\* the scan, whatever else failed (export.py, render_liberation_plan; the other
\* sections read keys that no agent writes).
PrintShowsScan ==
  page # NoPage =>
    /\ page.phases = Len(results["king"].phases)
    /\ Answered("tubman") => page.scan = results["tubman"].discrepancies

\* The plan that is put together from nine agents is coherent: they agree with each
\* other about doors, jobs and costs, and what one finds is not lost or distorted on
\* its way to the page (agents/*.py; each part is stated where its agents are).
PlanCoherent ==
  /\ DoorsOpen /\ KingTargetsCheapestDoor /\ AgentsAgreeOnJobs /\ TaxInRangeAndMonotone
  /\ CyclesVary /\ ScanIsSymmetric /\ TruthExplains /\ NoticesHelp /\ PrintShowsScan
================================================================================
