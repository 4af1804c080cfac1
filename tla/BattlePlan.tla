------------------------------- MODULE BattlePlan -------------------------------
(***************************************************************************)
(* The agents that turn a profile into steps to take: King, Colvin,        *)
(* Robinson and Gray.  A description is a set of words; the notices of a   *)
(* denial and the services of Robinson are named.                          *)
(***************************************************************************)
EXTENDS Profile, SequencesExt

\* legal_basis_rotation.json: the bases of a kind of item, round by round.
Rotation ==
  [collection |-> <<"809", "611 reinvestigation", "623 furnisher accuracy">>,
   late_payment |-> <<"611 accuracy", "607(b) requirements">>,
   charge_off |-> <<"611 reinvestigation", "623 furnisher duties", "Metro-2 format">>,
   identity_theft |-> <<"605B", "611 investigation">>,
   wrong_balance |-> <<"607(b)", "Metro-2 balance">>,
   obsolete_item |-> <<"605(a)", "611 removal">>,
   unauthorized_inquiry |-> <<"604", "611 inquiry">>,
   dofd_error |-> <<"Metro-2 DOFD", "607(b)">>]

\* _ITEM_PRIORITY of king.py.
ITEM_PRIORITY ==
  [collection |-> 0, charge_off |-> 1, identity_theft |-> 2, wrong_balance |-> 3, dofd_error |-> 4,
   obsolete_item |-> 5, unauthorized_inquiry |-> 6, late_payment |-> 7]
SortedItems(p) == SortedBy(p.items, [i \in DOMAIN p.items |-> ITEM_PRIORITY[p.items[i].type]])

\* _is_substantially_same: the Jaccard similarity reaches the configured 0.70.
SubstantiallySame(a, b) ==
  a \cup b = {} \/ 10 * Cardinality(a \cap b) >= 7 * Cardinality(a \cup b)

StepFor(item, round, target) ==
  [words |-> item.words, type |-> item.type, basis |-> Rotation[item.type][round], target |-> target]
Phase1(p) == [i \in DOMAIN p.items |-> StepFor(SortedItems(p)[i], 1, "bureau")]

\* _build_phase2 leaves out what repeats a previous dispute (a set of descriptions;
\* callers of the agent may pass some, no route does).
Blocked(item, previous) == \E d \in previous : SubstantiallySame(item.words, d)
Positions(kept) == InOrder(kept, Ascending([i \in kept |-> i]))
Phase2(p, previous) ==
  LET all == SortedItems(p)
      left == Positions({i \in DOMAIN all : ~ Blocked(all[i], previous)})
  IN  [k \in DOMAIN left |-> StepFor(all[left[k]], 2, "furnisher")]
BlockedDisputes(p, previous) ==
  LET all == SortedItems(p)
      out == Positions({i \in DOMAIN all : Blocked(all[i], previous)})
  IN  [k \in DOMAIN out |-> all[out[k]]]

\* _build_phase3: three actions that suit everyone, after the first door of Parks's
\* analysis that the score has not reached.
DefaultActions == <<"secured card", "authorized user", "on-time payments">>
\* Mutant: the door need not open anything.
Phase3Any(p, doors) ==
  LET ahead == {k \in DOMAIN doors : doors[k].threshold > p.score}
  IN  IF ahead = {} THEN [unlock |-> 0, actions |-> DefaultActions]
      ELSE [unlock |-> doors[Max(ahead)].threshold, actions |-> DefaultActions]
Phase3(p, doors) ==
  LET ahead == {k \in DOMAIN doors : doors[k].threshold > p.score /\ doors[k].opens # {}}
  IN  IF ahead = {} THEN [unlock |-> 0, actions |-> DefaultActions]
      ELSE [unlock |-> doors[Min(ahead)].threshold, actions |-> DefaultActions]

King(p, doors, previous) ==
  [phases |-> <<[name |-> "Bureau Disputes", steps |-> Phase1(p), days |-> 30],
                [name |-> "Direct Furnisher Disputes", steps |-> Phase2(p, previous), days |-> 30],
                [name |-> "Credit Building", actions |-> Phase3(p, doors), days |-> 90]>>,
   blocked |-> BlockedDisputes(p, previous), total_estimated_days |-> 150]
--------------------------------------------------------------------------------
\* colvin.py: a cycle of 40 days for every round of every item.
Bureaus == <<"Experian", "Equifax", "TransUnion">>
Formats == <<"prose", "bullets", "numbered">>
CycleDays == 40

\* Mutant: every round of an item goes to the item's first bureau.
CycleFixed(item, i, r) ==
  [cycle |-> r, item |-> i, bureau |-> Bureaus[1 + ((i - 1) % 3)],
   basis |-> Rotation[item.type][r], start |-> (r - 1) * CycleDays,
   end |-> r * CycleDays - 1, format |-> Formats[1 + ((r - 1) % 3)]]
Cycle(item, i, r) ==
  [cycle |-> r, item |-> i, bureau |-> Bureaus[1 + ((i + r - 2) % 3)],
   basis |-> Rotation[item.type][r], start |-> (r - 1) * CycleDays,
   end |-> r * CycleDays - 1, format |-> Formats[1 + ((r - 1) % 3)]]
\* Every round of every item, item by item.
Rounds(items) == {x \in (DOMAIN items) \X (1 .. 3) : x[2] \in DOMAIN Rotation[items[x[1]].type]}
BuildCycles(items) ==
  LET order == InOrder(Rounds(items), Ascending([x \in Rounds(items) |-> 3 * x[1] + x[2]]))
  IN  [k \in DOMAIN order |-> Cycle(items[order[k][1]], order[k][1], order[k][2])]

\* _compute_diversity, in eighteenths: distinct cycles, distinct formats, and formats
\* among the cycles, a third each.
ComputeDiversity(cycles) ==
  IF Len(cycles) <= 1 THEN 18
  ELSE LET rounds == Cardinality({c.cycle : c \in Range(cycles)})
           formats == Cardinality({c.format : c \in Range(cycles)})
       IN  2 * Min({3, rounds}) + 2 * formats
             + Min({6, (6 * formats) \div Min({3, Len(cycles)})})
LowDiversity == 12      \* below 0.7: at most 12 eighteenths

\* The last part of _execute: when the diversity is low the formats go round.
Rotate(cycles) ==
  IF ComputeDiversity(cycles) <= LowDiversity
  THEN [i \in DOMAIN cycles |-> [cycles[i] EXCEPT !.format = Formats[1 + ((i - 1) % 3)]]]
  ELSE cycles

Colvin(p) ==
  LET cycles == Rotate(BuildCycles(p.items))
  IN  [attack_cycles |-> cycles, diversity |-> ComputeDiversity(cycles),
       days |-> IF cycles = <<>> THEN 0 ELSE Max({c.end : c \in Range(cycles)}) + 1,
       distribution |-> [b \in Range(Bureaus) |-> Len(SelectSeq(cycles, LAMBDA c : c.bureau = b))]]
--------------------------------------------------------------------------------
\* robinson.py with alternative_services.json; costs in cents.
Service(type, cost, least, most) == [type |-> type, cost |-> cost, min |-> least, max |-> most]
Services ==
  {Service("utility_reporting", 0, 10, 30), Service("rent_reporting", 0, 20, 50),
   Service("rent_reporting", 495, 15, 40), Service("credit_builder_loan", 2500, 20, 50),
   Service("secured_card", 0, 15, 40), Service("secured_card", 20000, 15, 35)}

CheckEligibility(s, p) == s.type = "utility_reporting" => p.open > 0
ThinFile(p) == p.total < 3 \/ p.age < 12

\* _sort_services: free ones first, then by the most they can bring.
SortServices(services) ==
  SetToSortSeq(services, LAMBDA a, b : \/ a.cost = 0 /\ b.cost > 0
                                       \/ (a.cost = 0) = (b.cost = 0) /\ a.max > b.max)
\* _build_free_stack: the first three free services, eligible or not.
FreeStack(services) ==
  LET free == SelectSeq(SortServices(services), LAMBDA s : s.cost = 0)
  IN  SubSeq(free, 1, Min({3, Len(free)}))
SumOf(stack, bound) == FoldSeq(LAMBDA s, sum : sum + s[bound], 0, stack)
Recommendation(p) == IF ThinFile(p) THEN "start" ELSE IF p.util > 50 THEN "pay down" ELSE "maintain"

\* _fetch_bright_data_jobs: no key, a failed request or an empty answer give the same list.
FetchJobs(key, answer) ==
  IF ~key \/ answer = "failed" THEN [live |-> FALSE, jobs |-> "static"]
  ELSE [live |-> TRUE, jobs |-> IF answer = "empty" THEN "static" ELSE "listed"]

Robinson(p, key, answer) ==
  [eligible |-> {s \in Services : CheckEligibility(s, p)}, is_thin_file |-> ThinFile(p),
   free_stack |-> FreeStack(Services), recommendation |-> Recommendation(p),
   impact |-> [min |-> SumOf(FreeStack(Services), "min"),
               max |-> SumOf(FreeStack(Services), "max")],
   jobs |-> FetchJobs(key, answer)]
--------------------------------------------------------------------------------
\* gray.py with adverse_action_rules.json.
RequiredNotices ==
  [employment |-> {"pre-adverse action notice", "copy of report", "summary of rights",
                   "final adverse action notice"},
   housing |-> {"adverse action notice", "CRA name and contact", "free report", "right to dispute"},
   credit |-> {"specific reasons", "CRA contact info", "credit score used"},
   insurance |-> {"adverse action notice", "credit score", "key factors"},
   auto_loan |-> {"denial reason", "CRA info", "score disclosure"}]
ScoreNotices == {"credit score used", "credit score", "score disclosure"}

\* _notice_matches: any notice about the score satisfies any of them.
NoticeMatches(required, received) ==
  required \in received \/ (required \in ScoreNotices /\ received \cap ScoreNotices # {})

\* _check_violations; an unknown kind of denial requires nothing.
\* Mutant: receiving any notice at all is enough.
ViolationsNone(denial) ==
  IF denial.type \notin DOMAIN RequiredNotices \/ denial.notices # {} THEN {}
  ELSE {n \in RequiredNotices[denial.type] : ~ NoticeMatches(n, denial.notices)}
Violations(denial) ==
  IF denial.type \notin DOMAIN RequiredNotices THEN {}
  ELSE {n \in RequiredNotices[denial.type] : ~ NoticeMatches(n, denial.notices)}

\* denial_decoder.json: what to do about a reason, anything else is left to the creditor.
DenialReasons ==
  [serious_delinquency |-> "dispute_negative", many_balances |-> "pay_down_debt",
   short_history |-> "keep_accounts_open", high_proportion |-> "reduce_utilization",
   few_paid |-> "pay_on_time", no_revolving |-> "open_secured_card"]
DecodeReasons(reasons) ==
  [r \in reasons |-> IF r \in DOMAIN DenialReasons THEN DenialReasons[r] ELSE "contact_creditor"]

LetterBridge(denial) ==
  [letter_type |-> "adverse_action_response", violations |-> Violations(denial),
   reasons |-> DecodeReasons(denial.reasons)]
Gray(denial) ==
  [denial_type |-> denial.type, decoded_reasons |-> DecodeReasons(denial.reasons),
   violations |-> Violations(denial), has_violations |-> Violations(denial) # {},
   recommended_letter |-> LetterBridge(denial)]
================================================================================
