------------------------------- MODULE Simulation -------------------------------
(***************************************************************************)
(* POST /simulate: the working state of ScoreSimulator, one step for each  *)
(* handled action of the request, in any order and number up to the ten    *)
(* the request model allows.                                               *)
(*                                                                         *)
(* A utilization is kept as the per cent times the credit limit (times one *)
(* when there is no limit) and a balance in hundredths of a dollar, so     *)
(* that the two are equal exactly when the utilization is what the balance *)
(* makes of the limit.                                                     *)
(***************************************************************************)
EXTENDS Assessment

CONSTANTS Profiles,    \* the profiles a request to /simulate may carry
          Forms,       \* the forms a request to /simulate/simple may carry
          NoForm,      \* stands for a full profile
          Amounts,     \* target amounts of pay_down_debt, in dollars
          Targets,     \* target utilizations of reduce_utilization, in per cent
          MaxActions   \* ten in SimulationRequest

ASSUME SimAssumption ==
  /\ \A p \in Profiles : ValidCreditProfile(p)
  /\ \A s \in Forms : ValidSimpleProfile(s)
  /\ NoForm \notin Forms
  /\ Amounts \subseteq Nat /\ Targets \subseteq Nat /\ MaxActions \in Nat \ {0}

VARIABLES form, profile,     \* the profile of the request, and the form it was made from
          util, balance, negatives, collections, payPct,
          total,       \* total_min, total_max and total_expected
          utilMax,     \* the part of total_max due to the utilization
          applied,     \* actions handled so far
          result       \* the answer: the projected score, or zero before it

simVars == <<form, profile, util, balance, negatives, collections, payPct,
             total, utilMax, applied, result>>

Den(p) == IF p.limit > 0 THEN p.limit ELSE 1

\* The request states the utilization that its balance makes of its limit.
Consistent(p) == p.limit > 0 => p.util * p.limit = 100 * p.balance

Totals(low, high, expected) == [min |-> low, max |-> high, expected |-> expected]

\* _WorkingState.
SimInit ==
  /\ \/ form = NoForm /\ profile \in Profiles
     \/ form \in Forms /\ profile = ToCreditProfile(form)
  /\ util = profile.util * Den(profile) /\ balance = 100 * profile.balance
  /\ negatives = Len(profile.items) /\ collections = profile.collections
  /\ payPct = profile.payPct
  /\ total = Totals(0, 0, 0) /\ utilMax = 0 /\ applied = 0 /\ result = 0

CanApply == result = 0 /\ applied < MaxActions

\* add_impact.
AddImpact(low, high) ==
  total' = Totals(total.min + low, total.max + high,
                  total.expected + (low + high) \div 2)

NoImpact == UNCHANGED <<total, utilMax>>

\* The utilization moves to u, and its impact is counted.
Move(u) ==
  LET impact == Impact(BracketImpact(u, Den(profile)) - BracketImpact(util, Den(profile)))
  IN  /\ util' = u
      /\ AddImpact(impact.low, impact.high)
      /\ utilMax' = utilMax + impact.high

\* _handle_pay_down_debt: the utilization is recomputed from the balance.
\* Mutant: the balance that the utilization is computed from is not stored.
PayDownDebtKeeps(amount) ==
  /\ CanApply /\ applied' = applied + 1
  /\ UNCHANGED <<form, profile, negatives, collections, payPct, result, balance>>
  /\ IF profile.limit <= 0 \/ amount = 0 THEN UNCHANGED util /\ NoImpact
     ELSE Move(IF balance > 100 * amount THEN balance - 100 * amount ELSE 0)
PayDownDebt(amount) ==
  /\ CanApply /\ applied' = applied + 1
  /\ UNCHANGED <<form, profile, negatives, collections, payPct, result>>
  /\ IF profile.limit <= 0 \/ amount = 0 THEN UNCHANGED <<util, balance>> /\ NoImpact
     ELSE LET left == IF balance > 100 * amount THEN balance - 100 * amount ELSE 0
          IN  balance' = left /\ Move(left)

\* _handle_reduce_utilization: the balance follows the utilization.
\* Mutant: a target above the current utilization is taken too.
ReduceUtilizationAny(target) ==
  /\ CanApply /\ applied' = applied + 1
  /\ UNCHANGED <<form, profile, negatives, collections, payPct, result>>
  /\ Move(target * Den(profile))
  /\ balance' = IF profile.limit > 0 THEN target * profile.limit ELSE balance
ReduceUtilization(target) ==
  /\ CanApply /\ applied' = applied + 1
  /\ UNCHANGED <<form, profile, negatives, collections, payPct, result>>
  /\ IF target * Den(profile) >= util THEN UNCHANGED <<util, balance>> /\ NoImpact
     ELSE /\ Move(target * Den(profile))
          /\ balance' = IF profile.limit > 0 THEN target * profile.limit ELSE balance

\* _handle_remove_collection: a collection goes, and with it a negative item.
RemoveCollection ==
  /\ CanApply /\ applied' = applied + 1
  /\ UNCHANGED <<form, profile, util, balance, payPct, utilMax, result>>
  /\ IF collections <= 0 THEN UNCHANGED <<collections, negatives, total>>
     ELSE /\ collections' = collections - 1
          /\ negatives' = IF negatives > 0 THEN negatives - 1 ELSE 0
          /\ AddImpact(20, 50)

\* _handle_dispute_negative.
DisputeNegative ==
  /\ CanApply /\ applied' = applied + 1
  /\ UNCHANGED <<form, profile, util, balance, collections, payPct, utilMax, result>>
  /\ IF negatives <= 0 THEN UNCHANGED <<negatives, total>>
     ELSE negatives' = negatives - 1 /\ AddImpact(10, 40)

\* _handle_pay_on_time: two per cent more, at most a hundred.
PayOnTime ==
  /\ CanApply /\ applied' = applied + 1
  /\ UNCHANGED <<form, profile, util, balance, negatives, collections, utilMax, result>>
  /\ IF payPct >= 100 THEN UNCHANGED <<payPct, total>>
     ELSE payPct' = (IF payPct >= 98 THEN 100 ELSE payPct + 2) /\ AddImpact(5, 15)

\* FIXED_ACTION_IMPACTS of authorized user, secured card and credit mix,
\* and of keeping accounts open and avoiding inquiries.
FixedImpacts == {<<5, 20>>, <<3, 10>>, <<0, 5>>}
FixedImpact(impact) ==
  /\ CanApply /\ applied' = applied + 1
  /\ UNCHANGED <<form, profile, util, balance, negatives, collections, payPct, utilMax, result>>
  /\ AddImpact(impact[1], impact[2])

\* Mutant: only the lower limit is kept.
ProjectLow ==
  /\ result = 0 /\ applied > 0
  /\ result' = LET sum == profile.score + total.expected
               IN  IF sum < 300 THEN 300 ELSE sum
  /\ UNCHANGED <<form, profile, util, balance, negatives, collections, payPct,
                 total, utilMax, applied>>
\* The end of simulate: the projection is kept within 300 and 850.
Project ==
  /\ result = 0 /\ applied > 0
  /\ result' = LET sum == profile.score + total.expected
               IN  IF sum < 300 THEN 300 ELSE IF sum > 850 THEN 850 ELSE sum
  /\ UNCHANGED <<form, profile, util, balance, negatives, collections, payPct,
                 total, utilMax, applied>>

SimNext ==
  \/ \E a \in Amounts : PayDownDebt(a)
  \/ \E t \in Targets : ReduceUtilization(t)
  \/ RemoveCollection \/ DisputeNegative \/ PayOnTime
  \/ \E f \in FixedImpacts : FixedImpact(f)
  \/ Project

SimSpec == SimInit /\ [][SimNext]_simVars
--------------------------------------------------------------------------------
\* The variables hold what _WorkingState and SimulationResult can hold.
SimTypeOK ==
  /\ ValidCreditProfile(profile) /\ util \in Nat /\ balance \in Nat
  /\ negatives \in Nat /\ collections \in Nat /\ payPct \in 0 .. 100
  /\ total \in [min : Nat, max : Int, expected : Int] /\ utilMax \in Int
  /\ applied \in 0 .. MaxActions /\ result \in {0} \cup Scores

\* What the simple form accepts is never refused once it is converted, and the
\* collections that the conversion counts are those that the pathway disputes as
\* collections: it infers the kinds twice (assess_routes.py, to_credit_profile,
\* and types.py, _coerce_negative_items).
SimpleProfileAccepted ==
  form # NoForm =>
    /\ ValidCreditProfile(profile)
    /\ profile.collections
         = LET steps == Pathway(profile).steps
           IN  Cardinality({k \in DOMAIN steps : steps[k].issue = "collection"})

\* The five outputs, each with thresholds of its own, do not contradict each
\* other (assessment.py, assess): there is a barrier exactly when the severity is
\* not low; the balances are to be reviewed only when it is high; and when it is
\* low there is no step to take, the readiness is 41 or more, every threshold up
\* to 650 is met, every product up to 640 is eligible, and the score is the only
\* factor against any other.
OutputsAgree ==
  LET a == Assess(profile)
  IN  /\ (a.barriers = {}) <=> (a.severity = "LOW")
      /\ a.severity = "LOW" =>
           /\ a.pathway.steps = <<>> /\ a.pathway.days = 0 /\ a.readiness >= 41
           /\ \A t \in a.thresholds : t.threshold <= 650 => t.met
           /\ \A product \in DOMAIN a.eligibility :
                /\ a.eligibility[product].factors \subseteq {"score"}
                /\ PRODUCT_THRESHOLDS[product] <= 640 => a.eligibility[product].status = "eligible"
      /\ \A i \in DOMAIN a.pathway.steps :
           a.pathway.steps[i].issue = "review" => a.severity = "HIGH"

\* The two handlers that move the utilization keep the balance in step with it:
\* a request that states them consistently is worked on consistently, however
\* the two are mixed (simulation.py, _handle_pay_down_debt and
\* _handle_reduce_utilization).
WorkingStateConsistent ==
  Consistent(profile) /\ profile.limit > 0 => util = balance

\* For a consistent request the estimates are in order and no action lowers the
\* score; a profile whose stated utilization is below what its balance makes
\* may get a maximum below its minimum (the impact of pay_down_debt is then
\* negative, and only the minimum is kept at zero).
GainOrdered ==
  Consistent(profile) =>
    /\ 0 <= total.min /\ total.min <= total.expected /\ total.expected <= total.max
    /\ result # 0 => result >= profile.score

\* Cutting one reduction of the utilization into many small ones is never
\* estimated higher than the reduction at once: each step rounds down.
UtilizationGainBounded ==
  Consistent(profile) =>
    utilMax <= Impact(BracketImpact(util, Den(profile))
                      - BracketImpact(profile.util * Den(profile), Den(profile))).high

\* The answers to one profile do not contradict each other, whichever form it came in
\* (assess_routes.py, assessment.py).
AssessmentCoherent == SimpleProfileAccepted /\ OutputsAgree

\* A simulation keeps to the profile it started from and to what an assessment of that
\* profile would say, whatever actions are asked for, in any order (simulation.py).
ProjectionSound ==
  SimTypeOK /\ WorkingStateConsistent /\ GainOrdered /\ UtilizationGainBounded
================================================================================
