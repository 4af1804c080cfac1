------------------------------- MODULE Assessment -------------------------------
(***************************************************************************)
(* POST /assess: the five outputs of CreditAssessmentService and of the    *)
(* dispute pathway, as functions of a profile.  Each output is computed    *)
(* from the profile on its own, with thresholds of its own: nothing in the *)
(* code makes the five agree.                                              *)
(***************************************************************************)
EXTENDS Profile, SequencesExt

HIGH_UTILIZATION_THRESHOLD == 75
MODERATE_UTILIZATION_THRESHOLD == 50

\* UTILIZATION_BRACKETS over a utilization u/den per cent; at 100 and above: -30.
BracketImpact(u, den) ==
  CASE u < den -> 50
    [] u >= den /\ u < 10 * den -> 45
    [] u >= 10 * den /\ u < 20 * den -> 35
    [] u >= 20 * den /\ u < 30 * den -> 25
    [] u >= 30 * den /\ u < 50 * den -> 10
    [] u >= 50 * den /\ u < 75 * den -> 0
    [] u >= 75 * den /\ u < 90 * den -> -15
    [] OTHER -> -30

\* int(): towards zero.
Truncate(n, d) == IF n >= 0 THEN n \div d ELSE -((-n) \div d)

\* get_utilization_impact, from the improvement of the bracket's impact.
\* Mutant: the upper estimate is rounded up.
ImpactUp(improvement) ==
  [low |-> IF improvement > 0 THEN Truncate(7 * improvement, 10) ELSE 0,
   high |-> (13 * improvement + 9) \div 10]
Impact(improvement) ==
  [low |-> IF improvement > 0 THEN Truncate(7 * improvement, 10) ELSE 0,
   high |-> Truncate(13 * improvement, 10)]

\* _compute_barrier_severity.
\* Mutant: a utilization of exactly 75 per cent counts as high here only.
BarrierSeverityAt(p) ==
  IF p.collections > 0 \/ p.util >= HIGH_UTILIZATION_THRESHOLD \/ p.score < 580 THEN "HIGH"
  ELSE IF p.items # <<>> \/ p.util > MODERATE_UTILIZATION_THRESHOLD \/ p.score < 650 THEN "MEDIUM"
  ELSE "LOW"
BarrierSeverity(p) ==
  IF p.collections > 0 \/ p.util > HIGH_UTILIZATION_THRESHOLD \/ p.score < 580 THEN "HIGH"
  ELSE IF p.items # <<>> \/ p.util > MODERATE_UTILIZATION_THRESHOLD \/ p.score < 650 THEN "MEDIUM"
  ELSE "LOW"

Only(condition, x) == IF condition THEN {x} ELSE {}
HighBarriers(p) ==
  Only(p.collections > 0, [reason |-> "collections", days |-> 90])
    \cup Only(p.util > HIGH_UTILIZATION_THRESHOLD, [reason |-> "utilization", days |-> 60])
    \cup Only(p.score < 580, [reason |-> "score", days |-> 180])
MediumBarriers(p) ==
  Only(p.items # <<>>, [reason |-> "negatives", days |-> 0])
    \cup Only(p.util > MODERATE_UTILIZATION_THRESHOLD, [reason |-> "utilization", days |-> 0])
    \cup Only(p.score < 650, [reason |-> "score", days |-> 0])
Barriers(p) == CASE BarrierSeverity(p) = "HIGH" -> HighBarriers(p)
                 [] BarrierSeverity(p) = "MEDIUM" -> MediumBarriers(p)
                 [] OTHER -> {}

\* _compute_readiness_score: points of a hundred, in units of 1/18480 point, the
\* least common denominator of the six factors and their weights (the code adds
\* floats: where the sum is a whole number of points it may be one lower).
ReadinessUnit == 18480
RawReadiness(p) ==
  1680 * (p.score - 300) + 3234 * p.payPct + 2772 * (100 - p.util)
    + 1650 * Min({84, p.age}) + 9240 * Min({10, p.total})
    + 9240 * (IF p.open > 0 THEN 7 ELSE 5)
    - ReadinessUnit * Min({30, 5 * (Len(p.items) + p.collections)})
ReadinessScore(p) == Max({0, Min({100, Truncate(RawReadiness(p), ReadinessUnit)})})

\* _estimate_days_for_gap: a fifth of a point a day.
EstimateDays(gap) == 5 * gap

ThresholdScores == {SCORE_BANDS[b].min : b \in {"poor", "fair", "good", "excellent"}}
ThresholdEstimates(p) ==
  {LET gap == t - p.score
   IN  [threshold |-> t, met |-> gap <= 0,
        days |-> IF gap <= 0 THEN 0 ELSE EstimateDays(gap),
        confidence |-> IF gap <= 0 THEN "HIGH" ELSE IF gap < 50 THEN "MEDIUM" ELSE "LOW"] :
     t \in ThresholdScores}

\* PRODUCT_THRESHOLDS, from the FHA mortgage to the best mortgage rate.
PRODUCT_THRESHOLDS ==
  [fha |-> 580, conventional |-> 620, prime_auto |-> 700, subprime_auto |-> 500,
   rewards_card |-> 700, secured_card |-> 300, personal_loan |-> 640, best_mortgage |-> 740]

BlockingFactors(p) ==
  {"score"} \cup Only(p.util > MODERATE_UTILIZATION_THRESHOLD, "utilization")
            \cup Only(p.collections > 0, "collections")

\* _compute_eligibility: the score alone decides; the factors only explain.
Eligibility(p) ==
  [product \in DOMAIN PRODUCT_THRESHOLDS |->
     LET gap == PRODUCT_THRESHOLDS[product] - p.score
     IN  IF gap <= 0 THEN [status |-> "eligible", gap |-> 0, days |-> 0, factors |-> {}]
         ELSE [status |-> "blocked", gap |-> gap, days |-> EstimateDays(gap),
               factors |-> BlockingFactors(p)]]

\* ISSUE_PATTERNS: a row per kind of negative item; statutes by their section.
Pattern(theories, statutes, priority, days) ==
  [theories |-> theories, statutes |-> statutes, priority |-> priority, days |-> days]
ISSUE_PATTERNS ==
  [late_payment |-> Pattern({"607B", "611"}, {"1681e(b)", "1681i(a)"}, "HIGH", 30),
   charge_off |-> Pattern({"607B", "623", "METRO2"}, {"1681s-2(b)", "1681e(b)"}, "HIGH", 45),
   collection |-> Pattern({"809", "611", "623"}, {"1692g", "1681i"}, "CRITICAL", 30),
   identity_theft |-> Pattern({"605B"}, {"1681c-2"}, "CRITICAL", 6),
   wrong_balance |-> Pattern({"607B", "METRO2"}, {"1681e(b)"}, "MEDIUM", 30),
   obsolete_item |-> Pattern({"607B"}, {"1681c"}, "HIGH", 30),
   unauthorized_inquiry |-> Pattern({"607B"}, {"1681b"}, "LOW", 30),
   dofd_error |-> Pattern({"DOFD", "607B"}, {"1681e(b)"}, "HIGH", 30)]

PRIORITY_ORDER == [CRITICAL |-> 0, HIGH |-> 1, MEDIUM |-> 2, LOW |-> 3]

\* One step for each negative item, and one more for a high utilization of a limit.
ItemSteps(p) == [i \in DOMAIN p.items |->
                   LET type == p.items[i].type
                   IN  [issue |-> type, pattern |-> type,
                        priority |-> ISSUE_PATTERNS[type].priority,
                        days |-> ISSUE_PATTERNS[type].days]]
ProfileSteps(p) ==
  IF p.util > HIGH_UTILIZATION_THRESHOLD /\ p.limit > 0
  THEN <<[issue |-> "review", pattern |-> "wrong_balance", priority |-> "MEDIUM", days |-> 30]>>
  ELSE <<>>

\* generate_pathway.
Pathway(p) ==
  LET all == ItemSteps(p) \o ProfileSteps(p)
      steps == SortedBy(all, [i \in DOMAIN all |-> PRIORITY_ORDER[all[i].priority]])
      patterns == {ISSUE_PATTERNS[s.pattern] : s \in Range(steps)}
  IN  [steps |-> steps,
       days |-> FoldSeq(LAMBDA s, sum : sum + s.days, 0, steps),
       theories |-> UNION {x.theories : x \in patterns},
       statutes |-> UNION {x.statutes : x \in patterns}]

\* assess: the whole result.
Assess(p) == [severity |-> BarrierSeverity(p), barriers |-> Barriers(p),
              readiness |-> ReadinessScore(p), thresholds |-> ThresholdEstimates(p),
              eligibility |-> Eligibility(p), pathway |-> Pathway(p)]
================================================================================
