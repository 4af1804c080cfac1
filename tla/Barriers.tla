-------------------------------- MODULE Barriers --------------------------------
(***************************************************************************)
(* The agents that turn a profile into costs and closed doors: Parks,      *)
(* Lewis and Phantom.  Each reads tables of its own, and two of them       *)
(* decide with code of their own whether an industry is blocked.           *)
(*                                                                         *)
(* A minimum score of zero stands for none.  Loan payments are in cents;   *)
(* everything else is in dollars.                                          *)
(***************************************************************************)
EXTENDS Profile

Rule(checked, min, collections) ==
  [checked |-> checked, min |-> min, collections |-> collections]

\* employment_credit_rules.json; checked: the frequency is always or sometimes.
Industries ==
  [healthcare_cna |-> Rule(FALSE, 0, FALSE), healthcare_admin |-> Rule(TRUE, 580, TRUE),
   finance_banking |-> Rule(TRUE, 650, TRUE), government_federal |-> Rule(TRUE, 0, TRUE),
   government_state |-> Rule(TRUE, 0, TRUE), manufacturing |-> Rule(FALSE, 0, FALSE),
   warehouse_logistics |-> Rule(FALSE, 0, FALSE), food_service |-> Rule(FALSE, 0, FALSE),
   retail |-> Rule(FALSE, 0, FALSE), education_teacher |-> Rule(TRUE, 0, FALSE),
   trucking_cdl |-> Rule(FALSE, 0, FALSE), construction |-> Rule(FALSE, 0, FALSE)]

\* housing_thresholds.json; collections: collection_ok is false.
HousingTypes ==
  [section_8 |-> Rule(FALSE, 0, FALSE), public_housing |-> Rule(FALSE, 0, FALSE),
   private_rental |-> Rule(TRUE, 580, TRUE), fha_mortgage |-> Rule(TRUE, 580, TRUE),
   conventional |-> Rule(TRUE, 620, TRUE), prime |-> Rule(TRUE, 700, TRUE)]

\* auto_rates.json and insurance_by_score.json, from the worst band to the best.
AutoMonthly == <<43593, 40422, 37670, 34544, 31526, 29349, 27965>>
InsurancePremium == <<3800, 3450, 3100, 2750, 2200, 1750, 1450>>

\* The two builders of parks.py apply the same test to the two tables.
Closed(rule, p) ==
  rule.checked /\ (p.score < rule.min \/ (rule.collections /\ p.collections > 0))

BuildEmployment(p, targets) ==
  {i \in DOMAIN Industries : (targets = {} \/ i \in targets) /\ Closed(Industries[i], p)}
BuildHousing(p) == {h \in DOMAIN HousingTypes : Closed(HousingTypes[h], p)}

BuildAuto(p) ==
  LET band == ScoreToBand(p.score)
  IN  [band |-> band, monthly |-> AutoMonthly[band],
       annualExtra |-> 12 * (AutoMonthly[band] - AutoMonthly[BestBand])]
BuildInsurance(p) ==
  LET band == ScoreToBand(p.score)
  IN  [band |-> band, premium |-> InsurancePremium[band],
       vsBest |-> InsurancePremium[band] - InsurancePremium[BestBand]]

\* _build_doors: every industry counts, whatever industries were asked for.
Thresholds == <<580, 620, 650, 700, 750>>
\* Mutant: a threshold is credited with every door up to it.
BuildDoorsUpTo(p) ==
  [k \in DOMAIN Thresholds |->
     [threshold |-> Thresholds[k],
      opens |-> IF Thresholds[k] <= p.score THEN {}
                ELSE {i \in DOMAIN Industries : Industries[i].min \in 1 .. Thresholds[k]}
                       \cup {h \in DOMAIN HousingTypes : HousingTypes[h].min \in 1 .. Thresholds[k]}]]
BuildDoors(p) ==
  [k \in DOMAIN Thresholds |->
     [threshold |-> Thresholds[k],
      opens |-> IF Thresholds[k] <= p.score THEN {}
                ELSE {i \in DOMAIN Industries : Industries[i].min = Thresholds[k]}
                       \cup {h \in DOMAIN HousingTypes : HousingTypes[h].min = Thresholds[k]}]]

NoDoor == [threshold |-> 0, points |-> 0, opens |-> {}]
CheapestDoor(p, doors) ==
  LET open == {k \in DOMAIN doors : doors[k].threshold > p.score /\ doors[k].opens # {}}
  IN  IF open = {} THEN NoDoor
      ELSE LET d == doors[Min(open)]
           IN  [threshold |-> d.threshold, points |-> d.threshold - p.score, opens |-> d.opens]

\* _build_roi: what a year at each threshold above the score saves, in cents.
BuildRoi(p, doors) ==
  LET now == ScoreToBand(p.score)
  IN  {LET then == ScoreToBand(d.threshold)
       IN  [threshold |-> d.threshold,
            annual |-> 12 * (AutoMonthly[now] - AutoMonthly[then])
                         + 100 * (InsurancePremium[now] - InsurancePremium[then])] :
         d \in {doors[k] : k \in {j \in DOMAIN doors : doors[j].threshold > p.score}}}

Parks(p, targets) ==
  LET doors == BuildDoors(p)
  IN  [life_barriers |-> [employment |-> BuildEmployment(p, targets), housing |-> BuildHousing(p),
                          auto |-> BuildAuto(p), insurance |-> BuildInsurance(p)],
       doors_analysis |-> doors, cheapest_door |-> CheapestDoor(p, doors),
       roi_per_door |-> BuildRoi(p, doors)]
--------------------------------------------------------------------------------
\* lewis.py, LIFE_THRESHOLDS: two or three outcomes at each threshold.
LifeThresholds ==
  {<<580, "private rental">>, <<580, "FHA mortgage">>,
   <<620, "conventional mortgage">>, <<620, "better auto rates">>,
   <<650, "credit cards">>, <<650, "lower premiums">>,
   <<700, "prime auto rates">>, <<700, "card rewards">>, <<700, "most jobs">>,
   <<750, "best mortgage rates">>, <<750, "lowest premiums">>, <<750, "premium products">>}

JobsByScore ==
  [food_service |-> 0, retail |-> 0, manufacturing |-> 0, warehouse_logistics |-> 0,
   construction |-> 0, healthcare_cna |-> 580, trucking_cdl |-> 580, education_teacher |-> 580,
   healthcare_admin |-> 620, government_state |-> 620,
   finance_banking |-> 650, government_federal |-> 650]

ClampScore(s) == Max({300, Min({850, s})})
LifeOutcomes(s) == {o \in LifeThresholds : s >= o[1]}
AccessibleJobs(s) == {j \in DOMAIN JobsByScore : s >= JobsByScore[j]}

\* _build_projections; no route passes the result of a simulation.
Projections(p) ==
  [current |-> p.score, days30 |-> ClampScore(p.score + 15),
   days90 |-> ClampScore(p.score + 40), do_nothing |-> ClampScore(p.score - 5)]

BuildTimepoint(s) ==
  [score |-> s, outcomes |-> LifeOutcomes(s), jobs |-> AccessibleJobs(s),
   premium |-> InsurancePremium[ScoreToBand(s)], monthly |-> AutoMonthly[ScoreToBand(s)]]

CalcSavings(now, then) ==
  LET insurance == Max({0, 100 * (InsurancePremium[now] - InsurancePremium[then])})
      auto == Max({0, 12 * (AutoMonthly[now] - AutoMonthly[then])})
  IN  [insurance |-> insurance, auto |-> auto, total |-> insurance + auto]

NewDoors(now, then) == LifeOutcomes(then) \ LifeOutcomes(now)

\* _pick_motivational_message: the first threshold that is crossed in time.
Message(s) == CASE s.days30 >= 580 /\ s.current < 580 -> "rental"
                [] s.days90 >= 650 /\ s.current < 650 /\ ~(s.days30 >= 580 /\ s.current < 580) -> "cards"
                [] s.days90 >= 700 /\ s.current \in 650 .. 699 -> "auto"
                [] OTHER -> "every point"

Lewis(p) ==
  LET s == Projections(p)
      Save(t) == CalcSavings(ScoreToBand(s.current), ScoreToBand(t))
  IN  [projections |-> [k \in DOMAIN s |-> BuildTimepoint(s[k])],
       annual_savings |-> <<Save(s.days30), Save(s.days90)>>,
       new_doors |-> <<NewDoors(s.current, s.days30), NewDoors(s.current, s.days90)>>,
       message |-> Message(s)]
--------------------------------------------------------------------------------
\* phantom.py with poverty_tax_tables.json: yearly costs by band, to the dollar.
CreditPremium == <<2050, 1650, 1300, 900, 500, 200, 0>>   \* for $10,000 of debt
TaxInsurance == <<2350, 2000, 1650, 1300, 750, 300, 0>>
TaxHousing == <<3000, 2400, 1800, 1200, 600, 0, 0>>
AnnualLoss == [healthcare_cna |-> 13000, finance_banking |-> 24440, healthcare_admin |-> 17680]

\* _is_blocked: unlike Parks, it does not ask whether the industry checks at all.
\* Mutant: collections are not looked at.
IsBlockedByScore(industry, p) ==
  industry \in DOMAIN Industries /\ p.score < Industries[industry].min
IsBlocked(industry, p) ==
  /\ industry \in DOMAIN Industries
  /\ (Industries[industry].collections /\ p.collections > 0) \/ p.score < Industries[industry].min

EmploymentBarrier(industry, p) ==
  IF IsBlocked(industry, p) /\ industry \in DOMAIN AnnualLoss THEN AnnualLoss[industry] ELSE 0

TaxComponents(p, industry) ==
  LET band == ScoreToBand(p.score)
  IN  [credit |-> (CreditPremium[band] * p.balance) \div 10000, insurance |-> TaxInsurance[band],
       employment |-> EmploymentBarrier(industry, p), housing |-> TaxHousing[band]]

\* _apply_validation.
\* Mutant: only the lower end of the range is enforced.
ApplyValidationLow(sum) == [tax |-> Max({1500, sum}), capped |-> sum < 1500]
ApplyValidation(sum) ==
  [tax |-> Max({1500, Min({15000, sum})}), capped |-> sum \notin 1500 .. 15000]

\* _build_kill_plan: the dearest first, equal ones in the order of the components.
ComponentOrder == [credit |-> 1, insurance |-> 2, employment |-> 3, housing |-> 4]
KillPlan(c) ==
  LET costs == {x \in DOMAIN c : c[x] > 0}
      Before(x, y) == c[x] > c[y] \/ (c[x] = c[y] /\ ComponentOrder[x] <= ComponentOrder[y])
  IN  [x \in costs |-> Quantify(costs, LAMBDA y : Before(y, x))]

\* The industry is healthcare_cna unless the context names one, and no route does.
Phantom(p, industry) ==
  LET c == TaxComponents(p, industry)
      v == ApplyValidation(c.credit + c.insurance + c.employment + c.housing)
  IN  [total_annual_tax |-> v.tax, components |-> c, kill_plan |-> KillPlan(c), capped |-> v.capped]
================================================================================
