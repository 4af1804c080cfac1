------------------------------- MODULE MCServices -------------------------------
(* The instance of Services: see the README for the values and why they suffice. *)
EXTENDS Services, TLC

A(score, u, pay, age, tot, open, items, coll, bal, lim) ==
  [score |-> score, band |-> GetScoreBand(score), util |-> u, payPct |-> pay, age |-> age,
   total |-> tot, open |-> open, closed |-> tot - open, negative |-> Len(items),
   collections |-> coll, balance |-> bal, limit |-> lim, items |-> items]

Debt == Item("collection", {"collection", "hospital"})
Late == Item("late_payment", {"late", "card"})
Fraud == Item("identity_theft", {"theft", "card"})

\* Consistent at 95% and at 40%, at the edges of a low severity, a balance above what
\* the utilization says, and one without a limit.
MCProfiles ==
  {A(560, 95, 97, 40, 5, 3, <<Debt, Late>>, 1, 950, 1000),
   A(820, 40, 100, 90, 12, 3, <<>>, 0, 80, 200),
   A(650, 50, 0, 0, 0, 0, <<>>, 0, 0, 0),
   A(610, 20, 99, 40, 5, 3, <<Late>>, 2, 900, 1000),
   A(640, 75, 90, 40, 5, 3, <<>>, 0, 750, 1000)}

F(score, u, oldest, texts) ==
  [score |-> score, util |-> u, payPct |-> 90, oldest |-> oldest, total |-> 4, open |-> 3,
   texts |-> texts, balance |-> 10 * u, limit |-> 1000]
MCForms == {F(599, 80, 1200, <<{"late", "collection"}, {"wrong", "inquiry"}>>),
            F(749, 30, 7, <<{"delinquency"}, {"paid"}, {"collection"}>>),
            F(850, 0, 0, <<>>), F(300, 100, 60, <<{"theft", "late"}>>)}
MCAmounts == {0, 30, 400, 2000}
MCTargets == {0, 5, 29, 60}

L(type, variation) ==
  [type |-> type, variation |-> variation, bureau |-> "equifax", name |-> "n", description |-> "d"]
MCBatches ==
  {<<L("validation", NoVariation)>>, <<L("completeness", 3)>>, <<L("obsolete_item", 2)>>,
   <<L("validation", NoVariation), L("inaccuracy", NoVariation), L("inaccuracy", NoVariation),
     L("validation", NoVariation), L("validation", NoVariation)>>,
   <<L("validation", 2), L("identity_theft", 3), L("validation", NoVariation)>>,
   <<L("completeness", NoVariation), L("completeness", 1), L("completeness", NoVariation),
     L("completeness", NoVariation), L("inaccuracy", 3)>>}

R(name, accounts, person, address) ==
  [bureau |-> name, accounts |-> accounts, name |-> person, address |-> address]
Acc(creditor, number, last4, bal, opened, dofd) ==
  [creditor |-> creditor, number |-> number, last4 |-> last4, full |-> TRUE, balance |-> bal,
   opened |-> opened, dofd |-> dofd]
Exp1 == R("Experian", <<Acc("bank", "x1", "1", 1000, 10, 100), Acc("bank", "x2", "2", 50, NoValue, 7)>>, "Ann", "a")
Equ1 == R("Equifax", <<Acc("bank", "y1", "1", 1099, 41, 200), Acc("shop", "s", "9", 5, 5, 5)>>, "Anne", "a")
Tra1 == R("TransUnion", <<Acc("bank", "x1", "1", 1001, 42, BadDate), Acc("bank", "x2", "2", 60, 3, NoValue)>>, NoValue, "b")

Denial(type, notices) == [type |-> type, notices |-> notices, reasons |-> {"few_paid", "other"}]
Plan(p, targets, denial, reports) ==
  [profile |-> p, targets |-> targets, denial |-> denial, reports |-> reports]
MCPlans ==
  {Plan(A(560, 95, 97, 40, 5, 3, <<Late, Debt, Fraud>>, 1, 9000, 10000), {},
        Denial("credit", {"credit score"}), <<Exp1, Equ1, Tra1>>),
   Plan(A(630, 40, 100, 90, 2, 0, <<Late>>, 0, 0, 200), {"finance_banking"},
        Denial("mortgage", {}), <<Exp1>>),
   Plan(A(760, 10, 100, 90, 12, 3, <<>>, 0, 80, 200), {}, NoValue, <<Tra1, Exp1>>),
   Plan(A(705, 10, 100, 90, 12, 3, <<Late, Late>>, 0, 60000, 80000), {"retail"},
        Denial("housing", {"adverse action notice", "CRA name and contact", "free report"}), <<>>),
   Plan(A(400, 10, 100, 90, 12, 3, <<Debt>>, 2, 60000, 80000), {},
        Denial("insurance", {"key factors"}), <<>>)}

T(banned, flagged, details, words, citations) ==
  [banned |-> banned, flagged |-> flagged, details |-> details, words |-> words, citations |-> citations]
MCTexts == {T({}, FALSE, 3, 200, 10), T({}, FALSE, 3, 200, 11), T({}, FALSE, 2, 200, 0),
            T({"croa_fraud"}, FALSE, 4, 200, 0), T({}, TRUE, 3, 199, 0),
            T({}, FALSE, 4, 1018, 51), T({}, FALSE, 4, 1019, 51)}

\* Two customers of whom one administrates, and two keys that share a prefix.
MCPrefix(k) == "key_abcd"
\* The second key is there for the prefix it shares: with it, one token and no login.
Apart == Cardinality(created) < 2 \/ (logins = {} /\ Cardinality(tokens) < 2)
MCRuleSets == {{}, {"r1"}, {"r1", "r2"}}
================================================================================
