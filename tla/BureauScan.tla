------------------------------- MODULE BureauScan -------------------------------
(***************************************************************************)
(* Tubman: what several bureaus report of one consumer, compared pair by   *)
(* pair, and Truth: what a text may not say.                               *)
(*                                                                         *)
(* An account is its creditor, its number, the last four digits of it and  *)
(* whether it has four, a balance in dollars and two dates counted in      *)
(* days; NoValue stands for a missing value, BadDate for one that is not a *)
(* date.  A report does not repeat an account.                             *)
(***************************************************************************)
EXTENDS Integers, Sequences, FiniteSetsExt

CONSTANTS NoValue, BadDate
ASSUME ScanAssumption == NoValue \notin Int /\ BadDate \notin Int /\ NoValue # BadDate

BureauAccounts ==
  [creditor : STRING, number : STRING, last4 : STRING, full : BOOLEAN, balance : Nat \cup {NoValue},
   opened : Int \cup {NoValue, BadDate}, dofd : Int \cup {NoValue, BadDate}]

BureauReports ==
  [bureau : STRING, name : STRING \cup {NoValue}, address : STRING \cup {NoValue},
   accounts : Seq(BureauAccounts)]

\* The last four characters of a number decide whether they are four.
ValidReports(reports) ==
  /\ reports \in Seq(BureauReports)
  /\ \A i, j \in DOMAIN reports :
       \A a \in Range(reports[i].accounts), b \in Range(reports[j].accounts) :
         a.last4 = b.last4 => a.full = b.full

Distance(x, y) == IF x > y THEN x - y ELSE y - x
MaxOf(x, y) == IF x > y THEN x ELSE y

\* _accounts_match: one creditor and the same number, or the same last four digits.
AccountsMatch(a, b) ==
  /\ a.creditor = b.creditor
  /\ a.number = b.number \/ (a.last4 = b.last4 /\ a.full)

\* A discrepancy names the two entries that differ, and the bureau to write to.
Discrepancy(type, entries, field, severity, bureau) ==
  [type |-> type, entries |-> entries, field |-> field, severity |-> severity, bureau |-> bureau]
Entries(a, b, ba, bb) == {<<ba, a.creditor, a.number>>, <<bb, b.creditor, b.number>>}

\* _check_balance_mismatch: within 100 dollars and within 5 per cent of the larger.
\* Mutant: the bureau of the second report is blamed.
BalanceMismatchSecond(a, b, ba, bb) ==
  IF NoValue \in {a.balance, b.balance} THEN {}
  ELSE IF /\ Distance(a.balance, b.balance) <= 100
          /\ 100 * Distance(a.balance, b.balance) <= 5 * MaxOf(1, MaxOf(a.balance, b.balance)) THEN {}
  ELSE {Discrepancy("balance_mismatch", Entries(a, b, ba, bb), "balance", "high", bb)}
BalanceMismatch(a, b, ba, bb) ==
  IF NoValue \in {a.balance, b.balance} THEN {}
  ELSE IF /\ Distance(a.balance, b.balance) <= 100
          /\ 100 * Distance(a.balance, b.balance) <= 5 * MaxOf(1, MaxOf(a.balance, b.balance)) THEN {}
  ELSE {Discrepancy("balance_mismatch", Entries(a, b, ba, bb), "balance", "high",
                    IF a.balance > b.balance THEN ba ELSE bb)}

\* _check_date_field: missing on one side only, or more than 31 days apart.
DateFields == [opened |-> "medium", dofd |-> "critical"]
DateDiscrepancy(a, b, ba, bb, field) ==
  LET x == a[field]  y == b[field]
      At(bureau) == {Discrepancy("date_discrepancy", Entries(a, b, ba, bb), field, DateFields[field], bureau)}
  IN  IF x = NoValue /\ y = NoValue THEN {}
      ELSE IF NoValue \in {x, y} THEN At(IF x # NoValue THEN ba ELSE bb)
      ELSE IF BadDate \in {x, y} \/ Distance(x, y) <= 31 THEN {}
      ELSE At(IF x > y THEN ba ELSE bb)

CompareMatchedPair(a, b, ba, bb) ==
  BalanceMismatch(a, b, ba, bb)
    \cup UNION {DateDiscrepancy(a, b, ba, bb, f) : f \in DOMAIN DateFields}

\* combinations(bureau_names, 2): every pair once, in the order of the reports.
Pairs(n) == {x \in (1 .. n) \X (1 .. n) : x[1] < x[2]}
Matched(reports) ==
  UNION {{<<x[1], x[2], a, b>> : a \in Range(reports[x[1]].accounts), b \in Range(reports[x[2]].accounts)} :
         x \in Pairs(Len(reports))}
MatchedPairs(reports) == {m \in Matched(reports) : AccountsMatch(m[3], m[4])}
AccountDiscrepancies(reports) ==
  UNION {CompareMatchedPair(m[3], m[4], reports[m[1]].bureau, reports[m[2]].bureau) :
         m \in MatchedPairs(reports)}

\* _detect_duplicates: one creditor, two numbers, one report; of the pairs with the same
\* two numbers, whoever their creditor is, only the first.
Duplicates(report) ==
  LET A == report.accounts  b == report.bureau
      Numbers(x) == {A[x[1]].number, A[x[2]].number}
      Earlier(x, y) == x[1] < y[1] \/ (x[1] = y[1] /\ x[2] < y[2])
      D == {x \in Pairs(Len(A)) : A[x[1]].creditor = A[x[2]].creditor /\ Cardinality(Numbers(x)) = 2}
  IN  {Discrepancy("duplicate_account", Entries(A[x[1]], A[x[2]], b, b), "account_number", "medium", b) :
         x \in {y \in D : \A z \in D : Numbers(z) = Numbers(y) => ~Earlier(z, y)}}

\* _detect_mixed_file: the later of two bureaus is always the one to write to.
MixedFile(reports) ==
  UNION {{Discrepancy("mixed_file_risk", {reports[x[1]].bureau, reports[x[2]].bureau},
                      f, "high", reports[x[2]].bureau) :
            f \in {g \in {"name", "address"} :
                     /\ NoValue \notin {reports[x[1]][g], reports[x[2]][g]}
                     /\ reports[x[1]][g] # reports[x[2]][g]}} :
         x \in Pairs(Len(reports))}

\* The answer; its list is sorted by severity, which a set leaves open.
Scan(reports) ==
  AccountDiscrepancies(reports) \cup MixedFile(reports)
    \cup UNION {Duplicates(reports[i]) : i \in DOMAIN reports}
SeveritySummary(found) ==
  [s \in {"critical", "high", "medium", "low"} |-> Quantify(found, LAMBDA d : d.severity = s)]
Tubman(reports) ==
  LET found == Scan(reports)
      pairs == {<<m[1], m[2], m[3].creditor, m[3].last4>> : m \in MatchedPairs(reports)}
  IN  [discrepancies |-> found, bureaus_compared |-> [i \in DOMAIN reports |-> reports[i].bureau],
       accounts_matched |-> Cardinality(pairs), severity_summary |-> SeveritySummary(found)]
--------------------------------------------------------------------------------
(***************************************************************************)
(* truth.py.  A text is what its checks see of it: the categories of       *)
(* banned patterns it contains, whether it has a flagged phrase, how many  *)
(* of the four specific details it gives, its words and its citations.     *)
(***************************************************************************)
BannedCategories == {"croa_fraud", "emotional_patterns", "eoscar_template_phrases"}

ValidText(text) ==
  /\ text.banned \subseteq BannedCategories /\ text.flagged \in BOOLEAN /\ text.details \in 0 .. 4
  /\ {text.words, text.citations} \subseteq Nat

\* legal_language_ratio: exact where the text is judged, rounded to four digits in the
\* result that recommendations are made from, where 0.0501 is the first above 0.05.
RatioHigh(text) == text.words > 0 /\ 20 * text.citations > text.words
RoundedRatioHigh(text) == text.words > 0 /\ 20000 * text.citations > 1001 * text.words

Specific(text) == 10 * text.details >= 6 * 4
EoscarHardened(text) == Specific(text) /\ ~text.flagged /\ ~RatioHigh(text)
Passes(text) == text.banned = {} /\ EoscarHardened(text)

\* _build_recommendations.
\* Mutant: a text with banned patterns gets no other advice and a specific one none.
RecommendationsFew(text) ==
  {b \in text.banned : TRUE} \cup (IF Specific(text) THEN {} ELSE {"details"})
Recommendations(text) ==
  text.banned \cup
    (IF EoscarHardened(text) THEN {}
     ELSE (IF Specific(text) THEN {} ELSE {"details"})
            \cup (IF text.flagged THEN {"rewrite"} ELSE {})
            \cup (IF RoundedRatioHigh(text) THEN {"citations"} ELSE {}))
Truth(text) ==
  [passes |-> Passes(text), words |-> text.words, recommendations |-> Recommendations(text)]
================================================================================
