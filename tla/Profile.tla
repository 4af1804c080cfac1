-------------------------------- MODULE Profile --------------------------------
(***************************************************************************)
(* A credit profile as every part of the service receives it: the bands of *)
(* scores, the kinds of negative items, what the request model accepts,    *)
(* and the conversion of the simple form of /assess/simple and             *)
(* /simulate/simple.                                                       *)
(*                                                                         *)
(* Percentages, dollars and months are whole numbers here.  A description  *)
(* of a negative item is the set of its words.                             *)
(***************************************************************************)
EXTENDS Integers, Sequences, FiniteSets, FiniteSetsExt

ItemTypes == {"late_payment", "charge_off", "collection", "identity_theft",
              "wrong_balance", "obsolete_item", "unauthorized_inquiry", "dofd_error"}

SCORE_BANDS ==
  [excellent |-> [min |-> 750, max |-> 850], good |-> [min |-> 700, max |-> 749],
   fair |-> [min |-> 650, max |-> 699], poor |-> [min |-> 600, max |-> 649],
   very_poor |-> [min |-> 300, max |-> 599]]

InBand(score, band) == score \in SCORE_BANDS[band].min .. SCORE_BANDS[band].max

\* get_score_band: a score between the bands, or outside them, is very poor.
GetScoreBand(score) ==
  LET fits == {b \in DOMAIN SCORE_BANDS : InBand(score, b)}
  IN  IF fits = {} THEN "very_poor" ELSE CHOOSE b \in fits : TRUE

\* The seven bands of the agents' tables, by their upper bound.
BandUppers == <<499, 549, 599, 649, 699, 749, 850>>
Bands == DOMAIN BandUppers
BestBand == Len(BandUppers)
ScoreToBand(score) ==
  LET fits == {b \in Bands : score <= BandUppers[b]}
  IN  IF fits = {} THEN BestBand ELSE Min(fits)

\* The keywords of _infer_item_type, in the order they are looked for.
KeywordRules == <<
  [words |-> {"collection"}, type |-> "collection"],
  [words |-> {"charge_off", "chargeoff"}, type |-> "charge_off"],
  [words |-> {"late"}, type |-> "late_payment"],
  [words |-> {"identity", "theft"}, type |-> "identity_theft"],
  [words |-> {"balance", "wrong"}, type |-> "wrong_balance"],
  [words |-> {"obsolete"}, type |-> "obsolete_item"],
  [words |-> {"inquiry"}, type |-> "unauthorized_inquiry"],
  [words |-> {"dofd", "delinquency"}, type |-> "dofd_error"] >>

InferItemType(text) ==
  LET hits == {i \in DOMAIN KeywordRules : KeywordRules[i].words \cap text # {}}
  IN  IF hits = {} THEN "late_payment" ELSE KeywordRules[Min(hits)].type

\* NegativeItem: its kind and the words of its description.
Item(type, words) == [type |-> type, words |-> words]

NegativeItems == [type : ItemTypes, words : SUBSET STRING]

\* What the request models accept for a score, and for an age in months.
Scores == 300 .. 850
MaxAge == 1200
Ages == 0 .. MaxAge

\* CreditProfile and AccountSummary: the constraints of the request model.
CreditProfiles ==
  [score : Scores, band : DOMAIN SCORE_BANDS, util : 0 .. 100, payPct : 0 .. 100, age : Ages,
   total : Nat, open : Nat, closed : Nat, negative : Nat, collections : Nat, balance : Nat,
   limit : Nat, items : Seq(NegativeItems)]
ValidCreditProfile(p) == p \in CreditProfiles /\ InBand(p.score, p.band) /\ Len(p.items) <= 50

\* SimpleCreditProfile: what the simple form accepts.
ValidSimpleProfile(s) ==
  /\ s.score \in Scores /\ s.util \in 0 .. 100 /\ s.payPct \in 0 .. 100
  /\ s.oldest \in Ages /\ {s.total, s.open, s.balance, s.limit} \subseteq Nat
  /\ s.texts \in Seq(SUBSET STRING) /\ Len(s.texts) <= 50 /\ s.open <= s.total

\* The members of a finite set in the order of Before, a set of pairs.
InOrder(S, Before) ==
  [k \in 1 .. Cardinality(S) |->
     CHOOSE x \in S : Cardinality({y \in S : <<y, x>> \in Before}) = k - 1]

Ascending(key) == {x \in (DOMAIN key) \X (DOMAIN key) : key[x[1]] < key[x[2]]}

\* Lists are sorted by a key; what has the same key stays in the order it came.
Stable(key) ==
  {x \in (DOMAIN key) \X (DOMAIN key) :
     \/ key[x[1]] < key[x[2]]
     \/ key[x[1]] = key[x[2]] /\ x[1] < x[2]}
SortedBy(all, key) ==
  LET order == InOrder(DOMAIN all, Stable(key)) IN [k \in DOMAIN all |-> all[order[k]]]

\* Mutant: every negative item counts as a collection.
ToCreditProfileNegatives(s) ==
  [score |-> s.score, band |-> GetScoreBand(s.score), util |-> s.util,
   total |-> s.total, open |-> s.open, closed |-> s.total - s.open,
   negative |-> Len(s.texts), collections |-> Len(s.texts),
   balance |-> s.balance, limit |-> s.limit, payPct |-> s.payPct,
   age |-> (3 * s.oldest) \div 5,
   items |-> [i \in DOMAIN s.texts |-> Item(InferItemType(s.texts[i]), s.texts[i])]]

\* to_credit_profile; the average age is taken as 60% of the oldest account's.
ToCreditProfile(s) ==
  [score |-> s.score, band |-> GetScoreBand(s.score), util |-> s.util,
   total |-> s.total, open |-> s.open, closed |-> s.total - s.open,
   negative |-> Len(s.texts),
   collections |-> Cardinality({i \in DOMAIN s.texts : InferItemType(s.texts[i]) = "collection"}),
   balance |-> s.balance, limit |-> s.limit, payPct |-> s.payPct,
   age |-> (3 * s.oldest) \div 5,
   items |-> [i \in DOMAIN s.texts |-> Item(InferItemType(s.texts[i]), s.texts[i])]]
================================================================================
