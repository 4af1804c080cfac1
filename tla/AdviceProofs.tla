----------------------------- MODULE AdviceProofs ------------------------------
(*****************************************************************************)
(* Theorems about the services that answer from the request alone: the       *)
(* conversion of the simple form, the simulation, the assessment with its    *)
(* dispute pathway, and the letters; for any profiles, forms, amounts,       *)
(* targets and batches that the request models accept.                       *)
(*****************************************************************************)
EXTENDS Simulation, Letters, FiniteSetTheorems, WellFoundedInduction,
        SequenceTheorems, TLAPS

(* Numbers and lists.                                                       *)

\* The natural numbers are well-ordered: what lets a proof go by induction over data.
LEMMA LeastNumber ==
  ASSUME NEW S \in SUBSET Nat, S # {} PROVE \E x \in S : \A y \in S : x <= y
<1> DEFINE R == {p \in Nat \X Nat : p[1] < p[2]}
<1>1. R = OpToRel(<, Nat)
  BY Zenon DEF OpToRel
<1>2. IsWellFoundedOn(R, Nat)
  BY <1>1, NatLessThanWellFounded, Zenon
<1>3. \A x, y \in Nat : y < x => <<y, x>> \in R
  BY SMT
<1> HIDE DEF R
<1>4. PICK x \in S : \A y \in S : ~ (<<y, x>> \in R)
  BY <1>2, WFMin, Zenon
<1>5. \A y \in S : ~(y < x)
  BY <1>3, <1>4
<1> QED BY <1>5

\* Min of the community modules is the least member.
LEMMA Least ==
  ASSUME NEW S \in SUBSET Nat, S # {} PROVE Min(S) \in S /\ \A y \in S : Min(S) <= y
<1>1. \E x \in S : \A y \in S : x <= y
  BY LeastNumber
<1> QED BY <1>1 DEF Min

\* A finite set that is ordered strictly and totally by B is enumerated along B, each member once.
LEMMA Enumerated ==
  ASSUME NEW S, IsFiniteSet(S), NEW B,
         \A x \in S : <<x, x>> \notin B,
         \A x, y \in S : x = y \/ <<x, y>> \in B \/ <<y, x>> \in B,
         \A x, y, z \in S : <<x, y>> \in B /\ <<y, z>> \in B => <<x, z>> \in B
  PROVE  /\ Cardinality(S) \in Nat
         /\ InOrder(S, B) \in Bijection(1 .. Cardinality(S), S)
         /\ \A k, l \in 1 .. Cardinality(S) : k < l => <<InOrder(S, B)[k], InOrder(S, B)[l]>> \in B
<1> DEFINE n == Cardinality(S)
           Ahead(x) == {y \in S : <<y, x>> \in B}
           place == [x \in S |-> 1 + Cardinality(Ahead(x))]
<1>1. n \in Nat
  BY FS_CardinalityType
<1>2. IsFiniteSet(1 .. n) /\ Cardinality(1 .. n) = n
  <2>1. IsFiniteSet(1 .. n) /\ Cardinality(1 .. n) = IF 1 > n THEN 0 ELSE n - 1 + 1
    BY <1>1, FS_Interval
  <2> QED BY <1>1, <2>1
<1>3. \A x \in S : IsFiniteSet(Ahead(x)) /\ Cardinality(Ahead(x)) \in 0 .. n - 1
  <2> SUFFICES ASSUME NEW x \in S
               PROVE  IsFiniteSet(Ahead(x)) /\ Cardinality(Ahead(x)) \in 0 .. n - 1
    OBVIOUS
  <2>1. IsFiniteSet(S \ {x}) /\ Cardinality(S \ {x}) = n - 1
    BY FS_RemoveElement
  <2>2. Ahead(x) \in SUBSET (S \ {x})
    OBVIOUS
  <2>3. IsFiniteSet(Ahead(x)) /\ Cardinality(Ahead(x)) <= Cardinality(S \ {x})
    <3> HIDE DEF Ahead
    <3> QED BY <2>1, <2>2, FS_Subset
  <2>4. Cardinality(Ahead(x)) \in Nat
    BY <2>3, FS_CardinalityType
  <2> HIDE DEF Ahead
  <2> QED BY <1>1, <2>1, <2>3, <2>4
<1>4. \A x, y \in S : y \in Ahead(x) <=> <<y, x>> \in B
  OBVIOUS
<1>5. \A x \in S : Ahead(x) \in SUBSET S
  OBVIOUS
<1>6. \A x \in S : place[x] = 1 + Cardinality(Ahead(x))
  OBVIOUS
<1> HIDE DEF place, Ahead, n
<1>7. ASSUME NEW x \in S, NEW y \in S, <<y, x>> \in B
      PROVE  place[y] < place[x]
  <2>1. y \in Ahead(x) /\ Ahead(y) \in SUBSET (Ahead(x) \ {y})
    BY <1>4, <1>5, <1>7
  <2>2. /\ IsFiniteSet(Ahead(x) \ {y})
        /\ Cardinality(Ahead(x) \ {y}) = Cardinality(Ahead(x)) - 1
    BY <1>3, <2>1, FS_RemoveElement
  <2>3. Cardinality(Ahead(y)) <= Cardinality(Ahead(x)) - 1
    BY <2>1, <2>2, FS_Subset
  <2>4. PICK a \in Int, b \in Int : a = Cardinality(Ahead(x)) /\ b = Cardinality(Ahead(y))
    <3>1. Cardinality(Ahead(x)) \in 0 .. n - 1
      BY <1>3
    <3>2. Cardinality(Ahead(y)) \in 0 .. n - 1
      BY <1>3
    <3>3. 0 .. n - 1 \subseteq Int
      BY <1>1
    <3> QED BY <3>1, <3>2, <3>3
  <2>5. place[x] = 1 + a /\ place[y] = 1 + b
    BY <1>6, <2>4
  <2> QED BY <2>3, <2>4, <2>5
<1>8. \A x \in S : place[x] \in 1 .. n
  <2> TAKE x \in S
  <2>1. PICK a \in 0 .. n - 1 : a = Cardinality(Ahead(x))
    BY <1>3
  <2>2. place[x] = 1 + a
    BY <1>6, <2>1
  <2> QED BY <1>1, <2>1, <2>2
<1>9. \A x, y \in S : place[x] = place[y] => x = y
  <2> SUFFICES ASSUME NEW x \in S, NEW y \in S, place[x] = place[y], x # y PROVE FALSE
    OBVIOUS
  <2>1. place[x] \in Int /\ place[y] \in Int
    BY <1>1, <1>8
  <2>2. <<x, y>> \in B \/ <<y, x>> \in B
    OBVIOUS
  <2>3. <<x, y>> \in B => place[x] < place[y]
    BY <1>7
  <2>4. <<y, x>> \in B => place[y] < place[x]
    BY <1>7
  <2> QED BY <2>1, <2>2, <2>3, <2>4
<1>10. \A k \in 1 .. n : \E x \in S : place[x] = k
  <2>1. place \in [S -> 1 .. n]
    BY <1>8 DEF place
  <2>2. place \in Injection(S, 1 .. n)
    BY <1>9, <2>1 DEF Injection, IsInjective
  <2>3. place \in Surjection(S, 1 .. n)
    BY <1>2, <2>2, FS_Injection DEF n
  <2> QED BY <2>3 DEF Surjection
<1> DEFINE order == InOrder(S, B)
<1>11. DOMAIN order = 1 .. n /\ \A k \in 1 .. n : order[k] \in S /\ place[order[k]] = k
  <2>1. /\ DOMAIN order = 1 .. n
        /\ \A k \in 1 .. n : order[k] = CHOOSE x \in S : Cardinality(Ahead(x)) = k - 1
    BY DEF InOrder, Ahead, n
  <2>2. ASSUME NEW k \in 1 .. n PROVE \E x \in S : Cardinality(Ahead(x)) = k - 1
    <3>1. PICK x \in S : place[x] = k
      BY <1>10
    <3>2. PICK a \in 0 .. n - 1 : a = Cardinality(Ahead(x))
      BY <1>3
    <3>3. a = k - 1
      BY <1>1, <1>6, <3>1, <3>2
    <3> QED BY <3>2, <3>3
  <2>3. ASSUME NEW k \in 1 .. n PROVE order[k] \in S /\ Cardinality(Ahead(order[k])) = k - 1
    BY <2>1, <2>2
  <2> HIDE DEF order
  <2>4. ASSUME NEW k \in 1 .. n PROVE place[order[k]] = k
    <3>1. place[order[k]] = 1 + Cardinality(Ahead(order[k]))
      BY <1>6, <2>3
    <3>2. Cardinality(Ahead(order[k])) = k - 1
      BY <2>3
    <3> QED BY <1>1, <3>1, <3>2
  <2> QED BY <2>1, <2>3, <2>4
<1>12. order \in [1 .. n -> S]
  BY <1>11 DEF InOrder, n
<1> HIDE DEF order
<1>13. order \in Bijection(1 .. n, S)
  <2>1. \A x \in S : order[place[x]] = x
    BY <1>8, <1>9, <1>11
  <2>2. \A k, l \in 1 .. n : order[k] = order[l] => k = l
    BY <1>11
  <2> QED BY <1>8, <1>12, <2>1, <2>2 DEF Bijection, Injection, Surjection, IsInjective
<1>14. ASSUME NEW k \in 1 .. n, NEW l \in 1 .. n, k < l
       PROVE  <<order[k], order[l]>> \in B
  <2>1. order[k] \in S /\ order[l] \in S /\ place[order[k]] = k /\ place[order[l]] = l
    BY <1>11
  <2>2. order[k] # order[l] /\ ~(l < k)
    BY <1>1, <1>14, <2>1
  <2>3. <<order[k], order[l]>> \in B \/ <<order[l], order[k]>> \in B
    BY <2>1, <2>2
  <2>4. <<order[l], order[k]>> \in B => place[order[l]] < place[order[k]]
    BY <1>7, <2>1
  <2> QED BY <2>1, <2>2, <2>3, <2>4
<1> QED BY <1>1, <1>13, <1>14 DEF order, n

\* Precedes(key, i, j): what is sorted by its key comes before what has a greater one, and
\* before what has the same and came later.
Precedes(key, i, j) == key[i] < key[j] \/ (key[i] = key[j] /\ i < j)

\* Sorting moves the members of a list and neither drops nor repeats one.
LEMMA SortedOrder ==
  ASSUME NEW all, NEW n \in Nat, DOMAIN all = 1 .. n, NEW key \in [1 .. n -> Nat]
  PROVE  \E order \in Bijection(1 .. n, 1 .. n) :
           /\ SortedBy(all, key) = [k \in 1 .. n |-> all[order[k]]]
           /\ \A k, l \in 1 .. n : k < l => Precedes(key, order[k], order[l])
<1> DEFINE I == 1 .. n
           B == Stable(key)
           order == InOrder(I, B)
<1>1. \A i, j \in I : <<i, j>> \in B <=> Precedes(key, i, j)
  BY DEF Stable, Precedes
<1>2. \A i \in I : key[i] \in Nat
  OBVIOUS
<1> HIDE DEF B
<1>3. /\ \A i \in I : <<i, i>> \notin B
      /\ \A i, j \in I : i = j \/ <<i, j>> \in B \/ <<j, i>> \in B
      /\ \A i, j, k \in I : <<i, j>> \in B /\ <<j, k>> \in B => <<i, k>> \in B
  BY <1>1, <1>2 DEF Precedes
<1>4. IsFiniteSet(I) /\ Cardinality(I) = n
  <2>1. IsFiniteSet(I) /\ Cardinality(I) = IF 1 > n THEN 0 ELSE n - 1 + 1
    BY FS_Interval
  <2> QED BY <2>1
<1> HIDE DEF I, order
<1>5. order \in Bijection(I, I) /\ \A k, l \in I : k < l => <<order[k], order[l]>> \in B
  <2>1. /\ order \in Bijection(1 .. Cardinality(I), I)
        /\ \A k, l \in 1 .. Cardinality(I) : k < l => <<order[k], order[l]>> \in B
    BY <1>3, <1>4, Enumerated DEF order
  <2> QED BY <1>4, <2>1 DEF I
<1>6. \A k \in I : order[k] \in I
  BY <1>5 DEF Bijection, Injection
<1>7. SortedBy(all, key) = [k \in I |-> all[order[k]]]
  BY DEF SortedBy, I, order, B
<1> QED BY <1>1, <1>5, <1>6, <1>7 DEF I

--------------------------------------------------------------------------------
(* The simple form.                                                          *)

\* Scores and ages as bounds of numbers.
LEMMA InScores == \A s : s \in Scores <=> s \in Int /\ 300 <= s /\ s <= 850
BY DEF Scores

LEMMA InAges == \A a : a \in Ages <=> a \in Nat /\ a <= MaxAge
<1>1. MaxAge \in Nat
  BY DEF MaxAge
<1> QED BY <1>1 DEF Ages

\* The fields of a profile that the request model accepts (types.py, CreditProfile).
LEMMA Accepted ==
  ASSUME NEW p, ValidCreditProfile(p)
  PROVE  /\ p \in CreditProfiles
         /\ p.score \in Scores /\ p.util \in 0 .. 100 /\ p.payPct \in 0 .. 100
         /\ p.age \in Ages /\ p.total \in Nat /\ p.open \in Nat
         /\ p.collections \in Nat /\ p.balance \in Nat /\ p.limit \in Nat
         /\ p.items \in Seq(NegativeItems)
<1>1. p \in CreditProfiles
  BY DEF ValidCreditProfile
<1>2. p.score \in Scores /\ p.util \in 0 .. 100 /\ p.payPct \in 0 .. 100 /\ p.age \in Ages
  BY <1>1 DEF CreditProfiles
<1>3. p.total \in Nat /\ p.open \in Nat /\ p.collections \in Nat /\ p.balance \in Nat /\ p.limit \in Nat
  BY <1>1 DEF CreditProfiles
<1>4. p.items \in Seq(NegativeItems)
  BY <1>1 DEF CreditProfiles
<1> QED BY <1>1, <1>2, <1>3, <1>4

\* Every text is given one of the kinds (types.py, _infer_item_type).
LEMMA KindInferred ==
  ASSUME NEW text PROVE InferItemType(text) \in ItemTypes
<1> DEFINE hits == {i \in DOMAIN KeywordRules : KeywordRules[i].words \cap text # {}}
<1>1. DOMAIN KeywordRules = 1 .. 8 BY DEF KeywordRules
<1>2. \A i \in 1 .. 8 : KeywordRules[i].type \in ItemTypes BY DEF KeywordRules, ItemTypes
<1>3. hits # {} => Min(hits) \in 1 .. 8
  <2>1. hits \in SUBSET Nat /\ hits \subseteq 1 .. 8 BY <1>1
  <2> HIDE DEF hits
  <2> QED BY <2>1, Least
<1> QED BY <1>2, <1>3 DEF InferItemType, ItemTypes

\* Every score has a band, and the band is that of the score (assessment.py, get_score_band).
LEMMA BandFits ==
  ASSUME NEW score \in Scores
  PROVE  GetScoreBand(score) \in DOMAIN SCORE_BANDS /\ InBand(score, GetScoreBand(score))
<1> DEFINE fits == {b \in DOMAIN SCORE_BANDS : InBand(score, b)}
<1>1. \E b \in DOMAIN SCORE_BANDS : InBand(score, b)
  <2>1. DOMAIN SCORE_BANDS = {"excellent", "good", "fair", "poor", "very_poor"} BY DEF SCORE_BANDS
  <2>2. score \in Int /\ 300 <= score /\ score <= 850 BY InScores
  <2>3. \A b \in DOMAIN SCORE_BANDS :
           InBand(score, b) <=> SCORE_BANDS[b].min <= score /\ score <= SCORE_BANDS[b].max
    <3>1. \A b \in DOMAIN SCORE_BANDS : SCORE_BANDS[b].min \in Int /\ SCORE_BANDS[b].max \in Int
      BY DEF SCORE_BANDS
    <3> QED BY <2>2, <3>1 DEF InBand
  <2>4. CASE score >= 750 BY <2>1, <2>2, <2>3, <2>4 DEF SCORE_BANDS
  <2>5. CASE 700 <= score /\ score < 750 BY <2>1, <2>2, <2>3, <2>5 DEF SCORE_BANDS
  <2>6. CASE 650 <= score /\ score < 700 BY <2>1, <2>2, <2>3, <2>6 DEF SCORE_BANDS
  <2>7. CASE 600 <= score /\ score < 650 BY <2>1, <2>2, <2>3, <2>7 DEF SCORE_BANDS
  <2>8. CASE score < 600 BY <2>1, <2>2, <2>3, <2>8 DEF SCORE_BANDS
  <2> QED BY <2>2, <2>4, <2>5, <2>6, <2>7, <2>8
<1>2. fits # {} /\ GetScoreBand(score) \in fits BY <1>1 DEF GetScoreBand
<1> QED BY <1>2

\* What the simple form accepts is never refused once it is converted
\* (assess_routes.py, to_credit_profile).
THEOREM ConversionAccepted ==
  ASSUME NEW s, ValidSimpleProfile(s) PROVE ValidCreditProfile(ToCreditProfile(s))
<1> DEFINE p == ToCreditProfile(s)
           Counted == {i \in DOMAIN s.texts : InferItemType(s.texts[i]) = "collection"}
<1>0a. p = [score |-> p.score, band |-> p.band, util |-> p.util, total |-> p.total, open |-> p.open,
            closed |-> p.closed, negative |-> p.negative, collections |-> p.collections,
            balance |-> p.balance, limit |-> p.limit, payPct |-> p.payPct, age |-> p.age,
            items |-> p.items]
  BY DEF ToCreditProfile
<1>1. /\ p.score = s.score /\ p.band = GetScoreBand(s.score) /\ p.util = s.util
      /\ p.total = s.total /\ p.open = s.open /\ p.closed = s.total - s.open
      /\ p.negative = Len(s.texts) /\ p.collections = Cardinality(Counted)
      /\ p.balance = s.balance /\ p.limit = s.limit /\ p.payPct = s.payPct
      /\ p.age = (3 * s.oldest) \div 5
  BY DEF ToCreditProfile
<1>2a. p.items = [i \in DOMAIN s.texts |-> Item(InferItemType(s.texts[i]), s.texts[i])]
  BY DEF ToCreditProfile
<1>0. /\ s.score \in Scores /\ s.util \in 0 .. 100 /\ s.payPct \in 0 .. 100
      /\ s.oldest \in Ages /\ s.total \in Nat /\ s.open \in Nat /\ s.balance \in Nat
      /\ s.limit \in Nat /\ s.open <= s.total
  BY DEF ValidSimpleProfile
<1> HIDE DEF p
<1>2. s.texts \in Seq(SUBSET STRING) /\ Len(s.texts) \in Nat /\ Len(s.texts) <= 50
  <2>1. s.texts \in Seq(SUBSET STRING) BY DEF ValidSimpleProfile
  <2>2. Len(s.texts) \in Nat BY <2>1, LenProperties
  <2>3. Len(s.texts) <= 50 BY DEF ValidSimpleProfile
  <2> QED BY <2>1, <2>2, <2>3
<1>3. DOMAIN s.texts = 1 .. Len(s.texts) BY <1>2
<1>4. Cardinality(Counted) \in Nat
  <2>1. Counted \subseteq 1 .. Len(s.texts) BY <1>3
  <2>2. IsFiniteSet(1 .. Len(s.texts)) BY <1>2, FS_Interval
  <2>3. IsFiniteSet(Counted) BY <2>1, <2>2, FS_Subset
  <2> QED BY <2>3, FS_CardinalityType
<1>5. p.items \in Seq(NegativeItems) /\ Len(p.items) = Len(s.texts)
  <2>1. \A i \in DOMAIN s.texts : Item(InferItemType(s.texts[i]), s.texts[i]) \in NegativeItems
    <3>1. \A i \in DOMAIN s.texts : s.texts[i] \in SUBSET STRING BY <1>2
    <3>2. \A i \in DOMAIN s.texts : InferItemType(s.texts[i]) \in ItemTypes BY KindInferred
    <3> QED BY <3>1, <3>2 DEF Item, NegativeItems
  <2> QED BY <1>2a, <1>2, <1>3, <2>1
<1>6. p.band \in DOMAIN SCORE_BANDS /\ InBand(p.score, p.band)
  <2>1. s.score \in Scores /\ p.score = s.score /\ p.band = GetScoreBand(s.score) BY <1>0, <1>1
  <2>2. GetScoreBand(s.score) \in DOMAIN SCORE_BANDS /\ InBand(s.score, GetScoreBand(s.score))
    BY <2>1, BandFits
  <2> QED BY <2>1, <2>2, Zenon
<1>7. p.score \in Scores /\ p.util \in 0 .. 100 /\ p.payPct \in 0 .. 100
  BY <1>0, <1>1
<1>8. p.age \in Ages
  <2>1. PICK months \in Nat : months = s.oldest /\ months <= MaxAge BY <1>0, InAges
  <2>2. (3 * months) \div 5 \in Nat /\ (3 * months) \div 5 <= months BY <2>1
  <2>3. MaxAge \in Nat BY DEF MaxAge
  <2>4. (3 * months) \div 5 <= MaxAge BY <2>1, <2>2, <2>3
  <2>5. p.age = (3 * months) \div 5 BY <1>1, <2>1
  <2> QED BY <2>2, <2>4, <2>5, InAges
<1>9. /\ p.total \in Nat /\ p.open \in Nat /\ p.closed \in Nat /\ p.negative \in Nat
      /\ p.collections \in Nat /\ p.balance \in Nat /\ p.limit \in Nat
  BY <1>0, <1>1, <1>2, <1>4
<1>9a. p \in CreditProfiles
  BY <1>0a, <1>5, <1>6, <1>7, <1>8, <1>9 DEF CreditProfiles
<1>10. ValidCreditProfile(p) BY <1>2, <1>5, <1>6, <1>9a DEF ValidCreditProfile
<1> QED BY <1>10 DEF p

--------------------------------------------------------------------------------
(* The simulation.                                                           *)

\* A lower utilization is never in a worse bracket (simulation.py, UTILIZATION_BRACKETS).
LEMMA BracketRange ==
  ASSUME NEW den, NEW u PROVE BracketImpact(u, den) \in -30 .. 50
BY DEF BracketImpact

\* A lower utilization never has a lower impact.
LEMMA BracketFalls ==
  ASSUME NEW den \in Nat \ {0}, NEW u \in Nat, NEW v \in Nat, u <= v
  PROVE  BracketImpact(v, den) <= BracketImpact(u, den)
BY DEF BracketImpact

\* The impact of an improvement is in order, and none is negative.
LEMMA ImpactOrdered ==
  ASSUME NEW gain \in Int
  PROVE  /\ Impact(gain).low \in Nat /\ Impact(gain).high \in Int
         /\ gain >= 0 => Impact(gain).low <= Impact(gain).high
BY DEF Impact, Truncate

\* Two improvements counted apart are worth no more than both at once.
LEMMA ImpactSplit ==
  ASSUME NEW a \in Nat, NEW b \in Nat
  PROVE  Impact(a).high + Impact(b).high <= Impact(a + b).high
BY DEF Impact, Truncate

\* What the request model accepts, field by field; the limit that is divided by is not zero.
LEMMA ProfileFields ==
  ASSUME NEW p, ValidCreditProfile(p)
  PROVE  /\ p.score \in Scores /\ p.util \in Nat /\ p.payPct \in 0 .. 100
         /\ p.balance \in Nat /\ p.collections \in Nat /\ p.limit \in Nat
         /\ Len(p.items) \in Nat /\ Den(p) \in Nat \ {0} /\ p.util * Den(p) \in Nat
<1>1. /\ p.score \in Scores /\ p.util \in 0 .. 100 /\ p.payPct \in 0 .. 100
      /\ p.items \in Seq(NegativeItems)
  BY Accepted
<1>2. p.util \in Nat /\ p.balance \in Nat /\ p.collections \in Nat /\ p.limit \in Nat
  <2>0. p.util \in 0 .. 100 BY <1>1
  <2>1. p.util \in Nat BY <2>0
  <2>2. p.balance \in Nat /\ p.collections \in Nat /\ p.limit \in Nat BY Accepted
  <2> QED BY <2>1, <2>2
<1>3. Len(p.items) \in Nat BY <1>1, LenProperties
<1>4. Den(p) \in Nat \ {0} BY <1>2 DEF Den
<1>5. p.util * Den(p) \in Nat BY <1>2, <1>4
<1> QED BY <1>1, <1>2, <1>3, <1>4, <1>5

\* No action raises the utilization of a consistent request: what the bound of the gain
\* rests on.
NeverHigher == Consistent(profile) => util <= profile.util * Den(profile)

SimInv ==
  /\ SimTypeOK /\ WorkingStateConsistent /\ GainOrdered /\ UtilizationGainBounded /\ NeverHigher

\* The invariant holds when the request arrives.
LEMMA SimStart == SimAssumption /\ SimInit => SimInv
<1> SUFFICES ASSUME SimAssumption, SimInit PROVE SimInv OBVIOUS
<1>1. ValidCreditProfile(profile) BY ConversionAccepted DEF SimAssumption, SimInit
<1>2. /\ profile.util * Den(profile) \in Nat /\ profile.balance \in Nat
      /\ profile.collections \in Nat /\ profile.payPct \in 0 .. 100
      /\ Len(profile.items) \in Nat /\ Den(profile) \in Nat \ {0}
  BY <1>1, ProfileFields
<1>5. SimTypeOK
  <2>1. total \in [min : Nat, max : Int, expected : Int] BY DEF SimInit, Totals
  <2>2. applied \in 0 .. MaxActions BY DEF SimInit, SimAssumption
  <2> QED BY <1>1, <1>2, <2>1, <2>2 DEF SimTypeOK, SimInit
<1>6. WorkingStateConsistent BY DEF SimInit, WorkingStateConsistent, Consistent, Den
<1>7. GainOrdered BY DEF SimInit, GainOrdered, Totals
<1>8. UtilizationGainBounded
  <2>1. Impact(0).high = 0 BY DEF Impact, Truncate
  <2> DEFINE stated == BracketImpact(profile.util * Den(profile), Den(profile))
  <2>2. stated \in -30 .. 50 BY BracketRange
  <2>3. stated = BracketImpact(util, Den(profile)) BY DEF SimInit
  <2> HIDE DEF stated
  <2>4. stated - stated = 0 BY <2>2
  <2> QED BY <2>1, <2>3, <2>4 DEF UtilizationGainBounded, SimInit, stated
<1>9. NeverHigher BY <1>2 DEF SimInit, NeverHigher
<1> QED BY <1>5, <1>6, <1>7, <1>8, <1>9 DEF SimInv

\* Counting an impact that is in order keeps the estimates in order (add_impact).
LEMMA Counted ==
  ASSUME SimInv, NEW low \in Nat, NEW high \in Int, AddImpact(low, high)
  PROVE  /\ total' \in [min : Nat, max : Int, expected : Int]
         /\ Consistent(profile) /\ low <= high =>
              /\ 0 <= total'.min /\ total'.min <= total'.expected /\ total'.expected <= total'.max
<1>1. total \in [min : Nat, max : Int, expected : Int] BY DEF SimInv, SimTypeOK
<1>2. (low + high) \div 2 \in Int /\ (low <= high => low <= (low + high) \div 2 /\ (low + high) \div 2 <= high)
  OBVIOUS
<1>3. /\ total'.min = total.min + low /\ total'.max = total.max + high
      /\ total'.expected = total.expected + (low + high) \div 2
      /\ total' = [min |-> total'.min, max |-> total'.max, expected |-> total'.expected]
  BY DEF AddImpact, Totals
<1>4. Consistent(profile) => 0 <= total.min /\ total.min <= total.expected /\ total.expected <= total.max
  BY DEF SimInv, GainOrdered
<1>5. total.min \in Nat /\ total.max \in Int /\ total.expected \in Int BY <1>1
<1>6. total'.min \in Nat /\ total'.max \in Int /\ total'.expected \in Int BY <1>2, <1>3, <1>5
<1> HIDE DEF SimInv
<1> QED BY <1>2, <1>3, <1>4, <1>5, <1>6

\* A move of the utilization, to one that is no higher when the request is consistent, adds
\* an impact that is in order and bounded by that of the whole way.
LEMMA Moved ==
  ASSUME SimInv, NEW u \in Nat, Consistent(profile) => u <= util,
         Move(u)
  PROVE  /\ util' \in Nat /\ utilMax' \in Int
         /\ total' \in [min : Nat, max : Int, expected : Int]
         /\ Consistent(profile) =>
              /\ 0 <= total'.min /\ total'.min <= total'.expected /\ total'.expected <= total'.max
              /\ utilMax' <= Impact(BracketImpact(u, Den(profile))
                                    - BracketImpact(profile.util * Den(profile), Den(profile))).high
<1>1. /\ Den(profile) \in Nat \ {0} /\ profile.util * Den(profile) \in Nat
      /\ util \in Nat /\ utilMax \in Int
  BY ProfileFields DEF SimInv, SimTypeOK
<1>2. PICK stated \in -30 .. 50 :
        stated = BracketImpact(profile.util * Den(profile), Den(profile))
  BY BracketRange
<1>3. PICK before \in -30 .. 50 : before = BracketImpact(util, Den(profile)) BY BracketRange
<1>4. PICK after \in -30 .. 50 : after = BracketImpact(u, Den(profile)) BY BracketRange
<1>5. Consistent(profile) => after >= before BY <1>1, <1>3, <1>4, BracketFalls
<1>6. /\ util' = u /\ AddImpact(Impact(after - before).low, Impact(after - before).high)
      /\ utilMax' = utilMax + Impact(after - before).high
  BY <1>3, <1>4 DEF Move
<1>7. /\ Impact(after - before).low \in Nat /\ Impact(after - before).high \in Int
      /\ after - before >= 0 => Impact(after - before).low <= Impact(after - before).high
  <2>1. after - before \in Int OBVIOUS
  <2> QED BY <2>1, ImpactOrdered
<1>8. Consistent(profile) => utilMax <= Impact(before - stated).high
  BY <1>2, <1>3 DEF SimInv, UtilizationGainBounded
<1>9. /\ total' \in [min : Nat, max : Int, expected : Int]
      /\ Consistent(profile) =>
           0 <= total'.min /\ total'.min <= total'.expected /\ total'.expected <= total'.max
  BY <1>5, <1>6, <1>7, Counted
<1>10. Consistent(profile) => utilMax' <= Impact(after - stated).high
  <2> SUFFICES ASSUME Consistent(profile) PROVE utilMax' <= Impact(after - stated).high OBVIOUS
  <2>1. before >= stated BY <1>1, <1>2, <1>3, BracketFalls DEF SimInv, NeverHigher
  <2>2. PICK a \in Nat : a = after - before BY <1>5
  <2>3. PICK b \in Nat : b = before - stated BY <2>1
  <2>4. Impact(a).high + Impact(b).high <= Impact(a + b).high BY ImpactSplit
  <2>5. a + b = after - stated BY <2>2, <2>3
  <2>6. Impact(a).high \in Int /\ Impact(b).high \in Int /\ Impact(a + b).high \in Int
    BY ImpactOrdered
  <2>7. utilMax' = utilMax + Impact(a).high /\ utilMax <= Impact(b).high
    BY <1>6, <1>8, <2>2, <2>3
  <2> QED BY <1>1, <2>4, <2>5, <2>6, <2>7
<1> QED BY <1>1, <1>2, <1>4, <1>6, <1>7, <1>9, <1>10
--------------------------------------------------------------------------------
\* What a handler leaves of SimInv when it counts an impact that is in order, and what an
\* action that counts none keeps.
LEMMA Steady ==
  ASSUME SimInv, UNCHANGED <<profile, util, balance, utilMax>>, result' = 0,
         total' \in [min : Nat, max : Int, expected : Int],
         Consistent(profile) =>
           0 <= total'.min /\ total'.min <= total'.expected /\ total'.expected <= total'.max
  PROVE  WorkingStateConsistent' /\ GainOrdered' /\ UtilizationGainBounded' /\ NeverHigher'
BY DEF SimInv, WorkingStateConsistent, GainOrdered, UtilizationGainBounded, NeverHigher, Consistent, Den

\* An action that is handled counts.
LEMMA Handled ==
  ASSUME SimAssumption, SimInv, CanApply, applied' = applied + 1
  PROVE  applied' \in 0 .. MaxActions /\ result = 0
BY DEF SimAssumption, SimInv, SimTypeOK, CanApply

\* A handler that adds nothing keeps the order of the three totals.
LEMMA TotalsKept ==
  ASSUME SimInv, total' = total
  PROVE  /\ total' \in [min : Nat, max : Int, expected : Int]
         /\ Consistent(profile) =>
              0 <= total'.min /\ total'.min <= total'.expected /\ total'.expected <= total'.max
BY DEF SimInv, SimTypeOK, GainOrdered

\* Paying debt down keeps the invariant.
LEMMA PayDownDebtStep ==
  ASSUME SimAssumption, SimInv, NEW amount \in Amounts, PayDownDebt(amount) PROVE SimInv'
<1>1. /\ UNCHANGED <<form, profile, negatives, collections, payPct, result>>
      /\ CanApply /\ applied' = applied + 1
  BY DEF PayDownDebt
<1>2. applied' \in 0 .. MaxActions /\ result' = 0 BY <1>1, Handled
<1>3. ValidCreditProfile(profile) /\ profile.limit \in Nat /\ util \in Nat /\ balance \in Nat /\ amount \in Nat
  BY ProfileFields DEF SimInv, SimTypeOK, SimAssumption
<1>4. CASE profile.limit <= 0 \/ amount = 0
  <2>1. UNCHANGED <<util, balance, total, utilMax>> BY <1>4 DEF PayDownDebt, NoImpact
  <2>2. SimTypeOK' BY <1>1, <1>2, <2>1 DEF SimInv, SimTypeOK
  <2>3. WorkingStateConsistent' /\ GainOrdered' /\ UtilizationGainBounded' /\ NeverHigher'
    BY <1>1, <1>2, <2>1, TotalsKept, Steady
  <2> QED BY <2>2, <2>3 DEF SimInv
<1>5. CASE ~ (profile.limit <= 0 \/ amount = 0)
  <2> DEFINE left == IF balance > 100 * amount THEN balance - 100 * amount ELSE 0
  <2>1. balance' = left /\ Move(left) BY <1>5 DEF PayDownDebt
  <2>2. left \in Nat /\ left <= balance BY <1>3
  <2>3. Consistent(profile) => util = balance /\ util <= profile.util * Den(profile)
    BY <1>3, <1>5 DEF SimInv, WorkingStateConsistent, NeverHigher
  <2>4. util' = left BY <2>1 DEF Move
  <2>5. profile.util * Den(profile) \in Nat BY <1>3, ProfileFields
  <2> HIDE DEF left
  <2>6. Consistent(profile) => left <= util BY <2>2, <2>3
  <2>7. /\ util' \in Nat /\ utilMax' \in Int
        /\ total' \in [min : Nat, max : Int, expected : Int]
        /\ Consistent(profile) =>
             /\ 0 <= total'.min /\ total'.min <= total'.expected /\ total'.expected <= total'.max
             /\ utilMax' <= Impact(BracketImpact(left, Den(profile))
                                   - BracketImpact(profile.util * Den(profile), Den(profile))).high
    BY <2>1, <2>2, <2>6, Moved
  <2>8. SimTypeOK' BY <1>1, <1>2, <2>1, <2>2, <2>7 DEF SimInv, SimTypeOK
  <2>9. WorkingStateConsistent' BY <1>1, <2>1, <2>4 DEF WorkingStateConsistent, Consistent
  <2>10. GainOrdered' BY <1>1, <1>2, <2>7 DEF GainOrdered, Consistent
  <2>11. UtilizationGainBounded'
    BY <1>1, <2>4, <2>7 DEF UtilizationGainBounded, Consistent, Den
  <2>12. NeverHigher' BY <1>1, <1>3, <2>2, <2>3, <2>4, <2>5, <2>6 DEF NeverHigher, Consistent, Den
  <2> QED BY <2>8, <2>9, <2>10, <2>11, <2>12 DEF SimInv
<1> QED BY <1>4, <1>5

\* Reducing utilization keeps the invariant.
LEMMA ReduceUtilizationStep ==
  ASSUME SimAssumption, SimInv, NEW target \in Targets, ReduceUtilization(target) PROVE SimInv'
<1>1. /\ UNCHANGED <<form, profile, negatives, collections, payPct, result>>
      /\ CanApply /\ applied' = applied + 1
  BY DEF ReduceUtilization
<1>2. applied' \in 0 .. MaxActions /\ result' = 0 BY <1>1, Handled
<1>3. /\ ValidCreditProfile(profile) /\ profile.limit \in Nat /\ util \in Nat /\ balance \in Nat
      /\ target \in Nat /\ Den(profile) \in Nat \ {0} /\ profile.util * Den(profile) \in Nat
  BY ProfileFields DEF SimInv, SimTypeOK, SimAssumption
<1>3a. PICK moved \in Nat : moved = target * Den(profile) BY <1>3
<1>4. CASE moved >= util
  <2>1. UNCHANGED <<util, balance, total, utilMax>> BY <1>3a, <1>4 DEF ReduceUtilization, NoImpact
  <2>2. SimTypeOK' BY <1>1, <1>2, <2>1 DEF SimInv, SimTypeOK
  <2>3. WorkingStateConsistent' /\ GainOrdered' /\ UtilizationGainBounded' /\ NeverHigher'
    BY <1>1, <1>2, <2>1, TotalsKept, Steady
  <2> QED BY <2>2, <2>3 DEF SimInv
<1>5. CASE ~ (moved >= util)
  <2>1. /\ Move(moved)
        /\ balance' = IF profile.limit > 0 THEN target * profile.limit ELSE balance
    BY <1>3a, <1>5 DEF ReduceUtilization
  <2>2. profile.limit > 0 => balance' = moved BY <1>3a, <2>1 DEF Den
  <2>3. balance' \in Nat BY <1>3, <2>1, <2>2
  <2>4. util' = moved BY <2>1 DEF Move
  <2>6. moved < util BY <1>3, <1>5
  <2>7. /\ util' \in Nat /\ utilMax' \in Int
        /\ total' \in [min : Nat, max : Int, expected : Int]
        /\ Consistent(profile) =>
             /\ 0 <= total'.min /\ total'.min <= total'.expected /\ total'.expected <= total'.max
             /\ utilMax' <= Impact(BracketImpact(moved, Den(profile))
                                   - BracketImpact(profile.util * Den(profile), Den(profile))).high
    BY <1>3, <2>1, <2>6, Moved
  <2>8. SimTypeOK' BY <1>1, <1>2, <2>3, <2>7 DEF SimInv, SimTypeOK
  <2>9. WorkingStateConsistent' BY <1>1, <2>2, <2>4 DEF WorkingStateConsistent, Consistent
  <2>10. GainOrdered' BY <1>1, <1>2, <2>7 DEF GainOrdered, Consistent
  <2>11. UtilizationGainBounded'
    BY <1>1, <2>4, <2>7 DEF UtilizationGainBounded, Consistent, Den
  <2>12. NeverHigher'
    <3>1. Consistent(profile) => util <= profile.util * Den(profile) BY DEF SimInv, NeverHigher
    <3>2. profile' = profile BY <1>1
    <3>3. Consistent(profile) => moved <= profile.util * Den(profile) BY <1>3, <2>6, <3>1
    <3> QED BY <2>4, <3>2, <3>3 DEF NeverHigher, Consistent, Den
  <2> QED BY <2>8, <2>9, <2>10, <2>11, <2>12 DEF SimInv
<1> QED BY <1>4, <1>5

\* The handlers that count a fixed impact, or none, and leave the utilization alone.
FixedHandler ==
  RemoveCollection \/ DisputeNegative \/ PayOnTime \/ \E f \in FixedImpacts : FixedImpact(f)

\* The handlers with a fixed impact keep the invariant.
LEMMA FixedStep == ASSUME SimAssumption, SimInv, FixedHandler PROVE SimInv'
<1>1. /\ UNCHANGED <<form, profile, util, balance, utilMax, result>>
      /\ CanApply /\ applied' = applied + 1
  BY DEF FixedHandler, RemoveCollection, DisputeNegative, PayOnTime, FixedImpact
<1>2. applied' \in 0 .. MaxActions /\ result' = 0 BY <1>1, Handled
<1>3. negatives \in Nat /\ collections \in Nat /\ payPct \in 0 .. 100 BY DEF SimInv, SimTypeOK
<1>4. negatives' \in Nat /\ collections' \in Nat /\ payPct' \in 0 .. 100
  BY <1>3 DEF FixedHandler, RemoveCollection, DisputeNegative, PayOnTime, FixedImpact
<1>5. \/ total' = total
      \/ \E low \in Nat, high \in Int : low <= high /\ AddImpact(low, high)
  <2>1. \A f \in FixedImpacts : f[1] \in Nat /\ f[2] \in Int /\ f[1] <= f[2] BY DEF FixedImpacts
  <2>2. CASE RemoveCollection BY <2>2 DEF RemoveCollection
  <2>3. CASE DisputeNegative BY <2>3 DEF DisputeNegative
  <2>4. CASE PayOnTime BY <2>4 DEF PayOnTime
  <2>5. CASE \E f \in FixedImpacts : FixedImpact(f) BY <2>1, <2>5 DEF FixedImpact
  <2> QED BY <2>2, <2>3, <2>4, <2>5 DEF FixedHandler
<1>6. /\ total' \in [min : Nat, max : Int, expected : Int]
      /\ Consistent(profile) =>
           0 <= total'.min /\ total'.min <= total'.expected /\ total'.expected <= total'.max
  BY <1>5, TotalsKept, Counted
<1>7. SimTypeOK' BY <1>1, <1>2, <1>4, <1>6 DEF SimInv, SimTypeOK
<1>8. WorkingStateConsistent' /\ GainOrdered' /\ UtilizationGainBounded' /\ NeverHigher'
  BY <1>1, <1>2, <1>6, Steady
<1> QED BY <1>7, <1>8 DEF SimInv

\* The projection keeps the invariant.
LEMMA ProjectStep == ASSUME SimInv, Project PROVE SimInv'
<1>1. UNCHANGED <<form, profile, util, balance, negatives, collections, payPct, total, utilMax, applied>>
  BY DEF Project
<1>2. profile.score \in Scores /\ total.expected \in Int
  BY ProfileFields DEF SimInv, SimTypeOK
<1>3. result' \in Scores /\ (total.expected >= 0 => result' >= profile.score)
  <2>1. PICK score \in Int : score = profile.score /\ 300 <= score /\ score <= 850 BY <1>2, InScores
  <2>2. PICK gain \in Int : gain = total.expected BY <1>2
  <2>3. result' = IF score + gain < 300 THEN 300 ELSE IF score + gain > 850 THEN 850 ELSE score + gain
    BY <2>1, <2>2 DEF Project
  <2>4. /\ result' \in Int /\ 300 <= result' /\ result' <= 850
        /\ total.expected >= 0 => result' >= profile.score
    BY <2>1, <2>2, <2>3
  <2> QED BY <2>4, InScores
<1>4. SimTypeOK' BY <1>1, <1>3 DEF SimInv, SimTypeOK
<1>5. GainOrdered'
  <2>1. Consistent(profile) =>
          0 <= total.min /\ total.min <= total.expected /\ total.expected <= total.max
    BY DEF SimInv, GainOrdered
  <2>2. total.min \in Nat BY DEF SimInv, SimTypeOK
  <2> QED BY <1>1, <1>2, <1>3, <2>1, <2>2 DEF GainOrdered, Consistent
<1>6. WorkingStateConsistent' /\ UtilizationGainBounded' /\ NeverHigher'
  BY <1>1 DEF SimInv, WorkingStateConsistent, UtilizationGainBounded, NeverHigher, Consistent, Den
<1> QED BY <1>4, <1>5, <1>6 DEF SimInv

\* Every step of the simulation keeps the invariant.
LEMMA SimStep == SimAssumption /\ SimInv /\ [SimNext]_simVars => SimInv'
<1> SUFFICES ASSUME SimAssumption, SimInv, [SimNext]_simVars PROVE SimInv' OBVIOUS
<1>1. CASE UNCHANGED simVars
  BY <1>1 DEF simVars, SimInv, SimTypeOK, WorkingStateConsistent, GainOrdered,
              UtilizationGainBounded, NeverHigher, Consistent, Den
<1>2. CASE SimNext
  <2>1. CASE \E a \in Amounts : PayDownDebt(a) BY <2>1, PayDownDebtStep
  <2>2. CASE \E t \in Targets : ReduceUtilization(t) BY <2>2, ReduceUtilizationStep
  <2>3. CASE FixedHandler BY <2>3, FixedStep
  <2>4. CASE Project BY <2>4, ProjectStep
  <2> QED BY <1>2, <2>1, <2>2, <2>3, <2>4, Zenon DEF SimNext, FixedHandler
<1> QED BY <1>1, <1>2

\* A projection never contradicts the profile it started from, for any profiles the request
\* models accept, any amounts and targets, and any number of actions in any order.
THEOREM SimulationCorrect == SimSpec => []ProjectionSound
<1>1. SimInit => SimInv BY SimStart, SimAssumption
<1>2. SimInv /\ [SimNext]_simVars => SimInv' BY SimStep, SimAssumption
<1>3. SimInv => ProjectionSound BY DEF SimInv, ProjectionSound
<1> QED BY <1>1, <1>2, <1>3, PTL DEF SimSpec

--------------------------------------------------------------------------------
(* The assessment of one profile: its answers agree.                        *)

\* Min and Max of the community modules on two numbers.
LEMMA LeastOfTwo ==
  ASSUME NEW a \in Int, NEW b \in Int PROVE Min({a, b}) = IF a <= b THEN a ELSE b
BY DEF Min

\* The greater of two numbers.
LEMMA GreatestOfTwo ==
  ASSUME NEW a \in Int, NEW b \in Int PROVE Max({a, b}) = IF a <= b THEN b ELSE a
BY DEF Max

\* The steps before they are sorted.
Unsorted(p) == ItemSteps(p) \o ProfileSteps(p)
Step == [issue : ItemTypes \cup {"review"}, pattern : ItemTypes, priority : DOMAIN PRIORITY_ORDER, days : Nat]

\* Every kind of item has a pattern, with a priority that is in the order and days.
LEMMA PatternsComplete ==
  /\ DOMAIN ISSUE_PATTERNS = ItemTypes
  /\ \A type \in ItemTypes : ISSUE_PATTERNS[type].priority \in DOMAIN PRIORITY_ORDER
                             /\ ISSUE_PATTERNS[type].days \in Nat
<1>1. DOMAIN PRIORITY_ORDER = {"CRITICAL", "HIGH", "MEDIUM", "LOW"}
  BY DEF PRIORITY_ORDER
<1>2. DOMAIN ISSUE_PATTERNS = ItemTypes
  BY DEF ISSUE_PATTERNS, ItemTypes
<1>3. \A type \in ItemTypes : ISSUE_PATTERNS[type].priority \in {"CRITICAL", "HIGH", "MEDIUM", "LOW"}
                             /\ ISSUE_PATTERNS[type].days \in Nat
  BY DEF ISSUE_PATTERNS, ItemTypes, Pattern
<1> QED BY <1>1, <1>2, <1>3

\* Items come first, in their order, and then at most one review of the balances.
LEMMA UnsortedSteps ==
  ASSUME NEW p, ValidCreditProfile(p)
  PROVE  /\ p.items \in Seq(NegativeItems)
         /\ Unsorted(p) \in Seq(Step) /\ Len(Unsorted(p)) \in Nat
         /\ Len(Unsorted(p)) = Len(p.items) + (IF p.util > 75 /\ p.limit > 0 THEN 1 ELSE 0)
         /\ \A i \in 1 .. Len(p.items) : Unsorted(p)[i].issue = p.items[i].type
         /\ \A i \in 1 .. Len(Unsorted(p)) : i > Len(p.items) => Unsorted(p)[i].issue = "review"
<1>1. p.items \in Seq(NegativeItems) /\ Len(p.items) \in Nat /\ DOMAIN p.items = 1 .. Len(p.items)
  <2>1. p.items \in Seq(NegativeItems) BY Accepted
  <2> QED BY <2>1, LenProperties
<1>2. \A i \in 1 .. Len(p.items) : p.items[i].type \in ItemTypes
  <2>1. \A i \in 1 .. Len(p.items) : p.items[i] \in NegativeItems
    BY <1>1
  <2> QED BY <2>1 DEF NegativeItems
<1>3. /\ ItemSteps(p) \in Seq(Step) /\ Len(ItemSteps(p)) = Len(p.items)
      /\ \A i \in 1 .. Len(p.items) : ItemSteps(p)[i].issue = p.items[i].type
  <2> DEFINE S(i) == [issue |-> p.items[i].type, pattern |-> p.items[i].type,
                      priority |-> ISSUE_PATTERNS[p.items[i].type].priority,
                      days |-> ISSUE_PATTERNS[p.items[i].type].days]
  <2>1. \A i \in 1 .. Len(p.items) : S(i) \in Step /\ S(i).issue = p.items[i].type
    BY <1>2, PatternsComplete DEF Step
  <2>2. ItemSteps(p) = [i \in 1 .. Len(p.items) |-> S(i)]
    BY <1>1 DEF ItemSteps
  <2> HIDE DEF S
  <2> QED BY <1>1, <2>1, <2>2
<1>4. /\ ProfileSteps(p) \in Seq(Step)
      /\ Len(ProfileSteps(p)) = (IF p.util > 75 /\ p.limit > 0 THEN 1 ELSE 0)
      /\ \A i \in 1 .. Len(ProfileSteps(p)) : ProfileSteps(p)[i].issue = "review"
  <2> DEFINE r == [issue |-> "review", pattern |-> "wrong_balance", priority |-> "MEDIUM", days |-> 30]
  <2>1. r \in Step /\ r.issue = "review"
    BY DEF Step, ItemTypes, PRIORITY_ORDER
  <2>2. ProfileSteps(p) = IF p.util > 75 /\ p.limit > 0 THEN <<r>> ELSE <<>>
    BY DEF ProfileSteps, HIGH_UTILIZATION_THRESHOLD
  <2> HIDE DEF r
  <2>3. CASE p.util > 75 /\ p.limit > 0
    BY <2>1, <2>2, <2>3
  <2>4. CASE ~(p.util > 75 /\ p.limit > 0)
    BY <2>2, <2>4
  <2> QED BY <2>3, <2>4
<1> DEFINE a == ItemSteps(p)
           b == ProfileSteps(p)
           u == a \o b
<1>5. u = Unsorted(p)
  BY DEF Unsorted
<1> HIDE DEF a, b
<1>6. PICK m \in Nat, k \in Nat : m = Len(p.items) /\ m = Len(a) /\ k = Len(b)
  BY <1>1, <1>3, <1>4 DEF a, b
<1>7. a \in Seq(Step) /\ b \in Seq(Step)
  BY <1>3, <1>4 DEF a, b
<1>8. /\ u \in Seq(Step) /\ Len(u) = m + k
      /\ \A i \in 1 .. m + k : u[i] = IF i <= m THEN a[i] ELSE b[i - m]
  BY <1>6, <1>7, ConcatProperties
<1> HIDE DEF u
<1>9. \A i \in 1 .. m : u[i].issue = p.items[i].type
  BY <1>3, <1>6, <1>8 DEF a
<1>10. \A i \in 1 .. m + k : i > m => u[i].issue = "review"
  <2> SUFFICES ASSUME NEW i \in 1 .. m + k, i > m PROVE u[i].issue = "review"
    OBVIOUS
  <2>1. i - m \in 1 .. k /\ u[i] = b[i - m]
    BY <1>8
  <2> QED BY <1>4, <1>6, <2>1 DEF b
<1> QED BY <1>1, <1>4, <1>5, <1>6, <1>8, <1>9, <1>10 DEF b

Priorities(p) == [i \in DOMAIN Unsorted(p) |-> PRIORITY_ORDER[Unsorted(p)[i].priority]]

\* The pathway takes every step there is to take, once, by priority and then in the order
\* of the items (dispute_pathway.py, generate_pathway).
THEOREM PathwayOrder ==
  ASSUME NEW p, ValidCreditProfile(p)
  PROVE  /\ Unsorted(p) \in Seq(Step)
         /\ \E order \in Bijection(1 .. Len(Unsorted(p)), 1 .. Len(Unsorted(p))) :
              /\ Pathway(p).steps = [k \in 1 .. Len(Unsorted(p)) |-> Unsorted(p)[order[k]]]
              /\ \A k, l \in 1 .. Len(Unsorted(p)) :
                    k < l => Precedes(Priorities(p), order[k], order[l])
<1> DEFINE n == Len(Unsorted(p))
<1>1. Pathway(p).steps = SortedBy(Unsorted(p), Priorities(p))
  BY DEF Pathway, Unsorted, Priorities
<1>2. Unsorted(p) \in Seq(Step)
  BY UnsortedSteps
<1>3. n \in Nat /\ DOMAIN Unsorted(p) = 1 .. n
  BY <1>2, LenProperties
<1>4. Priorities(p) \in [1 .. n -> Nat]
  <2>1. \A i \in 1 .. n : Unsorted(p)[i] \in Step
    BY <1>2, <1>3
  <2>2. \A i \in 1 .. n : PRIORITY_ORDER[Unsorted(p)[i].priority] \in Nat
    BY <2>1 DEF Step, PRIORITY_ORDER
  <2> QED BY <1>3, <2>2 DEF Priorities
<1> HIDE DEF n
<1>5. \E order \in Bijection(1 .. n, 1 .. n) :
         /\ SortedBy(Unsorted(p), Priorities(p)) = [k \in 1 .. n |-> Unsorted(p)[order[k]]]
         /\ \A k, l \in 1 .. n : k < l => Precedes(Priorities(p), order[k], order[l])
  BY <1>3, <1>4, SortedOrder
<1> QED BY <1>1, <1>2, <1>5 DEF n

\* The balances are reviewed only at a utilization that makes the severity high.
LEMMA ReviewMeansHigh ==
  ASSUME NEW p, ValidCreditProfile(p), NEW k \in DOMAIN Pathway(p).steps,
         Pathway(p).steps[k].issue = "review"
  PROVE  BarrierSeverity(p) = "HIGH"
<1> DEFINE u == Unsorted(p)
           n == Len(u)
           m == Len(p.items)
<1>1. /\ n \in Nat /\ m \in Nat
      /\ n = m + (IF p.util > 75 /\ p.limit > 0 THEN 1 ELSE 0)
      /\ \A i \in 1 .. m : u[i].issue = p.items[i].type
      /\ p.items \in Seq(NegativeItems)
  BY UnsortedSteps, LenProperties
<1>2. PICK order \in Bijection(1 .. n, 1 .. n) : Pathway(p).steps = [j \in 1 .. n |-> u[order[j]]]
  BY PathwayOrder
<1> HIDE DEF u, n
<1>3. k \in 1 .. n /\ order[k] \in 1 .. n
  BY <1>2 DEF Bijection, Injection
<1>4. u[order[k]].issue = "review"
  BY <1>2, <1>3
<1>5. order[k] \notin 1 .. m
  <2> SUFFICES ASSUME order[k] \in 1 .. m PROVE FALSE
    OBVIOUS
  <2>1. p.items[order[k]] \in NegativeItems
    BY <1>1
  <2>2. p.items[order[k]].type \in ItemTypes
    BY <2>1 DEF NegativeItems
  <2> QED BY <1>1, <1>4, <2>2 DEF ItemTypes
<1> HIDE DEF m
<1>6. p.util > 75
  <2>1. n # m
    BY <1>3, <1>5
  <2> QED BY <1>1, <2>1
<1> QED BY <1>6 DEF BarrierSeverity, HIGH_UTILIZATION_THRESHOLD

\* What a low severity means.
LEMMA LowMeans ==
  ASSUME NEW p, ValidCreditProfile(p), BarrierSeverity(p) = "LOW"
  PROVE  /\ p.collections = 0 /\ p.util \in 0 .. 50 /\ p.items = <<>>
         /\ p.score \in Int /\ 650 <= p.score /\ p.score <= 850
<1>1. p.collections \in Nat /\ p.util \in 0 .. 100 /\ p.score \in Scores
  BY Accepted
<1>2. ~(p.collections > 0) /\ ~(p.util > 75) /\ ~(p.score < 580)
  BY DEF BarrierSeverity, HIGH_UTILIZATION_THRESHOLD
<1>3. p.items = <<>> /\ ~(p.util > 50) /\ ~(p.score < 650)
  BY <1>2 DEF BarrierSeverity, HIGH_UTILIZATION_THRESHOLD, MODERATE_UTILIZATION_THRESHOLD
<1>3a. ~(p.util > 50) /\ ~(p.score < 650)
  BY <1>3
<1>4. p.collections = 0
  BY <1>1, <1>2
<1>5. p.util \in 0 .. 50
  <2>1. PICK u \in 0 .. 100 : u = p.util
    BY <1>1
  <2>2. u \in 0 .. 50
    BY <1>3a, <2>1
  <2> QED BY <2>1, <2>2
<1>6. p.score \in Int /\ 650 <= p.score /\ p.score <= 850
  BY <1>1, <1>3a, InScores
<1> QED BY <1>3, <1>4, <1>5, <1>6

\* The barriers are those the severity was decided by.
LEMMA BarriersExplain ==
  ASSUME NEW p PROVE Barriers(p) = {} <=> BarrierSeverity(p) = "LOW"
<1>1. BarrierSeverity(p) = "HIGH" <=> p.collections > 0 \/ p.util > 75 \/ p.score < 580
  BY DEF BarrierSeverity, HIGH_UTILIZATION_THRESHOLD
<1>2. BarrierSeverity(p) = "MEDIUM"
        => p.items # <<>> \/ p.util > 50 \/ p.score < 650
  BY DEF BarrierSeverity, HIGH_UTILIZATION_THRESHOLD, MODERATE_UTILIZATION_THRESHOLD
<1>3. BarrierSeverity(p) \in {"HIGH", "MEDIUM", "LOW"}
  BY DEF BarrierSeverity
<1>4. CASE BarrierSeverity(p) = "HIGH"
  <2>1. Barriers(p) = HighBarriers(p)
    BY <1>4 DEF Barriers
  <2>2. /\ p.collections > 0 => [reason |-> "collections", days |-> 90] \in HighBarriers(p)
        /\ p.util > 75 => [reason |-> "utilization", days |-> 60] \in HighBarriers(p)
        /\ p.score < 580 => [reason |-> "score", days |-> 180] \in HighBarriers(p)
    BY DEF HighBarriers, Only, HIGH_UTILIZATION_THRESHOLD
  <2>3. HighBarriers(p) # {}
    BY <1>1, <1>4, <2>2
  <2> QED BY <1>4, <2>1, <2>3
<1>5. CASE BarrierSeverity(p) = "MEDIUM"
  <2>1. Barriers(p) = MediumBarriers(p)
    BY <1>5 DEF Barriers
  <2>2. /\ p.items # <<>> => [reason |-> "negatives", days |-> 0] \in MediumBarriers(p)
        /\ p.util > 50 => [reason |-> "utilization", days |-> 0] \in MediumBarriers(p)
        /\ p.score < 650 => [reason |-> "score", days |-> 0] \in MediumBarriers(p)
    BY DEF MediumBarriers, Only, MODERATE_UTILIZATION_THRESHOLD
  <2>3. MediumBarriers(p) # {}
    BY <1>2, <1>5, <2>2
  <2> QED BY <1>5, <2>1, <2>3
<1>6. CASE BarrierSeverity(p) = "LOW"
  BY <1>6 DEF Barriers
<1> QED BY <1>3, <1>4, <1>5, <1>6

\* Whoever meets no barrier is at least 41 per cent ready.
LEMMA LowIsReady ==
  ASSUME NEW p, ValidCreditProfile(p), BarrierSeverity(p) = "LOW"
  PROVE  ReadinessScore(p) >= 41
<1>1. /\ p.collections = 0 /\ p.util \in 0 .. 50 /\ p.items = <<>>
      /\ p.score \in Int /\ 650 <= p.score
  BY LowMeans
<1>2. p.payPct \in 0 .. 100 /\ p.age \in Ages /\ p.total \in Nat
  BY Accepted
<1>3. Len(p.items) = 0
  BY <1>1
<1>4. PICK a \in Nat : a = Min({84, p.age})
  <2>1. PICK b \in Nat : b = p.age
    BY <1>2, InAges
  <2>2. Min({84, b}) = IF 84 <= b THEN 84 ELSE b
    BY LeastOfTwo
  <2> QED BY <2>1, <2>2
<1>5. PICK t \in Nat : t = Min({10, p.total})
  <2>1. PICK b \in Nat : b = p.total
    BY <1>2
  <2>2. Min({10, b}) = IF 10 <= b THEN 10 ELSE b
    BY LeastOfTwo
  <2> QED BY <2>1, <2>2
<1>6. Min({30, 5 * (Len(p.items) + p.collections)}) = 0
  <2>1. 5 * (Len(p.items) + p.collections) = 0
    BY <1>1, <1>3
  <2>2. Min({30, 0}) = 0
    BY LeastOfTwo
  <2> QED BY <2>1, <2>2
<1>7. PICK o \in {5, 7} : o = IF p.open > 0 THEN 7 ELSE 5
  OBVIOUS
<1>8. RawReadiness(p) = 1680 * (p.score - 300) + 3234 * p.payPct + 2772 * (100 - p.util)
                          + 1650 * a + 9240 * t + 9240 * o - 18480 * 0
  BY <1>4, <1>5, <1>6, <1>7 DEF RawReadiness, ReadinessUnit
<1>9. PICK r \in Nat : r = RawReadiness(p) /\ r >= 757680
  <2>0. PICK s \in Int : s = p.score /\ 650 <= s
    BY <1>1, Zenon
  <2>1. PICK f \in 0 .. 100, v \in 0 .. 50 : f = p.payPct /\ v = p.util
    <3>1. p.payPct \in 0 .. 100 /\ p.util \in 0 .. 50
      BY <1>1, <1>2, Zenon
    <3> QED BY <3>1
  <2> HIDE DEF Truncate
  <2> DEFINE R == 1680 * (s - 300) + 3234 * f + 2772 * (100 - v) + 1650 * a + 9240 * t + 9240 * o
  <2>2. RawReadiness(p) = R - 18480 * 0
    BY <1>8, <2>0, <2>1
  <2>3. 1680 * (s - 300) >= 588000 /\ 3234 * f >= 0 /\ 2772 * (100 - v) >= 138600
        /\ 1650 * a >= 0 /\ 9240 * t >= 0 /\ 9240 * o >= 46200
    BY <2>0
  <2>4. R \in Nat /\ R >= 757680 /\ R - 18480 * 0 = R
    BY <2>3
  <2> QED BY <2>2, <2>4
<1>10. PICK q \in Nat : q = Truncate(r, 18480) /\ q >= 41
  BY <1>9 DEF Truncate
<1>11. Min({100, q}) = IF 100 <= q THEN 100 ELSE q
  BY LeastOfTwo
<1>12. PICK l \in Nat : l = Min({100, q}) /\ l >= 41
  BY <1>10, <1>11
<1>13. Max({0, l}) = IF 0 <= l THEN l ELSE 0
  BY GreatestOfTwo
<1> QED BY <1>9, <1>10, <1>12, <1>13 DEF ReadinessScore, ReadinessUnit

\* A sum over no steps is zero.
LEMMA NoDays == FoldSeq(LAMBDA s, sum : sum + s.days, 0, <<>>) = 0
<1> DEFINE E == DOMAIN <<>>
           Body(it) == [s \in SUBSET E |->
                          IF s = {} THEN 0
                          ELSE LET x == CHOOSE y \in s : TRUE
                               IN  it[s \ {x}] + (<<>>[x]).days]
<1>1. E = {} /\ SUBSET E = {{}}
  OBVIOUS
<1>2. FoldSeq(LAMBDA s, sum : sum + s.days, 0, <<>>) = (CHOOSE it : it = Body(it))[E]
  BY Zenon DEF FoldSeq, FoldFunction, FoldFunctionOnSet, MapThenFoldSet
<1>3. \A it : Body(it) = [s \in {{}} |-> 0]
  BY <1>1
<1> HIDE DEF Body, E
<1>4. \E it : it = Body(it)
  BY <1>3
<1>5. (CHOOSE it : it = Body(it)) = [s \in {{}} |-> 0]
  BY <1>3, <1>4
<1> QED BY <1>1, <1>2, <1>5

\* There is nothing to dispute without a barrier.
LEMMA LowHasNoSteps ==
  ASSUME NEW p, ValidCreditProfile(p), BarrierSeverity(p) = "LOW"
  PROVE  Pathway(p).steps = <<>> /\ Pathway(p).days = 0
<1>1. p.util \in 0 .. 50 /\ p.items = <<>>
  BY LowMeans
<1>2. Len(Unsorted(p)) = 0
  <2>1. Len(p.items) = 0
    BY <1>1
  <2>2. ~(p.util > 75)
    <3>1. p.util \in 0 .. 50
      BY <1>1
    <3> QED BY <3>1
  <2>3. /\ Len(Unsorted(p)) = Len(p.items) + (IF p.util > 75 /\ p.limit > 0 THEN 1 ELSE 0)
        /\ Len(Unsorted(p)) \in Nat
    BY UnsortedSteps
  <2> QED BY <2>1, <2>2, <2>3
<1>3. Pathway(p).steps = <<>>
  <2>1. PICK order : Pathway(p).steps = [k \in 1 .. 0 |-> Unsorted(p)[order[k]]]
    BY <1>2, PathwayOrder
  <2> QED BY <2>1
<1>4. Pathway(p).days = FoldSeq(LAMBDA s, sum : sum + s.days, 0, Pathway(p).steps)
  BY DEF Pathway
<1> QED BY <1>3, <1>4, NoDays

\* Without a barrier every threshold up to 650 is met and every product up to 640 eligible,
\* and nothing but the score stands against any other.
LEMMA LowIsEligible ==
  ASSUME NEW p, ValidCreditProfile(p), BarrierSeverity(p) = "LOW"
  PROVE  /\ \A t \in ThresholdEstimates(p) : t.threshold <= 650 => t.met
         /\ \A product \in DOMAIN Eligibility(p) :
              /\ Eligibility(p)[product].factors \subseteq {"score"}
              /\ PRODUCT_THRESHOLDS[product] <= 640 => Eligibility(p)[product].status = "eligible"
<1>1. PICK score \in Int, used \in 0 .. 50 :
        score = p.score /\ used = p.util /\ 650 <= score /\ score <= 850
  <2>1. p.score \in Int /\ 650 <= p.score /\ p.score <= 850 /\ p.util \in 0 .. 50
    BY LowMeans
  <2> QED BY <2>1
<1>2. p.collections = 0
  BY LowMeans
<1>3. ASSUME NEW t \in ThresholdEstimates(p), t.threshold <= 650 PROVE t.met
  <2>1. PICK min \in ThresholdScores : t.threshold = min /\ t.met = (min - p.score <= 0)
    BY DEF ThresholdEstimates
  <2>2. min \in Int
    BY DEF ThresholdScores, SCORE_BANDS
  <2>3. min - score <= 0
    BY <1>1, <1>3, <2>1, <2>2
  <2> QED BY <1>1, <2>1, <2>3
<1>4. BlockingFactors(p) \subseteq {"score"}
  <2>1. ~(used > 50)
    OBVIOUS
  <2>2. Only(p.util > 50, "utilization") = {} /\ Only(p.collections > 0, "collections") = {}
    BY <1>1, <1>2, <2>1 DEF Only
  <2> QED BY <2>2 DEF BlockingFactors, MODERATE_UTILIZATION_THRESHOLD
<1>5. ASSUME NEW product \in DOMAIN PRODUCT_THRESHOLDS
      PROVE  /\ Eligibility(p)[product].factors \subseteq {"score"}
             /\ PRODUCT_THRESHOLDS[product] <= 640 => Eligibility(p)[product].status = "eligible"
  <2>1. PICK min \in Int : min = PRODUCT_THRESHOLDS[product]
    BY DEF PRODUCT_THRESHOLDS
  <2>2. min <= 640 => min - score <= 0
    BY <1>1
  <2>3. /\ min - score <= 0 => Eligibility(p)[product] = [status |-> "eligible", gap |-> 0, days |-> 0, factors |-> {}]
        /\ ~(min - score <= 0) => Eligibility(p)[product].factors = BlockingFactors(p)
    BY <1>1, <2>1 DEF Eligibility
  <2> QED BY <1>4, <2>1, <2>2, <2>3
<1>6. DOMAIN Eligibility(p) = DOMAIN PRODUCT_THRESHOLDS
  BY DEF Eligibility
<1> QED BY <1>3, <1>5, <1>6

\* The answers to any profile that is accepted agree.
LEMMA Agreement ==
  ASSUME ValidCreditProfile(profile) PROVE OutputsAgree
<1> DEFINE a == Assess(profile)
<1>1. /\ a.severity = BarrierSeverity(profile) /\ a.barriers = Barriers(profile)
      /\ a.readiness = ReadinessScore(profile) /\ a.thresholds = ThresholdEstimates(profile)
      /\ a.eligibility = Eligibility(profile) /\ a.pathway = Pathway(profile)
  BY DEF Assess
<1> HIDE DEF a
<1>2. a.barriers = {} <=> a.severity = "LOW"
  BY <1>1, BarriersExplain
<1>3. ASSUME a.severity = "LOW"
      PROVE
        /\ a.pathway.steps = <<>> /\ a.pathway.days = 0 /\ a.readiness >= 41
        /\ \A t \in a.thresholds : t.threshold <= 650 => t.met
        /\ \A product \in DOMAIN a.eligibility :
             /\ a.eligibility[product].factors \subseteq {"score"}
             /\ PRODUCT_THRESHOLDS[product] <= 640 => a.eligibility[product].status = "eligible"
  <2>1. BarrierSeverity(profile) = "LOW"
    BY <1>1, <1>3
  <2>2. a.pathway.steps = <<>> /\ a.pathway.days = 0
    BY <1>1, <2>1, LowHasNoSteps
  <2>3. a.readiness >= 41
    BY <1>1, <2>1, LowIsReady
  <2>4. \A t \in a.thresholds : t.threshold <= 650 => t.met
    BY <1>1, <2>1, LowIsEligible, Zenon
  <2>5. \A product \in DOMAIN a.eligibility :
          /\ a.eligibility[product].factors \subseteq {"score"}
          /\ PRODUCT_THRESHOLDS[product] <= 640 => a.eligibility[product].status = "eligible"
    <3>1. \A product \in DOMAIN Eligibility(profile) :
            /\ Eligibility(profile)[product].factors \subseteq {"score"}
            /\ PRODUCT_THRESHOLDS[product] <= 640 => Eligibility(profile)[product].status = "eligible"
      BY <2>1, LowIsEligible
    <3>2. a.eligibility = Eligibility(profile)
      BY <1>1
    <3> QED BY <3>1, <3>2
  <2> QED BY <2>2, <2>3, <2>4, <2>5
<1>4. \A i \in DOMAIN a.pathway.steps : a.pathway.steps[i].issue = "review" => a.severity = "HIGH"
  BY <1>1, ReviewMeansHigh
<1> QED BY <1>2, <1>3, <1>4 DEF OutputsAgree, a

\* The conversion counts as collections what the pathway disputes as collections: the two
\* infer the kinds of items apart (assess_routes.py; types.py, _coerce_negative_items).
LEMMA CollectionsAgree ==
  ASSUME NEW f, ValidSimpleProfile(f)
  PROVE  LET steps == Pathway(ToCreditProfile(f)).steps
         IN  ToCreditProfile(f).collections
               = Cardinality({k \in DOMAIN steps : steps[k].issue = "collection"})
<1> DEFINE p == ToCreditProfile(f)
           steps == Pathway(p).steps
           u == Unsorted(p)
           n == Len(u)
           m == Len(p.items)
           InTexts == {i \in DOMAIN f.texts : InferItemType(f.texts[i]) = "collection"}
           InSteps == {k \in DOMAIN steps : steps[k].issue = "collection"}
<1>1. ValidCreditProfile(p)
  BY ConversionAccepted
<1>2. p.collections = Cardinality(InTexts)
  BY DEF ToCreditProfile
<1>3. p.items = [i \in DOMAIN f.texts |-> Item(InferItemType(f.texts[i]), f.texts[i])]
  BY DEF ToCreditProfile
<1> HIDE DEF p
<1>4. DOMAIN f.texts = 1 .. m /\ m \in Nat
  <2>1. p.items \in Seq(NegativeItems)
    BY <1>1, Accepted
  <2>2. DOMAIN p.items = 1 .. m /\ m \in Nat
    BY <2>1, LenProperties
  <2>3. DOMAIN p.items = DOMAIN f.texts
    BY <1>3
  <2> QED BY <2>2, <2>3
<1>5. \A i \in 1 .. m : p.items[i].type = InferItemType(f.texts[i])
  BY <1>3, <1>4 DEF Item
<1>6. /\ n \in Nat /\ m <= n
      /\ \A i \in 1 .. m : u[i].issue = InferItemType(f.texts[i])
      /\ \A i \in 1 .. n : i > m => u[i].issue = "review"
  <2>1. /\ n \in Nat /\ n = m + (IF p.util > 75 /\ p.limit > 0 THEN 1 ELSE 0)
        /\ \A i \in 1 .. m : u[i].issue = p.items[i].type
        /\ \A i \in 1 .. n : i > m => u[i].issue = "review"
    BY <1>1, UnsortedSteps
  <2> HIDE DEF n, m, u
  <2>2. m <= n
    BY <1>4, <2>1
  <2> QED BY <1>5, <2>1, <2>2
<1>7. PICK order \in Bijection(1 .. n, 1 .. n) : steps = [k \in 1 .. n |-> u[order[k]]]
  BY <1>1, PathwayOrder
<1> HIDE DEF n, m, u, steps
<1>8. InTexts = {i \in 1 .. n : u[i].issue = "collection"}
  <2>1. \A i \in 1 .. n : i \in 1 .. m \/ i > m
    BY <1>4, <1>6
  <2>2. 1 .. m \subseteq 1 .. n
    BY <1>4, <1>6
  <2> QED BY <1>4, <1>6, <2>1, <2>2
<1>9. InSteps = {k \in 1 .. n : u[order[k]].issue = "collection"}
  BY <1>7
<1>10. IsFiniteSet(InSteps) /\ IsFiniteSet(1 .. n)
  <2>1. IsFiniteSet(1 .. n)
    BY <1>6, FS_Interval
  <2>2. InSteps \in SUBSET (1 .. n)
    BY <1>9
  <2> QED BY <2>1, <2>2, FS_Subset
<1> HIDE DEF InTexts, InSteps
<1> DEFINE g == [k \in InSteps |-> order[k]]
<1>11. g \in Bijection(InSteps, InTexts)
  <2>1. /\ \A k \in 1 .. n : order[k] \in 1 .. n
        /\ \A k, l \in 1 .. n : order[k] = order[l] => k = l
        /\ \A i \in 1 .. n : \E k \in 1 .. n : order[k] = i
    BY <1>7 DEF Bijection, Injection, Surjection, IsInjective
  <2>2. g \in [InSteps -> InTexts]
    BY <1>8, <1>9, <2>1
  <2>3. \A k, l \in InSteps : g[k] = g[l] => k = l
    BY <1>9, <2>1
  <2>4. \A i \in InTexts : \E k \in InSteps : g[k] = i
    BY <1>8, <1>9, <2>1
  <2> HIDE DEF g
  <2> QED BY <2>2, <2>3, <2>4 DEF Bijection, Injection, Surjection, IsInjective
<1>12. Cardinality(InTexts) = Cardinality(InSteps)
  BY <1>10, <1>11, FS_Bijection DEF ExistsBijection
<1> QED BY <1>2, <1>12 DEF p, steps, InSteps

\* The profile that is assessed is a valid one, and does not change.
Assessed ==
  /\ ValidCreditProfile(profile)
  /\ form # NoForm => ValidSimpleProfile(form) /\ profile = ToCreditProfile(form)

\* The answers to one profile agree, whichever form it came in: for any profiles and
\* forms that the request models accept (assess_routes.py, assessment.py).
THEOREM AssessmentCorrect == SimSpec => []AssessmentCoherent
<1>1. SimInit => Assessed
  <2> SUFFICES ASSUME SimInit PROVE Assessed
    OBVIOUS
  <2>1. CASE form = NoForm /\ profile \in Profiles
    BY <2>1, SimAssumption DEF SimAssumption, Assessed
  <2>2. CASE form \in Forms /\ profile = ToCreditProfile(form)
    <3>1. ValidSimpleProfile(form)
      BY <2>2, SimAssumption DEF SimAssumption
    <3>2. ValidCreditProfile(profile)
      BY <2>2, <3>1, ConversionAccepted
    <3> QED BY <2>2, <3>1, <3>2 DEF Assessed
  <2> QED BY <2>1, <2>2 DEF SimInit
<1>2. Assessed /\ [SimNext]_simVars => Assessed'
  <2> SUFFICES ASSUME Assessed, [SimNext]_simVars PROVE Assessed'
    OBVIOUS
  <2>1. UNCHANGED <<form, profile>>
    BY DEF SimNext, simVars, PayDownDebt, ReduceUtilization, RemoveCollection, DisputeNegative,
           PayOnTime, FixedImpact, Project
  <2> QED BY <2>1 DEF Assessed
<1>3. Assessed => AssessmentCoherent
  <2> SUFFICES ASSUME Assessed PROVE AssessmentCoherent
    OBVIOUS
  <2>1. OutputsAgree
    BY Agreement DEF Assessed
  <2>2. SimpleProfileAccepted
    BY CollectionsAgree DEF SimpleProfileAccepted, Assessed
  <2> QED BY <2>1, <2>2 DEF AssessmentCoherent
<1> QED BY <1>1, <1>2, <1>3, PTL DEF SimSpec

--------------------------------------------------------------------------------
(* The letters.                                                              *)

Variations(type) == Len(TEMPLATES[type])

\* Every kind has two or three variations, numbered from one, and no template of it meets
\* a placeholder without a value (letter_templates.py, letter_generator.py).
LEMMA TemplateTable ==
  ASSUME NEW type \in LetterTypes
  PROVE  /\ Variations(type) \in {2, 3} /\ DOMAIN TEMPLATES[type] = 1 .. Variations(type)
         /\ \A i \in 1 .. Variations(type) :
              TEMPLATES[type][i].variation = i /\ TEMPLATES[type][i].citations \in Nat
         /\ \A i \in 1 .. Variations(type) : \A r : TEMPLATES[type][i].fields \subseteq DOMAIN PlaceholderValues(r)
<1>1. LetterTypes = {"validation", "inaccuracy", "completeness", "obsolete_item", "identity_theft"}
  BY DEF LetterTypes, TEMPLATES
<1>2. \A r : DOMAIN PlaceholderValues(r) =
        {"consumer_name", "consumer_address", "creditor", "account_number", "amount", "date",
         "description", "bureau_name", "bureau_address"}
  BY DEF PlaceholderValues
<1>3. /\ \A r : DebtFields \subseteq DOMAIN PlaceholderValues(r)
      /\ \A r : ReportFields \cup {"description"} \subseteq DOMAIN PlaceholderValues(r)
      /\ \A r : ReportFields \cup {"date"} \subseteq DOMAIN PlaceholderValues(r)
      /\ \A r : ReportFields \cup {"amount"} \subseteq DOMAIN PlaceholderValues(r)
  BY <1>2 DEF DebtFields, ReportFields
<1> HIDE DEF DebtFields, ReportFields
<1>4. CASE type = "validation"
  <2>1. TEMPLATES[type] = ValidationTemplates BY <1>4 DEF TEMPLATES
  <2> QED BY <2>1, <1>3 DEF ValidationTemplates, Template, Variations
<1>5. CASE type = "inaccuracy"
  <2>1. TEMPLATES[type] = InaccuracyTemplates BY <1>5 DEF TEMPLATES
  <2> QED BY <2>1, <1>3 DEF InaccuracyTemplates, Template, Variations
<1>6. CASE type = "completeness"
  <2>1. TEMPLATES[type] = CompletenessTemplates BY <1>6 DEF TEMPLATES
  <2> QED BY <2>1, <1>3 DEF CompletenessTemplates, Template, Variations
<1>7. CASE type = "obsolete_item"
  <2>1. TEMPLATES[type] = ObsoleteTemplates BY <1>7 DEF TEMPLATES
  <2> QED BY <2>1, <1>3 DEF ObsoleteTemplates, Template, Variations
<1>8. CASE type = "identity_theft"
  <2>1. TEMPLATES[type] = IdentityTheftTemplates BY <1>8 DEF TEMPLATES
  <2> QED BY <2>1, <1>3 DEF IdentityTheftTemplates, Template, Variations
<1> QED BY <1>1, <1>4, <1>5, <1>6, <1>7, <1>8

\* The templates of a kind, of one variation, of none and of a variation that is not there.
LEMMA Chosen ==
  ASSUME NEW type \in LetterTypes, NEW v
  PROVE  /\ \A t \in TemplatesFor(type, v) :
              /\ v # NoVariation => t.variation = v
              /\ t.variation \in 1 .. Variations(type) /\ t.citations \in Nat
              /\ \A r : t.fields \subseteq DOMAIN PlaceholderValues(r)
         /\ v \in 1 .. Variations(type) \/ v = NoVariation => TemplatesFor(type, v) # {}
<1>1. Range(TEMPLATES[type]) = {TEMPLATES[type][i] : i \in 1 .. Variations(type)}
  BY TemplateTable DEF Range
<1>2. \A t \in Range(TEMPLATES[type]) :
        /\ t.variation \in 1 .. Variations(type) /\ t.citations \in Nat
        /\ \A r : t.fields \subseteq DOMAIN PlaceholderValues(r)
  BY <1>1, TemplateTable
<1>3. 1 \in 1 .. Variations(type) BY TemplateTable
<1>4. \A i \in 1 .. Variations(type) : TEMPLATES[type][i] \in Range(TEMPLATES[type])
                              /\ TEMPLATES[type][i].variation = i
  BY <1>1, TemplateTable
<1>5. \A t : t \in TemplatesFor(type, v) <=>
              t \in Range(TEMPLATES[type]) /\ (v = NoVariation \/ t.variation = v)
  BY Zenon DEF TemplatesFor
<1> HIDE DEF Variations
<1>6. \A t \in TemplatesFor(type, v) :
        /\ v # NoVariation => t.variation = v
        /\ t.variation \in 1 .. Variations(type) /\ t.citations \in Nat
        /\ \A r : t.fields \subseteq DOMAIN PlaceholderValues(r)
  BY <1>2, <1>5, Zenon
<1>7. v \in 1 .. Variations(type) => TEMPLATES[type][v] \in TemplatesFor(type, v) BY <1>4, <1>5, Zenon
<1>8. v = NoVariation => TEMPLATES[type][1] \in TemplatesFor(type, v) BY <1>3, <1>4, <1>5, Zenon
<1> QED BY <1>6, <1>7, <1>8
--------------------------------------------------------------------------------
WrittenLetters ==
  [type : LetterTypes, bureau : AddressedBureaus, variation : 1 .. 3, citations : Nat, auto : BOOLEAN]

LetterTypeInv ==
  /\ batch \in Batches /\ single \in BOOLEAN /\ counters \in [LetterTypes -> Nat]
  /\ outcome \in {"none", "sent", "failed"}
  /\ letters \in Seq(WrittenLetters) /\ Len(letters) <= Len(batch)
  /\ outcome \in {"none", "failed"} => Len(letters) < Len(batch)
  /\ outcome = "sent" => Len(letters) = Len(batch)

\* Every letter answers the request at its place.
LettersAnswer ==
  \A k \in 1 .. Len(letters) :
    /\ letters[k].type = batch[k].type
    /\ letters[k].auto <=> batch[k].variation = NoVariation
    /\ batch[k].variation # NoVariation => letters[k].variation = batch[k].variation
    /\ TemplatesFor(batch[k].type, batch[k].variation) # {}

FailsOnVariation ==
  outcome = "failed" => TemplatesFor(Current.type, Current.variation) = {}

\* Of the first c choices of a kind with n variations, (c + n - v) \div n take variation v.
Shares ==
  ~single => \A type \in LetterTypes : \A v \in 1 .. Variations(type) :
    Cardinality(AutoUses(type, v)) = (counters[type] + Variations(type) - v) \div Variations(type)

LetInv == LetterTypeInv /\ LettersAnswer /\ FailsOnVariation /\ Shares

\* What the batch model accepts: one to ten letters, each of a kind and to a bureau there
\* is.
LEMMA BatchFields ==
  ASSUME LettersAssumption, NEW b \in Batches
  PROVE  /\ b \in Seq(LetterRequests) /\ Len(b) \in 1 .. 10 /\ DOMAIN b = 1 .. Len(b)
         /\ \A k \in 1 .. Len(b) :
              /\ b[k].type \in LetterTypes /\ b[k].bureau \in AddressedBureaus
              /\ b[k].variation \in Int \cup {NoVariation}
<1>1. b \in Seq(LetterRequests) /\ Len(b) \in 1 .. 10 BY DEF LettersAssumption
<1>2. DOMAIN b = 1 .. Len(b) /\ \A k \in 1 .. Len(b) : b[k] \in LetterRequests BY <1>1
<1> QED BY <1>1, <1>2 DEF LetterRequests

\* The invariant holds when the batch arrives.
LEMMA LettersStart == LettersAssumption /\ LettersInit => LetInv
<1> SUFFICES ASSUME LettersAssumption, LettersInit PROVE LetInv OBVIOUS
<1>1. letters = <<>> /\ Len(letters) = 0 /\ letters \in Seq(WrittenLetters) BY DEF LettersInit
<1>2. Len(batch) \in 1 .. 10 BY BatchFields DEF LettersInit
<1>3. LetterTypeInv
  <2>1. single \in BOOLEAN
    <3>1. (Len(batch) = 1) \in BOOLEAN OBVIOUS
    <3> QED BY <3>1, Zenon DEF LettersInit
  <2>2. counters \in [LetterTypes -> Nat] BY DEF LettersInit
  <2>3. Len(letters) < Len(batch) BY <1>1, <1>2
  <2> QED BY <1>1, <1>2, <2>1, <2>2, <2>3 DEF LettersInit, LetterTypeInv
<1>4. LettersAnswer BY <1>1 DEF LettersAnswer
<1>5. FailsOnVariation BY DEF LettersInit, FailsOnVariation
<1>6. Shares
  <2> SUFFICES ASSUME NEW type \in LetterTypes, NEW v \in 1 .. Variations(type)
               PROVE  Cardinality(AutoUses(type, v)) = (counters[type] + Variations(type) - v) \div Variations(type)
    BY DEF Shares
  <2>1. AutoUses(type, v) = {} BY <1>1 DEF AutoUses
  <2>2. counters[type] = 0 BY DEF LettersInit
  <2>3. Variations(type) \in {2, 3} BY TemplateTable
  <2>4. (0 + Variations(type) - v) \div Variations(type) = 0
    <3>1. CASE Variations(type) = 2 BY <3>1
    <3>2. CASE Variations(type) = 3 BY <3>2
    <3> QED BY <2>3, <3>1, <3>2
  <2> QED BY <2>1, <2>2, <2>4, FS_EmptySet
<1> QED BY <1>3, <1>4, <1>5, <1>6 DEF LetInv

\* The letter that a turn writes, from a template of the variation v.
Adds(v, t) ==
  /\ t \in TemplatesFor(Current.type, v)
  /\ letters' = Append(letters, [type |-> Current.type, bureau |-> Current.bureau,
                                 variation |-> t.variation, citations |-> t.citations,
                                 auto |-> Current.variation = NoVariation])
  /\ outcome' = IF Len(letters) + 1 = Len(batch) THEN "sent" ELSE "none"

\* A turn fails exactly for a variation that is not there.
LEMMA Turn ==
  ASSUME LettersAssumption, LetInv, outcome = "none", NEW v, Generate(v)
  PROVE  /\ Current = batch[Len(letters) + 1] /\ Len(letters) + 1 \in 1 .. Len(batch)
         /\ Current.type \in LetterTypes /\ Current.bureau \in AddressedBureaus
         /\ Current.variation \in Int \cup {NoVariation}
         /\ \/ /\ TemplatesFor(Current.type, v) = {}
               /\ outcome' = "failed" /\ letters' = letters
            \/ \E t : Adds(v, t)
<1>1. Len(letters) \in Nat /\ Len(letters) < Len(batch) /\ batch \in Batches
  BY LenProperties DEF LetInv, LetterTypeInv
<1>2. Len(batch) \in 1 .. 10 /\ \A k \in 1 .. Len(batch) :
        /\ batch[k].type \in LetterTypes /\ batch[k].bureau \in AddressedBureaus
        /\ batch[k].variation \in Int \cup {NoVariation}
  BY <1>1, BatchFields
<1>3. Len(letters) + 1 \in 1 .. Len(batch) BY <1>1, <1>2
<1>4. /\ Current.type \in LetterTypes /\ Current.bureau \in AddressedBureaus
      /\ Current.variation \in Int \cup {NoVariation}
  BY <1>2, <1>3 DEF Current
<1>5. \A t \in TemplatesFor(Current.type, v) : t.fields \subseteq DOMAIN PlaceholderValues(Current)
  BY <1>4, Chosen
<1>6. \/ /\ TemplatesFor(Current.type, v) = {}
         /\ outcome' = "failed" /\ letters' = letters
      \/ \E t : Adds(v, t)
  BY <1>5 DEF Generate, Adds
<1> QED BY <1>3, <1>4, <1>6 DEF Current

\* A letter that is added, of the variation that was asked for or one that is there,
\* answers its request.
LEMMA Added ==
  ASSUME LettersAssumption, LetInv, outcome = "none", NEW v, NEW t, Generate(v), Adds(v, t),
         UNCHANGED <<batch, single>>,
         counters' \in [LetterTypes -> Nat],
         Current.variation # NoVariation => v = Current.variation
  PROVE  /\ LetterTypeInv' /\ LettersAnswer' /\ FailsOnVariation'
         /\ Len(letters') = Len(letters) + 1
         /\ \A k \in 1 .. Len(letters) : letters'[k] = letters[k]
         /\ letters'[Len(letters) + 1].type = Current.type
         /\ letters'[Len(letters) + 1].variation = t.variation
         /\ letters'[Len(letters) + 1].auto <=> Current.variation = NoVariation
<1> DEFINE L == Len(letters)
           new == [type |-> Current.type, bureau |-> Current.bureau,
                   variation |-> t.variation, citations |-> t.citations,
                   auto |-> Current.variation = NoVariation]
<1>1. /\ Current = batch[L + 1] /\ L + 1 \in 1 .. Len(batch)
      /\ Current.type \in LetterTypes /\ Current.bureau \in AddressedBureaus
  BY Turn
<1>2. letters \in Seq(WrittenLetters) /\ L \in Nat BY LenProperties DEF LetInv, LetterTypeInv
<1>3. letters' = Append(letters, new) BY DEF Adds
<1>4. /\ t \in TemplatesFor(Current.type, v) /\ t.variation \in 1 .. Variations(Current.type)
      /\ t.citations \in Nat /\ (v # NoVariation => t.variation = v)
  BY <1>1, Chosen DEF Adds
<1>5. t.variation \in 1 .. 3
  <2>1. Variations(Current.type) \in {2, 3} BY <1>1, TemplateTable
  <2> QED BY <1>4, <2>1
<1>6. new \in WrittenLetters
  <2>1. (Current.variation = NoVariation) \in BOOLEAN OBVIOUS
  <2> QED BY <1>1, <1>4, <1>5, <2>1 DEF WrittenLetters
<1>7. /\ new.type = Current.type /\ new.variation = t.variation
      /\ new.auto <=> Current.variation = NoVariation
  OBVIOUS
<1> HIDE DEF new
<1>8. /\ letters' \in Seq(WrittenLetters) /\ Len(letters') = L + 1
      /\ \A k \in 1 .. L : letters'[k] = letters[k]
      /\ letters'[L + 1] = new
  BY <1>2, <1>3, <1>6, AppendProperties
<1>9. Len(batch) \in Nat /\ batch' = batch /\ batch \in Batches
  BY BatchFields DEF LetInv, LetterTypeInv
<1>10. outcome' = IF L + 1 = Len(batch) THEN "sent" ELSE "none" BY DEF Adds
<1>11. LetterTypeInv'
  <2>1. single' \in BOOLEAN BY DEF LetInv, LetterTypeInv
  <2>2. Len(letters') <= Len(batch') BY <1>1, <1>8, <1>9
  <2>3. outcome' \in {"none", "failed"} => Len(letters') < Len(batch') BY <1>1, <1>2, <1>8, <1>9, <1>10
  <2>4. outcome' = "sent" => Len(letters') = Len(batch') BY <1>8, <1>9, <1>10
  <2>5. outcome' \in {"none", "sent", "failed"} BY <1>10
  <2> QED BY <1>8, <1>9, <2>1, <2>2, <2>3, <2>4, <2>5 DEF LetterTypeInv
<1>12. LettersAnswer'
  <2> SUFFICES ASSUME NEW k \in 1 .. Len(letters')
               PROVE  /\ letters'[k].type = batch[k].type
                      /\ letters'[k].auto <=> batch[k].variation = NoVariation
                      /\ batch[k].variation # NoVariation => letters'[k].variation = batch[k].variation
                      /\ TemplatesFor(batch[k].type, batch[k].variation) # {}
    BY <1>9 DEF LettersAnswer, TemplatesFor
  <2>1. CASE k \in 1 .. L BY <2>1, <1>8 DEF LetInv, LettersAnswer
  <2>2. CASE k = L + 1
    <3>1. TemplatesFor(Current.type, Current.variation) # {} BY <1>1, <1>4, Chosen
    <3> QED BY <2>2, <3>1, <1>1, <1>4, <1>7, <1>8
  <2> QED BY <1>2, <1>8, <2>1, <2>2
<1>13. FailsOnVariation' BY <1>10 DEF FailsOnVariation
<1> QED BY <1>7, <1>8, <1>11, <1>12, <1>13

\* A turn that fails leaves everything but the outcome, and was asked for what is not there.
LEMMA Failed ==
  ASSUME LetInv, outcome = "none", outcome' = "failed",
         UNCHANGED <<batch, single, letters>>, counters' = counters,
         TemplatesFor(Current.type, Current.variation) = {}
  PROVE  LetInv'
BY DEF LetInv, LetterTypeInv, LettersAnswer, FailsOnVariation, Shares, AutoUses, Current, TemplatesFor

\* The letters of a kind and a variation, after one more letter.
LEMMA UsesGrow ==
  ASSUME LettersAssumption, LetInv, NEW type, NEW w, NEW v, NEW t,
         Len(letters') = Len(letters) + 1, DOMAIN letters' = 1 .. Len(letters'),
         \A k \in 1 .. Len(letters) : letters'[k] = letters[k],
         letters'[Len(letters) + 1].type = Current.type,
         letters'[Len(letters) + 1].variation = t.variation,
         letters'[Len(letters) + 1].auto <=> Current.variation = NoVariation
  PROVE  Cardinality(AutoUses(type, w)') =
           IF type = Current.type /\ Current.variation = NoVariation /\ t.variation = w
           THEN Cardinality(AutoUses(type, w)) + 1 ELSE Cardinality(AutoUses(type, w))
<1> DEFINE S == AutoUses(type, w)
           L == Len(letters)
<1>1. L \in Nat /\ DOMAIN letters = 1 .. L BY LenProperties DEF LetInv, LetterTypeInv
<1>2. S \subseteq 1 .. L /\ IsFiniteSet(S)
  <2>1. S \subseteq 1 .. L BY <1>1 DEF AutoUses
  <2>2. IsFiniteSet(1 .. L) BY <1>1, FS_Interval
  <2> QED BY <2>1, <2>2, FS_Subset
<1>3. L + 1 \notin S BY <1>1, <1>2
<1>4. CASE type = Current.type /\ Current.variation = NoVariation /\ t.variation = w
  <2>1. AutoUses(type, w)' = S \cup {L + 1} BY <1>1, <1>4 DEF AutoUses
  <2>2. Cardinality(S \cup {L + 1}) = Cardinality(S) + 1 BY <1>2, <1>3, FS_AddElement
  <2> QED BY <1>4, <2>1, <2>2
<1>5. CASE ~ (type = Current.type /\ Current.variation = NoVariation /\ t.variation = w)
  <2>1. AutoUses(type, w)' = S BY <1>1, <1>5 DEF AutoUses
  <2> QED BY <1>5, <2>1
<1> QED BY <1>4, <1>5

\* One more choice raises the share of the variation chosen, and no other.
LEMMA ShareStep ==
  ASSUME NEW n \in {2, 3}, NEW c \in Nat, NEW w \in 1 .. n
  PROVE  (c + 1 + n - w) \div n =
           IF w = 1 + (c % n) THEN (c + n - w) \div n + 1 ELSE (c + n - w) \div n
<1>1. CASE n = 2
  <2>1. w = 1 \/ w = 2 BY <1>1
  <2> QED BY <1>1, <2>1
<1>2. CASE n = 3
  <2>1. w = 1 \/ w = 2 \/ w = 3 BY <1>2
  <2> QED BY <1>2, <2>1
<1> QED BY <1>1, <1>2

\* A letter of the single route keeps the invariant.
LEMMA SingleStep == ASSUME LettersAssumption, LetInv, GenerateSingle PROVE LetInv'
<1>1. /\ outcome = "none" /\ single /\ Generate(Current.variation)
      /\ UNCHANGED <<batch, single, counters>>
  BY DEF GenerateSingle
<1>2. CASE \E t : Adds(Current.variation, t)
  <2>1. counters' \in [LetterTypes -> Nat] BY <1>1 DEF LetInv, LetterTypeInv
  <2>2. LetterTypeInv' /\ LettersAnswer' /\ FailsOnVariation' BY <1>1, <1>2, <2>1, Added
  <2>3. Shares' BY <1>1 DEF Shares
  <2> QED BY <2>2, <2>3 DEF LetInv
<1>3. CASE /\ TemplatesFor(Current.type, Current.variation) = {}
           /\ outcome' = "failed" /\ letters' = letters
  BY <1>1, <1>3, Failed
<1> QED BY <1>1, <1>2, <1>3, Turn

\* The next letter of a batch keeps the invariant.
LEMMA BatchStep == ASSUME LettersAssumption, LetInv, GenerateNext PROVE LetInv'
<1>1. outcome = "none" /\ ~single /\ UNCHANGED <<batch, single>> BY DEF GenerateNext
<1>2. counters \in [LetterTypes -> Nat] BY DEF LetInv, LetterTypeInv
<1>3. CASE Current.variation # NoVariation
  <2>1. Generate(Current.variation) /\ counters' = counters BY <1>3 DEF GenerateNext
  <2>2. CASE \E t : Adds(Current.variation, t)
    <3>1. PICK t : Adds(Current.variation, t) BY <2>2
    <3>2. /\ LetterTypeInv' /\ LettersAnswer' /\ FailsOnVariation'
          /\ Len(letters') = Len(letters) + 1
          /\ \A k \in 1 .. Len(letters) : letters'[k] = letters[k]
          /\ letters'[Len(letters) + 1].type = Current.type
          /\ letters'[Len(letters) + 1].variation = t.variation
          /\ letters'[Len(letters) + 1].auto <=> Current.variation = NoVariation
      BY <1>1, <1>2, <2>1, <3>1, Added
    <3>3. DOMAIN letters' = 1 .. Len(letters') BY <3>2, LenProperties DEF LetterTypeInv
    <3>4. \A type, w : Cardinality(AutoUses(type, w)') = Cardinality(AutoUses(type, w))
      BY <1>3, <3>2, <3>3, UsesGrow
    <3>5. Shares' BY <1>1, <2>1, <3>4 DEF LetInv, Shares
    <3> QED BY <3>2, <3>5 DEF LetInv
  <2>3. CASE /\ TemplatesFor(Current.type, Current.variation) = {}
             /\ outcome' = "failed" /\ letters' = letters
    BY <1>1, <2>1, <2>3, Failed
  <2> QED BY <1>1, <2>1, <2>2, <2>3, Turn
<1>4. CASE Current.variation = NoVariation
  <2> DEFINE own == Current.type
             n == Variations(own)
             c == counters[own]
             v == AutoVariation(own)
  <2>1. Generate(v) /\ counters' = [counters EXCEPT ![own] = @ + 1]
    BY <1>4 DEF GenerateNext
  <2>2. own \in LetterTypes BY <1>1, <2>1, Turn
  <2>3. n \in {2, 3} /\ c \in Nat BY <1>2, <2>2, TemplateTable
  <2>4. 1 + (c % n) \in 1 .. n
    <3>1. CASE n = 2 BY <2>3, <3>1
    <3>2. CASE n = 3 BY <2>3, <3>2
    <3> QED BY <2>3, <3>1, <3>2
  <2>5. v = 1 + (c % n) BY <2>2, <2>4, TemplateTable DEF AutoVariation, Variations
  <2>6. v \in 1 .. n BY <2>4, <2>5
  <2>7. TemplatesFor(own, v) # {} BY <2>2, <2>6, Chosen
  <2>8. PICK t : Adds(v, t) BY <1>1, <2>1, <2>7, Turn
  <2>9. counters' \in [LetterTypes -> Nat] /\ counters'[own] = c + 1
        /\ \A type \in LetterTypes : type # own => counters'[type] = counters[type]
    BY <1>2, <2>1, <2>2
  <2>10. t.variation = v
    <3>1. v # NoVariation BY <2>3, <2>6 DEF LettersAssumption
    <3> QED BY <2>2, <2>8, <3>1, Chosen DEF Adds
  <2> HIDE DEF v
  <2>11. /\ LetterTypeInv' /\ LettersAnswer' /\ FailsOnVariation'
         /\ Len(letters') = Len(letters) + 1
         /\ \A k \in 1 .. Len(letters) : letters'[k] = letters[k]
         /\ letters'[Len(letters) + 1].type = Current.type
         /\ letters'[Len(letters) + 1].variation = t.variation
         /\ letters'[Len(letters) + 1].auto <=> Current.variation = NoVariation
    BY <1>1, <1>4, <2>1, <2>8, <2>9, Added
  <2>12. DOMAIN letters' = 1 .. Len(letters') BY <2>11, LenProperties DEF LetterTypeInv
  <2>13. \A type, w : Cardinality(AutoUses(type, w)') =
           IF type = own /\ w = v THEN Cardinality(AutoUses(type, w)) + 1
           ELSE Cardinality(AutoUses(type, w))
    BY <1>4, <2>10, <2>11, <2>12, UsesGrow
  <2>14. ASSUME NEW type \in LetterTypes, NEW w \in 1 .. Variations(type)
         PROVE  Cardinality(AutoUses(type, w)') = (counters'[type] + Variations(type) - w) \div Variations(type)
    <3>1. Cardinality(AutoUses(type, w)) = (counters[type] + Variations(type) - w) \div Variations(type)
      BY <1>1 DEF LetInv, Shares
    <3>2. CASE type # own BY <2>9, <2>13, <3>1, <3>2
    <3>3. CASE type = own
      <4>1. (c + 1 + n - w) \div n =
              IF w = 1 + (c % n) THEN (c + n - w) \div n + 1 ELSE (c + n - w) \div n
        BY <2>3, <3>3, ShareStep
      <4>2. Cardinality(AutoUses(type, w)) = (c + n - w) \div n BY <3>1, <3>3
      <4>3. Cardinality(AutoUses(type, w)') =
              IF w = 1 + (c % n) THEN Cardinality(AutoUses(type, w)) + 1
              ELSE Cardinality(AutoUses(type, w))
        BY <2>5, <2>13, <3>3
      <4> HIDE DEF n, c
      <4>4. Cardinality(AutoUses(type, w)') = (c + 1 + n - w) \div n BY <4>1, <4>2, <4>3
      <4> QED BY <2>9, <3>3, <4>4 DEF n
    <3> QED BY <3>2, <3>3
  <2>15. Shares' BY <1>1, <2>14 DEF Shares
  <2> QED BY <2>11, <2>15 DEF LetInv
<1> QED BY <1>3, <1>4

\* Every step of the letter routes keeps the invariant.
LEMMA LettersStep == LettersAssumption /\ LetInv /\ [LettersNext]_letterVars => LetInv'
<1> SUFFICES ASSUME LettersAssumption, LetInv, [LettersNext]_letterVars PROVE LetInv' OBVIOUS
<1>1. CASE UNCHANGED letterVars
  BY <1>1 DEF letterVars, LetInv, LetterTypeInv, LettersAnswer, FailsOnVariation, Shares, AutoUses,
              Current, TemplatesFor
<1>2. CASE LettersNext BY <1>2, SingleStep, BatchStep DEF LettersNext
<1> QED BY <1>1, <1>2

\* The invariant implies what the runs check.
LEMMA LettersMeaning == LettersAssumption /\ LetInv => LettersSound
<1> SUFFICES ASSUME LettersAssumption, LetInv PROVE LettersSound OBVIOUS
<1>1. batch \in Batches /\ Len(batch) \in Nat /\ DOMAIN batch = 1 .. Len(batch) /\ Len(letters) \in Nat
  BY BatchFields, LenProperties DEF LetInv, LetterTypeInv
<1>2. BatchAllOrNothing
  <2>1. ASSUME outcome = "failed"
        PROVE  \E k \in DOMAIN batch : TemplatesFor(batch[k].type, batch[k].variation) = {}
    <3>1. Len(letters) + 1 \in DOMAIN batch BY <1>1, <2>1 DEF LetInv, LetterTypeInv
    <3> QED BY <2>1, <3>1 DEF LetInv, FailsOnVariation, Current
  <2>2. ASSUME outcome = "sent"
        PROVE  /\ Len(letters) = Len(batch)
               /\ \A k \in DOMAIN batch :
                    /\ TemplatesFor(batch[k].type, batch[k].variation) # {}
                    /\ letters[k].type = batch[k].type
                    /\ batch[k].variation # NoVariation => letters[k].variation = batch[k].variation
    <3>1. Len(letters) = Len(batch) BY <2>2 DEF LetInv, LetterTypeInv
    <3> QED BY <1>1, <3>1 DEF LetInv, LettersAnswer
  <2> QED BY <2>1, <2>2 DEF BatchAllOrNothing
<1>3. AutoVariationsSpread
  <2> SUFFICES ASSUME ~single, NEW type \in LetterTypes,
                      NEW t \in Range(TEMPLATES[type]), NEW u \in Range(TEMPLATES[type])
               PROVE  Cardinality(AutoUses(type, t.variation))
                        <= Cardinality(AutoUses(type, u.variation)) + 1
    BY Zenon DEF AutoVariationsSpread
  <2>1. t.variation \in 1 .. Variations(type) /\ u.variation \in 1 .. Variations(type)
    BY TemplateTable DEF Range
  <2>2. PICK v \in 1 .. Variations(type) : v = t.variation BY <2>1
  <2>3. PICK w \in 1 .. Variations(type) : w = u.variation BY <2>1
  <2>4. Variations(type) \in {2, 3} BY TemplateTable
  <2>5. PICK c \in Nat : c = counters[type] BY DEF LetInv, LetterTypeInv
  <2>6. (c + Variations(type) - v) \div Variations(type) <= (c + Variations(type) - w) \div Variations(type) + 1
    <3>1. CASE Variations(type) = 2 BY <3>1
    <3>2. CASE Variations(type) = 3 BY <3>2
    <3> QED BY <2>4, <3>1, <3>2
  <2> QED BY <2>2, <2>3, <2>5, <2>6 DEF LetInv, Shares
<1> QED BY <1>2, <1>3 DEF LettersSound

\* Batches are answered whole or not at all and spread the variations evenly, for any
\* batches the request model accepts.
THEOREM LettersCorrect == LettersSpec => []LettersSound
<1>1. LettersInit => LetInv BY LettersStart, LettersAssumption
<1>2. LetInv /\ [LettersNext]_letterVars => LetInv' BY LettersStep, LettersAssumption
<1>3. LetInv => LettersSound BY LettersMeaning, LettersAssumption
<1> QED BY <1>1, <1>2, <1>3, PTL DEF LettersSpec
================================================================================
