---------------------------- MODULE ServicesProofs -----------------------------
(*****************************************************************************)
(* The plan of a liberation request is coherent, and all services side by    *)
(* side keep what each promises alone.                                       *)
(*                                                                           *)
(* A plan is put together from the answers of up to nine agents. What        *)
(* relates them follows from what each answers to a profile that the         *)
(* request model accepts, given that every agent has answered or fallen      *)
(* back (LibInv), so most lemmas here are about the agents themselves.       *)
(*****************************************************************************)
EXTENDS Services, AdviceProofs, OperationsProofs

--------------------------------------------------------------------------------
(* What the agents of a request answer, and in which order.                  *)

Agents == {"parks", "king", "colvin", "robinson", "lewis", "phantom", "truth", "gray", "tubman"}

\* The agents that every request has, in their order, and that no agent is asked twice.
EveryRequest == <<"parks", "king", "colvin", "robinson", "lewis", "phantom", "truth">>

\* The pipeline runs seven to nine agents, none of them twice.
LEMMA PipelineNames ==
  /\ Len(Pipeline) \in 7 .. 9
  /\ \A i \in 1 .. 7 : Pipeline[i] = EveryRequest[i]
  /\ \A i, j \in 1 .. Len(Pipeline) : Pipeline[i] = Pipeline[j] => i = j
  /\ \A i \in 1 .. Len(Pipeline) : /\ Pipeline[i] \in Agents
                                   /\ Pipeline[i] = "gray" => request.denial # NoValue
<1> DEFINE g == IF request.denial # NoValue THEN <<"gray">> ELSE <<>>
           t == IF Len(request.reports) >= 2 THEN <<"tubman">> ELSE <<>>
<1>1. EveryRequest \in Seq(Agents) /\ Len(EveryRequest) = 7
  BY DEF EveryRequest, Agents
<1>2. /\ g \in Seq(Agents) /\ t \in Seq(Agents)
      /\ Len(g) \in 0 .. 1 /\ Len(t) \in 0 .. 1
      /\ Len(g) = 1 => g[1] = "gray" /\ request.denial # NoValue
      /\ Len(t) = 1 => t[1] = "tubman"
  <2>1. "gray" \in Agents /\ "tubman" \in Agents
    BY DEF Agents
  <2>2. /\ <<"gray">> \in Seq(Agents) /\ Len(<<"gray">>) \in 0 .. 1 /\ <<"gray">>[1] = "gray"
        /\ <<"tubman">> \in Seq(Agents) /\ Len(<<"tubman">>) \in 0 .. 1 /\ <<"tubman">>[1] = "tubman"
    BY <2>1
  <2>3. <<>> \in Seq(Agents) /\ Len(<<>>) \in 0 .. 1 /\ Len(<<>>) # 1
    OBVIOUS
  <2>4. (g = <<"gray">> /\ request.denial # NoValue) \/ g = <<>>
    OBVIOUS
  <2>5. t = <<"tubman">> \/ t = <<>>
    OBVIOUS
  <2> HIDE DEF g, t
  <2>6. g \in Seq(Agents) /\ Len(g) \in 0 .. 1 /\ (Len(g) = 1 => g[1] = "gray" /\ request.denial # NoValue)
    BY <2>2, <2>3, <2>4, Zenon
  <2>7. t \in Seq(Agents) /\ Len(t) \in 0 .. 1 /\ (Len(t) = 1 => t[1] = "tubman")
    BY <2>2, <2>3, <2>5, Zenon
  <2> QED BY <2>6, <2>7
<1>3. Pipeline = (EveryRequest \o g) \o t
  BY DEF Pipeline, EveryRequest
<1> HIDE DEF g, t
<1> DEFINE s == EveryRequest \o g
<1>4. /\ s \in Seq(Agents) /\ Len(s) = 7 + Len(g)
      /\ \A i \in 1 .. Len(s) : s[i] = IF i <= 7 THEN EveryRequest[i] ELSE g[i - 7]
  <2>1. EveryRequest \in Seq(Agents) /\ g \in Seq(Agents)
    BY <1>1, <1>2
  <2>2. /\ s \in Seq(Agents) /\ Len(s) = Len(EveryRequest) + Len(g)
        /\ \A i \in 1 .. Len(EveryRequest) + Len(g) :
              s[i] = IF i <= Len(EveryRequest) THEN EveryRequest[i] ELSE g[i - Len(EveryRequest)]
    BY <2>1, ConcatProperties
  <2> HIDE DEF s
  <2> QED BY <1>1, <2>2
<1>5. /\ \A i \in 1 .. 7 : s[i] = EveryRequest[i]
      /\ Len(g) = 1 => s[8] = "gray"
  <2> HIDE DEF s, EveryRequest, g
  <2>1. \A i \in 1 .. 7 : s[i] = EveryRequest[i]
    BY <1>2, <1>4
  <2>2. Len(g) = 1 => s[8] = g[1]
    BY <1>2, <1>4
  <2> QED BY <1>2, <2>1, <2>2
<1> HIDE DEF s
<1> DEFINE c == s \o t
<1>5a. /\ Len(c) = Len(s) + Len(t)
      /\ \A i \in 1 .. Len(c) : c[i] = IF i <= Len(s) THEN s[i] ELSE t[i - Len(s)]
  BY <1>2, <1>4, SMTT(30)
<1>6. c = Pipeline
  BY <1>3 DEF s
<1> HIDE DEF c
<1>7. /\ Len(c) \in 7 .. 9
      /\ \A i \in 1 .. 7 : c[i] = EveryRequest[i]
      /\ \A i \in 8 .. Len(c) : \/ i = 8 /\ c[i] = "gray" /\ request.denial # NoValue
                                \/ i = Len(c) /\ c[i] = "tubman"
  <2>1. PICK x \in 0 .. 1, y \in 0 .. 1 : x = Len(g) /\ y = Len(t)
    BY <1>2
  <2>2. Len(s) = 7 + x /\ Len(c) = 7 + x + y
    BY <1>4, <1>5a, <2>1
  <2>3. ASSUME NEW i \in 1 .. 7 PROVE c[i] = EveryRequest[i]
    <3>1. i \in 1 .. Len(c) /\ i <= Len(s)
      BY <2>2
    <3> QED BY <1>5, <1>5a, <3>1
  <2>4. ASSUME NEW i \in 8 .. Len(c), i <= 7 + x
        PROVE  i = 8 /\ c[i] = "gray" /\ request.denial # NoValue
    <3>1. i = 8 /\ x = 1 /\ 8 \in 1 .. Len(c) /\ 8 <= Len(s)
      BY <2>2, <2>4
    <3> QED BY <1>2, <1>5, <1>5a, <2>1, <3>1
  <2>5. ASSUME NEW i \in 8 .. Len(c), i > 7 + x
        PROVE  i = Len(c) /\ c[i] = "tubman"
    <3>1. y = 1 /\ i = Len(c) /\ i - Len(s) = 1 /\ i \in 1 .. Len(c) /\ ~(i <= Len(s))
      BY <2>2, <2>5
    <3> QED BY <1>2, <1>5a, <2>1, <3>1
  <2>6. Len(c) \in 7 .. 9
    BY <2>2
  <2>7. ASSUME NEW i \in 8 .. Len(c)
        PROVE  \/ i = 8 /\ c[i] = "gray" /\ request.denial # NoValue
               \/ i = Len(c) /\ c[i] = "tubman"
    BY <2>2, <2>4, <2>5
  <2> QED BY <2>3, <2>6, <2>7
<1>8. /\ EveryRequest[1] = "parks" /\ EveryRequest[2] = "king" /\ EveryRequest[3] = "colvin"
      /\ EveryRequest[4] = "robinson" /\ EveryRequest[5] = "lewis" /\ EveryRequest[6] = "phantom"
      /\ EveryRequest[7] = "truth"
  BY DEF EveryRequest
<1>9. ASSUME NEW i \in 1 .. Len(c), NEW j \in 1 .. Len(c), c[i] = c[j] PROVE i = j
  <2>1. /\ i \in 1 .. 7 \/ i \in 8 .. Len(c)
        /\ j \in 1 .. 7 \/ j \in 8 .. Len(c)
        /\ Len(c) \in 7 .. 9
    BY <1>7
  <2>2. ASSUME NEW k \in 1 .. 7 PROVE c[k] = EveryRequest[k] /\ c[k] # "gray" /\ c[k] # "tubman"
    <3>1. c[k] = EveryRequest[k]
      BY <1>7
    <3>2. EveryRequest[k] # "gray" /\ EveryRequest[k] # "tubman"
      BY <1>8
    <3> QED BY <3>1, <3>2
  <2>3. ASSUME NEW k \in 8 .. Len(c)
        PROVE  (k = 8 /\ c[k] = "gray") \/ (k = Len(c) /\ c[k] = "tubman")
    <3>1. \A x \in 8 .. Len(c) : \/ x = 8 /\ c[x] = "gray" /\ request.denial # NoValue
                                 \/ x = Len(c) /\ c[x] = "tubman"
      BY <1>7
    <3> QED BY <3>1
  <2>4. CASE i \in 1 .. 7 /\ j \in 1 .. 7
    <3>1. EveryRequest[i] = EveryRequest[j]
      BY <1>9, <2>2, <2>4
    <3> QED BY <1>8, <2>4, <3>1
  <2>5. CASE i \in 8 .. Len(c) /\ j \in 8 .. Len(c)
    <3>1. "gray" # "tubman"
      OBVIOUS
    <3> QED BY <1>9, <2>3, <2>5, <3>1
  <2>6. CASE i \in 1 .. 7 /\ j \in 8 .. Len(c)
    BY <1>9, <2>2, <2>3, <2>6
  <2>7. CASE i \in 8 .. Len(c) /\ j \in 1 .. 7
    BY <1>9, <2>2, <2>3, <2>7
  <2> QED BY <2>1, <2>4, <2>5, <2>6, <2>7
<1>10. ASSUME NEW i \in 1 .. Len(c)
       PROVE  c[i] \in Agents /\ (c[i] = "gray" => request.denial # NoValue)
  BY <1>7, <1>8 DEF Agents
<1> QED BY <1>6, <1>7, <1>9, <1>10

\* The answers are those of the agents that were asked, one after another, or their
\* fallbacks; the page shows what was there when it was printed.
LibInv ==
  /\ request \in Plans
  /\ chain \in Seq(Agents) /\ Len(chain) <= Len(Pipeline)
  /\ DOMAIN results = {Pipeline[i] : i \in 1 .. Len(chain)}
  /\ fallbacks \subseteq DOMAIN results
  /\ \A a \in fallbacks : results[a] = Fallback(a)
  /\ \A a \in DOMAIN results \ fallbacks : results[a] \in Answers(a)
  /\ page # NoPage => Len(chain) = Len(Pipeline)
  /\ PrintShowsScan

\* The invariant holds when the request arrives.
LEMMA LibStart == LibInit => LibInv
<1> SUFFICES ASSUME LibInit PROVE LibInv
  OBVIOUS
<1>1. Len(Pipeline) \in Nat
  BY PipelineNames
<1>2. DOMAIN results = {} /\ Len(chain) = 0 /\ chain \in Seq(Agents)
  BY DEF LibInit
<1>3. {Pipeline[i] : i \in 1 .. Len(chain)} = {}
  BY <1>2
<1>4. request \in Plans /\ fallbacks = {} /\ page = NoPage
  BY DEF LibInit
<1>5. PrintShowsScan
  BY <1>4 DEF PrintShowsScan
<1> QED BY <1>1, <1>2, <1>3, <1>4, <1>5 DEF LibInv

\* Nothing an agent answers with changes afterwards, Parks's answer in the context included.
LEMMA AnswersKept ==
  ASSUME NEW a, request' = request,
         a = "king" => results'["parks"] = results["parks"]
  PROVE  Answers(a)' = Answers(a)
BY DEF Answers

\* The next agent adds its answer or its fallback, and touches no other.
LEMMA AgentAsked ==
  ASSUME LibInv, Len(chain) < Len(Pipeline), NEW data, results' = With(NextAgent, data),
         chain' = Append(chain, NextAgent), UNCHANGED <<request, page>>,
         \/ fallbacks' = fallbacks /\ data \in Answers(NextAgent)
         \/ fallbacks' = fallbacks \cup {NextAgent} /\ data = Fallback(NextAgent)
  PROVE  LibInv'
<1> DEFINE n == Len(chain)
           agent == NextAgent
<1>1. n \in Nat /\ n + 1 \in 1 .. Len(Pipeline) /\ agent = Pipeline[n + 1]
  <2>1. n \in Nat
    BY LenProperties DEF LibInv
  <2> QED BY <2>1, PipelineNames DEF NextAgent
<1>2. Pipeline' = Pipeline
  BY DEF Pipeline
<1>3. agent \notin DOMAIN results
  BY <1>1, PipelineNames DEF LibInv
<1>4. agent \in Agents
  BY <1>1, PipelineNames
<1>5. chain' \in Seq(Agents) /\ Len(chain') = n + 1
  BY <1>4, AppendProperties DEF LibInv
<1>6. /\ DOMAIN results' = DOMAIN results \cup {agent} /\ results'[agent] = data
      /\ \A a \in DOMAIN results : results'[a] = results[a]
  BY <1>3 DEF With
<1> HIDE DEF n, agent
<1>7. {Pipeline[i] : i \in 1 .. n + 1} = {Pipeline[i] : i \in 1 .. n} \cup {Pipeline[n + 1]}
  <2>1. \A i : i \in 1 .. n + 1 <=> i \in 1 .. n \/ i = n + 1
    BY <1>1
  <2> QED BY <2>1
<1>8. DOMAIN results' = {Pipeline[i] : i \in 1 .. Len(chain')}
  BY <1>1, <1>5, <1>6, <1>7 DEF LibInv, n
<1>9. fallbacks \subseteq DOMAIN results /\ fallbacks' \subseteq DOMAIN results'
  BY <1>6 DEF LibInv, agent
<1>10. \A a \in DOMAIN results' : Answers(a)' = Answers(a)
  <2>1. ASSUME NEW a \in DOMAIN results', a = "king" PROVE "parks" \in DOMAIN results
    <3>1. PICK i \in 1 .. n + 1 : "king" = Pipeline[i]
      BY <1>5, <1>8, <2>1
    <3>2. Pipeline[1] = "parks" /\ Pipeline[2] = "king" /\ 2 \in 1 .. Len(Pipeline)
      BY PipelineNames DEF EveryRequest
    <3>3. i = 2
      BY <1>1, <3>1, <3>2, PipelineNames
    <3>4. 1 \in 1 .. n
      BY <1>1, <3>1, <3>3
    <3> QED BY <3>2, <3>4 DEF LibInv, n
  <2>2. ASSUME NEW a \in DOMAIN results', a = "king" PROVE results'["parks"] = results["parks"]
    BY <1>6, <2>1, <2>2
  <2> QED BY <2>2, AnswersKept
<1>11. \A a \in fallbacks' : results'[a] = Fallback(a)
  BY <1>6, <1>9 DEF LibInv, agent
<1>12. \A a \in DOMAIN results' \ fallbacks' : results'[a] \in Answers(a)'
  BY <1>3, <1>6, <1>9, <1>10 DEF LibInv, agent
<1>13. \A a : Fallback(a)' = Fallback(a)
  BY DEF Fallback
<1>14. page = NoPage
  BY DEF LibInv
<1>15. PrintShowsScan'
  BY <1>14 DEF PrintShowsScan, NoPage
<1>16. Len(chain') <= Len(Pipeline)
  BY <1>1, <1>5, PipelineNames
<1> QED BY <1>2, <1>5, <1>8, <1>9, <1>11, <1>12, <1>13, <1>14, <1>15, <1>16 DEF LibInv, NoPage

\* Every step of the pipeline keeps the invariant.
LEMMA LibStep == LibInv /\ [LibNext]_libVars => LibInv'
<1> SUFFICES ASSUME LibInv, [LibNext]_libVars PROVE LibInv'
  OBVIOUS
<1>1. CASE Dispatch
  <2>1. PICK data \in Answers(NextAgent) : results' = With(NextAgent, data)
    BY <1>1 DEF Dispatch
  <2> QED BY <1>1, <2>1, AgentAsked DEF Dispatch
<1>2. CASE FallBack
  BY <1>2, AgentAsked DEF FallBack
<1>3. CASE Render
  <2>1. UNCHANGED <<request, results, chain, fallbacks>> /\ Len(chain) = Len(Pipeline)
    BY <1>3 DEF Render
  <2>2. page'.phases = Len(results["king"].phases)
    BY <1>3 DEF Render
  <2>3. ASSUME "tubman" \in DOMAIN results, "tubman" \notin fallbacks
        PROVE  page'.scan = results["tubman"].discrepancies
    <3>1. results["tubman"] = Tubman(request.reports)
      <4>1. results["tubman"] \in Answers("tubman")
        BY <2>3 DEF LibInv
      <4>2. Answers("tubman") = {Tubman(request.reports)}
        BY DEF Answers
      <4> QED BY <4>1, <4>2
    <3>2. "discrepancies" \in DOMAIN results["tubman"]
      BY <3>1 DEF Tubman
    <3>3. page'.scan = Read(results["tubman"], "discrepancies", {})
      BY <1>3, <2>3 DEF Render
    <3> QED BY <3>2, <3>3 DEF Read
  <2>4. PrintShowsScan'
    BY <2>1, <2>2, <2>3 DEF PrintShowsScan, Answered
  <2>5. Pipeline' = Pipeline /\ \A a : Answers(a)' = Answers(a) /\ Fallback(a)' = Fallback(a)
    BY <2>1 DEF Pipeline, Answers, Fallback
  <2> QED BY <2>1, <2>4, <2>5 DEF LibInv
<1>4. CASE UNCHANGED libVars
  <2>1. UNCHANGED <<request, results, chain, fallbacks, page>>
    BY <1>4 DEF libVars
  <2>2. Pipeline' = Pipeline /\ \A a : Answers(a)' = Answers(a) /\ Fallback(a)' = Fallback(a)
    BY <2>1 DEF Pipeline, Answers, Fallback
  <2>3. PrintShowsScan' = PrintShowsScan
    BY <2>1 DEF PrintShowsScan, Answered
  <2> QED BY <2>1, <2>2, <2>3 DEF LibInv
<1> QED BY <1>1, <1>2, <1>3, <1>4 DEF LibNext

--------------------------------------------------------------------------------
(* Doors and jobs: what Parks, King, Phantom and Lewis find.                 *)

\* An industry or a house with a minimum score checks the credit, and so does one that
\* looks at collections; none has two meanings of its name.
LEMMA RuleTables ==
  /\ \A i \in DOMAIN Industries :
       /\ Industries[i].min \in Nat
       /\ Industries[i].min > 0 \/ Industries[i].collections => Industries[i].checked
  /\ \A h \in DOMAIN HousingTypes :
       /\ HousingTypes[h].min \in Nat
       /\ HousingTypes[h].min > 0 => HousingTypes[h].checked
  /\ (DOMAIN Industries) \cap (DOMAIN HousingTypes) = {}
<1>1. \A i \in DOMAIN Industries :
        Industries[i].min \in Nat /\ (Industries[i].min > 0 => Industries[i].checked)
  BY DEF Industries, Rule
<1>1a. \A i \in DOMAIN Industries : Industries[i].collections => Industries[i].checked
  BY DEF Industries, Rule
<1>2. \A h \in DOMAIN HousingTypes :
        HousingTypes[h].min \in Nat /\ (HousingTypes[h].min > 0 => HousingTypes[h].checked)
  BY DEF HousingTypes, Rule
<1>3. (DOMAIN Industries) \cap (DOMAIN HousingTypes) = {}
  BY DEF Industries, HousingTypes
<1> QED BY <1>1, <1>1a, <1>2, <1>3

\* The thresholds of Parks are five scores.
LEMMA ThresholdTable == DOMAIN Thresholds = 1 .. 5 /\ \A k \in 1 .. 5 : 
  Thresholds[k] \in Int /\ 0 < Thresholds[k] /\ Thresholds[k] <= 850
BY DEF Thresholds

\* Closed doors ahead are those of the first threshold that opens any: Parks and King look
\* for it alike.
Ahead(p) == {k \in DOMAIN BuildDoors(p) : /\ BuildDoors(p)[k].threshold > p.score
                                          /\ BuildDoors(p)[k].opens # {}}

\* The cheapest door is at the first threshold ahead, and opens what has it as its minimum.
LEMMA FirstDoor ==
  ASSUME NEW p, Ahead(p) # {}
  PROVE  \E k \in 1 .. 5 :
           /\ k = Min(Ahead(p)) /\ Thresholds[k] > p.score
           /\ BuildDoors(p)[k].threshold = Thresholds[k]
           /\ BuildDoors(p)[k].opens = {i \in DOMAIN Industries : Industries[i].min = Thresholds[k]}
                                         \cup {h \in DOMAIN HousingTypes : HousingTypes[h].min = Thresholds[k]}
<1>1. DOMAIN BuildDoors(p) = 1 .. 5
  BY ThresholdTable DEF BuildDoors
<1>2. Ahead(p) \in SUBSET Nat
  BY <1>1 DEF Ahead
<1>3. Min(Ahead(p)) \in Ahead(p)
  BY <1>2, Least
<1>4. PICK k \in 1 .. 5 : k = Min(Ahead(p)) /\ BuildDoors(p)[k].threshold > p.score /\ BuildDoors(p)[k].opens # {}
  <2>1. \A k \in Ahead(p) : /\ k \in DOMAIN BuildDoors(p)
                             /\ BuildDoors(p)[k].threshold > p.score /\ BuildDoors(p)[k].opens # {}
    BY Zenon DEF Ahead
  <2>2. Min(Ahead(p)) \in 1 .. 5
    BY <1>1, <1>3, <2>1, Zenon
  <2> QED BY <1>3, <2>1, <2>2, Zenon
<1>5. BuildDoors(p)[k] =
        [threshold |-> Thresholds[k],
         opens |-> IF Thresholds[k] <= p.score THEN {}
                   ELSE {i \in DOMAIN Industries : Industries[i].min = Thresholds[k]}
                          \cup {h \in DOMAIN HousingTypes : HousingTypes[h].min = Thresholds[k]}]
  BY <1>4, ThresholdTable DEF BuildDoors
<1> QED BY <1>4, <1>5

\* What the cheapest door promises is true: it is shut now and would be open.
LEMMA CheapestDoorOpens ==
  ASSUME NEW p \in CreditProfiles
  PROVE  LET door == CheapestDoor(p, BuildDoors(p))
             later == [p EXCEPT !.score = door.threshold, !.collections = 0]
             Shut(q) == BuildEmployment(q, {}) \cup BuildHousing(q)
         IN  door.opens \subseteq Shut(p) \ Shut(later)
<1> DEFINE door == CheapestDoor(p, BuildDoors(p))
           later == [p EXCEPT !.score = door.threshold, !.collections = 0]
           Shut(q) == BuildEmployment(q, {}) \cup BuildHousing(q)
<1> SUFFICES ASSUME NEW x \in door.opens PROVE x \in Shut(p) /\ x \notin Shut(later)
  OBVIOUS
<1>1. Ahead(p) # {}
  BY DEF CheapestDoor, NoDoor, Ahead
<1>2. PICK k \in 1 .. 5 :
        /\ k = Min(Ahead(p)) /\ Thresholds[k] > p.score
        /\ BuildDoors(p)[k].threshold = Thresholds[k]
        /\ BuildDoors(p)[k].opens = {i \in DOMAIN Industries : Industries[i].min = Thresholds[k]}
                                      \cup {h \in DOMAIN HousingTypes : HousingTypes[h].min = Thresholds[k]}
  BY <1>1, FirstDoor, Zenon
<1>3. door = [threshold |-> BuildDoors(p)[k].threshold,
              points |-> BuildDoors(p)[k].threshold - p.score, opens |-> BuildDoors(p)[k].opens]
  BY <1>1, <1>2 DEF CheapestDoor, Ahead
<1>4. door.threshold = Thresholds[k] /\ door.opens = BuildDoors(p)[k].opens
  BY <1>2, <1>3
<1> HIDE DEF door
<1>5. later.score = Thresholds[k] /\ later.collections = 0
  BY <1>4 DEF CreditProfiles
<1> HIDE DEF later
<1>6. p.score \in Int /\ Thresholds[k] \in Int /\ Thresholds[k] > 0
  <2>1. p.score \in Scores
    BY DEF CreditProfiles
  <2>2. Thresholds[k] \in Int /\ 0 < Thresholds[k]
    BY ThresholdTable
  <2> QED BY <2>1, <2>2, InScores
<1>7. CASE x \in DOMAIN Industries /\ Industries[x].min = Thresholds[k]
  <2>1. Closed(Industries[x], p) /\ ~Closed(Industries[x], later)
    BY <1>2, <1>5, <1>6, <1>7, RuleTables DEF Closed
  <2>2. x \notin DOMAIN HousingTypes
    BY <1>7, RuleTables
  <2> QED BY <1>7, <2>1, <2>2 DEF BuildEmployment, BuildHousing
<1>8. CASE x \in DOMAIN HousingTypes /\ HousingTypes[x].min = Thresholds[k]
  <2>1. Closed(HousingTypes[x], p) /\ ~Closed(HousingTypes[x], later)
    BY <1>2, <1>5, <1>6, <1>8, RuleTables DEF Closed
  <2>2. x \notin DOMAIN Industries
    BY <1>8, RuleTables
  <2> QED BY <1>8, <2>1, <2>2 DEF BuildEmployment, BuildHousing
<1> QED BY <1>2, <1>4, <1>7, <1>8

\* King sends the user to the door that Parks calls the cheapest, and without Parks to none.
LEMMA SameDoor ==
  ASSUME NEW p
  PROVE  /\ Phase3(p, BuildDoors(p)).unlock = CheapestDoor(p, BuildDoors(p)).threshold
         /\ Phase3(p, <<>>).unlock = 0
<1>1. {k \in DOMAIN <<>> : <<>>[k].threshold > p.score /\ <<>>[k].opens # {}} = {}
  OBVIOUS
<1>2. Phase3(p, <<>>).unlock = 0
  BY <1>1 DEF Phase3
<1>3. CASE Ahead(p) = {}
  BY <1>2, <1>3 DEF Phase3, CheapestDoor, NoDoor, Ahead
<1>4. CASE Ahead(p) # {}
  BY <1>2, <1>4 DEF Phase3, CheapestDoor, Ahead
<1> QED BY <1>3, <1>4

\* Phantom and Parks take the same industries for blocked.
LEMMA SameIndustries ==
  ASSUME NEW p \in CreditProfiles, NEW i \in DOMAIN Industries
  PROVE  Closed(Industries[i], p) <=> IsBlocked(i, p)
<1>1. p.score \in Int /\ p.score > 0 /\ p.collections \in Int
  <2>1. p.score \in Scores /\ p.collections \in Nat
    BY DEF CreditProfiles
  <2> QED BY <2>1, InScores
<1> QED BY <1>1, RuleTables DEF Closed, IsBlocked

\* Lewis lists no job that Parks would close for the score.
LEMMA JobsAreOpen ==
  ASSUME NEW p \in CreditProfiles, NEW score \in Int, NEW j \in AccessibleJobs(score)
  PROVE  /\ j \in DOMAIN Industries
         /\ ~Closed(Industries[j], [p EXCEPT !.score = score, !.collections = 0])
<1>1. \A x \in DOMAIN JobsByScore :
        /\ x \in DOMAIN Industries /\ JobsByScore[x] \in Int /\ Industries[x].min \in Int
        /\ Industries[x].min > 0 => Industries[x].min <= JobsByScore[x]
  BY DEF JobsByScore, Industries, Rule
<1> DEFINE then == [p EXCEPT !.score = score, !.collections = 0]
<1>2. then.score = score /\ then.collections = 0
  BY DEF CreditProfiles
<1> HIDE DEF then
<1>3. j \in DOMAIN JobsByScore /\ score >= JobsByScore[j]
  BY DEF AccessibleJobs
<1>4. JobsByScore[j] >= 0
  BY <1>3 DEF JobsByScore
<1>5. ~(then.score < Industries[j].min)
  BY <1>1, <1>2, <1>3, <1>4
<1>6. ~Closed(Industries[j], then)
  BY <1>2, <1>5 DEF Closed
<1> QED BY <1>1, <1>3, <1>6 DEF then

--------------------------------------------------------------------------------
(* Costs: what Phantom adds up.                                              *)

\* Every score has a band of the agents' tables, and a higher score no lower one.
LEMMA BandRises ==
  ASSUME NEW s \in Scores, NEW t \in Scores, s <= t
  PROVE  ScoreToBand(s) \in 1 .. 7 /\ ScoreToBand(t) \in 1 .. 7 /\ ScoreToBand(s) <= ScoreToBand(t)
<1> DEFINE fits(x) == {b \in Bands : x <= BandUppers[b]}
<1>1. Bands = 1 .. 7 /\ BestBand = 7
  BY DEF Bands, BestBand, BandUppers
<1>2. BandUppers[7] = 850 /\ \A b \in 1 .. 7 : BandUppers[b] \in Int
  BY DEF BandUppers
<1>3. ASSUME NEW x \in Scores
      PROVE  /\ fits(x) \in SUBSET Nat /\ fits(x) # {} /\ ScoreToBand(x) = Min(fits(x))
             /\ ScoreToBand(x) \in fits(x) /\ \A b \in fits(x) : ScoreToBand(x) <= b
  <2>1. fits(x) \in SUBSET Nat
    BY <1>1
  <2>2. 7 \in fits(x)
    BY <1>1, <1>2, InScores
  <2>3. ScoreToBand(x) = Min(fits(x))
    BY <2>2 DEF ScoreToBand
  <2> HIDE DEF fits
  <2> QED BY <2>1, <2>2, <2>3, Least
<1>4. ScoreToBand(t) \in fits(s)
  <2>1. ScoreToBand(t) \in Bands /\ t <= BandUppers[ScoreToBand(t)]
    BY <1>3
  <2>2. BandUppers[ScoreToBand(t)] \in Int
    BY <1>1, <1>2, <2>1
  <2>3. s \in Int /\ t \in Int
    BY InScores
  <2> QED BY <2>1, <2>2, <2>3
<1>5. ScoreToBand(s) \in 1 .. 7 /\ ScoreToBand(t) \in 1 .. 7
  BY <1>1, <1>3
<1>6. ScoreToBand(s) <= ScoreToBand(t)
  BY <1>3, <1>4
<1> QED BY <1>5, <1>6

\* No cost of a better band is higher.
LEMMA CostsFall ==
  ASSUME NEW b \in 1 .. 7, NEW c \in 1 .. 7, b <= c
  PROVE  /\ CreditPremium[b] \in Nat /\ CreditPremium[c] \in Nat /\ CreditPremium[c] <= CreditPremium[b]
         /\ TaxInsurance[b] \in Nat /\ TaxInsurance[c] \in Nat /\ TaxInsurance[c] <= TaxInsurance[b]
         /\ TaxHousing[b] \in Nat /\ TaxHousing[c] \in Nat /\ TaxHousing[c] <= TaxHousing[b]
<1>1. /\ CreditPremium[b] \in Nat /\ CreditPremium[c] \in Nat /\ CreditPremium[c] <= CreditPremium[b]
  BY DEF CreditPremium
<1>2. TaxInsurance[b] \in Nat /\ TaxInsurance[c] \in Nat /\ TaxInsurance[c] <= TaxInsurance[b]
  BY DEF TaxInsurance
<1>3. TaxHousing[b] \in Nat /\ TaxHousing[c] \in Nat /\ TaxHousing[c] <= TaxHousing[b]
  BY DEF TaxHousing
<1> QED BY <1>1, <1>2, <1>3

\* The interest of a debt, and the range that the tax is cut to, keep the order of the costs.
LEMMA ShareFalls ==
  ASSUME NEW low \in Nat, NEW high \in Nat, low <= high, NEW debt \in Nat
  PROVE  /\ (low * debt) \div 10000 \in Nat /\ (high * debt) \div 10000 \in Nat
         /\ (low * debt) \div 10000 <= (high * debt) \div 10000
<1>1. low * debt \in Nat /\ high * debt \in Nat /\ low * debt <= high * debt
  <2>1. PICK d \in Nat : high = low + d
    <3>1. high - low \in Nat
      OBVIOUS
    <3>2. high = low + (high - low)
      OBVIOUS
    <3> QED BY <3>1, <3>2
  <2>2. high * debt = low * debt + d * debt
    BY <2>1
  <2>3. low * debt \in Nat /\ d * debt \in Nat
    BY <2>1
  <2> QED BY <2>2, <2>3
<1> QED BY <1>1

\* The check of the tax keeps the order of two taxes and puts both in range.
LEMMA Validated ==
  ASSUME NEW low \in Int, NEW high \in Int, low <= high
  PROVE  /\ ValidTax(ApplyValidation(low).tax) /\ ValidTax(ApplyValidation(high).tax)
         /\ ApplyValidation(low).tax <= ApplyValidation(high).tax
<1>1. ASSUME NEW sum \in Int
      PROVE  ApplyValidation(sum).tax = IF sum < 1500 THEN 1500 ELSE IF sum > 15000 THEN 15000 ELSE sum
  <2>1. Min({15000, sum}) = IF 15000 <= sum THEN 15000 ELSE sum
    BY LeastOfTwo
  <2>2. PICK m \in Int : m = Min({15000, sum}) /\ m = IF 15000 <= sum THEN 15000 ELSE sum
    BY <2>1
  <2>3. Max({1500, m}) = IF 1500 <= m THEN m ELSE 1500
    BY GreatestOfTwo
  <2> QED BY <2>2, <2>3 DEF ApplyValidation
<1>2. PICK x \in Int : x = ApplyValidation(high).tax /\ x = IF high < 1500 THEN 1500 ELSE IF high > 15000 THEN 15000 ELSE high
  BY <1>1
<1>3. PICK y \in Int : y = ApplyValidation(low).tax /\ y = IF low < 1500 THEN 1500 ELSE IF low > 15000 THEN 15000 ELSE low
  BY <1>1
<1>4. ValidTax(x) /\ ValidTax(y) /\ y <= x
  BY <1>2, <1>3 DEF ValidTax
<1> QED BY <1>2, <1>3, <1>4

\* An industry that is open stays open when the score rises.
LEMMA BarrierFalls ==
  ASSUME NEW p \in CreditProfiles, NEW score \in Int, p.score <= score, NEW industry \in DOMAIN Industries
  PROVE  LET q == [p EXCEPT !.score = score]
         IN  /\ EmploymentBarrier(industry, p) \in Nat /\ EmploymentBarrier(industry, q) \in Nat
             /\ EmploymentBarrier(industry, q) <= EmploymentBarrier(industry, p)
<1> DEFINE q == [p EXCEPT !.score = score]
<1>1. q.score = score /\ q.collections = p.collections
  BY DEF CreditProfiles
<1> HIDE DEF q
<1>2. p.score \in Int
  <2>1. p.score \in Scores
    BY DEF CreditProfiles
  <2> QED BY <2>1, InScores
<1>3. Industries[industry].min \in Int
  BY RuleTables
<1>4. ~(p.score < Industries[industry].min) => ~(score < Industries[industry].min)
  BY <1>2, <1>3
<1>5. IsBlocked(industry, q) => IsBlocked(industry, p)
  BY <1>1, <1>4, Zenon DEF IsBlocked
<1>6. industry \in DOMAIN AnnualLoss => AnnualLoss[industry] \in Nat
  BY DEF AnnualLoss
<1>7. 0 \in Nat /\ 0 <= 0 /\ \A x \in Nat : 0 <= x /\ x <= x
  OBVIOUS
<1>8. CASE industry \in DOMAIN AnnualLoss
  <2>1. AnnualLoss[industry] \in Nat
    BY <1>6, <1>8
  <2>2. /\ EmploymentBarrier(industry, p) = IF IsBlocked(industry, p) THEN AnnualLoss[industry] ELSE 0
        /\ EmploymentBarrier(industry, q) = IF IsBlocked(industry, q) THEN AnnualLoss[industry] ELSE 0
    BY <1>8 DEF EmploymentBarrier
  <2> QED BY <1>5, <1>7, <2>1, <2>2 DEF q
<1>9. CASE industry \notin DOMAIN AnnualLoss
  BY <1>7, <1>9 DEF EmploymentBarrier, q
<1> QED BY <1>8, <1>9

\* The tax is within its range, and whoever has a higher score pays no more.
LEMMA TaxFalls ==
  ASSUME NEW p \in CreditProfiles, NEW score \in Scores, p.score <= score,
         NEW industry \in DOMAIN Industries
  PROVE  LET later == Phantom([p EXCEPT !.score = score], industry).total_annual_tax
         IN  /\ ValidTax(later) /\ ValidTax(Phantom(p, industry).total_annual_tax)
             /\ later <= Phantom(p, industry).total_annual_tax
<1>0. PICK q : q = [p EXCEPT !.score = score]
  OBVIOUS
<1> DEFINE Sum(x) == TaxComponents(x, industry).credit + TaxComponents(x, industry).insurance
                       + TaxComponents(x, industry).employment + TaxComponents(x, industry).housing
<1>1. q.score = score /\ q.balance = p.balance
  BY <1>0 DEF CreditProfiles
<1>2. /\ EmploymentBarrier(industry, p) \in Nat /\ EmploymentBarrier(industry, q) \in Nat
      /\ EmploymentBarrier(industry, q) <= EmploymentBarrier(industry, p)
  <2>1. score \in Int
    BY InScores
  <2> QED BY <1>0, <2>1, BarrierFalls
<1>3. p.score \in Scores /\ p.balance \in Nat
  BY DEF CreditProfiles
<1>4. PICK b \in 1 .. 7, c \in 1 .. 7 : b = ScoreToBand(p.score) /\ c = ScoreToBand(score) /\ b <= c
  BY <1>3, BandRises
<1>5. /\ CreditPremium[b] \in Nat /\ CreditPremium[c] \in Nat /\ CreditPremium[c] <= CreditPremium[b]
      /\ TaxInsurance[b] \in Nat /\ TaxInsurance[c] \in Nat /\ TaxInsurance[c] <= TaxInsurance[b]
      /\ TaxHousing[b] \in Nat /\ TaxHousing[c] \in Nat /\ TaxHousing[c] <= TaxHousing[b]
  BY <1>4, CostsFall
<1>6. PICK d \in Nat, e \in Nat :
        /\ d = (CreditPremium[b] * p.balance) \div 10000 /\ e = (CreditPremium[c] * p.balance) \div 10000
        /\ e <= d
  BY <1>3, <1>5, ShareFalls
<1>7. Sum(p) = d + TaxInsurance[b] + EmploymentBarrier(industry, p) + TaxHousing[b]
  BY <1>4, <1>6 DEF TaxComponents
<1>8. Sum(q) = e + TaxInsurance[c] + EmploymentBarrier(industry, q) + TaxHousing[c]
  BY <1>1, <1>4, <1>6 DEF TaxComponents
<1>9. /\ Phantom(p, industry).total_annual_tax = ApplyValidation(Sum(p)).tax
      /\ Phantom(q, industry).total_annual_tax = ApplyValidation(Sum(q)).tax
  BY DEF Phantom
<1> HIDE DEF Sum
<1>10. Sum(p) \in Int /\ Sum(q) \in Int /\ Sum(q) <= Sum(p)
  BY <1>2, <1>5, <1>6, <1>7, <1>8
<1>11. /\ ValidTax(ApplyValidation(Sum(q)).tax) /\ ValidTax(ApplyValidation(Sum(p)).tax)
       /\ ApplyValidation(Sum(q)).tax <= ApplyValidation(Sum(p)).tax
  BY <1>10, Validated
<1> QED BY <1>9, <1>11, <1>0

\* Every job that Lewis lists at one of its horizons is open at the score of the horizon.
LEMMA HorizonsAreOpen ==
  ASSUME NEW p \in CreditProfiles, NEW horizon \in DOMAIN Lewis(p).projections
  PROVE  LET then == Lewis(p).projections[horizon]
         IN  \A j \in then.jobs :
               /\ j \in DOMAIN Industries
               /\ ~Closed(Industries[j], [p EXCEPT !.score = then.score, !.collections = 0])
<1> DEFINE then == Lewis(p).projections[horizon]
<1>1. \A s \in Int : ClampScore(s) \in Int
  <2> TAKE s \in Int
  <2>1. PICK m \in Int : m = Min({850, s})
    BY LeastOfTwo
  <2>2. Max({300, m}) \in Int
    BY GreatestOfTwo
  <2> QED BY <2>1, <2>2 DEF ClampScore
<1>2. p.score \in Scores
  BY DEF CreditProfiles
<1>3. DOMAIN Projections(p) = {"current", "days30", "days90", "do_nothing"}
  BY DEF Projections
<1>4. Lewis(p).projections = [k \in DOMAIN Projections(p) |-> BuildTimepoint(Projections(p)[k])]
  BY DEF Lewis
<1>5. horizon \in DOMAIN Projections(p) /\ then = BuildTimepoint(Projections(p)[horizon])
  BY <1>4
<1>6. Projections(p)[horizon] \in Int
  <2>1. p.score \in Int /\ p.score + 15 \in Int /\ p.score + 40 \in Int /\ p.score - 5 \in Int
    BY <1>2, InScores
  <2>2. /\ ClampScore(p.score + 15) \in Int /\ ClampScore(p.score + 40) \in Int
        /\ ClampScore(p.score - 5) \in Int
    BY <1>1, <2>1
  <2>3. /\ Projections(p)["current"] \in Int /\ Projections(p)["days30"] \in Int
        /\ Projections(p)["days90"] \in Int /\ Projections(p)["do_nothing"] \in Int
    BY <2>1, <2>2 DEF Projections
  <2> QED BY <1>3, <1>5, <2>3
<1>7. then.score = Projections(p)[horizon] /\ then.jobs = AccessibleJobs(Projections(p)[horizon])
  BY <1>5 DEF BuildTimepoint
<1> HIDE DEF then
<1>8. ASSUME NEW j \in then.jobs
      PROVE  /\ j \in DOMAIN Industries
             /\ ~Closed(Industries[j], [p EXCEPT !.score = then.score, !.collections = 0])
  BY <1>6, <1>7, JobsAreOpen
<1> QED BY <1>8 DEF then

--------------------------------------------------------------------------------
(* The cycles of Colvin and the phases of King.                              *)

\* A range from one has as many members as its end says.
LEMMA FiniteRange ==
  ASSUME NEW n \in Nat PROVE IsFiniteSet(1 .. n) /\ Cardinality(1 .. n) = n
<1>1. IsFiniteSet(1 .. n) /\ Cardinality(1 .. n) = IF 1 > n THEN 0 ELSE n - 1 + 1
  BY FS_Interval
<1> QED BY <1>1

\* Every kind of item has a basis for the first round and another one for the second.
LEMMA RotationTable ==
  /\ DOMAIN Rotation = ItemTypes
  /\ \A t \in ItemTypes :
       /\ 1 \in DOMAIN Rotation[t] /\ 2 \in DOMAIN Rotation[t] /\ DOMAIN Rotation[t] \subseteq 1 .. 3
       /\ \A r, s \in DOMAIN Rotation[t] : r # s => Rotation[t][r] # Rotation[t][s]
<1>1. DOMAIN Rotation = ItemTypes
  BY DEF Rotation, ItemTypes
<1> DEFINE Fine(b) == /\ 1 \in DOMAIN b /\ 2 \in DOMAIN b /\ DOMAIN b \subseteq 1 .. 3
                       /\ \A r, s \in DOMAIN b : r # s => b[r] # b[s]
<1>2. \A x, y, z : x # y /\ x # z /\ y # z => Fine(<<x, y, z>>)
  <2> SUFFICES ASSUME NEW x, NEW y, NEW z, x # y, x # z, y # z PROVE Fine(<<x, y, z>>)
    OBVIOUS
  <2>1. DOMAIN <<x, y, z>> = {1, 2, 3} /\ <<x, y, z>>[1] = x /\ <<x, y, z>>[2] = y /\ <<x, y, z>>[3] = z
    OBVIOUS
  <2> QED BY <2>1
<1>3. \A x, y : x # y => Fine(<<x, y>>)
  <2> SUFFICES ASSUME NEW x, NEW y, x # y PROVE Fine(<<x, y>>)
    OBVIOUS
  <2>1. DOMAIN <<x, y>> = {1, 2} /\ <<x, y>>[1] = x /\ <<x, y>>[2] = y
    OBVIOUS
  <2> QED BY <2>1
<1> HIDE DEF Fine
<1>4. /\ Fine(Rotation["collection"]) /\ Fine(Rotation["late_payment"])
      /\ Fine(Rotation["charge_off"]) /\ Fine(Rotation["identity_theft"])
      /\ Fine(Rotation["wrong_balance"]) /\ Fine(Rotation["obsolete_item"])
      /\ Fine(Rotation["unauthorized_inquiry"]) /\ Fine(Rotation["dofd_error"])
  BY <1>2, <1>3 DEF Rotation
<1>5. \A t \in ItemTypes : Fine(Rotation[t])
  BY <1>4 DEF ItemTypes
<1> QED BY <1>1, <1>5 DEF Fine

\* A finite number of rounds, item by item, and each of them once.
LEMMA RoundsInOrder ==
  ASSUME NEW items \in Seq(NegativeItems)
  PROVE  \E m \in Nat : \E at \in [1 .. m -> Rounds(items)] :
           /\ \A x \in Rounds(items) : \E k \in 1 .. m : at[k] = x
           /\ BuildCycles(items) = [k \in 1 .. m |-> Cycle(items[at[k][1]], at[k][1], at[k][2])]
<1> DEFINE R == Rounds(items)
           key == [x \in R |-> 3 * x[1] + x[2]]
           B == Ascending(key)
           at == InOrder(R, B)
           m == Cardinality(R)
<1>1. \A x \in R : x[1] \in Nat /\ x[2] \in 1 .. 3 /\ x = <<x[1], x[2]>>
  <2>1. DOMAIN items \subseteq Nat
    OBVIOUS
  <2> QED BY <2>1 DEF Rounds
<1>2. IsFiniteSet(R)
  <2>1. PICK n \in Nat : DOMAIN items = 1 .. n
    BY LenProperties
  <2>2. IsFiniteSet(1 .. n) /\ IsFiniteSet(1 .. 3)
    BY FiniteRange
  <2>3. IsFiniteSet((1 .. n) \X (1 .. 3))
    BY <2>2, FS_Product
  <2>4. R \in SUBSET ((1 .. n) \X (1 .. 3))
    BY <2>1 DEF Rounds
  <2> HIDE DEF R
  <2> QED BY <2>3, <2>4, FS_Subset
<1> HIDE DEF R
<1>3. /\ DOMAIN key = R
      /\ \A x \in R : key[x] = 3 * x[1] + x[2]
  OBVIOUS
<1> HIDE DEF key
<1>4. \A x, y \in R : <<x, y>> \in B <=> key[x] < key[y]
  BY <1>3 DEF Ascending
<1>5. \A x, y \in R : key[x] = key[y] => x = y
  <2> SUFFICES ASSUME NEW x \in R, NEW y \in R, key[x] = key[y] PROVE x = y
    OBVIOUS
  <2>1. 3 * x[1] + x[2] = 3 * y[1] + y[2]
    BY <1>3
  <2>2. PICK i \in Nat, j \in Nat, r \in 1 .. 3, s \in 1 .. 3 :
          i = x[1] /\ r = x[2] /\ j = y[1] /\ s = y[2]
    BY <1>1
  <2>3. 3 * i + r = 3 * j + s
    BY <2>1, <2>2
  <2>4. i = j /\ r = s
    BY <2>3
  <2> QED BY <1>1, <2>2, <2>4
<1>6. \A x \in R : key[x] \in Nat
  BY <1>1, <1>3
<1> HIDE DEF B
<1>7. /\ \A x \in R : <<x, x>> \notin B
      /\ \A x, y \in R : x = y \/ <<x, y>> \in B \/ <<y, x>> \in B
      /\ \A x, y, z \in R : <<x, y>> \in B /\ <<y, z>> \in B => <<x, z>> \in B
  BY <1>4, <1>5, <1>6
<1>8. m \in Nat /\ at \in Bijection(1 .. m, R)
  BY <1>2, <1>7, Enumerated
<1>9. DOMAIN at = 1 .. m
  BY DEF InOrder
<1>10. BuildCycles(items) = [k \in 1 .. m |-> Cycle(items[at[k][1]], at[k][1], at[k][2])]
  BY <1>9 DEF BuildCycles, R, B, key
<1> HIDE DEF at, m
<1>11. at \in [1 .. m -> R] /\ \A x \in R : \E k \in 1 .. m : at[k] = x
  BY <1>8 DEF Bijection, Injection, Surjection
<1> QED BY <1>8, <1>10, <1>11 DEF R

\* Two different members make at least two.
LEMMA TwoMembers ==
  ASSUME NEW S, IsFiniteSet(S), NEW x \in S, NEW y \in S, x # y PROVE Cardinality(S) >= 2
<1>1. IsFiniteSet(S \ {x}) /\ Cardinality(S \ {x}) = Cardinality(S) - 1
  BY FS_RemoveElement
<1>2. Cardinality(S \ {x}) \in Nat /\ Cardinality(S) \in Nat
  BY <1>1, FS_CardinalityType
<1>3. Cardinality(S \ {x}) # 0
  <2>1. S \ {x} # {}
    OBVIOUS
  <2> QED BY <1>1, <2>1, FS_EmptySet
<1> QED BY <1>1, <1>2, <1>3

\* The formats are three.
LEMMA ThreeMembers ==
  LET S == {"prose", "bullets", "numbered"} IN IsFiniteSet(S) /\ Cardinality(S) = 3
<1>1. IsFiniteSet({"prose"}) /\ Cardinality({"prose"}) = 1
  BY FS_Singleton
<1>2. /\ IsFiniteSet({"prose"} \cup {"bullets"}) /\ Cardinality({"prose"} \cup {"bullets"}) = 2
  BY <1>1, FS_AddElement
<1>3. /\ IsFiniteSet(({"prose"} \cup {"bullets"}) \cup {"numbered"})
      /\ Cardinality(({"prose"} \cup {"bullets"}) \cup {"numbered"}) = 3
  BY <1>2, FS_AddElement
<1>4. ({"prose"} \cup {"bullets"}) \cup {"numbered"} = {"prose", "bullets", "numbered"}
  OBVIOUS
<1> QED BY <1>3, <1>4

\* The diversity counts the rounds and the formats there are.
Spread(m, rounds, formats) ==
  IF m <= 1 THEN 18
  ELSE LET share == (6 * formats) \div (IF 3 <= m THEN 3 ELSE m)
       IN  2 * (IF 3 <= rounds THEN 3 ELSE rounds) + 2 * formats + (IF 6 <= share THEN 6 ELSE share)
RoundsOf(cs) == {cs[k].cycle : k \in DOMAIN cs}
FormatsOf(cs) == {cs[k].format : k \in DOMAIN cs}

\* The diversity depends on three numbers: of cycles, of rounds and of formats.
LEMMA DiversityCounts ==
  ASSUME NEW m \in Nat, NEW cs, Len(cs) = m, DOMAIN cs = 1 .. m
  PROVE  \E rounds, formats \in Nat :
           /\ rounds = Cardinality(RoundsOf(cs)) /\ formats = Cardinality(FormatsOf(cs))
           /\ ComputeDiversity(cs) = Spread(m, rounds, formats)
<1> DEFINE A == {cs[k].cycle : k \in 1 .. m}
           F == {cs[k].format : k \in 1 .. m}
<1>1. {c.cycle : c \in Range(cs)} = A /\ {c.format : c \in Range(cs)} = F
  BY DEF Range
<1>2. IsFiniteSet(1 .. m)
  BY FiniteRange
<1>3. IsFiniteSet(A) /\ IsFiniteSet(F)
  <2>1. ASSUME NEW T, NEW f \in [1 .. m -> T], \A t \in T : \E k \in 1 .. m : f[k] = t
        PROVE  IsFiniteSet(T)
    <3>1. f \in Surjection(1 .. m, T)
      BY <2>1 DEF Surjection
    <3> QED BY <1>2, <3>1, FS_Surjection
  <2>2. /\ [k \in 1 .. m |-> cs[k].cycle] \in [1 .. m -> A]
        /\ \A t \in A : \E k \in 1 .. m : [j \in 1 .. m |-> cs[j].cycle][k] = t
    OBVIOUS
  <2>3. /\ [k \in 1 .. m |-> cs[k].format] \in [1 .. m -> F]
        /\ \A t \in F : \E k \in 1 .. m : [j \in 1 .. m |-> cs[j].format][k] = t
    OBVIOUS
  <2> HIDE DEF A, F
  <2> QED BY <2>1, <2>2, <2>3
<1> HIDE DEF A, F
<1>4. PICK a \in Nat, f \in Nat : a = Cardinality(A) /\ f = Cardinality(F)
  BY <1>3, FS_CardinalityType
<1>5. Min({3, a}) = (IF 3 <= a THEN 3 ELSE a) /\ Min({3, m}) = (IF 3 <= m THEN 3 ELSE m)
  BY LeastOfTwo
<1>6. ComputeDiversity(cs) = IF m <= 1 THEN 18
                             ELSE 2 * Min({3, a}) + 2 * f + Min({6, (6 * f) \div Min({3, m})})
  BY <1>1, <1>4 DEF ComputeDiversity
<1> DEFINE share == (6 * f) \div (IF 3 <= m THEN 3 ELSE m)
           low == 2 * (IF 3 <= a THEN 3 ELSE a) + 2 * f + (IF 6 <= share THEN 6 ELSE share)
<1>7. ASSUME ~(m <= 1)
      PROVE  Min({6, share}) = IF 6 <= share THEN 6 ELSE share
  <2>1. PICK q \in Int : q = share
    BY <1>7
  <2>2. Min({6, q}) = IF 6 <= q THEN 6 ELSE q
    BY LeastOfTwo
  <2> QED BY <2>1, <2>2
<1>8. ASSUME ~(m <= 1) PROVE ComputeDiversity(cs) = low
  <2>1. ComputeDiversity(cs) = 2 * Min({3, a}) + 2 * f + Min({6, (6 * f) \div Min({3, m})})
    BY <1>6, <1>8, Zenon
  <2>2. (6 * f) \div Min({3, m}) = share
    BY <1>5, Zenon
  <2> HIDE DEF share
  <2> QED BY <1>5, <1>7, <1>8, <2>1, <2>2, Zenon
<1>9. ComputeDiversity(cs) = Spread(m, a, f)
  <2>1. Spread(m, a, f) = IF m <= 1 THEN 18 ELSE low
    BY Zenon DEF Spread
  <2>2. m <= 1 => ComputeDiversity(cs) = 18
    BY <1>6, Zenon
  <2> HIDE DEF low
  <2> QED BY <1>8, <2>1, <2>2, Zenon
<1>10. A = RoundsOf(cs) /\ F = FormatsOf(cs)
  BY ZenonT(60) DEF A, F, RoundsOf, FormatsOf
<1> QED BY <1>4, <1>9, <1>10

\* The rotation changes nothing but formats, and it happens when the diversity is low.
LEMMA CyclesMade ==
  ASSUME NEW items \in Seq(NegativeItems)
  PROVE  \E m \in Nat : \E at \in [1 .. m -> Rounds(items)] :
           LET cycles == Rotate(BuildCycles(items))
           IN  /\ \A x \in Rounds(items) : \E k \in 1 .. m : at[k] = x
               /\ Len(cycles) = m /\ DOMAIN cycles = 1 .. m
               /\ \A k \in 1 .. m :
                    LET c == Cycle(items[at[k][1]], at[k][1], at[k][2])
                    IN  /\ cycles[k].cycle = c.cycle /\ cycles[k].item = c.item
                        /\ cycles[k].bureau = c.bureau /\ cycles[k].basis = c.basis
                        /\ cycles[k].start = c.start /\ cycles[k].end = c.end
               /\ \/ ComputeDiversity(cycles) > LowDiversity
                  \/ \A k \in 1 .. m : cycles[k].format = Formats[1 + ((k - 1) % 3)]
<1>1. PICK m \in Nat : \E at \in [1 .. m -> Rounds(items)] :
        /\ \A x \in Rounds(items) : \E k \in 1 .. m : at[k] = x
        /\ BuildCycles(items) = [k \in 1 .. m |-> Cycle(items[at[k][1]], at[k][1], at[k][2])]
  BY RoundsInOrder
<1>2. PICK at \in [1 .. m -> Rounds(items)] :
        /\ \A x \in Rounds(items) : \E k \in 1 .. m : at[k] = x
        /\ BuildCycles(items) = [k \in 1 .. m |-> Cycle(items[at[k][1]], at[k][1], at[k][2])]
  BY <1>1
<1> DEFINE C(k) == Cycle(items[at[k][1]], at[k][1], at[k][2])
           built == BuildCycles(items)
           cycles == Rotate(built)
<1>3. DOMAIN built = 1 .. m /\ \A k \in 1 .. m : built[k] = C(k)
  BY <1>2
<1> HIDE DEF built
<1>4. cycles = IF ComputeDiversity(built) <= LowDiversity
               THEN [i \in DOMAIN built |-> [built[i] EXCEPT !.format = Formats[1 + ((i - 1) % 3)]]]
               ELSE built
  BY DEF Rotate
<1>5. DOMAIN cycles = 1 .. m /\ Len(cycles) = m
  <2>1. DOMAIN cycles = 1 .. m
    BY <1>3, <1>4
  <2> HIDE DEF cycles
  <2> QED BY <2>1
<1>6. ASSUME NEW k \in 1 .. m
      PROVE  /\ cycles[k].cycle = C(k).cycle /\ cycles[k].item = C(k).item
             /\ cycles[k].bureau = C(k).bureau /\ cycles[k].basis = C(k).basis
             /\ cycles[k].start = C(k).start /\ cycles[k].end = C(k).end
  <2>1. \/ cycles[k] = C(k)
        \/ cycles[k] = [C(k) EXCEPT !.format = Formats[1 + ((k - 1) % 3)]]
    BY <1>3, <1>4
  <2> HIDE DEF cycles
  <2> QED BY <2>1 DEF Cycle
<1>7. \/ ComputeDiversity(cycles) > LowDiversity
      \/ \A k \in 1 .. m : cycles[k].format = Formats[1 + ((k - 1) % 3)]
  <2>1. CASE ComputeDiversity(built) <= LowDiversity
    <3>1. \A k \in 1 .. m : cycles[k] = [C(k) EXCEPT !.format = Formats[1 + ((k - 1) % 3)]]
      BY <1>3, <1>4, <2>1
    <3> HIDE DEF cycles
    <3>2. \A k \in 1 .. m : cycles[k].format = Formats[1 + ((k - 1) % 3)]
      BY <3>1 DEF Cycle
    <3> QED BY <3>2
  <2>2. CASE ~(ComputeDiversity(built) <= LowDiversity)
    <3>1. cycles = built
      BY <1>4, <2>2
    <3>2. ComputeDiversity(built) \in Int
      <4>1. Len(built) = m
        BY <1>3
      <4>2. PICK a \in Nat, f \in Nat :
              ComputeDiversity(built) = Spread(m, a, f)
        <5>1. DOMAIN built = 1 .. m
          BY <1>3
        <5> QED BY <4>1, <5>1, DiversityCounts
      <4> QED BY <4>2 DEF Spread
    <3> QED BY <2>2, <3>1, <3>2 DEF LowDiversity
  <2> QED BY <2>1, <2>2
<1> HIDE DEF cycles
<1> QED BY <1>2, <1>5, <1>6, <1>7 DEF cycles, built

\* What the rounds of the items of a profile are: the rounds 1 and 2 of each, and at most three.
LEMMA RoundsThere ==
  ASSUME NEW items \in Seq(NegativeItems)
  PROVE  /\ \A x \in Rounds(items) :
              /\ x[1] \in DOMAIN items /\ x[2] \in 1 .. 3 /\ x = <<x[1], x[2]>>
              /\ items[x[1]].type \in ItemTypes /\ x[2] \in DOMAIN Rotation[items[x[1]].type]
         /\ \A i \in DOMAIN items : <<i, 1>> \in Rounds(items) /\ <<i, 2>> \in Rounds(items)
<1>1. \A i \in DOMAIN items : items[i].type \in ItemTypes
  <2>1. \A i \in DOMAIN items : items[i] \in NegativeItems
    OBVIOUS
  <2> QED BY <2>1 DEF NegativeItems
<1>2. \A i \in DOMAIN items : 1 \in DOMAIN Rotation[items[i].type] /\ 2 \in DOMAIN Rotation[items[i].type]
  BY <1>1, RotationTable
<1>3. \A x \in Rounds(items) :
        /\ x[1] \in DOMAIN items /\ x[2] \in 1 .. 3 /\ x = <<x[1], x[2]>>
        /\ x[2] \in DOMAIN Rotation[items[x[1]].type]
  BY DEF Rounds
<1>4. \A i \in DOMAIN items : <<i, 1>> \in Rounds(items) /\ <<i, 2>> \in Rounds(items)
  BY <1>2 DEF Rounds
<1> QED BY <1>1, <1>3, <1>4

\* Whatever the profile, the diversity of its cycles is not low in the end.
LEMMA DiversityKept ==
  ASSUME NEW items \in Seq(NegativeItems)
  PROVE  ComputeDiversity(Rotate(BuildCycles(items))) > LowDiversity
<1> DEFINE cycles == Rotate(BuildCycles(items))
<1>1. PICK m \in Nat : \E at \in [1 .. m -> Rounds(items)] :
        /\ \A x \in Rounds(items) : \E k \in 1 .. m : at[k] = x
        /\ Len(cycles) = m /\ DOMAIN cycles = 1 .. m
        /\ \A k \in 1 .. m : cycles[k].cycle = Cycle(items[at[k][1]], at[k][1], at[k][2]).cycle
        /\ \/ ComputeDiversity(cycles) > LowDiversity
           \/ \A k \in 1 .. m : cycles[k].format = Formats[1 + ((k - 1) % 3)]
  BY CyclesMade
<1>2. PICK at \in [1 .. m -> Rounds(items)] :
        /\ \A x \in Rounds(items) : \E k \in 1 .. m : at[k] = x
        /\ Len(cycles) = m /\ DOMAIN cycles = 1 .. m
        /\ \A k \in 1 .. m : cycles[k].cycle = Cycle(items[at[k][1]], at[k][1], at[k][2]).cycle
        /\ \/ ComputeDiversity(cycles) > LowDiversity
           \/ \A k \in 1 .. m : cycles[k].format = Formats[1 + ((k - 1) % 3)]
  BY <1>1
<1> HIDE DEF cycles
<1>3. \A k \in 1 .. m : cycles[k].cycle = at[k][2]
  BY <1>2 DEF Cycle
<1> SUFFICES ASSUME \A k \in 1 .. m : cycles[k].format = Formats[1 + ((k - 1) % 3)]
             PROVE  ComputeDiversity(cycles) > LowDiversity
  BY <1>2 DEF cycles
<1> DEFINE A == {cycles[k].cycle : k \in 1 .. m}
           F == {cycles[k].format : k \in 1 .. m}
<1>4. PICK a \in Nat, f \in Nat :
        /\ a = Cardinality(A) /\ f = Cardinality(F)
        /\ ComputeDiversity(cycles) = Spread(m, a, f)
  <2>1. Len(cycles) = m /\ DOMAIN cycles = 1 .. m
    BY <1>2
  <2>2. A = RoundsOf(cycles) /\ F = FormatsOf(cycles)
    BY <2>1 DEF RoundsOf, FormatsOf
  <2> HIDE DEF A, F
  <2> QED BY <2>1, <2>2, DiversityCounts
<1>5. CASE m <= 1
  BY <1>4, <1>5 DEF LowDiversity, Spread
<1>6. CASE m > 1
  <2>1. 1 \in A /\ 2 \in A
    <3>1. at[1] \in Rounds(items)
      BY <1>6
    <3>2. PICK i \in DOMAIN items : i = at[1][1]
      BY <3>1, RoundsThere
    <3>3. <<i, 1>> \in Rounds(items) /\ <<i, 2>> \in Rounds(items)
      BY RoundsThere
    <3>4. PICK k \in 1 .. m, l \in 1 .. m : at[k] = <<i, 1>> /\ at[l] = <<i, 2>>
      BY <1>2, <3>3
    <3> QED BY <1>3, <3>4
  <2>2. A \in SUBSET (1 .. 3)
    <3>1. \A k \in 1 .. m : at[k][2] \in 1 .. 3
      BY RoundsThere
    <3> QED BY <1>3, <3>1
  <2>3. /\ Formats[1] = "prose" /\ Formats[2] = "bullets" /\ Formats[3] = "numbered"
    BY DEF Formats
  <2>4. "prose" \in F /\ "bullets" \in F
    <3>1. cycles[1].format = Formats[1 + ((1 - 1) % 3)] /\ cycles[2].format = Formats[1 + ((2 - 1) % 3)]
      BY <1>6
    <3>2. 1 + ((1 - 1) % 3) = 1 /\ 1 + ((2 - 1) % 3) = 2 /\ 1 \in 1 .. m /\ 2 \in 1 .. m
      BY <1>6
    <3>3. cycles[1].format = "prose" /\ cycles[2].format = "bullets"
      BY <2>3, <3>1, <3>2
    <3> QED BY <3>2, <3>3
  <2>5. m >= 3 => "numbered" \in F
    <3> SUFFICES ASSUME m >= 3 PROVE "numbered" \in F
      OBVIOUS
    <3>1. 1 + ((3 - 1) % 3) = 3 /\ 3 \in 1 .. m
      OBVIOUS
    <3>2. cycles[3].format = "numbered"
      BY <2>3, <3>1
    <3> QED BY <3>1, <3>2
  <2>6. F \in SUBSET {"prose", "bullets", "numbered"}
    <3>1. \A k \in 1 .. m : 1 + ((k - 1) % 3) \in 1 .. 3
      OBVIOUS
    <3>2. \A j \in 1 .. 3 : Formats[j] \in {"prose", "bullets", "numbered"}
      BY <2>3
    <3>3. \A k \in 1 .. m : Formats[1 + ((k - 1) % 3)] \in {"prose", "bullets", "numbered"}
      BY <3>1, <3>2
    <3> QED BY <3>3
  <2> HIDE DEF A, F
  <2>7. a >= 2
    <3>1. IsFiniteSet(1 .. 3)
      BY FiniteRange
    <3>2. IsFiniteSet(A)
      BY <2>2, <3>1, FS_Subset
    <3> QED BY <1>4, <2>1, <3>2, TwoMembers
  <2>8. IsFiniteSet(F)
    <3>1. IsFiniteSet({"prose", "bullets", "numbered"})
      BY ThreeMembers
    <3> QED BY <2>6, <3>1, FS_Subset
  <2>9. f >= 2
    BY <1>4, <2>4, <2>8, TwoMembers
  <2>10. m >= 3 => f = 3
    <3> SUFFICES ASSUME m >= 3 PROVE f = 3
      OBVIOUS
    <3>1. F = {"prose", "bullets", "numbered"}
      BY <2>4, <2>5, <2>6
    <3> QED BY <1>4, <3>1, ThreeMembers
  <2>11. CASE m = 2
    <3>1. (6 * f) \div 2 >= 6
      BY <2>9
    <3> QED BY <1>4, <2>7, <2>9, <2>11, <3>1 DEF LowDiversity, Spread
  <2>12. CASE m >= 3
    BY <1>4, <2>7, <2>10, <2>12 DEF LowDiversity, Spread
  <2> QED BY <1>6, <2>11, <2>12
<1> QED BY <1>5, <1>6

\* A cycle is the round of an item.
LEMMA CycleOf ==
  ASSUME NEW items \in Seq(NegativeItems)
  PROVE  LET cycles == Rotate(BuildCycles(items))
         IN  /\ \A c \in Range(cycles) : \E x \in Rounds(items) :
                  LET made == Cycle(items[x[1]], x[1], x[2])
                  IN  /\ c.cycle = made.cycle /\ c.item = made.item /\ c.bureau = made.bureau
                      /\ c.basis = made.basis /\ c.start = made.start /\ c.end = made.end
             /\ \A x \in Rounds(items) : \E c \in Range(cycles) :
                  c.cycle = x[2] /\ c.basis = Rotation[items[x[1]].type][x[2]]
<1> DEFINE cycles == Rotate(BuildCycles(items))
           Made(x) == Cycle(items[x[1]], x[1], x[2])
<1>1. PICK m \in Nat : \E at \in [1 .. m -> Rounds(items)] :
        /\ \A x \in Rounds(items) : \E k \in 1 .. m : at[k] = x
        /\ DOMAIN cycles = 1 .. m
        /\ \A k \in 1 .. m :
             /\ cycles[k].cycle = Made(at[k]).cycle /\ cycles[k].item = Made(at[k]).item
             /\ cycles[k].bureau = Made(at[k]).bureau /\ cycles[k].basis = Made(at[k]).basis
             /\ cycles[k].start = Made(at[k]).start /\ cycles[k].end = Made(at[k]).end
  BY CyclesMade
<1>2. PICK at \in [1 .. m -> Rounds(items)] :
        /\ \A x \in Rounds(items) : \E k \in 1 .. m : at[k] = x
        /\ DOMAIN cycles = 1 .. m
        /\ \A k \in 1 .. m :
             /\ cycles[k].cycle = Made(at[k]).cycle /\ cycles[k].item = Made(at[k]).item
             /\ cycles[k].bureau = Made(at[k]).bureau /\ cycles[k].basis = Made(at[k]).basis
             /\ cycles[k].start = Made(at[k]).start /\ cycles[k].end = Made(at[k]).end
  BY <1>1
<1> HIDE DEF cycles
<1>3. \A c \in Range(cycles) : \E x \in Rounds(items) :
        /\ c.cycle = Made(x).cycle /\ c.item = Made(x).item /\ c.bureau = Made(x).bureau
        /\ c.basis = Made(x).basis /\ c.start = Made(x).start /\ c.end = Made(x).end
  <2> SUFFICES ASSUME NEW c \in Range(cycles)
               PROVE  \E x \in Rounds(items) :
                        /\ c.cycle = Made(x).cycle /\ c.item = Made(x).item /\ c.bureau = Made(x).bureau
                        /\ c.basis = Made(x).basis /\ c.start = Made(x).start /\ c.end = Made(x).end
    OBVIOUS
  <2>1. PICK k \in 1 .. m : c = cycles[k]
    BY <1>2 DEF Range
  <2>2. at[k] \in Rounds(items)
    OBVIOUS
  <2> HIDE DEF Made
  <2> QED BY <1>2, <2>1, <2>2
<1>4. ASSUME NEW x \in Rounds(items)
      PROVE  \E c \in Range(cycles) : c.cycle = x[2] /\ c.basis = Rotation[items[x[1]].type][x[2]]
  <2>1. PICK k \in 1 .. m : at[k] = x
    BY <1>2
  <2>2. cycles[k] \in Range(cycles)
    BY <1>2 DEF Range
  <2>3. cycles[k].cycle = Made(x).cycle /\ cycles[k].basis = Made(x).basis
    BY <1>2, <2>1
  <2> QED BY <2>2, <2>3 DEF Cycle
<1> QED BY <1>3, <1>4 DEF cycles

\* A later round of an item goes to another bureau, on another basis, after the earlier one.
LEMMA RoundsFollow ==
  ASSUME NEW items \in Seq(NegativeItems),
         NEW c \in Range(Rotate(BuildCycles(items))), NEW d \in Range(Rotate(BuildCycles(items))),
         c.item = d.item, c.cycle < d.cycle
  PROVE  c.bureau # d.bureau /\ c.basis # d.basis /\ c.end < d.start
<1> DEFINE Made(x) == Cycle(items[x[1]], x[1], x[2])
<1>1. PICK x \in Rounds(items) :
        /\ c.cycle = Made(x).cycle /\ c.item = Made(x).item /\ c.bureau = Made(x).bureau
        /\ c.basis = Made(x).basis /\ c.start = Made(x).start /\ c.end = Made(x).end
  BY CycleOf
<1>2. PICK y \in Rounds(items) :
        /\ d.cycle = Made(y).cycle /\ d.item = Made(y).item /\ d.bureau = Made(y).bureau
        /\ d.basis = Made(y).basis /\ d.start = Made(y).start /\ d.end = Made(y).end
  BY CycleOf
<1>3. \A z \in Rounds(items) :
        /\ Made(z).cycle = z[2] /\ Made(z).item = z[1]
        /\ Made(z).bureau = Bureaus[1 + ((z[1] + z[2] - 2) % 3)]
        /\ Made(z).basis = Rotation[items[z[1]].type][z[2]]
        /\ Made(z).start = (z[2] - 1) * 40 /\ Made(z).end = z[2] * 40 - 1
  BY DEF Cycle, CycleDays
<1> HIDE DEF Made
<1>4. x[1] = y[1] /\ x[2] < y[2]
  BY <1>1, <1>2, <1>3
<1>5. PICK i \in Nat, r \in 1 .. 3, s \in 1 .. 3 : x[1] = i /\ y[1] = i /\ x[2] = r /\ y[2] = s /\ r < s
  <2>1. x[1] \in DOMAIN items /\ DOMAIN items \subseteq Nat /\ x[2] \in 1 .. 3 /\ y[2] \in 1 .. 3
    BY RoundsThere
  <2> QED BY <1>4, <2>1
<1>6. c.bureau # d.bureau
  <2>1. Bureaus[1] # Bureaus[2] /\ Bureaus[1] # Bureaus[3] /\ Bureaus[2] # Bureaus[3]
    BY DEF Bureaus
  <2>2. PICK k \in 1 .. 3, l \in 1 .. 3 : k = 1 + ((i + r - 2) % 3) /\ l = 1 + ((i + s - 2) % 3) /\ k # l
    BY <1>5
  <2>3. Bureaus[k] # Bureaus[l]
    BY <2>1, <2>2
  <2>4. c.bureau = Bureaus[k] /\ d.bureau = Bureaus[l]
    BY <1>1, <1>2, <1>3, <1>5, <2>2
  <2> QED BY <2>3, <2>4
<1>7. c.basis # d.basis
  <2>1. c.basis = Rotation[items[i].type][r] /\ d.basis = Rotation[items[i].type][s]
    BY <1>1, <1>2, <1>3, <1>5
  <2>2. items[i].type \in ItemTypes /\ r \in DOMAIN Rotation[items[i].type] /\ s \in DOMAIN Rotation[items[i].type]
    BY <1>5, RoundsThere
  <2> QED BY <1>5, <2>1, <2>2, RotationTable
<1>8. c.end < d.start
  <2>1. c.end = r * 40 - 1 /\ d.start = (s - 1) * 40
    BY <1>1, <1>2, <1>3, <1>5
  <2> QED BY <1>5, <2>1
<1> QED BY <1>6, <1>7, <1>8

\* King takes up every item once.
LEMMA ItemsSorted ==
  ASSUME NEW p \in CreditProfiles
  PROVE  \E n \in Nat : \E order \in [1 .. n -> 1 .. n] :
           /\ DOMAIN p.items = 1 .. n /\ DOMAIN SortedItems(p) = 1 .. n
           /\ \A k \in 1 .. n : SortedItems(p)[k] = p.items[order[k]]
           /\ \A i \in 1 .. n : \E k \in 1 .. n : order[k] = i
<1> DEFINE key == [i \in DOMAIN p.items |-> ITEM_PRIORITY[p.items[i].type]]
<1>1. p.items \in Seq(NegativeItems)
  BY DEF CreditProfiles
<1>2. PICK n \in Nat : DOMAIN p.items = 1 .. n
  BY <1>1, LenProperties
<1>3. \A t \in ItemTypes : ITEM_PRIORITY[t] \in Nat
  BY DEF ITEM_PRIORITY, ItemTypes
<1>4. \A i \in 1 .. n : p.items[i].type \in ItemTypes
  <2>1. \A i \in 1 .. n : p.items[i] \in NegativeItems
    BY <1>1, <1>2
  <2> QED BY <2>1 DEF NegativeItems
<1>5. key \in [1 .. n -> Nat]
  BY <1>2, <1>3, <1>4
<1>6. SortedItems(p) = SortedBy(p.items, key)
  BY DEF SortedItems
<1> HIDE DEF key
<1>7. PICK order \in Bijection(1 .. n, 1 .. n) :
        /\ SortedBy(p.items, key) = [k \in 1 .. n |-> p.items[order[k]]]
        /\ \A k, l \in 1 .. n : k < l => Precedes(key, order[k], order[l])
  BY <1>2, <1>5, SortedOrder, Zenon
<1>8. order \in [1 .. n -> 1 .. n] /\ \A i \in 1 .. n : \E k \in 1 .. n : order[k] = i
  BY DEF Bijection, Injection, Surjection
<1>9. /\ DOMAIN SortedItems(p) = 1 .. n
      /\ \A k \in 1 .. n : SortedItems(p)[k] = p.items[order[k]]
  BY <1>6, <1>7
<1> QED BY <1>2, <1>8, <1>9

\* The positions that are kept of a list are in order: all of them are kept as they are.
LEMMA AllPositions ==
  ASSUME NEW n \in Nat PROVE Positions(1 .. n) = [k \in 1 .. n |-> k]
<1> DEFINE B == Ascending([i \in 1 .. n |-> i])
           Lower(k) == {j \in 1 .. n : <<j, k>> \in B}
<1>1. \A j, k \in 1 .. n : <<j, k>> \in B <=> j < k
  BY DEF Ascending
<1> HIDE DEF B
<1>2. Cardinality(1 .. n) = n
  BY FiniteRange
<1>3. ASSUME NEW k \in 1 .. n PROVE Cardinality(Lower(k)) = k - 1
  <2>1. Lower(k) = 1 .. k - 1
    BY <1>1
  <2>2. k - 1 \in Nat
    OBVIOUS
  <2>3. Cardinality(1 .. k - 1) = k - 1
    BY <2>2, FiniteRange
  <2> HIDE DEF Lower
  <2> QED BY <2>1, <2>3
<1>4. Positions(1 .. n) = [k \in 1 .. n |-> CHOOSE x \in 1 .. n : Cardinality(Lower(x)) = k - 1]
  BY <1>2 DEF Positions, InOrder, B
<1> HIDE DEF Lower
<1>5. ASSUME NEW k \in 1 .. n PROVE (CHOOSE x \in 1 .. n : Cardinality(Lower(x)) = k - 1) = k
  <2>1. \E x \in 1 .. n : Cardinality(Lower(x)) = k - 1
    BY <1>3
  <2>2. PICK y \in 1 .. n : /\ y = (CHOOSE x \in 1 .. n : Cardinality(Lower(x)) = k - 1)
                            /\ Cardinality(Lower(y)) = k - 1
    BY <2>1
  <2>3. y - 1 = k - 1
    BY <1>3, <2>2
  <2> QED BY <2>2, <2>3
<1> QED BY <1>4, <1>5

TakesUp(p, phases, n, order) ==
  /\ DOMAIN p.items = 1 .. n /\ DOMAIN phases[1].steps = 1 .. n
  /\ \A i \in 1 .. n : \E k \in 1 .. n : order[k] = i
  /\ \A k \in 1 .. n :
       /\ phases[1].steps[k].basis = Rotation[p.items[order[k]].type][1]
       /\ phases[2].steps[k].basis = Rotation[p.items[order[k]].type][2]

\* The first two phases of King take up the same item at the same place, on its first and
\* on its second basis.
LEMMA PhasesTakeUp ==
  ASSUME NEW p \in CreditProfiles, NEW doors
  PROVE  \E n \in Nat : \E order \in [1 .. n -> 1 .. n] : TakesUp(p, King(p, doors, {}).phases, n, order)
<1>1. PICK n \in Nat : \E order \in [1 .. n -> 1 .. n] :
        /\ DOMAIN p.items = 1 .. n /\ DOMAIN SortedItems(p) = 1 .. n
        /\ \A k \in 1 .. n : SortedItems(p)[k] = p.items[order[k]]
        /\ \A i \in 1 .. n : \E k \in 1 .. n : order[k] = i
  BY ItemsSorted
<1>2. PICK order \in [1 .. n -> 1 .. n] :
        /\ DOMAIN p.items = 1 .. n /\ DOMAIN SortedItems(p) = 1 .. n
        /\ \A k \in 1 .. n : SortedItems(p)[k] = p.items[order[k]]
        /\ \A i \in 1 .. n : \E k \in 1 .. n : order[k] = i
  BY <1>1
<1>3. King(p, doors, {}).phases[1].steps = Phase1(p) /\ King(p, doors, {}).phases[2].steps = Phase2(p, {})
  BY DEF King
<1>4. DOMAIN Phase1(p) = 1 .. n /\ \A k \in 1 .. n : Phase1(p)[k].basis = Rotation[p.items[order[k]].type][1]
  BY <1>2 DEF Phase1, StepFor
<1>5. Phase2(p, {}) = [k \in 1 .. n |-> StepFor(SortedItems(p)[k], 2, "furnisher")]
  <2>1. {i \in DOMAIN SortedItems(p) : ~ Blocked(SortedItems(p)[i], {})} = 1 .. n
    BY <1>2 DEF Blocked
  <2>2. Positions({i \in DOMAIN SortedItems(p) : ~ Blocked(SortedItems(p)[i], {})}) = [k \in 1 .. n |-> k]
    BY <2>1, AllPositions
  <2> QED BY <2>2 DEF Phase2
<1>6. \A k \in 1 .. n : Phase2(p, {})[k].basis = Rotation[p.items[order[k]].type][2]
  <2>1. \A k \in 1 .. n : Phase2(p, {})[k] = StepFor(SortedItems(p)[k], 2, "furnisher")
    BY <1>5
  <2>2. \A k \in 1 .. n : StepFor(SortedItems(p)[k], 2, "furnisher").basis = Rotation[SortedItems(p)[k].type][2]
    BY DEF StepFor
  <2>3. \A k \in 1 .. n : SortedItems(p)[k] = p.items[order[k]]
    BY <1>2
  <2> QED BY <2>1, <2>2, <2>3, ZenonT(60)
<1> DEFINE phases == King(p, doors, {}).phases
<1>7. /\ DOMAIN phases[1].steps = 1 .. n
      /\ \A k \in 1 .. n :
           /\ phases[1].steps[k].basis = Rotation[p.items[order[k]].type][1]
           /\ phases[2].steps[k].basis = Rotation[p.items[order[k]].type][2]
  BY <1>3, <1>4, <1>6
<1> HIDE DEF phases
<1>8. TakesUp(p, phases, n, order)
  BY <1>2, <1>7 DEF TakesUp
<1> QED BY <1>8 DEF phases

\* The cycles start on the bases of King's first phase, and the second phase has others.
LEMMA BasesAgree ==
  ASSUME NEW p \in CreditProfiles, NEW doors
  PROVE  LET cycles == Range(Rotate(BuildCycles(p.items)))
             phases == King(p, doors, {}).phases
         IN  /\ \A i \in DOMAIN p.items : phases[1].steps[i].basis # phases[2].steps[i].basis
             /\ {c.basis : c \in {d \in cycles : d.cycle = 1}} = {s.basis : s \in Range(phases[1].steps)}
<1> DEFINE cycles == Range(Rotate(BuildCycles(p.items)))
           phases == King(p, doors, {}).phases
           first == phases[1].steps
           Basis(i, r) == Rotation[p.items[i].type][r]
<1>1. p.items \in Seq(NegativeItems)
  BY DEF CreditProfiles
<1>2. PICK n \in Nat : \E order \in [1 .. n -> 1 .. n] : TakesUp(p, phases, n, order)
  BY PhasesTakeUp
<1>2a. PICK order \in [1 .. n -> 1 .. n] : TakesUp(p, phases, n, order)
  BY <1>2
<1>3. /\ DOMAIN p.items = 1 .. n /\ DOMAIN first = 1 .. n
      /\ \A i \in 1 .. n : \E k \in 1 .. n : order[k] = i
      /\ \A k \in 1 .. n : first[k].basis = Basis(order[k], 1) /\ phases[2].steps[k].basis = Basis(order[k], 2)
  BY <1>2a DEF TakesUp
<1>4. \A i \in 1 .. n : Basis(i, 1) # Basis(i, 2)
  <2>1. \A i \in 1 .. n : p.items[i].type \in ItemTypes
    <3>1. \A i \in 1 .. n : p.items[i] \in NegativeItems
      BY <1>1, <1>3
    <3> QED BY <3>1 DEF NegativeItems
  <2> QED BY <2>1, RotationTable
<1>5. \A x \in Rounds(p.items) : x[1] \in 1 .. n
  BY <1>1, <1>3, RoundsThere
<1>6. \A c \in cycles : \E x \in Rounds(p.items) : c.cycle = x[2] /\ c.basis = Basis(x[1], x[2])
  BY <1>1, CycleOf DEF Cycle
<1>7. \A i \in 1 .. n : \E c \in cycles : c.cycle = 1 /\ c.basis = Basis(i, 1)
  <2> TAKE i \in 1 .. n
  <2>1. <<i, 1>> \in Rounds(p.items)
    BY <1>1, <1>3, RoundsThere
  <2> QED BY <1>1, <2>1, CycleOf
<1> HIDE DEF cycles, first, phases, Basis
<1>8. \A b : b \in {c.basis : c \in {d \in cycles : d.cycle = 1}} <=> \E i \in 1 .. n : b = Basis(i, 1)
  <2>1. ASSUME NEW c \in cycles, c.cycle = 1 PROVE \E i \in 1 .. n : c.basis = Basis(i, 1)
    <3>1. PICK x \in Rounds(p.items) : c.cycle = x[2] /\ c.basis = Basis(x[1], x[2])
      BY <1>6
    <3> QED BY <1>5, <2>1, <3>1
  <2>2. ASSUME NEW i \in 1 .. n PROVE \E c \in {d \in cycles : d.cycle = 1} : c.basis = Basis(i, 1)
    BY <1>7
  <2> QED BY <2>1, <2>2
<1>9. \A b : b \in {s.basis : s \in Range(first)} <=> \E i \in 1 .. n : b = Basis(i, 1)
  <2>1. \A s : s \in Range(first) <=> \E k \in 1 .. n : s = first[k]
    BY <1>3 DEF Range
  <2>2. ASSUME NEW s \in Range(first) PROVE \E i \in 1 .. n : s.basis = Basis(i, 1)
    <3>1. PICK k \in 1 .. n : s = first[k]
      BY <2>1
    <3> QED BY <1>3, <3>1
  <2>3. ASSUME NEW i \in 1 .. n PROVE \E s \in Range(first) : s.basis = Basis(i, 1)
    <3>1. PICK k \in 1 .. n : order[k] = i
      BY <1>3
    <3>2. first[k] \in Range(first) /\ first[k].basis = Basis(i, 1)
      BY <1>3, <2>1, <3>1
    <3> QED BY <3>2
  <2> QED BY <2>2, <2>3
<1>10. {c.basis : c \in {d \in cycles : d.cycle = 1}} = {s.basis : s \in Range(first)}
  BY <1>8, <1>9
<1>11. \A i \in DOMAIN p.items : first[i].basis # phases[2].steps[i].basis
  <2> SUFFICES ASSUME NEW i \in 1 .. n PROVE first[i].basis # phases[2].steps[i].basis
    BY <1>3
  <2>1. order[i] \in 1 .. n
    OBVIOUS
  <2>2. first[i].basis = Basis(order[i], 1) /\ phases[2].steps[i].basis = Basis(order[i], 2)
    BY <1>3
  <2>3. Basis(order[i], 1) # Basis(order[i], 2)
    BY <1>4, <2>1
  <2> QED BY <2>2, <2>3
<1> QED BY <1>10, <1>11 DEF cycles, first, phases

--------------------------------------------------------------------------------
(* Tubman, Truth and Gray.                                                   *)

\* What two accounts differ in does not depend on which of them is looked at first.
LEMMA BalancesCompared ==
  ASSUME NEW a \in BureauAccounts, NEW b \in BureauAccounts, NEW ba, NEW bb
  PROVE  BalanceMismatch(a, b, ba, bb) = BalanceMismatch(b, a, bb, ba)
<1>1. PICK x \in Nat \cup {NoValue}, y \in Nat \cup {NoValue} : x = a.balance /\ y = b.balance
  BY DEF BureauAccounts
<1>2. Entries(a, b, ba, bb) = Entries(b, a, bb, ba)
  BY DEF Entries
<1>3. CASE NoValue \in {x, y}
  BY <1>1, <1>3 DEF BalanceMismatch
<1>4. CASE x \in Nat /\ y \in Nat /\ NoValue \notin {x, y}
  <2>1. Distance(x, y) = Distance(y, x) /\ MaxOf(x, y) = MaxOf(y, x)
    BY <1>4 DEF Distance, MaxOf
  <2>2. CASE /\ Distance(x, y) <= 100
             /\ 100 * Distance(x, y) <= 5 * MaxOf(1, MaxOf(x, y))
    BY <1>1, <1>4, <2>1, <2>2 DEF BalanceMismatch
  <2>3. CASE ~ (/\ Distance(x, y) <= 100
                /\ 100 * Distance(x, y) <= 5 * MaxOf(1, MaxOf(x, y)))
    <3>1. x # y
      <4> SUFFICES ASSUME x = y PROVE FALSE
        OBVIOUS
      <4>1. Distance(x, y) = 0 /\ MaxOf(1, MaxOf(x, y)) \in Nat
        BY <1>4 DEF Distance, MaxOf
      <4>2. PICK m \in Nat : m = MaxOf(1, MaxOf(x, y))
        BY <4>1
      <4> QED BY <2>3, <4>1, <4>2
    <3>2. (IF x > y THEN ba ELSE bb) = (IF y > x THEN bb ELSE ba)
      BY <1>4, <3>1
    <3>3. /\ BalanceMismatch(a, b, ba, bb) =
               {Discrepancy("balance_mismatch", Entries(a, b, ba, bb), "balance", "high",
                            IF x > y THEN ba ELSE bb)}
          /\ BalanceMismatch(b, a, bb, ba) =
               {Discrepancy("balance_mismatch", Entries(b, a, bb, ba), "balance", "high",
                            IF y > x THEN bb ELSE ba)}
      <4>1. NoValue \notin {x, y} /\ NoValue \notin {y, x}
        BY <1>4
      <4>2. ~ (/\ Distance(y, x) <= 100
               /\ 100 * Distance(y, x) <= 5 * MaxOf(1, MaxOf(y, x)))
        BY <2>1, <2>3, Zenon
      <4> QED BY <1>1, <2>3, <4>1, <4>2, Zenon DEF BalanceMismatch
    <3> QED BY <1>2, <3>2, <3>3, Zenon
  <2> QED BY <2>2, <2>3
<1> QED BY <1>1, <1>3, <1>4

\* A date that differs is the same finding from either side.
LEMMA DatesCompared ==
  ASSUME NEW a \in BureauAccounts, NEW b \in BureauAccounts, NEW ba, NEW bb, NEW f \in DOMAIN DateFields
  PROVE  DateDiscrepancy(a, b, ba, bb, f) = DateDiscrepancy(b, a, bb, ba, f)
<1>1. PICK x \in Int \cup {NoValue, BadDate}, y \in Int \cup {NoValue, BadDate} : x = a[f] /\ y = b[f]
  <2>1. f \in {"opened", "dofd"}
    BY DEF DateFields
  <2>2. /\ a["opened"] \in Int \cup {NoValue, BadDate} /\ a["dofd"] \in Int \cup {NoValue, BadDate}
        /\ b["opened"] \in Int \cup {NoValue, BadDate} /\ b["dofd"] \in Int \cup {NoValue, BadDate}
    BY DEF BureauAccounts
  <2> QED BY <2>1, <2>2
<1>2. Entries(a, b, ba, bb) = Entries(b, a, bb, ba)
  BY DEF Entries
<1> DEFINE At(entries, bureau) ==
             {Discrepancy("date_discrepancy", entries, f, DateFields[f], bureau)}
           Found(u, v, entries, bu, bv) ==
             IF u = NoValue /\ v = NoValue THEN {}
             ELSE IF NoValue \in {u, v} THEN At(entries, IF u # NoValue THEN bu ELSE bv)
             ELSE IF BadDate \in {u, v} \/ Distance(u, v) <= 31 THEN {}
             ELSE At(entries, IF u > v THEN bu ELSE bv)
<1>3. /\ DateDiscrepancy(a, b, ba, bb, f) = Found(x, y, Entries(a, b, ba, bb), ba, bb)
      /\ DateDiscrepancy(b, a, bb, ba, f) = Found(y, x, Entries(a, b, ba, bb), bb, ba)
  BY <1>1, <1>2, Zenon DEF DateDiscrepancy
<1> HIDE DEF At
<1>4. \A entries : Found(x, y, entries, ba, bb) = Found(y, x, entries, bb, ba)
  <2> TAKE entries
  <2>1. CASE NoValue \in {x, y} \/ BadDate \in {x, y}
    BY <2>1
  <2>2. CASE NoValue \notin {x, y} /\ BadDate \notin {x, y}
    <3>1. x \in Int /\ y \in Int
      BY <2>2
    <3>2. Distance(x, y) = Distance(y, x) /\ (x = y => Distance(x, y) <= 31)
      BY <3>1 DEF Distance
    <3>3. ~(Distance(x, y) <= 31) => (IF x > y THEN ba ELSE bb) = (IF y > x THEN bb ELSE ba)
      BY <3>1, <3>2
    <3> QED BY <2>2, <3>2, <3>3
  <2> QED BY <2>1, <2>2
<1> QED BY <1>3, <1>4

\* Two accounts that differ are the same findings from either side.
LEMMA PairCompared ==
  ASSUME NEW a \in BureauAccounts, NEW b \in BureauAccounts, NEW ba, NEW bb
  PROVE  CompareMatchedPair(a, b, ba, bb) = CompareMatchedPair(b, a, bb, ba)
<1>1. BalanceMismatch(a, b, ba, bb) = BalanceMismatch(b, a, bb, ba)
  BY BalancesCompared
<1>2. \A f \in DOMAIN DateFields : DateDiscrepancy(a, b, ba, bb, f) = DateDiscrepancy(b, a, bb, ba, f)
  BY DatesCompared
<1>3. UNION {DateDiscrepancy(a, b, ba, bb, f) : f \in DOMAIN DateFields}
        = UNION {DateDiscrepancy(b, a, bb, ba, f) : f \in DOMAIN DateFields}
  BY <1>2
<1> QED BY <1>1, <1>3 DEF CompareMatchedPair

\* n reports whose accounts can be read, and the same reports the other way round.
ReportsReadable(R, n) ==
  /\ Len(R) = n
  /\ \A i \in 1 .. n : Range(R[i].accounts) \subseteq BureauAccounts
  /\ \A i, j \in 1 .. n : \A a \in Range(R[i].accounts), b \in Range(R[j].accounts) :
       a.last4 = b.last4 => a.full = b.full
Turned(T, R, n) == \A i \in 1 .. n : T[i] = R[n + 1 - i]

\* A matched pair of one order of the reports is one of the other.
LEMMA TurnedScan ==
  ASSUME NEW n \in Nat, NEW R, NEW T, ReportsReadable(R, n), Len(T) = n, Turned(T, R, n)
  PROVE  AccountDiscrepancies(R) \subseteq AccountDiscrepancies(T)
<1> SUFFICES ASSUME NEW x \in AccountDiscrepancies(R) PROVE x \in AccountDiscrepancies(T)
  OBVIOUS
<1>1. PICK m \in MatchedPairs(R) :
        x \in CompareMatchedPair(m[3], m[4], R[m[1]].bureau, R[m[2]].bureau)
  BY DEF AccountDiscrepancies
<1>1a. PICK pair \in Pairs(n) :
         m \in {<<pair[1], pair[2], a, b>> : a \in Range(R[pair[1]].accounts), b \in Range(R[pair[2]].accounts)}
  BY <1>1 DEF MatchedPairs, Matched, ReportsReadable
<1>2. PICK a \in Range(R[pair[1]].accounts), b \in Range(R[pair[2]].accounts) :
        m = <<pair[1], pair[2], a, b>>
  BY <1>1a
<1>3. PICK i \in 1 .. n, j \in 1 .. n : pair[1] = i /\ pair[2] = j /\ i < j
  BY <1>2 DEF Pairs
<1>4. AccountsMatch(a, b)
  BY <1>1, <1>2 DEF MatchedPairs
<1>5. a \in BureauAccounts /\ b \in BureauAccounts
  BY <1>2, <1>3 DEF ReportsReadable
<1>6. AccountsMatch(b, a)
  <2>1. a.last4 = b.last4 => a.full = b.full
    BY <1>2, <1>3 DEF ReportsReadable
  <2> QED BY <1>4, <2>1 DEF AccountsMatch
<1>7. PICK k \in 1 .. n, l \in 1 .. n : k = n + 1 - j /\ l = n + 1 - i /\ k < l
  BY <1>3
<1>8. T[k] = R[j] /\ T[l] = R[i]
  <2>1. T[k] = R[n + 1 - k] /\ T[l] = R[n + 1 - l]
    BY <1>7 DEF Turned
  <2>2. n + 1 - k = j /\ n + 1 - l = i
    BY <1>3, <1>7
  <2> QED BY <2>1, <2>2
<1>9. <<k, l, b, a>> \in MatchedPairs(T)
  <2>1. <<k, l>> \in Pairs(n)
    BY <1>7 DEF Pairs
  <2>2. b \in Range(T[k].accounts) /\ a \in Range(T[l].accounts)
    BY <1>2, <1>3, <1>8
  <2>3. <<k, l, b, a>> \in Matched(T)
    BY <2>1, <2>2 DEF Matched
  <2> QED BY <1>6, <2>3 DEF MatchedPairs
<1>10. x \in CompareMatchedPair(b, a, T[k].bureau, T[l].bureau)
  <2>1. x \in CompareMatchedPair(a, b, R[i].bureau, R[j].bureau)
    BY <1>1, <1>2, <1>3
  <2> QED BY <1>5, <1>8, <2>1, PairCompared
<1> QED BY <1>9, <1>10 DEF AccountDiscrepancies

\* The scan of the reports in reverse order finds the same.
LEMMA ScanTurns ==
  ASSUME NEW R, ValidReports(R)
  PROVE  LET n == Len(R)
             T == [i \in 1 .. n |-> R[n + 1 - i]]
         IN  AccountDiscrepancies(R) = AccountDiscrepancies(T)
<1> DEFINE n == Len(R)
           T == [i \in 1 .. n |-> R[n + 1 - i]]
<1>1. n \in Nat /\ DOMAIN R = 1 .. n
  BY LenProperties DEF ValidReports
<1> HIDE DEF n
<1>2. ReportsReadable(R, n)
  <2>1. ASSUME NEW i \in 1 .. n PROVE Range(R[i].accounts) \subseteq BureauAccounts
    <3>1. R[i] \in BureauReports
      BY <1>1 DEF ValidReports
    <3>2. R[i].accounts \in Seq(BureauAccounts)
      BY <3>1 DEF BureauReports
    <3> QED BY <3>2 DEF Range
  <2>2. \A i, j \in 1 .. n : \A a \in Range(R[i].accounts), b \in Range(R[j].accounts) :
          a.last4 = b.last4 => a.full = b.full
    <3>1. \A i, j \in DOMAIN R : \A a \in Range(R[i].accounts), b \in Range(R[j].accounts) :
            a.last4 = b.last4 => a.full = b.full
      BY DEF ValidReports
    <3> QED BY <1>1, <3>1
  <2> QED BY <2>1, <2>2 DEF ReportsReadable, n
<1>3. Len(T) = n /\ \A i \in 1 .. n : T[i] = R[n + 1 - i]
  BY <1>1
<1> HIDE DEF T
<1>4. Turned(T, R, n) /\ Turned(R, T, n)
  <2>1. ASSUME NEW i \in 1 .. n PROVE R[i] = T[n + 1 - i]
    <3>1. PICK j \in 1 .. n : j = n + 1 - i /\ n + 1 - j = i
      BY <1>1
    <3> QED BY <1>3, <3>1
  <2> QED BY <1>3, <2>1 DEF Turned
<1>5. ReportsReadable(T, n)
  <2>1. ASSUME NEW i \in 1 .. n PROVE \E j \in 1 .. n : T[i] = R[j]
    <3>1. n + 1 - i \in 1 .. n
      BY <1>1
    <3> QED BY <1>3, <3>1
  <2>2. ASSUME NEW i \in 1 .. n, NEW j \in 1 .. n,
               NEW a \in Range(T[i].accounts), NEW b \in Range(T[j].accounts), a.last4 = b.last4
        PROVE  a.full = b.full
    <3>1. PICK k \in 1 .. n, l \in 1 .. n : T[i] = R[k] /\ T[j] = R[l]
      BY <2>1
    <3>2. a \in Range(R[k].accounts) /\ b \in Range(R[l].accounts)
      BY <3>1
    <3> QED BY <1>2, <2>2, <3>2 DEF ReportsReadable
  <2>3. ASSUME NEW i \in 1 .. n PROVE Range(T[i].accounts) \subseteq BureauAccounts
    <3>1. PICK k \in 1 .. n : T[i] = R[k]
      BY <2>1
    <3> QED BY <1>2, <3>1 DEF ReportsReadable
  <2> QED BY <1>3, <2>2, <2>3 DEF ReportsReadable
<1>6. AccountDiscrepancies(R) \subseteq AccountDiscrepancies(T)
  BY <1>1, <1>2, <1>3, <1>4, TurnedScan
<1>7. Len(R) = n
  BY DEF n
<1>8. AccountDiscrepancies(T) \subseteq AccountDiscrepancies(R)
  BY <1>1, <1>4, <1>5, <1>7, TurnedScan
<1> QED BY <1>6, <1>8 DEF T, n

\* A text that fails is told why, unless it has so many words that the rounding hides it.
LEMMA TextAdvised ==
  ASSUME NEW text, ValidText(text)
  PROVE  /\ Truth(text).passes => Truth(text).recommendations = {}
         /\ ~ Truth(text).passes /\ Truth(text).words < 1019 => Truth(text).recommendations # {}
<1>1. PICK w \in Nat, c \in Nat : w = text.words /\ c = text.citations
  BY DEF ValidText
<1>2. RatioHigh(text) /\ text.words < 1019 => RoundedRatioHigh(text)
  <2>1. w > 0 /\ 20 * c > w /\ w < 1019 => 20000 * c > 1001 * w
    BY <1>1
  <2> QED BY <1>1, <2>1 DEF RatioHigh, RoundedRatioHigh
<1>3. /\ Truth(text).passes = Passes(text) /\ Truth(text).words = text.words
      /\ Truth(text).recommendations = Recommendations(text)
  BY DEF Truth
<1>4. Passes(text) => Recommendations(text) = {}
  BY DEF Passes, Recommendations
<1>5. ~ Passes(text) /\ text.words < 1019 => Recommendations(text) # {}
  <2> SUFFICES ASSUME ~ Passes(text), text.words < 1019, Recommendations(text) = {} PROVE FALSE
    OBVIOUS
  <2>1. text.banned = {} /\ ~ EoscarHardened(text)
    BY DEF Passes, Recommendations
  <2>2. Specific(text) /\ ~ text.flagged /\ ~ RoundedRatioHigh(text)
    BY <2>1 DEF Recommendations
  <2> QED BY <1>2, <2>1, <2>2 DEF EoscarHardened
<1> QED BY <1>3, <1>4, <1>5

\* One more notice takes violations away, and adds none.
LEMMA NoticeTaken ==
  ASSUME NEW d \in Denials, d.type \in DOMAIN RequiredNotices
  PROVE  /\ \A n : Violations([d EXCEPT !.notices = @ \cup {n}]) \subseteq Gray(d).violations
         /\ Gray(d).has_violations <=> \E n \in RequiredNotices[d.type] :
                                         /\ n \notin d.notices
                                         /\ n \in ScoreNotices => d.notices \cap ScoreNotices = {}
<1>1. Gray(d).violations = Violations(d) /\ (Gray(d).has_violations <=> Violations(d) # {})
  BY DEF Gray
<1>2. Violations(d) = {n \in RequiredNotices[d.type] : ~ NoticeMatches(n, d.notices)}
  BY DEF Violations
<1>3. ASSUME NEW n
      PROVE  Violations([d EXCEPT !.notices = @ \cup {n}]) \subseteq Violations(d)
  <2>1. PICK e : e = [d EXCEPT !.notices = @ \cup {n}]
    OBVIOUS
  <2>2. e.type = d.type /\ e.notices = d.notices \cup {n}
    BY <2>1 DEF Denials
  <2>3. Violations(e) = {r \in RequiredNotices[d.type] : ~ NoticeMatches(r, d.notices \cup {n})}
    BY <2>2 DEF Violations
  <2>4. \A r : NoticeMatches(r, d.notices) => NoticeMatches(r, d.notices \cup {n})
    BY DEF NoticeMatches
  <2> QED BY <1>2, <2>1, <2>3, <2>4
<1>4. Violations(d) # {} <=> \E n \in RequiredNotices[d.type] :
                               /\ n \notin d.notices
                               /\ n \in ScoreNotices => d.notices \cap ScoreNotices = {}
  BY <1>2 DEF NoticeMatches
<1> QED BY <1>1, <1>3, <1>4

--------------------------------------------------------------------------------
(* The plan that is put together.                                            *)

\* The agents of a request that answered gave one of the answers there are.
LEMMA AnswerFound ==
  ASSUME LibInv, NEW a, Answered(a) PROVE a \in DOMAIN results /\ results[a] \in Answers(a)
BY DEF LibInv, Answered

\* What the request of a plan is made of.
LEMMA PlanAccepted ==
  ASSUME LibInv
  PROVE  /\ P \in CreditProfiles /\ ValidReports(request.reports)
         /\ Answered("gray") => request.denial \in Denials
         /\ P.score \in Scores /\ P.items \in Seq(NegativeItems)
<1>1. request \in Plans
  BY DEF LibInv
<1>2. ValidCreditProfile(P) /\ ValidReports(request.reports)
  BY <1>1, LiberationAssumption DEF P
<1>3. Answered("gray") => request.denial # NoValue
  <2> SUFFICES ASSUME Answered("gray") PROVE request.denial # NoValue
    OBVIOUS
  <2>1. "gray" \in DOMAIN results
    BY DEF Answered
  <2>2. PICK i \in 1 .. Len(chain) : Pipeline[i] = "gray"
    BY <2>1 DEF LibInv
  <2>3. i \in 1 .. Len(Pipeline)
    <3>1. Len(chain) \in Nat /\ Len(Pipeline) \in Nat /\ Len(chain) <= Len(Pipeline)
      BY LenProperties, PipelineNames DEF LibInv
    <3> QED BY <3>1
  <2> QED BY <2>2, <2>3, PipelineNames
<1>4. request.denial = NoValue \/ request.denial \in Denials
  BY <1>1, LiberationAssumption
<1>5. P.score \in Scores /\ P.items \in Seq(NegativeItems) /\ P \in CreditProfiles
  BY <1>2, Accepted
<1> QED BY <1>2, <1>3, <1>4, <1>5

\* The doors keep their promise, and King's target is Parks's cheapest one.
LEMMA DoorsAgree == ASSUME LibInv PROVE DoorsOpen /\ KingTargetsCheapestDoor
<1>1. P \in CreditProfiles
  BY PlanAccepted
<1>2. Answered("parks") => results["parks"] = Parks(P, request.targets)
  <2>1. Answers("parks") = {Parks(P, request.targets)}
    BY DEF Answers, P
  <2> QED BY <2>1, AnswerFound
<1>3. Answered("parks") => /\ results["parks"].cheapest_door = CheapestDoor(P, BuildDoors(P))
                           /\ results["parks"].doors_analysis = BuildDoors(P)
  BY <1>2 DEF Parks
<1>4. DoorsOpen
  BY <1>1, <1>3, CheapestDoorOpens DEF DoorsOpen
<1>5. ASSUME Answered("king")
      PROVE  results["king"].phases[3].actions.unlock
               = IF Answered("parks") THEN results["parks"].cheapest_door.threshold ELSE 0
  <2>1. Answers("king") = {King(P, results["parks"].doors_analysis, {})}
    BY DEF Answers, P
  <2>2. results["king"] = King(P, results["parks"].doors_analysis, {})
    BY <1>5, <2>1, AnswerFound
  <2>3. results["king"].phases[3].actions = Phase3(P, results["parks"].doors_analysis)
    <3>1. \A x, y, z : <<x, y, z>>[3] = z
      OBVIOUS
    <3>2. King(P, results["parks"].doors_analysis, {}).phases[3] =
            [name |-> "Credit Building", actions |-> Phase3(P, results["parks"].doors_analysis), days |-> 90]
      BY <3>1 DEF King
    <3>3. \A x : [name |-> "Credit Building", actions |-> x, days |-> 90].actions = x
      OBVIOUS
    <3> QED BY <2>2, <3>2, <3>3, ZenonT(60)
  <2>4. "parks" \in DOMAIN results
    <3>1. "king" \in DOMAIN results
      BY <1>5 DEF Answered
    <3>2. PICK i \in 1 .. Len(chain) : Pipeline[i] = "king"
      BY <3>1 DEF LibInv
    <3>3. Len(chain) \in Nat
      BY LenProperties DEF LibInv
    <3>4. 1 \in 1 .. Len(chain) /\ Pipeline[1] = "parks"
      BY <3>2, <3>3, PipelineNames DEF EveryRequest
    <3> QED BY <3>4 DEF LibInv
  <2>5. CASE Answered("parks")
    BY <1>3, <2>3, <2>5, SameDoor
  <2>6. CASE ~ Answered("parks")
    <3>1. "parks" \in fallbacks
      BY <2>4, <2>6 DEF Answered
    <3>2. results["parks"] = Fallback("parks")
      BY <3>1 DEF LibInv
    <3>3. Fallback("parks").doors_analysis = <<>>
      BY DEF Fallback
    <3> QED BY <2>3, <2>6, <3>2, <3>3, SameDoor
  <2> QED BY <2>5, <2>6
<1> QED BY <1>4, <1>5 DEF KingTargetsCheapestDoor

\* Parks, Phantom and Lewis agree on the industries.
LEMMA JobsAgree == ASSUME LibInv PROVE AgentsAgreeOnJobs
<1>1. P \in CreditProfiles
  BY PlanAccepted
<1>2. \A i \in DOMAIN Industries : Closed(Industries[i], P) <=> IsBlocked(i, P)
  BY <1>1, SameIndustries
<1>3. Answered("lewis") => results["lewis"] = Lewis(P)
  <2>1. Answers("lewis") = {Lewis(P)}
    BY DEF Answers, P
  <2> QED BY <2>1, AnswerFound
<1>4. ASSUME Answered("lewis"), NEW horizon \in DOMAIN results["lewis"].projections
      PROVE  LET then == results["lewis"].projections[horizon]
             IN  \A j \in then.jobs :
                   ~ Closed(Industries[j], [P EXCEPT !.score = then.score, !.collections = 0])
  BY <1>1, <1>3, <1>4, HorizonsAreOpen
<1> QED BY <1>2, <1>4 DEF AgentsAgreeOnJobs

\* The tax is in range and falls with the score.
LEMMA TaxesFall == ASSUME LibInv PROVE TaxInRangeAndMonotone
<1>1. P \in CreditProfiles /\ P.score \in Scores
  BY PlanAccepted
<1>2. ASSUME "phantom" \in DOMAIN results PROVE ValidTax(results["phantom"].total_annual_tax)
  <2>1. CASE "phantom" \in fallbacks
    <3>1. results["phantom"] = Fallback("phantom")
      BY <2>1 DEF LibInv
    <3>2. Fallback("phantom").total_annual_tax = 3500
      BY DEF Fallback
    <3> QED BY <3>1, <3>2 DEF ValidTax
  <2>2. CASE "phantom" \notin fallbacks
    <3>1. Answers("phantom") = {Phantom(P, "healthcare_cna")}
      BY DEF Answers, P
    <3>2. results["phantom"] = Phantom(P, "healthcare_cna")
      BY <1>2, <2>2, <3>1, AnswerFound DEF Answered
    <3>3. "healthcare_cna" \in DOMAIN Industries
      BY DEF Industries
    <3>4. ValidTax(Phantom(P, "healthcare_cna").total_annual_tax)
      <4>1. PICK s \in Scores : s = P.score /\ P.score <= s
        BY <1>1, InScores
      <4> QED BY <1>1, <3>3, <4>1, TaxFalls
    <3> QED BY <3>2, <3>4
  <2> QED BY <2>1, <2>2
<1>3. ASSUME NEW industry \in DOMAIN Industries, NEW k \in DOMAIN Thresholds, Thresholds[k] > P.score
      PROVE  LET later == Phantom([P EXCEPT !.score = Thresholds[k]], industry).total_annual_tax
             IN  ValidTax(later) /\ later <= Phantom(P, industry).total_annual_tax
  <2>1. Thresholds[k] \in Scores /\ P.score <= Thresholds[k]
    <3>1. Thresholds[k] \in Int /\ Thresholds[k] <= 850
      BY ThresholdTable
    <3>2. P.score \in Int /\ 300 <= P.score
      BY <1>1, InScores
    <3>3. 300 <= Thresholds[k] /\ P.score <= Thresholds[k]
      BY <1>3, <3>1, <3>2
    <3> QED BY <3>1, <3>3, InScores
  <2> QED BY <1>1, <2>1, TaxFalls
<1> QED BY <1>2, <1>3 DEF TaxInRangeAndMonotone

\* The disputes of a plan do not repeat themselves.
LEMMA CyclesDiffer == ASSUME LibInv PROVE CyclesVary
<1>1. P \in CreditProfiles /\ P.items \in Seq(NegativeItems)
  BY PlanAccepted
<1> DEFINE made == Rotate(BuildCycles(P.items))
<1>2. Answered("colvin") =>
        results["colvin"].attack_cycles = made /\ results["colvin"].diversity = ComputeDiversity(made)
  <2>1. Answers("colvin") = {Colvin(P)}
    BY DEF Answers, P
  <2>2. Answered("colvin") => results["colvin"] = Colvin(P)
    BY <2>1, AnswerFound
  <2> QED BY <2>2 DEF Colvin
<1>3. PICK doors : Answered("king") => results["king"] = King(P, doors, {})
  <2>1. Answers("king") = {King(P, results["parks"].doors_analysis, {})}
    BY DEF Answers, P
  <2> QED BY <2>1, AnswerFound
<1>4. ComputeDiversity(made) > LowDiversity
  BY <1>1, DiversityKept
<1>5. \A c, d \in Range(made) :
        c.item = d.item /\ c.cycle < d.cycle => /\ c.bureau # d.bureau /\ c.basis # d.basis
                                               /\ c.end < d.start
  BY <1>1, RoundsFollow
<1>6. LET phases == King(P, doors, {}).phases
      IN  /\ \A i \in DOMAIN P.items : phases[1].steps[i].basis # phases[2].steps[i].basis
          /\ {c.basis : c \in {d \in Range(made) : d.cycle = 1}} = {s.basis : s \in Range(phases[1].steps)}
  BY <1>1, BasesAgree
<1> HIDE DEF made
<1> QED BY <1>2, <1>3, <1>4, <1>5, <1>6 DEF CyclesVary

\* The scan does not depend on the order of the reports.
LEMMA ScanAgrees == ASSUME LibInv PROVE ScanIsSymmetric
<1>1. ValidReports(request.reports)
  BY PlanAccepted
<1> QED BY <1>1, ScanTurns DEF ScanIsSymmetric

\* A verdict of Truth and its advice agree.
LEMMA TruthAgrees == ASSUME LibInv PROVE TruthExplains
<1>1. ASSUME Answered("truth") PROVE \E text \in Texts : results["truth"] = Truth(text)
  <2>1. Answers("truth") = {Truth(text) : text \in Texts}
    BY DEF Answers
  <2> QED BY <1>1, <2>1, AnswerFound
<1> QED BY <1>1, TextAdvised, LiberationAssumption DEF TruthExplains

\* A further notice never adds a violation.
LEMMA NoticesAgree == ASSUME LibInv PROVE NoticesHelp
<1>1. Answered("gray") => request.denial \in Denials /\ results["gray"] = Gray(request.denial)
  <2>1. Answers("gray") = {Gray(request.denial)}
    BY DEF Answers
  <2> QED BY <2>1, AnswerFound, PlanAccepted
<1> QED BY <1>1, NoticeTaken DEF NoticesHelp

(* The plan that is put together from the agents of a request is coherent,   *)
(* whatever they fall back to (agents/*.py).                                 *)
THEOREM PlanCorrect == LibSpec => []PlanCoherent
<1>1. LibInv => PlanCoherent
  BY DoorsAgree, JobsAgree, TaxesFall, CyclesDiffer, ScanAgrees, TruthAgrees, NoticesAgree
     DEF PlanCoherent, LibInv
<1> QED BY <1>1, LibStart, LibStep, PTL DEF LibSpec

--------------------------------------------------------------------------------
(* All services side by side.                                                *)

\* A step of all the services is a step or a stutter of each.
LEMMA ServicesSteps ==
  ASSUME [Next]_servicesVars
  PROVE  /\ [SimNext]_simVars /\ [LettersNext]_letterVars /\ [LibNext]_libVars
         /\ [BillingNext]_billingVars /\ [WebhooksNext]_hookVars /\ [AccessNext]_accessVars
         /\ [FlagsNext]_flagVars /\ [Night]_backupVars
<1>1. CASE UNCHANGED servicesVars
  BY <1>1 DEF servicesVars
<1>2. CASE Simulate
  BY <1>2 DEF Simulate
<1>3. CASE WriteLetters
  BY <1>3 DEF WriteLetters
<1>4. CASE Liberate
  BY <1>4 DEF Liberate
<1>5. CASE Bill
  BY <1>5 DEF Bill
<1>6. CASE Hook
  BY <1>6 DEF Hook
<1>7. CASE Administer
  BY <1>7 DEF Administer
<1>8. CASE SetFlags
  BY <1>8 DEF SetFlags
<1>9. CASE BackUp
  BY <1>9 DEF BackUp
<1> QED
  BY <1>1, <1>2, <1>3, <1>4, <1>5, <1>6, <1>7, <1>8, <1>9 DEF Next

(* Side by side, the services behave as each does alone: a step of the       *)
(* whole is a step of one specification and a stutter of the others, and     *)
(* the deliveries of webhooks are as fair as in their own.                   *)
THEOREM ServicesImplement ==
  Spec => /\ SimSpec /\ LettersSpec /\ LibSpec /\ BackupsSpec
          /\ BillingSpec /\ WebhooksSpec /\ AccessSpec /\ FlagsSpec
<1>1. Init => /\ SimInit /\ LettersInit /\ LibInit /\ BackupsInit
              /\ BillingInit /\ WebhooksInit /\ AccessInit /\ FlagsInit
  BY DEF Init
<1> QED
  BY <1>1, ServicesSteps, PTL
     DEF Spec, SimSpec, LettersSpec, LibSpec, BackupsSpec, BillingSpec, WebhooksSpec,
         AccessSpec, FlagsSpec

(* What each service promises alone it promises among the others, but for    *)
(* the end of the deliveries.                                                *)
THEOREM ServicesCorrect ==
  Spec => /\ []AssessmentCoherent /\ []ProjectionSound /\ []LettersSound /\ []PlanCoherent
          /\ []CopiesNeedTheirPeriod
          /\ BillingSound /\ AccessSound /\ FlagsSound
          /\ []RecordsMatchLog /\ []WholeAndSigned /\ OnlyOwnerRemoves
BY ServicesImplement, AssessmentCorrect, SimulationCorrect, LettersCorrect, PlanCorrect, BackupsCorrect,
   BillingCorrect, AccessCorrect, FlagsCorrect, RecordsCorrect, SigningCorrect, RemovalCorrect, PTL
================================================================================
