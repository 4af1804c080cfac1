---------------------------- MODULE DisputeProofs ----------------------------
(***************************************************************************)
(* Proofs about Dispute for any number of disputes, callers and requests   *)
(* in flight.                                                              *)
(***************************************************************************)
EXTENDS Dispute, TLAPS

(* A row that exists, as every handler may find it. *)
Lived(row) ==
    /\ Stamped(row)
    /\ row.sentAt # None => row.sentAt <= clock
    /\ \/ row.status \in {"responded", "resolved", "escalated"}
       \/ row.round > 1
       => row.respondedAt # None
    /\ row.status = "absent" => row.sentAt = None

(* What a stored row keeps of a row that was loaded earlier. *)
Follows(stored, loaded) ==
    /\ stored.status # "absent"
    /\ stored.user = loaded.user
    /\ stored.kind = loaded.kind
    /\ loaded.status # "draft" => stored.status # "draft"
    /\ loaded.sentAt # None => stored.sentAt # None
    /\ loaded.respondedAt # None => stored.respondedAt # None

(* A request that has loaded its row. *)
Loaded(r) ==
    /\ seen[r].status # "absent"
    /\ Lived(seen[r])
    /\ Follows(rows[req[r].dispute], seen[r])

(* A request about to write has passed the check on the row it loaded. *)
Checked(r) ==
    /\ req[r].status \in ValidTransitions[seen[r].status]
    /\ \E now \in Nat : /\ now <= clock
                        /\ seen[r].sentAt # None => seen[r].sentAt <= now
                        /\ pend[r] = Transitioned(seen[r], req[r], now)

IInv == /\ TypeOK
        /\ \A d \in Disputes : Lived(rows[d])
        /\ \A r \in Requests : pc[r] \in {"check", "commit"} => Loaded(r)
        /\ \A r \in Requests : pc[r] = "commit" => Checked(r)

-----------------------------------------------------------------------------
(* Days are added to days. *)
LEMMA DeadlineType ==
    ASSUME NEW row \in Row
    PROVE  DeadlineDays(row) \in Nat
BY DaysAssumption DEF DeadlineDays

(* The fields of the assigned row, one by one. *)
LEMMA TransitionedFields ==
    ASSUME NEW row \in Row, NEW body, NEW now
    PROVE  LET t == Transitioned(row, body, now) IN
           /\ t.status = body.status
           /\ t.sentAt = IF body.status = "sent" THEN now ELSE row.sentAt
           /\ t.deadlineAt = IF body.status = "sent"
                             THEN now + DeadlineDays(row) ELSE row.deadlineAt
           /\ t.round = IF body.status = "sent" /\ row.status = "escalated"
                        THEN row.round + 1 ELSE row.round
           /\ t.respondedAt = IF body.status = "responded"
                              THEN now ELSE row.respondedAt
           /\ t.resolution = IF body.resolution # None
                             THEN body.resolution ELSE row.resolution
           /\ t.user = row.user
           /\ t.kind = row.kind
BY DEF Transitioned, Row

(* The assignments of update_status keep a row a row. *)
LEMMA TransitionedType ==
    ASSUME NEW row \in Row, NEW body \in Bodies, NEW now \in Nat
    PROVE  Transitioned(row, body, now) \in Row
<1> DEFINE t == Transitioned(row, body, now)
<1>1. DOMAIN t = DOMAIN row
      /\ t = [f \in DOMAIN row |-> t[f]]
  BY DEF Transitioned
<1>2. /\ t.status \in Statuses
      /\ t.round \in Nat
      /\ t.sentAt \in Times /\ t.deadlineAt \in Times /\ t.respondedAt \in Times
      /\ t.resolution \in Resolutions \cup {None}
      /\ t.user \in Users \cup {None}
      /\ t.kind \in Kinds
  BY DeadlineType, TransitionedFields DEF Row, Bodies, Times
<1>3. DOMAIN row = {"status", "round", "sentAt", "deadlineAt", "respondedAt",
                    "resolution", "user", "kind"}
  BY DEF Row
<1> SUFFICES t \in Row
  OBVIOUS
<1> HIDE DEF t
<1> QED BY <1>1, <1>2, <1>3 DEF Row

(* The UPDATE keeps a row a row. *)
LEMMA FlushedType ==
    ASSUME NEW old \in Row, NEW new \in Row, NEW stored \in Row
    PROVE  Flushed(old, new, stored) \in Row
BY DEF Flushed, Column, Row

(* The UPDATE of a checked transition leaves a row that keeps every promise
   about the past, and follows both the row it replaced and whatever that row
   followed. *)
LEMMA FlushedLived ==
    ASSUME NEW stored \in Row, NEW old \in Row, NEW body \in Bodies,
           NEW now \in Nat, clock \in Nat, now <= clock,
           Lived(stored), Lived(old), Follows(stored, old),
           old.status # "absent",
           body.status \in ValidTransitions[old.status]
    PROVE  LET row == Flushed(old, Transitioned(old, body, now), stored)
           IN  Lived(row) /\ Follows(row, stored)
<1> DEFINE t == Transitioned(old, body, now)
           row == Flushed(old, t, stored)
<1>1. t \in Row
  BY TransitionedType
<1>2. row \in Row
  BY <1>1, FlushedType
<1>3. DeadlineDays(row) = DeadlineDays(stored)
      /\ DeadlineDays(old) = DeadlineDays(stored)
      /\ DeadlineDays(stored) \in Nat
  BY DeadlineType DEF DeadlineDays, Flushed, Follows
<1>4. body.status # "draft" /\ body.status # "absent" /\ body.status \in Statuses
  BY DEF Bodies, Statuses, ValidTransitions, Row
<1>5. row.status = IF body.status # old.status THEN body.status ELSE stored.status
  BY TransitionedFields DEF Flushed, Column
<1>6. body.status # old.status
  BY DEF ValidTransitions, Row, Statuses
<1>7. row.status = body.status
  BY <1>5, <1>6
<1>8. body.status # "sent" => old.status # "draft" /\ stored.sentAt # None
  BY DEF ValidTransitions, Row, Statuses, Lived, Stamped, Follows
<1>9. /\ row.sentAt = IF body.status = "sent" /\ now # old.sentAt
                      THEN now ELSE stored.sentAt
      /\ row.deadlineAt = IF body.status = "sent"
                             /\ now + DeadlineDays(old) # old.deadlineAt
                          THEN now + DeadlineDays(old) ELSE stored.deadlineAt
  BY TransitionedFields DEF Flushed, Column
<1>10. body.status = "sent"
       => (now = old.sentAt <=> now + DeadlineDays(old) = old.deadlineAt)
  BY <1>3, NoneAssumption DEF Lived, Stamped, Row, Times
<1>11. row.sentAt # None /\ row.sentAt <= clock
       /\ row.deadlineAt # None /\ row.deadlineAt = row.sentAt + DeadlineDays(row)
  <2>1. CASE body.status = "sent" /\ now # old.sentAt
    BY <2>1, <1>3, <1>9, <1>10, NoneAssumption
  <2>2. CASE body.status = "sent" /\ now = old.sentAt
    BY <2>2, <1>3, <1>9, <1>10, NoneAssumption DEF Lived, Stamped, Follows
  <2>3. CASE body.status # "sent"
    BY <2>3, <1>3, <1>8, <1>9 DEF Lived, Stamped
  <2> QED BY <2>1, <2>2, <2>3
<1>12. row.respondedAt = IF body.status = "responded" /\ now # old.respondedAt
                         THEN now ELSE stored.respondedAt
  BY TransitionedFields DEF Flushed, Column
<1>13. row.round = IF body.status = "sent" /\ old.status = "escalated"
                   THEN old.round + 1 ELSE stored.round
  BY TransitionedFields DEF Flushed, Column, Row
<1>14. stored.respondedAt # None => row.respondedAt # None
  BY <1>12, NoneAssumption
<1>15. row.status \in {"responded", "resolved", "escalated"} \/ row.round > 1
       => row.respondedAt # None
  <2>1. CASE body.status = "responded"
    BY <2>1, <1>12, NoneAssumption DEF Follows
  <2>2. CASE body.status \in {"resolved", "escalated"}
    <3>1. old.status = "responded"
      BY <2>2 DEF ValidTransitions, Row, Statuses
    <3> QED BY <3>1, <1>14 DEF Lived, Follows
  <2>3. CASE body.status = "sent" /\ old.status = "escalated"
    BY <2>3, <1>14 DEF Lived, Follows
  <2>4. CASE body.status \notin {"responded", "resolved", "escalated"}
             /\ ~(body.status = "sent" /\ old.status = "escalated")
    BY <2>4, <1>7, <1>13, <1>14 DEF Lived
  <2> QED BY <2>1, <2>2, <2>3, <2>4
<1>16. row.user = stored.user /\ row.kind = stored.kind
  BY DEF Flushed
<1>17. Lived(row)
  BY <1>4, <1>7, <1>11, <1>15 DEF Lived, Stamped
<1>18. Follows(row, stored)
  BY <1>4, <1>7, <1>11, <1>14, <1>16 DEF Follows
<1> QED BY <1>17, <1>18

(* Following is transitive. *)
LEMMA FollowsTransitive ==
    ASSUME NEW a, NEW b, NEW c, Follows(a, b), Follows(b, c)
    PROVE  Follows(a, c)
BY DEF Follows

-----------------------------------------------------------------------------
LEMMA Typing == TypeOK /\ [Next]_vars => TypeOK'
<1> SUFFICES ASSUME TypeOK, [Next]_vars PROVE TypeOK'
  OBVIOUS
<1> USE DEF TypeOK
<1>0. NoRow \in Row
  BY DEF NoRow, Row, Times, Kinds
<1>1. ASSUME NEW d \in Disputes, NEW user \in Users, NEW kind \in Kinds,
             Create(d, user, kind)
      PROVE  TypeOK'
  <2>1. [NoRow EXCEPT !.status = "draft", !.round = 1, !.user = user,
                      !.kind = kind] \in Row
    BY DEF NoRow, Row, Times, Statuses
  <2> QED BY <1>1, <2>1 DEF Create
<1>2. ASSUME NEW r \in Requests, NEW body \in Bodies, Receive(r, body)
      PROVE  TypeOK'
  BY <1>2 DEF Receive
<1>3. ASSUME NEW r \in Requests, Get(r)
      PROVE  TypeOK'
  BY <1>0, <1>3 DEF Get, Answer, Codes, Bodies
<1>4. ASSUME NEW r \in Requests, Check(r)
      PROVE  TypeOK'
  <2>1. Transitioned(seen[r], req[r], clock) \in Row
    BY <1>4, TransitionedType DEF Check
  <2> QED BY <1>0, <1>4, <2>1 DEF Check, Answer, Codes
<1>5. ASSUME NEW r \in Requests, Commit(r)
      PROVE  TypeOK'
  <2>1. Flushed(seen[r], pend[r], rows[req[r].dispute]) \in Row
    BY <1>5, FlushedType DEF Commit, Bodies
  <2> QED BY <1>5, <2>1 DEF Commit
<1>6. ASSUME NEW r \in Requests, Refresh(r)
      PROVE  TypeOK'
  BY <1>0, <1>6 DEF Refresh, Answer, Codes
<1>7. ASSUME NEW r \in Requests, Fail(r)
      PROVE  TypeOK'
  BY <1>0, <1>7 DEF Fail, Answer, Codes
<1>8. CASE Tick
  BY <1>8 DEF Tick
<1>9. CASE UNCHANGED vars
  BY <1>9 DEF vars
<1> QED BY <1>1, <1>2, <1>3, <1>4, <1>5, <1>6, <1>7, <1>8, <1>9 DEF Next, Step

(* A step that writes no row and leaves r where it was, or takes it out of
   its transaction, keeps what is known of r. *)
LEMMA Untouched ==
    ASSUME IInv, TypeOK', UNCHANGED <<rows, clock>>,
           \A r \in Requests :
               \/ pc'[r] \notin {"check", "commit"}
               \/ UNCHANGED <<pc[r], req[r], seen[r], pend[r]>>
    PROVE  IInv'
BY DEF IInv, Lived, Loaded, Checked, Follows

LEMMA Invariance == IInv /\ [Next]_vars => IInv'
<1> SUFFICES ASSUME IInv, [Next]_vars PROVE IInv'
  OBVIOUS
<1>0. TypeOK /\ TypeOK'
  BY Typing DEF IInv
<1>1. ASSUME NEW d \in Disputes, NEW user \in Users, NEW kind \in Kinds,
             Create(d, user, kind)
      PROVE  IInv'
  <2>1. \A e \in Disputes : Lived(rows[e])'
    BY <1>0, <1>1, NoneAssumption DEF Create, NoRow, Lived, Stamped, IInv, TypeOK
  <2>2. ASSUME NEW r \in Requests, pc'[r] \in {"check", "commit"}
        PROVE  Loaded(r)'
    BY <1>0, <1>1, <2>2 DEF Create, Loaded, Follows, Lived, IInv, TypeOK
  <2>3. ASSUME NEW r \in Requests, pc'[r] = "commit"
        PROVE  Checked(r)'
    BY <1>0, <1>1, <2>3 DEF Create, Checked, IInv
  <2> QED BY <1>0, <2>1, <2>2, <2>3 DEF IInv
<1>2. ASSUME NEW r \in Requests, NEW body \in Bodies, Receive(r, body)
      PROVE  IInv'
  BY <1>0, <1>2, Untouched DEF Receive, TypeOK
<1>3. ASSUME NEW r \in Requests, Get(r)
      PROVE  IInv'
  <2>1. CASE pc'[r] = "check"
    <3>1. Loaded(r)'
      BY <1>0, <1>3, <2>1 DEF Get, Answer, Loaded, Follows, Lived, IInv, TypeOK,
                              Bodies
    <3>2. ASSUME NEW s \in Requests, s # r
          PROVE  /\ pc'[s] = pc[s] /\ req'[s] = req[s]
                 /\ seen'[s] = seen[s] /\ pend'[s] = pend[s]
      BY <1>0, <1>3, <2>1, <3>2 DEF Get, Answer, TypeOK
    <3>3. UNCHANGED <<rows, clock>> /\ \A d \in Disputes : Lived(rows[d])'
      BY <1>3 DEF Get, Lived, IInv
    <3> QED BY <1>0, <2>1, <3>1, <3>2, <3>3
            DEF IInv, Loaded, Checked, Follows, Lived
  <2>2. CASE pc'[r] # "check"
    BY <1>0, <1>3, <2>2, Untouched DEF Get, Answer, TypeOK
  <2> QED BY <2>1, <2>2
<1>4. ASSUME NEW r \in Requests, Check(r)
      PROVE  IInv'
  <2>1. CASE pc'[r] = "commit"
    <3>1. Loaded(r)'
      BY <1>0, <1>4, <2>1 DEF Check, Answer, Loaded, Follows, Lived, IInv, TypeOK
    <3>2. Checked(r)'
      BY <1>0, <1>4, <2>1 DEF Check, Answer, Checked, TypeOK, IInv, Loaded, Lived
    <3>3. ASSUME NEW s \in Requests, s # r
          PROVE  /\ pc'[s] = pc[s] /\ req'[s] = req[s]
                 /\ seen'[s] = seen[s] /\ pend'[s] = pend[s]
      BY <1>0, <1>4, <2>1, <3>3 DEF Check, Answer, TypeOK
    <3>4. UNCHANGED <<rows, clock>> /\ \A d \in Disputes : Lived(rows[d])'
      BY <1>4 DEF Check, Lived, IInv
    <3> QED BY <1>0, <2>1, <3>1, <3>2, <3>3, <3>4
            DEF IInv, Loaded, Checked, Follows, Lived
  <2>2. CASE pc'[r] # "commit"
    BY <1>0, <1>4, <2>2, Untouched DEF Check, Answer, TypeOK
  <2> QED BY <2>1, <2>2
<1>5. ASSUME NEW r \in Requests, Commit(r)
      PROVE  IInv'
  <2> DEFINE e == req[r].dispute
  <2>1. e \in Disputes /\ req[r] \in Bodies /\ Loaded(r) /\ Checked(r)
    BY <1>0, <1>5 DEF Commit, IInv, TypeOK, Bodies
  <2>2. rows'[e] = Flushed(seen[r], pend[r], rows[e])
        /\ \A d \in Disputes : d # e => rows'[d] = rows[d]
    BY <1>0, <1>5, <2>1 DEF Commit, TypeOK
  <2>3. Lived(rows'[e]) /\ Follows(rows'[e], rows[e])
    <3>1. PICK now \in Nat : now <= clock
                             /\ pend[r] = Transitioned(seen[r], req[r], now)
      BY <2>1 DEF Checked
    <3>2. rows[e] \in Row /\ seen[r] \in Row /\ clock \in Nat /\ Lived(rows[e])
      BY <1>0, <2>1 DEF TypeOK, IInv
    <3>3. /\ Lived(seen[r]) /\ Follows(rows[e], seen[r])
          /\ seen[r].status # "absent"
          /\ req[r].status \in ValidTransitions[seen[r].status]
      BY <2>1 DEF Loaded, Checked
    <3>4. rows'[e] = Flushed(seen[r], Transitioned(seen[r], req[r], now), rows[e])
      BY <2>2, <3>1
    <3> HIDE DEF e
    <3> QED BY <2>1, <3>1, <3>2, <3>3, <3>4, FlushedLived
  <2>4. clock' = clock
    BY <1>5 DEF Commit
  <2>5. \A d \in Disputes : Lived(rows[d])'
    BY <2>2, <2>3, <2>4 DEF IInv, Lived
  <2>6. \A s \in Requests :
          UNCHANGED <<req[s], seen[s], pend[s]>> /\ (s # r => pc'[s] = pc[s])
    BY <1>0, <1>5 DEF Commit, TypeOK
  <2>7. pc'[r] = "refresh"
    BY <1>0, <1>5 DEF Commit, TypeOK
  <2>8. ASSUME NEW s \in Requests, pc'[s] \in {"check", "commit"}
        PROVE  Loaded(s)'
    <3>1. Loaded(s)
      BY <2>6, <2>7, <2>8 DEF IInv
    <3>2. Follows(rows'[req[s].dispute], seen[s])
      <4>1. CASE req[s].dispute = e
        BY <2>3, <3>1, <4>1, FollowsTransitive DEF Loaded
      <4>2. CASE req[s].dispute # e
        <5>1. req[s].dispute \in Disputes
          BY <1>0, <2>6, <2>7, <2>8 DEF TypeOK, Bodies
        <5> QED BY <2>2, <3>1, <4>2, <5>1 DEF Loaded
      <4> QED BY <4>1, <4>2
    <3> QED BY <2>4, <2>6, <3>1, <3>2 DEF Loaded, Lived
  <2>9. ASSUME NEW s \in Requests, pc'[s] = "commit"
        PROVE  Checked(s)'
    BY <2>4, <2>6, <2>7, <2>9 DEF IInv, Checked
  <2> QED BY <1>0, <2>5, <2>8, <2>9 DEF IInv
<1>6. ASSUME NEW r \in Requests, Refresh(r)
      PROVE  IInv'
  BY <1>0, <1>6, Untouched DEF Refresh, Answer, TypeOK
<1>7. ASSUME NEW r \in Requests, Fail(r)
      PROVE  IInv'
  BY <1>0, <1>7, Untouched DEF Fail, Answer, TypeOK
<1>8. CASE Tick
  <2>1. clock \in Nat /\ clock' = clock + 1
        /\ UNCHANGED <<rows, pc, req, seen, pend>>
    BY <1>0, <1>8 DEF Tick, TypeOK
  <2>2. ASSUME NEW row \in Row, Lived(row)
        PROVE  Lived(row)'
    BY <2>1, <2>2, NoneAssumption DEF Lived, Stamped, Row, Times
  <2>3. \A d \in Disputes : Lived(rows[d])'
    BY <1>0, <2>1, <2>2 DEF IInv, TypeOK
  <2>4. ASSUME NEW r \in Requests, pc'[r] \in {"check", "commit"}
        PROVE  Loaded(r)'
    BY <1>0, <2>1, <2>2, <2>4 DEF IInv, TypeOK, Loaded, Follows
  <2>5. ASSUME NEW r \in Requests, pc'[r] = "commit"
        PROVE  Checked(r)'
    BY <1>0, <2>1, <2>5 DEF IInv, Checked
  <2> QED BY <1>0, <2>3, <2>4, <2>5 DEF IInv
<1>9. CASE UNCHANGED vars
  BY <1>0, <1>9, Untouched DEF vars
<1> QED BY <1>1, <1>2, <1>3, <1>4, <1>5, <1>6, <1>7, <1>8, <1>9 DEF Next, Step

LEMMA Initially == Init => IInv
BY NoneAssumption DEF Init, IInv, TypeOK, NoRow, Row, Times, Kinds, Lived, Stamped

LEMMA Inductive == Spec => []IInv
BY Initially, Invariance, PTL DEF Spec

(* TypeOK holds of every behaviour of the handlers. *)
THEOREM TypeCorrect == Spec => []TypeOK
<1>1. IInv => TypeOK
  BY DEF IInv
<1> QED BY <1>1, Inductive, PTL

(* However many PATCH handlers race on one dispute, the deadline on record is
   30 or 45 days after the dispatch on record. *)
THEOREM DeadlineCorrect == Spec => []DeadlineMatchesDispatch
<1>1. IInv => DeadlineMatchesDispatch
  BY DEF IInv, Lived, DeadlineMatchesDispatch
<1> QED BY <1>1, Inductive, PTL

(* No interleaving of handlers makes a dispute count as answered, or enter
   a second round, without the day of an answer. *)
THEOREM AnswerCorrect == Spec => []AnswerOnRecord
<1>1. IInv => AnswerOnRecord
  BY DEF IInv, Lived, AnswerOnRecord
<1> QED BY <1>1, Inductive, PTL

(* The deadline list with the longest window, unless it is full, misses no
   waiting dispute that is not overdue. *)
THEOREM WatchCorrect == Spec => []WaitingIsWatched
<1>1. IInv => WaitingIsWatched
  <2> SUFFICES ASSUME IInv, NEW user \in Users,
                      NEW shown \in ApproachingDeadlines(user, TheftDays),
                      Cardinality(shown) < DeadlineLimit,
                      NEW d \in Disputes, Waiting(rows[d]),
                      rows[d].user = user, rows[d].deadlineAt >= clock
               PROVE  d \in shown
    BY DEF WaitingIsWatched
  <2> DEFINE due == Due(user, TheftDays)
  <2>1. rows[d] \in Row /\ clock \in Nat /\ Lived(rows[d])
    BY DEF IInv, TypeOK
  <2>2. rows[d].sentAt \in Nat /\ rows[d].sentAt <= clock
        /\ rows[d].deadlineAt = rows[d].sentAt + DeadlineDays(rows[d])
        /\ rows[d].deadlineAt # None
    BY <2>1 DEF Lived, Stamped, Waiting, Row, Times
  <2>3. DeadlineDays(rows[d]) \in Nat /\ DeadlineDays(rows[d]) <= TheftDays
    BY DaysAssumption DEF DeadlineDays
  <2>4. d \in due
    BY <2>1, <2>2, <2>3, DaysAssumption DEF Due
  (* A full answer is as large as the limit, so this one is complete. *)
  <2>5. shown = due
    <3> HIDE DEF due
    <3>1. CASE Cardinality(due) <= DeadlineLimit
      BY <3>1 DEF ApproachingDeadlines, due
    <3>2. CASE ~(Cardinality(due) <= DeadlineLimit)
      <4>1. Cardinality(shown) = DeadlineLimit
        BY <3>2 DEF ApproachingDeadlines, due
      <4> QED BY <4>1, LimitAssumption
    <3> QED BY <3>1, <3>2
  <2> QED BY <2>4, <2>5
<1> QED BY <1>1, Inductive, PTL

(* No step of a handler, stale or not, unsends a dispute or hands it to
   another caller. *)
THEOREM NeverUnsentCorrect == Spec => NeverUnsent
<1> DEFINE Kept == \A d \in Disputes :
              /\ rows[d].status # "absent" => rows'[d].user = rows[d].user
              /\ rows[d].status \notin {"absent", "draft"}
                 => rows'[d].status \notin {"absent", "draft"}
<1>1. IInv /\ [Next]_vars => [Kept]_vars
  <2> SUFFICES ASSUME IInv, [Next]_vars PROVE Kept
    OBVIOUS
  <2>1. ASSUME NEW d \in Disputes, NEW user \in Users, NEW kind \in Kinds,
               Create(d, user, kind)
        PROVE  Kept
    BY <2>1 DEF Create, IInv, TypeOK
  <2>2. ASSUME NEW r \in Requests, Commit(r)
        PROVE  Kept
    <3>1. req[r].dispute \in Disputes /\ Loaded(r) /\ Checked(r)
          /\ seen[r] \in Row /\ TypeOK
      BY <2>2 DEF Commit, IInv, TypeOK, Bodies
    <3>2. rows'[req[r].dispute].status = req[r].status
      BY <2>2, <3>1, TransitionedFields
         DEF Commit, TypeOK, Checked, Flushed, Column, ValidTransitions, Row,
             Statuses
    <3>3. req[r].status \notin {"absent", "draft"}
      BY <3>1 DEF Checked, ValidTransitions, Row, Statuses
    <3>4. rows'[req[r].dispute].user = rows[req[r].dispute].user
      BY <2>2, <3>1 DEF Commit, Flushed, TypeOK
    <3> QED BY <2>2, <3>1, <3>2, <3>3, <3>4 DEF Commit, TypeOK
  <2>3. CASE UNCHANGED rows
    BY <2>3
  <2> QED BY <2>1, <2>2, <2>3
          DEF Next, Step, Receive, Get, Check, Refresh, Fail, Tick, vars
<1> HIDE DEF Kept
<1>2. Spec => [][Kept]_vars
  BY <1>1, Inductive, PTL DEF Spec
<1> QED BY <1>2 DEF NeverUnsent, Kept

-----------------------------------------------------------------------------
(* One PATCH at a time: the row that was loaded is still the row that is
   stored, and an answered row was answered after its dispatch. *)
Answered(row) ==
    row.status \in {"responded", "resolved", "escalated"}
    => row.sentAt <= row.respondedAt

SInv == /\ \A r \in Requests : pc[r] \in {"check", "commit"}
                                => seen[r] = rows[req[r].dispute]
        /\ \A d \in Disputes : Answered(rows[d])

(* With one PATCH at a time, a commit moves one dispute along an arrow. *)
LEMMA SerialCommit ==
    ASSUME IInv, SInv, NEW r \in Requests, Commit(r)
    PROVE  LET d == req[r].dispute IN
           /\ d \in Disputes
           /\ rows' = [rows EXCEPT ![d] = pend[r]]
           /\ req[r].status \in ValidTransitions[rows[d].status]
           /\ \E now \in Nat :
                  /\ rows[d].sentAt # None => rows[d].sentAt <= now
                  /\ pend[r] = Transitioned(rows[d], req[r], now)
<1> DEFINE d == req[r].dispute
<1>1. d \in Disputes /\ TypeOK /\ Checked(r) /\ seen[r] = rows[d]
      /\ rows[d] \in Row /\ pend[r] \in Row
  BY DEF Commit, IInv, SInv, TypeOK, Bodies
<1>2. PICK now \in Nat : /\ rows[d].sentAt # None => rows[d].sentAt <= now
                         /\ pend[r] = Transitioned(rows[d], req[r], now)
  BY <1>1 DEF Checked
<1>3. pend[r].user = rows[d].user /\ pend[r].kind = rows[d].kind
  BY <1>1, <1>2, TransitionedFields
<1>4. Flushed(rows[d], pend[r], rows[d]) = pend[r]
  BY <1>1, <1>3 DEF Flushed, Column, Row
<1> QED BY <1>1, <1>2, <1>4 DEF Commit, Checked

LEMMA SerialInvariance ==
    ASSUME Serial, IInv, SInv, [Next]_vars, IInv'
    PROVE  SInv'
<1>0. TypeOK
  BY DEF IInv
<1>1. ASSUME NEW d \in Disputes, NEW user \in Users, NEW kind \in Kinds,
             Create(d, user, kind)
      PROVE  SInv'
  BY <1>0, <1>1 DEF Create, SInv, Answered, IInv, Loaded, Follows, TypeOK, NoRow
<1>2. ASSUME NEW r \in Requests, NEW body \in Bodies, Receive(r, body)
      PROVE  SInv'
  BY <1>0, <1>2 DEF Receive, SInv, Answered, TypeOK
<1>3. ASSUME NEW r \in Requests, Get(r)
      PROVE  SInv'
  BY <1>0, <1>3 DEF Get, Answer, SInv, Answered, TypeOK, Serial
<1>4. ASSUME NEW r \in Requests, Check(r)
      PROVE  SInv'
  BY <1>0, <1>4 DEF Check, Answer, SInv, Answered, TypeOK, Serial
<1>5. ASSUME NEW r \in Requests, Commit(r)
      PROVE  SInv'
  <2> DEFINE d == req[r].dispute
  <2>1. \A s \in Requests : pc'[s] = "refresh"
    BY <1>0, <1>5 DEF Commit, TypeOK, Serial
  <2>2. PICK now \in Nat : /\ rows[d].sentAt # None => rows[d].sentAt <= now
                           /\ pend[r] = Transitioned(rows[d], req[r], now)
    BY <1>5, SerialCommit
  <2>3. d \in Disputes /\ rows' = [rows EXCEPT ![d] = pend[r]]
        /\ req[r].status \in ValidTransitions[rows[d].status]
        /\ rows[d] \in Row /\ Lived(rows[d])
    BY <1>0, <1>5, SerialCommit DEF IInv, TypeOK
  <2>4. Answered(pend[r])
    <3>1. pend[r].status = req[r].status
          /\ pend[r].sentAt =
                (IF req[r].status = "sent" THEN now ELSE rows[d].sentAt)
          /\ pend[r].respondedAt =
                (IF req[r].status = "responded" THEN now ELSE rows[d].respondedAt)
      BY <2>2, <2>3, TransitionedFields
    <3>2. CASE req[r].status = "responded"
      BY <2>2, <2>3, <3>1, <3>2
         DEF Answered, Lived, Stamped, ValidTransitions, Row, Statuses
    <3>3. CASE req[r].status \in {"resolved", "escalated"}
      BY <2>3, <3>1, <3>3
         DEF Answered, ValidTransitions, Row, Statuses, SInv
    <3> QED BY <3>1, <3>2, <3>3 DEF Answered
  <2> QED BY <1>0, <2>1, <2>3, <2>4 DEF SInv, TypeOK
<1>6. ASSUME NEW r \in Requests, Refresh(r) \/ Fail(r)
      PROVE  SInv'
  BY <1>0, <1>6 DEF Refresh, Fail, Answer, SInv, Answered, TypeOK
<1>7. CASE Tick
  BY <1>7 DEF Tick, SInv, Answered
<1>8. CASE UNCHANGED vars
  BY <1>8 DEF vars, SInv, Answered
<1> QED BY <1>1, <1>2, <1>3, <1>4, <1>5, <1>6, <1>7, <1>8 DEF Next, Step

LEMMA SerialInductive == ASSUME Serial PROVE Spec => []SInv
<1>1. Init => SInv
  BY DEF Init, SInv, Answered, NoRow
<1>2. IInv /\ IInv' /\ SInv /\ [Next]_vars => SInv'
  BY SerialInvariance
<1> QED BY <1>1, <1>2, Inductive, PTL DEF Spec

(* With one PATCH at a time, no answer of an earlier round is taken for the
   answer to the current one. *)
THEOREM ResponseCorrect ==
    ASSUME Serial PROVE Spec => []ResponseFollowsDispatch
<1>1. SInv => ResponseFollowsDispatch
  BY DEF SInv, Answered, ResponseFollowsDispatch
<1> QED BY <1>1, SerialInductive, PTL

(* With one PATCH at a time, the handlers implement the dispute state machine
   of DisputeLifecycle: this is what a lock on the row would buy. *)
THEOREM Refinement == ASSUME Serial PROVE Spec => LifecycleSpec
<1> USE DEF Lifecycle!Init, Lifecycle!vars
<1>1. Init => Lifecycle!Init
  BY DEF Init, NoRow
<1>2. ASSUME IInv, SInv, [Next]_vars
      PROVE  [Lifecycle!Next]_(Lifecycle!vars)
  <2>0. TypeOK
    BY <1>2 DEF IInv
  <2>1. ASSUME NEW d \in Disputes, NEW user \in Users, NEW kind \in Kinds,
               Create(d, user, kind)
        PROVE  Lifecycle!Next
    <3>1. Lifecycle!Open(d)
      BY <2>0, <2>1 DEF Create, Lifecycle!Open, TypeOK, NoRow
    <3> QED BY <3>1 DEF Lifecycle!Next
  <2>2. ASSUME NEW r \in Requests, Commit(r)
        PROVE  Lifecycle!Next
    <3> DEFINE d == req[r].dispute
               next == req[r].status
    <3>1. PICK now \in Nat : pend[r] = Transitioned(rows[d], req[r], now)
      BY <1>2, <2>2, SerialCommit
    <3>2. d \in Disputes /\ rows' = [rows EXCEPT ![d] = pend[r]]
          /\ next \in ValidTransitions[rows[d].status]
          /\ rows[d] \in Row /\ rows \in [Disputes -> Row]
      BY <1>2, <2>0, <2>2, SerialCommit DEF TypeOK
    <3>3. pend[r].status = next
          /\ pend[r].round = IF next = "sent" /\ rows[d].status = "escalated"
                             THEN rows[d].round + 1 ELSE rows[d].round
      BY <3>1, <3>2, TransitionedFields
    <3>4. <<rows[d].status, next>> \in Lifecycle!Arrows
          /\ next \in {"sent", "in_review", "responded", "resolved", "escalated"}
          /\ (rows[d].status = "escalated" => next = "sent")
      BY <3>2 DEF ValidTransitions, Lifecycle!Arrows, Row, Statuses
    <3> HIDE DEF d, next
    <3>5. PICK e \in Disputes : e = d
      BY <3>2
    <3>6. PICK n \in {"sent", "in_review", "responded", "resolved", "escalated"} :
             n = next
      BY <3>4
    <3>7. Lifecycle!Advance(e, n)
      BY <3>2, <3>3, <3>4, <3>5, <3>6 DEF Lifecycle!Advance
    <3> QED BY <3>7 DEF Lifecycle!Next
  <2>3. CASE UNCHANGED rows
    BY <2>3
  <2> QED BY <1>2, <2>1, <2>2, <2>3
          DEF Next, Step, Receive, Get, Check, Refresh, Fail, Tick, vars
<1>3. IInv /\ SInv /\ [Next]_vars => [Lifecycle!Next]_(Lifecycle!vars)
  BY <1>2
<1> QED BY <1>1, <1>3, Inductive, SerialInductive, PTL
        DEF Spec, LifecycleSpec, Lifecycle!Spec
=============================================================================
