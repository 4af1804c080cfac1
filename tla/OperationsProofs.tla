--------------------------- MODULE OperationsProofs ----------------------------
(*****************************************************************************)
(* Theorems about the services that keep a table or a directory of their     *)
(* own: subscriptions, webhooks, access, feature flags and backups; for any  *)
(* number of workers, events, hooks, restarts, customers, keys, flags,       *)
(* administrators and nights.  That deliveries end is left to the model      *)
(* checker.                                                                  *)
(*****************************************************************************)
EXTENDS Billing, Webhooks, Access, Flags, Backups, SequenceTheorems, TLAPS

StripeEvent == {[kind |-> e[1], status |-> e[2], plan |-> e[3], named |-> e[4]] : e \in Events}
SubStatuses == {"active", "past_due", "canceled"}
PlanIds == Nicknames \cup {"free", "starter"}
SubRow == [status : SubStatuses, plan : PlanIds]
Upsert == [event : DOMAIN emitted, seen : SubRow \cup {NoRow}]
Busy(w) == upserts[w] # Idle
NewestRow == IF rows = <<>> THEN NoRow ELSE rows[1]

(* BillingTypes, and as long as no two upserts overlapped: there is one worker at most, who has
   seen the row there is, and the row is what the event committed last made of it. *)
BillingTypes ==
  /\ emitted \in Seq(StripeEvent) /\ rows \in Seq(SubRow)
  /\ upserts \in [Workers -> Upsert \cup {Idle}]
  /\ handled \in 0 .. Len(emitted) /\ overlapped \in BOOLEAN
SerialSoFar ==
  ~overlapped => /\ \A w, v \in Workers : Busy(w) /\ Busy(v) => w = v
                 /\ \A w \in Workers : Busy(w) => upserts[w].seen = NewestRow
BillingInv == BillingTypes /\ SerialSoFar /\ SerialUpsertsFollowEvents

(* An event, and what the service makes of it. *)
LEMMA EventFields ==
  ASSUME NEW e \in StripeEvent
  PROVE  /\ e.status \in SubStatuses /\ e.plan \in PlanIds
         /\ e.kind \in {"checkout", "updated", "deleted"}
         /\ e.kind = "checkout" => e.status = "active" /\ e.plan = "starter"
<1>1. PICK x \in Events : e = [kind |-> x[1], status |-> x[2], plan |-> x[3], named |-> x[4]]
  BY DEF StripeEvent
<1>2. e.kind = x[1] /\ e.status = x[2] /\ e.plan = x[3]
  BY <1>1
<1>3. CASE x \in {<<"checkout", "active", "starter", TRUE>>}
  <2>1. x[1] = "checkout" /\ x[2] = "active" /\ x[3] = "starter"
    BY <1>3
  <2> QED BY <1>2, <2>1 DEF SubStatuses, PlanIds
<1>4. CASE x \in {"updated"} \X {"active", "past_due"} \X PlanNames \X BOOLEAN
  <2>1. x[1] = "updated" /\ x[2] \in {"active", "past_due"} /\ x[3] \in PlanNames
    BY <1>4
  <2> QED BY <1>2, <2>1 DEF SubStatuses, PlanIds, PlanNames
<1>5. CASE x \in {"deleted"} \X {"canceled"} \X {"free"} \X BOOLEAN
  <2>1. x[1] = "deleted" /\ x[2] = "canceled" /\ x[3] = "free"
    BY <1>5
  <2> QED BY <1>2, <2>1 DEF SubStatuses, PlanIds
<1> QED BY <1>3, <1>4, <1>5 DEF Events

\* A row made of a status and a plan is one the table can hold.
LEMMA RowIsSubRow == \A s \in SubStatuses, p \in PlanIds : Row(s, p) \in SubRow
BY DEF Row, SubRow

\* Every event sets the row to one the table can hold.
LEMMA EffectRow == ASSUME NEW e \in StripeEvent PROVE Effect(e) \in SubRow
<1>1. /\ e.kind = "checkout" => Effect(e) = Row("active", "starter")
      /\ e.kind = "updated" => Effect(e) = Row(e.status, e.plan)
      /\ e.kind = "deleted" => Effect(e) = Row("canceled", "free")
  BY DEF Effect
<1> QED BY <1>1, EventFields, RowIsSubRow DEF SubStatuses, PlanIds

(* An upsert that saw the row writes all of its effect; any other writes a row. *)
LEMMA WrittenSubRow ==
  ASSUME NEW row \in SubRow, NEW seen \in SubRow, NEW effect \in SubRow
  PROVE  Written(row, seen, effect) \in SubRow /\ Written(row, row, effect) = effect
<1>1. DOMAIN row = {"status", "plan"}
  BY DEF SubRow
<1>3. Written(row, seen, effect) \in SubRow
  <2> DEFINE w == Written(row, seen, effect)
  <2>1. w = [c \in {"status", "plan"} |-> IF effect[c] # seen[c] THEN effect[c] ELSE row[c]]
    BY <1>1 DEF Written
  <2>2. w = [status |-> w.status, plan |-> w.plan] /\ w.status \in SubStatuses /\ w.plan \in PlanIds
    BY <2>1 DEF SubRow
  <2> QED BY <2>2 DEF SubRow
<1>4. Written(row, row, effect) = effect
  <2>1. Written(row, row, effect) = [c \in {"status", "plan"} |-> effect[c]]
    BY <1>1 DEF Written
  <2>2. effect = [c \in {"status", "plan"} |-> effect[c]]
    BY DEF SubRow
  <2> QED BY <2>1, <2>2
<1> QED BY <1>3, <1>4

\* A worker between its two statements has an event of Stripe and a row it saw.
LEMMA UpsertOf ==
  ASSUME BillingTypes, NEW w \in Workers, Busy(w)
  PROVE  /\ upserts[w].event \in 1 .. Len(emitted) /\ emitted[upserts[w].event] \in StripeEvent
         /\ upserts[w].seen \in SubRow \cup {NoRow}
         /\ Effect(emitted[upserts[w].event]) \in SubRow
<1>1. upserts[w] \in Upsert
  BY DEF BillingTypes, Busy
<1>2. upserts[w].event \in 1 .. Len(emitted) /\ upserts[w].seen \in SubRow \cup {NoRow}
  BY <1>1 DEF Upsert, BillingTypes
<1>3. emitted[upserts[w].event] \in StripeEvent
  BY <1>2 DEF BillingTypes
<1> QED BY <1>2, <1>3, EffectRow

\* The invariant holds of the empty table.
LEMMA BillingStart == BillingInit => BillingInv
<1> SUFFICES ASSUME BillingInit PROVE BillingInv
  OBVIOUS
<1>1. BillingTypes
  <2>1. emitted = <<>> /\ rows = <<>> /\ handled = 0 /\ overlapped = FALSE
    BY DEF BillingInit
  <2>2. upserts \in [Workers -> Upsert \cup {Idle}]
    BY DEF BillingInit
  <2>3. emitted \in Seq(StripeEvent) /\ rows \in Seq(SubRow) /\ Len(emitted) = 0
    BY <2>1, EmptySeq
  <2>4. handled \in 0 .. Len(emitted)
    BY <2>1, <2>3
  <2>5. overlapped \in BOOLEAN
    BY <2>1
  <2> QED BY <2>2, <2>3, <2>4, <2>5 DEF BillingTypes
<1>2. SerialSoFar
  BY DEF BillingInit, SerialSoFar, Busy
<1>3. SerialUpsertsFollowEvents
  BY DEF BillingInit, SerialUpsertsFollowEvents
<1> QED BY <1>1, <1>2, <1>3 DEF BillingInv

\* A new event of Stripe keeps the invariant.
LEMMA EmitPreserves ==
  ASSUME BillingInv, NEW e \in Events, Emit(e[1], e[2], e[3], e[4]) PROVE BillingInv'
<1> DEFINE n == [kind |-> e[1], status |-> e[2], plan |-> e[3], named |-> e[4]]
<1>1. n \in StripeEvent
  BY DEF StripeEvent
<1> HIDE DEF n
<1>2. emitted' = Append(emitted, n) /\ UNCHANGED <<rows, upserts, deliveries, handled, overlapped>>
  BY DEF Emit, n
<1>3. /\ emitted' \in Seq(StripeEvent) /\ Len(emitted') = Len(emitted) + 1
      /\ Len(emitted) \in Nat
      /\ \A i \in 1 .. Len(emitted) : emitted'[i] = emitted[i]
  BY <1>1, <1>2 DEF BillingInv, BillingTypes
<1>4. DOMAIN emitted \subseteq DOMAIN emitted'
  BY <1>1, <1>2, <1>3 DEF BillingInv, BillingTypes
<1>5. upserts' \in [Workers -> Upsert' \cup {Idle}]
  <2>1. Upsert \subseteq Upsert'
    BY <1>4 DEF Upsert
  <2> QED BY <1>2, <2>1 DEF BillingInv, BillingTypes
<1>6. BillingTypes'
  BY <1>2, <1>3, <1>5 DEF BillingInv, BillingTypes
<1>7. SerialSoFar'
  BY <1>2 DEF BillingInv, SerialSoFar, Busy, NewestRow
<1>8. SerialUpsertsFollowEvents'
  <2> SUFFICES ASSUME ~overlapped
               PROVE  /\ Len(rows) <= 1 /\ (rows = <<>> <=> handled = 0)
                      /\ rows # <<>> => rows[1] = Effect(emitted'[handled])
    BY <1>2 DEF SerialUpsertsFollowEvents
  <2>1. Len(rows) <= 1 /\ (rows = <<>> <=> handled = 0)
    BY DEF BillingInv, SerialUpsertsFollowEvents
  <2>2. rows # <<>> => handled \in 1 .. Len(emitted)
    BY <1>3, <2>1 DEF BillingInv, BillingTypes
  <2>3. rows # <<>> => rows[1] = Effect(emitted[handled]) /\ emitted'[handled] = emitted[handled]
    BY <1>3, <2>2 DEF BillingInv, SerialUpsertsFollowEvents
  <2> QED BY <2>1, <2>3
<1> QED BY <1>6, <1>7, <1>8 DEF BillingInv

\* The first statement of an upsert keeps the invariant.
LEMMA ReceivePreserves ==
  ASSUME BillingInv, NEW w \in Workers, NEW i \in DOMAIN emitted, Receive(w, i) PROVE BillingInv'
<1> DEFINE u == [event |-> i, seen |-> NewestRow]
<1>1. NewestRow \in SubRow \cup {NoRow}
  BY DEF BillingInv, BillingTypes, NewestRow
<1>2. u \in Upsert
  BY <1>1 DEF Upsert
<1> HIDE DEF u
<1>3. /\ UNCHANGED <<emitted, rows, handled>> /\ upserts[w] = Idle
      /\ overlapped' = (overlapped \/ \E v \in Workers : upserts[v] # Idle)
      /\ upserts' = [upserts EXCEPT ![w] = u] \/ upserts' = upserts
  BY DEF Receive, u, NewestRow
<1>4. upserts' \in [Workers -> Upsert \cup {Idle}]
  BY <1>2, <1>3 DEF BillingInv, BillingTypes
<1>5. BillingTypes'
  BY <1>3, <1>4 DEF BillingInv, BillingTypes, Upsert
<1>6. SerialSoFar'
  <2> SUFFICES ASSUME ~overlapped'
               PROVE  /\ \A x, v \in Workers : Busy(x)' /\ Busy(v)' => x = v
                      /\ \A x \in Workers : Busy(x)' => upserts'[x].seen = NewestRow
    BY <1>3 DEF SerialSoFar, NewestRow
  <2>1. \A v \in Workers : upserts[v] = Idle
    BY <1>3
  <2>2. \A v \in Workers : Busy(v)' => v = w /\ upserts'[v] = u
    BY <1>3, <2>1 DEF Busy, BillingInv, BillingTypes
  <2>3. u.seen = NewestRow
    BY DEF u
  <2> QED BY <2>2, <2>3
<1>7. SerialUpsertsFollowEvents'
  BY <1>3 DEF BillingInv, SerialUpsertsFollowEvents
<1> QED BY <1>5, <1>6, <1>7 DEF BillingInv

\* The commit of an upsert keeps the invariant.
LEMMA CommitPreserves == ASSUME BillingInv, NEW w \in Workers, Commit(w) PROVE BillingInv'
<1> DEFINE u == upserts[w]
           effect == Effect(emitted[u.event])
<1>1. Busy(w) /\ UNCHANGED <<emitted, deliveries, overlapped>> /\ handled' = u.event
      /\ upserts' = [upserts EXCEPT ![w] = Idle]
  BY DEF Commit, Busy
<1>2. u.event \in 1 .. Len(emitted) /\ u.seen \in SubRow \cup {NoRow} /\ effect \in SubRow
  BY <1>1, UpsertOf DEF BillingInv
<1>3. rows' = IF u.seen = NoRow THEN Append(rows, effect)
              ELSE [rows EXCEPT ![1] = Written(rows[1], u.seen, effect)]
  BY DEF Commit
<1> HIDE DEF u, effect
<1>4. rows \in Seq(SubRow) /\ Len(rows) \in Nat
  BY DEF BillingInv, BillingTypes
<1>5. rows' \in Seq(SubRow)
  <2>1. CASE u.seen = NoRow
    BY <1>2, <1>3, <1>4, <2>1, AppendProperties
  <2>2. CASE u.seen # NoRow /\ rows = <<>>
    <3>1. rows' = [rows EXCEPT ![1] = Written(rows[1], u.seen, effect)] /\ DOMAIN rows = {}
      BY <1>3, <2>2
    <3>2. rows' = rows
      BY <1>4, <3>1
    <3> QED BY <1>4, <3>2
  <2>3. CASE u.seen # NoRow /\ rows # <<>>
    <3>1. rows[1] \in SubRow /\ 1 \in 1 .. Len(rows)
      BY <1>4, <2>3, EmptySeq
    <3>2. Written(rows[1], u.seen, effect) \in SubRow
      BY <1>2, <2>3, <3>1, WrittenSubRow
    <3> QED BY <1>3, <1>4, <2>3, <3>2
  <2> QED BY <2>1, <2>2, <2>3
<1>6. BillingTypes'
  BY <1>1, <1>2, <1>5 DEF BillingInv, BillingTypes, Upsert
<1>7. ASSUME ~overlapped
      PROVE  u.seen = NewestRow /\ \A v \in Workers : v # w => ~Busy(v)
  BY <1>1, <1>7 DEF BillingInv, SerialSoFar, u
<1>8. SerialSoFar'
  <2> SUFFICES ASSUME ~overlapped PROVE \A v \in Workers : ~Busy(v)'
    BY <1>1 DEF SerialSoFar
  <2> QED BY <1>1, <1>7 DEF Busy, BillingInv, BillingTypes
<1>9. ASSUME ~overlapped PROVE Len(rows') = 1 /\ rows'[1] = effect
  <2>1. Len(rows) <= 1 /\ u.seen = NewestRow
    BY <1>7, <1>9 DEF BillingInv, SerialUpsertsFollowEvents
  <2>2. CASE rows = <<>>
    <3>1. u.seen = NoRow
      BY <2>1, <2>2 DEF NewestRow
    <3> QED BY <1>2, <1>3, <1>4, <2>2, <3>1, AppendProperties, EmptySeq
  <2>3. CASE rows # <<>>
    <3>1. rows[1] \in SubRow /\ 1 \in 1 .. Len(rows) /\ Len(rows) = 1
      <4>1. Len(rows) # 0
        BY <1>4, <2>3, EmptySeq
      <4>2. Len(rows) = 1
        BY <1>4, <2>1, <4>1
      <4> QED BY <1>4, <4>2
    <3>2. u.seen = rows[1]
      BY <2>1, <2>3 DEF NewestRow
    <3>3. u.seen # NoRow
      BY <3>1, <3>2, BillingAssumption DEF BillingAssumption, SubRow, SubStatuses, PlanIds
    <3>4. Written(rows[1], u.seen, effect) = effect
      BY <1>2, <3>1, <3>2, WrittenSubRow
    <3> QED BY <1>3, <1>4, <3>1, <3>3, <3>4
  <2> QED BY <2>2, <2>3
<1>10. SerialUpsertsFollowEvents'
  <2> SUFFICES ASSUME ~overlapped
               PROVE  /\ Len(rows') <= 1 /\ (rows' = <<>> <=> handled' = 0)
                      /\ rows' # <<>> => rows'[1] = Effect(emitted[handled'])
    BY <1>1 DEF SerialUpsertsFollowEvents
  <2>1. Len(rows') = 1 /\ rows'[1] = Effect(emitted[handled']) /\ handled' # 0
    BY <1>1, <1>2, <1>9 DEF effect, u
  <2>2. rows' # <<>>
    BY <1>5, <2>1, EmptySeq
  <2> QED BY <2>1, <2>2
<1> QED BY <1>6, <1>8, <1>10 DEF BillingInv

\* A failed upsert keeps the invariant.
LEMMA BreakPreserves == ASSUME BillingInv, NEW w \in Workers, Break(w) PROVE BillingInv'
<1>1. UNCHANGED <<emitted, rows, handled, overlapped>> /\ upserts' = [upserts EXCEPT ![w] = Idle]
  BY DEF Break
<1>2. BillingTypes'
  BY <1>1 DEF BillingInv, BillingTypes, Upsert
<1>3. \A v \in Workers : Busy(v)' => Busy(v) /\ upserts'[v] = upserts[v]
  BY <1>1 DEF Busy, BillingInv, BillingTypes
<1>4. SerialSoFar' /\ SerialUpsertsFollowEvents'
  BY <1>1, <1>3 DEF BillingInv, SerialSoFar, SerialUpsertsFollowEvents, NewestRow
<1> QED BY <1>2, <1>4 DEF BillingInv

\* Every step of billing keeps the invariant.
LEMMA BillingKept == ASSUME BillingInv, [BillingNext]_billingVars PROVE BillingInv'
<1>1. CASE BillingNext
  BY <1>1, EmitPreserves, ReceivePreserves, CommitPreserves, BreakPreserves DEF BillingNext
<1>2. CASE UNCHANGED billingVars
  BY <1>2 DEF billingVars, BillingInv, BillingTypes, Upsert, SerialSoFar, Busy, NewestRow, SerialUpsertsFollowEvents
<1> QED BY <1>1, <1>2

\* The invariant holds of every behaviour of billing.
LEMMA BillingInvariant == BillingSpec => []BillingInv
BY BillingStart, BillingKept, PTL DEF BillingSpec

(* Without overlapping upserts the row is what the event committed last made of it
   (repo_billing.py, upsert). *)
THEOREM SerialCorrect == BillingSpec => []SerialUpsertsFollowEvents
<1>1. BillingInv => SerialUpsertsFollowEvents
  BY DEF BillingInv
<1> QED BY <1>1, BillingInvariant, PTL

(* When no two upserts overlapped and the newest event was committed last, the tier is
   Stripe's (assess_routes.py, resolve_user_tier). *)
THEOREM TierCorrect == BillingSpec => []CaughtUp
<1>1. ASSUME BillingInv, ~overlapped, handled = Len(emitted), handled # 0
      PROVE  ResolveUserTier(rows) # "free"
               <=> Subscribed /\ emitted[handled].status = "active"
                     /\ emitted[handled].plan \in Tiers \ {"free"}
  <2> DEFINE e == emitted[handled]
  <2>1. e \in StripeEvent /\ emitted # <<>> /\ Len(emitted) \in Nat
    BY <1>1 DEF BillingInv, BillingTypes
  <2>2. Len(rows) = 1 /\ rows[1] = Effect(e)
    <3>1. rows \in Seq(SubRow) /\ rows # <<>> /\ Len(rows) <= 1 /\ rows[1] = Effect(e)
      BY <1>1 DEF BillingInv, BillingTypes, SerialUpsertsFollowEvents
    <3>2. Len(rows) \in Nat /\ Len(rows) # 0 /\ Len(rows) <= 1
      BY <3>1, EmptySeq
    <3>3. Len(rows) = 1
      BY <3>2
    <3> QED BY <3>1, <3>3
  <2>3. Subscribed <=> e.kind # "deleted"
    BY <1>1, <2>1 DEF Subscribed
  <2> HIDE DEF e
  <2>4. ResolveUserTier(rows) =
          IF Effect(e).status # "active" THEN "free" ELSE ParseTier(Effect(e).plan)
    BY <2>2 DEF ResolveUserTier
  <2>5. CASE e.kind = "checkout"
    <3>1. Effect(e).status = "active" /\ Effect(e).plan = "starter"
      BY <2>5 DEF Effect, Row
    <3>2. e.status = "active" /\ e.plan = "starter"
      BY <2>1, <2>5, EventFields
    <3> QED BY <2>3, <2>4, <2>5, <3>1, <3>2 DEF ParseTier, Tiers, e
  <2>6. CASE e.kind = "updated"
    <3>1. Effect(e).status = e.status /\ Effect(e).plan = e.plan
      BY <2>6 DEF Effect, Row
    <3> QED BY <2>3, <2>4, <2>6, <3>1 DEF ParseTier, Tiers, e
  <2>7. CASE e.kind = "deleted"
    <3>1. Effect(e).status = "canceled"
      BY <2>7 DEF Effect, Row
    <3> QED BY <2>3, <2>4, <2>7, <3>1
  <2> QED BY <2>1, <2>5, <2>6, <2>7, EventFields
<1>2. BillingInv => CaughtUp
  BY <1>1 DEF CaughtUp
<1> QED BY <1>2, BillingInvariant, PTL

(* Two rows never become one again, and lock the address out (repo_billing.py,
   scalar_one_or_none). *)
THEOREM LockOutIsFinal == BillingSpec => TwoRowsLockOut
<1>1. ASSUME BillingInv, [BillingNext]_billingVars
      PROVE  [Len(rows) > 1 => /\ Len(rows') > 1 /\ ResolveUserTier(rows') = "free"
                               /\ (\A w \in Workers : upserts[w] = Idle)
                                    => UNCHANGED <<rows, upserts>>]_billingVars
  <2>x. Len(rows') \in Nat
    BY <1>1, BillingKept DEF BillingInv, BillingTypes
  <2> SUFFICES ASSUME BillingNext, Len(rows) > 1
               PROVE  /\ Len(rows') > 1
                      /\ (\A w \in Workers : upserts[w] = Idle) => UNCHANGED <<rows, upserts>>
    <3>1. CASE BillingNext
      <4>1. Len(rows) > 1 =>
              /\ Len(rows') > 1
              /\ (\A w \in Workers : upserts[w] = Idle) => UNCHANGED <<rows, upserts>>
        BY <3>1
      <4>2. Len(rows') > 1 => ResolveUserTier(rows') = "free"
        <5>1. \A n \in Nat : n > 1 => n # 1
          OBVIOUS
        <5>2. Len(rows') > 1 => Len(rows') # 1
          BY <2>x, <5>1, Zenon
        <5> QED BY <5>2, Zenon DEF ResolveUserTier
      <4> QED BY <4>1, <4>2
    <3>2. CASE UNCHANGED billingVars
      BY <3>2
    <3> QED BY <1>1, <3>1, <3>2
  <2>0. rows \in Seq(SubRow)
    BY <1>1 DEF BillingInv, BillingTypes
  <2>1. ASSUME NEW e \in Events, Emit(e[1], e[2], e[3], e[4]) PROVE UNCHANGED <<rows, upserts>>
    BY <2>1 DEF Emit
  <2>2. ASSUME NEW w \in Workers, NEW i \in DOMAIN emitted, Receive(w, i)
        PROVE  UNCHANGED <<rows, upserts>>
    BY <2>0, <2>2 DEF Receive
  <2>3. ASSUME NEW w \in Workers, Commit(w) PROVE Len(rows') > 1 /\ upserts[w] # Idle
    <3>1. upserts[w] # Idle
      BY <2>3 DEF Commit
    <3>2. Effect(emitted[upserts[w].event]) \in SubRow
      BY <1>1, <3>1, UpsertOf DEF Busy, BillingInv
    <3> DEFINE effect == Effect(emitted[upserts[w].event])
               first == Written(rows[1], upserts[w].seen, effect)
    <3>3. rows' = Append(rows, effect) \/ rows' = [rows EXCEPT ![1] = first]
      BY <2>3 DEF Commit
    <3> HIDE DEF effect, first
    <3>4. Len(rows') > 1
      BY <2>0, <3>3
    <3> QED BY <3>1, <3>4
  <2>4. ASSUME NEW w \in Workers, Break(w) PROVE UNCHANGED rows /\ upserts[w] # Idle
    BY <2>4 DEF Break
  <2> QED BY <2>1, <2>2, <2>3, <2>4 DEF BillingNext
<1> QED BY <1>1, BillingInvariant, PTL DEF BillingSpec, TwoRowsLockOut

(* All of it at once. *)
THEOREM BillingCorrect == BillingSpec => BillingSound
BY SerialCorrect, TierCorrect, LockOutIsFinal, PTL DEF BillingSound

--------------------------------------------------------------------------------
Registration == [owner : Owners, events : SUBSET EventTypes, stored : CryptKeys]
TaskStates == Statuses \cup HasRow \cup {"pending", "lost"}

(* A call of deliver_event: before it, and the tasks it has after it. *)
IsCall(s) ==
  /\ s = [phase |-> s.phase, due |-> s.due, to |-> s.to, signed |-> s.signed]
  /\ s.phase \in {"idle", "sending", "failed", "returned", "killed"}
  /\ DOMAIN s.to \in {{}, s.due} /\ s.to = [h \in DOMAIN s.to |-> s.to[h]]
  /\ \A h \in DOMAIN s.to : s.to[h] \in TaskStates
  /\ s.phase = "idle" => DOMAIN s.to = {}

(* Registrations keep their identifier for good, a removal that was checked is of the
   owner, and the rows of the log are of the tasks that got past their COMMIT. *)
HooksOK ==
  /\ hooks = [h \in DOMAIN hooks |-> hooks[h]] /\ DOMAIN hooks \subseteq issued
  /\ restarts \in Nat
  /\ \A o, h : <<o, h>> \in removing =>
       h \in issued /\ (h \in DOMAIN hooks => hooks[h].owner = o)
CallsOK == /\ sends = [d \in Dispatches |-> sends[d]]
           /\ \A d \in Dispatches : IsCall(sends[d])
LogOK ==
  \A d \in Dispatches : \A h :
    (h \in DOMAIN sends[d].to /\ sends[d].to[h] \in HasRow)
      <=> (\E status \in Statuses : <<d, h, status>> \in log)
(* A secret can be read with the key it was stored under; before the first restart
   there is no other. *)
KeysOK == restarts = 0 => \A h \in DOMAIN hooks : hooks[h].stored = cryptKey
WInv == HooksOK /\ CallsOK /\ LogOK /\ KeysOK /\ WholeAndSigned

-----------------------------------------------------------------------------
(* The actions that touch the table of registrations leave the calls alone. *)
LEMMA RegisterStep ==
  ASSUME WInv, NEW o, NEW h, NEW events, Register(o, h, events)
  PROVE  WInv'
<1>0. /\ h \notin issued /\ issued' = issued \cup {h}
      /\ hooks' = [g \in DOMAIN hooks \cup {h} |->
                     IF g = h THEN [owner |-> o, events |-> events, stored |-> cryptKey] ELSE hooks[g]]
      /\ UNCHANGED <<cryptKey, restarts, removing, sends, log>>
  BY DEF Register
<1>1. DOMAIN hooks' = DOMAIN hooks \cup {h} /\ h \notin DOMAIN hooks
      /\ hooks'[h].stored = cryptKey /\ \A g \in DOMAIN hooks : hooks'[g] = hooks[g]
  BY <1>0 DEF WInv, HooksOK
<1>2. HooksOK' /\ KeysOK'
  BY <1>0, <1>1 DEF WInv, HooksOK, KeysOK
<1> QED BY <1>0, <1>2 DEF WInv, CallsOK, LogOK, WholeAndSigned

\* Both statements of a removal keep the invariant.
LEMMA RemovalSteps ==
  ASSUME WInv, NEW o, NEW h, CheckRemoval(o, h) \/ \E committed \in BOOLEAN : RemoveWebhook(o, h, committed)
  PROVE  WInv'
<1>1. CASE CheckRemoval(o, h)
  <2>1. HooksOK'
    BY <1>1 DEF CheckRemoval, WInv, HooksOK
  <2> QED BY <1>1, <2>1 DEF CheckRemoval, WInv, CallsOK, LogOK, KeysOK, WholeAndSigned
<1>2. ASSUME NEW committed \in BOOLEAN, RemoveWebhook(o, h, committed)
      PROVE  WInv'
  <2>0. /\ removing' = removing \ {<<o, h>>} /\ UNCHANGED <<issued, cryptKey, restarts, sends, log>>
        /\ hooks' = IF committed THEN [g \in DOMAIN hooks \ {h} |-> hooks[g]] ELSE hooks
    BY <1>2 DEF RemoveWebhook
  <2>1. DOMAIN hooks' \subseteq DOMAIN hooks /\ \A g \in DOMAIN hooks' : hooks'[g] = hooks[g]
    BY <2>0
  <2>2. hooks' = [g \in DOMAIN hooks' |-> hooks'[g]]
    BY <2>0 DEF WInv, HooksOK
  <2>3. HooksOK' /\ KeysOK'
    BY <2>0, <2>1, <2>2 DEF WInv, HooksOK, KeysOK
  <2> QED BY <2>0, <2>3 DEF WInv, CallsOK, LogOK, WholeAndSigned
<1> QED BY <1>1, <1>2

(* A call that starts has a task for each subscription or none. *)
LEMMA DeliverStep ==
  ASSUME WInv, NEW d \in Dispatches, NEW event, Deliver(d, event)
  PROVE  WInv'
<1> DEFINE due == GetSubscribed(event)
           sending == [phase |-> "sending", due |-> due, to |-> [h \in due |-> "pending"],
                       signed |-> {h \in due : hooks[h].stored = cryptKey}]
           failed == [phase |-> "failed", due |-> due, to |-> <<>>, signed |-> {}]
<1>0. /\ sends[d].phase = "idle" /\ UNCHANGED <<hooks, issued, cryptKey, restarts, removing, log>>
      /\ sends' = [sends EXCEPT ![d] = IF \A h \in due : Readable(hooks[h].stored)
                                       THEN sending ELSE failed]
  BY DEF Deliver
<1>1. /\ sending.phase = "sending" /\ sending.due = due /\ DOMAIN sending.to = due
      /\ \A h \in due : sending.to[h] = "pending"
      /\ sending.signed = {h \in due : hooks[h].stored = cryptKey}
      /\ failed.phase = "failed" /\ DOMAIN failed.to = {} /\ failed.signed = {}
  OBVIOUS
<1>2. IsCall(sending) /\ IsCall(failed)
  BY DEF IsCall, TaskStates
<1>3. sends'[d] = (IF \A h \in due : Readable(hooks[h].stored) THEN sending ELSE failed)
      /\ \A c \in Dispatches : c # d => sends'[c] = sends[c]
  BY <1>0 DEF WInv, CallsOK
<1>4. due \subseteq DOMAIN hooks
  BY DEF GetSubscribed
<1> HIDE DEF sending, failed, due
<1>5. CallsOK'
  BY <1>0, <1>2, <1>3 DEF WInv, CallsOK
<1>6. DOMAIN sends[d].to = {} /\ \A h \in DOMAIN sends'[d].to : sends'[d].to[h] = "pending"
  BY <1>0, <1>1, <1>3 DEF WInv, CallsOK, IsCall
<1>7. LogOK'
  <2>1. "pending" \notin HasRow
    BY DEF HasRow
  <2> QED BY <1>0, <1>3, <1>6, <2>1 DEF WInv, LogOK
<1>8. ASSUME restarts = 0 \/ cryptKey # NoCryptKey, \A h \in due : Readable(hooks[h].stored)
      PROVE  sending.signed = due
  BY <1>1, <1>4, <1>8 DEF WInv, KeysOK, Readable
<1>9. WholeAndSigned'
  <2> SUFFICES ASSUME NEW c \in Dispatches
               PROVE  /\ DOMAIN sends'[c].to \in {{}, sends'[c].due}
                      /\ restarts' = 0 \/ (cryptKey' # NoCryptKey /\ sends'[c].phase = "sending")
                           => sends'[c].signed = DOMAIN sends'[c].to
    BY DEF WholeAndSigned
  <2>1. CASE c # d
    BY <1>0, <1>3, <2>1 DEF WInv, WholeAndSigned
  <2>2. CASE c = d /\ \A h \in due : Readable(hooks[h].stored)
    BY <1>0, <1>1, <1>3, <1>8, <2>2
  <2>3. CASE c = d /\ ~ \A h \in due : Readable(hooks[h].stored)
    BY <1>1, <1>3, <2>3
  <2> QED BY <2>1, <2>2, <2>3
<1> QED BY <1>0, <1>5, <1>7, <1>9 DEF WInv, HooksOK, KeysOK

(* A task that moves keeps the call it is of. *)
LEMMA TaskMoves ==
  ASSUME WInv, NEW d \in Dispatches, NEW h \in DOMAIN sends[d].to, NEW state \in TaskStates,
         sends[d].phase = "sending", sends' = [sends EXCEPT ![d].to[h] = state],
         UNCHANGED <<cryptKey, restarts>>
  PROVE  /\ CallsOK' /\ WholeAndSigned'
         /\ DOMAIN sends'[d].to = DOMAIN sends[d].to /\ sends'[d].to[h] = state
         /\ \A g \in DOMAIN sends[d].to : g # h => sends'[d].to[g] = sends[d].to[g]
         /\ \A c \in Dispatches : c # d => sends'[c] = sends[c]
<1> DEFINE s == sends[d]
           t == [s EXCEPT !.to = [s.to EXCEPT ![h] = state]]
<1>1. sends' = [sends EXCEPT ![d] = t]
  OBVIOUS
<1>2. sends'[d] = t /\ \A c \in Dispatches : c # d => sends'[c] = sends[c]
  BY <1>1 DEF WInv, CallsOK
<1>3. IsCall(s)
  BY DEF WInv, CallsOK
<1>4. t.phase = s.phase /\ t.due = s.due /\ t.signed = s.signed
      /\ t.to = [s.to EXCEPT ![h] = state]
  BY <1>3 DEF IsCall
<1>5. t = [phase |-> t.phase, due |-> t.due, to |-> t.to, signed |-> t.signed]
  BY <1>3 DEF IsCall
<1> HIDE DEF s, t
<1>6. DOMAIN t.to = DOMAIN s.to /\ h \in DOMAIN s.to
  BY <1>4 DEF s
<1>7. t.to[h] = state /\ \A g \in DOMAIN s.to : g # h => t.to[g] = s.to[g]
  BY <1>4, <1>6
<1>8. IsCall(t)
  <2>1. t.to = [g \in DOMAIN t.to |-> t.to[g]]
    BY <1>4
  <2> QED BY <1>3, <1>4, <1>5, <1>6, <1>7, <2>1 DEF IsCall, s
<1>9. CallsOK'
  BY <1>1, <1>2, <1>8 DEF WInv, CallsOK
<1>10. WholeAndSigned'
  BY <1>2, <1>4, <1>6 DEF WInv, WholeAndSigned, s
<1> QED BY <1>2, <1>6, <1>7, <1>9, <1>10 DEF s

(* What a task is at says that its call runs. *)
LEMMA AtTask ==
  ASSUME NEW d, NEW h, TaskAt(d, h) \in TaskStates
  PROVE  /\ sends[d].phase = "sending" /\ h \in DOMAIN sends[d].to /\ sends[d].to[h] = TaskAt(d, h)
<1>1. TaskAt(d, h) # "none"
  BY DEF TaskStates, Statuses, HasRow
<1> QED BY <1>1 DEF TaskAt

(* A task that moves without passing its COMMIT keeps the invariant. *)
LEMMA QuietMove ==
  ASSUME WInv, NEW d \in Dispatches, NEW h, NEW state \in TaskStates, TaskAt(d, h) \in TaskStates,
         Goto(d, h, state), UNCHANGED log, state \in HasRow <=> TaskAt(d, h) \in HasRow
  PROVE  WInv'
<1>1. /\ h \in DOMAIN sends[d].to /\ sends[d].phase = "sending"
      /\ sends' = [sends EXCEPT ![d].to[h] = state]
      /\ UNCHANGED <<hooks, issued, cryptKey, restarts, removing, log>>
      /\ state \in HasRow <=> sends[d].to[h] \in HasRow
  BY AtTask DEF Goto
<1>2. /\ CallsOK' /\ WholeAndSigned'
      /\ DOMAIN sends'[d].to = DOMAIN sends[d].to /\ sends'[d].to[h] = state
      /\ \A g \in DOMAIN sends[d].to : g # h => sends'[d].to[g] = sends[d].to[g]
      /\ \A c \in Dispatches : c # d => sends'[c] = sends[c]
  BY <1>1, TaskMoves
<1>3. LogOK'
  <2> SUFFICES ASSUME NEW c \in Dispatches, NEW g
               PROVE  (g \in DOMAIN sends'[c].to /\ sends'[c].to[g] \in HasRow)
                        <=> \E made \in Statuses : <<c, g, made>> \in log
    BY <1>1 DEF LogOK
  <2>1. (g \in DOMAIN sends[c].to /\ sends[c].to[g] \in HasRow)
          <=> \E made \in Statuses : <<c, g, made>> \in log
    BY DEF WInv, LogOK
  <2>2. CASE c = d /\ g = h
    BY <1>1, <1>2, <2>1, <2>2
  <2>3. CASE c = d /\ g # h
    BY <1>1, <1>2, <2>1, <2>3
  <2>4. CASE c # d
    BY <1>1, <1>2, <2>1, <2>4
  <2> QED BY <2>2, <2>3, <2>4
<1> QED BY <1>1, <1>2, <1>3 DEF WInv, HooksOK, KeysOK

\* The call of an endpoint keeps the invariant.
LEMMA ContactStep ==
  ASSUME WInv, NEW d \in Dispatches, NEW h, NEW outcome \in Statuses \cup {"lost"},
         Contact(d, h, outcome)
  PROVE  WInv'
<1>1. /\ outcome \in TaskStates /\ outcome \notin HasRow
      /\ "pending" \in TaskStates /\ "pending" \notin HasRow
  BY DEF Statuses, TaskStates, HasRow
<1> QED BY <1>1, QuietMove DEF Contact

\* Reading the row back keeps the invariant.
LEMMA ReadBackStep ==
  ASSUME WInv, NEW d \in Dispatches, NEW h, NEW found \in BOOLEAN, ReadBack(d, h, found)
  PROVE  WInv'
<1>1. {"logged", "recorded", "dropped"} \subseteq HasRow \cap TaskStates
  BY DEF TaskStates, HasRow
<1>2. CASE found
  BY <1>1, <1>2, QuietMove DEF ReadBack
<1>3. CASE ~found
  BY <1>1, <1>3, QuietMove DEF ReadBack
<1> QED BY <1>2, <1>3

\* The COMMIT of a row keeps the invariant.
LEMMA LogDeliveryStep ==
  ASSUME WInv, NEW d \in Dispatches, NEW h, NEW committed \in BOOLEAN, LogDelivery(d, h, committed)
  PROVE  WInv'
<1> DEFINE state == IF committed THEN "logged" ELSE "lost"
           old == sends[d].to[h]
<1>0. TaskAt(d, h) \in Statuses /\ TaskAt(d, h) \in TaskStates
  BY DEF LogDelivery, TaskStates
<1>1. /\ h \in DOMAIN sends[d].to /\ old \in Statuses /\ sends[d].phase = "sending"
      /\ sends' = [sends EXCEPT ![d].to[h] = state]
      /\ log' = IF committed THEN log \cup {<<d, h, old>>} ELSE log
      /\ UNCHANGED <<hooks, issued, cryptKey, restarts, removing>>
  BY <1>0, AtTask DEF LogDelivery, Goto
<1>2. state \in TaskStates /\ old \notin HasRow /\ (state \in HasRow <=> committed)
  BY <1>1 DEF Statuses, TaskStates, HasRow
<1> HIDE DEF state
<1>3. /\ CallsOK' /\ WholeAndSigned'
      /\ DOMAIN sends'[d].to = DOMAIN sends[d].to /\ sends'[d].to[h] = state
      /\ \A g \in DOMAIN sends[d].to : g # h => sends'[d].to[g] = sends[d].to[g]
      /\ \A c \in Dispatches : c # d => sends'[c] = sends[c]
  BY <1>1, <1>2, TaskMoves
<1>4. \A status \in Statuses : <<d, h, status>> \notin log
  BY <1>1, <1>2 DEF WInv, LogOK
<1>5. \A c, g, status : <<c, g, status>> \in log' <=>
        <<c, g, status>> \in log \/ (committed /\ c = d /\ g = h /\ status = old)
  BY <1>1
<1>6. LogOK'
  <2> SUFFICES ASSUME NEW c \in Dispatches, NEW g
               PROVE  (g \in DOMAIN sends'[c].to /\ sends'[c].to[g] \in HasRow)
                        <=> \E status \in Statuses : <<c, g, status>> \in log'
    BY DEF LogOK
  <2>1. (g \in DOMAIN sends[c].to /\ sends[c].to[g] \in HasRow)
          <=> \E status \in Statuses : <<c, g, status>> \in log
    BY DEF WInv, LogOK
  <2>2. CASE c = d /\ g = h
    BY <1>1, <1>2, <1>3, <1>4, <1>5, <2>2
  <2>3. CASE c # d \/ g # h
    <3>1. \A status : <<c, g, status>> \in log' <=> <<c, g, status>> \in log
      BY <1>5, <2>3
    <3> QED BY <1>3, <2>1, <2>3, <3>1
  <2> QED BY <2>2, <2>3
<1> QED BY <1>1, <1>3, <1>6 DEF WInv, HooksOK, KeysOK

(* The end of a call and a restart keep the tasks. *)
LEMMA PhaseMoves ==
  ASSUME NEW s, IsCall(s), s.phase # "idle", NEW phase \in {"returned", "killed"}
  PROVE  LET t == [s EXCEPT !.phase = phase]
         IN  /\ IsCall(t) /\ t.phase = phase /\ t.to = s.to /\ t.due = s.due /\ t.signed = s.signed
BY DEF IsCall

\* The return of a call keeps the invariant.
LEMMA ReturnStep ==
  ASSUME WInv, NEW d \in Dispatches, Return(d)
  PROVE  WInv'
<1> DEFINE t == [sends[d] EXCEPT !.phase = "returned"]
<1>1. /\ sends[d].phase = "sending" /\ sends' = [sends EXCEPT ![d] = t]
      /\ UNCHANGED <<hooks, issued, cryptKey, restarts, removing, log>>
  BY DEF Return
<1>2. IsCall(t) /\ t.phase = "returned" /\ t.to = sends[d].to /\ t.due = sends[d].due
      /\ t.signed = sends[d].signed
  BY <1>1, PhaseMoves DEF WInv, CallsOK
<1> HIDE DEF t
<1>3. sends'[d] = t /\ \A c \in Dispatches : c # d => sends'[c] = sends[c]
  BY <1>1 DEF WInv, CallsOK
<1>4. CallsOK'
  BY <1>1, <1>2, <1>3 DEF WInv, CallsOK
<1>5. \A c \in Dispatches : /\ sends'[c].to = sends[c].to /\ sends'[c].due = sends[c].due
                            /\ sends'[c].signed = sends[c].signed
                            /\ sends'[c].phase = "sending" => sends[c].phase = "sending"
  BY <1>2, <1>3
<1>r. UNCHANGED <<log, cryptKey, restarts>>
  BY <1>1
<1>6. LogOK'
  BY <1>r, <1>5 DEF WInv, LogOK
<1>7. WholeAndSigned'
  BY <1>r, <1>5 DEF WInv, WholeAndSigned
<1> QED BY <1>1, <1>4, <1>6, <1>7 DEF WInv, HooksOK, KeysOK

\* A restart with another key keeps the invariant.
LEMMA RestartStep ==
  ASSUME WInv, NEW key, Restart(key)
  PROVE  WInv'
<1> DEFINE Later(d) == IF sends[d].phase = "sending"
                       THEN [sends[d] EXCEPT !.phase = "killed"] ELSE sends[d]
<1>1. /\ restarts' = restarts + 1 /\ removing' = {} /\ UNCHANGED <<hooks, issued, log>>
      /\ sends' = [d \in Dispatches |-> Later(d)]
  BY DEF Restart
<1>2. \A d \in Dispatches : IsCall(sends[d])
  BY DEF WInv, CallsOK
<1>3. ASSUME NEW d \in Dispatches
      PROVE  /\ IsCall(Later(d)) /\ Later(d).phase # "sending" /\ Later(d).to = sends[d].to
             /\ Later(d).due = sends[d].due
  BY <1>2, PhaseMoves
<1> HIDE DEF Later
<1>4. CallsOK' /\ LogOK'
  BY <1>1, <1>3 DEF WInv, CallsOK, LogOK
<1>5. restarts' # 0
  BY <1>1 DEF WInv, HooksOK
<1>6. WholeAndSigned'
  BY <1>1, <1>3, <1>5 DEF WInv, WholeAndSigned
<1> QED BY <1>1, <1>4, <1>5, <1>6 DEF WInv, HooksOK, KeysOK

\* Every step of the webhooks keeps the invariant.
LEMMA WebhooksStep == ASSUME WInv, [WebhooksNext]_hookVars PROVE WInv'
<1>1. CASE UNCHANGED hookVars
  BY <1>1 DEF hookVars, WInv, HooksOK, CallsOK, LogOK, KeysOK, WholeAndSigned
<1> QED BY <1>1, RegisterStep, RemovalSteps, DeliverStep, ContactStep, LogDeliveryStep,
           ReadBackStep, ReturnStep, RestartStep DEF WebhooksNext, Store

\* The invariant holds of every behaviour of the webhooks.
LEMMA WebhooksInvariant == WebhooksSpec => []WInv
<1>1. WebhooksInit => WInv
  <2> SUFFICES ASSUME WebhooksInit PROVE WInv
    OBVIOUS
  <2>1. IsCall(NotCalled) /\ DOMAIN NotCalled.to = {} /\ NotCalled.signed = {} /\ NotCalled.due = {}
    BY DEF NotCalled, IsCall
  <2>2. \A d \in Dispatches : sends[d] = NotCalled
    BY DEF WebhooksInit
  <2>3. hooks = << >> /\ DOMAIN hooks = {} /\ hooks = [h \in DOMAIN hooks |-> hooks[h]]
    BY DEF WebhooksInit
  <2>4. HooksOK /\ KeysOK
    BY <2>3 DEF WebhooksInit, HooksOK, KeysOK
  <2>5. CallsOK
    BY <2>1, <2>2 DEF WebhooksInit, CallsOK
  <2>6. LogOK /\ WholeAndSigned
    BY <2>1, <2>2 DEF WebhooksInit, LogOK, WholeAndSigned
  <2> QED BY <2>4, <2>5, <2>6 DEF WInv
<1> QED BY <1>1, WebhooksStep, PTL DEF WebhooksSpec

(* Every record that a call of deliver_event returns has its row, and a row without a
   record is of a task that failed, or stopped, after its COMMIT: whatever fails and
   whenever the service is restarted. *)
THEOREM RecordsCorrect == WebhooksSpec => []RecordsMatchLog
<1>1. WInv => RecordsMatchLog
  BY DEF WInv, LogOK, RecordsMatchLog
<1> QED BY <1>1, WebhooksInvariant, PTL

(* Whole events, signed as their owners asked as long as the service has a key, for any
   number of calls, registrations and changes of the key. *)
THEOREM SigningCorrect == WebhooksSpec => []WholeAndSigned
<1>1. WInv => WholeAndSigned
  BY DEF WInv
<1> QED BY <1>1, WebhooksInvariant, PTL

(* A registration goes by a removal that its owner asked for and never changes. *)
THEOREM RemovalCorrect == WebhooksSpec => OnlyOwnerRemoves
<1> DEFINE Safe == \A h \in DOMAIN hooks :
                     /\ h \notin DOMAIN hooks' => <<hooks[h].owner, h>> \in removing
                     /\ h \in DOMAIN hooks' => hooks'[h] = hooks[h]
<1>1. ASSUME WInv, WebhooksNext PROVE Safe
  <2>1. ASSUME NEW o, NEW h, NEW events, Register(o, h, events)
        PROVE  Safe
    <3>1. h \notin DOMAIN hooks
      BY <1>1, <2>1 DEF Register, WInv, HooksOK
    <3> QED BY <2>1, <3>1 DEF Register
  <2>2. ASSUME NEW o, NEW h, NEW committed \in BOOLEAN, RemoveWebhook(o, h, committed)
        PROVE  Safe
    <3>1. <<o, h>> \in removing /\ (h \in DOMAIN hooks => hooks[h].owner = o)
      BY <1>1, <2>2 DEF RemoveWebhook, WInv, HooksOK
    <3>2. hooks' = hooks \/ hooks' = [g \in DOMAIN hooks \ {h} |-> hooks[g]]
      BY <2>2 DEF RemoveWebhook
    <3> QED BY <3>1, <3>2
  <2>3. CASE UNCHANGED hooks
    BY <2>3
  <2>4. \/ UNCHANGED hooks
        \/ \E o \in Owners, h \in Hooks : \/ \E events \in Subscriptions : Register(o, h, events)
                                          \/ \E committed \in BOOLEAN : RemoveWebhook(o, h, committed)
    BY <1>1 DEF WebhooksNext, Store, CheckRemoval, Deliver, Contact, LogDelivery, ReadBack, Goto,
                Return, Restart
  <2> QED BY <2>1, <2>2, <2>3, <2>4
<1>2. WInv /\ [WebhooksNext]_hookVars => [Safe]_hookVars
  BY <1>1
<1> QED BY <1>2, WebhooksInvariant, PTL DEF WebhooksSpec, OnlyOwnerRemoves

--------------------------------------------------------------------------------
(* The inductive invariant: the types, and whose the tokens are. *)
AccessInv == AccessTypeOK /\ NoTokenForKey

KeyRow == [role : Roles, expires : Nat \cup {NoExpiry}, revoked : BOOLEAN]

(* What is refreshed is a token that can still be decoded. *)
LEMMA RefreshedIsToken ==
  ASSUME NEW a \in Authenticated, a.sub # StaticKey, ~a.scoped
  PROVE  \E t \in tokens : now < t.exp /\ t.sub = a.sub /\ t.role = a.role
<1>1. CASE \E t \in {x \in tokens : Decodable(x)} : a = Identity(t.sub, t.role, FALSE)
  BY <1>1 DEF Decodable, Identity
<1>2. CASE \E k \in {x \in DOMAIN keys : Lookup(x)} : a = Identity(k, keys[k].role, TRUE)
  BY <1>2 DEF Identity
<1>3. CASE a = Identity(StaticKey, NoRole, FALSE)
  BY <1>3 DEF Identity
<1> QED BY <1>1, <1>2, <1>3 DEF Authenticated

(* A new token is of an account or of the demo user, has its role from a login that read
   it, from nowhere, or from a token that lives, and lives as long as any.  *)
LEMMA IssuedToken ==
  ASSUME AccessInv,
         \/ \E u \in Customers, role \in Roles : FinishLogin(u, role)
         \/ IssueToken
         \/ \E a \in Authenticated : Refresh(a)
  PROVE  /\ UNCHANGED <<customers, keys, created, now>> /\ logins' \subseteq logins
         /\ \E s \in Customers \cup {DemoUser}, r \in Roles \cup {NoRole} :
              /\ tokens' = tokens \cup {[sub |-> s, role |-> r, exp |-> now + Lifetime]}
              /\ r = "admin" => HasRights(s)
<1>1. CASE \E u \in Customers, role \in Roles : FinishLogin(u, role)
  <2>1. PICK u \in Customers, role \in Roles : FinishLogin(u, role)
    BY <1>1
  <2>2. role = "admin" => HasRights(u)
    BY <2>1 DEF FinishLogin, HasRights
  <2> QED BY <2>1, <2>2 DEF FinishLogin, Issue
<1>2. CASE IssueToken
  BY <1>2, AccessAssumption DEF IssueToken, Issue, AccessAssumption
<1>3. CASE \E a \in Authenticated : Refresh(a)
  <2>1. PICK a \in Authenticated : Refresh(a)
    BY <1>3
  <2>2. PICK t \in tokens : now < t.exp /\ t.sub = a.sub /\ t.role = a.role
    BY <2>1, RefreshedIsToken DEF Refresh
  <2>3. a.sub \in Customers \cup {DemoUser} /\ a.role \in Roles \cup {NoRole}
    BY <2>2 DEF AccessInv, NoTokenForKey, AccessTypeOK
  <2>4. a.role = "admin" => HasRights(a.sub)
    BY <2>2 DEF HasRights
  <2>5. /\ UNCHANGED <<customers, logins, keys, created, now>>
        /\ tokens' = tokens \cup {[sub |-> a.sub, role |-> a.role, exp |-> now + Lifetime]}
    BY <2>1 DEF Refresh, Issue
  <2> QED BY <2>3, <2>4, <2>5
<1> QED BY <1>1, <1>2, <1>3

(* The kinds of a step. *)
Issuing == \/ \E u \in Customers, role \in Roles : FinishLogin(u, role)
           \/ IssueToken
           \/ \E a \in Authenticated : Refresh(a)
Entering == \E u \in Customers : Login(u) \/ \E role \in Roles : DropLogin(u, role)
Managing == \E u \in Customers : \/ \E role \in Roles : SetRole(u, role)
                                 \/ \E active \in BOOLEAN : SetActive(u, active)
Creating == \E k \in ApiKeys, role \in Roles, expires \in Nat \cup {NoExpiry} : CreateKey(k, role, expires)
Revoking == \E k \in ApiKeys : Revoke(Prefix(k))

\* Each step is of one of seven kinds, by what it writes.
LEMMA AccessKinds ==
  ASSUME AccessInv, AccessNext
  PROVE  Issuing \/ Entering \/ Managing \/ Creating \/ Revoking \/ PruneExpired \/ Pass
<1>1. now \in Nat /\ Lifetimes \subseteq Nat
  BY AccessAssumption DEF AccessInv, AccessTypeOK, AccessAssumption
<1>2. ASSUME NEW e \in {now + life : life \in Lifetimes} \cup {NoExpiry}
      PROVE  e \in Nat \cup {NoExpiry}
  <2>1. CASE e = NoExpiry
    BY <2>1
  <2>2. CASE e # NoExpiry
    <3>1. PICK life \in Lifetimes : e = now + life
      BY <2>2
    <3> QED BY <1>1, <3>1
  <2> QED BY <2>1, <2>2
<1> QED BY <1>2 DEF AccessNext, Issuing, Entering, Managing, Creating, Revoking

\* The invariant holds of the first state.
LEMMA AccessStart == AccessInit => AccessInv
BY AccessAssumption DEF AccessInit, AccessInv, AccessTypeOK, NoTokenForKey, Roles, AccessAssumption

(* The invariant holds after each kind of step, part by part. *)
CustomersOK == customers \in [Customers -> [role : Roles, active : BOOLEAN]]
LoginsOK == logins \subseteq Customers \X Roles
TokensOK ==
  \A t \in tokens : t.role \in Roles \cup {NoRole} /\ t.exp \in now .. now + Lifetime
KeyRowsOK ==
  /\ DOMAIN keys \subseteq created /\ created \subseteq ApiKeys
  /\ \A k \in DOMAIN keys : keys[k] \in KeyRow

\* The invariant, table by table.
LEMMA AccessParts == AccessInv <=> CustomersOK /\ LoginsOK /\ TokensOK /\ KeyRowsOK /\ now \in 0 .. Horizon /\ NoTokenForKey
BY DEF AccessInv, AccessTypeOK, CustomersOK, LoginsOK, TokensOK, KeyRowsOK, KeyRow

\* Every step keeps the invariant.
LEMMA AccessKept == ASSUME AccessInv, [AccessNext]_accessVars PROVE AccessInv'
<1> USE AccessAssumption DEF AccessAssumption
<1>0. CustomersOK /\ LoginsOK /\ TokensOK /\ KeyRowsOK /\ now \in 0 .. Horizon /\ NoTokenForKey
  BY AccessParts
<1>1. CASE Issuing
  <2>1. PICK s \in Customers \cup {DemoUser}, r \in Roles \cup {NoRole} :
          /\ UNCHANGED <<customers, keys, created, now>> /\ logins' \subseteq logins
          /\ tokens' = tokens \cup {[sub |-> s, role |-> r, exp |-> now + Lifetime]}
    BY <1>1, IssuedToken DEF Issuing
  <2>2. TokensOK'
    BY <1>0, <2>1 DEF TokensOK
  <2>3. NoTokenForKey'
    BY <1>0, <2>1 DEF NoTokenForKey
  <2>4. CustomersOK' /\ LoginsOK' /\ KeyRowsOK' /\ (now \in 0 .. Horizon)'
    BY <1>0, <2>1 DEF CustomersOK, LoginsOK, KeyRowsOK
  <2> QED BY <2>2, <2>3, <2>4 DEF AccessInv, AccessTypeOK, CustomersOK, LoginsOK, TokensOK, KeyRowsOK, KeyRow
<1>e. CASE Entering
  <2>1. UNCHANGED <<customers, tokens, keys, created, now>>
    BY <1>e DEF Entering, Login, DropLogin
  <2>2. LoginsOK'
    <3>1. CASE \E u \in Customers : Login(u)
      <4>1. PICK u \in Customers : logins' = logins \cup {<<u, customers[u].role>>}
        BY <3>1 DEF Login
      <4>2. customers[u].role \in Roles
        BY <1>0 DEF CustomersOK
      <4> QED BY <1>0, <4>1, <4>2 DEF LoginsOK
    <3>2. CASE \E u \in Customers, r \in Roles : DropLogin(u, r)
      BY <1>0, <3>2 DEF LoginsOK, DropLogin
    <3> QED BY <1>e, <3>1, <3>2 DEF Entering
  <2>3. CustomersOK' /\ TokensOK' /\ KeyRowsOK' /\ (now \in 0 .. Horizon)' /\ NoTokenForKey'
    BY <1>0, <2>1 DEF CustomersOK, TokensOK, KeyRowsOK, NoTokenForKey
  <2> QED BY <2>2, <2>3 DEF AccessInv, AccessTypeOK, CustomersOK, LoginsOK, TokensOK, KeyRowsOK, KeyRow
<1>2. CASE Managing
  <2>1. UNCHANGED <<logins, tokens, keys, created, now>>
    BY <1>2 DEF Managing, SetRole, SetActive
  <2>2. CustomersOK'
    BY <1>0, <1>2 DEF CustomersOK, Managing, SetRole, SetActive
  <2>3. LoginsOK' /\ TokensOK' /\ KeyRowsOK' /\ (now \in 0 .. Horizon)' /\ NoTokenForKey'
    BY <1>0, <2>1 DEF LoginsOK, TokensOK, KeyRowsOK, NoTokenForKey
  <2> QED BY <2>2, <2>3 DEF AccessInv, AccessTypeOK, CustomersOK, LoginsOK, TokensOK, KeyRowsOK, KeyRow
<1>3. ASSUME UNCHANGED <<customers, logins, tokens, now>>, KeyRowsOK' PROVE AccessInv'
  <2>1. CustomersOK' /\ LoginsOK' /\ TokensOK' /\ (now \in 0 .. Horizon)' /\ NoTokenForKey'
    BY <1>0, <1>3 DEF CustomersOK, LoginsOK, TokensOK, NoTokenForKey
  <2> QED BY <1>3, <2>1 DEF AccessInv, AccessTypeOK, CustomersOK, LoginsOK, TokensOK, KeyRowsOK, KeyRow
<1>4. CASE Creating
  <2>1. KeyRowsOK'
    BY <1>0, <1>4 DEF KeyRowsOK, Creating, CreateKey, KeyRow
  <2> QED BY <1>3, <1>4, <2>1 DEF Creating, CreateKey
<1>5. CASE Revoking
  <2>1. PICK p : Revoke(p)
    BY <1>5 DEF Revoking
  <2>2. \A k \in DOMAIN keys : [keys[k] EXCEPT !.revoked = TRUE] \in KeyRow
    BY <1>0 DEF KeyRowsOK, KeyRow
  <2>3. KeyRowsOK'
    BY <1>0, <2>1, <2>2 DEF KeyRowsOK, Revoke
  <2> QED BY <1>3, <2>1, <2>3 DEF Revoke
<1>6. CASE PruneExpired
  <2>1. KeyRowsOK'
    BY <1>0, <1>6 DEF KeyRowsOK, PruneExpired
  <2> QED BY <1>3, <1>6, <2>1 DEF PruneExpired
<1>7. CASE Pass
  <2>1. TokensOK'
    BY <1>0, <1>7 DEF TokensOK, Pass
  <2>2. CustomersOK' /\ LoginsOK' /\ KeyRowsOK' /\ (now \in 0 .. Horizon)' /\ NoTokenForKey'
    BY <1>0, <1>7 DEF CustomersOK, LoginsOK, KeyRowsOK, NoTokenForKey, Pass
  <2> QED BY <2>1, <2>2 DEF AccessInv, AccessTypeOK, CustomersOK, LoginsOK, TokensOK, KeyRowsOK, KeyRow
<1>8. CASE UNCHANGED accessVars
  BY <1>8 DEF accessVars, AccessInv, AccessTypeOK, NoTokenForKey
<1> QED BY <1>1, <1>e, <1>2, <1>4, <1>5, <1>6, <1>7, <1>8, AccessKinds

(* Accounts, tokens and keys are what the code stores, and no token lives longer than
   the settings say, for any accounts and lifetimes and any chain of refreshes
   (auth.py, create_access_token). *)
THEOREM AccessTypeCorrect == AccessSpec => []AccessTypeOK
<1>1. AccessSpec => []AccessInv
  BY AccessStart, AccessKept, PTL DEF AccessSpec
<1>2. AccessInv => AccessTypeOK
  BY DEF AccessInv
<1> QED BY <1>1, <1>2, PTL

(* No key is ever turned into a token (auth_routes.py, refresh_token). *)
THEOREM NoKeyRefreshed == AccessSpec => []NoTokenForKey
<1>1. AccessSpec => []AccessInv
  BY AccessStart, AccessKept, PTL DEF AccessSpec
<1>2. AccessInv => NoTokenForKey
  BY DEF AccessInv
<1> QED BY <1>1, <1>2, PTL

(* A key that is refused once is refused for ever (repo_api_keys.py). *)
THEOREM RefusalIsFinal == AccessSpec => KeyDiesForGood
<1>1. ASSUME AccessInv, [AccessNext]_accessVars
      PROVE  [\A k \in created : ~Lookup(k) => ~Lookup(k)']_accessVars
  <2> SUFFICES ASSUME AccessNext, NEW k \in created, ~Lookup(k) PROVE ~Lookup(k)'
    BY <1>1
  <2> USE <1>1, AccessAssumption DEF AccessAssumption
  <2>0. now \in Nat /\ \A j \in DOMAIN keys : keys[j].expires \in Nat \cup {NoExpiry}
    BY DEF AccessInv, AccessTypeOK
  <2>1. CASE Issuing
    <3>1. UNCHANGED <<keys, now>>
      BY <2>1, IssuedToken DEF Issuing
    <3> QED BY <3>1 DEF Lookup
  <2>2. CASE Managing \/ Entering
    BY <2>2 DEF Managing, SetRole, SetActive, Entering, Login, DropLogin, Lookup
  <2>3. CASE Creating
    BY <2>3 DEF Creating, CreateKey, Lookup
  <2>4. CASE Revoking
    <3>1. PICK p : Revoke(p)
      BY <2>4 DEF Revoking
    <3>2. DOMAIN keys' = DOMAIN keys /\ now' = now
      BY <3>1 DEF Revoke
    <3>3. CASE k \in DOMAIN keys
      <4>1. keys'[k] = IF Prefix(k) = p THEN [keys[k] EXCEPT !.revoked = TRUE] ELSE keys[k]
        BY <3>1, <3>3 DEF Revoke
      <4>2. keys[k] \in KeyRow
        BY <3>3 DEF AccessInv, AccessTypeOK, KeyRow
      <4>3. keys'[k].expires = keys[k].expires /\ (keys[k].revoked => keys'[k].revoked)
        BY <4>1, <4>2 DEF KeyRow
      <4> QED BY <3>2, <3>3, <4>3 DEF Lookup
    <3> QED BY <3>2, <3>3 DEF Lookup
  <2>5. CASE PruneExpired
    BY <2>5 DEF PruneExpired, Lookup
  <2>6. CASE Pass
    BY <2>0, <2>6 DEF Pass, Lookup
  <2> QED BY <2>1, <2>2, <2>3, <2>4, <2>5, <2>6, AccessKinds
<1> QED BY <1>1, AccessStart, AccessKept, PTL DEF AccessSpec, KeyDiesForGood

(* Pruning removes no key that is still accepted (repo_api_keys.py, prune_expired). *)
THEOREM PruningIsSilent == AccessSpec => PruneOnlyDead
<1>1. ASSUME AccessInv, [AccessNext]_accessVars
      PROVE  [\A k \in DOMAIN keys : k \notin DOMAIN keys' => ~Lookup(k)]_accessVars
  <2> SUFFICES ASSUME AccessNext, NEW k \in DOMAIN keys, k \notin DOMAIN keys' PROVE ~Lookup(k)
    BY <1>1
  <2> USE <1>1
  <2>1. CASE Issuing
    BY <2>1, IssuedToken DEF Issuing
  <2>2. CASE Managing \/ Entering
    BY <2>2 DEF Managing, SetRole, SetActive, Entering, Login, DropLogin
  <2>3. CASE Creating
    BY <2>3 DEF Creating, CreateKey
  <2>4. CASE Revoking
    BY <2>4 DEF Revoking, Revoke
  <2>5. CASE PruneExpired
    BY <2>5 DEF PruneExpired, Lookup
  <2>6. CASE Pass
    BY <2>6 DEF Pass
  <2> QED BY <2>1, <2>2, <2>3, <2>4, <2>5, <2>6, AccessKinds
<1> QED BY <1>1, AccessStart, AccessKept, PTL DEF AccessSpec, PruneOnlyDead

(* Once a demoted customer has no live token, and no login is under way that read the
   role before, the rights come back only by a promotion (auth_routes.py, refresh_token;
   user_routes.py, login; roles.py, require_role). *)
THEOREM RightsComeByPromotion == AccessSpec => RightsDontReturn
<1>1. ASSUME AccessInv, [AccessNext]_accessVars
      PROVE  [\A u \in Customers \cup {DemoUser} :
                ~HasRights(u) /\ HasRights(u)' => u \in Customers /\ customers'[u].role = "admin"]_accessVars
  <2> SUFFICES ASSUME AccessNext, NEW u \in Customers \cup {DemoUser}, ~HasRights(u),
                      \/ <<u, "admin">> \in logins'
                      \/ \E t \in tokens' : t.sub = u /\ t.role = "admin" /\ now' < t.exp
               PROVE  FALSE
    BY <1>1 DEF HasRights
  <2> USE <1>1, AccessAssumption DEF AccessAssumption
  <2>0. now \in Nat /\ \A x \in tokens : x.exp \in Nat
    BY DEF AccessInv, AccessTypeOK
  <2>1. ASSUME logins' \subseteq logins
        PROVE  \E t \in tokens' : t.sub = u /\ t.role = "admin" /\ now' < t.exp
    BY <2>1 DEF HasRights
  <2>2. ASSUME UNCHANGED <<tokens, now>>
        PROVE  <<u, "admin">> \in logins' /\ <<u, "admin">> \notin logins
    BY <2>2 DEF HasRights
  <2>3. CASE Issuing
    <3>1. PICK s \in Customers \cup {DemoUser}, r \in Roles \cup {NoRole} :
            /\ now' = now /\ logins' \subseteq logins
            /\ tokens' = tokens \cup {[sub |-> s, role |-> r, exp |-> now + Lifetime]}
            /\ r = "admin" => HasRights(s)
      BY <2>3, IssuedToken DEF Issuing
    <3>2. PICK t \in tokens' : t.sub = u /\ t.role = "admin" /\ now' < t.exp
      BY <2>1, <3>1
    <3>3. CASE t \in tokens
      BY <3>1, <3>2, <3>3 DEF HasRights
    <3>4. CASE t = [sub |-> s, role |-> r, exp |-> now + Lifetime]
      <4>1. t.sub = s /\ t.role = r
        BY <3>4
      <4> QED BY <3>1, <3>2, <4>1
    <3> QED BY <3>1, <3>3, <3>4
  <2>4. CASE Entering
    <3>1. PICK v \in Customers : Login(v) \/ \E role \in Roles : DropLogin(v, role)
      BY <2>4 DEF Entering
    <3>2. <<u, "admin">> = <<v, customers[v].role>>
      BY <2>2, <3>1 DEF Login, DropLogin
    <3> QED BY <3>2 DEF HasRights
  <2>5. CASE Managing \/ Creating \/ Revoking \/ PruneExpired
    <3>1. UNCHANGED <<logins, tokens, now>>
      BY <2>5 DEF Managing, SetRole, SetActive, Creating, CreateKey, Revoking, Revoke, PruneExpired
    <3> QED BY <2>2, <3>1
  <2>6. CASE Pass
    <3>1. UNCHANGED logins
      BY <2>6 DEF Pass
    <3>2. PICK t \in tokens' : t.sub = u /\ t.role = "admin" /\ now' < t.exp
      BY <2>1, <3>1
    <3>3. t \in tokens /\ now < t.exp
      BY <2>0, <2>6, <3>2 DEF Pass
    <3> QED BY <3>2, <3>3 DEF HasRights
  <2> QED BY <2>3, <2>4, <2>5, <2>6, AccessKinds
<1> QED BY <1>1, AccessStart, AccessKept, PTL DEF AccessSpec, RightsDontReturn

(* All of it at once: what is revoked, expired or taken away does not come back. *)
THEOREM AccessCorrect == AccessSpec => AccessSound
BY AccessTypeCorrect, NoKeyRefreshed, RefusalIsFinal, PruningIsSilent, RightsComeByPromotion, PTL
   DEF AccessSound

--------------------------------------------------------------------------------
FlagRow == [enabled : BOOLEAN, targeting : RuleSets]
Wishes == [enabled : BOOLEAN \cup {NotGiven}, targeting : (RuleSets \ {{}}) \cup {NotGiven}]
Creation == [op : {"create"}, key : FlagKeys, enabled : BOOLEAN]
Update == [op : {"update"}, key : FlagKeys, seen : FlagRow, asked : Wishes]

(* The inductive invariant is what a request knows between its read and its commit: an
   update is never asked for an empty list of rules. *)
FlagsTypeOK ==
  /\ flags \in [FlagKeys -> FlagRow \cup {NoFlag}]
  /\ edits \in [Admins -> Creation \cup Update \cup {NoEdit}]

\* What a request knows is told by its operation.
LEMMA FlagsKinds ==
  ASSUME FlagsTypeOK, NEW a \in Admins
  PROVE  /\ edits[a].op = "create" => edits[a] \in Creation
         /\ edits[a].op = "update" => edits[a] \in Update
         /\ edits[a] = NoEdit => edits[a].op = "none"
         /\ edits[a] # NoEdit => edits[a].op \in {"create", "update"}
<1>1. edits[a] \in Creation \cup Update \cup {NoEdit}
  BY DEF FlagsTypeOK
<1>2. CASE edits[a] \in Creation
  BY <1>2 DEF Creation, NoEdit
<1>3. CASE edits[a] \in Update
  BY <1>3 DEF Update, NoEdit
<1>4. CASE edits[a] = NoEdit
  BY <1>4 DEF NoEdit
<1> QED BY <1>1, <1>2, <1>3, <1>4

\* What update_flag is asked for is never an empty list of rules.
LEMMA AskedWish == ASSUME NEW body \in Bodies PROVE Asked(body) \in Wishes
BY FlagsAssumption DEF Bodies, Asked, Wishes, FlagsAssumption

(* Written column by column, a row stays a row and keeps its rules, or gets others. *)
LEMMA WrittenFlagRow ==
  ASSUME NEW row \in FlagRow, NEW seen \in FlagRow, NEW asked \in Wishes
  PROVE  /\ WrittenFlag(row, seen, asked) \in FlagRow
         /\ \A c \in DOMAIN row :
              asked[c] = NotGiven => WrittenFlag(row, seen, asked)[c] = row[c]
         /\ row.targeting # {} => WrittenFlag(row, seen, asked).targeting # {}
<1> DEFINE w == WrittenFlag(row, seen, asked)
<1>1. DOMAIN row = {"enabled", "targeting"}
  BY DEF FlagRow
<1>2. w = [c \in {"enabled", "targeting"} |->
             IF asked[c] \notin {NotGiven, seen[c]} THEN asked[c] ELSE row[c]]
  BY <1>1 DEF WrittenFlag
<1>3. w.enabled \in BOOLEAN
  BY <1>2 DEF FlagRow, Wishes
<1>4. w.targeting \in RuleSets /\ (row.targeting # {} => w.targeting # {})
  BY <1>2 DEF FlagRow, Wishes
<1>5. w \in FlagRow
  <2>1. w = [enabled |-> w.enabled, targeting |-> w.targeting]
    BY <1>2
  <2> QED BY <1>3, <1>4, <2>1 DEF FlagRow
<1>6. \A c \in DOMAIN row : asked[c] = NotGiven => w[c] = row[c]
  BY <1>1, <1>2
<1> QED BY <1>4, <1>5, <1>6

\* The types hold of the first state.
LEMMA FlagsStart == FlagsInit => FlagsTypeOK
BY DEF FlagsInit, FlagsTypeOK

(* What each kind of step does to the rows and to the requests. *)
LEMMA FlagsSteps ==
  ASSUME FlagsNext
  PROVE  \/ \E a \in Admins, k \in FlagKeys, enabled \in BOOLEAN : StartCreate(a, k, enabled)
         \/ \E a \in Admins, k \in FlagKeys, body \in Bodies : StartUpdate(a, k, body)
         \/ \E a \in Admins : CommitCreate(a) \/ CommitUpdate(a) \/ Abandon(a)
         \/ \E k \in FlagKeys : DeleteFlag(k)
BY DEF FlagsNext

\* Every step keeps the types.
LEMMA FlagsKept == ASSUME FlagsTypeOK, [FlagsNext]_flagVars PROVE FlagsTypeOK'
<1>1. ASSUME NEW a \in Admins, NEW k \in FlagKeys, NEW enabled \in BOOLEAN,
             StartCreate(a, k, enabled)
      PROVE  FlagsTypeOK'
  <2>1. [op |-> "create", key |-> k, enabled |-> enabled] \in Creation
    BY DEF Creation
  <2> QED BY <1>1, <2>1 DEF StartCreate, FlagsTypeOK
<1>2. ASSUME NEW a \in Admins, NEW k \in FlagKeys, NEW body \in Bodies, StartUpdate(a, k, body)
      PROVE  FlagsTypeOK'
  <2>1. flags[k] \in FlagRow /\ Asked(body) \in Wishes
    BY <1>2, AskedWish DEF StartUpdate, FlagsTypeOK
  <2>2. [op |-> "update", key |-> k, seen |-> flags[k], asked |-> Asked(body)] \in Update
    BY <2>1 DEF Update
  <2> QED BY <1>2, <2>2 DEF StartUpdate, FlagsTypeOK
<1>3. ASSUME NEW a \in Admins, CommitCreate(a) PROVE FlagsTypeOK'
  <2>1. edits[a] \in Creation
    BY <1>3, FlagsKinds DEF CommitCreate
  <2>2. edits[a].key \in FlagKeys /\ Flag(edits[a].enabled, {}) \in FlagRow
    BY <2>1, FlagsAssumption DEF Creation, Flag, FlagRow, FlagsAssumption
  <2> QED BY <1>3, <2>2 DEF CommitCreate, FlagsTypeOK
<1>4. ASSUME NEW a \in Admins, CommitUpdate(a) PROVE FlagsTypeOK'
  <2> DEFINE e == edits[a]
  <2>1. e \in Update
    BY <1>4, FlagsKinds DEF CommitUpdate
  <2>2. e.key \in FlagKeys /\ e.seen \in FlagRow /\ e.asked \in Wishes
    BY <2>1 DEF Update
  <2>3. flags[e.key] \in FlagRow \cup {NoFlag}
    BY <2>2 DEF FlagsTypeOK
  <2>4. flags[e.key] # NoFlag => WrittenFlag(flags[e.key], e.seen, e.asked) \in FlagRow
    BY <2>2, <2>3, WrittenFlagRow
  <2>5. flags' = [flags EXCEPT ![e.key] =
                    IF flags[e.key] = NoFlag THEN flags[e.key]
                    ELSE WrittenFlag(flags[e.key], e.seen, e.asked)]
    BY <1>4 DEF CommitUpdate
  <2>6. flags' \in [FlagKeys -> FlagRow \cup {NoFlag}]
    BY <2>2, <2>3, <2>4, <2>5 DEF FlagsTypeOK
  <2>7. edits' \in [Admins -> Creation \cup Update \cup {NoEdit}]
    BY <1>4 DEF CommitUpdate, FlagsTypeOK
  <2> QED BY <2>6, <2>7 DEF FlagsTypeOK
<1>5. ASSUME NEW a \in Admins, Abandon(a) PROVE FlagsTypeOK'
  BY <1>5 DEF Abandon, FlagsTypeOK
<1>6. ASSUME NEW k \in FlagKeys, DeleteFlag(k) PROVE FlagsTypeOK'
  BY <1>6 DEF DeleteFlag, FlagsTypeOK
<1>7. CASE UNCHANGED flagVars
  BY <1>7 DEF flagVars, FlagsTypeOK
<1> QED BY <1>1, <1>2, <1>3, <1>4, <1>5, <1>6, <1>7, FlagsSteps

(* How one row changes: not at all, by a deletion, by the commit of a creation when it
   is absent, or by the commit of an update when it is there. *)
LEMMA RowChange ==
  ASSUME FlagsTypeOK, FlagsNext, NEW k \in FlagKeys
  PROVE  \/ flags'[k] = flags[k]
         \/ flags'[k] = NoFlag
         \/ \E a \in Admins : /\ edits[a].op = "create" /\ edits[a].key = k
                              /\ flags[k] = NoFlag
         \/ \E a \in Admins : /\ edits[a].op = "update" /\ edits[a].key = k
                              /\ flags[k] # NoFlag
                              /\ flags'[k] = WrittenFlag(flags[k], edits[a].seen, edits[a].asked)
<1>1. CASE UNCHANGED flags
  BY <1>1
<1>2. ASSUME NEW a \in Admins, CommitCreate(a)
      PROVE  \/ flags'[k] = flags[k]
             \/ edits[a].op = "create" /\ edits[a].key = k /\ flags[k] = NoFlag
  BY <1>2 DEF CommitCreate, FlagsTypeOK
<1>3. ASSUME NEW a \in Admins, CommitUpdate(a)
      PROVE  \/ flags'[k] = flags[k]
             \/ /\ edits[a].op = "update" /\ edits[a].key = k /\ flags[k] # NoFlag
                /\ flags'[k] = WrittenFlag(flags[k], edits[a].seen, edits[a].asked)
  BY <1>3 DEF CommitUpdate, FlagsTypeOK
<1>4. ASSUME NEW j \in FlagKeys, DeleteFlag(j) PROVE flags'[k] = flags[k] \/ flags'[k] = NoFlag
  BY <1>4 DEF DeleteFlag, FlagsTypeOK
<1>5. ASSUME NEW a \in Admins, Abandon(a) PROVE UNCHANGED flags
  BY <1>5 DEF Abandon
<1>6. ASSUME NEW a \in Admins, NEW j \in FlagKeys, NEW enabled \in BOOLEAN, StartCreate(a, j, enabled)
      PROVE  UNCHANGED flags
  BY <1>6 DEF StartCreate
<1>7. ASSUME NEW a \in Admins, NEW j \in FlagKeys, NEW body \in Bodies, StartUpdate(a, j, body)
      PROVE  UNCHANGED flags
  BY <1>7 DEF StartUpdate
<1> QED BY <1>1, <1>2, <1>3, <1>4, <1>5, <1>6, <1>7, FlagsSteps

(* A request that ends is the one whose commit or failure this step is. *)
LEMMA Ending ==
  ASSUME FlagsTypeOK, FlagsNext, NEW a \in Admins, edits[a] # NoEdit, edits'[a] = NoEdit
  PROVE  CommitCreate(a) \/ CommitUpdate(a) \/ Abandon(a)
<1>1. ASSUME NEW b \in Admins, CommitCreate(b) \/ CommitUpdate(b) \/ Abandon(b) PROVE a = b
  BY <1>1 DEF CommitCreate, CommitUpdate, Abandon, FlagsTypeOK
<1>2. ASSUME NEW k \in FlagKeys, DeleteFlag(k) PROVE FALSE
  BY <1>2 DEF DeleteFlag
<1>3. ASSUME NEW b \in Admins, NEW k \in FlagKeys, NEW enabled \in BOOLEAN, StartCreate(b, k, enabled)
      PROVE  FALSE
  BY <1>3 DEF StartCreate, FlagsTypeOK
<1>4. ASSUME NEW b \in Admins, NEW k \in FlagKeys, NEW body \in Bodies, StartUpdate(b, k, body)
      PROVE  FALSE
  BY <1>4 DEF StartUpdate, FlagsTypeOK
<1> QED BY <1>1, <1>2, <1>3, <1>4, FlagsSteps

\* The types hold of every behaviour of the flags.
LEMMA FlagsInvariant == FlagsSpec => []FlagsTypeOK
BY FlagsStart, FlagsKept, PTL DEF FlagsSpec

(* Only a creation brings a flag into being, and never over another one
   (feature_flags.py, create_flag). *)
THEOREM CreationCorrect == FlagsSpec => CreationIsExclusive
<1>1. ASSUME FlagsTypeOK, [FlagsNext]_flagVars
      PROVE  [\A a \in Admins, k \in FlagKeys :
                LET e == edits[a]
                IN  /\ flags[k] = NoFlag /\ flags'[k] # NoFlag =>
                         \E b \in Admins : edits[b].op = "create" /\ edits[b].key = k
                    /\ e.op = "create" /\ edits'[a] = NoEdit /\ e.key = k /\ flags[k] # NoFlag =>
                         flags'[k] = flags[k]]_flagVars
  <2> SUFFICES ASSUME FlagsNext, NEW a \in Admins, NEW k \in FlagKeys
               PROVE  /\ flags[k] = NoFlag /\ flags'[k] # NoFlag =>
                           \E b \in Admins : edits[b].op = "create" /\ edits[b].key = k
                      /\ edits[a].op = "create" /\ edits'[a] = NoEdit /\ edits[a].key = k
                           /\ flags[k] # NoFlag => flags'[k] = flags[k]
    BY <1>1
  <2>1. ASSUME flags[k] = NoFlag, flags'[k] # NoFlag
        PROVE  \E b \in Admins : edits[b].op = "create" /\ edits[b].key = k
    BY <1>1, <2>1, RowChange
  <2>2. ASSUME edits[a].op = "create", edits'[a] = NoEdit, edits[a].key = k, flags[k] # NoFlag
        PROVE  flags'[k] = flags[k]
    <3>1. edits[a] # NoEdit
      BY <2>2 DEF NoEdit
    <3>2. CommitCreate(a) \/ Abandon(a)
      BY <1>1, <2>2, <3>1, Ending DEF CommitUpdate
    <3> QED BY <1>1, <2>2, <3>2 DEF CommitCreate, Abandon, FlagsTypeOK
  <2> QED BY <2>1, <2>2
<1> QED BY <1>1, FlagsInvariant, PTL DEF FlagsSpec, CreationIsExclusive

(* An update changes no column that it was not asked to change (feature_flags.py,
   update_flag). *)
THEOREM UpdateCorrect == FlagsSpec => OnlyAskedChanges
<1>1. ASSUME FlagsTypeOK, [FlagsNext]_flagVars
      PROVE  [\A a \in Admins, k \in FlagKeys :
                LET e == edits[a]
                IN  e.op = "update" /\ edits'[a] = NoEdit /\ e.key = k /\ flags[k] # NoFlag =>
                      \A c \in DOMAIN flags[k] :
                        e.asked[c] = NotGiven => flags'[k][c] = flags[k][c]]_flagVars
  <2> SUFFICES ASSUME FlagsNext, NEW a \in Admins, NEW k \in FlagKeys,
                      edits[a].op = "update", edits'[a] = NoEdit, edits[a].key = k,
                      flags[k] # NoFlag,
                      NEW c \in DOMAIN flags[k], edits[a].asked[c] = NotGiven
               PROVE  flags'[k][c] = flags[k][c]
    BY <1>1
  <2>1. edits[a] # NoEdit
    BY DEF NoEdit
  <2>2. CommitUpdate(a) \/ Abandon(a)
    BY <1>1, <2>1, Ending DEF CommitCreate
  <2>3. edits[a].seen \in FlagRow /\ edits[a].asked \in Wishes /\ flags[k] \in FlagRow
    BY <1>1, FlagsKinds DEF Update, FlagsTypeOK
  <2>4. CASE CommitUpdate(a)
    <3>1. flags'[k] = WrittenFlag(flags[k], edits[a].seen, edits[a].asked)
      BY <1>1, <2>4 DEF CommitUpdate, FlagsTypeOK
    <3>2. \A d \in DOMAIN flags[k] :
            edits[a].asked[d] = NotGiven =>
              WrittenFlag(flags[k], edits[a].seen, edits[a].asked)[d] = flags[k][d]
      BY <2>3, WrittenFlagRow
    <3> QED BY <3>1, <3>2
  <2>5. CASE Abandon(a)
    BY <2>5 DEF Abandon
  <2> QED BY <2>2, <2>4, <2>5
<1> QED BY <1>1, FlagsInvariant, PTL DEF FlagsSpec, OnlyAskedChanges

(* While a flag lives it keeps some of the rules it was given (flag_routes.py, update). *)
THEOREM RulesStay == FlagsSpec => RulesNeverCleared
<1>1. ASSUME FlagsTypeOK, [FlagsNext]_flagVars
      PROVE  [\A k \in FlagKeys :
                flags[k] # NoFlag /\ flags[k].targeting # {} /\ flags'[k] # NoFlag =>
                  ~Evaluate(k, {})']_flagVars
  <2> SUFFICES ASSUME FlagsNext, NEW k \in FlagKeys, flags[k] # NoFlag, flags[k].targeting # {},
                      flags'[k] # NoFlag
               PROVE  flags'[k].targeting # {}
    BY <1>1 DEF Evaluate
  <2>1. ASSUME NEW a \in Admins, edits[a].op = "update", edits[a].key = k,
               flags'[k] = WrittenFlag(flags[k], edits[a].seen, edits[a].asked)
        PROVE  flags'[k].targeting # {}
    <3>1. edits[a].seen \in FlagRow /\ edits[a].asked \in Wishes /\ flags[k] \in FlagRow
      BY <1>1, <2>1, FlagsKinds DEF Update, FlagsTypeOK
    <3>2. WrittenFlag(flags[k], edits[a].seen, edits[a].asked).targeting # {}
      <4> DEFINE row == flags[k]  seen == edits[a].seen  asked == edits[a].asked
      <4>1. row.targeting # {} /\ row \in FlagRow /\ seen \in FlagRow /\ asked \in Wishes
        BY <3>1
      <4> HIDE DEF row, seen, asked
      <4>2. WrittenFlag(row, seen, asked).targeting # {}
        BY <4>1, WrittenFlagRow
      <4> QED BY <4>2 DEF row, seen, asked
    <3> QED BY <2>1, <3>2
  <2> QED BY <1>1, <2>1, RowChange
<1> QED BY <1>1, FlagsInvariant, PTL DEF FlagsSpec, RulesNeverCleared

(* All of it at once. *)
THEOREM FlagsCorrect == FlagsSpec => FlagsSound
BY CreationCorrect, UpdateCorrect, RulesStay DEF FlagsSound

--------------------------------------------------------------------------------
(* The day of the period, one night after another. *)
LEMMA Division ==
  ASSUME NEW p \in Nat \ {0}, NEW n \in Nat
  PROVE  n % p \in 0 .. p - 1 /\ n \div p \in Int /\ n = p * (n \div p) + (n % p)
<1>1. n % p \in 0 .. p - 1
  OBVIOUS
<1>2. n \div p \in Int
  OBVIOUS
<1>3. n = p * (n \div p) + (n % p)
  OBVIOUS
<1> QED BY <1>1, <1>2, <1>3

\* A quotient and a remainder are the only ones.
LEMMA OneRemainder ==
  ASSUME NEW p \in Nat \ {0}, NEW q \in Int, NEW k \in Int, NEW r \in 0 .. p - 1,
         NEW s \in 0 .. p - 1, p * q + r = p * k + s
  PROVE  r = s
<1>1. CASE q = k
  BY <1>1
<1>2. ASSUME NEW i \in Int, NEW j \in Int, NEW x \in 0 .. p - 1, NEW y \in 0 .. p - 1,
             i > j, p * i + x = p * j + y
      PROVE  FALSE
  <2>1. PICK m \in Int : m = i - j
    BY <1>2
  <2>2. m >= 1 /\ i = j + m
    BY <1>2, <2>1
  <2>3. p * i = p * j + p * m
    BY <2>2
  <2>4. p * m >= p
    BY <2>2
  <2>5. p * i \in Int /\ p * j \in Int /\ p * m \in Int
    OBVIOUS
  <2> QED BY <1>2, <2>3, <2>4, <2>5
<1>3. CASE q > k
  BY <1>2, <1>3
<1>4. CASE q < k
  BY <1>2, <1>4
<1> QED BY <1>1, <1>3, <1>4

\* The remainder of the successor, which is what a day more does to the period.
LEMMA NextRemainder ==
  ASSUME NEW p \in Nat \ {0}, NEW n \in Nat
  PROVE  (n + 1) % p = IF (n % p) + 1 = p THEN 0 ELSE (n % p) + 1
<1> DEFINE q == n \div p
           r == n % p
           k == (n + 1) \div p
           s == (n + 1) % p
<1>1. r \in 0 .. p - 1 /\ q \in Int /\ n = p * q + r
  BY Division
<1>2. s \in 0 .. p - 1 /\ k \in Int /\ n + 1 = p * k + s
  <2>1. n + 1 \in Nat
    OBVIOUS
  <2> QED BY <2>1, Division
<1> HIDE DEF q, r, k, s
<1>3. CASE r + 1 = p
  <2>1. p * (q + 1) = p * q + p
    BY <1>1
  <2>2. p * q \in Int /\ p * k \in Int /\ p * (q + 1) \in Int
    BY <1>1, <1>2
  <2>3. p * (q + 1) + 0 = p * k + s
    BY <1>1, <1>2, <1>3, <2>1, <2>2
  <2>4. 0 \in 0 .. p - 1 /\ q + 1 \in Int
    BY <1>1
  <2>5. s = 0
    BY <1>2, <2>3, <2>4, OneRemainder
  <2> QED BY <1>3, <2>5 DEF r, s
<1>4. CASE r + 1 # p
  <2>1. p * q \in Int /\ p * k \in Int
    BY <1>1, <1>2
  <2>2. p * q + (r + 1) = p * k + s /\ r + 1 \in 0 .. p - 1
    BY <1>1, <1>2, <1>4, <2>1
  <2>3. s = r + 1
    BY <1>1, <1>2, <2>2, OneRemainder
  <2> QED BY <1>4, <2>3 DEF r, s
<1> QED BY <1>3, <1>4

-----------------------------------------------------------------------------
(* Between two prunings every copy grows older with the day of the period, and every
   30 days there is one of each month behind the last. *)
Aging ==
  /\ day \in Nat /\ period \in Nat \ {0} /\ ages \subseteq Nat
  /\ period < 7 => \A age \in ages : age <= 7 + (day % period)
  /\ period < 30 => \A age \in ages : age <= 30 + (day % period)
  /\ period = 30 => \A month \in 0 .. 12 :
                      30 * month + (day % 30) < day => 30 * month + (day % 30) \in ages

\* No copy is kept from its 8th to its 13th day, nor from its 31st to its 59th.
LEMMA Retained ==
  ASSUME NEW age \in Nat
  PROVE  /\ ShouldRetain(age) /\ age <= 13 => age <= 7
         /\ ShouldRetain(age) /\ age <= 59 => age <= 30
BY DEF ShouldRetain, Policy

\* A copy on a month's day is kept for a year.
LEMMA MonthRetained == \A month \in 0 .. 12 : ShouldRetain(30 * month)
BY DEF ShouldRetain, Policy

\* A night keeps what is known of the ages of the copies.
LEMMA NightAging == ASSUME Aging, Night PROVE Aging'
<1> DEFINE kept == {age + 1 : age \in ages} \cup {0}
           r == day % period
<1>0. /\ day \in Nat /\ period \in Nat \ {0} /\ ages \subseteq Nat
      /\ day' = day + 1 /\ period' = period /\ kept \subseteq Nat
      /\ ages' = IF day' % period = 0 THEN {age \in kept : ShouldRetain(age)} ELSE kept
  BY DEF Aging, Night
<1>1. /\ r \in 0 .. period - 1
      /\ day' % period' = IF r + 1 = period THEN 0 ELSE r + 1
  BY <1>0, Division, NextRemainder
<1>2. ages' \subseteq kept
  BY <1>0
<1>3. ASSUME NEW bound \in {7, 30}, \A age \in ages : age <= bound + r,
             \A age \in Nat : ShouldRetain(age) /\ age <= bound + period => age <= bound
      PROVE  \A age \in ages' : age <= bound + (day' % period')
  <2>1. \A age \in kept : age <= bound + (r + 1)
    BY <1>0, <1>1, <1>3
  <2>2. CASE r + 1 = period
    BY <1>0, <1>1, <1>3, <2>1, <2>2
  <2>3. CASE r + 1 # period
    BY <1>0, <1>1, <1>2, <2>1, <2>3
  <2> QED BY <2>2, <2>3
<1>4. ASSUME period < 7
      PROVE  \A age \in ages' : age <= 7 + (day' % period')
  <2>1. \A age \in Nat : ShouldRetain(age) /\ age <= 7 + period => age <= 7
    BY <1>0, <1>4, Retained
  <2> QED BY <1>3, <1>4, <2>1 DEF Aging
<1>5. ASSUME period < 30
      PROVE  \A age \in ages' : age <= 30 + (day' % period')
  <2>1. \A age \in Nat : ShouldRetain(age) /\ age <= 30 + period => age <= 30
    BY <1>0, <1>5, Retained
  <2> QED BY <1>3, <1>5, <2>1 DEF Aging
<1>6. ASSUME period = 30, NEW month \in 0 .. 12, 30 * month + (day' % 30) < day'
      PROVE  30 * month + (day' % 30) \in ages'
  <2>1. \A m \in 0 .. 12 : 30 * m + r < day => 30 * m + r + 1 \in kept
    BY <1>6 DEF Aging
  <2>2. CASE r + 1 = 30
    <3>1. day' % 30 = 0
      BY <1>0, <1>1, <1>6, <2>2
    <3>2. 30 * month \in kept
      <4>1. CASE month = 0
        BY <4>1
      <4>2. CASE month # 0
        <5>1. month - 1 \in 0 .. 12 /\ 30 * (month - 1) + r < day
              /\ 30 * (month - 1) + r + 1 = 30 * month
          BY <1>0, <1>6, <2>2, <3>1, <4>2
        <5> QED BY <2>1, <5>1
      <4> QED BY <4>1, <4>2
    <3>3. ShouldRetain(30 * month)
      BY MonthRetained
    <3> QED BY <1>0, <1>6, <3>1, <3>2, <3>3
  <2>3. CASE r + 1 # 30
    <3>1. day' % 30 = r + 1 /\ ages' = kept
      BY <1>0, <1>1, <1>6, <2>3
    <3>2. 30 * month + r < day /\ 30 * month + r + 1 = 30 * month + (day' % 30)
      BY <1>0, <1>1, <1>6, <3>1
    <3> QED BY <2>1, <3>1, <3>2
  <2> QED BY <2>2, <2>3
<1> QED BY <1>0, <1>2, <1>4, <1>5, <1>6 DEF Aging

(* However long the service runs and whatever the period: pruned more often than weekly
   only the daily copies stay, more often than every 30 days nothing older than a month,
   and every 30 days the twelve monthly ones are there. *)
THEOREM BackupsCorrect == BackupsSpec => []CopiesNeedTheirPeriod
<1>1. BackupsInit => Aging
  BY BackupsAssumption DEF BackupsInit, Aging
<1>2. Aging /\ [Night]_backupVars => Aging'
  BY NightAging DEF Aging, backupVars
<1>3. Aging => CopiesNeedTheirPeriod
  <2> SUFFICES ASSUME Aging, day % period = 0 PROVE CopiesNeedTheirPeriod
    BY DEF CopiesNeedTheirPeriod
  <2>1. /\ period < 7 => ages \subseteq 0 .. 7
        /\ period < 30 => ages \subseteq 0 .. 30
    BY DEF Aging
  <2>2. ASSUME period = 30, day > 390, NEW month \in 1 .. 12
        PROVE  30 * month \in ages
    BY <2>2 DEF Aging
  <2> QED BY <2>1, <2>2 DEF CopiesNeedTheirPeriod, Policy
<1> QED BY <1>1, <1>2, <1>3, PTL DEF BackupsSpec
================================================================================
