-------------------------------- MODULE Billing --------------------------------
(***************************************************************************)
(* The subscription of one address: Stripe emits events and delivers each  *)
(* of them any number of times in any order; handle_webhook turns one into *)
(* an upsert, which selects and then commits; a request resolves its tier  *)
(* from the rows that are left.  The table has no unique constraint.       *)
(*                                                                         *)
(* A row is its status and its plan: the subscription's identifier is      *)
(* stored and never looked at.                                             *)
(***************************************************************************)
EXTENDS Integers, Sequences

CONSTANTS Workers,       \* events that are handled at the same time
          Nicknames,     \* plan nicknames at Stripe, known to the service or not
          NoRow,         \* no row was found
          MaxEvents,     \* events that Stripe emits
          MaxDeliveries  \* deliveries of them

ASSUME BillingAssumption ==
  /\ NoRow \notin [status : {"active", "past_due", "canceled"},
                    plan : Nicknames \cup {"free", "starter"}]
  /\ MaxEvents \in Nat /\ MaxDeliveries \in Nat

VARIABLES emitted,     \* what Stripe says of the subscription, in its order
          rows,        \* the table
          upserts,     \* between the select and the commit of each worker
          deliveries,  \* deliveries so far
          handled,     \* the event whose upsert was committed last, or zero
          overlapped   \* two upserts have overlapped

billingVars == <<emitted, rows, upserts, deliveries, handled, overlapped>>

Row(status, plan) == [status |-> status, plan |-> plan]
Idle == [event |-> 0, seen |-> NoRow]

Tiers == {"free", "starter", "pro", "enterprise"}
ParseTier(plan) == IF plan \in Tiers THEN plan ELSE "free"

\* resolve_user_tier: an error of the look-up is a free tier.
\* Mutant: the status is not looked at, as in get_tier_limit, which has no caller.
ResolveUserTierAnyStatus(table) ==
  IF Len(table) # 1 THEN "free" ELSE ParseTier(table[1].plan)
ResolveUserTier(table) ==
  IF Len(table) # 1 \/ table[1].status # "active" THEN "free" ELSE ParseTier(table[1].plan)

\* What handle_webhook makes of an event; a checkout is a starter plan whatever was
\* bought.
Effect(event) ==
  CASE event.kind = "checkout" -> Row("active", "starter")
    [] event.kind = "updated" -> Row(event.status, event.plan)
    [] event.kind = "deleted" -> Row("canceled", "free")

BillingInit ==
  /\ emitted = <<>> /\ rows = <<>> /\ upserts = [w \in Workers |-> Idle]
  /\ deliveries = 0 /\ handled = 0 /\ overlapped = FALSE

\* Stripe: a subscription is bought, changes and ends; an event may lack the address.
Subscribed == emitted # <<>> /\ emitted[Len(emitted)].kind # "deleted"
Emit(kind, status, plan, named) ==
  /\ Len(emitted) < MaxEvents
  /\ (kind = "checkout") <=> ~Subscribed
  /\ emitted' = Append(emitted, [kind |-> kind, status |-> status, plan |-> plan, named |-> named])
  /\ UNCHANGED <<rows, upserts, deliveries, handled, overlapped>>
\* _extract_plan: a subscription whose plan has no nickname is a starter's.
PlanNames == Nicknames \cup {"starter"}
Events ==
  {<<"checkout", "active", "starter", TRUE>>}
    \cup ({"updated"} \X {"active", "past_due"} \X PlanNames \X BOOLEAN)
    \cup ({"deleted"} \X {"canceled"} \X {"free"} \X BOOLEAN)

\* handle_webhook up to the select of upsert, which raises when there are two rows;
\* an event without an address is only logged.
\* Mutant: the first of several rows is taken.
ReceiveFirst(w, i) ==
  /\ upserts[w] = Idle /\ deliveries < MaxDeliveries
  /\ deliveries' = deliveries + 1
  /\ IF emitted[i].named
     THEN upserts' = [upserts EXCEPT ![w] = [event |-> i, seen |-> IF rows = <<>> THEN NoRow ELSE rows[1]]]
     ELSE UNCHANGED upserts
  /\ overlapped' = (overlapped \/ \E v \in Workers : upserts[v] # Idle)
  /\ UNCHANGED <<emitted, rows, handled>>
Receive(w, i) ==
  /\ upserts[w] = Idle /\ deliveries < MaxDeliveries
  /\ deliveries' = deliveries + 1
  /\ IF emitted[i].named /\ Len(rows) <= 1
     THEN upserts' = [upserts EXCEPT ![w] = [event |-> i, seen |-> IF rows = <<>> THEN NoRow ELSE rows[1]]]
     ELSE UNCHANGED upserts
  /\ overlapped' = (overlapped \/ \E v \in Workers : upserts[v] # Idle)
  /\ UNCHANGED <<emitted, rows, handled>>

\* The unit of work names the columns that differ from what was loaded.
Written(row, seen, effect) ==
  [c \in DOMAIN row |-> IF effect[c] # seen[c] THEN effect[c] ELSE row[c]]

\* The rest of upsert: the row that was seen is updated, or a row is added.
\* Mutant: only the plan of an existing row is updated.
CommitPlan(w) ==
  LET u == upserts[w]
  IN  /\ u # Idle
      /\ rows' = IF u.seen = NoRow THEN Append(rows, Effect(emitted[u.event]))
                 ELSE [rows EXCEPT ![1].plan = Effect(emitted[u.event]).plan]
      /\ upserts' = [upserts EXCEPT ![w] = Idle] /\ handled' = u.event
      /\ UNCHANGED <<emitted, deliveries, overlapped>>
Commit(w) ==
  LET u == upserts[w]
  IN  /\ u # Idle
      /\ rows' = IF u.seen = NoRow THEN Append(rows, Effect(emitted[u.event]))
                 ELSE [rows EXCEPT ![1] = Written(@, u.seen, Effect(emitted[u.event]))]
      /\ upserts' = [upserts EXCEPT ![w] = Idle] /\ handled' = u.event
      /\ UNCHANGED <<emitted, deliveries, overlapped>>

\* The request fails before its commit: Stripe will deliver the event again.
Break(w) ==
  /\ upserts[w] # Idle /\ upserts' = [upserts EXCEPT ![w] = Idle]
  /\ UNCHANGED <<emitted, rows, deliveries, handled, overlapped>>

BillingNext ==
  \/ \E e \in Events : Emit(e[1], e[2], e[3], e[4])
  \/ \E w \in Workers : (\E i \in DOMAIN emitted : Receive(w, i)) \/ Commit(w) \/ Break(w)
BillingSpec == BillingInit /\ [][BillingNext]_billingVars
--------------------------------------------------------------------------------
\* As long as no two upserts overlap there is one row at most, and it is what the
\* event committed last made of it, however often and in whatever order the events
\* came (repo_billing.py, upsert: nothing but the order of the commits counts).
SerialUpsertsFollowEvents ==
  ~overlapped => /\ Len(rows) <= 1
                 /\ rows = <<>> <=> handled = 0
                 /\ rows # <<>> => rows[1] = Effect(emitted[handled])

\* While no two upserts have overlapped, and when the newest event is the one committed
\* last, the service gives a paid tier exactly to a subscription that Stripe calls
\* active, under a plan it knows; an older event that comes late may revive a
\* subscription or take it away (billing.py, handle_webhook; assess_routes.py,
\* resolve_user_tier).
CaughtUp ==
  ~overlapped /\ handled = Len(emitted) /\ handled # 0 =>
    (ResolveUserTier(rows) # "free"
       <=> Subscribed /\ emitted[handled].status = "active"
             /\ emitted[handled].plan \in Tiers \ {"free"})

\* Once overlapping upserts have left two rows, the address is on the free tier and
\* no event changes the table any more but for the upserts in progress: every later
\* select raises (repo_billing.py, scalar_one_or_none).
TwoRowsLockOut ==
  [][Len(rows) > 1 => /\ Len(rows') > 1 /\ ResolveUserTier(rows') = "free"
                      /\ (\A w \in Workers : upserts[w] = Idle) => UNCHANGED <<rows, upserts>>]_billingVars

\* The table follows the events as far as the order of the commits allows, and what
\* overlapping upserts break stays broken (billing.py, repo_billing.py).
BillingSound == []SerialUpsertsFollowEvents /\ []CaughtUp /\ TwoRowsLockOut
================================================================================
