-------------------------------- MODULE Webhooks --------------------------------
(***************************************************************************)
(* The webhooks that owners register and remove, and the deliveries of an  *)
(* event to those subscribed to it: a snapshot of the subscriptions, one   *)
(* task for each, a row of the log for each task, and an answer.           *)
(*                                                                         *)
(* A secret is known by the encryption key it was stored under: it is read *)
(* as it is when the service has no key, and cannot be read with another   *)
(* key than its own.                                                       *)
(***************************************************************************)
EXTENDS Naturals

CONSTANTS Hooks, Owners, EventTypes, Subscriptions,  \* sets of event types to register for
          CryptKeys, NoCryptKey,  \* values of WEBHOOK_ENCRYPTION_KEY, among them None
          Dispatches,             \* calls of deliver_event
          MaxRestarts             \* restarts of the service with another key

ASSUME WebhooksAssumption ==
  /\ NoCryptKey \in CryptKeys /\ MaxRestarts \in Nat
  /\ \A events \in Subscriptions : events \subseteq EventTypes

VARIABLES hooks,     \* the registrations, by identifier
          issued,    \* identifiers that were given out
          cryptKey,  \* the key of the running service
          restarts,
          removing,  \* removals between the check and the deletion: <<owner, hook>>
          sends,     \* the calls of deliver_event
          log        \* rows of the delivery log: <<call, hook, status>>

hookVars == <<hooks, issued, cryptKey, restarts, removing, sends, log>>

NotCalled == [phase |-> "idle", due |-> {}, to |-> <<>>, signed |-> {}]

WebhooksInit ==
  /\ hooks = <<>> /\ issued = {} /\ cryptKey \in CryptKeys /\ restarts = 0
  /\ removing = {} /\ sends = [d \in Dispatches |-> NotCalled] /\ log = {}

\* decrypt_field of a secret stored under a key.
\* Mutant: what cannot be decrypted is returned as it is.
ReadableAlways(stored) == TRUE
Readable(stored) == cryptKey = NoCryptKey \/ stored = cryptKey

\* register_webhook: the identifier is new.
Register(o, h, events) ==
  /\ h \notin issued /\ issued' = issued \cup {h}
  /\ hooks' = [g \in DOMAIN hooks \cup {h} |->
                 IF g = h THEN [owner |-> o, events |-> events, stored |-> cryptKey] ELSE hooks[g]]
  /\ UNCHANGED <<cryptKey, restarts, removing, sends, log>>

\* remove_webhook: get_webhook, which reads the secret too, and _check_ownership.
\* Mutant: the webhook has to exist, whoever owns it.
CheckRemovalExists(o, h) ==
  /\ h \in DOMAIN hooks /\ Readable(hooks[h].stored)
  /\ removing' = removing \cup {<<o, h>>}
  /\ UNCHANGED <<hooks, issued, cryptKey, restarts, sends, log>>
CheckRemoval(o, h) ==
  /\ h \in DOMAIN hooks /\ Readable(hooks[h].stored) /\ hooks[h].owner = o
  /\ removing' = removing \cup {<<o, h>>}
  /\ UNCHANGED <<hooks, issued, cryptKey, restarts, sends, log>>

\* The deletion; its commit may fail.
RemoveWebhook(o, h, committed) ==
  /\ <<o, h>> \in removing /\ removing' = removing \ {<<o, h>>}
  /\ hooks' = IF committed THEN [g \in DOMAIN hooks \ {h} |-> hooks[g]] ELSE hooks
  /\ UNCHANGED <<issued, cryptKey, restarts, sends, log>>

\* get_subscribed; no code ever makes a registration inactive.
GetSubscribed(event) == {h \in DOMAIN hooks : event \in hooks[h].events}

\* deliver_event up to its tasks: one secret that cannot be read fails the call.
Deliver(d, event) ==
  LET due == GetSubscribed(event)
  IN  /\ sends[d].phase = "idle"
      /\ sends' = [sends EXCEPT ![d] =
                     IF \A h \in due : Readable(hooks[h].stored)
                     THEN [phase |-> "sending", due |-> due, to |-> [h \in due |-> "pending"],
                           signed |-> {h \in due : hooks[h].stored = cryptKey}]
                     ELSE [phase |-> "failed", due |-> due, to |-> <<>>, signed |-> {}]]
      /\ UNCHANGED <<hooks, issued, cryptKey, restarts, removing, log>>

\* The task of a delivery in a call that runs.
TaskAt(d, h) == IF sends[d].phase = "sending" /\ h \in DOMAIN sends[d].to THEN sends[d].to[h] ELSE "none"
Goto(d, h, place) ==
  /\ sends' = [sends EXCEPT ![d].to[h] = place]
  /\ UNCHANGED <<hooks, issued, cryptKey, restarts, removing>>

\* _send_one up to the record: the endpoint accepts, refuses, or is not reached (an
\* address that is not global among it); any other exception ends the task.
Statuses == {"success", "failed"}
Contact(d, h, outcome) == TaskAt(d, h) = "pending" /\ Goto(d, h, outcome) /\ UNCHANGED log

\* log_delivery up to its COMMIT; an exception ends the task, and gather swallows it.
\* Mutant: the record of the delivery is kept although its row was not stored.
LogDeliveryAnyway(d, h, committed) ==
  /\ TaskAt(d, h) \in Statuses /\ Goto(d, h, "logged")
  /\ log' = IF committed THEN log \cup {<<d, h, TaskAt(d, h)>>} ELSE log
LogDelivery(d, h, committed) ==
  /\ TaskAt(d, h) \in Statuses /\ Goto(d, h, IF committed THEN "logged" ELSE "lost")
  /\ log' = IF committed THEN log \cup {<<d, h, TaskAt(d, h)>>} ELSE log

\* The rest: the row is read back, or an exception drops the record of a stored row.
ReadBack(d, h, found) ==
  TaskAt(d, h) = "logged" /\ Goto(d, h, IF found THEN "recorded" ELSE "dropped") /\ UNCHANGED log

\* gather has all its results: the records that are there are returned.
\* Mutant: the call waits until every delivery has a record.
ReturnComplete(d) ==
  /\ sends[d].phase = "sending"
  /\ \A h \in DOMAIN sends[d].to : sends[d].to[h] = "recorded"
  /\ sends' = [sends EXCEPT ![d].phase = "returned"]
  /\ UNCHANGED <<hooks, issued, cryptKey, restarts, removing, log>>
Return(d) ==
  /\ sends[d].phase = "sending"
  /\ \A h \in DOMAIN sends[d].to : sends[d].to[h] \in {"recorded", "dropped", "lost"}
  /\ sends' = [sends EXCEPT ![d].phase = "returned"]
  /\ UNCHANGED <<hooks, issued, cryptKey, restarts, removing, log>>

\* The service is restarted, with this key or another: what was in progress is gone.
Restart(key) ==
  /\ restarts < MaxRestarts /\ restarts' = restarts + 1
  /\ cryptKey' = key /\ removing' = {}
  /\ sends' = [d \in Dispatches |-> IF sends[d].phase = "sending"
                                    THEN [sends[d] EXCEPT !.phase = "killed"] ELSE sends[d]]
  /\ UNCHANGED <<hooks, issued, log>>

Store(d, h) == \E ok \in BOOLEAN : LogDelivery(d, h, ok) \/ ReadBack(d, h, ok)

WebhooksNext ==
  \/ \E o \in Owners, h \in Hooks :
       \/ \E events \in Subscriptions : Register(o, h, events)
       \/ CheckRemoval(o, h)
       \/ \E committed \in BOOLEAN : RemoveWebhook(o, h, committed)
  \/ \E d \in Dispatches :
       \/ \E event \in EventTypes : Deliver(d, event)
       \/ \E h \in Hooks : Store(d, h) \/ \E outcome \in Statuses \cup {"lost"} : Contact(d, h, outcome)
       \/ Return(d)
  \/ \E key \in CryptKeys : Restart(key)

\* The event loop runs what is ready, and the data base answers.  An endpoint need not:
\* the ten seconds of the client are for each read, and not for the whole answer.
DeliveryFairness ==
  \A d \in Dispatches : /\ \A h \in Hooks : WF_hookVars(Store(d, h))
                        /\ WF_hookVars(Return(d))
WebhooksSpec == WebhooksInit /\ [][WebhooksNext]_hookVars /\ DeliveryFairness
--------------------------------------------------------------------------------
\* A registration goes only by a request of its owner, although the check of the
\* owner and the deletion are two statements, and an identifier never comes back
\* (webhook_routes.py, _check_ownership and remove_webhook).
OnlyOwnerRemoves ==
  [][\A h \in DOMAIN hooks :
       /\ h \notin DOMAIN hooks' => <<hooks[h].owner, h>> \in removing
       /\ h \in DOMAIN hooks' => hooks'[h] = hooks[h]]_hookVars

\* The tasks whose row is in the log.
HasRow == {"logged", "recorded", "dropped"}

\* Every record that a call returns has its row in the log.  A row whose record is not
\* returned is one whose reading back failed or is still to come, and no row is of a
\* delivery that failed before its COMMIT (webhook_delivery.py, _send_one and
\* deliver_event: an exception of the log drops the record).
RecordsMatchLog ==
  \A d \in Dispatches, h \in Hooks :
    (h \in DOMAIN sends[d].to /\ sends[d].to[h] \in HasRow)
      <=> (\E status \in Statuses : <<d, h, status>> \in log)

\* An event goes to every subscription there was at the call or to none, and while
\* the service has a key every contact is signed with the secret that the owner
\* registered (webhooks.py, _to_registration; crypto.py, decrypt_field).
WholeAndSigned ==
  \A d \in Dispatches :
    /\ DOMAIN sends[d].to \in {{}, sends[d].due}
    /\ restarts = 0 \/ (cryptKey # NoCryptKey /\ sends[d].phase = "sending")
         => sends[d].signed = DOMAIN sends[d].to

\* A task waits for its endpoint.
Contacting(d) == \E h \in Hooks : TaskAt(d, h) = "pending"

\* A call returns whatever becomes of the registrations and of the log meanwhile, unless
\* a restart kills it or one of its endpoints never ends its answer: gather waits for
\* the slowest (webhook_delivery.py, deliver_event).
DeliveryReturns ==
  \A d \in Dispatches :
    []<>~Contacting(d)
      => (sends[d].phase = "sending" ~> sends[d].phase \in {"returned", "killed"})

\* Registrations are safe with their owners, deliveries are whole, signed and recorded,
\* and they end (webhook_routes.py, webhook_delivery.py).
WebhooksSound ==
  []RecordsMatchLog /\ []WholeAndSigned /\ OnlyOwnerRemoves /\ DeliveryReturns
================================================================================
