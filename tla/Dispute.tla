------------------------------- MODULE Dispute -------------------------------
(***************************************************************************)
(* The dispute records and the PATCH /disputes/{id}/status handler         *)
(* (repo_disputes.py, dispute_routes.py, dispute_models.py).               *)
(*                                                                         *)
(* A handler is a coroutine: between its awaits other handlers run, in the *)
(* same worker or in another one, and nothing locks the row.  Each await   *)
(* is therefore an action of its own: Get (the SELECT), Check (the Python  *)
(* code up to commit), Commit (the UPDATE) and Refresh (the SELECT whose   *)
(* row is the response).                                                   *)
(***************************************************************************)
EXTENDS Integers, FiniteSets

CONSTANTS Disputes,      \* ids the autoincrement key may hand out
          Users,         \* identities of authenticated callers
          Requests,      \* PATCH requests that may be in flight at a time
          Resolutions,   \* texts a caller may give as the resolution
          None,          \* SQL NULL
          StandardDays, TheftDays,  \* response deadlines, in days
          DeadlineLimit, \* rows the deadline query returns at most
          MaxClock,      \* bound: the last day that is explored
          MaxRound       \* bound: nobody asks for a resend beyond this round

ASSUME NoneAssumption == None \notin Nat \cup Resolutions \cup Users
ASSUME DaysAssumption == StandardDays \in Nat /\ TheftDays \in Nat
                         /\ StandardDays <= TheftDays
ASSUME LimitAssumption == DeadlineLimit \in Nat
ASSUME BoundsAssumption == MaxClock \in Nat /\ MaxRound \in Nat

VARIABLES rows,    \* table dispute_records; status "absent" is no row
          clock,   \* days, datetime.now
          pc,      \* the await a request is suspended at
          req,     \* path and body of the request
          seen,    \* the row its SELECT loaded
          pend,    \* the row after the handler's assignments
          reply    \* HTTP status and body of the last response

vars == <<rows, clock, pc, req, seen, pend, reply>>

Statuses == {"draft", "sent", "in_review", "responded", "resolved", "escalated"}
Kinds == {"standard", "identity_theft"}
Times == Nat \cup {None}

Row == [status : Statuses \cup {"absent"}, round : Nat,
        sentAt : Times, deadlineAt : Times, respondedAt : Times,
        resolution : Resolutions \cup {None},
        user : Users \cup {None}, kind : Kinds]

NoRow == [status |-> "absent", round |-> 0, sentAt |-> None,
          deadlineAt |-> None, respondedAt |-> None, resolution |-> None,
          user |-> None, kind |-> "standard"]

Bodies == [dispute : Disputes, user : Users, status : Statuses,
           resolution : Resolutions \cup {None}]

Codes == {200, 400, 404, 500}

-----------------------------------------------------------------------------
(* The operators the handler is made of.                                   *)

(* Mutant: a dispute may be escalated before the bureau has answered. *)
EarlyEscalation ==
    [absent |-> {}, draft |-> {"sent"}, sent |-> {"in_review"},
     in_review |-> {"responded", "escalated"},
     responded |-> {"resolved", "escalated"}, escalated |-> {"sent"},
     resolved |-> {}]

ValidTransitions ==
    [absent |-> {},
     draft |-> {"sent"},
     sent |-> {"in_review"},
     in_review |-> {"responded"},
     responded |-> {"resolved", "escalated"},
     escalated |-> {"sent"},
     resolved |-> {}]

DeadlineDays(row) == IF row.kind = "identity_theft" THEN TheftDays
                                                    ELSE StandardDays

(* Mutants of Transitioned: the status lands in the resolution column; the
   first response day is kept in later rounds; every dispatch opens a round;
   a resend keeps the first deadline. *)
StatusInResolution(row, body, now) ==
    [row EXCEPT
        !.status = body.status,
        !.sentAt = IF body.status = "sent" THEN now ELSE @,
        !.deadlineAt = IF body.status = "sent" THEN now + DeadlineDays(row)
                                               ELSE @,
        !.resolution = body.status]

FirstResponseKept(row, body, now) ==
    [row EXCEPT
        !.status = body.status,
        !.sentAt = IF body.status = "sent" THEN now ELSE @,
        !.deadlineAt = IF body.status = "sent" THEN now + DeadlineDays(row)
                                               ELSE @,
        !.respondedAt = IF body.status = "responded" /\ @ = None
                        THEN now ELSE @]

RoundOnEveryDispatch(row, body, now) ==
    [row EXCEPT
        !.status = body.status,
        !.sentAt = IF body.status = "sent" THEN now ELSE @,
        !.deadlineAt = IF body.status = "sent" THEN now + DeadlineDays(row)
                                               ELSE @,
        !.round = IF body.status = "sent" THEN @ + 1 ELSE @]

FirstDeadlineKept(row, body, now) ==
    [row EXCEPT
        !.status = body.status,
        !.sentAt = IF body.status = "sent" THEN now ELSE @,
        !.deadlineAt = IF body.status = "sent" /\ @ = None
                       THEN now + DeadlineDays(row) ELSE @]

(* The assignments update_status makes to the loaded record. *)
Transitioned(row, body, now) ==
    [row EXCEPT
        !.status = body.status,
        !.sentAt = IF body.status = "sent" THEN now ELSE @,
        !.deadlineAt = IF body.status = "sent" THEN now + DeadlineDays(row)
                                               ELSE @,
        !.round = IF body.status = "sent" /\ row.status = "escalated"
                  THEN @ + 1 ELSE @,
        !.respondedAt = IF body.status = "responded" THEN now ELSE @,
        !.resolution = IF body.resolution # None THEN body.resolution ELSE @]

(* The unit of work writes a column only when its value differs from the
   one that was loaded, and by primary key: whatever else the row now holds
   stays. *)
Column(loaded, assigned, stored) ==
    IF assigned # loaded THEN assigned ELSE stored

Flushed(loaded, assigned, stored) ==
    [status |-> Column(loaded.status, assigned.status, stored.status),
     round |-> Column(loaded.round, assigned.round, stored.round),
     sentAt |-> Column(loaded.sentAt, assigned.sentAt, stored.sentAt),
     deadlineAt |-> Column(loaded.deadlineAt, assigned.deadlineAt,
                           stored.deadlineAt),
     respondedAt |-> Column(loaded.respondedAt, assigned.respondedAt,
                            stored.respondedAt),
     resolution |-> Column(loaded.resolution, assigned.resolution,
                           stored.resolution),
     user |-> stored.user,
     kind |-> stored.kind]

Waiting(row) == row.status \in {"sent", "in_review"}

(* Mutant: the window ends before the day of the cutoff. *)
DueBefore(user, daysAhead) ==
    { d \in Disputes : /\ rows[d].user = user
                       /\ rows[d].deadlineAt \in clock .. (clock + daysAhead - 1)
                       /\ Waiting(rows[d]) }

(* The rows the WHERE of GET /disputes/deadlines selects. *)
Due(user, daysAhead) ==
    { d \in Disputes :
        /\ rows[d].user = user
        /\ rows[d].deadlineAt # None
        /\ rows[d].deadlineAt <= clock + daysAhead
        /\ rows[d].deadlineAt >= clock
        /\ Waiting(rows[d]) }

(* The answers the query may give: LIMIT without ORDER BY leaves open which
   of the selected rows are returned when there are more than the limit. *)
ApproachingDeadlines(user, daysAhead) ==
    LET due == Due(user, daysAhead) IN
    IF Cardinality(due) <= DeadlineLimit
    THEN {due}
    ELSE { shown \in SUBSET due : Cardinality(shown) = DeadlineLimit }

-----------------------------------------------------------------------------
Init == /\ rows = [d \in Disputes |-> NoRow]
        /\ clock = 0
        /\ pc = [r \in Requests |-> "idle"]
        /\ req = [r \in Requests |-> None]
        /\ seen = [r \in Requests |-> NoRow]
        /\ pend = [r \in Requests |-> NoRow]
        /\ reply = [r \in Requests |-> None]

(* POST /disputes: one INSERT. *)
Create(d, user, kind) ==
    /\ rows[d].status = "absent"
    /\ rows' = [rows EXCEPT ![d] = [NoRow EXCEPT !.status = "draft",
                                                 !.round = 1,
                                                 !.user = user,
                                                 !.kind = kind]]
    /\ UNCHANGED <<clock, pc, req, seen, pend, reply>>

(* A PATCH request arrives. *)
Receive(r, body) ==
    /\ pc[r] = "idle"
    /\ body.status = "sent" => rows[body.dispute].round < MaxRound
    /\ pc' = [pc EXCEPT ![r] = "get"]
    /\ req' = [req EXCEPT ![r] = body]
    /\ reply' = [reply EXCEPT ![r] = None]
    /\ UNCHANGED <<rows, clock, seen, pend>>

Answer(r, code) ==
    /\ pc' = [pc EXCEPT ![r] = "idle"]
    /\ req' = [req EXCEPT ![r] = None]
    /\ reply' = [reply EXCEPT ![r] = code]
    /\ seen' = [seen EXCEPT ![r] = NoRow]
    /\ pend' = [pend EXCEPT ![r] = NoRow]

(* Mutant: a missing dispute is not answered. *)
GetExisting(r) ==
    LET row == rows[req[r].dispute] IN
    /\ pc[r] = "get"
    /\ row.status # "absent" /\ row.user = req[r].user
    /\ seen' = [seen EXCEPT ![r] = row]
    /\ pc' = [pc EXCEPT ![r] = "check"]
    /\ UNCHANGED <<rows, clock, req, pend, reply>>

(* The SELECT by id and user. *)
Get(r) ==
    LET row == rows[req[r].dispute] IN
    /\ pc[r] = "get"
    /\ IF row.status # "absent" /\ row.user = req[r].user
       THEN /\ seen' = [seen EXCEPT ![r] = row]
            /\ pc' = [pc EXCEPT ![r] = "check"]
            /\ UNCHANGED <<req, pend, reply>>
       ELSE Answer(r, 404)
    /\ UNCHANGED <<rows, clock>>

(* The transition is validated against the row that was loaded. *)
Check(r) ==
    /\ pc[r] = "check"
    /\ IF req[r].status \in ValidTransitions[seen[r].status]
       THEN /\ pend' = [pend EXCEPT ![r] =
                            Transitioned(seen[r], req[r], clock)]
            /\ pc' = [pc EXCEPT ![r] = "commit"]
            /\ UNCHANGED <<req, seen, reply>>
       ELSE Answer(r, 400)
    /\ UNCHANGED <<rows, clock>>

(* The UPDATE. *)
Commit(r) ==
    LET d == req[r].dispute IN
    /\ pc[r] = "commit"
    /\ rows' = [rows EXCEPT ![d] = Flushed(seen[r], pend[r], rows[d])]
    /\ pc' = [pc EXCEPT ![r] = "refresh"]
    /\ UNCHANGED <<clock, req, seen, pend, reply>>

(* The row is loaded again and returned. *)
Refresh(r) ==
    /\ pc[r] = "refresh"
    /\ Answer(r, 200)
    /\ UNCHANGED <<rows, clock>>

(* Mutant: a failing handler puts back the row it loaded. *)
FailUndoing(r) ==
    /\ pc[r] = "refresh"
    /\ rows' = [rows EXCEPT ![req[r].dispute] = seen[r]]
    /\ Answer(r, 500)
    /\ UNCHANGED clock

(* The database or the worker fails at an await; the session rolls back. *)
Fail(r) ==
    /\ pc[r] \in {"get", "commit", "refresh"}
    /\ Answer(r, 500)
    /\ UNCHANGED <<rows, clock>>

Tick == /\ clock < MaxClock
        /\ clock' = clock + 1
        /\ UNCHANGED <<rows, pc, req, seen, pend, reply>>

Step(r) == Get(r) \/ Check(r) \/ Commit(r) \/ Refresh(r)

Next == \/ \E d \in Disputes, user \in Users, kind \in Kinds :
               Create(d, user, kind)
        \/ \E r \in Requests :
               \/ \E body \in Bodies : Receive(r, body)
               \/ Step(r)
               \/ Fail(r)
        \/ Tick

Spec == Init /\ [][Next]_vars

(* A coroutine whose await has completed is resumed by the event loop. *)
FairSpec == Spec /\ \A r \in Requests : WF_vars(Step(r))

-----------------------------------------------------------------------------
(* Every variable has its type, and a request that is in flight has a body,
   an existing row of its caller once it has loaded one, and an assigned row
   once it is about to write. *)
TypeOK ==
    /\ rows \in [Disputes -> Row]
    /\ clock \in Nat
    /\ pc \in [Requests -> {"idle", "get", "check", "commit", "refresh"}]
    /\ req \in [Requests -> Bodies \cup {None}]
    /\ seen \in [Requests -> Row]
    /\ pend \in [Requests -> Row]
    /\ reply \in [Requests -> Codes \cup {None}]
    /\ \A r \in Requests : pc[r] # "idle" => req[r] \in Bodies

(* What a row of the table says about the past, whichever handlers wrote it. *)
Stamped(row) ==
    /\ row.status \notin {"absent", "draft"} => row.sentAt # None
    /\ row.deadlineAt # None <=> row.sentAt # None
    /\ row.sentAt # None => row.deadlineAt = row.sentAt + DeadlineDays(row)

(* update_status stamps sent_at and deadline_at together: once a dispute has
   been sent, its deadline is the FCRA 30 or 45 days after the very dispatch
   the row records, even when the row mixes the columns of several racing
   handlers. *)
DeadlineMatchesDispatch == \A d \in Disputes : Stamped(rows[d])

(* A dispute counts as answered (responded and what follows it) or is in a
   later round only if the day of a bureau's response is on record; no
   interleaving of update_status handlers invents an answer. *)
AnswerOnRecord ==
    \A d \in Disputes :
        \/ rows[d].status \in {"responded", "resolved", "escalated"}
        \/ rows[d].round > 1
        => rows[d].respondedAt # None

(* GET /disputes/deadlines with the longest response time as its window
   misses no dispute of the caller that waits for a bureau and is not yet
   overdue, unless its answer is full; beyond the limit the caller is told of
   some of them only, and not of the most urgent first. *)
WaitingIsWatched ==
    \A user \in Users :
        \A shown \in ApproachingDeadlines(user, TheftDays) :
            Cardinality(shown) < DeadlineLimit
            => \A d \in Disputes :
                   /\ Waiting(rows[d])
                   /\ rows[d].user = user
                   /\ rows[d].deadlineAt >= clock
                   => d \in shown

(* A sent dispute never becomes a draft again and a record never vanishes or
   changes owner, although a stale handler may write any status it was
   allowed to. *)
NeverUnsent ==
    [][\A d \in Disputes :
          /\ rows[d].status # "absent" => rows'[d].user = rows[d].user
          /\ rows[d].status \notin {"absent", "draft"}
             => rows'[d].status \notin {"absent", "draft"}]_vars

(* Every PATCH that arrives is answered. *)
EveryRequestAnswered ==
    \A r \in Requests : pc[r] # "idle" ~> pc[r] = "idle"

(* VALID_TRANSITIONS gives RESOLVED no successor: a resolved dispute stays
   resolved. *)
ResolvedIsTerminal ==
    [][\A d \in Disputes :
          rows[d].status = "resolved" => rows'[d].status = "resolved"]_vars

-----------------------------------------------------------------------------
(* One PATCH at a time. *)
Serial == \A r, s \in Requests : r = s

Lifecycle == INSTANCE DisputeLifecycle
                WITH status <- [d \in Disputes |-> rows[d].status],
                     round <- [d \in Disputes |-> rows[d].round]

(* With one PATCH at a time update_status implements the state machine of
   DisputeLifecycle, crashes included. *)
LifecycleSpec == Lifecycle!Spec

(* With one PATCH at a time, a row that counts as responded was responded to
   after the dispatch it records: no answer of an earlier round is taken for
   the answer to the current one. *)
ResponseFollowsDispatch ==
    \A d \in Disputes :
        rows[d].status \in {"responded", "resolved", "escalated"}
        => rows[d].sentAt <= rows[d].respondedAt
=============================================================================
