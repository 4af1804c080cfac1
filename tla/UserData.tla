------------------------------ MODULE UserData ------------------------------
(***************************************************************************)
(* What the service keeps about a user, and who writes and deletes it:     *)
(* the background tasks of POST /assess (assess_tasks.py), POST /scores    *)
(* and GET /scores/history (score_routes.py), and consent, export and      *)
(* erasure (data_rights.py).                                               *)
(*                                                                         *)
(* Every task and handler has a session of its own and the database runs   *)
(* at READ COMMITTED: a SELECT or DELETE sees what was committed before    *)
(* that statement, and a DELETE waits for the rows another open            *)
(* transaction has deleted.  One statement or commit is one action.        *)
(***************************************************************************)
EXTENDS Integers, Sequences, FiniteSets

CONSTANTS Users,       \* authenticated identities
          ApiKeyUser,  \* API_KEY_IDENTITY, shared by callers with the static key
          Scores,      \* credit scores
          Versions,    \* consent versions
          Jobs,        \* POST /assess requests
          Grants,      \* POST /user/consent requests
          Erasures,    \* DELETE /user/data requests
          Exports,     \* GET /user/data-export requests
          Readers,     \* GET /scores/history requests
          Posts,       \* POST /scores requests
          ExportLimit, \* rows that get_by_user_id returns when not told
          None         \* SQL NULL

ASSUME UsersAssumption == ApiKeyUser \in Users /\ None \notin Users \cup Versions
ASSUME ScoresAssumption == Scores \subseteq Nat
ASSUME RowsAssumption == Jobs \cap Grants = {} /\ Jobs \cap Posts = {}
ASSUME ErasuresAssumption == None \notin Erasures
ASSUME LimitsAssumption == ExportLimit \in Nat

VARIABLES rows,     \* tables assessment_records (a row per job) and
                    \* consent_records (a row per grant)
          nextId,   \* the next primary key, one sequence for both tables
          audits,   \* jobs with an assessment_run entry in audit_logs
          history,  \* table score_history; the id is the position
          write,    \* the transactions that write score_history, one for each
                    \* job and each POST /scores
          begun,    \* how many of them have begun: the time for recorded_at
          job,      \* the POST /assess requests and their background tasks
          erase,    \* the erasures and the rows their open transaction deleted
          export,   \* the exports and what they have collected
          reader    \* the history reads and what they answer

scoreVars == <<history, write, begun>>

vars == <<rows, nextId, audits, history, write, begun, job, erase, export,
          reader>>

Rows == Jobs \cup Grants

Row == [state : {"none", "stored", "withdrawn", "erased"},
        user : Users \cup {None}, version : Versions \cup {None}, id : Nat]

NoRow == [state |-> "none", user |-> None, version |-> None, id |-> 0]

Writes == Jobs \cup Posts

(* recorded_at is func.now(), the time at which the transaction began; by is
   the transaction that inserted the row. *)
Entry == [user : Users, score : Scores, at : Nat, by : Writes]

Write == [pc : {"idle", "insert", "commit", "stored", "failed"},
          user : Users \cup {None}, score : Scores \cup {0}, at : Nat]

NoWrite == [pc |-> "idle", user |-> None, score |-> 0, at |-> 0]

Job == [pc : {"idle", "save", "audit", "meter", "score", "done", "lost"},
        user : Users \cup {None}, score : Scores \cup {0}]

Erasure == [pc : {"idle", "consents", "records", "commit", "done", "failed"},
            user : Users \cup {None}, since : Nat, scores : SUBSET Nat,
            pending : SUBSET Jobs, taken : SUBSET Rows]

Export == [pc : {"idle", "consents", "records", "done"},
           user : Users \cup {None}, since : Nat, got : SUBSET Rows]

Reader == [pc : {"idle", "trend", "done"}, user : Users \cup {None},
           latest : Nat, trend : Nat, delta : Int, since : Nat,
           open : SUBSET Nat]

Stored(r, user) == rows[r].state = "stored" /\ rows[r].user = user

(* The rows an open transaction has deleted are locked until it ends. *)
Deleting(e) == erase[e].pc \in {"records", "commit"}

Locked(r, except) ==
    \E e \in Erasures : e # except /\ Deleting(e) /\ r \in erase[e].taken

(* ORDER BY created_at DESC LIMIT limit. *)
Newest(S, limit) ==
    { r \in S : Cardinality({ q \in S : rows[q].id > rows[r].id }) < limit }

(* The score entries of a user that a SELECT sees. *)
Visible(i) == write[history[i].by].pc = "stored"

Mine(user) ==
    { i \in 1 .. Len(history) : history[i].user = user /\ Visible(i) }

-----------------------------------------------------------------------------
Init == /\ rows = [r \in Rows |-> NoRow]
        /\ nextId = 1
        /\ audits = {}
        /\ history = << >>
        /\ write = [w \in Writes |-> NoWrite]
        /\ begun = 0
        /\ job = [j \in Jobs |-> [pc |-> "idle", user |-> None, score |-> 0]]
        /\ erase = [e \in Erasures |->
                       [pc |-> "idle", user |-> None, since |-> 0,
                        scores |-> {}, pending |-> {}, taken |-> {}]]
        /\ export = [x \in Exports |->
                       [pc |-> "idle", user |-> None, since |-> 0, got |-> {}]]
        /\ reader = [q \in Readers |->
                       [pc |-> "idle", user |-> None, latest |-> 0, trend |-> 0,
                        delta |-> 0, since |-> 0, open |-> {}]]

(* Mutant: the two columns of the INSERT are swapped. *)
InsertSwapped(r, user, version) ==
    /\ rows' = [rows EXCEPT ![r] = [state |-> "stored", user |-> version,
                                    version |-> user, id |-> nextId]]
    /\ nextId' = nextId + 1

Insert(r, user, version) ==
    /\ rows' = [rows EXCEPT ![r] = [state |-> "stored", user |-> user,
                                    version |-> version, id |-> nextId]]
    /\ nextId' = nextId + 1

-----------------------------------------------------------------------------
(* POST /assess: the answer is sent, then the tasks run one after another,
   each of which logs and swallows its own exceptions. *)
Assess(j, user, score) ==
    /\ job[j].pc = "idle"
    /\ job' = [job EXCEPT ![j] = [pc |-> "save", user |-> user,
                                  score |-> score]]
    /\ UNCHANGED <<rows, nextId, audits, scoreVars, erase, export, reader>>

(* Mutant: the audit entry is committed before the assessment is saved. *)
SaveAfterAudit(j) ==
    /\ job[j].pc = "save"
    /\ audits' = audits \cup {j}
    /\ job' = [job EXCEPT ![j].pc = "audit"]
    /\ UNCHANGED <<rows, nextId, scoreVars, erase, export, reader>>

(* persist_assessment: the first of its two commits. *)
Save(j) ==
    /\ job[j].pc = "save"
    /\ Insert(j, job[j].user, None)
    /\ job' = [job EXCEPT ![j].pc = "audit"]
    /\ UNCHANGED <<audits, scoreVars, erase, export, reader>>

(* persist_assessment: the second. *)
Audit(j) ==
    /\ job[j].pc = "audit"
    /\ audits' = audits \cup {j}
    /\ job' = [job EXCEPT ![j].pc = "meter"]
    /\ UNCHANGED <<rows, nextId, scoreVars, erase, export, reader>>

PersistFails(j) ==
    /\ job[j].pc \in {"save", "audit"}
    /\ job' = [job EXCEPT ![j].pc = "meter"]
    /\ UNCHANGED <<rows, nextId, audits, scoreVars, erase, export, reader>>

(* record_usage_for_user: reads the subscription, tells Stripe, keeps
   nothing.  No score task was queued for the static API key. *)
Meter(j) ==
    /\ job[j].pc = "meter"
    /\ job' = [job EXCEPT ![j].pc = IF job[j].user = ApiKeyUser THEN "done"
                                                                ELSE "score"]
    /\ UNCHANGED <<rows, nextId, audits, scoreVars, erase, export, reader>>

(* A session begins the transaction of ScoreHistoryRepository.record. *)
BeginWrite(w, user, score) ==
    /\ write[w].pc = "idle"
    /\ begun' = begun + 1
    /\ write' = [write EXCEPT ![w] = [pc |-> "insert", user |-> user,
                                      score |-> score, at |-> begun + 1]]

(* record_score_history, the last task, in a session of its own; it may fail
   before that has begun. *)
Score(j) ==
    /\ job[j].pc = "score"
    /\ job' = [job EXCEPT ![j].pc = "done"]
    /\ \/ BeginWrite(j, job[j].user, job[j].score)
       \/ UNCHANGED <<write, begun>>
    /\ UNCHANGED <<rows, nextId, audits, history, erase, export, reader>>

(* The worker dies with tasks still queued in its memory. *)
Lose(j) ==
    /\ job[j].pc \notin {"idle", "done", "lost"}
    /\ job' = [job EXCEPT ![j].pc = "lost"]
    /\ UNCHANGED <<rows, nextId, audits, scoreVars, erase, export, reader>>

(* POST /scores. *)
PostScore(p, user, score) ==
    /\ BeginWrite(p, user, score)
    /\ UNCHANGED <<rows, nextId, audits, history, job, erase, export, reader>>

(* The flush of record: the INSERT takes the next id, which stays taken. *)
InsertScore(w) ==
    /\ write[w].pc = "insert"
    /\ history' = Append(history, [user |-> write[w].user,
                                   score |-> write[w].score,
                                   at |-> write[w].at, by |-> w])
    /\ write' = [write EXCEPT ![w].pc = "commit"]
    /\ UNCHANGED <<rows, nextId, audits, begun, job, erase, export, reader>>

(* Its COMMIT: only now do other sessions see the row.  The refresh after it
   changes nothing, whether it fails or not. *)
CommitScore(w) ==
    /\ write[w].pc = "commit"
    /\ write' = [write EXCEPT ![w].pc = "stored"]
    /\ UNCHANGED <<rows, nextId, audits, history, begun, job, erase, export,
                   reader>>

(* The statement, the commit or the worker fails: a row is rolled back. *)
WriteFails(w) ==
    /\ write[w].pc \in {"insert", "commit"}
    /\ write' = [write EXCEPT ![w].pc = "failed"]
    /\ UNCHANGED <<rows, nextId, audits, history, begun, job, erase, export,
                   reader>>

-----------------------------------------------------------------------------
(* POST /user/consent: always an INSERT, whatever is there. *)
Consent(g, user, version) ==
    /\ rows[g].state = "none"
    /\ Insert(g, user, version)
    /\ UNCHANGED <<audits, scoreVars, job, erase, export, reader>>

(* DELETE /user/consent: one DELETE and its commit. *)
Withdraw(user, version) ==
    LET gone == { g \in Grants : Stored(g, user) /\ rows[g].version = version } IN
    /\ \A g \in gone : ~Locked(g, None)
    /\ rows' = [r \in Rows |-> IF r \in gone
                               THEN [rows[r] EXCEPT !.state = "withdrawn"]
                               ELSE rows[r]]
    /\ UNCHANGED <<nextId, audits, scoreVars, job, erase, export, reader>>

-----------------------------------------------------------------------------
(* DELETE /user/data arrives.  since, scores and pending record, for the
   properties, what there was at that time. *)
EraseBegin(e, user) ==
    /\ erase[e].pc = "idle"
    /\ erase' = [erase EXCEPT ![e] =
                   [pc |-> "consents", user |-> user, since |-> nextId,
                    scores |-> Mine(user),
                    pending |-> { j \in Jobs : /\ job[j].user = user
                                               /\ job[j].pc = "save" },
                    taken |-> {}]]
    /\ UNCHANGED <<rows, nextId, audits, scoreVars, job, export, reader>>

EraseFrom(e, table, next) ==
    LET mine == { r \in table : Stored(r, erase[e].user) } IN
    /\ \A r \in mine : ~Locked(r, e)
    /\ erase' = [erase EXCEPT ![e].pc = next, ![e].taken = @ \cup mine]
    /\ UNCHANGED <<rows, nextId, audits, scoreVars, job, export, reader>>

EraseConsents(e) == erase[e].pc = "consents" /\ EraseFrom(e, Grants, "records")

(* Mutant: the consents are deleted twice and the assessments never. *)
EraseConsentsAgain(e) ==
    erase[e].pc = "records" /\ EraseFrom(e, Grants, "commit")

(* The DELETE on user_assessments in between finds nothing: no route of the
   service writes that table. *)
EraseRecords(e) == erase[e].pc = "records" /\ EraseFrom(e, Jobs, "commit")

(* Mutant: each DELETE was committed by itself, so that a later failure
   leaves the rows of the earlier ones deleted. *)
EraseFailsHalfway(e) ==
    /\ Deleting(e)
    /\ rows' = [r \in Rows |-> IF r \in erase[e].taken
                               THEN [rows[r] EXCEPT !.state = "erased"]
                               ELSE rows[r]]
    /\ erase' = [erase EXCEPT ![e].pc = "failed", ![e].taken = {}]
    /\ UNCHANGED <<nextId, audits, scoreVars, job, export, reader>>

EraseCommit(e) ==
    /\ erase[e].pc = "commit"
    /\ rows' = [r \in Rows |-> IF r \in erase[e].taken
                               THEN [rows[r] EXCEPT !.state = "erased"]
                               ELSE rows[r]]
    /\ erase' = [erase EXCEPT ![e].pc = "done"]
    /\ UNCHANGED <<nextId, audits, scoreVars, job, export, reader>>

(* The database or the worker fails: the transaction is rolled back. *)
EraseFails(e) ==
    /\ erase[e].pc = "consents" \/ Deleting(e)
    /\ erase' = [erase EXCEPT ![e].pc = "failed", ![e].taken = {}]
    /\ UNCHANGED <<rows, nextId, audits, scoreVars, job, export, reader>>

-----------------------------------------------------------------------------
(* GET /user/data-export: one SELECT per table. *)
ExportBegin(x, user) ==
    /\ export[x].pc = "idle"
    /\ export' = [export EXCEPT ![x] = [pc |-> "consents", user |-> user,
                                        since |-> nextId, got |-> {}]]
    /\ UNCHANGED <<rows, nextId, audits, scoreVars, job, erase, reader>>

ExportConsents(x) ==
    /\ export[x].pc = "consents"
    /\ export' = [export EXCEPT
                    ![x].pc = "records",
                    ![x].got = { g \in Grants : Stored(g, export[x].user) }]
    /\ UNCHANGED <<rows, nextId, audits, scoreVars, job, erase, reader>>

(* Mutant: the second SELECT replaces what the first one found. *)
ExportRecordsOnly(x) ==
    /\ export[x].pc = "records"
    /\ export' = [export EXCEPT
                    ![x].pc = "done",
                    ![x].got = Newest({ j \in Jobs : Stored(j, export[x].user) },
                                      ExportLimit)]
    /\ UNCHANGED <<rows, nextId, audits, scoreVars, job, erase, reader>>

ExportRecords(x) ==
    /\ export[x].pc = "records"
    /\ export' = [export EXCEPT
                    ![x].pc = "done",
                    ![x].got = @ \cup
                        Newest({ j \in Jobs : Stored(j, export[x].user) },
                               ExportLimit)]
    /\ UNCHANGED <<rows, nextId, audits, scoreVars, job, erase, reader>>

-----------------------------------------------------------------------------
(* GET /scores/history. *)
(* The entries of S before i. *)
Before(S, i) == { k \in S : k < i }

Last(S) == CHOOSE i \in S : \A k \in S : k <= i

(* Mutant: the entries stay newest first, and the trend is reversed. *)
DeltaNewestFirst(S) ==
    IF Cardinality(S) < 2 THEN 0
    ELSE history[Last(Before(S, Last(S)))].score - history[Last(S)].score

(* _compute_trend of the last two entries get_trend found; the direction is
   the sign. *)
Delta(S) ==
    IF Cardinality(S) < 2 THEN 0
    ELSE history[Last(S)].score - history[Last(Before(S, Last(S)))].score

(* The first entry of the page, or get_latest when the page does not begin
   with it. *)
ReadLatest(q, user) ==
    /\ reader[q].pc = "idle"
    /\ reader' = [reader EXCEPT ![q] =
                    [pc |-> "trend", user |-> user, trend |-> 0, delta |-> 0,
                     since |-> 0, open |-> {},
                     latest |-> IF Mine(user) = {} THEN 0
                                                   ELSE Last(Mine(user))]]
    /\ UNCHANGED <<rows, nextId, audits, scoreVars, job, erase, export>>

(* The entries of a user that are not older than the cutoff. *)
Recent(user, cutoff) == { i \in Mine(user) : history[i].at > cutoff }

(* get_trend: the last two entries, by id, of those within the period.  since
   and open record, for the property, the cutoff and the entries that are
   inserted but not committed at that time. *)
ReadTrend(q, cutoff) ==
    LET S == Recent(reader[q].user, cutoff) IN
    /\ reader[q].pc = "trend"
    /\ reader' = [reader EXCEPT
                    ![q].pc = "done",
                    ![q].since = cutoff,
                    ![q].open = { i \in 1 .. Len(history) :
                                     write[history[i].by].pc = "commit" },
                    ![q].trend = IF Cardinality(S) < 2 THEN 0 ELSE Last(S),
                    ![q].delta = Delta(S)]
    /\ UNCHANGED <<rows, nextId, audits, scoreVars, job, erase, export>>

-----------------------------------------------------------------------------
Task(j) == Save(j) \/ Audit(j) \/ Meter(j) \/ Score(j)

Next ==
    \/ \E j \in Jobs :
          \/ \E user \in Users, score \in Scores : Assess(j, user, score)
          \/ Task(j)
          \/ PersistFails(j)
          \/ Lose(j)
    \/ \E p \in Posts, user \in Users, score \in Scores :
          PostScore(p, user, score)
    \/ \E w \in Writes : InsertScore(w) \/ CommitScore(w) \/ WriteFails(w)
    \/ \E user \in Users, version \in Versions :
          \/ \E g \in Grants : Consent(g, user, version)
          \/ Withdraw(user, version)
    \/ \E e \in Erasures :
          \/ \E user \in Users : EraseBegin(e, user)
          \/ EraseConsents(e)
          \/ EraseRecords(e)
          \/ EraseCommit(e)
          \/ EraseFails(e)
    \/ \E x \in Exports :
          \/ \E user \in Users : ExportBegin(x, user)
          \/ ExportConsents(x)
          \/ ExportRecords(x)
    \/ \E q \in Readers :
          \/ \E user \in Users : ReadLatest(q, user)
          \/ \E cutoff \in 0 .. begun : ReadTrend(q, cutoff)

Spec == Init /\ [][Next]_vars

-----------------------------------------------------------------------------
(* Every variable has its type, and a request that has arrived is about a
   user and a score. *)
TypeOK ==
    /\ rows \in [Rows -> Row]
    /\ nextId \in Nat
    /\ audits \subseteq Jobs
    /\ history \in Seq(Entry)
    /\ write \in [Writes -> Write]
    /\ \A w \in Writes : write[w].pc # "idle" => /\ write[w].user \in Users
                                                 /\ write[w].score \in Scores
    /\ begun \in Nat
    /\ job \in [Jobs -> Job]
    /\ \A j \in Jobs : job[j].pc # "idle" => /\ job[j].user \in Users
                                             /\ job[j].score \in Scores
    /\ erase \in [Erasures -> Erasure]
    /\ export \in [Exports -> Export]
    /\ reader \in [Readers -> Reader]

(* persist_assessment commits the assessment before its audit entry: whatever
   fails or is erased, an assessment_run entry is about an assessment that was
   stored. *)
AuditedWasStored == \A j \in audits : rows[j].state \in {"stored", "erased"}

(* When DELETE /user/data has answered, none of the user's assessments and
   consents that were stored before it was asked for is left, although other
   requests of the user, a second erasure among them, run at the same time. *)
ErasedMeansGone ==
    \A e \in Erasures, r \in Rows :
        /\ erase[e].pc = "done"
        /\ Stored(r, erase[e].user)
        => rows[r].id >= erase[e].since

(* delete_user_data is one transaction: rows disappear only in the commit of
   an erasure, and that takes the consents and the assessments together. *)
ErasureIsAtomic ==
    [][\A r \in Rows :
          /\ rows[r].state = "stored"
          /\ rows'[r].state = "erased"
          => \E e \in Erasures :
                /\ erase[e].pc = "commit"
                /\ erase'[e].pc = "done"
                /\ \A q \in Rows :
                      Stored(q, rows[r].user) /\ rows[q].id < erase[e].since
                      => rows'[q].state = "erased"]_vars

(* GET /user/data-export leaves a row out that was stored before and still is
   only if the newest ExportLimit assessments already fill the answer; no
   consent is ever left out. *)
ExportMissesOnlyBeyondLimit ==
    \A x \in Exports, r \in Rows :
        /\ export[x].pc = "done"
        /\ Stored(r, export[x].user)
        /\ rows[r].id < export[x].since
        /\ r \notin export[x].got
        => r \in Jobs /\ Cardinality(export[x].got \cap Jobs) = ExportLimit

(* GET /scores/history reads the latest score and the trend in two SELECTs,
   while entries become visible in another order than that of their ids: the
   trend it answers is not older than the latest score it answers, unless that
   is outside the period, and it is the difference of two entries of the
   period between which no other lies but one whose transaction was open when
   they were read. *)
TrendIsCurrent ==
    \A q \in Readers :
        LET answer == reader[q]
            S == Recent(answer.user, answer.since)
        IN  answer.pc = "done" =>
            IF answer.trend = 0 THEN answer.delta = 0
            ELSE /\ answer.trend \in S
                 /\ answer.latest \in S => answer.trend >= answer.latest
                 /\ \E k \in Before(S, answer.trend) :
                       /\ \A i \in S : \/ i <= k \/ i >= answer.trend
                                       \/ i \in answer.open
                       /\ answer.delta = history[answer.trend].score
                                         - history[k].score

(* persist_assessment stores the assessment "and compliance audit entry": a
   stored assessment whose tasks are over has its entry. *)
StoredIsAudited ==
    \A j \in Jobs : rows[j].state = "stored" /\ job[j].pc = "done" => j \in audits

(* delete_user_data deletes "all data for a user": no score entry of the user
   that was there when the erasure was asked for is left. *)
ErasureCoversScores ==
    \A e \in Erasures :
        erase[e].pc = "done"
        => erase[e].scores \cap Mine(erase[e].user) = {}

(* Nor does an assessment come back that the user was answered before asking
   for the erasure. *)
ErasedStaysErased ==
    \A e \in Erasures :
        erase[e].pc = "done"
        => \A j \in erase[e].pending : rows[j].state # "stored"

(* export_user_data exports "all data for a user": every assessment stored
   before the request and still there is in the answer. *)
ExportIsComplete ==
    \A x \in Exports, j \in Jobs :
        /\ export[x].pc = "done"
        /\ Stored(j, export[x].user)
        /\ rows[j].id < export[x].since
        => j \in export[x].got
=============================================================================
