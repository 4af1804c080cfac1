# Credit assessment service: a TLA+ verification project

TLA+ modules of the service under `src/src/modules/credit/` (a FastAPI application on
PostgreSQL, several gunicorn workers) and of the scripts that deploy it, the TLC
configurations that check them on small instances, and proofs of the main properties for
every value of the constants. `PROJECT.json` is the index: which definition models which
lines, which run checks what, which hazards of the code are covered.

To repeat the work: `tlc -config X.cfg MCModule` for a run, `tlapm ModuleProofs.tla` for the
proofs.

## 1. Inventory

Paths are below `src/src/modules/credit/` unless they start with `src/`.

### Dispute records (modelled: `DisputeLifecycle`, `Dispute`)

* State: table `dispute_records` (status, round, dates of dispatch, deadline and answer).
* Operations: `POST /disputes` opens a draft, `PATCH /disputes/{id}/status` moves it along
  the table of `dispute_models.py`, two GETs list and show, and the deadline query looks for
  disputes that wait for an answer.
* Hard: `update_status` is *load, check in Python, write the changed columns back*. There is
  no lock, no version column and no status in the UPDATE's WHERE, so that another handler, in
  the same worker or another one, can move the row between any two awaits. A request can fail
  after its commit.
* Correct: the arrows of the state machine, a round per dispatch, a deadline that belongs to
  the dispatch on record, no answered dispute without an answer, and a deadline query that
  misses none unless its answer is full (it is limited to 100 rows, in no order).

### Orchestration of the agents (modelled: `CircuitProtocol`, `Resilience`, `Moses`)

* State: per worker and shared by all its `POST /liberate` runs, a circuit breaker per
  agent, the dead letter queue and the benchmark (`agents/__init__.py`,
  `agents/resilience.py`), each behind its own lock. Per run, a `MosesAgent` with its list
  of fallbacks (`agents/moses.py`).
* Operations: run the agents in order, skip one whose circuit is open, record success or
  failure, validate the result, log failures, report.
* Hard: runs execute in threads. A call into a shared object is atomic, a run is not: it
  looks, executes, reports back, and reads everything again for its report. The breaker is
  half-open only when somebody looks.
* Correct: the breaker protocol, breakers whose state and count agree, a bounded queue that
  drops the oldest entries only, a report that agrees with the circuits, every run ends.

### User data: assessments, scores, consent, export, erasure (modelled: `UserData`)

* State: `assessment_records`, `audit_logs`, `consent_records`, `score_history`; the
  background tasks queued by a `POST /assess` that has been answered.
* Operations: `POST /assess` and its three tasks, `POST /scores`, `GET /scores/history`,
  consent and withdrawal, `GET /user/data-export`, `DELETE /user/data`.
* Hard: each task has a session of its own and swallows its errors; an assessment is stored
  after its caller has been answered; reads take several SELECTs at READ COMMITTED; a score
  takes its id at the INSERT and is visible from the COMMIT on, so that scores appear in
  another order than that of the ids the reads go by; an
  erasure is several DELETEs in a transaction while others write; queued tasks die with
  their worker.
* Correct: an erasure is all or nothing and leaves nothing that is older than its request;
  an audit entry is about something stored; an export is complete up to what came later; a
  trend is not older than the latest score answered with it, and is of consecutive scores.

### Blue/green deployment (modelled: `BlueGreen`)

* State: the images and containers of two slots, `.deploy-previous-slot`,
  `.deploy-active-slot` (`src/deploy/*.sh`).
* Operations: `blue_green.sh` (detect, record, build, start, wait, stop the other, mark) and
  `rollback.sh`.
* Hard: a script can fail or be interrupted at each command, and the next one starts from
  what it left.
* Correct: a deployment never takes away the last slot that serves; its markers are true
  when it ends well; a rollback ends with something that runs.

### Accounts (modelled: `Accounts`)

* State: table `users` (hash, count of failures, lock), table `reset_tokens`, the
  "account_locked" entries of `audit_logs` (`user_routes.py`, `repo_users.py`).
* Operations: register, login with its lock, request and confirm a password reset.
* Hard: a login reads the account, counts in Python and writes the changed columns back, so
  that logins overlap; the audit entry's commit is the account's; a reset is confirmed in
  three commits, any of which may fail; registration checks and then inserts.
* Correct: no lock without its audit entry, no lock lifted by a login that never saw it, a
  password that changes only for a token that is spent, no old token after a reset, one
  registration per address.

### Assessment, simulation and dispute pathway (modelled: `Profile`, `Assessment`, `Simulation`)

* State: none but the working state of a simulation (`simulation.py`, `_WorkingState`).
* Operations: `POST /assess` and `/assess/simple` compute severity with barriers, readiness,
  thresholds, eligibility and the dispute pathway of a profile; `POST /simulate` and
  `/simulate/simple` apply up to ten actions, each to what the one before left.
* Hard: each output has thresholds of its own, and the simple form infers the kinds of items
  twice; utilization and balance are stated apart and each is moved by two handlers; estimates
  are rounded at every action.
* Correct: the outputs do not contradict each other; a consistent profile stays consistent
  through any actions; estimates are in order and are not inflated by cutting one action in
  many.

### Letters (modelled: `Letters`)

* State: the counters of a batch, by kind of letter (`letter_generator.py`).
* Operations: `POST /disputes/letters` and `/disputes/letters/batch`.
* Hard: some requests name a variation and some do not; the number of variations differs by
  kind; a template may use a placeholder that has no value.
* Correct: a batch is answered whole or not at all; the variations are used evenly.

### The plan of the agents (modelled: `Barriers`, `BattlePlan`, `BureauScan`, `Liberation`)

* State: the context in which Parks leaves its analysis for King (`agents/moses.py`), and the
  results that the printed page is made of (`agents/export.py`).
* Operations: nine agents, each a function of the profile, the denial or the bureau reports,
  with tables of its own (`agents/data/*.json`); `POST /liberate/print`.
* Hard: three agents decide with three codes and three tables whether an industry is open;
  an agent may fall back, and those after it read what it left; comparisons must not depend
  on the order of the reports.
* Correct: the parts of one plan agree about doors, jobs and costs, and nothing an agent
  found is lost on the way to the page.

### Subscriptions (modelled: `Billing`)

* State: table `subscriptions` (`repo_billing.py`), without a unique constraint.
* Operations: `handle_webhook` upserts on an event of Stripe; `resolve_user_tier` reads.
* Hard: events come repeatedly and in any order; the upsert is a SELECT and then an INSERT or
  UPDATE.
* Correct: the row follows the commits of events that do not overlap; the tier is that of a
  subscription Stripe calls active.

### Webhooks (modelled: `Webhooks`)

* State: `webhook_registrations`, `webhook_deliveries`, the encryption key of the process.
* Operations: register, list, remove; `deliver_event` to all subscriptions of an event, one
  task each, and one row of the log for each.
* Hard: a delivery works from a snapshot; removal is a check and a deletion; a row of the log
  may fail, or be stored and then not be read back; an endpoint may never end its answer; the
  key may be another one after a restart.
* Correct: only owners remove; what a call returns is in the log, and what is in the log and
  not returned is a row that could not be read back; a call returns unless an endpoint keeps
  it for ever.

### Feature flags (modelled: `Flags`)

* State: table `feature_flags`.
* Operations: create, update, delete, evaluate (`feature_flags.py`, `flag_routes.py`).
* Hard: each request reads in its session and commits later; an update names some columns.
* Correct: a creation overwrites nothing; an update leaves the columns alone it was not given.

### Identities, roles and API keys (modelled: `Access`)

* State: role and `is_active` of `users`, table `api_keys`, the tokens that are out.
* Operations: login, demo token, refresh, creation and revocation of keys, change of role and
  activity (`auth_routes.py`, `admin_routes.py`, `dashboard_routes.py`).
* Hard: a token is not stored and carries the role that the login read before its commit; a
  refresh copies it; keys are revoked by a prefix that several share.
* Correct: what was revoked or expired stays refused; rights that are gone, with no token and
  no login under way that has them, come back by a promotion only.

### Backups (modelled: `Backups`)

* State: the files in the backup directory; operations: the script of the night
  (`src/scripts/backup.sh`) and the policy (`backup.py`), which no code applies.
* Hard: the policy looks at the age of a file on the day only.
* Correct: the copies the policy names exist, if it is applied at the right intervals.

### Not modelled

* Middleware, request identifiers, logging, metrics, error reporting: no state that another
  part reads.
* Configuration, sessions and schema: declarations; what a session's commit or rollback does
  is in the modules that use it, and the migrations run before the service.
* Application assembly, legal texts, API docs: constants and registration of routes.
* The counting of the rate limiter is slowapi's. The lists and sums of the dashboard only
  read; its one operation that writes, `update_customer`, is in `Access`.
* Retention by age (`retention.py`, `purge_expired_data`, `purge_audit_trail`, `purge_old`): no
  route or job calls it.
* `tenant.py`: it only counts assessments for the dashboard.
* Client SDKs, load tests, monitoring rules: outside the service.
* Of modelled parts: wording, layout and escaping of letters, plan and pages; Stripe's
  checkout and portal sessions, which store nothing here; the text of a signature and the
  checks of an address of a webhook; functions without a caller (`set_enabled` of flags,
  `get_tier_limit`, `next_retry_delay`, the revocation by a whole key, the breaker's reset, the
  drain of the dead letter queue, `record_user_assessment`). `prune_expired` of the keys has
  no caller either and is in `Access`, because its comparison is worth a property.

## 2. How the parts interact

`POST /assess` computes an assessment in memory (`Assessment`) and queues tasks that write to
the tables that export and erasure read (`UserData`). An account's address is the user
identity of the other tables, as a value only; the row of `users` itself is read and written
by `Accounts` (hash, lock) and by `Access` (role, activity), which use different columns, and
a unit of work writes only columns that changed. `DELETE /user/data` leaves the account. `POST
/liberate` starts a run of the agents in a thread: `Moses` models the threads, breakers and
queue it shares with other runs, `Liberation` what its agents work out; it touches no table.
The first phase of King is the dispute pathway's, and Colvin rotates the same bases. Disputes
have their own table, which erasure does not touch. Subscriptions, webhooks, flags and keys
have a table each, and no route changes two of them; `deliver_event` and `handle_webhook` are
called by nothing under `src/src/` yet but tests and are modelled as what they do when called.
All parts run inside the containers that `BlueGreen` starts and stops; a stopped worker is the
`Lose` action of `UserData` and the `Restart` of `Webhooks`, and it resets the breakers of
`Moses` to their initial state, from which a behaviour of `Moses` starts.

`Services` puts side by side the eight parts that share no record of the data base and no
object in memory.

## 3. The modules

| Module | What it is |
| --- | --- |
| `DisputeLifecycle` | abstract: every operation of a dispute is atomic |
| `Dispute` | one action per await of the PATCH handler: `Get`, `Check`, `Commit`, `Refresh`, `Fail`; `Create` |
| `DisputeProofs` | theorems about `Dispute` |
| `CircuitProtocol` | abstract: what a breaker promises of each agent |
| `Resilience` | breaker, queue and their calls as operators |
| `Moses` | one action per call into a shared object, one per agent execution; `Tick` is time |
| `MosesProofs` | theorems about `Moses` |
| `UserData` | one action per statement or commit of a task or handler |
| `UserDataProofs` | theorems about `UserData` |
| `Accounts` | one action per statement, per stretch of Python code between awaits, per commit |
| `AccountsProofs` | theorems about `Accounts` |
| `BlueGreen` | one action per command of the scripts |
| `BlueGreenProofs` | theorems about `BlueGreen` |
| `Profile` | operators: what a request accepts, bands, kinds of items, the simple form |
| `Assessment` | operators: the five outputs of an assessment and the dispute pathway |
| `Simulation` | one action per handled action of a simulation, and the projection |
| `Letters` | one action per letter of a request or a batch |
| `Barriers`, `BattlePlan`, `BureauScan` | operators: what each of the nine agents answers |
| `Liberation` | one action per agent of a plan, answering or falling back, and the printing |
| `Billing` | events and their deliveries; an upsert is `Receive` and `Commit` |
| `Webhooks` | one action per statement of removal and delivery; restarts with another key |
| `Access` | tokens, keys and roles; `Pass` is time |
| `Flags` | each request of an administrator is a read and a commit |
| `Backups` | one action per night |
| `Services` | the eight preceding components side by side |
| `AdviceProofs` | theorems about `Profile`, `Assessment`, `Simulation` and `Letters` |
| `OperationsProofs` | theorems about `Billing`, `Webhooks`, `Access`, `Flags` and `Backups` |
| `ServicesProofs` | theorems about `Liberation` and the agents, and about `Services` |
| `MC...` | small instances: definitions of constants, symmetry |

Operators named "Mutant" are what a plausible bug would make of the definition after them.
They are not used by the specification: putting one in place of its definition makes the
property it is paired with in `PROJECT.json` fail, which shows that the property depends on
the code.

**Dispute.** `rows` is the table, `seen` the ORM object of each request's SELECT, `pend` the
same object after the Python assignments. `Commit` writes only the columns in which they
differ, as SQLAlchemy's unit of work does: that is why two racing handlers can leave a row
that neither of them computed. Days are integers; the deadlines are constants.
`ApproachingDeadlines` is the set of answers that the deadline query may give: all that is
due, or any `DeadlineLimit` rows of it, since the query has a limit and no order.

**Moses.** `_run_agent` makes a fixed list of calls for each outcome of an execution
(`Calls`), with `made` counting those behind it. The age of a breaker's last failure and its
count of failures are followed up to the value they are compared with. The report's reads
are actions too (`Inspect`), one breaker at a time. `later` counts, for the failure that a run
has logged, the entries added behind it, which gives its place in a queue however full.

**UserData.** `rows` holds an assessment row per request and a consent row per grant, with
`state` telling "none", "stored", "withdrawn" and "erased" apart; rows an open erasure has
deleted but not committed are in its `taken`, and `Locked` makes another DELETE or UPDATE of
them wait, as PostgreSQL does. A step at READ COMMITTED sees committed rows only. A score is
written by a transaction (`write`) of its own, of a task or of a POST: its beginning fixes
`recorded_at`, `InsertScore` takes the id, which is its place in `history`, and `CommitScore`
makes it `Visible`; in between any other writer may overtake it. `since` and `open` are history
variables of a read.

**Accounts.** `seen` is the account as a login loaded it, `next` as it left it; `Written` puts
only the columns that differ into the row, as the unit of work does, which is why a stale
login with the right password clears the counter and not the lock. `others` are the live
tokens of the address when a confirmation took its own. A request that was answered may start
again as another one.

**BlueGreen.** `script` is the script that runs, at which command. `Abort` may end it between
any two commands; it covers a command that fails under `set -e` and a person's Ctrl-C.

**Simulation.** The request's profile is a record; utilization is kept as per cent times the
limit and the balance in hundredths of a dollar, which makes "consistent" an equation of whole
numbers. Each handler changes utilization, balance, counts and the total of the estimates
exactly as its Python counterpart, clamps included; the range of an impact is cut towards zero
on both sides (`Impact`), as `int()` does.

**Letters.** A template is its variation, the placeholders it uses and its number of citations;
`Generate` fails where the code raises: a variation the kind has not, or a placeholder without
a value.

**Liberation.** `Dispatch` puts the answer of the next agent into `results`, `FallBack` what the
code puts there for an agent that fails, is cut off or gives invalid data; `Render` reads the
keys that `export.py` reads. Answers that depend on a remote service or on the text of the
summary (Robinson, Truth) are any of those the code can give. Tables are those of
`agents/data/*.json`.

**Billing.** `emitted` is Stripe's own order; `Receive` may take any emitted event any number of
times. `Written` names the columns that differ from the row as it was loaded.

**Webhooks.** A secret is the key it was stored under; `Readable` is `decrypt_field`: without a
key everything is read as it is, with one only what it encrypted. `due` is kept beside the
tasks `to` to compare the two. A task is three actions: `Contact` the endpoint, `LogDelivery` up
to the COMMIT of its row, `ReadBack` the refresh after it; each may fail, and the record is
returned only if none did.

**Access.** `Authenticated` is what `verify_auth` can return at a moment, `IsAdmin` what
`require_role` makes of it. A login is two actions, since it commits between the reading of the
role and the token: `logins` are the accounts and roles that are under way. Administrator's
actions need one such identity (`AdminPresent`). Tokens that expired are forgotten, so that
`MaxTokens` bounds the live ones.

**Flags.** `seen` is the loaded row, `asked` the body as `update_flag` gets it (`Asked`: an empty
list becomes "not given").

**Services.** `focus` says which component takes the steps, the others keep one first state. No
component reads or writes a variable of another, so every behaviour of all of them projects to
behaviours of each (`ServicesImplement`), and every property is about the variables of one: what
holds with one component moving holds with all moving.

## 4. The runs

Passing:

| Run | Shows | Bounds |
| --- | --- | --- |
| `dispute_serial` | One PATCH at a time: refinement of `DisputeLifecycle`, the answer is to the dispatch on record, every request gets an answer; the deadline query is complete unless its answer is full | 2 disputes and a limit of 1 row, 1 request at a time, so that no interleaving occurs |
| `dispute_race` | What survives two handlers: deadline, answer, no return to draft | 1 dispute, 2 requests, 2 rounds, 2 days |
| `moses_serial` | One run at a time: refinement of `CircuitProtocol`; the report agrees with the circuits; an agent that keeps failing is cut off | 1 run, a validated agent and one that is not, threshold 3, timeout 2 |
| `moses_race` | Two runs: state and count of a breaker agree; the entry of each failure is at its place in the queue, also when the queue has been full for long; every run reports; a circuit is not open for ever while the agent is asked for | 2 runs, 1 agent, queue of 2, threshold 3, timeout 2 |
| `userdata_erase` | Erasure is atomic and complete; audit entries are about stored rows | 2 erasures, 1 assessment with its tasks, 1 grant, 2 users |
| `userdata_read` | An export misses only rows beyond the query's limit; a trend is not older than the latest score and skips no entry that was committed when it was read | 2 assessments, 1 grant, 1 export (limit 1); 3 POSTs of a score in any order of beginning, INSERT and COMMIT, 1 reader, 2 score values, any cutoff |
| `accounts` | Lock, audit entry, tokens, password and registration while requests overlap and fail | 1 address, 2 requests, 2 tokens, 2 passwords, limit of 2 failures, minutes 0 to 2 |
| `bluegreen_deploy` | Deployments and rollbacks after any failures: a deployment keeps something serving, and its markers are true; a script past its first lines knows its slot (part of `TypeOK`) | 4 builds |
| `services` | The eight components without shared state, each with its property (below) | see below |

What `services` checks, and on what:

| Property | Shows | Bounds |
| --- | --- | --- |
| `AssessmentCoherent` | the simple form is always accepted and counts the collections the pathway disputes; the five outputs do not contradict each other | 5 profiles and 4 forms at the edges of bands, severities and item kinds |
| `ProjectionSound` | a consistent profile stays so; estimates in order; no gain from splitting a reduction | the same, up to 4 actions of any kind, 4 amounts, 4 targets |
| `LettersSound` | all letters of a batch or none, each as asked; variations used evenly | 6 batches of 1 to 5 letters, explicit and automatic variations mixed, a kind with fewer variations wrapping round |
| `PlanCoherent` | doors, jobs, tax, cycles, scan, text check, notices and page agree | 5 requests, 7 texts, 3 bureaus with missing and malformed values, up to 2 fallbacks |
| `BillingSound` | while no upserts overlapped: the row is the last event committed, and a paid tier exactly for an active known plan; two rows lock out for good | 2 workers, 3 events, 4 deliveries, a known and an unknown plan |
| `WebhooksSound` | a returned record is in the log, and a row without one could not be read back; a call is whole, signed, and returns if its endpoints do; only owners remove | 2 hooks, 2 owners, 1 call, 1 restart, with and without a key |
| `AccessSound` | a refused key stays refused, pruning changes no answer, no token for a key, rights come back by promotion only | 2 accounts, the demo user, 2 keys with one prefix, lifetime 2, keys of no days or for ever, 2 live tokens and 1 login under way (with both keys created: 1 and none), times 0 to 2 |
| `FlagsSound` | creations overwrite nothing, updates write what they were given, rules are never cleared | 2 administrators, 1 flag, 3 lists of rules |
| `CopiesNeedTheirPeriod` | which copies the policy leaves, by the interval of its application | 420 nights, pruned every 1, 2, 5, 7, 16, 23 or 30 days |

Violations, each a sentence of the repository that the code does not keep:

| Run | The sentence | What TLC shows |
| --- | --- | --- |
| `dispute_terminal` | resolved has no successor (`dispute_models.py:26`) | of two handlers that loaded the answered dispute, one resolves it, the other escalates it afterwards |
| `userdata_back` | all data is deleted (`data_rights.py:100`) | a queued task stores an assessment afterwards |
| `bluegreen_rollback` | run it when a deployment fails its health check; it "stops the failed deployment slot" (`src/docs/runbooks/deployment-rollback.md:7`, `:22`) | a deployment of blue that completes and one of green that fails its health check leave both markers at blue; the rollback finds blue healthy and then stops it |

Further disagreements of the same kind are stated in the modules and have no run of their
own; TLC refutes each when it is put, as an `INVARIANT` (`OpenForTimeout` as a `PROPERTY`),
in `MCMosesRace.cfg`, `MCMosesSerial.cfg` (`InvalidAgentTrips`, as a `PROPERTY`),
`MCUserDataErase.cfg`, `MCUserDataRead.cfg` (`ExportIsComplete`), `MCUserDataBack.cfg`
(`ErasureCoversScores`) or `MCBlueGreenRollback.cfg`:

| Definition | The sentence | What the code does |
| --- | --- | --- |
| `Moses!InvalidAgentTrips` | after three failures in a row the agent is skipped (`src/ARCHITECTURE.md:73`) | `_run_agent` records a success before it validates the result, which clears the count: an agent that returns nothing but invalid results is executed for ever |
| `Moses!OneRetry` | half-open lets one retry through (`src/ARCHITECTURE.md:73`) | `allow_request` admits every run that asks |
| `Moses!OpenForTimeout` | open for the timeout (`agents/resilience.py:14`) | a success of a run admitted earlier closes it at once |
| `Moses!OwnTimings` | the report shows how long each agent took (`src/ARCHITECTURE.md:81`) | the benchmark is shared: it may be another run's time |
| `UserData!StoredIsAudited` | the task persists result and audit entry (`assess_tasks.py:24`) | the second commit may fail, and nothing repairs it |
| `UserData!ErasureCoversScores` | all data is deleted (`data_rights.py:100`) | the score history stays |
| `UserData!ExportIsComplete` | all data is exported (`data_rights.py:73`) | the default limit of the query cuts it |
| `BlueGreen!DetectedSlotIsIdle` | the idle slot is detected (`src/deploy/blue_green.sh:7`) | with both slots running it picks green, though green is active |
| `BlueGreen!RollbackNeedsNoBuild` | a rollback needs no build (`src/deploy/rollback.sh:9`) | the first deployment records a slot that has no image |
| `BlueGreen!TrafficSwitched` | the traffic is switched (`src/deploy/blue_green.sh:12`) | nothing touches Caddy |

More disagreements are plain from the code and need no model checker; the modules follow the
code:

| The sentence | What the code does |
| --- | --- |
| a printable plan (`agents/export.py:157`) | five of its sections read keys that no agent writes (`poverty_tax`, `barriers`, `actions`, `rights`, `cycles`), so that they say "Unknown" or stay empty (`Liberation!Render`) |
| baseline tax $0 at 750 to 850 (`METHODOLOGY.md:52`) | the total is never below $1500 (`agents/data/poverty_tax_tables.json:120`) |
| $13,000 for a CNA whose credit blocks the job (`METHODOLOGY.md:72`), CNA at 580 (`BABY_INERTIA_INTEGRATION_REPORT.md:210`) | no score blocks `healthcare_cna`, and Phantom looks for `target_industry` where the route passes `target_industries` |
| every dispute letter is unique (`BABY_INERTIA_INTEGRATION_REPORT.md:212`) | the third letter of a kind with two variations has the first one's structure (`Letters!AutoVariation`) |
| rate limits per tier (`assess_routes.py:200`, `api_docs.py:111`) | every caller has 300 a minute; `resolve_user_tier` and `get_tier_limit` are used by no route |
| deactivate (soft delete) (`dashboard_routes.py:64`) | a login is refused, but tokens stay good and can be refreshed for ever (`Access!Refresh`); keys outlive the rights of whoever created them |
| without the key secrets are stored in plain text, backward compatible (`models_db.py:144`) | once a key is set they cannot be read: deliveries to them, the list and even their removal raise (`Webhooks!Readable`); without the key they are signed with the ciphertext |
| weekly and monthly copies (`backup.py:45`) | applied every day, the policy leaves neither, since a copy of day 8 is dropped (`Backups!CopiesNeedTheirPeriod`) |
| `letter_type` (`agents/gray.py:94`) | "adverse_action_response" is no kind of letter of `/disputes/letters` |

Further oddities of the same sort, that no sentence contradicts: a checkout stores "starter"
whatever was bought; two rows of `subscriptions` make the list of all customers fail; an empty
list of targeting rules cannot be given to `PUT /flags/{key}`; the log of a removed webhook
cannot be reached; Robinson's stack of free services includes those a user is not eligible for;
King and Lewis read `previous_disputes` and `simulation_result`, which no route passes; the
deadline list of a user with more than 100 waiting disputes leaves out any of them, the most
urgent not excepted; a role that was taken away while a login was between its SELECT and its
token still goes into the token; a delivery whose row is stored and cannot be read back is
logged and not returned; an endpoint that sends a byte now and then holds a call for ever, since
the timeout of the client is for each read. Of events that overlap, or come late, nothing is
promised but what `BillingSound` says: a second row for the address and a late "updated" that
revives a subscription are what the code does.

Why the bounds are enough: every hazard in the list needs at most two actors on one record (the
second one between the first one's read and write), and the runs have two wherever the code has
no lock. A third actor adds
orders of the same pairs, but for the scores, which have three writers. The counters are cut at the value they
are compared with (threshold, timeout, limit) and one step beyond where that can matter. In
`userdata_erase` and `userdata_read` the constraint `Focus` looks at erasures, exports and
readers of one user only; the other user (the static API key) still writes rows that must not
be touched. In `userdata_read`, `Apart` keeps the exports with what they read, and the history
reads with the three scores, in behaviours of their own: the two share no table. Three writers
are what it takes for an entry to lie between two others in id and to be committed after both;
one writer overtaken by another is what puts the latest score behind. Requests, tasks, tokens
and passwords are symmetric: no definition tells one from another, and no liveness property is
checked under symmetry. Four builds give both slots two releases. In `services`, the profiles,
letters, plans and texts are chosen at the edges where the code's thresholds, tables and
roundings meet: each table is read from both sides of some threshold, and each property has
mutants of the code there that break it. Two upserts and three events give a purchase, a change
and an end in any order, over four deliveries; two keys that share a prefix are what a
revocation by prefix can confuse (the constraint `Apart` of `MCServices` has the second one
without logins); a token that lives two units is refreshed at each of its ages; one login is
enough to overlap with a demotion, and two tokens to be issued by it before and after; one call
to two endpoints has each order of their answers, removals and failures. 420 nights are the
thirteen months of 30 days after which no older copy is kept, and one more. The theorems of
section 6 hold without any of the bounds.

`CHECK_DEADLOCK FALSE` stands where the system may stop: all the requests of an instance of
`UserData`, or the one request of an instance of `Services`, have been answered. Everywhere
else deadlock is checked.

## 5. Fairness

* `Dispute`: weak fairness of each request's steps. The event loop resumes a coroutine whose
  await has completed; a request that fails is a step as well.
* `Moses`: weak fairness of each run's steps and of time. Threads of the pool are run, an
  execution returns or raises, locks are held for a few statements. Nothing forces a new
  request to arrive: what must happen on arrival is stated under "is asked for again and
  again".
* `Webhooks` (`DeliveryFairness`, part of `Services!Spec`): weak fairness of the two steps that
  store a record, and of the return of a call: the event loop runs what is ready, and the
  database answers. None of the contact with an endpoint: the client's ten seconds are for each
  read (`webhook_delivery.py:146`), so that an answer may never end. `DeliveryReturns` therefore
  speaks of calls whose endpoints are again and again all done. Nothing forces a call, a removal
  or a restart.
* The other components of `Services`: none; what is stated of them is safety.
* `UserData`, `Accounts`, `BlueGreen`: none. A worker may die, a statement may fail and a
  person may stop at any point; what is stated of them is safety.

## 6. The proofs

All for any sets of disputes, users, requests, runs, agents, tasks, accounts, keys, flags,
workers, profiles, letters, plans and texts, any threshold, lifetime, timeout and limits; from
the named assumptions of the modules only (NULL is not a value, the numbers are natural, the
pipelines name an agent once, requests are what the request models accept). Every property
of a passing run is a theorem but the liveness properties below.

* `DisputeProofs`. `IInv` adds to the type: each row has lived (`Lived`: what its status says
  about its dates), each loaded row had (`Loaded`), and what a handler is about to write is
  what the checks allow (`Checked`). None of these mentions another request: a stale write
  mixes columns of two rows that were both good, and `Lived` is chosen so that the columns a
  handler writes together keep it. From it follow `DeadlineCorrect`, `AnswerCorrect`,
  `WatchCorrect` and `NeverUnsentCorrect`. With one request (`Serial`), `seen` is the row
  until the commit, which gives `ResponseCorrect` and `Refinement`: `Create` and `Commit` map
  to `Open` and `Advance`, all else stutters.
* `MosesProofs`. `Sound` ties state and count of a breaker, and holds whatever order the calls
  of the runs come in (`BreakerCorrect`); `TypeCorrect` includes the bound of the queue. With
  one run, a success can only meet a closed or half-open breaker, which gives `CircuitCorrect`,
  and what the run has counted is what the breakers say, which gives `ReportCorrect`. For
  `FailuresAreLogged`, each entry that another run adds moves a logged one by one place
  (`CallQueue`, `LoggingStep`), until that place is beyond the limit; the number of entries
  added since is `later`.
* `UserDataProofs`. For erasure, `EInv`: a request's row is where its task is (`JobRows`), what
  an erasure has taken is everything of the user up to its statement's snapshot (`Taken`), and
  two open erasures never hold the same row (`Exclusive`; the row lock). `ErasureCorrect` and
  `AtomicCorrect` follow. For reading, `HistoryMoves` says how the table changes: an
  entry is added at the end and not visible, and only a commit makes one visible. `RInv` adds that
  whatever may still appear between the entries of a reader's trend was open when it read
  (`Current`); `TrendCorrect` follows for any order of the commits. `ExportCorrect` is a
  count: if the query leaves a row out, it returns as many as its limit (`NewestCount`).
* `AccountsProofs`. `IInv` says what a request knows at each place (`OfLogin`: the lock it saw
  had run out; `OfConfirm`: its token is of its address, and gone from "set" on; `OfOthers`,
  `OfRegistration`), and that a locked address has a row. `Kept` says what every step keeps of
  the tables; with it one lemma (`Bystander`) covers all requests that do not move, and each
  action is left with the one that does. `WhoWrites` names the actions that can change an
  account, which gives the two action properties.
* `BlueGreenProofs`. `IInv` says what a script knows at each command: from "up" on the target
  has an image, from "health" on it runs it, from "stop" on it was healthy, and the recorded
  previous slot is the other one. `DeployCorrect` and `DeploySafe` follow.
* `OperationsProofs`.
  *Access*: the invariant is the types with the bound of a token's life and whose the tokens
  are. `RefreshedIsToken` says that only a token that can be decoded is refreshed, and and
  `IssuedToken` that a new token is an administrator's only if its subject has such rights
  already, by a token, the role or a login that has read it; with it `RightsComeByPromotion`
  has one case for each kind of action. `AccessCorrect` collects the five parts of
  `AccessSound`.
  *Flags*: `FlagsTypeOK` says what a request knows between its read and its commit; that an
  update is never asked for an empty list is in its type (`Wishes`). `RowChange` names the
  three steps that can change a row, `Ending` the commit of a request.
  *Billing*: the invariant adds `SerialSoFar`: as long as no two upserts overlapped, at most
  one worker is between its two statements, and it has seen the row that is there. An upsert
  that saw the row writes the whole of its effect, which makes the row the effect of the event
  committed last; `TierCorrect` follows by the kinds of an event. Both speak of the time before
  the first overlap only, and `TierCorrect` of deliveries that end with Stripe's newest event.
  `LockOutIsFinal` needs the types only.
  *Webhooks*: `WInv` says where each task of a call is, and that it has a row in the log from its
  COMMIT on (`HasRow`) and not before. `RecordsCorrect`, `SigningCorrect` and
  `RemovalCorrect` are the parts of `WebhooksSound` that are safety.
  *Backups*: `Aging` says how old the copies can be by the day of the period, whatever the period
  is, with the remainder of a division handled by `NextRemainder`.
* `AdviceProofs`. No induction theorem can be instantiated here; instead `LeastNumber`, from the
  well-founded order of the naturals, gives the first number that fails, and an induction is a
  proof that there is none. With it `Enumerated` shows that `InOrder` lists every member of a
  finite set once, and `SortedOrder` that `SortedBy` is a stable sort. Hence `PathwayOrder`, and
  with it and the tables of bands and severities `AssessmentCorrect`; `ConversionAccepted` says
  that the form's profile passes the request model. *Simulation*: the invariant is the parts of
  `ProjectionSound` with the fact that a step never raises utilization (`NeverHigher`), each
  handler a lemma. *Letters*: `LetInv` adds to what the batch has answered how far each counter
  is (`Shares`), from which the variations are spread evenly.
* `ServicesProofs`. `LibInv` says what each answer in `results` is: that of its agent on the
  request, King's from what Parks left or from Parks's fallback. `PlanCoherent` is then a fact
  about each agent's operator, one lemma each: doors that open (`DoorsAgree`), industries
  (`JobsAgree`), taxes that fall (`TaxesFall`), rounds of disputes (`CyclesDiffer`, which counts
  rounds and formats to bound the diversity for any number of items), a scan that can be
  turned round (`ScanAgrees`), advice (`TruthAgrees`), notices (`NoticesAgree`); `PlanCorrect`
  collects them. `ServicesImplement` projects the composition to its eight parts, fairness of
  the deliveries included, and `ServicesCorrect` carries their theorems over.

Two attempts at a proof failed for a good reason and corrected the statement: that every text
that Truth refuses is given advice holds below 1019 words only; and a pruning every 16 or
23 days, which no run had tried, does leave one monthly copy, that of day 30.

Only model-checked: the liveness properties (`EveryRequestAnswered`, `EveryRunReports`,
`OpenIsTemporary`, `FailingAgentTrips`, `DeliveryReturns` and with it `WebhooksSound` as a whole),
which are out of the prover's reach, and the three violations.

## 7. Assumptions

* PostgreSQL at READ COMMITTED, with row locks on DELETE and UPDATE until commit.
* A worker is one event loop; a coroutine is interrupted at awaits only. Workers share the
  database and nothing else, so that handlers of two workers interleave as two of one do.
* Breakers, dead letter queue and benchmark are per worker: `Moses` is one worker.
* The clock does not go back.
* Stripe emits the events of a subscription in a sensible order (bought, changed, ended), and
  delivers them in any.
* The last four digits of an account number in a bureau report decide whether there are four
  (`ValidReports`; true of strings, which the model does not take apart), and the reports and
  denials, which the request model takes as plain dictionaries, have fields of the types that
  the agents read.
* Identifiers of webhooks and keys are never given out twice (UUIDs, random keys).
* `docker compose ps` answers; a release goes bad only while no script runs, and one script runs
  at a time.
* The database answers (`DeliveryFairness`), and a COMMIT that reports an error stored nothing.
* The script of every night succeeds (`Backups`): a night without its copy has no later ones
  either.

## 8. What a next step would be

* The step of the refinement of `Dispute` with two requests that does hold: which of the
  operations of `DisputeLifecycle` survive a race.
* `UserData` with the tables an erasure does not reach (`Dispute`, `score_history`), if the code
  comes to reach them.
* Two operators of the deployment scripts at once, if a lock is added to them.
