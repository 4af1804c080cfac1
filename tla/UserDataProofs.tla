--------------------------- MODULE UserDataProofs ---------------------------
(***************************************************************************)
(* Theorems about UserData, for any number of users, requests, tasks and   *)
(* rows.  Liveness is left to TLC.                                         *)
(***************************************************************************)
EXTENDS UserData, FiniteSetTheorems, NaturalsInduction, WellFoundedInduction, TLAPS

(* Every action leaves the three variables of the score history alone together
   or changes them one by one. *)
USE DEF scoreVars

-----------------------------------------------------------------------------
(* The last entry of a set of entries of the table is one of them. *)
LEMMA LastIn ==
    ASSUME NEW n \in Nat, NEW S, S \subseteq 1 .. n, S # {}
    PROVE  Last(S) \in S /\ \A k \in S : k <= Last(S)
<1>1. \E i \in S : \A k \in S : k <= i
  <2> DEFINE T == { n - i : i \in S }
  <2>1. T \subseteq Nat /\ T # {}
    <3>1. ASSUME NEW i \in S
          PROVE  n - i \in Nat
      OBVIOUS
    <3> QED
      BY <3>1
  <2>2. PICK m \in T : \A t \in T : ~(<<t, m>> \in OpToRel(<, Nat))
    <3> HIDE DEF T
    <3> QED
      BY <2>1, WFMin, NatLessThanWellFounded
  <2>3. PICK i \in S : m = n - i
    OBVIOUS
  <2>4. ASSUME NEW k \in S
        PROVE  k <= i
    <3>1. n - k \in T /\ n - k \in Nat /\ m \in Nat
      BY <2>1
    <3>2. ~(n - k < m)
      BY <2>2, <3>1 DEF OpToRel
    <3> QED
      BY <3>1, <3>2, <2>3
  <2> QED
    BY <2>4
<1> QED
  BY <1>1 DEF Last

(* Of two or more entries the last has one before it, and the last of those
   is the one next to it. *)
LEMMA LastTwo ==
    ASSUME NEW n \in Nat, NEW S, S \subseteq 1 .. n, ~(Cardinality(S) < 2)
    PROVE  LET a == Last(Before(S, Last(S)))
               b == Last(S)
           IN  /\ a \in S /\ b \in S /\ a < b
               /\ \A i \in S : i <= a \/ i = b
<1> DEFINE b == Last(S)
           B == Before(S, b)
           a == Last(B)
<1>1. S # {} /\ \A x : S # {x}
  <2>1. S # {}
    <3>1. Cardinality({}) = 0
      BY FS_EmptySet
    <3> QED
      BY <3>1
  <2>2. ASSUME NEW x, S = {x}
        PROVE  FALSE
    <3>1. Cardinality({x}) = 1
      BY FS_Singleton
    <3> QED
      BY <2>2, <3>1
  <2> QED
    BY <2>1, <2>2
<1>2. b \in S /\ \A k \in S : k <= b
  BY <1>1, LastIn
<1>3. B \subseteq S /\ \A k \in S : k \in B <=> k < b
  BY DEF Before
<1> HIDE DEF b, B
<1>4. B # {}
  <2>1. PICK x \in S : x # b
    <3>1. S # {b}
      BY <1>1
    <3> QED
      BY <1>2, <3>1
  <2> QED
    BY <2>1, <1>2, <1>3
<1>5. a \in B /\ \A k \in B : k <= a
  <2>1. B \subseteq 1 .. n
    BY <1>3
  <2> QED
    BY <2>1, <1>4, LastIn
<1> HIDE DEF a
<1>6. a \in S /\ b \in S /\ a < b /\ \A i \in S : i <= a \/ i = b
  BY <1>2, <1>3, <1>5
<1> QED
  BY <1>6 DEF a, b, B

-----------------------------------------------------------------------------
(* The empty database has the right types. *)
LEMMA TypeInit == Init => TypeOK
<1> SUFFICES ASSUME Init PROVE TypeOK
  OBVIOUS
<1>1. rows \in [Rows -> Row] /\ nextId \in Nat /\ audits \subseteq Jobs
  BY DEF Init, Row, NoRow
<1>2. /\ history \in Seq(Entry) /\ begun \in Nat
      /\ write \in [Writes -> Write] /\ \A w \in Writes : write[w].pc = "idle"
  BY DEF Init, Write, NoWrite
<1>3. /\ job \in [Jobs -> Job]
      /\ \A j \in Jobs : job[j].pc = "idle"
  BY DEF Init, Job
<1>4. /\ erase \in [Erasures -> Erasure]
      /\ export \in [Exports -> Export]
      /\ reader \in [Readers -> Reader]
  BY DEF Init, Erasure, Export, Reader
<1> QED
  BY <1>1, <1>2, <1>3, <1>4 DEF TypeOK

(* A task that ends moves its job on and leaves the others alone. *)
LEMMA MovedJob ==
    ASSUME TypeOK, NEW j \in Jobs, job[j].pc # "idle",
           NEW next \in {"save", "audit", "meter", "score", "done", "lost"},
           job' = [job EXCEPT ![j].pc = next]
    PROVE  /\ job' \in [Jobs -> Job]
           /\ \A i \in Jobs : job'[i].pc # "idle" => /\ job'[i].user \in Users
                                                     /\ job'[i].score \in Scores
           /\ job'[j].pc = next
           /\ \A i \in Jobs : i # j => job'[i] = job[i]
<1>0. job[j] \in Job
  BY DEF TypeOK
<1> DEFINE moved == [job[j] EXCEPT !.pc = next]
<1>1. /\ moved \in Job
      /\ moved.pc = next
      /\ moved.user = job[j].user
      /\ moved.score = job[j].score
  BY <1>0 DEF Job
<1>2. job' = [job EXCEPT ![j] = moved]
  BY DEF TypeOK
<1> HIDE DEF moved
<1> QED
  BY <1>1, <1>2 DEF TypeOK

(* The transaction that a score begins, and what it does next. *)
LEMMA TypeBegin ==
    ASSUME TypeOK, NEW w \in Writes, NEW user \in Users, NEW score \in Scores,
           BeginWrite(w, user, score)
    PROVE  /\ begun' \in Nat /\ write' \in [Writes -> Write]
           /\ \A v \in Writes : write'[v].pc # "idle"
                                => /\ write'[v].user \in Users
                                   /\ write'[v].score \in Scores
<1>1. begun \in Nat /\ write \in [Writes -> Write]
  BY DEF TypeOK
<1> DEFINE new == [pc |-> "insert", user |-> user, score |-> score,
                   at |-> begun + 1]
<1>2. new \in Write /\ new.user \in Users /\ new.score \in Scores
  BY <1>1 DEF Write
<1>3. write' = [write EXCEPT ![w] = new] /\ begun' = begun + 1
  BY DEF BeginWrite
<1> HIDE DEF new
<1> QED
  BY <1>1, <1>2, <1>3 DEF TypeOK

LEMMA TypeWrite ==
    ASSUME TypeOK, NEW w \in Writes,
           InsertScore(w) \/ CommitScore(w) \/ WriteFails(w)
    PROVE  TypeOK'
<1>1. /\ write[w] \in Write /\ write[w].pc # "idle"
      /\ write[w].user \in Users /\ write[w].score \in Scores
  BY DEF TypeOK, InsertScore, CommitScore, WriteFails
<1>2. PICK next \in {"commit", "stored", "failed"} :
         write' = [write EXCEPT ![w].pc = next]
  BY DEF InsertScore, CommitScore, WriteFails
<1>3. /\ write' \in [Writes -> Write]
      /\ \A v \in Writes : write'[v].pc # "idle" => /\ write'[v].user \in Users
                                                    /\ write'[v].score \in Scores
  <2> DEFINE moved == [write[w] EXCEPT !.pc = next]
  <2>1. /\ moved \in Write /\ moved.user = write[w].user
        /\ moved.score = write[w].score
    BY <1>1 DEF Write
  <2>2. write' = [write EXCEPT ![w] = moved]
    BY <1>2 DEF TypeOK
  <2> HIDE DEF moved
  <2> QED
    BY <1>1, <2>1, <2>2 DEF TypeOK
<1>4. history' \in Seq(Entry)
  <2> DEFINE entry == [user |-> write[w].user, score |-> write[w].score,
                       at |-> write[w].at, by |-> w]
  <2>1. entry \in Entry
    BY <1>1 DEF Entry, Write
  <2>2. history' = Append(history, entry) \/ history' = history
    BY DEF InsertScore, CommitScore, WriteFails
  <2> HIDE DEF entry
  <2>3. history \in Seq(Entry)
    BY DEF TypeOK
  <2> QED
    BY <2>1, <2>2, <2>3
<1>5. UNCHANGED <<rows, nextId, audits, begun, job, erase, export, reader>>
  BY DEF InsertScore, CommitScore, WriteFails
<1> QED
  BY <1>3, <1>4, <1>5 DEF TypeOK

(* The tasks of an assessment keep the types. *)
LEMMA TypeJob ==
    ASSUME TypeOK, NEW j \in Jobs, Task(j) \/ PersistFails(j) \/ Lose(j)
    PROVE  TypeOK'
<1>0. job[j].pc # "idle"
  BY DEF Task, Save, Audit, Meter, Score, PersistFails, Lose
<1>1. \E next \in {"save", "audit", "meter", "score", "done", "lost"} :
         job' = [job EXCEPT ![j].pc = next]
  BY DEF Task, Save, Audit, Meter, Score, PersistFails, Lose
<1>2. /\ job' \in [Jobs -> Job]
      /\ \A i \in Jobs : job'[i].pc # "idle" => /\ job'[i].user \in Users
                                                /\ job'[i].score \in Scores
  BY <1>0, <1>1, MovedJob
<1>3. CASE Save(j)
  <2>1. job[j].user \in Users
    BY <1>0 DEF TypeOK
  <2>2. [state |-> "stored", user |-> job[j].user, version |-> None,
         id |-> nextId] \in Row
    BY <2>1 DEF TypeOK, Row
  <2>3. rows' \in [Rows -> Row] /\ nextId' \in Nat
    BY <1>3, <2>2 DEF TypeOK, Save, Insert, Rows
  <2> QED
    BY <1>2, <1>3, <2>3 DEF TypeOK, Save
<1>4. CASE Score(j)
  <2>1. /\ job[j].user \in Users
        /\ job[j].score \in Scores
    BY <1>0 DEF TypeOK
  <2>2. CASE BeginWrite(j, job[j].user, job[j].score)
    <3>1. /\ begun' \in Nat /\ write' \in [Writes -> Write]
          /\ \A w \in Writes : write'[w].pc # "idle"
                               => /\ write'[w].user \in Users
                                  /\ write'[w].score \in Scores
      BY <2>1, <2>2, TypeBegin DEF Writes
    <3> QED
      BY <1>2, <1>4, <3>1 DEF TypeOK, Score
  <2>3. CASE UNCHANGED <<write, begun>>
    BY <1>2, <1>4, <2>3 DEF TypeOK, Score
  <2> QED
    BY <1>4, <2>2, <2>3 DEF Score
<1>5. CASE Audit(j) \/ Meter(j) \/ PersistFails(j) \/ Lose(j)
  BY <1>2, <1>5 DEF TypeOK, Audit, Meter, PersistFails, Lose
<1> QED
  BY <1>3, <1>4, <1>5 DEF Task

(* So do the statements of an erasure. *)
LEMMA TypeErase ==
    ASSUME TypeOK, NEW e \in Erasures,
           \/ \E user \in Users : EraseBegin(e, user)
           \/ EraseConsents(e) \/ EraseRecords(e) \/ EraseCommit(e)
           \/ EraseFails(e)
    PROVE  TypeOK'
<1>0. erase[e] \in Erasure
  BY DEF TypeOK
<1>1. ASSUME NEW user \in Users, EraseBegin(e, user)
      PROVE  TypeOK'
  <2>1. Len(history) \in Nat
    BY DEF TypeOK
  <2>2. Mine(user) \in SUBSET Nat
    BY <2>1 DEF Mine
  <2>3. { j \in Jobs : job[j].user = user /\ job[j].pc = "save" } \in SUBSET Jobs
    OBVIOUS
  <2> HIDE DEF Mine
  <2> QED
    BY <1>1, <2>2, <2>3 DEF TypeOK, EraseBegin, Erasure
<1>2. CASE EraseConsents(e)
  BY <1>2, <1>0 DEF TypeOK, EraseConsents, EraseFrom, Erasure, Rows
<1>3. CASE EraseRecords(e)
  BY <1>3, <1>0 DEF TypeOK, EraseRecords, EraseFrom, Erasure, Rows
<1>4. CASE EraseCommit(e)
  <2>1. rows' \in [Rows -> Row]
    BY <1>4, <1>0 DEF TypeOK, EraseCommit, Row
  <2>2. erase' \in [Erasures -> Erasure]
    BY <1>4, <1>0 DEF TypeOK, EraseCommit, Erasure
  <2> QED
    BY <2>1, <2>2, <1>4 DEF TypeOK, EraseCommit
<1>5. CASE EraseFails(e)
  BY <1>5, <1>0 DEF TypeOK, EraseFails, Erasure
<1> QED
  BY <1>1, <1>2, <1>3, <1>4, <1>5

(* And the statements of the two readers. *)
LEMMA TypeRead ==
    ASSUME TypeOK, NEW user \in Users,
           \/ \E x \in Exports : \/ ExportBegin(x, user)
                                 \/ ExportConsents(x)
                                 \/ ExportRecords(x)
           \/ \E q \in Readers : \/ ReadLatest(q, user)
                                 \/ \E cutoff \in 0 .. begun :
                                       ReadTrend(q, cutoff)
    PROVE  TypeOK'
<1>1. ASSUME NEW x \in Exports, ExportBegin(x, user)
      PROVE  TypeOK'
  BY <1>1 DEF TypeOK, ExportBegin, Export
<1>2. ASSUME NEW x \in Exports, ExportConsents(x)
      PROVE  TypeOK'
  <2>1. export[x] \in Export
    BY DEF TypeOK
  <2> QED
    BY <2>1, <1>2 DEF TypeOK, ExportConsents, Export, Rows
<1>3. ASSUME NEW x \in Exports, ExportRecords(x)
      PROVE  TypeOK'
  <2>1. export[x] \in Export
    BY DEF TypeOK
  <2>2. ASSUME NEW S \in SUBSET Jobs
        PROVE  Newest(S, ExportLimit) \in SUBSET Rows
    BY DEF Newest, Rows
  <2> QED
    BY <2>1, <2>2, <1>3 DEF TypeOK, ExportRecords, Export
<1>4. ASSUME NEW q \in Readers, ReadLatest(q, user)
      PROVE  TypeOK'
  <2>1. Len(history) \in Nat /\ Mine(user) \subseteq 1 .. Len(history)
    BY DEF Mine, TypeOK
  <2>2. Mine(user) # {} => Last(Mine(user)) \in Nat
    BY <2>1, LastIn
  <2> QED
    BY <2>2, <1>4 DEF TypeOK, ReadLatest, Reader
<1>5. ASSUME NEW q \in Readers, NEW cutoff \in 0 .. begun,
             ReadTrend(q, cutoff)
      PROVE  TypeOK'
  <2> DEFINE S == Recent(reader[q].user, cutoff)
             big == ~(Cardinality(S) < 2)
             open == { i \in 1 .. Len(history) :
                          write[history[i].by].pc = "commit" }
  <2>1. Len(history) \in Nat /\ S \subseteq 1 .. Len(history)
    BY DEF Mine, Recent, TypeOK
  <2>0. cutoff \in Nat /\ open \in SUBSET Nat
    BY <2>1 DEF TypeOK
  <2>2. /\ reader' = [reader EXCEPT ![q].pc = "done",
                                    ![q].since = cutoff,
                                    ![q].open = open,
                                    ![q].trend = IF big THEN Last(S) ELSE 0,
                                    ![q].delta = Delta(S)]
        /\ UNCHANGED <<rows, nextId, audits, scoreVars, job, erase, export>>
    BY <1>5 DEF ReadTrend
  <2> HIDE DEF S, open
  <2>3. big => /\ Last(S) \in S
               /\ Last(Before(S, Last(S))) \in S
    BY <2>1, LastTwo
  <2>4. ASSUME NEW i \in S
        PROVE  i \in Nat /\ history[i].score \in Nat
    <3>1. history \in Seq(Entry) /\ i \in 1 .. Len(history)
      BY <2>1 DEF TypeOK
    <3>2. history[i] \in Entry
      BY <3>1
    <3>3. history[i].score \in Scores
      BY <3>2 DEF Entry
    <3>4. history[i].score \in Nat
      BY <3>3, ScoresAssumption
    <3>5. i \in Nat
      BY <3>1, <2>1
    <3> QED
      BY <3>4, <3>5
  <2>5. Delta(S) \in Int
    BY <2>3, <2>4 DEF Delta
  <2>6. (IF big THEN Last(S) ELSE 0) \in Nat
    BY <2>3, <2>4
  <2>7. reader[q] \in Reader
    BY DEF TypeOK
  <2> HIDE DEF big
  <2> QED
    BY <2>0, <2>2, <2>5, <2>6, <2>7 DEF TypeOK, Reader
<1> QED
  BY <1>1, <1>2, <1>3, <1>4, <1>5

LEMMA TypeStep == TypeOK /\ [Next]_vars => TypeOK'
<1> SUFFICES ASSUME TypeOK, [Next]_vars PROVE TypeOK'
  OBVIOUS
<1>1. ASSUME NEW j \in Jobs, NEW user \in Users, NEW score \in Scores,
             Assess(j, user, score)
      PROVE  TypeOK'
  BY <1>1 DEF TypeOK, Assess, Job
<1>2. ASSUME NEW p \in Posts, NEW user \in Users, NEW score \in Scores,
             PostScore(p, user, score)
      PROVE  TypeOK'
  <2>1. /\ begun' \in Nat /\ write' \in [Writes -> Write]
        /\ \A w \in Writes : write'[w].pc # "idle" => /\ write'[w].user \in Users
                                                      /\ write'[w].score \in Scores
    BY <1>2, TypeBegin DEF PostScore, Writes
  <2> QED
    BY <1>2, <2>1 DEF TypeOK, PostScore
<1>3. ASSUME NEW user \in Users, NEW version \in Versions, NEW g \in Grants,
             Consent(g, user, version)
      PROVE  TypeOK'
  <2>1. [state |-> "stored", user |-> user, version |-> version,
         id |-> nextId] \in Row
    BY DEF TypeOK, Row
  <2>2. rows' \in [Rows -> Row] /\ nextId' \in Nat
    BY <1>3, <2>1 DEF TypeOK, Consent, Insert, Rows
  <2> QED
    BY <1>3, <2>2 DEF TypeOK, Consent
<1>4. ASSUME NEW user \in Users, NEW version \in Versions,
             Withdraw(user, version)
      PROVE  TypeOK'
  <2>1. rows' \in [Rows -> Row]
    BY <1>4 DEF TypeOK, Withdraw, Row
  <2> QED
    BY <1>4, <2>1 DEF TypeOK, Withdraw
<1>5. CASE UNCHANGED vars
  BY <1>5 DEF TypeOK, vars
<1> QED
  <2>1. ASSUME NEW j \in Jobs, Task(j) \/ PersistFails(j) \/ Lose(j)
        PROVE  TypeOK'
    BY <2>1, TypeJob
  <2>2. ASSUME NEW e \in Erasures,
               \/ \E user \in Users : EraseBegin(e, user)
               \/ EraseConsents(e) \/ EraseRecords(e) \/ EraseCommit(e)
               \/ EraseFails(e)
        PROVE  TypeOK'
    BY <2>2, TypeErase
  <2>3. ASSUME NEW user \in Users, NEW x \in Exports,
               ExportBegin(x, user) \/ ExportConsents(x) \/ ExportRecords(x)
        PROVE  TypeOK'
    BY <2>3, TypeRead
  <2>4. ASSUME NEW user \in Users, NEW q \in Readers,
               \/ ReadLatest(q, user)
               \/ \E cutoff \in 0 .. begun : ReadTrend(q, cutoff)
        PROVE  TypeOK'
    BY <2>4, TypeRead
  <2>5. ASSUME NEW w \in Writes, InsertScore(w) \/ CommitScore(w) \/ WriteFails(w)
        PROVE  TypeOK'
    BY <2>5, TypeWrite
  <2> QED
    BY <1>1, <1>2, <1>3, <1>4, <1>5, <2>1, <2>2, <2>3, <2>4, <2>5,
       UsersAssumption DEF Next

(* Every reachable state has its types, whatever tasks, erasures and readers
   run at the same time. *)
THEOREM TypeCorrect == Spec => []TypeOK
BY TypeInit, TypeStep, PTL DEF Spec

-----------------------------------------------------------------------------
(* The erasures.                                                           *)

(* A row that nobody has inserted yet, and what the statements of an erasure
   that is under way have left of the rows that were there before it. *)
JobRows == \A j \in Jobs :
    /\ job[j].pc \in {"idle", "save"} => rows[j].state = "none"
    /\ job[j].pc = "audit" => rows[j].state \in {"stored", "erased"}

Older(e, r) == Stored(r, erase[e].user) /\ rows[r].id < erase[e].since

Taken(e) ==
    /\ Deleting(e) => \A r \in erase[e].taken : Stored(r, erase[e].user)
    /\ Deleting(e) => \A r \in Grants : Older(e, r) => r \in erase[e].taken
    /\ erase[e].pc = "commit"
       => \A r \in Jobs : Older(e, r) => r \in erase[e].taken
    /\ erase[e].pc = "done" => \A r \in Rows : ~Older(e, r)
    /\ erase[e].pc # "idle" => erase[e].since <= nextId
    /\ erase[e].pc \in {"idle", "consents"} => erase[e].taken = {}

Exclusive ==
    \A e, f \in Erasures :
        e # f /\ Deleting(e) /\ Deleting(f)
        => erase[e].taken \cap erase[f].taken = {}

EInv == /\ TypeOK
        /\ JobRows
        /\ AuditedWasStored
        /\ \A e \in Erasures : Taken(e)
        /\ Exclusive

LEMMA EInit == Init => EInv
<1> SUFFICES ASSUME Init PROVE EInv
  OBVIOUS
<1>1. TypeOK
  BY TypeInit
<1> QED
  BY <1>1 DEF EInv, JobRows, AuditedWasStored, Taken, Exclusive, Deleting,
              Init, NoRow, Rows

(* An INSERT gets an id no earlier erasure covers, and a row that was not
   there is in nobody's transaction. *)
LEMMA InsertKeeps ==
    ASSUME EInv, NEW r \in Rows, rows[r].state = "none", NEW user, NEW version,
           Insert(r, user, version), erase' = erase
    PROVE  (\A e \in Erasures : Taken(e)') /\ Exclusive'
<1>1. /\ nextId' = nextId + 1 /\ nextId \in Nat
      /\ rows'[r].id = nextId
      /\ \A q \in Rows : q # r => rows'[q] = rows[q]
  BY DEF EInv, TypeOK, Insert
<1>2. ASSUME NEW e \in Erasures
      PROVE  Taken(e)'
  <2>1. Taken(e) /\ erase[e] \in Erasure
    BY DEF EInv, TypeOK
  <2>2. Deleting(e) => r \notin erase[e].taken
    BY <2>1 DEF Taken, Stored
  <2>3. erase[e].pc # "idle" => ~Older(e, r)'
    BY <2>1, <1>1 DEF Taken, Older, Erasure
  <2>4. \A q \in Rows : q # r => rows'[q] = rows[q]
    BY <1>1
  <2>5. \A q \in Rows : q # r => (Older(e, q)' <=> Older(e, q))
    BY <1>1 DEF Older, Stored
  <2>6. Deleting(e)' <=> Deleting(e)
    BY DEF Deleting
  <2>7. erase[e].since \in Nat /\ erase[e].taken \subseteq Rows
    BY <2>1 DEF Erasure
  <2>8. Deleting(e)' => \A q \in erase'[e].taken : Stored(q, erase[e].user)'
    BY <2>1, <2>2, <2>4, <2>6, <2>7 DEF Taken, Stored
  <2>9. /\ Deleting(e)' => \A q \in Grants : Older(e, q)' => q \in erase'[e].taken
        /\ erase'[e].pc = "commit"
           => \A q \in Jobs : Older(e, q)' => q \in erase'[e].taken
        /\ erase'[e].pc = "done" => \A q \in Rows : ~Older(e, q)'
    BY <2>1, <2>3, <2>5, <2>6 DEF Taken, Rows, Deleting
  <2>10. /\ erase'[e].pc # "idle" => erase'[e].since <= nextId'
         /\ erase'[e].pc \in {"idle", "consents"} => erase'[e].taken = {}
    BY <2>1, <2>7, <1>1 DEF Taken
  <2> QED
    BY <2>8, <2>9, <2>10 DEF Taken
<1>3. Exclusive'
  BY DEF EInv, Exclusive, Deleting
<1> QED
  BY <1>2, <1>3

(* Deleting rows that no open transaction holds spoils no erasure. *)
LEMMA DeleteKeeps ==
    ASSUME EInv, NEW gone \in SUBSET Rows, NEW e \in Erasures,
           NEW state \in {"withdrawn", "erased"},
           Deleting(e) => gone \cap erase[e].taken = {},
           rows' = [r \in Rows |-> IF r \in gone
                                   THEN [rows[r] EXCEPT !.state = state]
                                   ELSE rows[r]],
           erase'[e] = erase[e], nextId' = nextId
    PROVE  Taken(e)'
<1>1. \A r \in Rows : Older(e, r)' => Older(e, r)
  BY DEF EInv, TypeOK, Older, Stored, Row
<1>2. Deleting(e)' <=> Deleting(e)
  BY DEF Deleting
<1>3. Taken(e) /\ erase[e].taken \subseteq Rows
  BY DEF EInv, TypeOK, Erasure
<1>4. Deleting(e)' => \A r \in erase'[e].taken : Stored(r, erase[e].user)'
  BY <1>2, <1>3 DEF Taken, Stored
<1> QED
  BY <1>1, <1>2, <1>3, <1>4 DEF Taken, Rows

(* One lemma per kind of step: first the tasks of an assessment. *)
LEMMA JobStep ==
    ASSUME EInv, NEW j \in Jobs, Task(j) \/ PersistFails(j) \/ Lose(j)
    PROVE  JobRows' /\ AuditedWasStored'
           /\ (\A e \in Erasures : Taken(e)') /\ Exclusive'
<1>0. job[j].pc # "idle"
  BY DEF Task, Save, Audit, Meter, Score, PersistFails, Lose
<1>1. /\ TypeOK /\ JobRows /\ AuditedWasStored
  BY DEF EInv
<1>2. erase' = erase
  BY DEF Task, Save, Audit, Meter, Score, PersistFails, Lose
<1>3. CASE Save(j)
  <2>1. rows[j].state = "none" /\ j \in Rows
    BY <1>1, <1>3 DEF JobRows, Save, Rows
  <2>2. (\A e \in Erasures : Taken(e)') /\ Exclusive'
    BY <1>2, <1>3, <2>1, InsertKeeps DEF Save
  <2>3. /\ job'[j].pc = "audit"
        /\ \A i \in Jobs : i # j => job'[i] = job[i]
    BY <1>0, <1>1, <1>3, MovedJob DEF Save
  <2>4. /\ rows'[j].state = "stored"
        /\ \A i \in Jobs : i # j => rows'[i] = rows[i]
    BY <1>1, <1>3, <2>1 DEF Save, Insert, TypeOK, Rows
  <2>5. j \notin audits /\ audits' = audits
    <3>1. rows[j].state \notin {"stored", "erased"}
      BY <2>1
    <3> QED
      BY <1>1, <1>3, <3>1 DEF AuditedWasStored, Save
  <2>6. audits \subseteq Jobs
    BY <1>1 DEF TypeOK
  <2>7. AuditedWasStored'
    <3> SUFFICES ASSUME NEW i \in audits PROVE rows'[i].state \in {"stored", "erased"}
      BY <2>5 DEF AuditedWasStored
    <3>1. i \in Jobs /\ i # j /\ rows[i].state \in {"stored", "erased"}
      BY <1>1, <2>5, <2>6 DEF AuditedWasStored
    <3> QED
      BY <2>4, <3>1
  <2>8. JobRows'
    <3> SUFFICES ASSUME NEW i \in Jobs
                 PROVE  /\ job'[i].pc \in {"idle", "save"} => rows'[i].state = "none"
                        /\ job'[i].pc = "audit" => rows'[i].state \in {"stored", "erased"}
      BY DEF JobRows
    <3>1. CASE i = j
      BY <2>3, <2>4, <3>1
    <3>2. CASE i # j
      BY <1>1, <2>3, <2>4, <3>2 DEF JobRows
    <3> QED
      BY <3>1, <3>2
  <2> QED
    BY <2>2, <2>7, <2>8
<1>4. CASE ~Save(j)
  <2>1. UNCHANGED <<rows, nextId, erase>>
    BY <1>4 DEF Task, Audit, Meter, Score, PersistFails, Lose
  <2>2. (\A e \in Erasures : Taken(e)') /\ Exclusive'
    BY <2>1 DEF EInv, Taken, Exclusive, Deleting, Older, Stored
  <2>3. \E next \in {"meter", "score", "done", "lost"} :
           job' = [job EXCEPT ![j].pc = next]
    BY <1>4 DEF Task, Audit, Meter, Score, PersistFails, Lose
  <2>4. /\ job'[j].pc \notin {"idle", "save", "audit"}
        /\ \A i \in Jobs : i # j => job'[i] = job[i]
    BY <1>0, <1>1, <2>3, MovedJob
  <2>5. JobRows'
    BY <1>1, <2>1, <2>4 DEF JobRows
  <2>6. audits' = audits \/ (Audit(j) /\ audits' = audits \cup {j})
    BY <1>4 DEF Task, Audit, Meter, Score, PersistFails, Lose
  <2>7. AuditedWasStored'
    BY <1>1, <2>1, <2>6 DEF AuditedWasStored, JobRows, Audit, TypeOK
  <2> QED
    BY <2>2, <2>5, <2>7
<1> QED
  BY <1>3, <1>4

(* The statements of one erasure.  A statement changes only its own record of
   what it has deleted; nobody else has these rows. *)
LEMMA EraseStep ==
    ASSUME EInv, NEW e \in Erasures,
           \/ \E user \in Users : EraseBegin(e, user)
           \/ EraseConsents(e) \/ EraseRecords(e) \/ EraseCommit(e)
           \/ EraseFails(e)
    PROVE  JobRows' /\ AuditedWasStored'
           /\ (\A f \in Erasures : Taken(f)') /\ Exclusive'
<1>1. /\ TypeOK /\ JobRows /\ AuditedWasStored /\ Taken(e) /\ Exclusive
      /\ erase[e] \in Erasure /\ erase \in [Erasures -> Erasure]
  BY DEF EInv, TypeOK
<1>2. \A f \in Erasures : f # e => erase'[f] = erase[f]
  BY <1>1 DEF EraseBegin, EraseConsents, EraseRecords, EraseFrom, EraseCommit,
              EraseFails
<1>3. UNCHANGED <<nextId, audits, job>>
  BY DEF EraseBegin, EraseConsents, EraseRecords, EraseFrom, EraseCommit,
         EraseFails
<1>4. ASSUME UNCHANGED rows, NEW f \in Erasures, f # e
      PROVE  Taken(f)'
  <2>1. Taken(f) /\ erase'[f] = erase[f]
    BY <1>2, <1>4 DEF EInv
  <2> QED
    BY <2>1, <1>3, <1>4 DEF Taken, Deleting, Older, Stored
<1>5. UNCHANGED rows => JobRows' /\ AuditedWasStored'
  BY <1>1, <1>3 DEF JobRows, AuditedWasStored
<1>6. ASSUME NEW user \in Users, EraseBegin(e, user)
      PROVE  Taken(e)' /\ Exclusive'
  <2>1. /\ erase'[e].pc = "consents"
        /\ erase'[e].since = nextId
        /\ erase'[e].taken = {}
        /\ UNCHANGED nextId
    BY <1>1, <1>6 DEF EraseBegin
  <2>2. nextId \in Nat
    BY <1>1 DEF TypeOK
  <2>3. Taken(e)'
    BY <2>1, <2>2 DEF Taken, Deleting
  <2>4. Exclusive'
    BY <1>1, <1>2, <2>1 DEF Exclusive, Deleting
  <2> QED
    BY <2>3, <2>4
<1>7. ASSUME EraseConsents(e) \/ EraseRecords(e)
      PROVE  Taken(e)' /\ Exclusive'
  <2> DEFINE table == IF EraseConsents(e) THEN Grants ELSE Jobs
             mine == { r \in table : Stored(r, erase[e].user) }
  <2>1. PICK next \in {"records", "commit"} :
           erase' = [erase EXCEPT ![e].pc = next,
                                  ![e].taken = erase[e].taken \cup mine]
    BY <1>7 DEF EraseConsents, EraseRecords, EraseFrom
  <2>2. /\ erase'[e].pc = next
        /\ erase'[e].user = erase[e].user
        /\ erase'[e].since = erase[e].since
        /\ erase'[e].taken = erase[e].taken \cup mine
    BY <1>1, <2>1 DEF Erasure
  <2>3. \A r \in mine : Stored(r, erase[e].user)
    OBVIOUS
  <2>4. \A r \in mine : ~Locked(r, e)
    BY <1>7 DEF EraseConsents, EraseRecords, EraseFrom
  <2>5. EraseConsents(e) => \A r \in Grants : Older(e, r) => r \in mine
    BY DEF Older
  <2>6. EraseRecords(e) => \A r \in Jobs : Older(e, r) => r \in mine
    BY DEF Older, EraseRecords, EraseConsents
  <2> HIDE DEF mine
  <2>7. UNCHANGED <<rows, nextId>>
    BY <1>7 DEF EraseConsents, EraseRecords, EraseFrom
  <2>8. \A r \in Rows : Older(e, r)' <=> Older(e, r)
    BY <2>2, <2>7 DEF Older, Stored
  <2>9. erase[e].pc # "idle" /\ (EraseRecords(e) => Deleting(e))
    BY <1>7 DEF EraseConsents, EraseRecords, Deleting
  <2>10. /\ EraseConsents(e) => next = "records"
         /\ EraseRecords(e) => next = "commit"
    BY <1>7, <1>1, <2>2 DEF EraseConsents, EraseRecords, EraseFrom, Erasure
  <2>11. \A r \in erase[e].taken : Stored(r, erase[e].user) /\ r \in Rows
    BY <1>1, <1>7, <2>9 DEF Taken, EraseConsents, Erasure
  <2>12. Taken(e)'
    <3>1. \A r \in erase'[e].taken : Stored(r, erase[e].user)
      BY <2>2, <2>3, <2>11
    <3>2. Deleting(e)' => \A r \in erase'[e].taken : Stored(r, erase[e].user)'
      BY <2>2, <2>7, <3>1 DEF Stored
    <3>3. \A r \in Grants : Older(e, r) => r \in erase'[e].taken
      BY <1>1, <1>7, <2>2, <2>5, <2>9 DEF Taken
    <3>4. next = "commit" => \A r \in Jobs : Older(e, r) => r \in erase'[e].taken
      BY <1>7, <2>2, <2>6, <2>10
    <3> QED
      BY <1>1, <2>2, <2>7, <2>8, <2>9, <3>2, <3>3, <3>4 DEF Taken, Rows
  <2>13. Exclusive'
    <3>1. ASSUME NEW f \in Erasures, f # e, Deleting(f)
          PROVE  erase'[e].taken \cap erase[f].taken = {}
      <4>1. mine \cap erase[f].taken = {}
        BY <2>4, <3>1 DEF Locked
      <4>2. erase[e].taken \cap erase[f].taken = {}
        BY <1>1, <1>7, <2>9, <3>1 DEF Exclusive, Taken, EraseConsents
      <4> QED
        BY <2>2, <4>1, <4>2
    <3> QED
      BY <1>1, <1>2, <3>1 DEF Exclusive, Deleting
  <2> QED
    BY <2>12, <2>13
<1>8. CASE EraseCommit(e)
  <2> DEFINE gone == erase[e].taken
  <2>1. /\ erase'[e].pc = "done" /\ Deleting(e) /\ ~Deleting(e)'
        /\ erase'[e].user = erase[e].user
        /\ erase'[e].since = erase[e].since
    BY <1>1, <1>8 DEF EraseCommit, Erasure, Deleting
  <2>2. /\ gone \in SUBSET Rows
        /\ rows' = [r \in Rows |-> IF r \in gone
                                   THEN [rows[r] EXCEPT !.state = "erased"]
                                   ELSE rows[r]]
    BY <1>1, <1>8 DEF EraseCommit, Erasure
  <2>3. ASSUME NEW f \in Erasures, f # e
        PROVE  Taken(f)'
    <3>1. Deleting(f) => gone \cap erase[f].taken = {}
      BY <1>1, <2>1, <2>3 DEF Exclusive
    <3>2. erase'[f] = erase[f]
      BY <1>2, <2>3
    <3> HIDE DEF gone
    <3> QED
      BY <1>3, <2>2, <3>1, <3>2, DeleteKeeps
  <2>4. \A r \in Rows : /\ r \in gone => rows'[r].state = "erased"
                        /\ r \notin gone => rows'[r] = rows[r]
    BY <1>1, <2>2 DEF TypeOK, Row
  <2>5. \A r \in Rows : Older(e, r) => r \in gone
    BY <1>1, <1>8, <2>1 DEF Taken, EraseCommit, Rows
  <2>6. \A r \in Rows : ~Older(e, r)'
    BY <2>1, <2>4, <2>5 DEF Older, Stored
  <2>7. Taken(e)'
    BY <1>1, <1>3, <1>8, <2>1, <2>6 DEF Taken, Deleting, EraseCommit
  <2>8. Exclusive'
    BY <1>1, <1>2, <2>1 DEF Exclusive, Deleting
  <2>9. \A r \in gone : rows[r].state = "stored"
    BY <1>1, <2>1 DEF Taken, Stored
  <2> HIDE DEF gone
  <2>10. JobRows' /\ AuditedWasStored'
    BY <1>1, <1>3, <2>4, <2>9 DEF JobRows, AuditedWasStored, Rows, TypeOK
  <2> QED
    BY <2>3, <2>7, <2>8, <2>10
<1>9. ASSUME EraseFails(e)
      PROVE  Taken(e)' /\ Exclusive'
  <2>1. /\ erase'[e].pc = "failed"
        /\ erase'[e].since = erase[e].since
        /\ erase[e].pc # "idle"
    BY <1>1, <1>9 DEF EraseFails, Erasure, Deleting
  <2>2. Taken(e)'
    BY <1>1, <1>3, <2>1 DEF Taken, Deleting
  <2>3. Exclusive'
    BY <1>1, <1>2, <2>1 DEF Exclusive, Deleting
  <2> QED
    BY <2>2, <2>3
<1>10. ~EraseCommit(e) => UNCHANGED rows
  BY DEF EraseBegin, EraseConsents, EraseRecords, EraseFrom, EraseFails
<1> QED
  BY <1>4, <1>5, <1>6, <1>7, <1>8, <1>9, <1>10

LEMMA EStep == EInv /\ [Next]_vars => EInv'
<1> SUFFICES ASSUME EInv, [Next]_vars PROVE EInv'
  OBVIOUS
<1> DEFINE Rest == JobRows /\ AuditedWasStored
                   /\ (\A e \in Erasures : Taken(e)) /\ Exclusive
<1>1. TypeOK /\ TypeOK' /\ Rest
  BY TypeStep DEF EInv
<1>2. ASSUME UNCHANGED <<rows, nextId, audits, erase>>,
             UNCHANGED job \/ \E j \in Jobs, user \in Users, score \in Scores :
                                 Assess(j, user, score)
      PROVE  Rest'
  <2>1. JobRows'
    BY <1>1, <1>2 DEF JobRows, Assess, TypeOK
  <2>2. AuditedWasStored' /\ Exclusive'
    BY <1>1, <1>2 DEF AuditedWasStored, Exclusive, Deleting
  <2>3. \A e \in Erasures : Taken(e)'
    BY <1>1, <1>2 DEF Taken, Deleting, Older, Stored
  <2> QED
    BY <2>1, <2>2, <2>3
<1>3. ASSUME NEW j \in Jobs, Task(j) \/ PersistFails(j) \/ Lose(j)
      PROVE  Rest'
  BY <1>3, JobStep
<1>4. ASSUME NEW user \in Users, NEW version \in Versions, NEW g \in Grants,
             Consent(g, user, version)
      PROVE  Rest'
  <2>1. /\ g \in Rows /\ rows[g].state = "none" /\ erase' = erase
        /\ Insert(g, user, version)
    BY <1>4 DEF Consent, Rows
  <2>2. (\A e \in Erasures : Taken(e)') /\ Exclusive'
    BY <2>1, InsertKeeps
  <2>3. \A j \in Jobs : rows'[j] = rows[j]
    BY <1>1, <2>1, RowsAssumption DEF Insert, TypeOK, Rows
  <2>4. JobRows' /\ AuditedWasStored'
    BY <1>1, <1>4, <2>3 DEF JobRows, AuditedWasStored, Consent, TypeOK
  <2> QED
    BY <2>2, <2>4
<1>5. ASSUME NEW user \in Users, NEW version \in Versions,
             Withdraw(user, version)
      PROVE  Rest'
  <2> DEFINE gone == { g \in Grants : Stored(g, user)
                                      /\ rows[g].version = version }
  <2>1. /\ \A g \in gone : ~Locked(g, None)
        /\ rows' = [r \in Rows |-> IF r \in gone
                                   THEN [rows[r] EXCEPT !.state = "withdrawn"]
                                   ELSE rows[r]]
        /\ gone \in SUBSET Rows
        /\ UNCHANGED <<nextId, audits, job, erase>>
    BY <1>5 DEF Withdraw, Rows
  <2>2. \A j \in Jobs : rows'[j] = rows[j]
    BY <2>1, RowsAssumption DEF Rows
  <2>3. JobRows' /\ AuditedWasStored'
    BY <1>1, <2>1, <2>2 DEF JobRows, AuditedWasStored, TypeOK
  <2> HIDE DEF gone
  <2>4. ASSUME NEW e \in Erasures
        PROVE  Taken(e)'
    <3>1. Deleting(e) => gone \cap erase[e].taken = {}
      BY <2>1, ErasuresAssumption DEF Locked
    <3> QED
      BY <2>1, <3>1, DeleteKeeps
  <2>5. Exclusive'
    BY <1>1, <2>1 DEF Exclusive, Deleting
  <2> QED
    BY <2>3, <2>4, <2>5
<1>6. ASSUME NEW e \in Erasures,
             \/ \E user \in Users : EraseBegin(e, user)
             \/ EraseConsents(e) \/ EraseRecords(e) \/ EraseCommit(e)
             \/ EraseFails(e)
      PROVE  Rest'
  BY <1>6, EraseStep
<1>7. ASSUME \/ \E x \in Exports :
                  \/ \E user \in Users : ExportBegin(x, user)
                  \/ ExportConsents(x) \/ ExportRecords(x)
             \/ \E q \in Readers :
                  \/ \E user \in Users : ReadLatest(q, user)
                  \/ \E cutoff \in 0 .. begun : ReadTrend(q, cutoff)
             \/ \E p \in Posts, user \in Users, score \in Scores :
                   PostScore(p, user, score)
             \/ \E w \in Writes :
                   InsertScore(w) \/ CommitScore(w) \/ WriteFails(w)
             \/ UNCHANGED vars
      PROVE  Rest'
  <2>1. UNCHANGED <<rows, nextId, audits, erase, job>>
    BY <1>7, ZenonT(60) DEF ExportBegin, ExportConsents, ExportRecords, ReadLatest,
                ReadTrend, PostScore, InsertScore, CommitScore, WriteFails, vars
  <2> QED
    BY <1>2, <2>1, SMTT(30)
<1>8. ASSUME NEW j \in Jobs, NEW user \in Users, NEW score \in Scores,
             Assess(j, user, score)
      PROVE  Rest'
  <2>1. UNCHANGED <<rows, nextId, audits, erase>>
    BY <1>8 DEF Assess
  <2> QED
    BY <1>2, <1>8, <2>1
<1> HIDE DEF Rest
<1>9. Rest'
  BY <1>3, <1>4, <1>5, <1>6, <1>7, <1>8 DEF Next
<1> QED
  BY <1>1, <1>9 DEF Rest, EInv

LEMMA EAlways == Spec => []EInv
BY EInit, EStep, PTL DEF Spec

(* An assessment_run entry is about an assessment that was stored. *)
THEOREM AuditCorrect == Spec => []AuditedWasStored
<1>1. EInv => AuditedWasStored
  BY DEF EInv
<1> QED
  BY <1>1, EAlways, PTL

(* A completed erasure leaves nothing that was stored before it was asked
   for, whatever runs at the same time. *)
THEOREM ErasureCorrect == Spec => []ErasedMeansGone
<1>1. EInv => ErasedMeansGone
  BY DEF EInv, TypeOK, ErasedMeansGone, Taken, Older, Row, Erasure
<1> QED
  BY <1>1, EAlways, PTL

(* Rows disappear only in the commit of an erasure, and with all the others
   it is about. *)
THEOREM AtomicCorrect == Spec => ErasureIsAtomic
<1> DEFINE Atomic ==
      \A r \in Rows :
          /\ rows[r].state = "stored"
          /\ rows'[r].state = "erased"
          => \E e \in Erasures :
                /\ erase[e].pc = "commit"
                /\ erase'[e].pc = "done"
                /\ \A q \in Rows :
                      Stored(q, rows[r].user) /\ rows[q].id < erase[e].since
                      => rows'[q].state = "erased"
<1>1. ASSUME EInv, Next, NEW r \in Rows,
             rows[r].state = "stored", rows'[r].state = "erased"
      PROVE  \E e \in Erasures : EraseCommit(e) /\ r \in erase[e].taken
  <2>0. rows \in [Rows -> Row]
    BY <1>1 DEF EInv, TypeOK
  <2>1. rows' # rows
    BY <1>1
  <2>2. ASSUME NEW q \in Rows, NEW user, NEW version, Insert(q, user, version)
        PROVE  FALSE
    BY <1>1, <2>0, <2>2 DEF Insert
  <2>3. ASSUME NEW user \in Users, NEW version \in Versions,
               Withdraw(user, version)
        PROVE  FALSE
    BY <1>1, <2>0, <2>3 DEF Withdraw, Row
  <2>4. ASSUME NEW e \in Erasures, EraseCommit(e), r \notin erase[e].taken
        PROVE  FALSE
    <3>1. rows' = [q \in Rows |-> IF q \in erase[e].taken
                                  THEN [rows[q] EXCEPT !.state = "erased"]
                                  ELSE rows[q]]
      BY <2>4, Zenon DEF EraseCommit
    <3>2. rows'[r] = rows[r]
      BY <1>1, <2>4, <3>1
    <3> QED
      BY <1>1, <3>2
  <2>5. \/ \E q \in Rows : \E user, version : Insert(q, user, version)
        \/ \E user \in Users, version \in Versions : Withdraw(user, version)
        \/ \E e \in Erasures : EraseCommit(e)
    BY <1>1, <2>1, ZenonT(60) DEF Next, Assess, Task, Save, Audit, Meter, Score,
       PersistFails, Lose, PostScore, InsertScore, CommitScore, WriteFails, Consent, EraseBegin, EraseConsents,
       EraseRecords, EraseFrom, EraseFails, ExportBegin, ExportConsents,
       ExportRecords, ReadLatest, ReadTrend, Rows
  <2> QED
    BY <2>2, <2>3, <2>4, <2>5
<1>2. EInv /\ [Next]_vars => [Atomic]_vars
  <2> SUFFICES ASSUME EInv, Next, NEW r \in Rows,
                      rows[r].state = "stored", rows'[r].state = "erased"
               PROVE  \E e \in Erasures :
                         /\ erase[e].pc = "commit"
                         /\ erase'[e].pc = "done"
                         /\ \A q \in Rows :
                               Stored(q, rows[r].user)
                               /\ rows[q].id < erase[e].since
                               => rows'[q].state = "erased"
    OBVIOUS
  <2>1. PICK e \in Erasures : EraseCommit(e) /\ r \in erase[e].taken
    BY <1>1
  <2>2. /\ Taken(e) /\ erase[e] \in Erasure /\ erase \in [Erasures -> Erasure]
        /\ rows \in [Rows -> Row]
    BY DEF EInv, TypeOK
  <2>3. erase[e].pc = "commit" /\ erase'[e].pc = "done"
    BY <2>1, <2>2 DEF EraseCommit, Erasure
  <2>4. rows[r].user = erase[e].user
    BY <2>1, <2>2, <2>3 DEF Taken, Deleting, Stored
  <2>5. \A q \in Rows : Older(e, q) => q \in erase[e].taken
    BY <2>2, <2>3 DEF Taken, Deleting, Rows
  <2>6. \A q \in erase[e].taken : rows'[q].state = "erased"
    BY <2>1, <2>2 DEF EraseCommit, Erasure, Row
  <2> QED
    BY <2>3, <2>4, <2>5, <2>6 DEF Older
<1> QED
  BY <1>2, EAlways, PTL DEF Spec, ErasureIsAtomic

-----------------------------------------------------------------------------
(* The history reads.                                                      *)

(* A row of the table was inserted by a transaction that has got so far. *)
Inserted(i) == write[history[i].by].pc \in {"commit", "stored", "failed"}

Pending(i) == write[history[i].by].pc = "commit"

(* What a reader has read is in the table, and only entries that were pending
   then, or that come later, may still appear. *)
Current(q) ==
    LET u == reader[q].user
        S == Recent(u, reader[q].since)
        b == reader[q].trend
    IN  /\ reader[q].pc \in {"trend", "done"} /\ reader[q].latest # 0
           => reader[q].latest \in Mine(u)
        /\ reader[q].pc = "done" /\ b = 0 => reader[q].delta = 0
        /\ reader[q].pc = "done" /\ b # 0
           => /\ b \in S
              /\ reader[q].latest \in S => b >= reader[q].latest
              /\ \E k \in S :
                    /\ k < b
                    /\ \A i \in S : i <= k \/ i >= b \/ i \in reader[q].open
                    /\ reader[q].delta = history[b].score - history[k].score
              /\ \A i \in 1 .. Len(history) :
                    Pending(i) => i >= b \/ i \in reader[q].open

HInv == /\ TypeOK
        /\ \A i \in 1 .. Len(history) : Inserted(i)

(* What a step may do to the table: an entry is added at its end and is
   pending, and nothing but a commit makes a pending entry visible. *)
HistoryMoves ==
    /\ Len(history) \in Nat /\ Len(history') \in Nat
    /\ Len(history) <= Len(history')
    /\ \A i \in 1 .. Len(history) :
          /\ history'[i] = history[i]
          /\ Visible(i) => Visible(i)'
          /\ Visible(i)' => Visible(i) \/ Pending(i)
          /\ Pending(i)' => Pending(i)
          /\ Inserted(i)'
    /\ \A i \in 1 .. Len(history') : i > Len(history) => Pending(i)'

LEMMA HistoryStep ==
    ASSUME HInv, TypeOK', [Next]_vars
    PROVE  HistoryMoves
<1>1. /\ history \in Seq(Entry) /\ history' \in Seq(Entry)
      /\ write \in [Writes -> Write]
  BY Zenon DEF HInv, TypeOK
<1>2. /\ Len(history) \in Nat /\ Len(history') \in Nat
      /\ \A i \in 1 .. Len(history) : history[i] \in Entry
  BY <1>1
<1>3. \A i \in 1 .. Len(history) : history[i].by \in Writes /\ Inserted(i)
  BY <1>2 DEF Entry, HInv
<1>4. \/ UNCHANGED <<history, write>>
      \/ \E w \in Writes : \E user, score : BeginWrite(w, user, score) /\ UNCHANGED history
      \/ \E w \in Writes : InsertScore(w) \/ CommitScore(w) \/ WriteFails(w)
  BY ZenonT(60) DEF Next, Assess, Task, Save, Audit, Meter, Score, PostScore, PersistFails,
         Lose, Consent, Withdraw, EraseBegin, EraseConsents, EraseRecords,
         EraseFrom, EraseCommit, EraseFails, ExportBegin, ExportConsents,
         ExportRecords, ReadLatest, ReadTrend, vars, Writes
<1>5. CASE UNCHANGED <<history, write>>
  BY <1>2, <1>3, <1>5 DEF HistoryMoves, Visible, Pending, Inserted
<1>6. ASSUME NEW w \in Writes, NEW user, NEW score,
             BeginWrite(w, user, score), UNCHANGED history
      PROVE  HistoryMoves
  <2>1. write[w].pc = "idle" /\ \A v \in Writes : v # w => write'[v] = write[v]
    BY <1>1, <1>6 DEF BeginWrite
  <2>2. \A i \in 1 .. Len(history) : history[i].by # w
    BY <1>3, <2>1 DEF Inserted
  <2>3. \A i \in 1 .. Len(history) :
           write'[history'[i].by] = write[history[i].by]
    BY <1>3, <1>6, <2>1, <2>2
  <2> QED
    BY <1>2, <1>3, <1>6, <2>3 DEF HistoryMoves, Visible, Pending, Inserted
<1>7. ASSUME NEW w \in Writes, InsertScore(w)
      PROVE  HistoryMoves
  <2>1. PICK entry : /\ history' = Append(history, entry) /\ entry.by = w
                     /\ write[w].pc = "insert"
                     /\ write' = [write EXCEPT ![w].pc = "commit"]
    BY <1>7 DEF InsertScore
  <2>2. /\ Len(history') = Len(history) + 1
        /\ history'[Len(history) + 1] = entry
        /\ \A i \in 1 .. Len(history) : history'[i] = history[i]
    BY <1>1, <2>1
  <2>3. /\ write'[w].pc = "commit"
        /\ \A v \in Writes : v # w => write'[v] = write[v]
    BY <1>1, <2>1 DEF Write
  <2>4. \A i \in 1 .. Len(history) : history[i].by # w
    BY <1>3, <2>1 DEF Inserted
  <2>5. \A i \in 1 .. Len(history) :
           write'[history'[i].by] = write[history[i].by]
    BY <1>3, <2>2, <2>3, <2>4
  <2>6. \A i \in 1 .. Len(history') : i > Len(history) => history'[i].by = w
    BY <1>2, <2>1, <2>2
  <2> QED
    BY <1>2, <1>3, <2>2, <2>3, <2>5, <2>6
       DEF HistoryMoves, Visible, Pending, Inserted
<1>8. ASSUME NEW w \in Writes, CommitScore(w) \/ WriteFails(w)
      PROVE  HistoryMoves
  <2>1. /\ UNCHANGED history
        /\ \A v \in Writes : v # w => write'[v] = write[v]
        /\ \/ write[w].pc = "commit" /\ write'[w].pc \in {"stored", "failed"}
           \/ write[w].pc = "insert" /\ write'[w].pc = "failed"
    BY <1>1, <1>8 DEF CommitScore, WriteFails, Write
  <2> QED
    BY <1>2, <1>3, <2>1 DEF HistoryMoves, Visible, Pending, Inserted
<1> QED
  BY <1>4, <1>5, <1>6, <1>7, <1>8

LEMMA HStep ==
    ASSUME HInv, [Next]_vars
    PROVE  HInv' /\ HistoryMoves
<1>1. TypeOK' /\ HistoryMoves
  BY TypeStep, HistoryStep DEF HInv
<1>2. \A i \in 1 .. Len(history') : Inserted(i)'
  <2> TAKE i \in 1 .. Len(history')
  <2>1. CASE i \in 1 .. Len(history)
    BY <1>1, <2>1 DEF HistoryMoves
  <2>2. CASE i \notin 1 .. Len(history)
    <3>1. i > Len(history)
      BY <1>1, <2>2 DEF HistoryMoves
    <3>2. Pending(i)'
      BY <1>1, <3>1 DEF HistoryMoves
    <3> QED
      BY <3>2 DEF Pending, Inserted
  <2> QED
    BY <2>1, <2>2
<1> QED
  BY <1>1, <1>2 DEF HInv

(* What has been read stays true of the table. *)
LEMMA ReadKeeps ==
    ASSUME HInv, HistoryMoves, NEW q \in Readers, Current(q),
           reader'[q] = reader[q]
    PROVE  Current(q)'
<1> DEFINE u == reader[q].user
           c == reader[q].since
           b == reader[q].trend
           S == Recent(u, c)
<1>0. reader[q] \in Reader
  BY DEF HInv, TypeOK
<1>1. /\ Len(history) \in Nat /\ Len(history') \in Nat
      /\ Len(history) <= Len(history')
  BY DEF HistoryMoves
<1>2. ASSUME NEW i, i \in Mine(u)
      PROVE  i \in Mine(u)' /\ i \in 1 .. Len(history) /\ history'[i] = history[i]
  BY <1>1, <1>2 DEF Mine, HistoryMoves
<1>3. ASSUME NEW i, i \in Mine(u)'
      PROVE  /\ i \in 1 .. Len(history) /\ history'[i] = history[i]
             /\ i \in Mine(u) \/ Pending(i)
  <2>1. i \in 1 .. Len(history') /\ Visible(i)' /\ history'[i].user = u
    BY <1>3 DEF Mine
  <2>2. i \in 1 .. Len(history)
    <3>1. i > Len(history) => Pending(i)'
      BY <2>1 DEF HistoryMoves
    <3>2. ~Pending(i)'
      BY <2>1 DEF Visible, Pending
    <3> QED
      BY <1>1, <2>1, <3>1, <3>2
  <2>3. history'[i] = history[i] /\ (Visible(i) \/ Pending(i))
    BY <2>1, <2>2 DEF HistoryMoves
  <2> QED
    BY <2>1, <2>2, <2>3 DEF Mine
<1>4. \A i \in S : i \in S' /\ i \in 1 .. Len(history) /\ history'[i] = history[i]
  BY <1>2 DEF Recent
<1>5. \A i \in S' : /\ i \in 1 .. Len(history)
                    /\ i \in S \/ Pending(i)
                    /\ i \in Mine(u) => i \in S
  BY <1>3 DEF Recent
<1>6. UNCHANGED <<u, c, b>>
  OBVIOUS
<1>7. reader[q].pc \in {"trend", "done"} /\ reader[q].latest # 0
      => reader[q].latest \in Mine(u) /\ reader[q].latest \in Mine(u)'
  BY <1>2 DEF Current
<1>8. ASSUME reader[q].pc = "done", b # 0
      PROVE  /\ b \in S'
             /\ reader[q].latest \in S' => b >= reader[q].latest
             /\ \E k \in S' :
                   /\ k < b
                   /\ \A i \in S' : i <= k \/ i >= b \/ i \in reader[q].open
                   /\ reader[q].delta = history'[b].score - history'[k].score
             /\ \A i \in 1 .. Len(history') :
                   Pending(i)' => i >= b \/ i \in reader[q].open
  <2>1. /\ b \in S
        /\ reader[q].latest \in S => b >= reader[q].latest
        /\ \A i \in 1 .. Len(history) : Pending(i) => i >= b \/ i \in reader[q].open
    BY <1>8 DEF Current
  <2>2. PICK k \in S : /\ k < b
                       /\ \A i \in S : i <= k \/ i >= b \/ i \in reader[q].open
                       /\ reader[q].delta = history[b].score - history[k].score
    BY <1>8 DEF Current
  <2> HIDE DEF S, u, c
  <2>3. b \in S' /\ k \in S' /\ b \in 1 .. Len(history)
        /\ history'[b] = history[b] /\ history'[k] = history[k]
    BY <1>4, <2>1, <2>2
  <2>4. reader[q].latest \in S' => b >= reader[q].latest
    <3>1. reader[q].latest \in S' => reader[q].latest # 0
      BY <1>1, <1>5
    <3> QED
      BY <1>5, <1>7, <1>8, <2>1, <3>1
  <2>5. \A i \in S' : i <= k \/ i >= b \/ i \in reader[q].open
    BY <1>5, <2>1, <2>2
  <2>6. ASSUME NEW i \in 1 .. Len(history'), Pending(i)'
        PROVE  i >= b \/ i \in reader[q].open
    <3>1. CASE i \in 1 .. Len(history)
      <4>1. Pending(i)
        BY <2>6, <3>1 DEF HistoryMoves
      <4> QED
        BY <2>1, <3>1, <4>1
    <3>2. CASE i \notin 1 .. Len(history)
      BY <1>1, <2>3, <3>2
    <3> QED
      BY <3>1, <3>2
  <2> QED
    BY <2>2, <2>3, <2>4, <2>5, <2>6
<1>9. reader[q].pc = "done" /\ b = 0 => reader[q].delta = 0
  BY DEF Current
<1>10. S' = Recent(reader[q].user, reader[q].since)'
  OBVIOUS
<1> HIDE DEF S
<1> QED
  BY <1>7, <1>8, <1>9, <1>10 DEF Current

RInv == HInv /\ \A q \in Readers : Current(q)

LEMMA RInit == Init => RInv
<1> SUFFICES ASSUME Init PROVE RInv
  OBVIOUS
<1>1. Len(history) = 0
  BY DEF Init
<1>2. HInv
  BY <1>1, TypeInit DEF HInv
<1>3. \A q \in Readers : Current(q)
  BY DEF Init, Current
<1> QED
  BY <1>2, <1>3 DEF RInv

LEMMA RStep == RInv /\ [Next]_vars => RInv'
<1> SUFFICES ASSUME RInv, [Next]_vars PROVE RInv'
  OBVIOUS
<1>1. /\ HInv /\ HInv' /\ HistoryMoves
      /\ TypeOK /\ TypeOK' /\ reader \in [Readers -> Reader]
  BY HStep DEF RInv, HInv, TypeOK
<1>2. SUFFICES ASSUME NEW q \in Readers, reader'[q] # reader[q]
               PROVE  Current(q)'
  BY <1>1, ReadKeeps, Zenon DEF RInv
<1>3. \/ \E user \in Users : ReadLatest(q, user)
      \/ \E cutoff \in 0 .. begun : ReadTrend(q, cutoff)
  <2>1. reader' # reader
    BY <1>2
  <2>2. \E p \in Readers :
          \/ \E user \in Users : ReadLatest(p, user)
          \/ \E cutoff \in 0 .. begun : ReadTrend(p, cutoff)
    BY <2>1, Zenon DEF Next, Assess, Task, Save, Audit, Meter, Score,
       PersistFails, Lose, PostScore, InsertScore, CommitScore, WriteFails,
       Consent, Withdraw, EraseBegin, EraseConsents, EraseRecords, EraseFrom,
       EraseCommit, EraseFails, ExportBegin, ExportConsents, ExportRecords, vars
  <2>3. ASSUME NEW p \in Readers, p # q,
               \/ \E user \in Users : ReadLatest(p, user)
               \/ \E cutoff \in 0 .. begun : ReadTrend(p, cutoff)
        PROVE  FALSE
    BY <1>1, <1>2, <2>3 DEF ReadLatest, ReadTrend
  <2> QED
    BY <2>2, <2>3, Zenon
<1>4. /\ Len(history) \in Nat /\ UNCHANGED <<history, write>>
      /\ \A i \in 1 .. Len(history) : history[i].at \in Nat
  <2>1. Len(history) \in Nat /\ \A i \in 1 .. Len(history) : history[i] \in Entry
    BY <1>1 DEF TypeOK
  <2>2. UNCHANGED <<history, write>>
    BY <1>3 DEF ReadLatest, ReadTrend
  <2> QED
    BY <2>1, <2>2 DEF Entry
<1>5. ASSUME NEW user \in Users, ReadLatest(q, user)
      PROVE  Current(q)'
  <2>1. /\ reader'[q].pc = "trend"
        /\ reader'[q].user = user
        /\ reader'[q].latest = IF Mine(user) = {} THEN 0 ELSE Last(Mine(user))
    BY <1>1, <1>5 DEF ReadLatest
  <2>2. Mine(user) # {} => Last(Mine(user)) \in Mine(user)
    <3>1. Mine(user) \subseteq 1 .. Len(history)
      BY DEF Mine
    <3> QED
      BY <1>4, <3>1, LastIn
  <2>3. reader'[q].latest # 0 => reader'[q].latest \in Mine(user)'
    <3>1. Mine(user)' = Mine(user)
      BY <1>4 DEF Mine, Visible
    <3> QED
      BY <2>1, <2>2, <3>1
  <2> QED
    BY <2>1, <2>3 DEF Current
<1>6. ASSUME NEW cutoff \in 0 .. begun, ReadTrend(q, cutoff)
      PROVE  Current(q)'
  <2>0. PICK user : user = reader[q].user
    OBVIOUS
  <2> DEFINE S == Recent(user, cutoff)
             b == Last(S)
             a == Last(Before(S, b))
             big == ~(Cardinality(S) < 2)
             open == { i \in 1 .. Len(history) :
                          write[history[i].by].pc = "commit" }
  <2>1. /\ reader[q].pc = "trend"
        /\ reader'[q].pc = "done"
        /\ reader'[q].user = user
        /\ reader'[q].since = cutoff
        /\ reader'[q].open = open
        /\ reader'[q].latest = reader[q].latest
        /\ reader'[q].trend = IF big THEN b ELSE 0
        /\ reader'[q].delta = IF big THEN history[b].score - history[a].score
                                     ELSE 0
    <3> DEFINE tr == IF Cardinality(S) < 2 THEN 0 ELSE b
               dl == IF Cardinality(S) < 2 THEN 0
                                           ELSE history[b].score - history[a].score
    <3>1. /\ reader[q].pc = "trend"
          /\ reader' = [reader EXCEPT ![q].pc = "done", ![q].since = cutoff,
                                      ![q].open = open, ![q].trend = tr,
                                      ![q].delta = dl]
      BY <1>6, <2>0 DEF ReadTrend, Delta
    <3>2. tr = (IF big THEN b ELSE 0)
          /\ dl = (IF big THEN history[b].score - history[a].score ELSE 0)
      OBVIOUS
    <3>3. reader[q] \in Reader
      BY <1>1
    <3> HIDE DEF tr, dl, open, big, a, b, S
    <3>4. reader'[q] = [reader[q] EXCEPT !.pc = "done", !.since = cutoff,
                                         !.open = open, !.trend = tr, !.delta = dl]
      BY <1>1, <3>1
    <3>5. /\ reader'[q].pc = "done"
          /\ reader'[q].user = reader[q].user
          /\ reader'[q].since = cutoff
          /\ reader'[q].open = open
          /\ reader'[q].latest = reader[q].latest
          /\ reader'[q].trend = tr
          /\ reader'[q].delta = dl
      BY <3>3, <3>4 DEF Reader
    <3> QED
      BY <2>0, <3>1, <3>2, <3>5
  <2>2. /\ Mine(user)' = Mine(user)
        /\ S' = S
        /\ S \subseteq 1 .. Len(history)
    BY <1>4 DEF Mine, Visible, Recent
  <2>3. reader[q].latest # 0 => reader[q].latest \in Mine(user)
    BY <2>0, <2>1 DEF RInv, Current
  <2>4. \A i \in 1 .. Len(history') : Pending(i)' => i \in open
    BY <1>4, SMTT(30) DEF Pending
  <2>5. /\ Recent(reader[q].user, reader[q].since)' = S
        /\ Mine(reader[q].user)' = Mine(user)
    BY <1>4, <2>1 DEF Recent, Mine, Visible
  <2> HIDE DEF S, open
  <2>6. ASSUME big
        PROVE  a \in S /\ b \in S /\ a < b /\ \A i \in S : i <= a \/ i = b
    BY <1>4, <2>2, <2>6, LastTwo
  <2> HIDE DEF a, b, big
  <2>7. CASE big
    <3>1. /\ reader'[q].trend = b
          /\ reader'[q].delta = history'[b].score - history'[a].score
      BY <1>4, <2>1, <2>7
    <3>2. a \in S /\ b \in S /\ a < b /\ \A i \in S : i <= a \/ i = b
      BY <2>6, <2>7
    <3>3. \A i \in S : i \in Nat /\ (i <= a \/ i >= b) /\ b >= i
      BY <1>4, <2>2, <3>2
    <3>4. reader'[q].latest \in S => b >= reader'[q].latest
      BY <3>3
    <3>5. \A i \in S : i <= a \/ i >= b \/ i \in reader'[q].open
      BY <3>3
    <3>6. \A i \in 1 .. Len(history') :
             Pending(i)' => i >= b \/ i \in reader'[q].open
      BY <2>1, <2>4
    <3>7. reader'[q].latest # 0 => reader'[q].latest \in Mine(user)
      BY <2>1, <2>3
    <3>8. reader'[q].trend # 0
      BY <1>4, <2>2, <3>1, <3>2
    <3> QED
      BY <2>5, <3>1, <3>2, <3>4, <3>5, <3>6, <3>7, <3>8 DEF Current
  <2>8. CASE ~big
    <3>1. reader'[q].trend = 0 /\ reader'[q].delta = 0
      BY <2>1, <2>8
    <3> QED
      BY <2>1, <2>2, <2>3, <3>1 DEF Current
  <2> QED
    BY <2>7, <2>8
<1> QED
  BY <1>3, <1>5, <1>6

(* Whatever order concurrent writers commit their entries in, the trend
   GET /scores/history answers is that of two entries of the period between
   which no other was committed when they were read, and it is not older than
   the latest score it answers. *)
THEOREM TrendCorrect == Spec => []TrendIsCurrent
<1>1. RInv => TrendIsCurrent
  BY DEF RInv, Current, TrendIsCurrent, Before
<1> QED
  BY <1>1, RInit, RStep, PTL DEF Spec

-----------------------------------------------------------------------------
(* Of a finite set of rows with ids of their own, more than limit of them,
   exactly limit are among the newest. *)
LEMMA NewestCount ==
    ASSUME NEW S, IsFiniteSet(S), NEW limit \in Nat,
           \A r \in S : rows[r].id \in Nat,
           \A q, r \in S : rows[q].id = rows[r].id => q = r,
           NEW old \in S, old \notin Newest(S, limit)
    PROVE  Cardinality(Newest(S, limit)) = limit
<1> DEFINE Above(r) == { q \in S : rows[q].id > rows[r].id }
           rank == [r \in S |-> Cardinality(Above(r))]
           n == Cardinality(S)
           N == Newest(S, limit)
<1>1. n \in Nat
  BY FS_CardinalityType
<1>1a. \A r \in S : rank[r] = Cardinality(Above(r))
  OBVIOUS
<1>1b. /\ rank \in [S -> {rank[r] : r \in S}]
       /\ DOMAIN rank = S
  OBVIOUS
<1>1c. \A r \in S : \A q : q \in Above(r) <=> q \in S /\ rows[q].id > rows[r].id
  OBVIOUS
<1>1d. \A r \in S : r \in N <=> Cardinality(Above(r)) < limit
  BY Zenon DEF Newest
<1> HIDE DEF rank, n, Above
<1>2. ASSUME NEW r \in S
      PROVE  IsFiniteSet(Above(r)) /\ rank[r] \in Nat /\ rank[r] <= n - 1
  <2>1. IsFiniteSet(S \ {r}) /\ Cardinality(S \ {r}) = n - 1
    BY FS_RemoveElement DEF n
  <2>2. Above(r) \in SUBSET (S \ {r})
    BY <1>1c
  <2>3. IsFiniteSet(Above(r)) /\ Cardinality(Above(r)) <= n - 1
    BY <2>1, <2>2, FS_Subset
  <2>4. Cardinality(Above(r)) \in Nat
    BY <2>3, FS_CardinalityType
  <2> QED
    BY <2>3, <2>4, <1>1a
<1>3. ASSUME NEW q \in S, NEW r \in S, rows[q].id < rows[r].id
      PROVE  rank[r] < rank[q]
  <2>1. r \in Above(q) /\ Above(r) \in SUBSET (Above(q) \ {r})
    BY <1>3, <1>1c
  <2>2. /\ IsFiniteSet(Above(q) \ {r})
        /\ Cardinality(Above(q) \ {r}) = Cardinality(Above(q)) - 1
    BY <1>2, <2>1, FS_RemoveElement
  <2>3. Cardinality(Above(r)) <= Cardinality(Above(q)) - 1
    BY <2>1, <2>2, FS_Subset
  <2> QED
    BY <1>1a, <1>2, <2>3
<1>4. ASSUME NEW q \in S, NEW r \in S, rank[q] = rank[r]
      PROVE  q = r
  <2>1. rank[q] \in Nat /\ rank[r] \in Nat
    BY <1>2
  <2>2. ~(rank[q] < rank[r]) /\ ~(rank[r] < rank[q])
    BY <1>4, <2>1
  <2>3. ~(rows[q].id < rows[r].id) /\ ~(rows[r].id < rows[q].id)
    BY <1>3, <2>2
  <2>4. rows[q].id = rows[r].id
    <3>1. rows[q].id \in Nat /\ rows[r].id \in Nat
      OBVIOUS
    <3> QED
      BY <2>3, <3>1
  <2> QED
    BY <2>4
<1>5. rank \in Injection(S, 0 .. n - 1)
  <2>1. \A r \in S : rank[r] \in 0 .. n - 1
    BY <1>1, <1>2
  <2>2. rank \in [S -> 0 .. n - 1]
    BY <1>1b, <2>1
  <2> QED
    BY <2>2, <1>4 DEF Injection, IsInjective
<1>6. \A k \in 0 .. n - 1 : \E r \in S : rank[r] = k
  <2>1. IsFiniteSet(0 .. n - 1) /\ Cardinality(0 .. n - 1) = n
    <3>1. n - 1 \in Int
      BY <1>1
    <3>2. /\ IsFiniteSet(0 .. n - 1)
          /\ Cardinality(0 .. n - 1) = IF 0 > n - 1 THEN 0 ELSE (n - 1) - 0 + 1
      <4>1. 0 \in Int
        OBVIOUS
      <4> QED
        BY <3>1, <4>1, FS_Interval, Zenon
    <3> QED
      BY <1>1, <3>2
  <2>2. rank \in Surjection(S, 0 .. n - 1)
    BY <1>5, <2>1, FS_Injection DEF n
  <2> QED
    BY <2>2 DEF Surjection
<1>7. \A r \in S : r \in N <=> rank[r] < limit
  BY <1>1a, <1>1d
<1>8. limit <= n - 1
  <2>1. rank[old] \in Nat /\ rank[old] <= n - 1 /\ ~(rank[old] < limit)
    BY <1>2, <1>7
  <2> QED
    BY <1>1, <2>1
<1>9. N \in SUBSET S
  BY DEF Newest
<1> HIDE DEF N
<1> DEFINE g == [r \in N |-> rank[r]]
<1>10. g \in Bijection(N, 0 .. limit - 1)
  <2>1. g \in [N -> 0 .. limit - 1]
    BY <1>2, <1>7, <1>9
  <2>2. \A q, r \in N : g[q] = g[r] => q = r
    BY <1>4, <1>9
  <2>3. \A k \in 0 .. limit - 1 : \E r \in N : g[r] = k
    <3> SUFFICES ASSUME NEW k \in 0 .. limit - 1
                 PROVE  \E r \in N : g[r] = k
      OBVIOUS
    <3>1. k \in 0 .. n - 1
      BY <1>1, <1>8
    <3>2. PICK r \in S : rank[r] = k
      BY <1>6, <3>1
    <3> QED
      BY <1>7, <3>2
  <2> HIDE DEF g
  <2> QED
    BY <2>1, <2>2, <2>3 DEF Bijection, Injection, IsInjective, Surjection
<1>11. IsFiniteSet(N)
  BY <1>9, FS_Subset
<1>12. Cardinality(0 .. limit - 1) = Cardinality(N)
  BY <1>10, <1>11, FS_Bijection DEF ExistsBijection
<1>13. Cardinality(0 .. limit - 1) = limit
  BY FS_Interval
<1> QED
  BY <1>12, <1>13 DEF N

(* The rows that were ever stored have ids of their own, below the next. *)
Ids ==
    /\ \A r \in Rows : rows[r].state # "none" => rows[r].id < nextId
    /\ \A q, r \in Rows :
          /\ rows[q].state # "none" /\ rows[r].state # "none"
          /\ rows[q].id = rows[r].id
          => q = r

(* Hence they are finitely many, however many requests there are. *)
LEMMA StoredAreFinite ==
    ASSUME TypeOK, Ids, NEW S \in SUBSET Rows,
           \A r \in S : rows[r].state # "none"
    PROVE  IsFiniteSet(S)
<1> DEFINE id == [r \in S |-> rows[r].id]
<1>1. nextId \in Nat /\ \A r \in S : rows[r].id \in Nat /\ rows[r].id < nextId
  BY DEF TypeOK, Row, Ids
<1>2. id \in [S -> 0 .. nextId]
  BY <1>1
<1>3. \A q, r \in S : id[q] = id[r] => q = r
  BY DEF Ids
<1>4. id \in Injection(S, 0 .. nextId)
  <2> HIDE DEF id
  <2> QED
    BY <1>2, <1>3 DEF Injection, IsInjective
<1>5. IsFiniteSet(0 .. nextId)
  <2>1. 0 \in Int /\ nextId \in Int
    BY <1>1
  <2> QED
    BY <2>1, FS_Interval, Zenon
<1> QED
  BY <1>4, <1>5, FS_Injection

(* What a step does to the tables. *)
Deleted(gone, state) ==
    rows' = [r \in Rows |-> IF r \in gone THEN [rows[r] EXCEPT !.state = state]
                                          ELSE rows[r]]

LEMMA RowSteps ==
    ASSUME EInv, [Next]_vars
    PROVE  \/ UNCHANGED <<rows, nextId>>
           \/ \E r \in Rows : \E user, version : Insert(r, user, version)
           \/ /\ nextId' = nextId
              /\ \E gone, state : /\ state # "stored" /\ Deleted(gone, state)
                                 /\ \A r \in gone : rows[r].state = "stored"
<1>1. ASSUME NEW j \in Jobs, Save(j)
      PROVE  \E r \in Rows : \E user, version : Insert(r, user, version)
  BY <1>1 DEF Save, Rows
<1>2. ASSUME NEW g \in Grants, NEW user, NEW version, Consent(g, user, version)
      PROVE  \E r \in Rows : \E u, v : Insert(r, u, v)
  BY <1>2 DEF Consent, Rows
<1>3. ASSUME NEW user, NEW version, Withdraw(user, version)
      PROVE  /\ nextId' = nextId
             /\ \E gone, state : /\ state # "stored" /\ Deleted(gone, state)
                                /\ \A r \in gone : rows[r].state = "stored"
  <2> DEFINE gone == { g \in Grants : Stored(g, user) /\ rows[g].version = version }
  <2>1. nextId' = nextId /\ Deleted(gone, "withdrawn")
    BY <1>3 DEF Withdraw, Deleted
  <2>2. \A r \in gone : rows[r].state = "stored"
    BY DEF Stored
  <2>3. "withdrawn" # "stored"
    OBVIOUS
  <2> QED
    BY <2>1, <2>2, <2>3
<1>4. ASSUME NEW e \in Erasures, EraseCommit(e)
      PROVE  /\ nextId' = nextId
             /\ \E gone, state : /\ state # "stored" /\ Deleted(gone, state)
                                /\ \A r \in gone : rows[r].state = "stored"
  <2>1. nextId' = nextId /\ Deleted(erase[e].taken, "erased")
    BY <1>4 DEF EraseCommit, Deleted
  <2>2. \A r \in erase[e].taken : rows[r].state = "stored"
    BY <1>4 DEF EraseCommit, EInv, Taken, Deleting, Stored
  <2>3. "erased" # "stored"
    OBVIOUS
  <2> QED
    BY <2>1, <2>2, <2>3
<1> QED
  BY <1>1, <1>2, <1>3, <1>4, ZenonT(60) DEF Next, Assess, Task, Audit, Meter, Score,
     PersistFails, Lose, PostScore, InsertScore, CommitScore, WriteFails, EraseBegin, EraseConsents,
     EraseRecords, EraseFrom, EraseFails, ExportBegin, ExportConsents,
     ExportRecords, ReadLatest, ReadTrend, vars

(* A row that is stored with an id that was given before is as it was. *)
LEMMA RowsKeep ==
    ASSUME EInv, Ids, [Next]_vars
    PROVE  /\ Ids' /\ nextId <= nextId'
           /\ \A r \in Rows : rows'[r].state = "stored" /\ rows'[r].id < nextId
                              => rows'[r] = rows[r]
<1>0. nextId \in Nat /\ rows \in [Rows -> Row]
  BY DEF EInv, TypeOK
<1>1. CASE UNCHANGED <<rows, nextId>>
  BY <1>0, <1>1 DEF Ids
<1>2. CASE \E r \in Rows : \E user, version : Insert(r, user, version)
  <2>1. PICK r \in Rows : \E user, version : Insert(r, user, version)
    BY <1>2
  <2>1a. PICK user, version : Insert(r, user, version)
    BY <2>1
  <2>2. /\ nextId' = nextId + 1 /\ rows'[r].id = nextId
        /\ \A q \in Rows : q # r => rows'[q] = rows[q]
    BY <1>0, <2>1a DEF Insert
  <2>3. \A q \in Rows : rows[q].id \in Nat
    BY <1>0 DEF Row
  <2> QED
    BY <1>0, <2>2, <2>3 DEF Ids
<1>3. CASE /\ nextId' = nextId
           /\ \E gone, state : /\ state # "stored" /\ Deleted(gone, state)
                              /\ \A r \in gone : rows[r].state = "stored"
  <2>1. PICK gone, state : /\ state # "stored" /\ Deleted(gone, state)
                           /\ \A r \in gone : rows[r].state = "stored"
    BY <1>3
  <2>2. ASSUME NEW r \in Rows
        PROVE  /\ rows'[r].id = rows[r].id
               /\ r \notin gone => rows'[r] = rows[r]
               /\ r \in gone => rows'[r].state = state
    <3>1. rows[r] \in Row
      BY <1>0
    <3>2. rows'[r] = IF r \in gone THEN [rows[r] EXCEPT !.state = state] ELSE rows[r]
      BY <2>1 DEF Deleted
    <3> QED
      BY <3>1, <3>2 DEF Row
  <2>3. \A r \in Rows : rows'[r].state # "none" => rows[r].state # "none"
    <3>1. "stored" # "none"
      OBVIOUS
    <3> QED
      BY <2>1, <2>2, <3>1
  <2> QED
    BY <1>0, <1>3, <2>1, <2>2, <2>3 DEF Ids
<1> QED
  BY <1>1, <1>2, <1>3, RowSteps

(* What an export has collected so far. *)
Collected(x) ==
    /\ export[x].pc # "idle" => export[x].since <= nextId
    /\ export[x].pc = "records"
       => /\ export[x].got \subseteq Grants
          /\ \A g \in Grants : /\ Stored(g, export[x].user)
                               /\ rows[g].id < export[x].since
                               => g \in export[x].got
    /\ export[x].pc = "done"
       => \A r \in Rows :
             /\ Stored(r, export[x].user)
             /\ rows[r].id < export[x].since
             /\ r \notin export[x].got
             => r \in Jobs /\ Cardinality(export[x].got \cap Jobs) = ExportLimit

XInv == EInv /\ Ids /\ \A x \in Exports : Collected(x)

LEMMA XInit == Init => XInv
<1> SUFFICES ASSUME Init PROVE XInv
  OBVIOUS
<1>1. EInv
  BY EInit
<1>2. Ids
  BY DEF Init, NoRow, Ids
<1>3. \A x \in Exports : Collected(x)
  BY DEF Init, Collected
<1> QED
  BY <1>1, <1>2, <1>3 DEF XInv

(* What was stored before the request is left as it is by the others. *)
LEMMA CollectedKeeps ==
    ASSUME XInv, [Next]_vars, NEW x \in Exports, export'[x] = export[x]
    PROVE  Collected(x)'
<1>1. /\ nextId <= nextId' /\ nextId \in Nat /\ nextId' \in Nat
      /\ \A r \in Rows : rows'[r].state = "stored" /\ rows'[r].id < nextId
                         => rows'[r] = rows[r]
  <2>1. TypeOK'
    BY TypeStep DEF XInv, EInv
  <2> QED
    BY <2>1, RowsKeep DEF XInv, EInv, TypeOK
<1>2. export[x] \in Export /\ Collected(x)
  BY DEF XInv, EInv, TypeOK
<1>3. PICK since \in Nat : since = export[x].since
  BY <1>2 DEF Export
<1>4. \A r \in Rows : rows'[r].id \in Nat
  <2>1. TypeOK'
    BY TypeStep DEF XInv, EInv
  <2> QED
    BY <2>1 DEF TypeOK, Row
<1>5. ASSUME export[x].pc # "idle", NEW r \in Rows,
             Stored(r, export[x].user)', rows'[r].id < since
      PROVE  Stored(r, export[x].user) /\ rows[r].id < since
  <2>1. since <= nextId
    BY <1>2, <1>3, <1>5 DEF Collected
  <2>2. rows'[r].id < nextId
    BY <1>1, <1>3, <1>4, <1>5, <2>1
  <2>3. rows'[r] = rows[r]
    BY <1>1, <1>5, <2>2 DEF Stored
  <2> QED
    BY <1>5, <2>3 DEF Stored
<1>6. export'[x].pc # "idle" => export'[x].since <= nextId'
  BY <1>1, <1>2, <1>3 DEF Collected
<1>7. export'[x].pc = "records"
      => /\ export'[x].got \subseteq Grants
         /\ \A g \in Grants : /\ Stored(g, export[x].user)'
                              /\ rows'[g].id < export'[x].since
                              => g \in export'[x].got
  BY <1>2, <1>3, <1>5 DEF Collected, Rows
<1>8. export'[x].pc = "done"
      => \A r \in Rows :
            /\ Stored(r, export[x].user)'
            /\ rows'[r].id < export'[x].since
            /\ r \notin export'[x].got
            => r \in Jobs /\ Cardinality(export'[x].got \cap Jobs) = ExportLimit
  BY <1>2, <1>3, <1>5 DEF Collected
<1> QED
  BY <1>6, <1>7, <1>8 DEF Collected

LEMMA XStep == XInv /\ [Next]_vars => XInv'
<1> SUFFICES ASSUME XInv, [Next]_vars PROVE XInv'
  OBVIOUS
<1>1. EInv' /\ Ids' /\ TypeOK
  BY EStep, RowsKeep DEF XInv, EInv
<1>2. SUFFICES ASSUME NEW x \in Exports, export'[x] # export[x]
               PROVE  Collected(x)'
  BY <1>1, CollectedKeeps DEF XInv
<1>3. export \in [Exports -> Export] /\ export[x] \in Export
  BY <1>1 DEF TypeOK
<1>4. \/ \E user \in Users : ExportBegin(x, user)
      \/ ExportConsents(x) \/ ExportRecords(x)
  <2>1. export' # export
    BY <1>2
  <2>2. \E y \in Exports :
          \/ \E user \in Users : ExportBegin(y, user)
          \/ ExportConsents(y) \/ ExportRecords(y)
    BY <2>1, Zenon DEF Next, Assess, Task, Save, Audit, Meter, Score,
       PersistFails, Lose, PostScore, InsertScore, CommitScore, WriteFails, Consent, Withdraw, EraseBegin,
       EraseConsents, EraseRecords, EraseFrom, EraseCommit, EraseFails,
       ReadLatest, ReadTrend, vars
  <2>3. ASSUME NEW y \in Exports, y # x,
               \/ \E user \in Users : ExportBegin(y, user)
               \/ ExportConsents(y) \/ ExportRecords(y)
        PROVE  FALSE
    BY <1>2, <1>3, <2>3 DEF ExportBegin, ExportConsents, ExportRecords
  <2> QED
    BY <2>2, <2>3, Zenon
<1>5. rows' = rows /\ nextId' = nextId /\ nextId \in Nat
  BY <1>1, <1>4 DEF ExportBegin, ExportConsents, ExportRecords, TypeOK
<1>6. ASSUME NEW user \in Users, ExportBegin(x, user)
      PROVE  Collected(x)'
  <2>1. export'[x] = [pc |-> "consents", user |-> user, since |-> nextId, got |-> {}]
    BY <1>3, <1>6 DEF ExportBegin
  <2> QED
    BY <1>5, <2>1 DEF Collected
<1>7. CASE ExportConsents(x)
  <2>1. /\ export[x].pc = "consents" /\ export'[x].pc = "records"
        /\ export'[x].user = export[x].user /\ export'[x].since = export[x].since
        /\ export'[x].got = { g \in Grants : Stored(g, export[x].user) }
    BY <1>3, <1>7 DEF ExportConsents, Export
  <2>2. export[x].since <= nextId
    BY <2>1 DEF XInv, Collected
  <2> QED
    BY <1>5, <2>1, <2>2 DEF Collected, Stored
<1>8. CASE ExportRecords(x)
  <2> DEFINE S == { j \in Jobs : Stored(j, export[x].user) }
  <2>1. /\ export[x].pc = "records" /\ export'[x].pc = "done"
        /\ export'[x].user = export[x].user /\ export'[x].since = export[x].since
        /\ export'[x].got = export[x].got \cup Newest(S, ExportLimit)
    BY <1>3, <1>8 DEF ExportRecords, Export
  <2>2. /\ export[x].since <= nextId /\ export[x].got \subseteq Grants
        /\ \A g \in Grants : /\ Stored(g, export[x].user)
                             /\ rows[g].id < export[x].since
                             => g \in export[x].got
    BY <2>1 DEF XInv, Collected
  <2>3. ASSUME NEW r \in Rows, Stored(r, export[x].user),
               rows[r].id < export[x].since, r \notin export'[x].got
        PROVE  r \in Jobs /\ Cardinality(export'[x].got \cap Jobs) = ExportLimit
    <3>1. r \notin Grants
      BY <2>1, <2>2, <2>3
    <3>2. r \in S
      BY <2>3, <3>1 DEF Rows
    <3>3. S \in SUBSET Rows /\ \A q \in S : rows[q].state # "none"
      BY DEF Rows, Stored
    <3>4. IsFiniteSet(S)
      BY <1>1, <3>3, StoredAreFinite DEF XInv
    <3>5. \A q \in S : rows[q].id \in Nat
      BY <1>1, <3>3 DEF TypeOK, Row
    <3>6. \A p, q \in S : rows[p].id = rows[q].id => p = q
      BY <3>3 DEF XInv, Ids
    <3>7. r \notin Newest(S, ExportLimit)
      BY <2>1, <2>3
    <3> HIDE DEF S
    <3>8. Cardinality(Newest(S, ExportLimit)) = ExportLimit
      BY <3>2, <3>4, <3>5, <3>6, <3>7, NewestCount, LimitsAssumption
    <3>9. export'[x].got \cap Jobs = Newest(S, ExportLimit)
      <4>1. Newest(S, ExportLimit) \subseteq Jobs
        BY DEF Newest, S
      <4> QED
        BY <2>1, <2>2, <4>1, RowsAssumption
    <3> QED
      BY <3>1, <3>8, <3>9 DEF Rows
  <2> HIDE DEF S
  <2> QED
    BY <1>5, <2>1, <2>2, <2>3 DEF Collected, Stored
<1> QED
  BY <1>4, <1>6, <1>7, <1>8

(* An export leaves out what was stored before it only beyond the limit, for
   any limit and any number of rows and requests. *)
THEOREM ExportCorrect == Spec => []ExportMissesOnlyBeyondLimit
<1>1. XInv => ExportMissesOnlyBeyondLimit
  BY DEF XInv, Collected, ExportMissesOnlyBeyondLimit
<1> QED
  BY <1>1, XInit, XStep, PTL DEF Spec
=============================================================================
