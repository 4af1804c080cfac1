--------------------------- MODULE AccountsProofs ---------------------------
(***************************************************************************)
(* Proofs about Accounts, for any sets of addresses, requests and tokens   *)
(* and any settings.                                                       *)
(***************************************************************************)
EXTENDS Accounts, TLAPS

(* The inductive invariant: the tables, what each request knows at the place
   it has reached, and what the requests know of one another.              *)

Tables == /\ users \in [Emails -> User]
          /\ tokens \in [Tokens -> Token]
          /\ audits \subseteq [email : Emails, until : Nat]
          /\ clock \in Nat

(* An address without a row has no lock, and tokens that were issued are of
   an address. *)
Rows == /\ \A e \in Emails : ~Exists(e) => users[e].until = None
        /\ \A t \in Tokens : tokens[t].state # "unused"
                             => tokens[t].email \in Emails

Valid(r) ==
    /\ ~Free(r) => req[r].email \in Emails
    /\ req[r].pc \in {"pop", "set", "clear"} => req[r].token \in Tokens
    /\ req[r].pc \in {"insert", "checkLogin", "commitLogin", "pop", "set",
                      "clear"} => req[r].password \in Passwords

OfLogin(r) ==
    /\ req[r].pc \in {"checkLogin", "commitLogin"} => Exists(req[r].email)
    /\ req[r].pc = "commitLogin" /\ req[r].seen.until # None
       => req[r].seen.until <= clock
    /\ req[r].pc = "commitLogin" => req[r].answer # 201

OfConfirm(r) ==
    /\ req[r].pc \in {"pop", "set", "clear"}
       => /\ tokens[req[r].token].email = req[r].email
          /\ tokens[req[r].token].state # "unused"
    /\ req[r].pc \in {"set", "clear"} => tokens[req[r].token].state = "gone"

OfOthers(r) ==
    /\ req[r].pc \in {"set", "clear", "done"}
       => \A t \in req[r].others : /\ tokens[t].state # "unused"
                                   /\ tokens[t].email = req[r].email
    /\ req[r].pc \notin {"set", "clear", "done"} => req[r].others = {}
    /\ req[r].pc = "done" /\ req[r].answer = 200
       => \A t \in req[r].others : tokens[t].state = "gone"

OfRegistration(r) ==
    req[r].pc = "done" /\ req[r].answer = 201
    => req[r].email \in Emails /\ Exists(req[r].email)

Good(r) == Valid(r) /\ OfLogin(r) /\ OfConfirm(r) /\ OfOthers(r)
           /\ OfRegistration(r)

IInv == /\ Tables /\ Rows
        /\ req \in [Requests -> Request]
        /\ \A r \in Requests : Good(r)
        /\ LockIsAudited /\ RegisteredOnce

LEMMA Implied == IInv => TypeOK /\ LockIsAudited /\ ResetRetiresTokens
                         /\ RegisteredOnce
  <1> SUFFICES ASSUME IInv PROVE TypeOK /\ ResetRetiresTokens
    BY DEF IInv
  <1>1. TypeOK
    BY DEF IInv, Tables, TypeOK, Good, Valid
  <1>2. ResetRetiresTokens
    BY DEF IInv, ResetRetiresTokens, Good, OfOthers
  <1> QED
    BY <1>1, <1>2

-----------------------------------------------------------------------------
(* The values the actions build.                                           *)

LEMMA NoUserType == NoUser \in User
  BY DEF NoUser, User, Times, Hash

Codes == {None, 200, 201, 400, 401, 409, 429, 500}
Places == {"idle", "checkLogin", "commitLogin", "insert", "store", "pop", "set",
           "clear", "done"}

LEMMA CodeType == /\ None \in Codes /\ 200 \in Codes /\ 201 \in Codes
                  /\ 400 \in Codes /\ 401 \in Codes /\ 409 \in Codes
                  /\ 429 \in Codes /\ 500 \in Codes
  <1>1. None \in Codes
    BY DEF Codes
  <1>2. 200 \in Codes
    BY DEF Codes
  <1>3. 201 \in Codes /\ 400 \in Codes
    BY DEF Codes
  <1>4. 401 \in Codes /\ 409 \in Codes
    BY DEF Codes
  <1>5. 429 \in Codes /\ 500 \in Codes
    BY DEF Codes
  <1> QED
    BY <1>1, <1>2, <1>3, <1>4, <1>5

LEMMA RequestType ==
  ASSUME NEW pc \in Places, NEW answer \in Codes, NEW email \in Emails \cup {None},
         NEW password \in Hash, NEW token \in Tokens \cup {None},
         NEW seen \in User, NEW next \in User, NEW others \in SUBSET Tokens
  PROVE  [pc |-> pc, answer |-> answer, email |-> email, password |-> password,
          token |-> token, seen |-> seen, next |-> next, others |-> others]
         \in Request
  BY DEF Request, Places, Codes

LEMMA CheckedType ==
  ASSUME NEW q \in Request, NEW pc \in Places, NEW answer \in Codes,
         NEW next \in User
  PROVE  [q EXCEPT !.pc = pc, !.answer = answer, !.next = next] \in Request
  <1>1. Request = [pc : Places, answer : Codes, email : Emails \cup {None},
                   password : Hash, token : Tokens \cup {None}, seen : User,
                   next : User, others : SUBSET Tokens]
    BY DEF Request, Places, Codes
  <1> QED
    BY <1>1

LEMMA PoppedType ==
  ASSUME NEW q \in Request, NEW pc \in Places, NEW others \in SUBSET Tokens
  PROVE  /\ [q EXCEPT !.pc = pc, !.others = others] \in Request
         /\ [q EXCEPT !.pc = pc] \in Request
  <1>1. Request = [pc : Places, answer : Codes, email : Emails \cup {None},
                   password : Hash, token : Tokens \cup {None}, seen : User,
                   next : User, others : SUBSET Tokens]
    BY DEF Request, Places, Codes
  <1> QED
    BY <1>1

LEMMA AnswerType == ASSUME TypeOK, NEW r \in Requests, NEW code \in Codes,
                           Answer(r, code)
                    PROVE  /\ req' \in [Requests -> Request]
                           /\ req'[r].pc = "done"
                           /\ req'[r].answer = code
                           /\ req'[r].email = req[r].email
                           /\ req'[r].others = IF code = 200 THEN req[r].others
                                               ELSE {}
                           /\ req'[r].password = IF code = 201
                                                 THEN req[r].password ELSE None
                           /\ \A q \in Requests \ {r} : req'[q] = req[q]
  <1> DEFINE v == [pc |-> "done", answer |-> code, email |-> req[r].email,
                   password |-> IF code = 201 THEN req[r].password ELSE None,
                   token |-> None, seen |-> NoUser, next |-> NoUser,
                   others |-> IF code = 200 THEN req[r].others ELSE {}]
  <1>1. req \in [Requests -> Request] /\ req[r] \in Request
    BY DEF TypeOK
  <1>2. req' = [req EXCEPT ![r] = v]
    BY DEF Answer, Over
  <1>3. /\ req[r].email \in Emails \cup {None} /\ req[r].password \in Hash
        /\ req[r].others \in SUBSET Tokens
    BY <1>1 DEF Request
  <1>4. v \in Request
    <2>1. (IF code = 201 THEN req[r].password ELSE None) \in Hash
      BY <1>3 DEF Hash
    <2>2. (IF code = 200 THEN req[r].others ELSE {}) \in SUBSET Tokens
      BY <1>3
    <2>3. ASSUME NEW password \in Hash, NEW others \in SUBSET Tokens
          PROVE  [pc |-> "done", answer |-> code, email |-> req[r].email,
                  password |-> password, token |-> None, seen |-> NoUser,
                  next |-> NoUser, others |-> others] \in Request
      BY <1>3, NoUserType, RequestType DEF Places
    <2> QED
      BY <2>1, <2>2, <2>3
  <1>5. req'[r] = v /\ \A q \in Requests \ {r} : req'[q] = req[q]
    BY <1>1, <1>2
  <1>6. req' \in [Requests -> Request]
    BY <1>1, <1>2, <1>4
  <1> QED
    BY <1>5, <1>6

LEMMA BeginType == ASSUME TypeOK, NEW r \in Requests, NEW email \in Emails,
                          NEW password \in Hash, NEW pc \in Places,
                          Begin(r, pc, email, password)
                   PROVE  /\ req' \in [Requests -> Request]
                          /\ req'[r].pc = pc
                          /\ req'[r].email = email
                          /\ req'[r].password = password
                          /\ req'[r].others = {}
                          /\ req'[r].seen = users[email]
                          /\ \A q \in Requests \ {r} : req'[q] = req[q]
  <1> DEFINE v == [pc |-> pc, answer |-> None, email |-> email,
                   password |-> password, token |-> None,
                   seen |-> users[email], next |-> NoUser, others |-> {}]
  <1>1. req \in [Requests -> Request] /\ users[email] \in User
    BY DEF TypeOK
  <1>2. req' = [req EXCEPT ![r] = v]
    BY DEF Begin, At
  <1>3. v \in Request
    BY <1>1, NoUserType, CodeType, RequestType, Zenon
  <1>4. req'[r] = v /\ \A q \in Requests \ {r} : req'[q] = req[q]
    BY <1>1, <1>2
  <1>5. req' \in [Requests -> Request]
    BY <1>1, <1>2, <1>3
  <1> QED
    BY <1>4, <1>5

LEMMA RefuseType == ASSUME TypeOK, NEW r \in Requests,
                           NEW email \in Emails \cup {None}, NEW code \in Codes,
                           Refuse(r, code, email)
                    PROVE  /\ req' \in [Requests -> Request]
                           /\ req'[r].pc = "done"
                           /\ req'[r].answer = code
                           /\ req'[r].email = email
                           /\ req'[r].others = {}
                           /\ \A q \in Requests \ {r} : req'[q] = req[q]
  <1> DEFINE v == [pc |-> "done", answer |-> code, email |-> email,
                   password |-> None, token |-> None,
                   seen |-> NoUser, next |-> NoUser, others |-> {}]
  <1>1. req \in [Requests -> Request]
    BY DEF TypeOK
  <1>2. req' = [req EXCEPT ![r] = v]
    BY DEF Refuse, Over
  <1>3. v \in Request
    BY NoUserType, RequestType DEF Places, Hash
  <1>4. req'[r] = v /\ \A q \in Requests \ {r} : req'[q] = req[q]
    BY <1>1, <1>2
  <1>5. req' \in [Requests -> Request]
    BY <1>1, <1>2, <1>3
  <1> QED
    BY <1>4, <1>5

LEMMA LoginTypes == ASSUME NEW user \in User, NEW now \in Nat
                    PROVE  /\ Unlocked(user) \in User
                           /\ Failed(user, now) \in User
                           /\ Passed(user) \in User
  <1>1. /\ user.hash \in Hash /\ user.attempts \in Nat /\ user.until \in Times
        /\ user = [hash |-> user.hash, attempts |-> user.attempts,
                   until |-> user.until]
    BY DEF User
  <1>2. Lockout \in Nat /\ None \in Times /\ now + Lockout \in Times
    BY SettingsAssumption DEF Times
  <1>3. Passed(user) \in User
    BY <1>1, <1>2 DEF Passed, User
  <1>4. Unlocked(user) \in User
    BY <1>1, <1>2 DEF Unlocked, User
  <1>5. Failed(user, now) \in User
    <2> DEFINE n == user.attempts + 1
               until == IF n >= MaxAttempts THEN now + Lockout ELSE user.until
    <2>1. n \in Nat /\ until \in Times
      BY <1>1, <1>2
    <2>2. Failed(user, now) = [user EXCEPT !.attempts = n, !.until = until]
      BY DEF Failed
    <2> HIDE DEF n, until
    <2> QED
      BY <1>1, <2>1, <2>2 DEF User
  <1> QED
    BY <1>3, <1>4, <1>5

-----------------------------------------------------------------------------
(* What every step keeps of the tables: time goes on, accounts stay, a
   password changes only when a token of the account is gone, and a token that
   was issued stays with its address and does not come back.               *)

Kept == /\ clock' \in Nat /\ clock <= clock'
        /\ \A e \in Emails :
              Exists(e)
              => /\ Exists(e)'
                 /\ \/ users'[e].hash = users[e].hash
                    \/ \E t \in Tokens : tokens'[t].email = e
                                         /\ tokens'[t].state = "gone"
        /\ \A t \in Tokens :
              tokens[t].state # "unused"
              => /\ tokens'[t].email = tokens[t].email
                 /\ tokens'[t].state # "unused"
                 /\ tokens[t].state = "gone" => tokens'[t].state = "gone"

(* A request that does not move keeps what it knows. *)
LEMMA Bystander == ASSUME IInv, Kept, NEW q \in Requests, req'[q] = req[q]
                   PROVE  Good(q)'
  <1>1. /\ Valid(q) /\ OfLogin(q) /\ OfConfirm(q) /\ OfOthers(q)
        /\ OfRegistration(q) /\ req[q] \in Request /\ clock \in Nat
    BY DEF IInv, Good, Tables
  <1>2. Valid(q)'
    BY <1>1 DEF Valid, Free
  <1>3. OfLogin(q)'
    <2>1. req[q].seen.until \in Nat \cup {None}
      BY <1>1 DEF Request, User, Times
    <2>2. ASSUME req[q].pc = "commitLogin", req[q].seen.until # None
          PROVE  req[q].seen.until <= clock'
      BY <1>1, <2>1, <2>2 DEF OfLogin, Kept
    <2>3. ASSUME req[q].pc \in {"checkLogin", "commitLogin"}
          PROVE  Exists(req[q].email)'
      BY <1>1, <2>3 DEF OfLogin, Valid, Free, Kept, Exists
    <2> QED
      BY <1>1, <2>2, <2>3 DEF OfLogin, Exists
  <1>4. OfConfirm(q)'
    BY <1>1 DEF OfConfirm, Valid, Kept
  <1>5. OfOthers(q)'
    <2>1. req[q].others \in SUBSET Tokens
      BY <1>1 DEF Request
    <2> QED
      BY <1>1, <2>1 DEF OfOthers, Kept
  <1>6. OfRegistration(q)'
    BY <1>1 DEF OfRegistration, Kept, Exists
  <1> QED
    BY <1>2, <1>3, <1>4, <1>5, <1>6 DEF Good

(* Whoever was answered 201 stays the one. *)
LEMMA Registered == ASSUME IInv, Kept, NEW r \in Requests,
                           \A q \in Requests \ {r} : req'[q] = req[q],
                           ~(req'[r].pc = "done" /\ req'[r].answer = 201)
                    PROVE  RegisteredOnce'
  <1> SUFFICES ASSUME NEW q \in Requests,
                      req'[q].pc = "done", req'[q].answer = 201
               PROVE  /\ \/ users'[req'[q].email].hash = req'[q].password
                         \/ \E t \in Tokens : /\ tokens'[t].email = req'[q].email
                                              /\ tokens'[t].state = "gone"
                      /\ \A u \in Requests :
                            /\ req'[u].pc = "done" /\ req'[u].answer = 201
                            /\ req'[u].email = req'[q].email
                            => u = q
    BY DEF RegisteredOnce
  <1>1. q # r /\ req'[q] = req[q]
    OBVIOUS
  <1>2. req[q].email \in Emails /\ Exists(req[q].email)
    BY <1>1 DEF IInv, Good, OfRegistration
  <1>3. \/ users[req[q].email].hash = req[q].password
        \/ \E t \in Tokens : /\ tokens[t].email = req[q].email
                             /\ tokens[t].state = "gone"
    BY <1>1 DEF IInv, RegisteredOnce
  <1>4. \/ users'[req'[q].email].hash = req'[q].password
        \/ \E t \in Tokens : /\ tokens'[t].email = req'[q].email
                             /\ tokens'[t].state = "gone"
    BY <1>1, <1>2, <1>3 DEF Kept
  <1>5. \A u \in Requests : /\ req'[u].pc = "done" /\ req'[u].answer = 201
                            /\ req'[u].email = req'[q].email
                            => u = q
    BY <1>1 DEF IInv, RegisteredOnce
  <1> QED
    BY <1>4, <1>5

(* So that it is enough to look at the tables and at the request that moves. *)
LEMMA Moves == ASSUME IInv, Kept, NEW r \in Requests,
                      req' \in [Requests -> Request],
                      \A q \in Requests \ {r} : req'[q] = req[q],
                      ~(req'[r].pc = "done" /\ req'[r].answer = 201),
                      Tables', Rows', LockIsAudited', Good(r)'
               PROVE  IInv'
  <1>1. \A q \in Requests : Good(q)'
    BY Bystander
  <1>2. RegisteredOnce'
    BY Registered
  <1> QED
    BY <1>1, <1>2 DEF IInv

LEMMA Quiet == ASSUME IInv, UNCHANGED <<users, tokens, audits, clock>>
               PROVE  Kept /\ Tables' /\ Rows' /\ LockIsAudited'
  BY DEF IInv, Kept, Tables, Rows, LockIsAudited, Exists
(* A request that was answered without a token of its own. *)
LEMMA Answered == ASSUME IInv, NEW r \in Requests, NEW code \in Codes,
                         code # 201, Answer(r, code),
                         tokens \in [Tokens -> Token],
                         \A t \in req[r].others : /\ tokens'[t].state # "unused"
                                                  /\ tokens'[t].email = req[r].email
                                                  /\ code = 200
                                                     => tokens'[t].state = "gone"
                  PROVE  /\ req' \in [Requests -> Request]
                         /\ \A q \in Requests \ {r} : req'[q] = req[q]
                         /\ ~(req'[r].pc = "done" /\ req'[r].answer = 201)
                         /\ Good(r)'
  <1>1. TypeOK
    BY Implied
  <1>2. /\ req' \in [Requests -> Request]
        /\ req'[r].pc = "done" /\ req'[r].answer = code
        /\ req'[r].email = req[r].email
        /\ req'[r].others = IF code = 200 THEN req[r].others ELSE {}
        /\ \A q \in Requests \ {r} : req'[q] = req[q]
    BY <1>1, AnswerType
  <1>3. Good(r)'
    BY <1>2 DEF Good, Valid, Free, OfLogin, OfConfirm, OfOthers, OfRegistration
  <1> QED
    BY <1>2, <1>3

(* The answers of a handler that has touched no token, and what its "others"
   are. *)
LEMMA OthersKept == ASSUME IInv, NEW r \in Requests, UNCHANGED tokens
                    PROVE  \A t \in req[r].others :
                              /\ tokens'[t].state # "unused"
                              /\ tokens'[t].email = req[r].email
  <1>1. OfOthers(r) /\ req[r] \in Request
    BY DEF IInv, Good
  <1>2. req[r].pc \in {"set", "clear", "done"} \/ req[r].others = {}
    BY <1>1 DEF OfOthers
  <1> QED
    BY <1>1, <1>2 DEF OfOthers

LEMMA FailAnswer == ASSUME IInv, NEW r \in Requests, NEW code \in Codes,
                           code \notin {200, 201}, Answer(r, code),
                           UNCHANGED <<users, tokens, audits, clock>>
                    PROVE  IInv'
  <1>1. tokens \in [Tokens -> Token]
    BY DEF IInv, Tables
  <1>2. /\ req' \in [Requests -> Request]
        /\ \A q \in Requests \ {r} : req'[q] = req[q]
        /\ ~(req'[r].pc = "done" /\ req'[r].answer = 201)
        /\ Good(r)'
    BY <1>1, OthersKept, Answered
  <1> QED
    BY <1>2, Quiet, Moves

LEMMA Refused == ASSUME IInv, NEW r \in Requests, NEW email \in Emails \cup {None},
                        NEW code \in Codes, code # 201, Refuse(r, code, email),
                        UNCHANGED <<users, tokens, audits, clock>>
                 PROVE  IInv'
  <1>1. TypeOK
    BY Implied
  <1>2. /\ req' \in [Requests -> Request]
        /\ req'[r].pc = "done" /\ req'[r].answer = code
        /\ req'[r].others = {}
        /\ \A q \in Requests \ {r} : req'[q] = req[q]
    BY <1>1, RefuseType
  <1>3. Good(r)'
    BY <1>2 DEF Good, Valid, Free, OfLogin, OfConfirm, OfOthers, OfRegistration
  <1> QED
    BY <1>2, <1>3, Quiet, Moves

LEMMA Begun == ASSUME IInv, NEW r \in Requests, NEW email \in Emails,
                      NEW password \in Hash,
                      NEW pc \in {"checkLogin", "insert", "store"},
                      pc # "store" => password \in Passwords,
                      pc = "checkLogin" => Exists(email),
                      Begin(r, pc, email, password),
                      UNCHANGED <<users, tokens, audits, clock>>
               PROVE  IInv'
  <1>1. TypeOK /\ pc \in Places
    BY Implied DEF Places
  <1>2. /\ req' \in [Requests -> Request]
        /\ req'[r].pc = pc /\ req'[r].email = email
        /\ req'[r].password = password
        /\ req'[r].others = {}
        /\ \A q \in Requests \ {r} : req'[q] = req[q]
    BY <1>1, BeginType
  <1>3. Good(r)'
    BY <1>2 DEF Good, Valid, Free, OfLogin, OfConfirm, OfOthers, OfRegistration,
                Exists
  <1> QED
    BY <1>2, <1>3, Quiet, Moves

-----------------------------------------------------------------------------
(* One lemma per action. *)

LEMMA RegisterStep == ASSUME IInv, NEW r \in Requests, NEW email \in Emails,
                             NEW password \in Passwords,
                             Register(r, email, password)
                      PROVE  IInv'
  <1>1. password \in Hash
    BY DEF Hash
  <1>2. CASE Exists(email)
    BY <1>2, CodeType, Refused DEF Register
  <1>3. CASE ~Exists(email)
    BY <1>1, <1>3, Begun DEF Register
  <1> QED
    BY <1>2, <1>3

LEMMA LoginStep == ASSUME IInv, NEW r \in Requests, NEW email \in Emails,
                          NEW password \in Passwords, Login(r, email, password)
                   PROVE  IInv'
  <1>1. password \in Hash
    BY DEF Hash
  <1>2. CASE Exists(email)
    BY <1>1, <1>2, Begun DEF Login
  <1>3. CASE ~Exists(email)
    BY <1>3, CodeType, Refused DEF Login
  <1> QED
    BY <1>2, <1>3

LEMMA AskResetStep == ASSUME IInv, NEW r \in Requests, NEW email \in Emails,
                             AskReset(r, email)
                      PROVE  IInv'
  <1>1. None \in Hash
    BY DEF Hash
  <1>2. CASE Exists(email)
    BY <1>1, <1>2, Begun DEF AskReset
  <1>3. CASE ~Exists(email)
    BY <1>3, CodeType, Refused DEF AskReset
  <1> QED
    BY <1>2, <1>3

LEMMA FailStep == ASSUME IInv, NEW r \in Requests, Fail(r) PROVE IInv'
  BY FailAnswer, CodeType DEF Fail

LEMMA TickStep == ASSUME IInv, Tick PROVE IInv'
  <1>1. UNCHANGED <<users, tokens, audits, req>> /\ clock' = clock + 1
        /\ clock \in Nat
    BY DEF Tick, IInv, Tables
  <1>2. Kept /\ Tables' /\ Rows' /\ LockIsAudited'
    BY <1>1 DEF IInv, Kept, Tables, Rows, LockIsAudited, Exists
  <1>3. \A q \in Requests : Good(q)'
    BY <1>1, <1>2, Bystander
  <1>4. RegisteredOnce'
    BY <1>1 DEF IInv, RegisteredOnce
  <1> QED
    BY <1>1, <1>2, <1>3, <1>4 DEF IInv

LEMMA InsertStep == ASSUME IInv, NEW r \in Requests, Insert(r) PROVE IInv'
  <1> DEFINE e == req[r].email
  <1>0. /\ TypeOK /\ e \in Emails /\ req[r].password \in Passwords
        /\ req[r].others = {} /\ req[r].pc = "insert"
    BY Implied DEF IInv, Insert, Good, Valid, Free, OfOthers
  <1>1. CASE Exists(e)
    <2>1. Answer(r, 500) /\ UNCHANGED <<users, tokens, audits, clock>>
      BY <1>1 DEF Insert
    <2> QED
      BY <2>1, FailAnswer, CodeType
  <1>2. CASE ~Exists(e)
    <2> DEFINE row == [NoUser EXCEPT !.hash = req[r].password]
    <2>1. /\ users' = [users EXCEPT ![e] = row] /\ Answer(r, 201)
          /\ UNCHANGED <<tokens, audits, clock>>
      BY <1>2 DEF Insert
    <2>2. /\ row \in User /\ row.hash = req[r].password /\ row.until = None
      BY <1>0 DEF NoUser, User, Hash, Times
    <2>3. /\ users \in [Emails -> User] /\ tokens \in [Tokens -> Token]
          /\ audits \subseteq [email : Emails, until : Nat] /\ clock \in Nat
      BY DEF IInv, Tables
    <2> HIDE DEF row
    <2>4. /\ users'[e] = row /\ \A f \in Emails \ {e} : users'[f] = users[f]
          /\ users' \in [Emails -> User]
      BY <1>0, <2>1, <2>2, <2>3
    <2>5. /\ req' \in [Requests -> Request]
          /\ req'[r].pc = "done" /\ req'[r].answer = 201
          /\ req'[r].email = e /\ req'[r].password = req[r].password
          /\ req'[r].others = {}
          /\ \A q \in Requests \ {r} : req'[q] = req[q]
      BY <1>0, <2>1, CodeType, AnswerType
    <2>6. req[r].password # None
      BY <1>0, NoneAssumption
    <2>7. Kept
      BY <1>2, <2>1, <2>3, <2>4 DEF Kept, Exists
    <2>8. Tables' /\ Rows' /\ LockIsAudited'
      BY <2>1, <2>2, <2>3, <2>4, <2>6
         DEF IInv, Tables, Rows, LockIsAudited, Exists
    <2>9. Good(r)'
      BY <1>0, <2>2, <2>4, <2>5, <2>6 DEF Good, Valid, Free, OfLogin,
         OfConfirm, OfOthers, OfRegistration, Exists
    <2>10. \A q \in Requests : Good(q)'
      BY <2>5, <2>7, <2>9, Bystander
    <2>11. RegisteredOnce'
      <3> SUFFICES ASSUME NEW q \in Requests,
                          req'[q].pc = "done", req'[q].answer = 201
                   PROVE  /\ \/ users'[req'[q].email].hash = req'[q].password
                             \/ \E t \in Tokens :
                                   /\ tokens'[t].email = req'[q].email
                                   /\ tokens'[t].state = "gone"
                          /\ \A u \in Requests :
                                /\ req'[u].pc = "done" /\ req'[u].answer = 201
                                /\ req'[u].email = req'[q].email
                                => u = q
        BY DEF RegisteredOnce
      <3>1. \A u \in Requests \ {r} :
               req[u].pc = "done" /\ req[u].answer = 201
               => req[u].email \in Emails /\ req[u].email # e
        BY <1>2 DEF IInv, Good, OfRegistration
      <3>2. CASE q = r
        BY <2>2, <2>4, <2>5, <3>1, <3>2
      <3>3. CASE q # r
        BY <2>1, <2>4, <2>5, <3>1, <3>3 DEF IInv, RegisteredOnce
      <3> QED
        BY <3>2, <3>3
    <2> QED
      BY <2>5, <2>8, <2>10, <2>11 DEF IInv
  <1> QED
    BY <1>1, <1>2

LEMMA CheckLoginStep == ASSUME IInv, NEW r \in Requests, CheckLogin(r)
                        PROVE  IInv'
  <1> DEFINE user == req[r].seen
             ok == req[r].password = user.hash
             next == IF ok THEN Passed(user) ELSE Failed(Unlocked(user), clock)
             locked == user.until # None /\ user.until > clock
             code == IF ok THEN 200 ELSE 401
  <1>1. /\ TypeOK /\ req[r] \in Request /\ req \in [Requests -> Request]
        /\ clock \in Nat /\ Good(r) /\ req[r].pc = "checkLogin"
    BY Implied DEF IInv, Tables, CheckLogin
  <1>2. UNCHANGED <<users, tokens, audits, clock>>
    BY DEF CheckLogin
  <1>3. CASE locked
    <2>1. Answer(r, 429)
      BY <1>3 DEF CheckLogin
    <2> QED
      BY <1>2, <2>1, FailAnswer, CodeType
  <1>4. CASE ~locked
    <2>1. req' = [req EXCEPT ![r].pc = "commitLogin", ![r].answer = code,
                             ![r].next = next]
      BY <1>4 DEF CheckLogin
    <2>2. next \in User /\ code \in Codes
      <3>1. user \in User /\ Unlocked(user) \in User
        BY <1>1, LoginTypes DEF Request
      <3>2. Passed(user) \in User /\ Failed(Unlocked(user), clock) \in User
        BY <1>1, <3>1, LoginTypes
      <3>3. next \in User
        BY <3>2
      <3>4. code \in Codes
        BY CodeType
      <3> QED
        BY <3>3, <3>4
    <2> DEFINE v == [req[r] EXCEPT !.pc = "commitLogin", !.answer = code,
                                   !.next = next]
    <2>7. req' = [req EXCEPT ![r] = v]
      <3> HIDE DEF next, code
      <3> QED
        BY <1>1, <2>1
    <2> HIDE DEF next, code
    <2>8. v \in Request
      BY <1>1, <2>2, CheckedType DEF Places
    <2>9. /\ v.pc = "commitLogin" /\ v.email = req[r].email
          /\ v.password = req[r].password /\ v.seen = user
          /\ v.others = req[r].others /\ v.answer = code
      BY <1>1 DEF Request
    <2>10. code # 201
      BY DEF code
    <2> HIDE DEF v
    <2>3. /\ req' \in [Requests -> Request]
          /\ req'[r].pc = "commitLogin" /\ req'[r].email = req[r].email
          /\ req'[r].password = req[r].password /\ req'[r].seen = user
          /\ req'[r].others = req[r].others /\ req'[r].answer # 201
          /\ \A q \in Requests \ {r} : req'[q] = req[q]
      BY <1>1, <2>7, <2>8, <2>9, <2>10
    <2>4. user.until \in Nat \cup {None}
      BY <1>1 DEF Request, User, Times
    <2>5. user.until # None => user.until <= clock
      BY <1>1, <1>4, <2>4
    <2>6. Good(r)'
      BY <1>1, <1>2, <2>3, <2>5 DEF Good, Valid, Free, OfLogin, OfConfirm,
         OfOthers, OfRegistration, Exists
    <2> QED
      BY <1>2, <2>3, <2>6, Quiet, Moves
  <1> QED
    BY <1>3, <1>4

LEMMA ConfirmStep == ASSUME IInv, NEW r \in Requests, NEW t \in Tokens,
                            NEW password \in Passwords, Confirm(r, t, password)
                     PROVE  IInv'
  <1>1. UNCHANGED <<users, tokens, audits, clock>>
    BY DEF Confirm
  <1>2. CASE tokens[t].state = "live"
    <2> DEFINE v == At("pop", tokens[t].email, password, t, NoUser)
    <2>1. req' = [req EXCEPT ![r] = v]
      BY <1>2 DEF Confirm
    <2>2. /\ req \in [Requests -> Request] /\ tokens[t] \in Token
      BY DEF IInv, Tables
    <2>3. v \in Request
      <3>1. password \in Hash /\ tokens[t].email \in Emails \cup {None}
        BY <2>2 DEF Hash, Token
      <3> QED
        BY <3>1, NoUserType, CodeType, RequestType DEF At, Places
    <2>4. /\ v.pc = "pop" /\ v.email = tokens[t].email
          /\ v.password = password /\ v.token = t /\ v.others = {}
      BY DEF At
    <2> HIDE DEF v
    <2>5. /\ req' \in [Requests -> Request] /\ req'[r] = v
          /\ \A q \in Requests \ {r} : req'[q] = req[q]
      BY <2>1, <2>2, <2>3
    <2>6. tokens[t].email \in Emails
      BY <1>2 DEF IInv, Rows
    <2>7. Good(r)'
      BY <1>1, <1>2, <2>4, <2>5, <2>6 DEF Good, Valid, Free, OfLogin,
         OfConfirm, OfOthers, OfRegistration
    <2> QED
      BY <1>1, <2>4, <2>5, <2>7, Quiet, Moves
  <1>3. CASE tokens[t].state # "live"
    <2>1. Refuse(r, 400, None)
      BY <1>3 DEF Confirm
    <2> QED
      BY <1>1, <2>1, CodeType, Refused
  <1> QED
    BY <1>2, <1>3

LEMMA CommitLoginStep == ASSUME IInv, NEW r \in Requests, CommitLogin(r)
                         PROVE  IInv'
  <1> DEFINE e == req[r].email
             row == Written(users[e], req[r].seen, req[r].next)
             entry == [email |-> e, until |-> req[r].next.until]
  <1>1. /\ req[r].pc = "commitLogin" /\ Good(r) /\ req[r] \in Request
        /\ e \in Emails /\ Exists(e)
        /\ users \in [Emails -> User] /\ tokens \in [Tokens -> Token]
        /\ audits \subseteq [email : Emails, until : Nat] /\ clock \in Nat
    BY DEF IInv, Tables, CommitLogin, Good, Valid, Free, OfLogin
  <1>2. /\ users' = [users EXCEPT ![e] = row]
        /\ audits' = IF req[r].next.until = None THEN audits
                     ELSE audits \cup {entry}
        /\ Answer(r, req[r].answer) /\ UNCHANGED <<tokens, clock>>
    BY DEF CommitLogin
  <1>3. /\ req[r].seen \in User /\ req[r].next \in User /\ users[e] \in User
        /\ req[r].answer \in Codes
    BY <1>1 DEF Request, Codes
  <1>4. /\ row \in User /\ row.hash = users[e].hash
        /\ row.until = users[e].until \/ row.until = req[r].next.until
    BY <1>3 DEF Written, User
  <1>5. /\ req[r].next.until \in Nat \cup {None}
        /\ req[r].next.until # None => req[r].next.until \in Nat
    BY <1>3 DEF User, Times
  <1> HIDE DEF row
  <1>6. /\ users'[e] = row /\ \A f \in Emails \ {e} : users'[f] = users[f]
        /\ users' \in [Emails -> User]
    BY <1>1, <1>2, <1>4
  <1>7. /\ audits' \subseteq [email : Emails, until : Nat]
        /\ audits \subseteq audits'
        /\ req[r].next.until # None => entry \in audits'
    BY <1>1, <1>2, <1>5
  <1>8. Kept
    BY <1>1, <1>2, <1>4, <1>6 DEF Kept, Exists
  <1>9. Tables' /\ Rows'
    BY <1>1, <1>2, <1>4, <1>6, <1>7 DEF IInv, Tables, Rows, Exists
  <1>10. LockIsAudited'
    <2> SUFFICES ASSUME NEW f \in Emails, users'[f].until # None
                 PROVE  [email |-> f, until |-> users'[f].until] \in audits'
      BY DEF LockIsAudited
    <2>1. CASE users'[f].until = users[f].until
      BY <1>7, <2>1 DEF IInv, LockIsAudited
    <2>2. CASE f = e /\ users'[f].until = req[r].next.until
      BY <1>7, <2>2
    <2> QED
      BY <1>4, <1>6, <2>1, <2>2
  <1>11. req[r].answer # 201
    BY <1>1 DEF Good, OfLogin
  <1>12. /\ req' \in [Requests -> Request]
         /\ \A q \in Requests \ {r} : req'[q] = req[q]
         /\ ~(req'[r].pc = "done" /\ req'[r].answer = 201)
         /\ Good(r)'
    <2>1. req[r].others = {}
      BY <1>1 DEF Good, OfOthers
    <2> QED
      BY <1>1, <1>2, <1>3, <1>11, <2>1, Answered
  <1> QED
    BY <1>8, <1>9, <1>10, <1>12, Moves

LEMMA StoreStep == ASSUME IInv, NEW r \in Requests, NEW t \in Tokens, Store(r, t)
                   PROVE  IInv'
  <1> DEFINE token == [state |-> "live", born |-> clock, email |-> req[r].email]
  <1>1. /\ req[r].pc = "store" /\ tokens[t].state = "unused"
        /\ tokens' = [tokens EXCEPT ![t] = token]
        /\ Answer(r, 200) /\ UNCHANGED <<users, audits, clock>>
    BY DEF Store
  <1>2. /\ req[r].email \in Emails /\ req[r].others = {}
        /\ tokens \in [Tokens -> Token] /\ clock \in Nat
    BY <1>1 DEF IInv, Tables, Good, Valid, Free, OfOthers
  <1>3. token \in Token
    BY <1>2 DEF Token
  <1>4. /\ tokens' \in [Tokens -> Token] /\ tokens'[t] = token
        /\ \A u \in Tokens \ {t} : tokens'[u] = tokens[u]
    BY <1>1, <1>2, <1>3
  <1>5. Kept
    BY <1>1, <1>2, <1>4 DEF Kept, Exists
  <1>6. Tables' /\ Rows' /\ LockIsAudited'
    BY <1>1, <1>2, <1>4 DEF IInv, Tables, Rows, LockIsAudited, Exists
  <1>7. /\ req' \in [Requests -> Request]
        /\ \A q \in Requests \ {r} : req'[q] = req[q]
        /\ ~(req'[r].pc = "done" /\ req'[r].answer = 201)
        /\ Good(r)'
    BY <1>1, <1>2, CodeType, Answered
  <1> QED
    BY <1>5, <1>6, <1>7, Moves

LEMMA PopStep == ASSUME IInv, NEW r \in Requests, Pop(r) PROVE IInv'
  <1> DEFINE t == req[r].token
             token == [tokens[t] EXCEPT !.state = "gone"]
  <1>1. /\ req[r].pc = "pop" /\ Good(r) /\ req[r] \in Request
        /\ req \in [Requests -> Request] /\ t \in Tokens
        /\ tokens \in [Tokens -> Token] /\ tokens[t] \in Token /\ clock \in Nat
    BY DEF IInv, Tables, Pop, Good, Valid
  <1>2. /\ tokens' = [tokens EXCEPT ![t] = token]
        /\ UNCHANGED <<users, audits, clock>>
    BY DEF Pop
  <1>3. token \in Token /\ token.email = tokens[t].email /\ token.state = "gone"
    BY <1>1 DEF Token
  <1> HIDE DEF token
  <1>4. /\ tokens' \in [Tokens -> Token] /\ tokens'[t] = token
        /\ \A u \in Tokens \ {t} : tokens'[u] = tokens[u]
    BY <1>1, <1>2, <1>3
  <1>5. tokens[t].state # "unused" /\ tokens[t].email = req[r].email
        /\ req[r].email \in Emails /\ req[r].others = {}
    BY <1>1 DEF Good, OfConfirm, OfOthers, Valid, Free
  <1>6. Kept
    BY <1>1, <1>2, <1>3, <1>4 DEF Kept, Exists
  <1>7. Tables' /\ Rows' /\ LockIsAudited'
    BY <1>1, <1>2, <1>3, <1>4, <1>5
       DEF IInv, Tables, Rows, LockIsAudited, Exists
  <1>8. CASE tokens[t].born < clock - TTL
    <2>1. Answer(r, 400)
      BY <1>8 DEF Pop
    <2>2. /\ req' \in [Requests -> Request]
          /\ \A q \in Requests \ {r} : req'[q] = req[q]
          /\ ~(req'[r].pc = "done" /\ req'[r].answer = 201)
          /\ Good(r)'
      BY <1>1, <1>5, <2>1, CodeType, Answered
    <2> QED
      BY <1>6, <1>7, <2>2, Moves
  <1>9. CASE ~(tokens[t].born < clock - TTL)
    <2> DEFINE others == LiveOf(req[r].email)
               v == [req[r] EXCEPT !.pc = "set", !.others = others]
    <2>1. others \in SUBSET Tokens
          /\ \A u \in others : tokens[u].state = "live"
                               /\ tokens[u].email = req[r].email
      BY DEF LiveOf
    <2>2. req' = [req EXCEPT ![r] = v]
      <3>1. req' = [req EXCEPT ![r].pc = "set", ![r].others = others]
        BY <1>9 DEF Pop
      <3> HIDE DEF others
      <3> QED
        BY <1>1, <3>1
    <2> HIDE DEF others
    <2>3. v \in Request
      BY <1>1, <2>1, PoppedType DEF Places
    <2>4. /\ v.pc = "set" /\ v.email = req[r].email /\ v.token = t
          /\ v.password = req[r].password /\ v.others = others
      BY <1>1 DEF Request
    <2> HIDE DEF v
    <2>5. /\ req' \in [Requests -> Request] /\ req'[r] = v
          /\ \A q \in Requests \ {r} : req'[q] = req[q]
      BY <1>1, <2>2, <2>3
    <2>6. \A u \in others : /\ tokens'[u].state # "unused"
                            /\ tokens'[u].email = req[r].email
      BY <1>3, <1>4, <1>5, <2>1
    <2>7. Good(r)'
      BY <1>1, <1>3, <1>4, <1>5, <2>4, <2>5, <2>6 DEF Good, Valid, Free,
         OfLogin, OfConfirm, OfOthers, OfRegistration
    <2> QED
      BY <1>6, <1>7, <2>4, <2>5, <2>7, Moves
  <1> QED
    BY <1>8, <1>9

LEMMA SetPasswordStep == ASSUME IInv, NEW r \in Requests, SetPassword(r)
                         PROVE  IInv'
  <1> DEFINE e == req[r].email
             row == [users[e] EXCEPT !.hash = req[r].password]
             v == [req[r] EXCEPT !.pc = "clear"]
  <1>1. /\ req[r].pc = "set" /\ Good(r) /\ req[r] \in Request
        /\ req \in [Requests -> Request] /\ e \in Emails
        /\ req[r].password \in Passwords /\ req[r].password # None
        /\ users \in [Emails -> User] /\ users[e] \in User
        /\ req[r].token \in Tokens
        /\ tokens[req[r].token].email = e
        /\ tokens[req[r].token].state = "gone"
    BY NoneAssumption
       DEF IInv, Tables, SetPassword, Good, Valid, Free, OfConfirm
  <1>2. /\ users' = [users EXCEPT ![e] = row] /\ req' = [req EXCEPT ![r] = v]
        /\ UNCHANGED <<tokens, audits, clock>>
    BY DEF SetPassword
  <1>3. /\ row \in User /\ row.hash = req[r].password
        /\ row.until = users[e].until
    BY <1>1 DEF User, Hash
  <1> HIDE DEF row
  <1>4. /\ users'[e] = row /\ \A f \in Emails \ {e} : users'[f] = users[f]
        /\ users' \in [Emails -> User]
    BY <1>1, <1>2, <1>3
  <1>5. /\ v \in Request /\ v.pc = "clear" /\ v.email = e
        /\ v.token = req[r].token /\ v.password = req[r].password
        /\ v.others = req[r].others
    <2>1. v \in Request
      <3>1. {} \in SUBSET Tokens
        OBVIOUS
      <3> QED
        BY <1>1, <3>1, PoppedType DEF Places
    <2>2. req[r] = [pc |-> req[r].pc, answer |-> req[r].answer, email |-> req[r].email,
                    password |-> req[r].password, token |-> req[r].token,
                    seen |-> req[r].seen, next |-> req[r].next, others |-> req[r].others]
      BY <1>1 DEF Request
    <2> QED
      BY <2>1, <2>2
  <1> HIDE DEF v
  <1>6. /\ req' \in [Requests -> Request] /\ req'[r] = v
        /\ \A q \in Requests \ {r} : req'[q] = req[q]
    BY <1>1, <1>2, <1>5
  <1>7. Kept
    BY <1>1, <1>2, <1>3, <1>4 DEF IInv, Tables, Kept, Exists
  <1>8. Tables' /\ Rows' /\ LockIsAudited'
    BY <1>1, <1>2, <1>3, <1>4 DEF IInv, Tables, Rows, LockIsAudited, Exists
  <1>9. Good(r)'
    BY <1>1, <1>2, <1>5, <1>6 DEF Good, Valid, Free, OfLogin, OfConfirm,
       OfOthers, OfRegistration
  <1> QED
    BY <1>5, <1>6, <1>7, <1>8, <1>9, Moves

LEMMA ClearStep == ASSUME IInv, NEW r \in Requests, Clear(r) PROVE IInv'
  <1> DEFINE e == req[r].email
  <1>1. /\ req[r].pc = "clear" /\ Good(r) /\ req[r] \in Request
        /\ tokens \in [Tokens -> Token] /\ clock \in Nat
    BY DEF IInv, Tables, Clear
  <1>2. /\ tokens' = [t \in Tokens |->
                         IF t \in LiveOf(e)
                         THEN [tokens[t] EXCEPT !.state = "gone"]
                         ELSE tokens[t]]
        /\ Answer(r, 200) /\ UNCHANGED <<users, audits, clock>>
    BY DEF Clear
  <1>3. ASSUME NEW t \in Tokens
        PROVE  /\ tokens'[t] \in Token /\ tokens'[t].email = tokens[t].email
               /\ tokens'[t].state = IF t \in LiveOf(e) THEN "gone"
                                     ELSE tokens[t].state
    <2>1. tokens[t] \in Token
      BY <1>1
    <2> QED
      BY <1>2, <2>1 DEF Token
  <1>4. tokens' \in [Tokens -> Token]
    BY <1>2, <1>3
  <1>5. Kept
    BY <1>1, <1>2, <1>3 DEF Kept, Exists, LiveOf
  <1>6. Tables' /\ Rows' /\ LockIsAudited'
    BY <1>1, <1>2, <1>3, <1>4
       DEF IInv, Tables, Rows, LockIsAudited, Exists, LiveOf
  <1>7. \A t \in req[r].others : /\ tokens'[t].state = "gone"
                                 /\ tokens'[t].email = e
    <2>1. \A t \in req[r].others : /\ t \in Tokens /\ tokens[t].email = e
                                   /\ tokens[t].state \in {"live", "gone"}
      BY <1>1 DEF Good, OfOthers, Request, Token
    <2> QED
      BY <1>3, <2>1 DEF LiveOf
  <1>8. /\ req' \in [Requests -> Request]
        /\ \A q \in Requests \ {r} : req'[q] = req[q]
        /\ ~(req'[r].pc = "done" /\ req'[r].answer = 201)
        /\ Good(r)'
    BY <1>1, <1>2, <1>7, CodeType, Answered
  <1> QED
    BY <1>5, <1>6, <1>8, Moves

-----------------------------------------------------------------------------
LEMMA InitInv == Init => IInv
  <1> SUFFICES ASSUME Init PROVE IInv
    OBVIOUS
  <1> DEFINE v == At("idle", None, None, None, NoUser)
             t0 == [state |-> "unused", email |-> None, born |-> 0]
  <1>1. v \in Request
    <2>1. None \in Hash
      BY DEF Hash
    <2> QED
      BY <2>1, NoUserType, CodeType, RequestType DEF At, Places
  <1>2. v.pc = "idle" /\ v.others = {}
    BY DEF At
  <1> HIDE DEF v
  <1>3. req = [r \in Requests |-> v]
    BY DEF Init, v
  <1>4. /\ req \in [Requests -> Request]
        /\ \A r \in Requests : req[r] = v
    BY <1>1, <1>3
  <1>5. \A r \in Requests : Good(r)
    BY <1>2, <1>4 DEF Good, Valid, Free, OfLogin, OfConfirm, OfOthers,
       OfRegistration
  <1>6. t0 \in Token
    BY DEF Token
  <1>7. Tables /\ Rows /\ LockIsAudited
    BY <1>6, NoUserType DEF Init, Tables, Rows, LockIsAudited, NoUser
  <1>8. RegisteredOnce
    BY <1>2, <1>4 DEF RegisteredOnce
  <1> QED
    BY <1>4, <1>5, <1>7, <1>8 DEF IInv

LEMMA StepInv == IInv /\ [Next]_vars => IInv'
  <1> SUFFICES ASSUME IInv, [Next]_vars PROVE IInv'
    OBVIOUS
  <1>1. CASE Tick
    BY <1>1, TickStep
  <1>2. ASSUME NEW r \in Requests, NEW email \in Emails,
               NEW password \in Passwords,
               Register(r, email, password) \/ Login(r, email, password)
        PROVE  IInv'
    BY <1>2, RegisterStep, LoginStep
  <1>3. ASSUME NEW r \in Requests, Insert(r) \/ CheckLogin(r) \/ CommitLogin(r)
        PROVE  IInv'
    BY <1>3, InsertStep, CheckLoginStep, CommitLoginStep
  <1>4. ASSUME NEW r \in Requests, NEW email \in Emails, AskReset(r, email)
        PROVE  IInv'
    BY <1>4, AskResetStep
  <1>5. ASSUME NEW r \in Requests, NEW t \in Tokens, Store(r, t)
        PROVE  IInv'
    BY <1>5, StoreStep
  <1>6. ASSUME NEW r \in Requests, NEW t \in Tokens, NEW password \in Passwords,
               Confirm(r, t, password)
        PROVE  IInv'
    BY <1>6, ConfirmStep
  <1>7. ASSUME NEW r \in Requests,
               Pop(r) \/ SetPassword(r) \/ Clear(r) \/ Fail(r)
        PROVE  IInv'
    BY <1>7, PopStep, SetPasswordStep, ClearStep, FailStep
  <1>8. CASE UNCHANGED vars
    <2>1. UNCHANGED <<users, tokens, audits, clock, req>>
      BY <1>8 DEF vars
    <2> QED
      BY <2>1 DEF IInv, Tables, Rows, Good, Valid, Free, OfLogin, OfConfirm,
         OfOthers, OfRegistration, LockIsAudited, RegisteredOnce, Exists
  <1> QED
    BY <1>1, <1>2, <1>3, <1>4, <1>5, <1>6, <1>7, <1>8 DEF Next

(* Every variable has its type, for any addresses, requests and tokens. *)
THEOREM TypeCorrect == Spec => []TypeOK
  BY InitInv, StepInv, Implied, PTL DEF Spec

(* No lock is in the table without its audit entry: the two are written by one
   commit, and a stale write of one column does not tear them apart. *)
THEOREM LockCorrect == Spec => []LockIsAudited
  BY InitInv, StepInv, Implied, PTL DEF Spec

(* After a confirmed reset the tokens issued before are gone. *)
THEOREM ResetCorrect == Spec => []ResetRetiresTokens
  BY InitInv, StepInv, Implied, PTL DEF Spec

(* One of several registrations of an address succeeds. *)
THEOREM RegistrationCorrect == Spec => []RegisteredOnce
  BY InitInv, StepInv, Implied, PTL DEF Spec

-----------------------------------------------------------------------------
(* The action properties: which action can write a column. *)

LEMMA WhoWrites ==
  ASSUME IInv, Next, NEW e \in Emails, users'[e] # users[e]
  PROVE  \E r \in Requests :
            \/ Insert(r) /\ ~Exists(e)
            \/ CommitLogin(r) /\ req[r].email = e
            \/ SetPassword(r) /\ req[r].email = e
  <1>1. users \in [Emails -> User]
    BY DEF IInv, Tables
  <1>2. users' # users
    OBVIOUS
  <1>3. PICK r \in Requests : Insert(r) \/ CommitLogin(r) \/ SetPassword(r)
    <2>1. ~Tick
      BY <1>2 DEF Tick
    <2>2. ASSUME NEW r \in Requests
          PROVE  /\ \A email \in Emails, password \in Passwords :
                       ~Register(r, email, password) /\ ~Login(r, email, password)
                 /\ \A email \in Emails : ~AskReset(r, email)
                 /\ \A t \in Tokens : ~Store(r, t)
                 /\ \A t \in Tokens, password \in Passwords : ~Confirm(r, t, password)
      BY <1>2, Zenon DEF Register, Login, AskReset, Store, Confirm
    <2>3. ASSUME NEW r \in Requests
          PROVE  ~CheckLogin(r) /\ ~Pop(r) /\ ~Clear(r) /\ ~Fail(r)
      BY <1>2, Zenon DEF CheckLogin, Pop, Clear, Fail
    <2> QED
      BY <2>1, <2>2, <2>3, Zenon DEF Next
  <1>4. CASE Insert(r)
    BY <1>1, <1>2, <1>4 DEF Insert
  <1>5. CASE CommitLogin(r)
    BY <1>1, <1>5 DEF CommitLogin
  <1>6. CASE SetPassword(r)
    BY <1>1, <1>6 DEF SetPassword
  <1> QED
    BY <1>3, <1>4, <1>5, <1>6

KeepsLock ==
    \A e \in Emails :
        users[e].until # None /\ users'[e].until = None
        => \E r \in Requests :
              /\ req[r].pc = "commitLogin" /\ req'[r].pc = "done"
              /\ req[r].email = e
              /\ req[r].seen.until # None
              /\ req[r].seen.until <= clock

SpendsToken ==
    \A e \in Emails :
        Exists(e) /\ users'[e].hash # users[e].hash
        => \E r \in Requests :
              /\ req[r].pc = "set"
              /\ req[r].token \in Tokens
              /\ tokens[req[r].token].email = e
              /\ tokens[req[r].token].state = "gone"

LEMMA KeepsLockStep == IInv /\ [Next]_vars => [KeepsLock]_vars
  <1> SUFFICES ASSUME IInv, Next, NEW e \in Emails,
                      users[e].until # None, users'[e].until = None
               PROVE  \E r \in Requests :
                         /\ req[r].pc = "commitLogin" /\ req'[r].pc = "done"
                         /\ req[r].email = e
                         /\ req[r].seen.until # None
                         /\ req[r].seen.until <= clock
    BY DEF KeepsLock
  <1>1. /\ users \in [Emails -> User] /\ users[e] \in User /\ Exists(e)
    BY DEF IInv, Tables, Rows
  <1>2. PICK r \in Requests : \/ CommitLogin(r) /\ req[r].email = e
                              \/ SetPassword(r) /\ req[r].email = e
    BY <1>1, WhoWrites
  <1>3. CASE SetPassword(r)
    <2>1. users' = [users EXCEPT ![e] = [users[e] EXCEPT !.hash =
                                            req[r].password]]
      BY <1>2, <1>3 DEF SetPassword, CommitLogin
    <2>2. users'[e].until = users[e].until
      BY <1>1, <2>1 DEF User
    <2> QED
      BY <2>2
  <1>4. CASE CommitLogin(r) /\ req[r].email = e
    <2>1. /\ req[r].pc = "commitLogin" /\ Answer(r, req[r].answer)
          /\ users'[e] = Written(users[e], req[r].seen, req[r].next)
      BY <1>1, <1>4 DEF CommitLogin
    <2>2. users'[e].until = IF req[r].next.until # req[r].seen.until
                            THEN req[r].next.until ELSE users[e].until
      BY <1>1, <2>1 DEF Written, User
    <2>3. req[r].seen.until # None
      BY <2>2
    <2>4. req[r].seen.until <= clock
      BY <2>1, <2>3 DEF IInv, Good, OfLogin
    <2>5. req'[r].pc = "done"
      BY <2>1 DEF IInv, Answer, Over
    <2> QED
      BY <1>4, <2>1, <2>3, <2>4, <2>5
  <1> QED
    BY <1>2, <1>3, <1>4

LEMMA SpendsTokenStep == IInv /\ [Next]_vars => [SpendsToken]_vars
  <1> SUFFICES ASSUME IInv, Next, NEW e \in Emails,
                      Exists(e), users'[e].hash # users[e].hash
               PROVE  \E r \in Requests :
                         /\ req[r].pc = "set"
                         /\ req[r].token \in Tokens
                         /\ tokens[req[r].token].email = e
                         /\ tokens[req[r].token].state = "gone"
    BY DEF SpendsToken
  <1>1. users \in [Emails -> User] /\ users[e] \in User
    BY DEF IInv, Tables
  <1>2. PICK r \in Requests : \/ CommitLogin(r) /\ req[r].email = e
                              \/ SetPassword(r) /\ req[r].email = e
    BY <1>1, WhoWrites
  <1>3. CASE CommitLogin(r) /\ req[r].email = e
    <2>1. users'[e] = Written(users[e], req[r].seen, req[r].next)
      BY <1>1, <1>3 DEF CommitLogin
    <2> QED
      BY <1>1, <2>1 DEF Written, User
  <1>4. CASE SetPassword(r) /\ req[r].email = e
    BY <1>4 DEF SetPassword, IInv, Good, Valid, OfConfirm
  <1> QED
    BY <1>2, <1>3, <1>4

(* Only a login that loaded an expired lock lifts a lock. *)
THEOREM StaleLoginCorrect == Spec => StaleLoginKeepsLock
  <1>1. [KeepsLock]_vars => [\A e \in Emails :
          users[e].until # None /\ users'[e].until = None
          => \E r \in Requests :
                /\ req[r].pc = "commitLogin" /\ req'[r].pc = "done"
                /\ req[r].email = e
                /\ req[r].seen.until # None
                /\ req[r].seen.until <= clock]_vars
    BY DEF KeepsLock
  <1> QED
    BY <1>1, InitInv, StepInv, KeepsLockStep, PTL DEF Spec, StaleLoginKeepsLock

(* A password changes only with a token that is spent. *)
THEOREM PasswordCorrect == Spec => PasswordChangeSpendsToken
  <1>1. [SpendsToken]_vars => [\A e \in Emails :
          Exists(e) /\ users'[e].hash # users[e].hash
          => \E r \in Requests :
                /\ req[r].pc = "set"
                /\ req[r].token \in Tokens
                /\ tokens[req[r].token].email = e
                /\ tokens[req[r].token].state = "gone"]_vars
    BY DEF SpendsToken
  <1> QED
    BY <1>1, InitInv, StepInv, SpendsTokenStep, PTL
       DEF Spec, PasswordChangeSpendsToken
=============================================================================
