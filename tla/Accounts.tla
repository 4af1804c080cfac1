------------------------------ MODULE Accounts ------------------------------
(***************************************************************************)
(* Registration, login with its lock, and password reset: user_routes.py   *)
(* and repo_users.py.                                                      *)
(*                                                                         *)
(* A handler is a coroutine with a session of its own, and several workers *)
(* serve requests.  Each SELECT is an action, the Python code behind it is *)
(* one, and each commit is one; other requests run in between.             *)
(***************************************************************************)
EXTENDS Integers

CONSTANTS Emails, Passwords,
          Requests,      \* requests that may be in flight at a time
          Tokens,        \* bound: reset tokens that are ever issued
          None,          \* SQL NULL
          MaxAttempts,   \* settings.max_login_attempts
          Lockout,       \* settings.lockout_duration_minutes
          TTL,           \* ttl_minutes of a reset token
          MaxClock       \* bound: the last minute that is explored

ASSUME NoneAssumption == None \notin Nat \cup Emails \cup Passwords \cup Tokens
ASSUME SettingsAssumption == /\ MaxAttempts \in Nat \ {0}
                             /\ Lockout \in Nat \ {0}
                             /\ TTL \in Nat \ {0}
                             /\ MaxClock \in Nat

VARIABLES users,    \* table users; a hash of None is no row
          tokens,   \* table reset_tokens, with what became of each token
          audits,   \* "account_locked" entries of audit_logs
          clock,    \* minutes, datetime.now
          req       \* the requests, with what they hold between two awaits

vars == <<users, tokens, audits, clock, req>>

Hash == Passwords \cup {None}  \* bcrypt: a hash matches its password only
Times == Nat \cup {None}

User == [hash : Hash, attempts : Nat, until : Times]

NoUser == [hash |-> None, attempts |-> 0, until |-> None]

Token == [state : {"unused", "live", "gone"}, email : Emails \cup {None},
          born : Nat]

(* "seen" is the ORM object as it was loaded and "next" as the handler left
   it; "others" are the live tokens of the address when a confirmation took
   its own. *)
Request == [pc : {"idle", "checkLogin", "commitLogin", "insert", "store", "pop",
                  "set", "clear", "done"},
            answer : {None, 200, 201, 400, 401, 409, 429, 500},
            email : Emails \cup {None}, password : Hash,
            token : Tokens \cup {None}, seen : User, next : User,
            others : SUBSET Tokens]

Exists(email) == users[email].hash # None

LiveOf(email) ==
    { t \in Tokens : tokens[t].state = "live" /\ tokens[t].email = email }

-----------------------------------------------------------------------------
(* A request that has reached "pc", and one that was answered: only what the
   caller sent and what the properties look at outlives the handler. *)
At(pc, email, password, token, seen) ==
    [pc |-> pc, answer |-> None, email |-> email, password |-> password,
     token |-> token, seen |-> seen, next |-> NoUser, others |-> {}]

Over(code, email, password, others) ==
    [pc |-> "done", answer |-> code, email |-> email, password |-> password,
     token |-> None, seen |-> NoUser, next |-> NoUser, others |-> others]

Init == /\ users = [e \in Emails |-> NoUser]
        /\ tokens = [t \in Tokens |->
                        [state |-> "unused", email |-> None, born |-> 0]]
        /\ audits = {}
        /\ clock = 0
        /\ req = [r \in Requests |-> At("idle", None, None, None, NoUser)]

Free(r) == req[r].pc \in {"idle", "done"}

Answer(r, code) ==
    req' = [req EXCEPT ![r] =
               Over(code, req[r].email,
                    IF code = 201 THEN req[r].password ELSE None,
                    IF code = 200 THEN req[r].others ELSE {})]

(* A request for an account arrives and its first SELECT is made. *)
Begin(r, pc, email, password) ==
    req' = [req EXCEPT ![r] = At(pc, email, password, None, users[email])]

Refuse(r, code, email) ==
    req' = [req EXCEPT ![r] = Over(code, email, None, {})]

-----------------------------------------------------------------------------
(* POST /auth/register *)

Register(r, email, password) ==
    /\ Free(r)
    /\ IF Exists(email) THEN Refuse(r, 409, email)
                        ELSE Begin(r, "insert", email, password)
    /\ UNCHANGED <<users, tokens, audits, clock>>

(* Mutant: without the unique constraint the row is there once more, and is
   the one a lookup finds. *)
InsertAgain(r) ==
    /\ req[r].pc = "insert"
    /\ users' = [users EXCEPT ![req[r].email] =
                    [NoUser EXCEPT !.hash = req[r].password]]
    /\ Answer(r, 201)
    /\ UNCHANGED <<tokens, audits, clock>>

(* The address is unique: the second INSERT raises. *)
Insert(r) ==
    /\ req[r].pc = "insert"
    /\ IF Exists(req[r].email)
       THEN Answer(r, 500) /\ UNCHANGED users
       ELSE /\ users' = [users EXCEPT ![req[r].email] =
                            [NoUser EXCEPT !.hash = req[r].password]]
            /\ Answer(r, 201)
    /\ UNCHANGED <<tokens, audits, clock>>

-----------------------------------------------------------------------------
(* POST /auth/login *)

Login(r, email, password) ==
    /\ Free(r)
    /\ IF Exists(email) THEN Begin(r, "checkLogin", email, password)
                        ELSE Refuse(r, 401, email)
    /\ UNCHANGED <<users, tokens, audits, clock>>

(* The account after _check_lockout has let the request pass. *)
Unlocked(user) ==
    IF user.until = None THEN user
    ELSE [user EXCEPT !.attempts = 0, !.until = None]

Failed(user, now) ==
    LET n == user.attempts + 1 IN
    [user EXCEPT !.attempts = n,
                 !.until = IF n >= MaxAttempts THEN now + Lockout ELSE @]

Passed(user) == [user EXCEPT !.attempts = 0, !.until = None]

CheckLogin(r) ==
    /\ req[r].pc = "checkLogin"
    /\ LET user == req[r].seen
           ok == req[r].password = user.hash
       IN IF user.until # None /\ user.until > clock
          THEN Answer(r, 429)
          ELSE req' = [req EXCEPT
                  ![r].pc = "commitLogin",
                  ![r].answer = IF ok THEN 200 ELSE 401,
                  ![r].next = IF ok THEN Passed(user)
                                    ELSE Failed(Unlocked(user), clock)]
    /\ UNCHANGED <<users, tokens, audits, clock>>

(* Mutant: the UPDATE names every column. *)
WrittenWhole(row, seen, next) ==
    [row EXCEPT !.attempts = next.attempts, !.until = next.until]

(* The unit of work writes the columns that differ from what was loaded. *)
Written(row, seen, next) ==
    [row EXCEPT !.attempts = IF next.attempts # seen.attempts
                             THEN next.attempts ELSE @,
                !.until = IF next.until # seen.until THEN next.until ELSE @]

(* Mutant: the account is committed first and its audit entry afterwards,
   which may fail. *)
CommitLoginFirst(r) ==
    LET q == req[r] IN
    /\ q.pc = "commitLogin"
    /\ users' = [users EXCEPT ![q.email] = Written(@, q.seen, q.next)]
    /\ \/ UNCHANGED audits
       \/ /\ q.next.until # None
          /\ audits' = audits \cup {[email |-> q.email, until |-> q.next.until]}
    /\ Answer(r, q.answer)
    /\ UNCHANGED <<tokens, clock>>

(* create_audit_entry commits the session, the account included. *)
CommitLogin(r) ==
    LET q == req[r] IN
    /\ q.pc = "commitLogin"
    /\ users' = [users EXCEPT ![q.email] = Written(@, q.seen, q.next)]
    /\ audits' = IF q.next.until = None THEN audits
                 ELSE audits \cup {[email |-> q.email, until |-> q.next.until]}
    /\ Answer(r, q.answer)
    /\ UNCHANGED <<tokens, clock>>

-----------------------------------------------------------------------------
(* POST /auth/reset-password *)

AskReset(r, email) ==
    /\ Free(r)
    /\ IF Exists(email) THEN Begin(r, "store", email, None)
                        ELSE Refuse(r, 200, email)
    /\ UNCHANGED <<users, tokens, audits, clock>>

Store(r, t) ==
    /\ req[r].pc = "store"
    /\ tokens[t].state = "unused"
    /\ tokens' = [tokens EXCEPT ![t] = [state |-> "live", born |-> clock,
                                        email |-> req[r].email]]
    /\ Answer(r, 200)
    /\ UNCHANGED <<users, audits, clock>>

-----------------------------------------------------------------------------
(* POST /auth/confirm-reset *)

(* Mutant: a token that is not in the table is accepted too. *)
ConfirmAny(r, t, password) ==
    /\ Free(r)
    /\ req' = [req EXCEPT ![r] =
                  At("pop", tokens[t].email, password, t, NoUser)]
    /\ UNCHANGED <<users, tokens, audits, clock>>

Confirm(r, t, password) ==
    /\ Free(r)
    /\ IF tokens[t].state = "live"
       THEN req' = [req EXCEPT ![r] =
                       At("pop", tokens[t].email, password, t, NoUser)]
       ELSE Refuse(r, 400, None)
    /\ UNCHANGED <<users, tokens, audits, clock>>

(* Mutant: the token is only read, and left to delete_by_email. *)
PopKeeps(r) ==
    LET q == req[r] IN
    /\ q.pc = "pop"
    /\ req' = [req EXCEPT ![r].pc = "set", ![r].others = LiveOf(q.email)]
    /\ UNCHANGED <<users, tokens, audits, clock>>

(* The DELETE does not ask whether the token is still there. *)
Pop(r) ==
    LET q == req[r] IN
    /\ q.pc = "pop"
    /\ tokens' = [tokens EXCEPT ![q.token].state = "gone"]
    /\ IF tokens[q.token].born < clock - TTL
       THEN Answer(r, 400)
       ELSE req' = [req EXCEPT ![r].pc = "set",
                               ![r].others = LiveOf(q.email)]
    /\ UNCHANGED <<users, audits, clock>>

SetPassword(r) ==
    LET q == req[r] IN
    /\ q.pc = "set"
    /\ users' = [users EXCEPT ![q.email].hash = q.password]
    /\ req' = [req EXCEPT ![r].pc = "clear"]
    /\ UNCHANGED <<tokens, audits, clock>>

(* Mutant: only the token of the request is deleted. *)
ClearOwn(r) ==
    /\ req[r].pc = "clear"
    /\ tokens' = [tokens EXCEPT ![req[r].token].state = "gone"]
    /\ Answer(r, 200)
    /\ UNCHANGED <<users, audits, clock>>

(* delete_by_email *)
Clear(r) ==
    /\ req[r].pc = "clear"
    /\ tokens' = [t \in Tokens |->
                     IF t \in LiveOf(req[r].email)
                     THEN [tokens[t] EXCEPT !.state = "gone"]
                     ELSE tokens[t]]
    /\ Answer(r, 200)
    /\ UNCHANGED <<users, audits, clock>>

-----------------------------------------------------------------------------
(* The database fails, or the worker dies: what was committed stays. *)
Fail(r) ==
    /\ ~Free(r)
    /\ Answer(r, 500)
    /\ UNCHANGED <<users, tokens, audits, clock>>

Tick == /\ clock < MaxClock
        /\ clock' = clock + 1
        /\ UNCHANGED <<users, tokens, audits, req>>

Next == \/ Tick
        \/ \E r \in Requests :
              \/ \E email \in Emails, password \in Passwords :
                    \/ Register(r, email, password)
                    \/ Login(r, email, password)
              \/ Insert(r) \/ CheckLogin(r) \/ CommitLogin(r)
              \/ \E email \in Emails : AskReset(r, email)
              \/ \E t \in Tokens : Store(r, t)
              \/ \E t \in Tokens, password \in Passwords :
                    Confirm(r, t, password)
              \/ Pop(r) \/ SetPassword(r) \/ Clear(r)
              \/ Fail(r)

Spec == Init /\ [][Next]_vars

-----------------------------------------------------------------------------
(* Every variable has its type, and a request that works on an account or a
   token has one. *)
TypeOK ==
    /\ users \in [Emails -> User]
    /\ tokens \in [Tokens -> Token]
    /\ audits \subseteq [email : Emails, until : Nat]
    /\ clock \in Nat
    /\ req \in [Requests -> Request]
    /\ \A r \in Requests :
          /\ ~Free(r) => req[r].email \in Emails
          /\ req[r].pc \in {"pop", "set", "clear"} => req[r].token \in Tokens
          /\ req[r].pc \in {"insert", "checkLogin", "commitLogin", "pop", "set",
                            "clear"} => req[r].password \in Passwords

(* Every lock of an account, whichever of several failing logins set it last,
   has its "account_locked" entry in the audit log. *)
LockIsAudited ==
    \A e \in Emails :
        users[e].until # None
        => [email |-> e, until |-> users[e].until] \in audits

(* A lock is lifted only by a login that loaded the account with a lock that
   had run out: a login that loaded it before it was locked, right password
   or not, leaves it locked although it writes the row afterwards. *)
StaleLoginKeepsLock ==
    [][\A e \in Emails :
          users[e].until # None /\ users'[e].until = None
          => \E r \in Requests :
                /\ req[r].pc = "commitLogin" /\ req'[r].pc = "done"
                /\ req[r].email = e
                /\ req[r].seen.until # None
                /\ req[r].seen.until <= clock]_vars

(* The password of an account changes only with a token of that account that
   nobody can present any more, whatever fails after the change. *)
PasswordChangeSpendsToken ==
    [][\A e \in Emails :
          Exists(e) /\ users'[e].hash # users[e].hash
          => \E r \in Requests :
                /\ req[r].pc = "set"
                /\ req[r].token \in Tokens
                /\ tokens[req[r].token].email = e
                /\ tokens[req[r].token].state = "gone"]_vars

(* When POST /auth/confirm-reset has answered 200, the tokens that were issued
   for the address before are all gone, although others ask for new ones or
   present the old ones at the same time. *)
ResetRetiresTokens ==
    \A r \in Requests :
        req[r].pc = "done" /\ req[r].answer = 200
        => \A t \in req[r].others : tokens[t].state = "gone"

(* Of several registrations of an address that all found it free, one is
   answered 201, and its password is that of the account until a token is
   spent on it. *)
RegisteredOnce ==
    \A r \in Requests :
        req[r].pc = "done" /\ req[r].answer = 201
        => /\ \/ users[req[r].email].hash = req[r].password
              \/ \E t \in Tokens : /\ tokens[t].email = req[r].email
                                   /\ tokens[t].state = "gone"
           /\ \A q \in Requests :
                 /\ req[q].pc = "done" /\ req[q].answer = 201
                 /\ req[q].email = req[r].email
                 => q = r
=============================================================================
