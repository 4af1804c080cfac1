--------------------------------- MODULE Access ---------------------------------
(***************************************************************************)
(* Who may do what: the tokens that a login issues and a refresh renews,   *)
(* the scoped API keys, the static key, and the administration of          *)
(* customers and keys behind require_role(ADMIN).                          *)
(*                                                                         *)
(* A token carries its subject, the role of the moment of the login and    *)
(* its expiry; a key is its prefix, its role, its expiry and whether it is *)
(* revoked.  Organisations are left out, for no check here looks at them,  *)
(* and so is the analyst, who may do what a viewer may.                    *)
(***************************************************************************)
EXTENDS Naturals, FiniteSets

CONSTANTS Customers, Root,   \* the accounts, and the administrator there is at first
          DemoUser,          \* DEMO_USERNAME, which may be an account or not
          ApiKeys, Prefix(_), \* keys, and the eight characters an administrator sees
          StaticKey,         \* API_KEY_IDENTITY
          NoExpiry, NoRole,
          Lifetime,          \* of a token
          Lifetimes,         \* of keys: expires_in_days
          Horizon,           \* the time at which a behaviour ends
          MaxTokens,         \* bound: tokens that are of use at a time
          MaxLogins          \* bound: different accounts or roles of the logins under way

ASSUME AccessAssumption ==
  /\ Root \in Customers /\ StaticKey \notin Customers \cup {DemoUser}
  /\ NoExpiry \notin Nat /\ NoRole \notin {"admin", "viewer"}
  /\ Lifetime \in Nat \ {0} /\ Lifetimes \subseteq Nat /\ Horizon \in Nat
  /\ MaxTokens \in Nat /\ MaxLogins \in Nat
  /\ \A k \in ApiKeys : k \notin Customers \cup {DemoUser}

VARIABLES customers,  \* role and is_active of each account
          logins,     \* the logins under way, of any number: <<account, role as it was read>>
          tokens,     \* issued tokens, until they are of no use
          keys,       \* the rows of api_keys
          created,    \* keys that were ever created
          now

accessVars == <<customers, logins, tokens, keys, created, now>>

Roles == {"admin", "viewer"}

\* lookup of repo_api_keys.py: a key is good up to and including its expiry.
Lookup(k) ==
  /\ k \in DOMAIN keys /\ ~keys[k].revoked
  /\ keys[k].expires = NoExpiry \/ now <= keys[k].expires

\* decode_token refuses an expired token.
\* Mutant: the expiry of a token is not looked at.
DecodableForever(t) == t \in tokens
Decodable(t) == t \in tokens /\ now < t.exp

\* verify_auth: the identities that some credential gives at this moment.
Identity(subject, role, scoped) == [sub |-> subject, role |-> role, scoped |-> scoped]
Authenticated ==
  {Identity(t.sub, t.role, FALSE) : t \in {x \in tokens : Decodable(x)}}
    \cup {Identity(k, keys[k].role, TRUE) : k \in {x \in DOMAIN keys : Lookup(x)}}
    \cup {Identity(StaticKey, NoRole, FALSE)}

\* require_role(ADMIN): a scoped key has its role, the static key none; a token has
\* the role of its claims, or that of its account when it has none.
IsAdmin(a) ==
  \/ a.scoped /\ a.role = "admin"
  \/ /\ ~a.scoped /\ a.sub # StaticKey
     /\ \/ a.role = "admin"
        \/ a.role = NoRole /\ a.sub \in Customers /\ customers[a.sub].role = "admin"
AdminPresent == \E a \in Authenticated : IsAdmin(a)

AccessInit ==
  /\ customers = [u \in Customers |-> [role |-> IF u = Root THEN "admin" ELSE "viewer", active |-> TRUE]]
  /\ logins = {} /\ tokens = {} /\ keys = [k \in {} |-> TRUE] /\ created = {} /\ now = 0

\* issue_token_for.
\* Mutant: every further token lives longer.
IssueLonger(subject, role) ==
  /\ Cardinality(tokens) < MaxTokens
  /\ tokens' = tokens \cup {[sub |-> subject, role |-> role, exp |-> now + Lifetime + Cardinality(tokens)]}
  /\ UNCHANGED <<customers, keys, created, now>>
Issue(subject, role) ==
  /\ Cardinality(tokens) < MaxTokens
  /\ tokens' = tokens \cup {[sub |-> subject, role |-> role, exp |-> now + Lifetime]}
  /\ UNCHANGED <<customers, keys, created, now>>

\* login reads the account and keeps it; its password and its lock are the matter of
\* Accounts.
Login(u) ==
  /\ customers[u].active /\ logins' = logins \cup {<<u, customers[u].role>>}
  /\ Cardinality(logins') <= MaxLogins /\ UNCHANGED <<customers, tokens, keys, created, now>>

\* After its COMMIT it issues a token with the role it read, whatever the role is by
\* now; another login that read the same may still be under way.
FinishLogin(u, role) ==
  /\ <<u, role>> \in logins /\ Issue(u, role)
  /\ logins' \in {logins, logins \ {<<u, role>>}}

\* Or it fails.
DropLogin(u, role) ==
  /\ <<u, role>> \in logins /\ logins' = logins \ {<<u, role>>}
  /\ UNCHANGED <<customers, tokens, keys, created, now>>

\* issue_token: the demo user gets no role, and is active whatever the account is.
IssueToken == Issue(DemoUser, NoRole) /\ UNCHANGED logins

\* refresh_token: the claims are copied, nothing is looked up; no key is refreshed.
\* Mutant: only the static key is refused.
RefreshScoped(a) ==
  a.sub # StaticKey /\ Issue(a.sub, a.role) /\ UNCHANGED logins
Refresh(a) ==
  a.sub # StaticKey /\ ~a.scoped /\ Issue(a.sub, a.role) /\ UNCHANGED logins

\* create_api_key; the key is random, and stored with or without an expiry.
CreateKey(k, role, expires) ==
  /\ AdminPresent /\ k \notin created /\ created' = created \cup {k}
  /\ keys' = [j \in DOMAIN keys \cup {k} |->
                IF j = k THEN [role |-> role, expires |-> expires, revoked |-> FALSE] ELSE keys[j]]
  /\ UNCHANGED <<customers, logins, tokens, now>>

\* revoke_by_prefix: every active key of the prefix.
\* Mutant: the condition that a key is active is replaced by a toggle.
RevokeFlips(prefix) ==
  /\ AdminPresent
  /\ keys' = [k \in DOMAIN keys |-> IF Prefix(k) = prefix
                                    THEN [keys[k] EXCEPT !.revoked = ~ keys[k].revoked] ELSE keys[k]]
  /\ UNCHANGED <<customers, logins, tokens, created, now>>
Revoke(prefix) ==
  /\ AdminPresent
  /\ keys' = [k \in DOMAIN keys |-> IF Prefix(k) = prefix
                                    THEN [keys[k] EXCEPT !.revoked = TRUE] ELSE keys[k]]
  /\ UNCHANGED <<customers, logins, tokens, created, now>>

\* prune_expired, which nothing calls yet.
\* Mutant: keys that expire at this very moment go too.
PruneExpiredNow ==
  /\ keys' = [k \in {j \in DOMAIN keys : keys[j].expires = NoExpiry \/ now < keys[j].expires} |-> keys[k]]
  /\ UNCHANGED <<customers, logins, tokens, created, now>>
PruneExpired ==
  /\ keys' = [k \in {j \in DOMAIN keys : keys[j].expires = NoExpiry \/ now <= keys[j].expires} |-> keys[k]]
  /\ UNCHANGED <<customers, logins, tokens, created, now>>

\* update_customer and deactivate_customer: one row is read, changed and committed,
\* and only the column that was asked for is written.
SetRole(u, role) ==
  /\ AdminPresent /\ customers' = [customers EXCEPT ![u].role = role]
  /\ UNCHANGED <<logins, tokens, keys, created, now>>
SetActive(u, active) ==
  /\ AdminPresent /\ customers' = [customers EXCEPT ![u].active = active]
  /\ UNCHANGED <<logins, tokens, keys, created, now>>

\* Time passes; tokens that expired before the present are forgotten.
Pass ==
  /\ now < Horizon /\ now' = now + 1
  /\ tokens' = {t \in tokens : now + 1 <= t.exp} /\ UNCHANGED <<customers, logins, keys, created>>

AccessNext ==
  \/ \E u \in Customers : \/ Login(u)
                          \/ \E role \in Roles : \/ FinishLogin(u, role) \/ DropLogin(u, role)
                                                \/ SetRole(u, role)
                          \/ \E active \in BOOLEAN : SetActive(u, active)
  \/ IssueToken
  \/ \E a \in Authenticated : Refresh(a)
  \/ \E k \in ApiKeys :
       \/ Revoke(Prefix(k))
       \/ \E role \in Roles, expires \in {now + life : life \in Lifetimes} \cup {NoExpiry} :
            CreateKey(k, role, expires)
  \/ PruneExpired \/ Pass
AccessSpec == AccessInit /\ [][AccessNext]_accessVars
--------------------------------------------------------------------------------
\* The variables hold what the code stores, and no token lives longer than the
\* settings say, by whatever chain of refreshes it came about.
AccessTypeOK ==
  /\ customers \in [Customers -> [role : Roles, active : BOOLEAN]]
  /\ logins \subseteq Customers \X Roles
  /\ \A t \in tokens : t.role \in Roles \cup {NoRole} /\ t.exp \in now .. now + Lifetime
  /\ DOMAIN keys \subseteq created /\ created \subseteq ApiKeys
  /\ \A k \in DOMAIN keys : keys[k] \in [role : Roles, expires : Nat \cup {NoExpiry}, revoked : BOOLEAN]
  /\ now \in 0 .. Horizon

\* A key never turns into a token: what is revoked or expires as a key cannot live on
\* as a bearer token that nobody can revoke (auth_routes.py, refresh_token).
NoTokenForKey == \A t \in tokens : t.sub \in Customers \cup {DemoUser}

\* A key that is refused once is refused for ever, be it revoked, expired or pruned,
\* and however revocations and prunings follow each other (repo_api_keys.py).
KeyDiesForGood == [][\A k \in created : ~Lookup(k) => ~Lookup(k)']_accessVars

\* Pruning changes the answer of no look-up: the row of a key goes only when the key
\* is refused already, to the moment (repo_api_keys.py: lookup and prune_expired
\* compare the same two times with comparisons of their own).
PruneOnlyDead == [][\A k \in DOMAIN keys : k \notin DOMAIN keys' => ~Lookup(k)]_accessVars

\* An account or a token by which u is administrator, or a login that will give one: it
\* read the role before the account was demoted.
HasRights(u) ==
  \/ u \in Customers /\ customers[u].role = "admin"
  \/ <<u, "admin">> \in logins
  \/ \E t \in tokens : t.sub = u /\ t.role = "admin" /\ now < t.exp

\* A customer who was demoted keeps the rights of the tokens issued before, and may
\* renew them for ever; so may a login that was under way.  But once there was a moment
\* without a live token and without such a login the rights return only by a new
\* promotion (auth_routes.py, refresh_token; user_routes.py, login; roles.py, require_role).
RightsDontReturn ==
  [][\A u \in Customers \cup {DemoUser} :
       ~HasRights(u) /\ HasRights(u)' => u \in Customers /\ customers'[u].role = "admin"]_accessVars

\* What is revoked, expired or taken away does not come back, by a token, a key, a
\* refresh, a pruning or any sequence of them (auth.py, repo_api_keys.py, roles.py).
AccessSound ==
  []AccessTypeOK /\ []NoTokenForKey /\ KeyDiesForGood /\ PruneOnlyDead /\ RightsDontReturn
================================================================================
