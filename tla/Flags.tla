---------------------------------- MODULE Flags ----------------------------------
(***************************************************************************)
(* Feature flags: administrators create, update and delete them, each in a *)
(* session that reads first and commits later, and users evaluate them.    *)
(* The primary key of the table is the only thing that serialises them.    *)
(***************************************************************************)
EXTENDS Naturals

CONSTANTS Admins, FlagKeys,
          RuleSets,  \* lists of targeting rules, taken as sets; one of them is empty
          NoFlag,    \* no row
          NotGiven   \* None: a field that a request leaves alone

ASSUME FlagsAssumption == {} \in RuleSets /\ NotGiven \notin BOOLEAN /\ NotGiven \notin RuleSets

VARIABLES flags,  \* the row of each key
          edits   \* the request of each administrator, between its read and its commit

flagVars == <<flags, edits>>

Flag(enabled, targeting) == [enabled |-> enabled, targeting |-> targeting]
NoEdit == [op |-> "none"]

FlagsInit == flags = [k \in FlagKeys |-> NoFlag] /\ edits = [a \in Admins |-> NoEdit]

\* create_flag: refused with 409 when the flag is there.
StartCreate(a, k, enabled) ==
  /\ edits[a] = NoEdit /\ flags[k] = NoFlag
  /\ edits' = [edits EXCEPT ![a] = [op |-> "create", key |-> k, enabled |-> enabled]]
  /\ UNCHANGED flags

\* The insertion: the primary key refuses a second row.
\* Mutant: session.merge writes over the row.
CommitCreateMerging(a) ==
  LET e == edits[a]
  IN  /\ e.op = "create"
      /\ flags' = [flags EXCEPT ![e.key] = Flag(e.enabled, {})]
      /\ edits' = [edits EXCEPT ![a] = NoEdit]
CommitCreate(a) ==
  LET e == edits[a]
  IN  /\ e.op = "create"
      /\ flags' = [flags EXCEPT ![e.key] = IF @ = NoFlag THEN Flag(e.enabled, {}) ELSE @]
      /\ edits' = [edits EXCEPT ![a] = NoEdit]

\* The body of PUT /flags/{key} as update_flag gets it: an empty list of rules is
\* taken for one that is not given.
\* Mutant: an empty list is a list.
AskedExactly(body) == body
Asked(body) == [body EXCEPT !.targeting = IF @ = {} THEN NotGiven ELSE @]

\* update_flag up to the read; 404 when there is no flag.
StartUpdate(a, k, body) ==
  /\ edits[a] = NoEdit /\ flags[k] # NoFlag
  /\ edits' = [edits EXCEPT ![a] = [op |-> "update", key |-> k, seen |-> flags[k], asked |-> Asked(body)]]
  /\ UNCHANGED flags

\* What the unit of work writes of the loaded row: the columns that were given and
\* differ.
\* Mutant: the loaded row is written as a whole.
WrittenFlagWhole(row, seen, asked) ==
  [c \in DOMAIN row |-> IF asked[c] # NotGiven THEN asked[c] ELSE seen[c]]
WrittenFlag(row, seen, asked) ==
  [c \in DOMAIN row |-> IF asked[c] \notin {NotGiven, seen[c]} THEN asked[c] ELSE row[c]]

\* The commit; when the row is gone the update finds none and the request fails.
CommitUpdate(a) ==
  LET e == edits[a]
  IN  /\ e.op = "update"
      /\ flags' = [flags EXCEPT ![e.key] = IF @ = NoFlag THEN @ ELSE WrittenFlag(@, e.seen, e.asked)]
      /\ edits' = [edits EXCEPT ![a] = NoEdit]

\* delete_flag is one statement; and a commit may fail.
DeleteFlag(k) == flags[k] # NoFlag /\ flags' = [flags EXCEPT ![k] = NoFlag] /\ UNCHANGED edits
Abandon(a) == edits[a] # NoEdit /\ edits' = [edits EXCEPT ![a] = NoEdit] /\ UNCHANGED flags

\* evaluate_flag for a user whom the rules in `matching' match.
Evaluate(k, matching) ==
  /\ flags[k] # NoFlag /\ flags[k].enabled
  /\ flags[k].targeting = {} \/ flags[k].targeting \cap matching # {}

Bodies == [enabled : BOOLEAN \cup {NotGiven}, targeting : RuleSets \cup {NotGiven}]
FlagsNext ==
  \/ \E a \in Admins :
       \/ \E k \in FlagKeys : \/ \E enabled \in BOOLEAN : StartCreate(a, k, enabled)
                              \/ \E body \in Bodies : StartUpdate(a, k, body)
       \/ CommitCreate(a) \/ CommitUpdate(a) \/ Abandon(a)
  \/ \E k \in FlagKeys : DeleteFlag(k)
FlagsSpec == FlagsInit /\ [][FlagsNext]_flagVars
--------------------------------------------------------------------------------
\* A creation that read before another one committed does not write over its flag, and
\* a flag that was deleted comes back only by a creation: the key is unique, and an
\* update of a row that is gone fails (feature_flags.py, create_flag and update_flag).
CreationIsExclusive ==
  [][\A a \in Admins, k \in FlagKeys :
       LET e == edits[a]
       IN  /\ flags[k] = NoFlag /\ flags'[k] # NoFlag =>
                \E b \in Admins : edits[b].op = "create" /\ edits[b].key = k
           /\ e.op = "create" /\ edits'[a] = NoEdit /\ e.key = k /\ flags[k] # NoFlag =>
                flags'[k] = flags[k]]_flagVars

\* An update that is committed over another one leaves the columns alone that it was
\* not asked to change, although it loaded the row before (feature_flags.py,
\* update_flag).
OnlyAskedChanges ==
  [][\A a \in Admins, k \in FlagKeys :
       LET e == edits[a]
       IN  e.op = "update" /\ edits'[a] = NoEdit /\ e.key = k /\ flags[k] # NoFlag =>
             \A c \in DOMAIN flags[k] : e.asked[c] = NotGiven => flags'[k][c] = flags[k][c]]_flagVars

\* A flag that was given rules never goes back to everyone while it lives: a user whom
\* no rule matches gets it only after a deletion and a new creation (flag_routes.py,
\* update: an empty list counts as no list).
RulesNeverCleared ==
  [][\A k \in FlagKeys :
       flags[k] # NoFlag /\ flags[k].targeting # {} /\ flags'[k] # NoFlag =>
         ~Evaluate(k, {})']_flagVars

\* Overlapping requests of several administrators neither resurrect nor overwrite a
\* flag, and rules are never cleared (feature_flags.py, flag_routes.py).
FlagsSound == CreationIsExclusive /\ OnlyAskedChanges /\ RulesNeverCleared
================================================================================
