--------------------------------- MODULE Backups ---------------------------------
(***************************************************************************)
(* The nightly backups and the policy that says which of them to keep.     *)
(* The repository has the policy and the script that makes a backup, and   *)
(* no code that prunes: the model prunes with the policy every so many     *)
(* days, as whoever runs the service would.                                *)
(***************************************************************************)
EXTENDS Integers

CONSTANTS Periods,  \* days from one pruning to the next
          LastDay   \* the day on which a behaviour ends

ASSUME BackupsAssumption == Periods \subseteq Nat \ {0} /\ LastDay \in Nat

VARIABLES day, period,
          ages  \* of the backups there are, in days

backupVars == <<day, period, ages>>

Policy == [daily |-> 7, weekly |-> 4, monthly |-> 12]

\* Mutant: the weekly rule has no window.
ShouldRetainEveryWeek(age) ==
  \/ age <= Policy.daily
  \/ age % 7 = 0
  \/ age <= Policy.monthly * 30 /\ age % 30 = 0
ShouldRetain(age) ==
  \/ age <= Policy.daily
  \/ age <= Policy.weekly * 7 /\ age % 7 = 0
  \/ age <= Policy.monthly * 30 /\ age % 30 = 0

BackupsInit == day = 0 /\ period \in Periods /\ ages = {}

\* The cron entry of every night, and on some nights the pruning.  (A night on which
\* pg_dump fails only leaves a copy out, now and later.)
Night ==
  LET kept == {age + 1 : age \in ages} \cup {0}
  IN  /\ day < LastDay /\ day' = day + 1
      /\ ages' = IF day' % period = 0 THEN {age \in kept : ShouldRetain(age)} ELSE kept
      /\ UNCHANGED period

BackupsSpec == BackupsInit /\ [][Night]_backupVars
--------------------------------------------------------------------------------
\* The policy looks at the age of a backup on the day only, so what it keeps of the past
\* depends on how often it is applied: run more often than weekly it leaves no weekly
\* copy, run more often than every 30 days no monthly copy but the first, and every 30
\* days it keeps the twelve of the last year (backup.py, should_retain).
CopiesNeedTheirPeriod ==
  day % period = 0 =>
    /\ period < 7 => ages \subseteq 0 .. Policy.daily
    /\ period < 30 => ages \subseteq 0 .. 30
    /\ period = 30 /\ day > 30 * (Policy.monthly + 1)
         => {30 * month : month \in 1 .. Policy.monthly} \subseteq ages
================================================================================
