-------------------------------- MODULE Services --------------------------------
(***************************************************************************)
(* The remaining services side by side: those that answer from the request *)
(* alone (simulation with the assessment of its profile, letters, the      *)
(* liberation plan) and those with a table of their own (subscriptions,    *)
(* webhooks, feature flags, access, backups).  They share no variable of   *)
(* the model and no record of the data base, so a behaviour of all is any  *)
(* interleaving of behaviours of each, and a property of one is decided by *)
(* its own steps.  `focus' says which one takes the steps; the others keep *)
(* one first state.                                                        *)
(***************************************************************************)
EXTENDS Simulation, Letters, Liberation, Billing, Webhooks, Access, Flags, Backups

VARIABLE focus
servicesVars == <<focus, simVars, letterVars, libVars, billingVars, hookVars, accessVars,
                  flagVars, backupVars>>

Fix(x, S) == x = CHOOSE y \in S : TRUE

Init ==
  /\ focus \in {"simulation", "letters", "liberation", "billing", "webhooks", "access",
                "flags", "backups"}
  /\ SimInit /\ LettersInit /\ LibInit /\ BillingInit /\ WebhooksInit /\ AccessInit
  /\ FlagsInit /\ BackupsInit
  /\ focus # "simulation" => form = NoForm /\ Fix(profile, Profiles)
  /\ focus # "letters" => Fix(batch, Batches) /\ ~single
  /\ focus # "liberation" => Fix(request, Plans)
  /\ focus # "webhooks" => cryptKey = NoCryptKey
  /\ focus # "backups" => Fix(period, Periods)

Simulate ==
  /\ focus = "simulation" /\ SimNext
  /\ UNCHANGED <<focus, letterVars, libVars, billingVars, hookVars, accessVars, flagVars, backupVars>>
WriteLetters ==
  /\ focus = "letters" /\ LettersNext
  /\ UNCHANGED <<focus, simVars, libVars, billingVars, hookVars, accessVars, flagVars, backupVars>>
Liberate ==
  /\ focus = "liberation" /\ LibNext
  /\ UNCHANGED <<focus, simVars, letterVars, billingVars, hookVars, accessVars, flagVars, backupVars>>
Bill ==
  /\ focus = "billing" /\ BillingNext
  /\ UNCHANGED <<focus, simVars, letterVars, libVars, hookVars, accessVars, flagVars, backupVars>>
Hook ==
  /\ focus = "webhooks" /\ WebhooksNext
  /\ UNCHANGED <<focus, simVars, letterVars, libVars, billingVars, accessVars, flagVars, backupVars>>
Administer ==
  /\ focus = "access" /\ AccessNext
  /\ UNCHANGED <<focus, simVars, letterVars, libVars, billingVars, hookVars, flagVars, backupVars>>
SetFlags ==
  /\ focus = "flags" /\ FlagsNext
  /\ UNCHANGED <<focus, simVars, letterVars, libVars, billingVars, hookVars, accessVars, backupVars>>
BackUp ==
  /\ focus = "backups" /\ Night
  /\ UNCHANGED <<focus, simVars, letterVars, libVars, billingVars, hookVars, accessVars, flagVars>>

Next == \/ Simulate \/ WriteLetters \/ Liberate \/ Bill \/ Hook \/ Administer \/ SetFlags \/ BackUp
Spec == Init /\ [][Next]_servicesVars /\ DeliveryFairness
================================================================================
