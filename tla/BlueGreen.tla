----------------------------- MODULE BlueGreen ------------------------------
(***************************************************************************)
(* Blue/green deployment: deploy/blue_green.sh and deploy/rollback.sh.     *)
(*                                                                         *)
(* Both scripts run under "set -e", a command at a time, and keep what     *)
(* they know in two files.  The person who runs one may interrupt it       *)
(* anywhere; two scripts at the same time are not modelled.                *)
(***************************************************************************)
EXTENDS Integers

CONSTANTS None,        \* a marker file that does not exist
          MaxVersion   \* bound: images that are built

ASSUME NoneAssumption == None \notin {"blue", "green"}
ASSUME VersionAssumption == MaxVersion \in Nat

VARIABLES image,     \* the version last built for a slot; 0 is no image
          running,   \* the version a slot's container runs; 0 is stopped
          healthy,   \* whether /health and /ready of a slot answer
          previous,  \* .deploy-previous-slot
          active,    \* .deploy-active-slot
          upstream,  \* where Caddy sends the traffic
          script,    \* the script that runs: what it is, at which command,
                     \* its slots, and whether the target was detected
          last,      \* how the last script ended
          built      \* the last version that was built

vars == <<image, running, healthy, previous, active, upstream, script, last,
          built>>

Slots == {"blue", "green"}

Other(slot) == IF slot = "blue" THEN "green" ELSE "blue"

NoScript == [kind |-> "none", pc |-> "idle", target |-> None, old |-> None,
             detected |-> FALSE]

-----------------------------------------------------------------------------
Init == /\ image = [s \in Slots |-> 0]
        /\ running = [s \in Slots |-> 0]
        /\ healthy = [s \in Slots |-> FALSE]
        /\ previous = None
        /\ active = None
        /\ upstream = "api"
        /\ script = NoScript
        /\ last = "none"
        /\ built = 0

At(kind, pc) == script.kind = kind /\ script.pc = pc

Goto(pc) == script' = [script EXCEPT !.pc = pc] /\ UNCHANGED last

Exit(outcome) == script' = NoScript /\ last' = outcome

(* docker compose up -d: a container that does not run the slot's image is
   (re)created, and may or may not come up; one that does is left alone. *)
Up(slot, version) ==
    IF running[slot] = version
    THEN UNCHANGED <<running, healthy>>
    ELSE /\ running' = [running EXCEPT ![slot] = version]
         /\ \E ok \in BOOLEAN : healthy' = [healthy EXCEPT ![slot] = ok]

Stop(slot) ==
    /\ running' = [running EXCEPT ![slot] = 0]
    /\ healthy' = [healthy EXCEPT ![slot] = FALSE]

-----------------------------------------------------------------------------
(* blue_green.sh *)

(* detect_idle_slot *)
DetectIdleSlot == IF running["blue"] # 0 THEN "green" ELSE "blue"

(* ./blue_green.sh [slot]: the other slot is taken for the active one and
   recorded for a rollback before anything is built. *)
DeployBegin(target, detected) ==
    /\ script = NoScript
    /\ built < MaxVersion
    /\ detected => target = DetectIdleSlot
    /\ previous' = Other(target)
    /\ script' = [kind |-> "deploy", pc |-> "build", target |-> target,
                  old |-> Other(target), detected |-> detected]
    /\ UNCHANGED <<image, running, healthy, active, upstream, last, built>>

DeployBuild ==
    /\ At("deploy", "build")
    /\ image' = [image EXCEPT ![script.target] = built + 1]
    /\ built' = built + 1
    /\ Goto("up")
    /\ UNCHANGED <<running, healthy, previous, active, upstream>>

DeployUp ==
    /\ At("deploy", "up")
    /\ Up(script.target, image[script.target])
    /\ Goto("health")
    /\ UNCHANGED <<image, previous, active, upstream, built>>

(* Mutant: the old slot is stopped before the new one has answered. *)
DeployStopsFirst ==
    /\ At("deploy", "health")
    /\ Stop(script.old)
    /\ Goto("mark")
    /\ UNCHANGED <<image, previous, active, upstream, built>>

(* wait_for_health; a slow container may time out. *)
DeployHealth ==
    /\ At("deploy", "health")
    /\ \/ healthy[script.target] /\ Goto("stop")
       \/ Goto("undo")
    /\ UNCHANGED <<image, running, healthy, previous, active, upstream, built>>

DeployUndo ==
    /\ At("deploy", "undo")
    /\ Stop(script.target)
    /\ Exit("deploy failed")
    /\ UNCHANGED <<image, previous, active, upstream, built>>

(* A failure to stop the old slot is ignored. *)
DeployStop ==
    /\ At("deploy", "stop")
    /\ Stop(script.old) \/ UNCHANGED <<running, healthy>>
    /\ Goto("mark")
    /\ UNCHANGED <<image, previous, active, upstream, built>>

(* Mutant: the marker is left at the slot that was stopped. *)
DeployMarkOld ==
    /\ At("deploy", "mark")
    /\ active' = script.old
    /\ Exit("deployed")
    /\ UNCHANGED <<image, running, healthy, previous, upstream, built>>

DeployMark ==
    /\ At("deploy", "mark")
    /\ active' = script.target
    /\ Exit("deployed")
    /\ UNCHANGED <<image, running, healthy, previous, upstream, built>>

-----------------------------------------------------------------------------
(* rollback.sh *)

(* Mutant: the script does not look whether a slot was recorded. *)
RollbackUnchecked ==
    /\ script = NoScript
    /\ script' = [kind |-> "rollback", pc |-> "up", target |-> previous,
                  old |-> active, detected |-> FALSE]
    /\ UNCHANGED <<image, running, healthy, previous, active, upstream, last,
                   built>>

(* Nothing recorded is an error. *)
RollbackBegin ==
    /\ script = NoScript
    /\ previous # None
    /\ script' = [kind |-> "rollback", pc |-> "up", target |-> previous,
                  old |-> active, detected |-> FALSE]
    /\ UNCHANGED <<image, running, healthy, previous, active, upstream, last,
                   built>>

(* A slot that was never built is built by "up". *)
RollbackUp ==
    /\ At("rollback", "up")
    /\ LET fresh == image[script.target] = 0 IN
       /\ fresh => built < MaxVersion
       /\ built' = IF fresh THEN built + 1 ELSE built
       /\ image' = [image EXCEPT ![script.target] = IF fresh THEN built + 1
                                                             ELSE @]
    /\ Up(script.target, image'[script.target])
    /\ Goto("health")
    /\ UNCHANGED <<previous, active, upstream>>

RollbackHealth ==
    /\ At("rollback", "health")
    /\ \/ healthy[script.target] /\ Goto("stop")
       \/ Exit("rollback failed")
    /\ UNCHANGED <<image, running, healthy, previous, active, upstream, built>>

(* Unless .deploy-active-slot does not exist. *)
RollbackStop ==
    /\ At("rollback", "stop")
    /\ \/ script.old # None /\ Stop(script.old)
       \/ UNCHANGED <<running, healthy>>
    /\ Goto("mark")
    /\ UNCHANGED <<image, previous, active, upstream, built>>

RollbackMark ==
    /\ At("rollback", "mark")
    /\ active' = script.target
    /\ Exit("rolled back")
    /\ UNCHANGED <<image, running, healthy, previous, upstream, built>>

-----------------------------------------------------------------------------
(* A command fails, or the script is interrupted, between two commands. *)
Abort ==
    /\ script # NoScript
    /\ Exit("aborted")
    /\ UNCHANGED <<image, running, healthy, previous, active, upstream, built>>

(* A release that came up goes bad; assumed not to happen while a script
   runs. *)
Degrade(slot) ==
    /\ script = NoScript
    /\ healthy[slot]
    /\ healthy' = [healthy EXCEPT ![slot] = FALSE]
    /\ UNCHANGED <<image, running, previous, active, upstream, script, last,
                   built>>

Next == \/ \E target \in Slots, detected \in BOOLEAN :
              DeployBegin(target, detected)
        \/ DeployBuild \/ DeployUp \/ DeployHealth \/ DeployUndo
        \/ DeployStop \/ DeployMark
        \/ RollbackBegin \/ RollbackUp \/ RollbackHealth
        \/ RollbackStop \/ RollbackMark
        \/ Abort
        \/ \E slot \in Slots : Degrade(slot)

Spec == Init /\ [][Next]_vars

-----------------------------------------------------------------------------
Kinds == {"none", "deploy", "rollback"}
Places == {"idle", "build", "up", "health", "undo", "stop", "mark"}
Outcomes == {"none", "deployed", "deploy failed", "rolled back",
             "rollback failed", "aborted"}
Script == [kind : Kinds, pc : Places, target : Slots \cup {None},
           old : Slots \cup {None}, detected : BOOLEAN]

(* Every variable has its type, only a container that runs is healthy, and a
   script that got past its first lines knows the slot it goes to. *)
TypeOK ==
    /\ image \in [Slots -> Nat]
    /\ running \in [Slots -> Nat]
    /\ healthy \in [Slots -> BOOLEAN]
    /\ previous \in Slots \cup {None}
    /\ active \in Slots \cup {None}
    /\ upstream \in Slots \cup {"api"}
    /\ script \in Script
    /\ script.kind # "none" => script.target \in Slots
    /\ last \in Outcomes
    /\ built \in Nat
    /\ \A s \in Slots : healthy[s] => running[s] # 0

Serving == { s \in Slots : healthy[s] }

(* No command of blue_green.sh takes the last healthy slot away, whatever
   failed or was interrupted before, unless that slot is the very one it
   deploys to. *)
DeployKeepsServing ==
    [][script.kind = "deploy" /\ ~(Serving \subseteq {script.target})
       => Serving' # {}]_vars

(* "Deployment complete" is true: when blue_green.sh has ended well, the slot
   it marks active runs the image built last for it, which passed its health
   check, and the other slot is the one a rollback goes to. *)
CompletedDeployServes ==
    last = "deployed" /\ script = NoScript
    => /\ active # None
       /\ running[active] = image[active]
       /\ running[active] # 0
       /\ previous = Other(active)

(* When nobody names a slot, the script deploys to the idle slot: never to
   the one that is marked active and serves. *)
DetectedSlotIsIdle ==
    script.pc = "build" /\ script.detected
    => ~(script.target = active /\ healthy[active])

(* rollback.sh restarts the previous slot from the existing image. *)
RollbackNeedsNoBuild == At("rollback", "up") => image[script.target] # 0

(* rollback.sh, run after a "New deployment failing health checks", "Stops the
   failed deployment slot": the slot it has just restored and found healthy
   still runs when that is done. *)
RestoredSlotRuns ==
    At("rollback", "mark") /\ last = "deploy failed"
    => running[script.target] # 0

(* Step 4 of a deployment: the traffic goes to the slot that was deployed. *)
TrafficSwitched ==
    last = "deployed" /\ script = NoScript => upstream = active
=============================================================================
