-------------------------- MODULE BlueGreenProofs ---------------------------
(* Proofs about BlueGreen, for every number of builds.                     *)
EXTENDS BlueGreen, TLAPS

(* The variables have their types. *)
Typed == /\ image \in [Slots -> Nat]
         /\ running \in [Slots -> Nat]
         /\ healthy \in [Slots -> BOOLEAN]
         /\ \A s \in Slots : healthy[s] => running[s] # 0
         /\ previous \in Slots \cup {None}
         /\ active \in Slots \cup {None}
         /\ upstream \in Slots \cup {"api"}
         /\ script \in Script
         /\ last \in Outcomes
         /\ built \in Nat

(* What a script that runs knows at each of its commands. *)
DeployBuilt ==
    script.kind = "deploy" /\ script.pc # "build" => image[script.target] # 0

DeployStarted ==
    script.kind = "deploy" /\ script.pc \in {"health", "stop", "mark"}
    => running[script.target] = image[script.target]

DeployHealthy ==
    script.kind = "deploy" /\ script.pc \in {"stop", "mark"}
    => healthy[script.target]

DeploySlots ==
    script.kind = "deploy"
    => /\ script.old = Other(script.target)
       /\ previous = script.old

ScriptOK ==
    /\ script.kind = "none" => script = NoScript
    /\ script.kind # "none" => script.target \in Slots

IInv == /\ Typed
        /\ ScriptOK
        /\ DeployBuilt
        /\ DeployStarted
        /\ DeployHealthy
        /\ DeploySlots
        /\ CompletedDeployServes

LEMMA OtherSlot ==
    \A s \in Slots : Other(s) \in Slots /\ Other(s) # s
  BY DEF Slots, Other

LEMMA InitOK == Init => IInv
  BY NoneAssumption
  DEF Init, IInv, Typed, ScriptOK, DeployBuilt, DeployStarted, DeployHealthy,
      DeploySlots, CompletedDeployServes, NoScript, Slots, Script, Kinds,
      Places, Outcomes

(* What starting, continuing and ending a script does to its record. *)
LEMMA GotoStep ==
    ASSUME Typed, NEW pc \in Places, Goto(pc)
    PROVE  /\ script' \in Script
           /\ script'.kind = script.kind
           /\ script'.pc = pc
           /\ script'.target = script.target
           /\ script'.old = script.old
           /\ last' = last
  BY DEF Typed, Script, Goto

LEMMA ExitStep ==
    ASSUME NEW outcome \in Outcomes, Exit(outcome)
    PROVE  /\ script' \in Script
           /\ script'.kind = "none"
           /\ script' = NoScript
           /\ last' \in Outcomes
  BY DEF Script, Exit, NoScript, Kinds, Places

(* The containers: what Up and Stop keep. *)
ContainersOK == /\ running \in [Slots -> Nat]
                /\ healthy \in [Slots -> BOOLEAN]
                /\ \A s \in Slots : healthy[s] => running[s] # 0

LEMMA UpStep ==
    ASSUME ContainersOK, NEW slot \in Slots, NEW version \in Nat \ {0},
           Up(slot, version)
    PROVE  ContainersOK' /\ running'[slot] = version
  BY DEF ContainersOK, Up

LEMMA StopStep ==
    ASSUME ContainersOK, NEW slot \in Slots, Stop(slot)
    PROVE  /\ ContainersOK'
           /\ \A s \in Slots \ {slot} : /\ running'[s] = running[s]
                                       /\ healthy'[s] = healthy[s]
  BY DEF ContainersOK, Stop

LEMMA TypeParts ==
    Typed <=> /\ ContainersOK
               /\ image \in [Slots -> Nat]
               /\ previous \in Slots \cup {None}
               /\ active \in Slots \cup {None}
               /\ upstream \in Slots \cup {"api"}
               /\ script \in Script
               /\ last \in Outcomes
               /\ built \in Nat
  BY DEF Typed, ContainersOK

LEMMA StepOK == IInv /\ [Next]_vars => IInv'
<1> SUFFICES ASSUME IInv, [Next]_vars PROVE IInv'
  OBVIOUS
<1> DEFINE Facts == /\ DeployBuilt
                    /\ DeployStarted
                    /\ DeployHealthy
                    /\ DeploySlots
<1>0. /\ Typed /\ ScriptOK /\ Facts /\ CompletedDeployServes
      /\ ContainersOK
      /\ image \in [Slots -> Nat]
      /\ previous \in Slots \cup {None}
      /\ active \in Slots \cup {None}
      /\ upstream \in Slots \cup {"api"}
      /\ script \in Script
      /\ last \in Outcomes
      /\ built \in Nat
      /\ script.kind \in {"none", "deploy", "rollback"}
  BY TypeParts DEF IInv, Script, Kinds
<1>q. SUFFICES Typed' /\ ScriptOK' /\ Facts' /\ CompletedDeployServes'
  BY DEF IInv
<1>r. (/\ ContainersOK
       /\ image \in [Slots -> Nat]
       /\ previous \in Slots \cup {None}
       /\ active \in Slots \cup {None}
       /\ upstream \in Slots \cup {"api"}
       /\ script \in Script
       /\ last \in Outcomes
       /\ built \in Nat)'
      => Typed'
  BY DEF Typed, ContainersOK
<1>p. \A pc \in {"build", "up", "health", "undo", "stop", "mark"} :
         pc \in Places
  BY DEF Places
<1>o. \A o \in {"deployed", "deploy failed", "rolled back",
                "rollback failed", "aborted"} : o \in Outcomes
  BY DEF Outcomes
<1>a. ASSUME script'.kind = "none", script' = NoScript
      PROVE  ScriptOK' /\ Facts'
  BY <1>a DEF ScriptOK, DeployBuilt, DeployStarted, DeployHealthy, DeploySlots
<1>b. ASSUME script'.kind # "none"
      PROVE  CompletedDeployServes'
  BY <1>b DEF CompletedDeployServes, NoScript
<1>1. ASSUME NEW target \in Slots, NEW detected \in BOOLEAN,
             DeployBegin(target, detected)
      PROVE  Typed' /\ ScriptOK' /\ Facts' /\ CompletedDeployServes'
  <2>1. /\ script' \in Script
        /\ script'.kind = "deploy"
        /\ script'.pc = "build"
        /\ script'.target = target
        /\ script'.old = Other(target)
    BY <1>1, OtherSlot DEF DeployBegin, Script, Kinds, Places
  <2>2. Typed'
    BY <1>0, <1>1, <1>r, <2>1, OtherSlot DEF DeployBegin, ContainersOK
  <2>3. ScriptOK' /\ Facts'
    BY <1>1, <2>1
    DEF DeployBegin, ScriptOK, DeployBuilt, DeployStarted, DeployHealthy,
        DeploySlots
  <2> QED  BY <1>b, <2>1, <2>2, <2>3
<1>2. CASE DeployBuild
  <2>1. /\ script.kind = "deploy"
        /\ script.target \in Slots
        /\ Goto("up")
        /\ image'[script.target] # 0
    BY <1>0, <1>2 DEF DeployBuild, At, ScriptOK
  <2>2. /\ script' \in Script
        /\ script'.kind = "deploy"
        /\ script'.pc = "up"
        /\ script'.target = script.target
        /\ script'.old = script.old
        /\ last' = last
    BY <1>0, <1>p, <2>1, GotoStep
  <2>3. Typed'
    BY <1>0, <1>2, <1>r, <2>1, <2>2 DEF DeployBuild, ContainersOK
  <2>4. ScriptOK' /\ Facts'
    BY <1>0, <1>2, <2>1, <2>2
    DEF DeployBuild, ScriptOK, DeployBuilt, DeployStarted, DeployHealthy,
        DeploySlots
  <2> QED  BY <1>b, <2>2, <2>3, <2>4
<1>3. CASE DeployUp
  <2>1. /\ script.kind = "deploy" /\ script.pc = "up"
        /\ script.target \in Slots
        /\ Goto("health")
        /\ image[script.target] \in Nat \ {0}
    BY <1>0, <1>3 DEF DeployUp, At, ScriptOK, DeployBuilt
  <2>2. /\ script' \in Script
        /\ script'.kind = "deploy"
        /\ script'.pc = "health"
        /\ script'.target = script.target
        /\ script'.old = script.old
        /\ last' = last
    BY <1>0, <1>p, <2>1, GotoStep
  <2>3. ContainersOK' /\ running'[script.target] = image[script.target]
    <3>1. Up(script.target, image[script.target])
      BY <1>3 DEF DeployUp
    <3> QED  BY <1>0, <2>1, <3>1, UpStep
  <2>4. Typed'
    BY <1>0, <1>3, <1>r, <2>2, <2>3 DEF DeployUp
  <2>5. ScriptOK' /\ Facts'
    BY <1>0, <1>3, <2>1, <2>2, <2>3
    DEF DeployUp, ScriptOK, DeployBuilt, DeployStarted, DeployHealthy,
        DeploySlots
  <2> QED  BY <1>b, <2>2, <2>4, <2>5
<1>4. CASE DeployHealth
  <2>1. /\ script.kind = "deploy" /\ script.pc = "health"
        /\ script.target \in Slots
        /\ UNCHANGED <<image, running, healthy, previous, active, upstream,
                       built>>
    BY <1>0, <1>4 DEF DeployHealth, At, ScriptOK
  <2>2. PICK pc \in {"stop", "undo"} :
           /\ Goto(pc)
           /\ pc = "stop" => healthy[script.target]
    BY <1>4 DEF DeployHealth
  <2>3. /\ script' \in Script
        /\ script'.kind = "deploy"
        /\ script'.pc = pc
        /\ script'.target = script.target
        /\ script'.old = script.old
        /\ last' = last
    <3>1. pc \in Places
      BY <2>2 DEF Places
    <3> QED  BY <1>0, <2>1, <2>2, <3>1, GotoStep
  <2>4. Typed'
    BY <1>0, <1>r, <2>1, <2>3 DEF ContainersOK
  <2>5. ScriptOK' /\ Facts'
    BY <1>0, <2>1, <2>2, <2>3
    DEF ScriptOK, DeployBuilt, DeployStarted, DeployHealthy, DeploySlots
  <2> QED  BY <1>b, <2>3, <2>4, <2>5
<1>5. CASE DeployUndo
  <2>1. /\ script.target \in Slots
        /\ Exit("deploy failed")
    BY <1>0, <1>5 DEF DeployUndo, At, ScriptOK
  <2>2. /\ script' \in Script
        /\ script'.kind = "none"
        /\ script' = NoScript
        /\ last' \in Outcomes
    BY <1>o, <2>1, ExitStep
  <2>3. ContainersOK'
    <3>1. Stop(script.target)
      BY <1>5 DEF DeployUndo
    <3> QED  BY <1>0, <2>1, <3>1, StopStep
  <2>4. Typed'
    BY <1>0, <1>5, <1>r, <2>2, <2>3 DEF DeployUndo
  <2>5. CompletedDeployServes'
    BY <2>1 DEF CompletedDeployServes, Exit
  <2> QED  BY <1>a, <2>2, <2>4, <2>5
<1>6. CASE DeployStop
  <2>1. /\ script.kind = "deploy" /\ script.pc = "stop"
        /\ script.target \in Slots
        /\ script.old \in Slots \ {script.target}
        /\ Goto("mark")
        /\ Stop(script.old) \/ UNCHANGED <<running, healthy>>
        /\ UNCHANGED <<image, previous, active, upstream, built>>
    BY <1>0, <1>6, OtherSlot DEF DeployStop, At, ScriptOK, DeploySlots
  <2>2. /\ script' \in Script
        /\ script'.kind = "deploy"
        /\ script'.pc = "mark"
        /\ script'.target = script.target
        /\ script'.old = script.old
        /\ last' = last
    BY <1>0, <1>p, <2>1, GotoStep
  <2>3. /\ ContainersOK'
        /\ running'[script.target] = running[script.target]
        /\ healthy'[script.target] = healthy[script.target]
    <3>1. CASE Stop(script.old)
      BY <1>0, <2>1, <3>1, StopStep
    <3>2. CASE UNCHANGED <<running, healthy>>
      BY <1>0, <3>2 DEF ContainersOK
    <3> QED  BY <2>1, <3>1, <3>2
  <2>4. Typed'
    BY <1>0, <1>r, <2>1, <2>2, <2>3
  <2>5. ScriptOK' /\ Facts'
    BY <1>0, <2>1, <2>2, <2>3
    DEF ScriptOK, DeployBuilt, DeployStarted, DeployHealthy, DeploySlots
  <2> QED  BY <1>b, <2>2, <2>4, <2>5
<1>7. CASE DeployMark
  <2>1. /\ script.kind = "deploy" /\ script.pc = "mark"
        /\ script.target \in Slots
        /\ Exit("deployed")
        /\ active' = script.target
        /\ UNCHANGED <<image, running, healthy, previous, upstream, built>>
    BY <1>0, <1>7 DEF DeployMark, At, ScriptOK
  <2>2. /\ script' \in Script
        /\ script'.kind = "none"
        /\ script' = NoScript
        /\ last' \in Outcomes
    BY <1>o, <2>1, ExitStep
  <2>3. Typed'
    BY <1>0, <1>r, <2>1, <2>2 DEF ContainersOK
  <2>4. CompletedDeployServes'
    <3>1. /\ script.target # None
          /\ running[script.target] = image[script.target]
          /\ image[script.target] # 0
          /\ previous = Other(script.target)
      BY <1>0, <2>1, NoneAssumption
      DEF DeployStarted, DeployBuilt, DeploySlots, Slots
    <3> QED  BY <2>1, <3>1 DEF CompletedDeployServes
  <2> QED  BY <1>a, <2>2, <2>3, <2>4
<1>8. CASE RollbackBegin
  <2>1. /\ script' \in Script
        /\ script'.kind = "rollback"
        /\ script'.target = previous
        /\ previous \in Slots
    BY <1>0, <1>8 DEF RollbackBegin, Script, Kinds, Places
  <2>2. Typed'
    BY <1>0, <1>8, <1>r, <2>1 DEF RollbackBegin, ContainersOK
  <2>3. ScriptOK' /\ Facts'
    BY <1>8, <2>1
    DEF RollbackBegin, ScriptOK, DeployBuilt, DeployStarted, DeployHealthy,
        DeploySlots
  <2> QED  BY <1>b, <2>1, <2>2, <2>3
<1>9. CASE RollbackUp
  <2>1. /\ script.kind = "rollback"
        /\ script.target \in Slots
        /\ Goto("health")
    BY <1>0, <1>9 DEF RollbackUp, At, ScriptOK
  <2>2. /\ script' \in Script
        /\ script'.kind = "rollback"
        /\ script'.target = script.target
        /\ last' = last
    BY <1>0, <1>p, <2>1, GotoStep
  <2>3. /\ built' \in Nat
        /\ image' \in [Slots -> Nat]
        /\ image'[script.target] \in Nat \ {0}
    BY <1>0, <1>9, <2>1 DEF RollbackUp
  <2>4. ContainersOK'
    <3>1. PICK v \in Nat \ {0} : v = image'[script.target]
      BY <2>3
    <3>2. Up(script.target, v)
      BY <1>9, <3>1 DEF RollbackUp, Up
    <3> QED  BY <1>0, <2>1, <3>2, UpStep
  <2>5. Typed'
    BY <1>0, <1>9, <1>r, <2>2, <2>3, <2>4 DEF RollbackUp
  <2>6. ScriptOK' /\ Facts'
    BY <2>1, <2>2
    DEF ScriptOK, DeployBuilt, DeployStarted, DeployHealthy, DeploySlots
  <2> QED  BY <1>b, <2>2, <2>5, <2>6
<1>10. CASE RollbackHealth
  <2>1. /\ script.kind = "rollback"
        /\ script.target \in Slots
        /\ Goto("stop") \/ Exit("rollback failed")
        /\ UNCHANGED <<image, running, healthy, previous, active, upstream,
                       built>>
    BY <1>0, <1>10 DEF RollbackHealth, At, ScriptOK
  <2>2. CASE Goto("stop")
    <3>1. /\ script' \in Script
          /\ script'.kind = "rollback"
          /\ script'.target = script.target
          /\ last' = last
      BY <1>0, <1>p, <2>1, <2>2, GotoStep
    <3>2. Typed'
      BY <1>0, <1>r, <2>1, <3>1 DEF ContainersOK
    <3>3. ScriptOK' /\ Facts'
      BY <2>1, <3>1
      DEF ScriptOK, DeployBuilt, DeployStarted, DeployHealthy, DeploySlots
    <3> QED  BY <1>b, <3>1, <3>2, <3>3
  <2>3. CASE Exit("rollback failed")
    <3>1. /\ script' \in Script
          /\ script'.kind = "none"
          /\ script' = NoScript
          /\ last' \in Outcomes
      BY <1>o, <2>3, ExitStep
    <3>2. Typed'
      BY <1>0, <1>r, <2>1, <3>1 DEF ContainersOK
    <3>3. CompletedDeployServes'
      BY <2>3 DEF CompletedDeployServes, Exit
    <3> QED  BY <1>a, <3>1, <3>2, <3>3
  <2> QED  BY <2>1, <2>2, <2>3
<1>11. CASE RollbackStop
  <2>1. /\ script.kind = "rollback"
        /\ script.target \in Slots
        /\ Goto("mark")
        /\ \/ script.old # None /\ Stop(script.old)
           \/ UNCHANGED <<running, healthy>>
        /\ UNCHANGED <<image, previous, active, upstream, built>>
    BY <1>0, <1>11 DEF RollbackStop, At, ScriptOK
  <2>2. /\ script' \in Script
        /\ script'.kind = "rollback"
        /\ script'.target = script.target
        /\ last' = last
    BY <1>0, <1>p, <2>1, GotoStep
  <2>3. ContainersOK'
    <3>1. CASE script.old # None /\ Stop(script.old)
      <4>1. script.old \in Slots
        BY <1>0, <3>1 DEF Script
      <4> QED  BY <1>0, <3>1, <4>1, StopStep
    <3>2. CASE UNCHANGED <<running, healthy>>
      BY <1>0, <3>2 DEF ContainersOK
    <3> QED  BY <2>1, <3>1, <3>2
  <2>4. Typed'
    BY <1>0, <1>r, <2>1, <2>2, <2>3
  <2>5. ScriptOK' /\ Facts'
    BY <2>1, <2>2
    DEF ScriptOK, DeployBuilt, DeployStarted, DeployHealthy, DeploySlots
  <2> QED  BY <1>b, <2>2, <2>4, <2>5
<1>12. CASE RollbackMark
  <2>1. /\ script.target \in Slots
        /\ Exit("rolled back")
        /\ active' = script.target
        /\ UNCHANGED <<image, running, healthy, previous, upstream, built>>
    BY <1>0, <1>12 DEF RollbackMark, At, ScriptOK
  <2>2. /\ script' \in Script
        /\ script'.kind = "none"
        /\ script' = NoScript
        /\ last' \in Outcomes
    BY <1>o, <2>1, ExitStep
  <2>3. Typed'
    BY <1>0, <1>r, <2>1, <2>2 DEF ContainersOK
  <2>4. CompletedDeployServes'
    BY <2>1 DEF CompletedDeployServes, Exit
  <2> QED  BY <1>a, <2>2, <2>3, <2>4
<1>13. CASE Abort
  <2>1. Exit("aborted")
    BY <1>13 DEF Abort
  <2>2. /\ script' \in Script
        /\ script'.kind = "none"
        /\ script' = NoScript
        /\ last' \in Outcomes
    BY <1>o, <2>1, ExitStep
  <2>3. Typed'
    BY <1>0, <1>13, <1>r, <2>2 DEF Abort, ContainersOK
  <2>4. CompletedDeployServes'
    BY <2>1 DEF CompletedDeployServes, Exit
  <2> QED  BY <1>a, <2>2, <2>3, <2>4
<1>14. ASSUME NEW slot \in Slots, Degrade(slot)
       PROVE  Typed' /\ ScriptOK' /\ Facts' /\ CompletedDeployServes'
  <2>1. ContainersOK'
    BY <1>0, <1>14 DEF Degrade, ContainersOK
  <2>2. Typed'
    BY <1>0, <1>14, <1>r, <2>1 DEF Degrade
  <2>3. /\ script' = script
        /\ script.kind = "none"
    BY <1>14 DEF Degrade, NoScript
  <2>4. ScriptOK' /\ Facts'
    BY <1>0, <2>3
    DEF ScriptOK, DeployBuilt, DeployStarted, DeployHealthy, DeploySlots
  <2>5. CompletedDeployServes'
    BY <1>0, <1>14 DEF Degrade, CompletedDeployServes
  <2> QED  BY <2>2, <2>4, <2>5
<1>15. CASE UNCHANGED vars
  BY <1>0, <1>15
  DEF vars, Typed, ScriptOK, DeployBuilt, DeployStarted, DeployHealthy,
      DeploySlots, CompletedDeployServes
<1> QED
  BY <1>1, <1>2, <1>3, <1>4, <1>5, <1>6, <1>7, <1>8, <1>9, <1>10, <1>11,
     <1>12, <1>13, <1>14, <1>15 DEF Next

(* Every variable has its type, only a container that runs is healthy and a
   script that runs knows its target, whatever the scripts of deploy/ do and
   wherever they stop. *)
THEOREM TypeCorrect == Spec => []TypeOK
<1>1. IInv => TypeOK
  BY DEF IInv, Typed, TypeOK, ScriptOK
<1> QED
  BY <1>1, InitOK, StepOK, PTL DEF Spec

(* After "Deployment complete" the slot blue_green.sh marks active runs the
   image it has just built, and the rollback target is the other one. *)
THEOREM DeployCorrect == Spec => []CompletedDeployServes
<1>1. IInv => CompletedDeployServes
  BY DEF IInv
<1> QED
  BY <1>1, InitOK, StepOK, PTL DEF Spec

LEMMA DeployStepKeepsServing ==
    IInv /\ [Next]_vars
    => (script.kind = "deploy" /\ ~(Serving \subseteq {script.target})
        => Serving' # {}) \/ UNCHANGED vars
<1> SUFFICES ASSUME IInv, Next, script.kind = "deploy",
                    ~(Serving \subseteq {script.target})
             PROVE  Serving' # {}
  OBVIOUS
<1> USE DEF IInv, Typed, ScriptOK, DeployHealthy, DeploySlots
<1>1. PICK s \in Slots : healthy[s] /\ s # script.target
  BY DEF Serving
<1>2. script # NoScript /\ script.target \in Slots
  BY DEF NoScript
<1>3. SUFFICES \E t \in Slots : healthy'[t]
  BY DEF Serving
<1>4. CASE DeployUp
  <2>1. healthy'[s]
    BY <1>1, <1>2, <1>4 DEF DeployUp, Up
  <2> QED  BY <2>1
<1>5. CASE DeployUndo
  <2>1. healthy'[s]
    BY <1>1, <1>2, <1>5 DEF DeployUndo, Stop
  <2> QED  BY <2>1
<1>6. CASE DeployStop
  <2>1. healthy[script.target] /\ script.old # script.target
    BY <1>2, <1>6, OtherSlot DEF DeployStop, At
  <2>2. healthy'[script.target]
    BY <1>2, <1>6, <2>1 DEF DeployStop, Stop
  <2> QED  BY <1>2, <2>2
<1>7. CASE DeployBuild \/ DeployHealth \/ DeployMark \/ Abort
  BY <1>1, <1>7 DEF DeployBuild, DeployHealth, DeployMark, Abort
<1> QED
  BY <1>2, <1>4, <1>5, <1>6, <1>7
  DEF Next, DeployBegin, RollbackBegin, RollbackUp, RollbackHealth,
      RollbackStop, RollbackMark, Degrade, At

(* No command of blue_green.sh takes the last healthy slot away, unless it is
   the slot that is deployed to. *)
THEOREM DeploySafe == Spec => DeployKeepsServing
  BY InitOK, StepOK, DeployStepKeepsServing, PTL
  DEF Spec, DeployKeepsServing
=============================================================================
