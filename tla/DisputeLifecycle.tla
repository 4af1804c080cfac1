-------------------------- MODULE DisputeLifecycle --------------------------
(***************************************************************************)
(* What the dispute lifecycle promises, with every operation atomic: a     *)
(* dispute is opened as a draft, follows the arrows of the state machine,  *)
(* and starts a new round exactly when an escalated dispute is sent again. *)
(* Dispute.tla is the detailed specification, one action per await.        *)
(***************************************************************************)
EXTENDS Naturals

CONSTANT Disputes

VARIABLES status, round

vars == <<status, round>>

(* The arrows of the state machine, as pairs (current, next). *)
Arrows == { <<"draft", "sent">>, <<"sent", "in_review">>,
            <<"in_review", "responded">>, <<"responded", "resolved">>,
            <<"responded", "escalated">>, <<"escalated", "sent">> }

Init == /\ status = [d \in Disputes |-> "absent"]
        /\ round = [d \in Disputes |-> 0]

Open(d) == /\ status[d] = "absent"
           /\ status' = [status EXCEPT ![d] = "draft"]
           /\ round' = [round EXCEPT ![d] = 1]

Advance(d, next) ==
    /\ <<status[d], next>> \in Arrows
    /\ status' = [status EXCEPT ![d] = next]
    /\ round' = [round EXCEPT ![d] = IF status[d] = "escalated" THEN @ + 1
                                                                ELSE @]

Next == \E d \in Disputes :
            \/ Open(d)
            \/ \E next \in {"sent", "in_review", "responded", "resolved",
                            "escalated"} : Advance(d, next)

Spec == Init /\ [][Next]_vars
=============================================================================
