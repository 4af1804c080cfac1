----------------------------- MODULE MCUserData -----------------------------
(* Small instances of UserData.                                            *)
EXTENDS UserData, TLC

CONSTANTS j1, j2, e1, e2, p1, p2, p3

Symmetry == Permutations({j1, j2}) \cup Permutations({e1, e2})
            \cup Permutations({p1, p2, p3})

(* The requests whose answer is looked at are those of one user; assessments
   and consents of the other one remain. *)
Focus == /\ \A e \in Erasures : erase[e].user # ApiKeyUser
         /\ \A x \in Exports : export[x].user # ApiKeyUser
         /\ \A q \in Readers : reader[q].user # ApiKeyUser

(* The exports, with what they read and who writes it, and the history reads,
   with theirs, are looked at in behaviours of their own; what score an
   assessment has does not matter to the exports. *)
Apart == \/ /\ \A j \in Jobs : job[j].score \in {0, 600}
            /\ \A p \in Posts : write[p].pc = "idle"
            /\ \A q \in Readers : reader[q].pc = "idle"
         \/ /\ \A j \in Jobs : job[j].pc = "idle"
            /\ \A r \in Rows : rows[r].state = "none"
            /\ \A x \in Exports : export[x].pc = "idle"
=============================================================================
