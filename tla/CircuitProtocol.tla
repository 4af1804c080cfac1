--------------------------- MODULE CircuitProtocol ---------------------------
(***************************************************************************)
(* What a circuit breaker promises of each agent: once tripped it stays    *)
(* open for Timeout, then half-open, and a half-open circuit closes or     *)
(* trips again.  An open circuit never closes by itself.                   *)
(***************************************************************************)
EXTENDS Naturals

CONSTANTS Agents, Timeout

VARIABLES state,  \* "closed", "open" or "half-open"
          rest    \* time an open circuit has rested, capped at Timeout

vars == <<state, rest>>

Init == /\ state = [a \in Agents |-> "closed"]
        /\ rest = [a \in Agents |-> 0]

Move(a, from, to) ==
    /\ state[a] = from
    /\ state' = [state EXCEPT ![a] = to]
    /\ rest' = [rest EXCEPT ![a] = 0]

Trip(a) == Move(a, "closed", "open") \/ Move(a, "half-open", "open")

Probe(a) == rest[a] = Timeout /\ Move(a, "open", "half-open")

Close(a) == Move(a, "half-open", "closed")

Pass == /\ rest' = [a \in Agents |->
                       IF state[a] = "open" /\ rest[a] < Timeout
                       THEN rest[a] + 1 ELSE rest[a]]
        /\ UNCHANGED state

Next == Pass \/ \E a \in Agents : Trip(a) \/ Probe(a) \/ Close(a)

Spec == Init /\ [][Next]_vars
=============================================================================
