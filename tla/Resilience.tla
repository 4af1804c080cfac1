----------------------------- MODULE Resilience -----------------------------
(***************************************************************************)
(* The primitives of agents/resilience.py as operators on their state.     *)
(* Each runs under the lock of its object, so that a call is one step of   *)
(* the thread that makes it.                                               *)
(***************************************************************************)
EXTENDS Integers, Sequences

CONSTANTS Threshold,  \* failure_threshold
          Timeout,    \* timeout_seconds, in ticks
          DLQMax      \* _DLQ_MAX_ENTRIES

ASSUME ThresholdAssumption == Threshold \in Nat \ {0}
ASSUME TimeoutAssumption == Timeout \in Nat \ {0}
ASSUME DLQAssumption == DLQMax \in Nat \ {0}

(* The code compares the failure count with the threshold only, and the time
   since the last failure with the timeout only: both are counted up to it. *)
Breaker == [state : {"closed", "open", "half-open"},
            failures : 0 .. Threshold,
            age : 0 .. Timeout]

NewBreaker == [state |-> "closed", failures |-> 0, age |-> Timeout]

UpTo(n, limit) == IF n < limit THEN n + 1 ELSE limit

(* Mutant: an open circuit never becomes half-open. *)
LookedOnly(b) == b

(* The lazy open -> half-open move of allow_request and of the state property. *)
Looked(b) == IF b.state = "open" /\ b.age = Timeout
             THEN [b EXCEPT !.state = "half-open"] ELSE b

Allows(b) == Looked(b).state # "open"

Succeeded(b) == [state |-> "closed", failures |-> 0, age |-> b.age]

(* Mutants: a circuit trips one failure late; a failure does not restart the
   timer. *)
FailedLate(b) == [state |-> IF b.failures >= Threshold THEN "open" ELSE b.state,
                  failures |-> UpTo(b.failures, Threshold),
                  age |-> 0]

FailedUntimed(b) == [b EXCEPT
                        !.state = IF b.failures + 1 >= Threshold
                                  THEN "open" ELSE @,
                        !.failures = UpTo(@, Threshold)]

Failed(b) == [state |-> IF b.failures + 1 >= Threshold THEN "open" ELSE b.state,
              failures |-> UpTo(b.failures, Threshold),
              age |-> 0]

Aged(b) == [b EXCEPT !.age = UpTo(@, Timeout)]

(* Mutants: the queue is not trimmed; it is trimmed at the wrong end. *)
LoggedUnbounded(queue, entry) == Append(queue, entry)

LoggedOldest(queue, entry) ==
    IF Len(queue) < DLQMax THEN Append(queue, entry) ELSE queue

(* DeadLetterQueue.add: the newest DLQMax entries are kept. *)
Logged(queue, entry) ==
    LET longer == Append(queue, entry)
    IN  IF Len(longer) > DLQMax
        THEN SubSeq(longer, Len(longer) - DLQMax + 1, Len(longer))
        ELSE longer
=============================================================================
