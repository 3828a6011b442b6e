--------------------------- MODULE CircuitBreaker ---------------------------
(***************************************************************************)
(* The circuit breaker of providers/resilience.py.  The object's fields are *)
(* one record; every method, which the code runs under the object's lock,   *)
(* is an operator from the record before the call to the record after it.   *)
(* The clock is abstracted to the only thing the code asks of it:           *)
(* reset_elapsed says that reset_seconds have passed since _opened_at.      *)
(***************************************************************************)
EXTENDS Naturals

CONSTANT FailureThreshold    \* failure_threshold

(* The constructor raises ValueError below 1. *)
ASSUME ThresholdAssumption == FailureThreshold \in Nat \ {0}

CLOSED    == "closed"
OPEN      == "open"
HALF_OPEN == "half_open"

(* _consecutive_failures is only ever compared with the threshold and reset *)
(* to 0, so it saturates at the threshold.                                  *)
Breaker == [state : {CLOSED, OPEN, HALF_OPEN},
            consecutive_failures : 0 .. FailureThreshold,
            probe_reserved : BOOLEAN,
            reset_elapsed : BOOLEAN]

NewBreaker == [state |-> CLOSED, consecutive_failures |-> 0,
               probe_reserved |-> FALSE, reset_elapsed |-> FALSE]

-----------------------------------------------------------------------------
(* Mutants: a success that forgets to reset the count, a safety net that     *)
(* does nothing.                                                            *)
RecordSuccessKeepingCount(b) ==
  [b EXCEPT !.state = CLOSED, !.probe_reserved = FALSE]

ReleaseNothing(b) == b

-----------------------------------------------------------------------------
Transition(b, s) ==
  [b EXCEPT !.state = s,
            !.probe_reserved = IF s \in {OPEN, CLOSED} THEN FALSE ELSE @,
            !.reset_elapsed  = IF s = OPEN THEN FALSE ELSE @]

CurrentState(b) ==
  IF b.state = OPEN /\ b.reset_elapsed THEN Transition(b, HALF_OPEN) ELSE b

(* The two results of allow_attempt: its return value and the breaker it    *)
(* leaves behind.                                                           *)
Allowed(b) ==
  LET c == CurrentState(b)
  IN  c.state = CLOSED \/ (c.state = HALF_OPEN /\ ~c.probe_reserved)

AllowAttempt(b) ==
  LET c == CurrentState(b)
  IN  [c EXCEPT !.probe_reserved = (c.state = HALF_OPEN) \/ @]

RecordSuccess(b) ==
  [state |-> CLOSED, consecutive_failures |-> 0,
   probe_reserved |-> FALSE, reset_elapsed |-> b.reset_elapsed]

RecordFailure(b) ==
  LET n == IF b.consecutive_failures < FailureThreshold
             THEN b.consecutive_failures + 1
             ELSE b.consecutive_failures
      c == [b EXCEPT !.probe_reserved = FALSE, !.consecutive_failures = n]
  IN  IF \/ b.state = HALF_OPEN
         \/ b.state = CLOSED /\ n >= FailureThreshold
        THEN Transition(c, OPEN)
        ELSE c

ReleaseProbe(b) == [b EXCEPT !.probe_reserved = FALSE]

(* The clock passes _opened_at + reset_seconds. *)
ResetElapses(b) == [b EXCEPT !.reset_elapsed = TRUE]
=============================================================================
