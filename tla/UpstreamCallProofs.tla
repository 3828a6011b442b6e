------------------------- MODULE UpstreamCallProofs -------------------------
(***************************************************************************)
(* Safety of UpstreamCall for any set of concurrent calls, any failure      *)
(* threshold and any number of retries.                                     *)
(***************************************************************************)
EXTENDS UpstreamCall, TLAPS

(* What every method of the breaker does to a well-typed breaker, in the    *)
(* terms of the two invariants: it stays well typed, the count and the      *)
(* state stay in step, and no method but allow_attempt makes a reservation. *)
InStep(b) == (b.state = CLOSED) <=> (b.consecutive_failures < FailureThreshold)

(* _current_state keeps type, count and reservation. *)
LEMMA CurrentStateFacts ==
  ASSUME NEW b \in Breaker
  PROVE  LET c == CurrentState(b)
         IN  /\ c \in Breaker
             /\ InStep(b) => InStep(c)
             /\ c.probe_reserved = b.probe_reserved
             /\ b.state = HALF_OPEN => c.state = HALF_OPEN
BY ThresholdAssumption
   DEF CurrentState, Transition, Breaker, InStep, CLOSED, OPEN, HALF_OPEN

(* allow_attempt reserves only in HALF_OPEN, and nothing when it refuses. *)
LEMMA AllowAttemptFacts ==
  ASSUME NEW b \in Breaker
  PROVE  LET c == AllowAttempt(b)
         IN  /\ c \in Breaker
             /\ InStep(b) => InStep(c)
             /\ c.state = CurrentState(b).state
             /\ c.probe_reserved =>
                  c.state = HALF_OPEN \/ b.probe_reserved
             /\ ~Allowed(b) => c.probe_reserved = b.probe_reserved
BY ThresholdAssumption
   DEF AllowAttempt, Allowed, CurrentState, Transition, Breaker, InStep,
       CLOSED, OPEN, HALF_OPEN

(* release_probe clears the reservation and nothing else. *)
LEMMA ReleaseFacts ==
  ASSUME NEW b \in Breaker
  PROVE  LET c == ReleaseProbe(b)
         IN  /\ c \in Breaker
             /\ c.state = b.state
             /\ c.consecutive_failures = b.consecutive_failures
             /\ c.probe_reserved = FALSE
BY DEF ReleaseProbe, Breaker

(* record_success brings count and state in step. *)
LEMMA SuccessFacts ==
  ASSUME NEW b \in Breaker
  PROVE  RecordSuccess(b) \in Breaker /\ InStep(RecordSuccess(b))
BY ThresholdAssumption
   DEF RecordSuccess, Breaker, InStep, CLOSED, OPEN, HALF_OPEN

(* record_failure keeps count and state in step. *)
LEMMA FailureFacts ==
  ASSUME NEW b \in Breaker
  PROVE  /\ RecordFailure(b) \in Breaker
         /\ InStep(b) => InStep(RecordFailure(b))
<1> DEFINE n == IF b.consecutive_failures < FailureThreshold
                  THEN b.consecutive_failures + 1
                  ELSE b.consecutive_failures
           d == [b EXCEPT !.probe_reserved = FALSE,
                          !.consecutive_failures = n]
           opens == \/ b.state = HALF_OPEN
                    \/ b.state = CLOSED /\ n >= FailureThreshold
<1>1. n \in 0 .. FailureThreshold /\ n >= b.consecutive_failures
  BY ThresholdAssumption DEF Breaker
<1>2. RecordFailure(b) = IF opens THEN Transition(d, OPEN) ELSE d
  BY DEF RecordFailure
<1> HIDE DEF n
<1>3. /\ d \in Breaker
      /\ d.state = b.state
      /\ d.consecutive_failures = n
  BY <1>1 DEF Breaker
<1>4. CASE opens
  <2>1. InStep(b) => n = FailureThreshold
    BY <1>1, <1>4, ThresholdAssumption DEF InStep, Breaker, CLOSED, HALF_OPEN
  <2> HIDE DEF d
  <2>2. /\ Transition(d, OPEN) \in Breaker
        /\ Transition(d, OPEN).state = OPEN
        /\ Transition(d, OPEN).consecutive_failures = n
    BY <1>3 DEF Transition, Breaker, OPEN, CLOSED, HALF_OPEN
  <2>3. QED
    BY <1>2, <1>4, <2>1, <2>2, ThresholdAssumption DEF InStep, OPEN, CLOSED
<1>5. CASE ~opens
  <2>1. InStep(b) => InStep(d)
    BY <1>1, <1>3, <1>5, ThresholdAssumption DEF InStep, Breaker, CLOSED
  <2>2. QED
    BY <1>2, <1>3, <1>5, <2>1
<1>6. QED
  BY <1>4, <1>5

(* Every way for a call to end leaves no reservation behind. *)
LEMMA OutcomeFacts ==
  ASSUME NEW b \in Breaker,
         NEW c \in {ReleaseProbe(b), ReleaseProbe(RecordSuccess(b)),
                    ReleaseProbe(RecordFailure(b))}
  PROVE  /\ c \in Breaker
         /\ InStep(b) => InStep(c)
         /\ c.probe_reserved = FALSE
<1>1. ASSUME NEW d \in Breaker, InStep(b) => InStep(d), c = ReleaseProbe(d)
      PROVE  /\ c \in Breaker
             /\ InStep(b) => InStep(c)
             /\ c.probe_reserved = FALSE
  BY <1>1, ReleaseFacts DEF InStep
<1>2. CASE c = ReleaseProbe(b)
  BY <1>1, <1>2
<1>3. CASE c = ReleaseProbe(RecordSuccess(b))
  BY <1>1, <1>3, SuccessFacts
<1>4. CASE c = ReleaseProbe(RecordFailure(b))
  BY <1>1, <1>4, FailureFacts
<1>5. QED
  BY <1>2, <1>3, <1>4

-----------------------------------------------------------------------------
(* The types and the bound on deliveries rest on each other. *)
LEMMA TypesAndDeliveries == Spec => [](TypeOK /\ NeverResent)
<1>1. Init => TypeOK /\ NeverResent
  BY ThresholdAssumption, RetriesAssumption
     DEF Init, TypeOK, NeverResent, NewBreaker, Breaker, Idle, CallRecord,
         CLOSED, OPEN, HALF_OPEN
<1>2. TypeOK /\ NeverResent /\ [Next]_vars => (TypeOK /\ NeverResent)'
  <2> SUFFICES ASSUME TypeOK, NeverResent, [Next]_vars
               PROVE  TypeOK' /\ NeverResent'
    OBVIOUS
  <2> USE RetriesAssumption DEF TypeOK
  <2>0. Idle \in CallRecord /\ Idle.deliveries = 0 /\ Idle.phase = "idle"
    BY DEF Idle, CallRecord
  <2>1. ASSUME NEW c \in Calls, Admit(c)
        PROVE  TypeOK' /\ NeverResent'
    <3> DEFINE r == [phase |-> "sending", attempt |-> 0,
                     admitted |-> CurrentState(breaker).state,
                     deliveries |-> 0]
    <3>1. r \in CallRecord /\ r.deliveries = 0
      BY <2>1, AllowAttemptFacts DEF Admit, Allowed, CallRecord
    <3>2. call' = [call EXCEPT ![c] = r] /\ breaker' \in Breaker
      BY <2>1, AllowAttemptFacts DEF Admit
    <3> HIDE DEF r
    <3>3. QED
      BY <3>1, <3>2 DEF NeverResent
  <2>2. ASSUME NEW c \in Calls, Refuse(c)
        PROVE  TypeOK' /\ NeverResent'
    BY <2>2, AllowAttemptFacts, CurrentStateFacts DEF Refuse, NeverResent
  <2>3. ASSUME NEW c \in Calls, Deliver(c)
        PROVE  TypeOK' /\ NeverResent'
    BY <2>3 DEF Deliver, NeverResent, CallRecord
  <2>4. ASSUME NEW c \in Calls, RetryLater(c)
        PROVE  TypeOK' /\ NeverResent'
    BY <2>4 DEF RetryLater, NeverResent, CallRecord
  <2>5. ASSUME NEW c \in Calls, Resend(c)
        PROVE  TypeOK' /\ NeverResent'
    BY <2>5 DEF Resend, NeverResent, CallRecord
  <2>6. ASSUME NEW c \in Calls,
               ConnectExhausted(c) \/ TransportError(c) \/ Answer(c) \/ Cancel(c)
        PROVE  TypeOK' /\ NeverResent'
    <3>1. breaker' \in Breaker /\ call' = [call EXCEPT ![c] = Idle]
      BY <2>6, OutcomeFacts DEF ConnectExhausted, TransportError, Answer, Cancel
    <3>2. QED
      BY <2>0, <3>1 DEF NeverResent
  <2>7. CASE ReadState
    BY <2>7, CurrentStateFacts DEF ReadState, NeverResent
  <2>8. CASE TimePasses
    BY <2>8 DEF TimePasses, ResetElapses, Breaker, NeverResent
  <2>9. CASE UNCHANGED vars
    BY <2>9 DEF vars, NeverResent
  <2>10. QED
    BY <2>1, <2>2, <2>3, <2>4, <2>5, <2>6, <2>7, <2>8, <2>9 DEF Next, Proceed
<1>3. QED
  BY <1>1, <1>2, PTL DEF Spec

(* Every reachable state is well typed, for every set of calls, threshold   *)
(* and retry bound; in particular the retry loop of with_retries never runs *)
(* past max_retries.                                                        *)
THEOREM TypeCorrect == Spec => []TypeOK
BY TypesAndDeliveries, PTL

(* A request that may have reached the backend is never sent again by       *)
(* with_retries, for every set of calls and every retry bound.              *)
THEOREM NeverResentCorrect == Spec => []NeverResent
BY TypesAndDeliveries, PTL

(* A reservation never leaks, for every number of callers: while one is     *)
(* held the circuit is half open and the call it was made for is in flight. *)
THEOREM ReservationCorrect == Spec => []ReservationHeld
<1>1. Init => ReservationHeld
  BY DEF Init, NewBreaker, ReservationHeld
<1>2. TypeOK /\ ReservationHeld /\ [Next]_vars => ReservationHeld'
  <2> SUFFICES ASSUME TypeOK, ReservationHeld, [Next]_vars,
                      breaker'.probe_reserved
               PROVE  breaker'.state = HALF_OPEN /\ Probes' # {}
    BY DEF ReservationHeld
  <2> USE DEF TypeOK
  <2>0. ASSUME UNCHANGED call, breaker.probe_reserved
        PROVE  Probes' # {}
    BY <2>0 DEF ReservationHeld, Probes, InFlight
  <2>1. ASSUME NEW c \in Calls, Admit(c)
        PROVE  breaker'.state = HALF_OPEN /\ Probes' # {}
    <3>1. breaker'.state = HALF_OPEN
      BY <2>1, AllowAttemptFacts, CurrentStateFacts DEF Admit, ReservationHeld
    <3>2. call'[c].admitted = HALF_OPEN /\ call'[c].phase = "sending"
      BY <2>1, <3>1, AllowAttemptFacts DEF Admit
    <3>3. QED
      BY <3>1, <3>2 DEF Probes, InFlight
  <2>2. ASSUME NEW c \in Calls, Refuse(c)
        PROVE  breaker'.state = HALF_OPEN /\ Probes' # {}
    <3>1. /\ AllowAttempt(breaker) \in Breaker
          /\ breaker' = CurrentState(AllowAttempt(breaker))
          /\ UNCHANGED call
      BY <2>2, AllowAttemptFacts DEF Refuse
    <3>2. AllowAttempt(breaker).probe_reserved
      BY <3>1, CurrentStateFacts
    <3>3. breaker.probe_reserved
      BY <2>2, <3>2, AllowAttemptFacts DEF Refuse
    <3>4. AllowAttempt(breaker).state = HALF_OPEN
      BY <3>3, AllowAttemptFacts, CurrentStateFacts DEF ReservationHeld
    <3>5. QED
      BY <2>0, <3>1, <3>3, <3>4, CurrentStateFacts
  <2>3. ASSUME NEW c \in Calls, Deliver(c) \/ RetryLater(c) \/ Resend(c)
        PROVE  breaker'.state = HALF_OPEN /\ Probes' # {}
    <3>1. breaker' = breaker /\ breaker.state = HALF_OPEN
      BY <2>3 DEF Deliver, RetryLater, Resend, ReservationHeld
    <3>2. PICK d \in Calls : d \in Probes
      BY <3>1 DEF ReservationHeld, Probes
    <3>3. call'[d].admitted = HALF_OPEN /\ call'[d].phase # "idle"
      BY <2>3, <3>2
         DEF Deliver, RetryLater, Resend, Probes, InFlight, CallRecord
    <3>4. QED
      BY <3>1, <3>3 DEF Probes, InFlight
  <2>4. ASSUME NEW c \in Calls,
               ConnectExhausted(c) \/ TransportError(c) \/ Answer(c) \/ Cancel(c)
        PROVE  FALSE
    BY <2>4, OutcomeFacts DEF ConnectExhausted, TransportError, Answer, Cancel
  <2>5. CASE ReadState
    <3>1. breaker.probe_reserved /\ breaker'.state = HALF_OPEN
      BY <2>5, CurrentStateFacts DEF ReadState, ReservationHeld
    <3>2. QED
      BY <2>0, <2>5, <3>1 DEF ReadState
  <2>6. CASE TimePasses
    BY <2>6 DEF TimePasses, ResetElapses, ReservationHeld, Breaker,
                OPEN, HALF_OPEN
  <2>7. CASE UNCHANGED vars
    BY <2>0, <2>7 DEF vars, ReservationHeld
  <2>8. QED
    BY <2>1, <2>2, <2>3, <2>4, <2>5, <2>6, <2>7 DEF Next, Proceed
<1>3. QED
  BY <1>1, <1>2, TypesAndDeliveries, PTL DEF Spec

(* However late the outcome of a call arrives, the circuit is closed        *)
(* exactly while fewer than failure_threshold connect failures have been    *)
(* recorded since the last answer.                                          *)
THEOREM CountCorrect == Spec => []CountMatchesState
<1>1. Init => CountMatchesState
  BY ThresholdAssumption DEF Init, NewBreaker, CountMatchesState
<1>2. TypeOK /\ CountMatchesState /\ [Next]_vars => CountMatchesState'
  <2> SUFFICES ASSUME breaker \in Breaker, InStep(breaker), [Next]_vars
               PROVE  InStep(breaker')
    BY DEF TypeOK, CountMatchesState, InStep
  <2>1. ASSUME NEW c \in Calls, Admit(c) \/ Refuse(c)
        PROVE  InStep(breaker')
    BY <2>1, AllowAttemptFacts, CurrentStateFacts DEF Admit, Refuse
  <2>2. ASSUME NEW c \in Calls, Deliver(c) \/ RetryLater(c) \/ Resend(c)
        PROVE  InStep(breaker')
    BY <2>2 DEF Deliver, RetryLater, Resend
  <2>3. ASSUME NEW c \in Calls,
               ConnectExhausted(c) \/ TransportError(c) \/ Answer(c) \/ Cancel(c)
        PROVE  InStep(breaker')
    BY <2>3, OutcomeFacts DEF ConnectExhausted, TransportError, Answer, Cancel
  <2>4. CASE ReadState
    BY <2>4, CurrentStateFacts DEF ReadState
  <2>5. CASE TimePasses
    BY <2>5 DEF TimePasses, ResetElapses, Breaker, InStep
  <2>6. CASE UNCHANGED vars
    BY <2>6 DEF vars
  <2>7. QED
    BY <2>1, <2>2, <2>3, <2>4, <2>5, <2>6 DEF Next, Proceed
<1>3. QED
  BY <1>1, <1>2, TypesAndDeliveries, PTL DEF Spec
=============================================================================
