---------------------------- MODULE UpstreamCall ----------------------------
(***************************************************************************)
(* Concurrent inference calls through one provider: _resilient_send of      *)
(* providers/llm.py with with_retries of providers/resilience.py, around    *)
(* the shared circuit breaker.  A step is what one asyncio task does        *)
(* between two awaits; what happens to the request on the network           *)
(* (connecting, delivery, an answer, an error, a cancellation by a client   *)
(* that disconnects) is the environment's choice.                           *)
(***************************************************************************)
EXTENDS CircuitBreaker

CONSTANTS Calls,        \* call sites in flight at the same time
          MaxRetries    \* settings.max_retries

ASSUME RetriesAssumption == MaxRetries \in Nat

VARIABLES breaker,      \* the provider's CircuitBreaker
          call          \* the progress of each call

vars == <<breaker, call>>

(* phase: "idle", "sending" (awaiting client.send, nothing delivered yet),  *)
(* "delivered" (awaiting client.send, the endpoint has the request) or      *)
(* "backoff" (asleep between two attempts).  attempt is the loop variable   *)
(* of with_retries.  Two fields record history only: admitted is the state  *)
(* of the circuit that let the call through, deliveries counts how often    *)
(* the endpoint received this call's request.                               *)
Idle == [phase |-> "idle", attempt |-> 0, admitted |-> CLOSED, deliveries |-> 0]

CallRecord == [phase : {"idle", "sending", "delivered", "backoff"},
               attempt : 0 .. MaxRetries,
               admitted : {CLOSED, HALF_OPEN},
               deliveries : 0 .. MaxRetries + 1]

InFlight(c) == call[c].phase # "idle"

Probes == {c \in Calls : InFlight(c) /\ call[c].admitted = HALF_OPEN}

Init ==
  /\ breaker = NewBreaker
  /\ call = [c \in Calls |-> Idle]

-----------------------------------------------------------------------------
Admit(c) ==
  /\ ~InFlight(c)
  /\ Allowed(breaker)
  /\ breaker' = AllowAttempt(breaker)
  /\ call' = [call EXCEPT ![c] =
                [phase |-> "sending", attempt |-> 0,
                 admitted |-> CurrentState(breaker).state, deliveries |-> 0]]

(* The error message of a refused call reads breaker.state, which may       *)
(* itself half-open the circuit.                                            *)
Refuse(c) ==
  /\ ~InFlight(c)
  /\ ~Allowed(breaker)
  /\ breaker' = CurrentState(AllowAttempt(breaker))
  /\ UNCHANGED call

(* The request reaches the endpoint. *)
Deliver(c) ==
  /\ call[c].phase = "sending"
  /\ call' = [call EXCEPT ![c].phase = "delivered", ![c].deliveries = @ + 1]
  /\ UNCHANGED breaker

(* Mutant: one attempt too many. *)
RetryOnceMore(c) ==
  /\ call[c].phase = "sending"
  /\ call[c].attempt <= MaxRetries
  /\ call' = [call EXCEPT ![c].phase = "backoff"]
  /\ UNCHANGED breaker

(* ConnectError or ConnectTimeout with attempts left: sleep, then resend. *)
RetryLater(c) ==
  /\ call[c].phase = "sending"
  /\ call[c].attempt < MaxRetries
  /\ call' = [call EXCEPT ![c].phase = "backoff"]
  /\ UNCHANGED breaker

Resend(c) ==
  /\ call[c].phase = "backoff"
  /\ call' = [call EXCEPT ![c].phase = "sending", ![c].attempt = @ + 1]
  /\ UNCHANGED breaker

(* ConnectError or ConnectTimeout on the last attempt. *)
ConnectExhausted(c) ==
  /\ call[c].phase = "sending"
  /\ call[c].attempt = MaxRetries
  /\ breaker' = ReleaseProbe(RecordFailure(breaker))
  /\ call' = [call EXCEPT ![c] = Idle]

(* Mutant: every transport error is retried, delivered or not. *)
RetryEveryTransportError(c) ==
  /\ call[c].phase \in {"sending", "delivered"}
  /\ call[c].attempt < MaxRetries
  /\ call' = [call EXCEPT ![c].phase = "backoff"]
  /\ UNCHANGED breaker

(* Any other httpx.HTTPError (read timeout, write error, protocol error,    *)
(* pool timeout): neither retried nor counted.                              *)
TransportError(c) ==
  /\ call[c].phase \in {"sending", "delivered"}
  /\ breaker' = ReleaseProbe(breaker)
  /\ call' = [call EXCEPT ![c] = Idle]

(* Any HTTP answer, a 5xx included. *)
Answer(c) ==
  /\ call[c].phase = "delivered"
  /\ breaker' = ReleaseProbe(RecordSuccess(breaker))
  /\ call' = [call EXCEPT ![c] = Idle]

(* CancelledError or an unclassified error at an await. *)
Cancel(c) ==
  /\ InFlight(c)
  /\ breaker' = ReleaseProbe(breaker)
  /\ call' = [call EXCEPT ![c] = Idle]

(* GET /readyz and the diagnostics read breaker.state. *)
ReadState ==
  /\ breaker' = CurrentState(breaker)
  /\ UNCHANGED call

TimePasses ==
  /\ breaker.state = OPEN
  /\ ~breaker.reset_elapsed
  /\ breaker' = ResetElapses(breaker)
  /\ UNCHANGED call

(* What an admitted call goes on to do. *)
Proceed(c) ==
  \/ Deliver(c)
  \/ RetryLater(c)
  \/ Resend(c)
  \/ ConnectExhausted(c)
  \/ TransportError(c)
  \/ Answer(c)
  \/ Cancel(c)

Next ==
  \/ \E c \in Calls : Admit(c) \/ Refuse(c) \/ Proceed(c)
  \/ ReadState
  \/ TimePasses

Spec == Init /\ [][Next]_vars

(* The connect, read, write and pool timeouts of the client end a send that *)
(* stalls and asyncio.sleep returns, so an admitted call goes on; the clock *)
(* advances.  The read timeout is per read: of the endpoint it is assumed   *)
(* that a response it started does not trickle in for ever.                 *)
FairSpec == /\ Spec
            /\ \A c \in Calls : WF_vars(Proceed(c))
            /\ WF_vars(TimePasses)

-----------------------------------------------------------------------------
TypeOK ==
  /\ breaker \in Breaker
  /\ call \in [Calls -> CallRecord]

(* A reservation never outlives its holder: whenever the breaker holds a    *)
(* probe reservation, the circuit is half open and a call that it admitted  *)
(* as a probe is still in flight (release_probe's docstring: a leaked       *)
(* reservation would block all traffic indefinitely).                       *)
ReservationHeld ==
  breaker.probe_reserved => breaker.state = HALF_OPEN /\ Probes # {}

(* The circuit is closed exactly while the count of consecutive connect     *)
(* failures is below the threshold, whatever outcomes of calls admitted     *)
(* earlier arrive late.                                                     *)
CountMatchesState ==
  (breaker.state = CLOSED) <=>
    (breaker.consecutive_failures < FailureThreshold)

(* A request that the endpoint may have accepted is never sent again:       *)
(* RETRYABLE_TRANSPORT_ERRORS holds only failures before the send, so one   *)
(* call is at most one inference.                                           *)
NeverResent ==
  \A c \in Calls : /\ call[c].deliveries <= 1
                   /\ call[c].phase \in {"sending", "backoff"}
                        => call[c].deliveries = 0

(* The breaker cannot stay shut: again and again it is willing to admit a   *)
(* call, however calls end (_resilient_send: "the breaker can never stay    *)
(* pinned in HALF_OPEN").                                                   *)
NeverPinned == []<>Allowed(breaker)

(* The contract in CircuitBreaker's docstring: in HALF_OPEN exactly one     *)
(* concurrent caller may probe upstream, every other one fails fast until   *)
(* the probe resolves.                                                      *)
ExclusiveProbe ==
  \A c, d \in Probes : breaker.state = HALF_OPEN => c = d
=============================================================================
