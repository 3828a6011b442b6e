------------------------------- MODULE Gateway -------------------------------
(***************************************************************************)
(* ObservabilityMiddleware of observability/middleware.py in front of the   *)
(* application, with the rate limiter: what happens to a request before it  *)
(* reaches a handler and how its end is accounted for.  Requests are served *)
(* concurrently in slots; up to the first await a request runs undisturbed, *)
(* so the checks on its headers and the admission are one step.             *)
(***************************************************************************)
EXTENDS RateLimiter, Sequences

CONSTANTS
    Slots,       \* requests served at a time
    Statuses,    \* what the application answers
    MaxBody,     \* max_body_bytes, in pieces of a body
    Waits,       \* bound: ticks between two readings of the clock
    MaxTime      \* bound: the last admission

VARIABLES
    limiter,     \* the RateLimiter
    clock,       \* when it was last asked
    request,     \* slot -> the request in it
    spent,       \* history: client -> tokens taken from its bucket, in ticks
    allowance,   \* history: client -> bursts it was entitled to, in ticks
    promised     \* history: key -> when Retry-After let it hope for a token

vars == <<limiter, clock, request, spent, allowance, promised>>

quota == <<limiter, clock, spent, allowance, promised>>

(* No two admissions read the same time: time.monotonic counts nanoseconds   *)
(* on Linux.  On a clock with ties the bucket of a client might be as cold  *)
(* as the others when its own conversation needs room.                      *)
ASSUME GatewayAssumption ==
    /\ Waits \subseteq Nat \ {0} /\ MaxTime \in Nat
    /\ MaxBody \in Nat /\ Statuses \subseteq Nat \ {0}

(* Not a status, not a time, not a conversation. *)
NoStatus == 0
NoPromise == 0
NoConversation == "no conversation"

(* status is state["response_status"], sent the status the client saw; the  *)
(* last fields are what this request added to the counters.                 *)
Request(phase, code) ==
    [phase |-> phase, code |-> code, size |-> 0, refused_by |-> {},
     status |-> NoStatus, sent |-> NoStatus, cancelled |-> FALSE,
     counted |-> <<>>, disconnects |-> 0, aborted |-> 0]

Unused == Request("ended", NoStatus)

Init ==
    /\ limiter = NewLimiter /\ clock = 0
    /\ request = [r \in Slots |-> Unused]
    /\ spent = [c \in Clients |-> 0]
    /\ allowance = [c \in Clients |-> Burst]
    /\ promised = [k \in Keys |-> NoPromise]

Become(r, q) == request' = [request EXCEPT ![r] = q]

-----------------------------------------------------------------------------
(* Up to the first await.                                                   *)

Free(r) == request[r].phase = "ended"

(* Content-Length above the limit. *)
TooLarge(r) ==
    /\ Free(r)
    /\ Become(r, Request("reject", 413))
    /\ UNCHANGED quota

(* A body without Content-Length is drained first. *)
GoOn(r, chunked) == Become(r, Request(IF chunked THEN "body" ELSE "app", NoStatus))

(* Health and metrics, or the limiter is not enabled. *)
Exempt(r, chunked) ==
    /\ Free(r)
    /\ GoOn(r, chunked)
    /\ UNCHANGED quota

(* admit() took a token from the buckets in granted. *)
Pass(r, l, granted, chunked) ==
    /\ limiter' = l
    /\ promised' = [k \in Keys |-> IF k \in granted THEN NoPromise ELSE promised[k]]
    /\ GoOn(r, chunked)

(* It took those but the bucket of key had none: 429 with Retry-After. *)
Refuse(r, l, granted, key, now) ==
    /\ limiter' = l
    /\ promised' = [k \in Keys |->
                       CASE k = key -> now + SecondsUntilToken(l, key) * TicksPerSecond
                         [] k \in granted -> NoPromise
                         [] OTHER -> promised[k]]
    /\ Become(r, [Request("reject", 429) EXCEPT !.refused_by = {key}])

(* admit(): a token of the client's bucket, then one of the conversation's   *)
(* if the header names one.  A refusal by the second keeps the first.       *)
Admit(r, c, v, chunked, now) ==
    \E l \in MakeRoom(Sweep(limiter, now), c) :
        LET paid == Consume(l, c, now)
        IN  IF HasToken(l, c, now)
            THEN /\ spent' = [spent EXCEPT ![c] = @ + One]
                 /\ \/ v = NoConversation /\ Pass(r, paid, {c}, chunked)
                    \/ /\ v # NoConversation
                       /\ \E m \in MakeRoom(Sweep(paid, now), v) :
                            IF HasToken(m, v, now)
                            THEN Pass(r, Consume(m, v, now), {c, v}, chunked)
                            ELSE Refuse(r, Consume(m, v, now), {c}, v, now)
            ELSE Refuse(r, paid, {}, c, now) /\ UNCHANGED spent

(* A client whose bucket made room for another client's request is entitled  *)
(* to a new burst, but not one whose own requests did that.                 *)
Entitle(c, swept) ==
    allowance' = [d \in Clients |->
        IF d # c /\ d \in swept.resident \ limiter'.resident
        THEN allowance[d] + Burst ELSE allowance[d]]

Limit(r, c, v, chunked) ==
    /\ Free(r)
    /\ \E wait \in Waits :
          /\ clock + wait <= MaxTime
          /\ clock' = clock + wait
          /\ Admit(r, c, v, chunked, clock + wait)
          /\ Entitle(c, Sweep(limiter, clock + wait))

-----------------------------------------------------------------------------
(* The rest of a request.                                                   *)

(* The finally block: a request with a status is counted, once. *)
Finish(r, q) ==
    /\ Become(r, [q EXCEPT !.phase = "ended",
                           !.counted = IF q.status = NoStatus THEN @
                                       ELSE Append(@, q.status)])
    /\ UNCHANGED quota

(* _drain_body receives a piece of the body, the last or not. *)
ReadBody(r, pieces, more) ==
    LET size == request[r].size + pieces
    IN  /\ request[r].phase = "body"
        /\ Become(r, CASE size > MaxBody -> Request("reject", 413)
                       [] size <= MaxBody /\ more -> [request[r] EXCEPT !.size = size]
                       [] OTHER -> Request("app", NoStatus))
        /\ UNCHANGED quota

(* The client leaves while its body is drained. *)
Disconnect(r) ==
    /\ request[r].phase = "body"
    /\ Finish(r, [request[r] EXCEPT !.disconnects = @ + 1, !.status = NoStatus])

(* send_wrapper sees http.response.start, of the application or of reject. *)
StartResponse(r, status) ==
    /\ request[r].phase \in {"reject", "app"} /\ request[r].sent = NoStatus
    /\ request[r].phase = "reject" => status = request[r].code
    /\ Become(r, [request[r] EXCEPT !.status = status, !.sent = status])
    /\ UNCHANGED quota

(* The response is complete. *)
Return(r) ==
    /\ request[r].phase \in {"reject", "app"} /\ request[r].sent # NoStatus
    /\ Finish(r, request[r])

(* Mutant: every exception is a 500. *)
RaiseInternalError(r) ==
    /\ request[r].phase = "app"
    /\ Finish(r, [request[r] EXCEPT !.status = 500])

(* The application raises, before or after its response started. *)
Raise(r) ==
    /\ request[r].phase = "app"
    /\ Finish(r, IF request[r].sent # NoStatus THEN [request[r] EXCEPT !.aborted = @ + 1]
                 ELSE [request[r] EXCEPT !.status = 500])

(* The server cancels the task, or sending a rejection fails: neither is     *)
(* caught.                                                                  *)
Cancel(r) ==
    /\ request[r].phase \in {"body", "reject", "app"}
    /\ Finish(r, [request[r] EXCEPT !.cancelled = TRUE])

Next ==
    \E r \in Slots :
        \/ TooLarge(r)
        \/ \E chunked \in BOOLEAN :
              \/ Exempt(r, chunked)
              \/ \E c \in Clients, v \in Conversations \cup {NoConversation} :
                    Limit(r, c, v, chunked)
        \/ \E pieces \in 0 .. MaxBody + 1, more \in BOOLEAN : ReadBody(r, pieces, more)
        \/ Disconnect(r)
        \/ \E status \in Statuses \cup {413, 429} : StartResponse(r, status)
        \/ Return(r)
        \/ Raise(r)
        \/ Cancel(r)

Spec == Init /\ [][Next]_vars

-----------------------------------------------------------------------------

(* The types; the table never has more buckets than max_identities, however *)
(* many identities there are, and no bucket is over-full or in debt.        *)
TypeOK ==
    /\ clock \in Nat
    /\ limiter.resident \subseteq Keys
    /\ Cardinality(limiter.resident) <= MaxIdentities
    /\ limiter.tokens \in [Keys -> 0 .. Burst]
    /\ limiter.updated \in [Keys -> 0 .. clock]
    /\ limiter.last_sweep \in 0 .. clock
    /\ \A r \in Slots : request[r].phase \in {"body", "reject", "app", "ended"}
    /\ \A r \in Slots : request[r].size \in 0 .. MaxBody
    /\ spent \in [Clients -> Nat] /\ allowance \in [Clients -> Nat]
    /\ promised \in [Keys -> Nat]

(* The quota of a client: a burst, what was refilled since, and a burst for *)
(* each time the requests of others pushed its bucket out of the table.     *)
(* Its own requests buy it nothing, whatever conversations they name: its   *)
(* bucket is never the coldest one when its own conversation needs room,    *)
(* and a bucket that expires would have been full.                          *)
QuotaBound == \A c \in Clients : spent[c] <= allowance[c] + clock

(* Who waits as long as Retry-After said finds a token in the bucket that    *)
(* refused, unless somebody took one from it in between; sweeps, evictions  *)
(* and earlier attempts do not matter.                                      *)
RetryAfterKept ==
    [][\A r \in Slots, k \in Keys :
          request[r].phase = "ended" /\ request'[r].phase = "reject" /\ k \in request'[r].refused_by
            => promised[k] = NoPromise \/ clock' < promised[k]]_vars

(* What the client saw of a request that ended, and what was counted. *)
Accounted(q) ==
    \/ /\ q.counted = <<IF q.sent # NoStatus THEN q.sent ELSE 500>>
       /\ q.disconnects = 0
    \/ /\ q.counted = <<>> /\ q.sent = NoStatus /\ q.aborted = 0
       /\ q.disconnects = (IF q.cancelled THEN 0 ELSE 1)

(* Every request that ends is counted once: as a disconnect if the client    *)
(* left while sending the body, else under the status that the client saw,  *)
(* also if the stream broke afterwards, or under 500 if the application     *)
(* failed before it answered.  Only a cancellation before the response goes *)
(* uncounted.                                                               *)
AccountedOnce ==
    \A r \in Slots : request[r].phase = "ended" /\ request[r] # Unused => Accounted(request[r])
=============================================================================
