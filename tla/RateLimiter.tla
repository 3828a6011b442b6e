----------------------------- MODULE RateLimiter -----------------------------
(***************************************************************************)
(* The token buckets of observability/ratelimit.py.  The limiter's fields   *)
(* are one record, and every method, which the code runs under the lock, is *)
(* an operator on it.  Clients and conversations are namespaced keys of one *)
(* table.                                                                   *)
(*                                                                         *)
(* Time is counted in ticks and a bucket's content in the ticks it takes to *)
(* refill it, so the refill rate is 1 and a token is One.  The code counts  *)
(* both in floating point; rounding is not modelled.                        *)
(***************************************************************************)
EXTENDS Integers, FiniteSets

CONSTANTS
    Clients, Conversations,
    One,             \* ticks to refill a token: 60 / requests_per_minute seconds
    Burst,           \* the burst, in ticks
    Ttl,             \* identity_ttl_seconds, in ticks
    TicksPerSecond,
    MaxIdentities    \* max_identities

(* The constructor refuses limits that are not positive.  A table with room *)
(* for one bucket is accepted, but there the bucket of a conversation       *)
(* evicts that of its client; and the lifetime of an idle bucket is only    *)
(* harmless if the bucket is full by then.  The defaults, 10,000 buckets    *)
(* that fill in 15 seconds and live for an hour, are far from both.         *)
ASSUME LimiterAssumption ==
    /\ IsFiniteSet(Clients) /\ IsFiniteSet(Conversations)
    /\ Clients \cap Conversations = {}
    /\ One \in Nat \ {0} /\ TicksPerSecond \in Nat \ {0}
    /\ Burst \in Nat /\ Burst >= One
    /\ Ttl \in Nat /\ Ttl >= Burst
    /\ MaxIdentities \in Nat /\ MaxIdentities >= 2

Keys == Clients \cup Conversations

(* _tokens and _updated have the keys in resident; the fields of the other  *)
(* keys have no meaning and are 0.                                          *)
Table(resident, tokens, updated, last_sweep) ==
    [resident |-> resident,
     tokens |-> [k \in Keys |-> IF k \in resident THEN tokens[k] ELSE 0],
     updated |-> [k \in Keys |-> IF k \in resident THEN updated[k] ELSE 0],
     last_sweep |-> last_sweep]

NewLimiter == Table({}, [k \in Keys |-> 0], [k \in Keys |-> 0], 0)

ExpireStale(l, now) ==
    Table({k \in l.resident : now - l.updated[k] <= Ttl}, l.tokens, l.updated, now)

(* The sweep at the start of _consume, at most once per half lifetime. *)
Sweep(l, now) ==
    IF 2 * (now - l.last_sweep) >= Ttl THEN ExpireStale(l, now) ELSE l

(* min(self._updated, key=...): of several that are equally cold the first   *)
(* in the dictionary, here any.                                             *)
Coldest(l) == {k \in l.resident : \A j \in l.resident : l.updated[k] <= l.updated[j]}

(* Mutants: room is made when the table is above its limit; any bucket makes *)
(* room.                                                                    *)
MakeRoomTooLate(l, key) ==
    IF key \in l.resident \/ Cardinality(l.resident) <= MaxIdentities THEN {l}
    ELSE {Table(l.resident \ {k}, l.tokens, l.updated, l.last_sweep) : k \in Coldest(l)}

MakeRoomAnywhere(l, key) ==
    IF key \in l.resident \/ Cardinality(l.resident) < MaxIdentities THEN {l}
    ELSE {Table(l.resident \ {k}, l.tokens, l.updated, l.last_sweep) : k \in l.resident}

(* The tables that may result.  The loop in _make_room ends after one       *)
(* eviction, since the table is never above its limit.                      *)
MakeRoom(l, key) ==
    IF key \in l.resident \/ Cardinality(l.resident) < MaxIdentities THEN {l}
    ELSE {Table(l.resident \ {k}, l.tokens, l.updated, l.last_sweep) : k \in Coldest(l)}

Smaller(a, b) == IF a <= b THEN a ELSE b

(* The bucket's content when it is asked for a token. *)
Refilled(l, key, now) ==
    IF key \in l.resident THEN Smaller(Burst, l.tokens[key] + (now - l.updated[key]))
    ELSE Burst

HasToken(l, key, now) == Refilled(l, key, now) >= One

(* The rest of _consume: what is left in the bucket, now stamped. *)
Consume(l, key, now) ==
    LET left == IF HasToken(l, key, now) THEN Refilled(l, key, now) - One
                ELSE Refilled(l, key, now)
    IN  Table(l.resident \cup {key}, [l.tokens EXCEPT ![key] = left],
              [l.updated EXCEPT ![key] = now], l.last_sweep)

(* Mutant: rounds down. *)
SecondsRoundedDown(l, key) ==
    LET deficit == One - l.tokens[key]
    IN  IF deficit <= 0 \/ deficit < TicksPerSecond THEN 1 ELSE deficit \div TicksPerSecond

SecondsUntilToken(l, key) ==
    LET deficit == One - l.tokens[key]
    IN  IF deficit <= 0 THEN 1 ELSE deficit \div TicksPerSecond + 1

=============================================================================
