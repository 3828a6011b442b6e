---------------------------- MODULE GatewayProofs ----------------------------
(***************************************************************************)
(* The rate limiter keeps its table and its quota, Retry-After can be relied *)
(* on, and requests are accounted for once: for any number of clients,      *)
(* conversations and requests in flight and any limits that satisfy         *)
(* LimiterAssumption (room for two buckets, and a lifetime in which a       *)
(* bucket fills; the constructor accepts less), on a clock without ties.    *)
(* Lemmas say what each operation of the limiter does to the buckets; the   *)
(* invariant of the state machine is then preserved by Limit because of     *)
(* them, and by the other actions because they leave the limiter alone.     *)
(***************************************************************************)
EXTENDS Gateway, FiniteSetTheorems, TLAPS

(* A table that the limiter may have at a time when no bucket was touched    *)
(* after last.                                                              *)
Sound(l, last, now) ==
    /\ l.resident \subseteq Keys
    /\ Cardinality(l.resident) <= MaxIdentities
    /\ l.tokens \in [Keys -> 0 .. Burst]
    /\ l.updated \in [Keys -> 0 .. last]
    /\ l.last_sweep \in 0 .. now

(* The buckets of m are buckets of l, untouched. *)
Subtable(m, l) ==
    /\ m.resident \subseteq l.resident
    /\ \A k \in m.resident : m.tokens[k] = l.tokens[k] /\ m.updated[k] = l.updated[k]

(* Keys are finitely many: the tables are finite sets. *)
LEMMA KeysFinite == IsFiniteSet(Keys)
  BY LimiterAssumption, FS_Union DEF Keys

(* A table with fewer buckets, in particular what _expire_stale and          *)
(* _make_room leave.                                                        *)
LEMMA Shrink ==
  ASSUME NEW l, NEW last \in Nat, NEW now \in Nat, Sound(l, last, now),
         NEW R \in SUBSET l.resident, NEW t \in 0 .. now
  PROVE  /\ Sound(Table(R, l.tokens, l.updated, t), last, now)
         /\ Subtable(Table(R, l.tokens, l.updated, t), l)
         /\ Table(R, l.tokens, l.updated, t).resident = R
<1> DEFINE m == Table(R, l.tokens, l.updated, t)
<1>1. m.resident = R /\ m.last_sweep = t
  BY DEF Table
<1>2. m.tokens \in [Keys -> 0 .. Burst]
  BY LimiterAssumption DEF Table, Sound
<1>3. m.updated \in [Keys -> 0 .. last]
  BY DEF Table, Sound
<1>4. Cardinality(R) <= MaxIdentities
  <2>1. IsFiniteSet(l.resident)
    BY KeysFinite, FS_Subset DEF Sound
  <2>2. Cardinality(R) \in Nat /\ Cardinality(l.resident) \in Nat
        /\ Cardinality(R) <= Cardinality(l.resident)
    BY <2>1, FS_Subset, FS_CardinalityType
  <2> QED BY <2>2, LimiterAssumption DEF Sound
<1>5. Subtable(m, l)
  BY <1>1 DEF Table, Subtable, Sound
<1> QED BY <1>1, <1>2, <1>3, <1>4, <1>5 DEF Sound

(* The sweep of _consume drops idle buckets and nothing else. *)
LEMMA SweepFacts ==
  ASSUME NEW l, NEW last \in Nat, NEW now \in Nat, last <= now, Sound(l, last, now)
  PROVE  /\ Sound(Sweep(l, now), last, now)
         /\ Subtable(Sweep(l, now), l)
         /\ \A k \in l.resident \ Sweep(l, now).resident : now - l.updated[k] > Ttl
<1>1. CASE 2 * (now - l.last_sweep) >= Ttl
  <2> DEFINE R == {k \in l.resident : now - l.updated[k] <= Ttl}
  <2>1. Sweep(l, now) = Table(R, l.tokens, l.updated, now)
    BY <1>1 DEF Sweep, ExpireStale
  <2>2. \A k \in l.resident : l.updated[k] \in Nat
    BY DEF Sound
  <2>3. Sound(Sweep(l, now), last, now) /\ Subtable(Sweep(l, now), l)
        /\ Sweep(l, now).resident = R
    <3>1. R \in SUBSET l.resident /\ now \in 0 .. now
      OBVIOUS
    <3> HIDE DEF R
    <3>2. /\ Sound(Table(R, l.tokens, l.updated, now), last, now)
          /\ Subtable(Table(R, l.tokens, l.updated, now), l)
          /\ Table(R, l.tokens, l.updated, now).resident = R
      BY <3>1, Shrink, Zenon
    <3> QED BY <2>1, <3>2, Zenon
  <2> QED BY <2>2, <2>3, LimiterAssumption
<1>2. CASE ~(2 * (now - l.last_sweep) >= Ttl)
  BY <1>2 DEF Sweep, Subtable
<1> QED BY <1>1, <1>2

(* _make_room leaves room for the key.  The bucket that was touched last is  *)
(* not the one that goes: this is where a second place in the table counts. *)
LEMMA RoomFacts ==
  ASSUME NEW l, NEW last \in Nat, NEW now \in Nat, Sound(l, last, now),
         NEW key \in Keys, NEW m \in MakeRoom(l, key)
  PROVE  /\ Sound(m, last, now)
         /\ Subtable(m, l)
         /\ key \in m.resident <=> key \in l.resident
         /\ key \in m.resident \/ Cardinality(m.resident) < MaxIdentities
         /\ \A c \in l.resident :
              (\A j \in l.resident \ {c} : l.updated[j] < l.updated[c]) => c \in m.resident
<1>0. IsFiniteSet(l.resident) /\ Cardinality(l.resident) \in Nat
  BY KeysFinite, FS_Subset, FS_CardinalityType DEF Sound
<1>1. CASE key \in l.resident \/ Cardinality(l.resident) < MaxIdentities
  <2>1. m = l
    BY <1>1 DEF MakeRoom
  <2> QED BY <2>1, <1>1 DEF Subtable
<1>2. CASE ~(key \in l.resident \/ Cardinality(l.resident) < MaxIdentities)
  <2>1. PICK k \in Coldest(l) :
          m = Table(l.resident \ {k}, l.tokens, l.updated, l.last_sweep)
    BY <1>2 DEF MakeRoom
  <2>2. k \in l.resident
    BY DEF Coldest
  <2>3. /\ Sound(m, last, now) /\ Subtable(m, l) /\ m.resident = l.resident \ {k}
    <3> DEFINE rest == l.resident \ {k}
               t == l.last_sweep
    <3>1. t \in 0 .. now /\ rest \in SUBSET l.resident
      BY DEF Sound
    <3>2. m = Table(rest, l.tokens, l.updated, t)
      BY <2>1
    <3> HIDE DEF rest, t
    <3>3. /\ Sound(Table(rest, l.tokens, l.updated, t), last, now)
          /\ Subtable(Table(rest, l.tokens, l.updated, t), l)
          /\ Table(rest, l.tokens, l.updated, t).resident = rest
      BY <3>1, Shrink, Zenon
    <3> QED BY <3>2, <3>3 DEF rest
  <2>4. Cardinality(m.resident) = Cardinality(l.resident) - 1
    BY <1>0, <2>2, <2>3, FS_RemoveElement
  <2>5. Cardinality(m.resident) < MaxIdentities
    BY <1>0, <2>4, LimiterAssumption DEF Sound
  <2>6. ASSUME NEW c \in l.resident,
               \A j \in l.resident \ {c} : l.updated[j] < l.updated[c]
        PROVE  c \in m.resident
    <3>1. SUFFICES ASSUME c = k PROVE FALSE
      BY <2>3
    <3>2. l.resident # {c}
      <4>1. Cardinality({c}) = 1
        BY FS_Singleton
      <4> QED BY <4>1, <1>2, LimiterAssumption
    <3>3. PICK j \in l.resident : j # c
      BY <3>2
    <3>4. l.updated[j] < l.updated[c] /\ l.updated[c] <= l.updated[j]
      BY <2>6, <3>1, <3>3 DEF Coldest
    <3>5. l.updated[j] \in Nat /\ l.updated[c] \in Nat
      BY DEF Sound
    <3> QED BY <3>4, <3>5
  <2> QED BY <1>2, <2>2, <2>3, <2>5, <2>6
<1> QED BY <1>1, <1>2

(* From l to m, the bucket of key was asked for a token. *)
Consumed(m, l, key, now) ==
    /\ Sound(m, now, now)
    /\ m.resident = l.resident \cup {key}
    /\ m.updated[key] = now
    /\ m.tokens[key] = (IF HasToken(l, key, now) THEN Refilled(l, key, now) - One
                        ELSE Refilled(l, key, now))
    /\ Refilled(l, key, now) \in 0 .. Burst
    /\ \A k \in l.resident \ {key} :
          m.tokens[k] = l.tokens[k] /\ m.updated[k] = l.updated[k]

(* _consume on a table with room stamps the bucket, takes a token if there   *)
(* is one, and touches no other bucket.                                     *)
LEMMA ConsumeFacts ==
  ASSUME NEW l, NEW last \in Nat, NEW now \in Nat, last <= now, Sound(l, last, now),
         NEW key \in Keys,
         key \in l.resident \/ Cardinality(l.resident) < MaxIdentities
  PROVE  Consumed(Consume(l, key, now), l, key, now)
<1> DEFINE m == Consume(l, key, now)
           have == Refilled(l, key, now)
           left == IF HasToken(l, key, now) THEN have - One ELSE have
           R == l.resident \cup {key}
<1>1. have \in 0 .. Burst
  BY LimiterAssumption DEF Refilled, Smaller, Sound
<1>2. left \in 0 .. Burst
  BY <1>1, LimiterAssumption DEF HasToken
<1>3. m = Table(R, [l.tokens EXCEPT ![key] = left], [l.updated EXCEPT ![key] = now],
                l.last_sweep)
  BY DEF Consume
<1>4. /\ m.resident = R /\ m.last_sweep = l.last_sweep
      /\ m.tokens = [k \in Keys |-> IF k \in R THEN [l.tokens EXCEPT ![key] = left][k] ELSE 0]
      /\ m.updated = [k \in Keys |-> IF k \in R THEN [l.updated EXCEPT ![key] = now][k] ELSE 0]
  BY <1>3 DEF Table
<1> HIDE DEF m, left, have
<1>5. R \subseteq Keys
  BY DEF Sound
<1>6. m.tokens[key] = left /\ m.updated[key] = now
  BY <1>4 DEF Sound
<1>7. \A k \in l.resident \ {key} : m.tokens[k] = l.tokens[k] /\ m.updated[k] = l.updated[k]
  BY <1>4, <1>5 DEF Sound
<1>8. Cardinality(R) <= MaxIdentities
  <2>1. IsFiniteSet(l.resident) /\ Cardinality(l.resident) \in Nat
    BY KeysFinite, FS_Subset, FS_CardinalityType DEF Sound
  <2>2. CASE key \in l.resident
    <3>1. R = l.resident
      BY <2>2
    <3> QED BY <3>1 DEF Sound
  <2>3. CASE key \notin l.resident
    <3>1. Cardinality(R) = Cardinality(l.resident) + 1
      BY <2>1, <2>3, FS_AddElement
    <3> QED BY <2>1, <2>3, <3>1, LimiterAssumption
  <2> QED BY <2>2, <2>3
<1>9. m.tokens \in [Keys -> 0 .. Burst]
  BY <1>2, <1>4, LimiterAssumption DEF Sound
<1>10. m.updated \in [Keys -> 0 .. now]
  BY <1>4 DEF Sound
<1>11. Sound(m, now, now)
  BY <1>4, <1>5, <1>8, <1>9, <1>10 DEF Sound
<1> QED BY <1>1, <1>4, <1>6, <1>7, <1>11 DEF m, left, have, Consumed

-----------------------------------------------------------------------------

(* What a client took, with what is in its bucket, stays within its quota;   *)
(* without a bucket it has room for the burst that a new one starts with.   *)
Bound(l, c, s, a, now) ==
    IF c \in l.resident THEN s + l.tokens[c] <= a + l.updated[c]
    ELSE s + Burst <= a + now

(* At the promised time the bucket has a token. *)
Promise(l, k, p) ==
    p # NoPromise /\ k \in l.resident => l.tokens[k] + (p - l.updated[k]) >= One

(* The buckets after the first _consume of admit(), the client's. *)
AfterClient(paid, l, l0, c, now) ==
    /\ Sound(paid, now, now)
    /\ c \in paid.resident /\ paid.updated[c] = now
    /\ paid.tokens[c] = (IF HasToken(l, c, now) THEN Refilled(l, c, now) - One
                         ELSE Refilled(l, c, now))
    /\ Refilled(l, c, now) \in 0 .. Burst
    /\ \A k \in paid.resident \ {c} :
          /\ k \in Sweep(l0, now).resident /\ k \in l0.resident
          /\ paid.tokens[k] = l0.tokens[k] /\ paid.updated[k] = l0.updated[k]
          /\ paid.updated[k] < now
    /\ c \in l.resident => /\ c \in l0.resident
                           /\ l.tokens[c] = l0.tokens[c] /\ l.updated[c] = l0.updated[c]
    /\ c \notin l.resident /\ c \in l0.resident => now - l0.updated[c] > Ttl

(* They are that. *)
LEMMA ClientStep ==
  ASSUME NEW l0, NEW t \in Nat, NEW now \in Nat, t < now, Sound(l0, t, t),
         NEW c \in Clients, NEW l \in MakeRoom(Sweep(l0, now), c)
  PROVE  AfterClient(Consume(l, c, now), l, l0, c, now)
<1> DEFINE sw == Sweep(l0, now)
           paid == Consume(l, c, now)
<1>0. c \in Keys /\ t <= now
  BY DEF Keys
<1>1. Sound(l0, t, now)
  BY DEF Sound
<1>2. Sound(sw, t, now) /\ Subtable(sw, l0)
      /\ \A k \in l0.resident \ sw.resident : now - l0.updated[k] > Ttl
  BY <1>1, SweepFacts
<1> HIDE DEF sw
<1>3. l \in MakeRoom(sw, c)
  BY DEF sw
<1>4. /\ Sound(l, t, now) /\ Subtable(l, sw) /\ (c \in l.resident <=> c \in sw.resident)
      /\ c \in l.resident \/ Cardinality(l.resident) < MaxIdentities
  BY <1>0, <1>2, <1>3, RoomFacts
<1>5. Consumed(paid, l, c, now)
  BY <1>0, <1>4, ConsumeFacts, Zenon
<1> HIDE DEF paid
<1>6. \A k \in l.resident : k \in sw.resident /\ k \in l0.resident
                            /\ l.tokens[k] = l0.tokens[k] /\ l.updated[k] = l0.updated[k]
  BY <1>2, <1>4 DEF Subtable
<1>7. \A k \in l0.resident : l0.updated[k] \in Nat /\ l0.updated[k] < now
  BY DEF Sound
<1>8. ASSUME NEW k \in paid.resident \ {c}
      PROVE  /\ k \in sw.resident /\ k \in l0.resident
             /\ paid.tokens[k] = l0.tokens[k] /\ paid.updated[k] = l0.updated[k]
             /\ paid.updated[k] < now
  BY <1>5, <1>6, <1>7 DEF Consumed
<1>9. c \notin l.resident /\ c \in l0.resident => now - l0.updated[c] > Ttl
  BY <1>2, <1>4
<1> QED BY <1>5, <1>6, <1>8, <1>9 DEF paid, sw, Consumed, AfterClient

(* The buckets after the second, the conversation's. *)
AfterConversation(last, m, p, c, v, now) ==
    /\ Sound(last, now, now)
    /\ c \in last.resident /\ v \in last.resident
    /\ last.updated[v] = now
    /\ last.tokens[v] = (IF HasToken(m, v, now) THEN Refilled(m, v, now) - One
                         ELSE Refilled(m, v, now))
    /\ Refilled(m, v, now) \in 0 .. Burst
    /\ \A k \in last.resident \ {v} :
          /\ k \in p.resident
          /\ last.tokens[k] = p.tokens[k] /\ last.updated[k] = p.updated[k]
    /\ v \in m.resident => /\ v \in p.resident
                           /\ m.tokens[v] = p.tokens[v] /\ m.updated[v] = p.updated[v]

(* They are that: the client's bucket is the only one touched at this time   *)
(* and stays.                                                               *)
LEMMA ConversationStep ==
  ASSUME NEW p, NEW now \in Nat, Sound(p, now, now), NEW c \in Clients,
         c \in p.resident, p.updated[c] = now,
         \A k \in p.resident \ {c} : p.updated[k] < now,
         NEW v \in Conversations, NEW m \in MakeRoom(Sweep(p, now), v)
  PROVE  AfterConversation(Consume(m, v, now), m, p, c, v, now)
<1> DEFINE sw == Sweep(p, now)
           last == Consume(m, v, now)
<1>0. v \in Keys /\ v # c /\ now <= now
  BY LimiterAssumption DEF Keys
<1>1. Sound(sw, now, now) /\ Subtable(sw, p)
      /\ \A k \in p.resident \ sw.resident : now - p.updated[k] > Ttl
  BY <1>0, SweepFacts, Zenon
<1>2. c \in sw.resident
  BY <1>1, LimiterAssumption
<1> HIDE DEF sw
<1>3. m \in MakeRoom(sw, v)
  BY DEF sw
<1>4. \A j \in sw.resident \ {c} : sw.updated[j] < sw.updated[c]
  BY <1>1, <1>2 DEF Subtable
<1>5. /\ Sound(m, now, now) /\ Subtable(m, sw)
      /\ v \in m.resident \/ Cardinality(m.resident) < MaxIdentities
      /\ c \in m.resident
  BY <1>0, <1>1, <1>2, <1>3, <1>4, RoomFacts
<1>6. Consumed(last, m, v, now)
  BY <1>0, <1>5, ConsumeFacts, Zenon
<1> HIDE DEF last
<1>7. \A k \in m.resident : k \in p.resident /\ m.tokens[k] = p.tokens[k]
                                          /\ m.updated[k] = p.updated[k]
  BY <1>1, <1>5 DEF Subtable
<1> QED BY <1>0, <1>5, <1>6, <1>7 DEF last, Consumed, AfterConversation

(* Before it pays, a client has at most what its quota leaves. *)
LEMMA ClientBudget ==
  ASSUME NEW l0, NEW l, NEW t \in Nat, NEW now \in Nat, t < now, Sound(l0, t, t),
         NEW c \in Clients, NEW s \in Nat, NEW a \in Nat, Bound(l0, c, s, a, t),
         c \in l.resident => /\ c \in l0.resident
                            /\ l.tokens[c] = l0.tokens[c]
                            /\ l.updated[c] = l0.updated[c],
         c \notin l.resident /\ c \in l0.resident => now - l0.updated[c] > Ttl
  PROVE  s + Refilled(l, c, now) <= a + now
<1>1. c \in Keys /\ l0.tokens[c] \in Nat /\ l0.updated[c] \in Nat
  BY DEF Keys, Sound
<1>2. CASE c \in l.resident
  BY <1>1, <1>2, LimiterAssumption DEF Bound, Refilled, Smaller
<1>3. CASE c \notin l.resident /\ c \in l0.resident
  BY <1>1, <1>3, LimiterAssumption DEF Bound, Refilled
<1>4. CASE c \notin l.resident /\ c \notin l0.resident
  BY <1>1, <1>4, LimiterAssumption DEF Bound, Refilled
<1> QED BY <1>2, <1>3, <1>4

(* Retry-After, in whole seconds, is at least what is missing. *)
LEMMA RetryAfterSuffices ==
  ASSUME NEW d \in Nat
  PROVE  (d \div TicksPerSecond + 1) * TicksPerSecond >= d
         /\ (d \div TicksPerSecond + 1) * TicksPerSecond \in Nat
<1> DEFINE q == d \div TicksPerSecond
<1>1. q \in Nat /\ d < TicksPerSecond * (q + 1)
  BY LimiterAssumption
<1> HIDE DEF q
<1>2. TicksPerSecond * (q + 1) = (q + 1) * TicksPerSecond /\ (q + 1) * TicksPerSecond \in Nat
  BY <1>1, LimiterAssumption
<1> QED BY <1>1, <1>2 DEF q

(* A bucket that refuses makes a promise that holds. *)
LEMMA PromiseMade ==
  ASSUME NEW l, NEW now \in Nat, Sound(l, now, now), NEW key \in l.resident,
         l.updated[key] = now, l.tokens[key] < One
  PROVE  /\ now + SecondsUntilToken(l, key) * TicksPerSecond \in Nat
         /\ Promise(l, key, now + SecondsUntilToken(l, key) * TicksPerSecond)
<1> DEFINE d == One - l.tokens[key]
<1>1. l.tokens[key] \in Nat /\ d \in Nat /\ ~(d <= 0)
  BY LimiterAssumption DEF Sound
<1>2. SecondsUntilToken(l, key) = d \div TicksPerSecond + 1
  BY <1>1 DEF SecondsUntilToken
<1>3. (d \div TicksPerSecond + 1) * TicksPerSecond >= d
      /\ (d \div TicksPerSecond + 1) * TicksPerSecond \in Nat
  BY <1>1, RetryAfterSuffices
<1> DEFINE wait == (d \div TicksPerSecond + 1) * TicksPerSecond
<1>4. wait >= d /\ wait \in Nat /\ SecondsUntilToken(l, key) * TicksPerSecond = wait
  BY <1>2, <1>3
<1> HIDE DEF wait
<1>5. l.tokens[key] + ((now + wait) - l.updated[key]) >= One
  BY <1>1, <1>4, LimiterAssumption
<1> QED BY <1>4, <1>5 DEF Promise

(* A bucket that refuses does not break one: l is the table in which it is   *)
(* asked, l0 the one in which the promise was known to hold.                *)
LEMMA PromiseKept ==
  ASSUME NEW l0, NEW l, NEW t \in Nat, NEW now \in Nat, Sound(l0, t, t),
         NEW key \in Keys, NEW p \in Nat, Promise(l0, key, p),
         key \in l.resident => /\ key \in l0.resident
                              /\ l.tokens[key] = l0.tokens[key]
                              /\ l.updated[key] = l0.updated[key],
         ~HasToken(l, key, now)
  PROVE  p = NoPromise \/ now < p
<1>1. SUFFICES ASSUME p # NoPromise, p <= now PROVE FALSE
  OBVIOUS
<1>2. key \in l.resident
  BY LimiterAssumption DEF HasToken, Refilled
<1>3. l0.tokens[key] \in Nat /\ l0.updated[key] \in Nat
  BY DEF Sound
<1>4. l0.tokens[key] + (p - l0.updated[key]) >= One
  BY <1>1, <1>2 DEF Promise
<1>5. l0.tokens[key] + (now - l0.updated[key]) >= One
  BY <1>1, <1>3, <1>4, LimiterAssumption
<1> QED BY <1>2, <1>3, <1>5, LimiterAssumption DEF HasToken, Refilled, Smaller

-----------------------------------------------------------------------------

Requests ==
    [phase : {"body", "reject", "app", "ended"}, code : Nat, size : 0 .. MaxBody,
     refused_by : SUBSET Keys, status : Nat, sent : Nat, cancelled : BOOLEAN,
     counted : Seq(Nat), disconnects : Nat, aborted : Nat]

TypeInv ==
    /\ clock \in Nat
    /\ Sound(limiter, clock, clock)
    /\ request \in [Slots -> Requests]
    /\ spent \in [Clients -> Nat] /\ allowance \in [Clients -> Nat]
    /\ promised \in [Keys -> Nat]

QuotaInv == \A c \in Clients : Bound(limiter, c, spent[c], allowance[c], clock)

PromiseInv == \A k \in Keys : Promise(limiter, k, promised[k])

(* Before its end nothing is counted for a request, and its status is the    *)
(* one that was sent.                                                       *)
Open(q) ==
    /\ q.counted = <<>> /\ q.disconnects = 0 /\ q.aborted = 0 /\ ~q.cancelled
    /\ q.status = q.sent
    /\ q.phase = "body" => q.sent = NoStatus

Sane(q) == IF q.phase = "ended" THEN q = Unused \/ Accounted(q) ELSE Open(q)

AccountInv == \A r \in Slots : Sane(request[r])

IInv == TypeInv /\ QuotaInv /\ PromiseInv /\ AccountInv

(* The state after an admission at a time, of the parts that the limiter and *)
(* its histories are.                                                       *)
Admitted(c, now, swept) ==
    /\ Sound(limiter', now, now)
    /\ spent' \in [Clients -> Nat] /\ promised' \in [Keys -> Nat]
    /\ c \in limiter'.resident
    /\ spent'[c] + limiter'.tokens[c] <= allowance[c] + limiter'.updated[c]
    /\ \A d \in Clients \ {c} :
          /\ spent'[d] = spent[d]
          /\ d \in limiter'.resident =>
                /\ d \in swept.resident /\ d \in limiter.resident
                /\ limiter'.tokens[d] = limiter.tokens[d]
                /\ limiter'.updated[d] = limiter.updated[d]
    /\ \A k \in Keys : Promise(limiter', k, promised'[k])

(* The request after an admission; a refusal does not break a promise. *)
Decided(r, now) ==
    \/ \E phase \in {"body", "app"} : Become(r, Request(phase, NoStatus))
    \/ \E k \in Keys :
          /\ promised[k] = NoPromise \/ now < promised[k]
          /\ Become(r, [Request("reject", 429) EXCEPT !.refused_by = {k}])

(* admit() by its outcomes. *)
LEMMA AdmitStep ==
  ASSUME TypeInv, QuotaInv, PromiseInv,
         NEW r \in Slots, NEW c \in Clients, NEW v \in Conversations \cup {NoConversation},
         NEW chunked \in BOOLEAN, NEW now \in Nat, clock < now,
         Admit(r, c, v, chunked, now)
  PROVE  Admitted(c, now, Sweep(limiter, now)) /\ Decided(r, now)
<1>1. PICK l \in MakeRoom(Sweep(limiter, now), c) :
        IF HasToken(l, c, now)
        THEN /\ spent' = [spent EXCEPT ![c] = @ + One]
             /\ \/ v = NoConversation /\ Pass(r, Consume(l, c, now), {c}, chunked)
                \/ /\ v # NoConversation
                   /\ \E m \in MakeRoom(Sweep(Consume(l, c, now), now), v) :
                        IF HasToken(m, v, now)
                        THEN Pass(r, Consume(m, v, now), {c, v}, chunked)
                        ELSE Refuse(r, Consume(m, v, now), {c}, v, now)
        ELSE Refuse(r, Consume(l, c, now), {}, c, now) /\ UNCHANGED spent
  BY DEF Admit
<1>2. /\ clock \in Nat /\ Sound(limiter, clock, clock) /\ c \in Keys
      /\ spent[c] \in Nat /\ allowance[c] \in Nat /\ One \in Nat
      /\ \A k \in Keys : promised[k] \in Nat /\ Promise(limiter, k, promised[k])
  BY LimiterAssumption DEF TypeInv, PromiseInv, Keys
<1>3. Bound(limiter, c, spent[c], allowance[c], clock)
  BY DEF QuotaInv
<1> DEFINE paid == Consume(l, c, now)
<1>4. AfterClient(paid, l, limiter, c, now)
  BY <1>2, ClientStep, Zenon
<1>5. spent[c] + Refilled(l, c, now) <= allowance[c] + now
  <2>1. /\ c \in l.resident => /\ c \in limiter.resident
                              /\ l.tokens[c] = limiter.tokens[c]
                              /\ l.updated[c] = limiter.updated[c]
        /\ c \notin l.resident /\ c \in limiter.resident => now - limiter.updated[c] > Ttl
    BY <1>4 DEF AfterClient
  <2> QED BY <1>2, <1>3, <2>1, ClientBudget
<1> HIDE DEF paid
<1>6. CASE ~HasToken(l, c, now)
  <2>1. Refuse(r, paid, {}, c, now) /\ spent' = spent
    BY <1>1, <1>6 DEF paid
  <2>2. limiter' = paid
    BY <2>1 DEF Refuse
  <2> DEFINE p == now + SecondsUntilToken(paid, c) * TicksPerSecond
  <2>3. promised' = [k \in Keys |-> IF k = c THEN p ELSE promised[k]]
    BY <2>1 DEF Refuse
  <2>4. paid.tokens[c] = Refilled(l, c, now) /\ Refilled(l, c, now) \in Nat
        /\ paid.tokens[c] < One
    BY <1>4, <1>6, LimiterAssumption DEF AfterClient, HasToken
  <2>5. p \in Nat /\ Promise(paid, c, p)
    BY <1>4, <2>4, PromiseMade DEF AfterClient
  <2> HIDE DEF p
  <2>6. \A k \in Keys : Promise(paid, k, promised'[k])
    BY <1>2, <1>4, <2>3, <2>5 DEF AfterClient, Promise
  <2>7. promised[c] = NoPromise \/ now < promised[c]
    <3>1. c \in l.resident => /\ c \in limiter.resident
                             /\ l.tokens[c] = limiter.tokens[c]
                             /\ l.updated[c] = limiter.updated[c]
      BY <1>4 DEF AfterClient
    <3> QED BY <1>2, <1>6, <3>1, PromiseKept
  <2>8. Admitted(c, now, Sweep(limiter, now))
    <3>1. promised' \in [Keys -> Nat] /\ spent' \in [Clients -> Nat]
      BY <1>2, <2>1, <2>3, <2>5 DEF TypeInv
    <3>2. spent'[c] + paid.tokens[c] <= allowance[c] + paid.updated[c]
      BY <1>4, <1>5, <2>1, <2>4 DEF AfterClient
    <3>3. \A d \in Clients \ {c} :
            /\ spent'[d] = spent[d]
            /\ d \in paid.resident =>
                 /\ d \in Sweep(limiter, now).resident /\ d \in limiter.resident
                 /\ paid.tokens[d] = limiter.tokens[d]
                 /\ paid.updated[d] = limiter.updated[d]
      BY <1>4, <2>1 DEF AfterClient
    <3> QED BY <1>4, <2>2, <2>6, <3>1, <3>2, <3>3 DEF Admitted, AfterClient
  <2>9. Decided(r, now)
    BY <1>2, <2>1, <2>7 DEF Decided, Refuse
  <2> QED BY <2>8, <2>9
<1>7. CASE HasToken(l, c, now) /\ v = NoConversation
  <2>1. Pass(r, paid, {c}, chunked) /\ spent' = [spent EXCEPT ![c] = @ + One]
    BY <1>1, <1>7 DEF paid
  <2>2. limiter' = paid
        /\ promised' = [k \in Keys |-> IF k \in {c} THEN NoPromise ELSE promised[k]]
    BY <2>1 DEF Pass
  <2>3. paid.tokens[c] = Refilled(l, c, now) - One /\ Refilled(l, c, now) \in Nat
    BY <1>4, <1>7, LimiterAssumption DEF AfterClient
  <2>4. \A k \in Keys : Promise(paid, k, promised'[k])
    BY <1>2, <1>4, <2>2 DEF AfterClient, Promise
  <2>5. promised' \in [Keys -> Nat] /\ spent' \in [Clients -> Nat]
    BY <1>2, <2>1, <2>2 DEF TypeInv, NoPromise
  <2>6. spent'[c] = spent[c] + One /\ \A d \in Clients \ {c} : spent'[d] = spent[d]
    BY <2>1 DEF TypeInv
  <2>7. spent'[c] + paid.tokens[c] <= allowance[c] + paid.updated[c]
    BY <1>2, <1>4, <1>5, <2>3, <2>6 DEF AfterClient
  <2>8. Admitted(c, now, Sweep(limiter, now))
    BY <1>4, <2>2, <2>4, <2>5, <2>6, <2>7 DEF Admitted, AfterClient
  <2>9. Decided(r, now)
    BY <2>1 DEF Decided, Pass, GoOn
  <2> QED BY <2>8, <2>9
<1>8. CASE HasToken(l, c, now) /\ v # NoConversation
  <2>1. v \in Conversations /\ v \in Keys /\ v # c /\ v \notin Clients
    BY <1>8, LimiterAssumption DEF Keys
  <2>2. spent' = [spent EXCEPT ![c] = @ + One]
    BY <1>1, <1>8
  <2>3. PICK m \in MakeRoom(Sweep(paid, now), v) :
          IF HasToken(m, v, now) THEN Pass(r, Consume(m, v, now), {c, v}, chunked)
          ELSE Refuse(r, Consume(m, v, now), {c}, v, now)
    BY <1>1, <1>8 DEF paid
  <2> DEFINE last == Consume(m, v, now)
  <2>4. AfterConversation(last, m, paid, c, v, now)
    <3>1. /\ Sound(paid, now, now) /\ c \in paid.resident /\ paid.updated[c] = now
          /\ \A k \in paid.resident \ {c} : paid.updated[k] < now
      BY <1>4 DEF AfterClient
    <3> QED BY <2>1, <3>1, ConversationStep, Zenon
  <2>5. \/ HasToken(m, v, now) /\ Pass(r, last, {c, v}, chunked)
        \/ ~HasToken(m, v, now) /\ Refuse(r, last, {c}, v, now)
    BY <2>3
  <2> HIDE DEF last
  <2>6. limiter' = last
    BY <2>5 DEF Pass, Refuse
  <2>7. /\ c \in last.resident /\ last.updated[c] = now /\ last.tokens[c] = paid.tokens[c]
        /\ \A k \in last.resident \ {c, v} :
             /\ k \in Sweep(limiter, now).resident /\ k \in limiter.resident
             /\ last.tokens[k] = limiter.tokens[k] /\ last.updated[k] = limiter.updated[k]
    BY <1>4, <2>1, <2>4 DEF AfterClient, AfterConversation
  <2>8. paid.tokens[c] = Refilled(l, c, now) - One /\ Refilled(l, c, now) \in Nat
    BY <1>4, <1>8, LimiterAssumption DEF AfterClient
  <2>9. spent' \in [Clients -> Nat] /\ spent'[c] = spent[c] + One
        /\ \A d \in Clients \ {c} : spent'[d] = spent[d]
    BY <1>2, <2>2 DEF TypeInv
  <2>10. spent'[c] + last.tokens[c] <= allowance[c] + last.updated[c]
    BY <1>2, <1>5, <2>7, <2>8, <2>9
  <2>11. \A d \in Clients \ {c} : d \in last.resident =>
            /\ d \in Sweep(limiter, now).resident /\ d \in limiter.resident
            /\ last.tokens[d] = limiter.tokens[d] /\ last.updated[d] = limiter.updated[d]
    BY <2>1, <2>7
  <2>12. SUFFICES /\ promised' \in [Keys -> Nat]
                  /\ \A k \in Keys : Promise(last, k, promised'[k])
                  /\ Decided(r, now)
    BY <2>4, <2>6, <2>7, <2>9, <2>10, <2>11 DEF Admitted, AfterConversation
  <2>13. CASE HasToken(m, v, now) /\ Pass(r, last, {c, v}, chunked)
    <3>1. promised' = [k \in Keys |-> IF k \in {c, v} THEN NoPromise ELSE promised[k]]
      BY <2>13 DEF Pass
    <3>2. \A k \in Keys : Promise(last, k, promised'[k])
      BY <1>2, <2>7, <3>1 DEF Promise
    <3>3. promised' \in [Keys -> Nat]
      BY <1>2, <3>1 DEF NoPromise
    <3>4. Decided(r, now)
      BY <2>13 DEF Decided, Pass, GoOn
    <3> QED BY <3>2, <3>3, <3>4
  <2>14. CASE ~HasToken(m, v, now) /\ Refuse(r, last, {c}, v, now)
    <3> DEFINE p == now + SecondsUntilToken(last, v) * TicksPerSecond
    <3>1. promised' = [k \in Keys |-> IF k = v THEN p
                                     ELSE IF k = c THEN NoPromise ELSE promised[k]]
      BY <2>1, <2>14 DEF Refuse
    <3>2. last.tokens[v] < One
      BY <2>4, <2>14, LimiterAssumption DEF AfterConversation, HasToken
    <3>3. p \in Nat /\ Promise(last, v, p)
      BY <2>4, <3>2, PromiseMade DEF AfterConversation
    <3> HIDE DEF p
    <3>4. \A k \in Keys : Promise(last, k, promised'[k])
      BY <1>2, <2>7, <3>1, <3>3 DEF Promise
    <3>5. promised' \in [Keys -> Nat]
      BY <1>2, <3>1, <3>3 DEF NoPromise
    <3>6. promised[v] = NoPromise \/ now < promised[v]
      <4>1. v \in m.resident => /\ v \in limiter.resident
                               /\ m.tokens[v] = limiter.tokens[v]
                               /\ m.updated[v] = limiter.updated[v]
        BY <1>4, <2>1, <2>4 DEF AfterClient, AfterConversation
      <4> QED BY <1>2, <2>1, <2>14, <4>1, PromiseKept
    <3>7. Decided(r, now)
      BY <2>1, <2>14, <3>6 DEF Decided, Refuse
    <3> QED BY <3>4, <3>5, <3>7
  <2> QED BY <2>5, <2>13, <2>14
<1> QED BY <1>6, <1>7, <1>8

(* A request that begins is sane. *)
LEMMA PlainRequest ==
  ASSUME NEW phase \in {"body", "reject", "app"}, NEW code \in Nat
  PROVE  Request(phase, code) \in Requests /\ Sane(Request(phase, code))
  BY GatewayAssumption DEF Request, Requests, Sane, Open, NoStatus

(* So is one that remembers which bucket refused it. *)
LEMMA NewRequest ==
  ASSUME NEW phase \in {"body", "reject", "app"}, NEW code \in Nat, NEW keys \in SUBSET Keys
  PROVE  LET q == [Request(phase, code) EXCEPT !.refused_by = keys]
         IN  q \in Requests /\ Sane(q)
<1> DEFINE p == Request(phase, code)
           q == [p EXCEPT !.refused_by = keys]
<1>1. p \in Requests /\ Sane(p) /\ p.phase = phase
  BY PlainRequest DEF Request
<1> HIDE DEF p
<1>2. q \in Requests /\ q.phase = p.phase /\ q.counted = p.counted /\ q.status = p.status
      /\ q.disconnects = p.disconnects /\ q.aborted = p.aborted
      /\ q.cancelled = p.cancelled /\ q.sent = p.sent
  BY <1>1 DEF Requests
<1> HIDE DEF q
<1>3. Sane(q)
  BY <1>1, <1>2 DEF Sane, Open
<1> QED BY <1>2, <1>3 DEF p, q

(* The finally block: if what is known of the request is right, so is what   *)
(* is counted.                                                              *)
Finished(q) ==
    [q EXCEPT !.phase = "ended",
              !.counted = IF q.status = NoStatus THEN @ ELSE Append(@, q.status)]

(* The record that Finish leaves, if it is called with these facts. *)
LEMMA FinishFacts ==
  ASSUME NEW q \in Requests, q.counted = <<>>,
         \/ /\ q.status = (IF q.sent # NoStatus THEN q.sent ELSE 500)
            /\ q.disconnects = 0
         \/ /\ q.status = NoStatus /\ q.sent = NoStatus /\ q.aborted = 0
            /\ q.disconnects = (IF q.cancelled THEN 0 ELSE 1)
  PROVE  Finished(q) \in Requests /\ Sane(Finished(q))
<1> DEFINE n == IF q.status = NoStatus THEN <<>> ELSE <<q.status>>
           f == Finished(q)
<1>1. q.status \in Nat /\ n \in Seq(Nat)
  BY DEF Requests
<1>2. f = [q EXCEPT !.phase = "ended", !.counted = n]
  BY DEF Finished, Requests
<1> HIDE DEF n, f
<1>3. f \in Requests
  BY <1>1, <1>2 DEF Requests
<1>4. f.phase = "ended" /\ f.counted = n /\ f.sent = q.sent /\ f.aborted = q.aborted
      /\ f.disconnects = q.disconnects /\ f.cancelled = q.cancelled
  BY <1>2 DEF Requests
<1>5. Accounted(f)
  BY <1>1, <1>4 DEF Accounted, n, NoStatus
<1> QED BY <1>3, <1>4, <1>5 DEF Sane, f

(* Actions that leave the limiter alone. *)
LEMMA QuietStep ==
  ASSUME IInv, UNCHANGED quota, NEW r \in Slots, NEW q \in Requests, Sane(q), Become(r, q)
  PROVE  IInv'
<1>1. /\ limiter' = limiter /\ clock' = clock /\ spent' = spent
      /\ allowance' = allowance /\ promised' = promised
  BY DEF quota
<1>2. request' \in [Slots -> Requests] /\ request'[r] = q
      /\ \A s \in Slots \ {r} : request'[s] = request[s]
  BY DEF Become, IInv, TypeInv
<1>3. TypeInv'
  BY <1>1, <1>2 DEF IInv, TypeInv
<1>4. QuotaInv' /\ PromiseInv'
  BY <1>1 DEF IInv, QuotaInv, PromiseInv
<1>5. AccountInv'
  BY <1>2 DEF IInv, AccountInv
<1> QED BY <1>3, <1>4, <1>5 DEF IInv

(* Admission: the quota of the others, with what Entitle adds. *)
LEMMA LimitStep ==
  ASSUME IInv, NEW r \in Slots, NEW c \in Clients,
         NEW v \in Conversations \cup {NoConversation}, NEW chunked \in BOOLEAN,
         Limit(r, c, v, chunked)
  PROVE  IInv' /\ Decided(r, clock')
<1>1. PICK wait \in Waits : /\ clock' = clock + wait
                            /\ Admit(r, c, v, chunked, clock + wait)
                            /\ Entitle(c, Sweep(limiter, clock + wait))
  BY DEF Limit
<1> DEFINE now == clock + wait
           swept == Sweep(limiter, now)
<1>2. now \in Nat /\ clock < now /\ clock \in Nat /\ clock' = now
  BY <1>1, GatewayAssumption DEF IInv, TypeInv
<1>3. Admit(r, c, v, chunked, now) /\ Entitle(c, swept)
  BY <1>1
<1>4. Sound(limiter, clock, now)
  BY <1>2 DEF IInv, TypeInv, Sound
<1>5. clock <= now /\ Sound(limiter, clock, clock)
  BY <1>2 DEF IInv, TypeInv
<1>6. /\ Subtable(swept, limiter)
      /\ \A k \in limiter.resident \ swept.resident : now - limiter.updated[k] > Ttl
  <2> HIDE DEF now
  <2> QED BY <1>2, <1>4, <1>5, SweepFacts, Zenon
<1> HIDE DEF now
<1>7. Admitted(c, now, swept) /\ Decided(r, now)
  BY <1>2, <1>3, AdmitStep DEF IInv
<1> HIDE DEF swept
<1>8. allowance' = [d \in Clients |-> IF d # c /\ d \in swept.resident \ limiter'.resident
                                      THEN allowance[d] + Burst ELSE allowance[d]]
  BY <1>3 DEF Entitle
<1>9. \A d \in Clients : spent[d] \in Nat /\ allowance[d] \in Nat /\ d \in Keys
                         /\ limiter.tokens[d] \in Nat /\ limiter.updated[d] \in Nat
                         /\ limiter.updated[d] <= clock
  BY DEF IInv, TypeInv, Sound, Keys
<1>10. allowance' \in [Clients -> Nat]
  BY <1>8, <1>9, LimiterAssumption
<1>11. PICK q \in Requests : Sane(q) /\ Become(r, q)
  <2>1. CASE \E phase \in {"body", "app"} : Become(r, Request(phase, NoStatus))
    BY <2>1, PlainRequest DEF NoStatus
  <2>2. CASE \E k \in Keys : Become(r, [Request("reject", 429) EXCEPT !.refused_by = {k}])
    BY <2>2, NewRequest
  <2> QED BY <1>7, <2>1, <2>2 DEF Decided
<1>12. request' \in [Slots -> Requests] /\ request'[r] = q
       /\ \A s \in Slots \ {r} : request'[s] = request[s]
  BY <1>11 DEF Become, IInv, TypeInv
<1>13. TypeInv'
  BY <1>2, <1>7, <1>10, <1>12 DEF TypeInv, Admitted
<1>14. AccountInv'
  BY <1>11, <1>12 DEF IInv, AccountInv
<1>15. PromiseInv'
  BY <1>7 DEF Admitted, PromiseInv
<1>16. ASSUME NEW d \in Clients
       PROVE  Bound(limiter', d, spent'[d], allowance'[d], clock')
  <2>1. CASE d = c
    BY <1>7, <1>8, <2>1 DEF Admitted, Bound
  <2>2. CASE d # c /\ d \in limiter'.resident
    <3>1. /\ spent'[d] = spent[d] /\ d \in limiter.resident
          /\ limiter'.tokens[d] = limiter.tokens[d] /\ limiter'.updated[d] = limiter.updated[d]
      BY <1>7, <2>2 DEF Admitted
    <3>2. allowance'[d] = allowance[d]
      BY <1>8, <2>2
    <3> QED BY <2>2, <3>1, <3>2 DEF IInv, QuotaInv, Bound
  <2>3. CASE d # c /\ d \notin limiter'.resident
    <3>1. spent'[d] = spent[d]
      BY <1>7, <2>3 DEF Admitted
    <3>2. Bound(limiter, d, spent[d], allowance[d], clock)
      BY DEF IInv, QuotaInv
    <3>3. CASE d \in swept.resident
      <4>1. d \in limiter.resident /\ allowance'[d] = allowance[d] + Burst
        BY <1>6, <1>8, <2>3, <3>3 DEF Subtable
      <4>2. spent[d] + limiter.tokens[d] <= allowance[d] + limiter.updated[d]
        BY <3>2, <4>1 DEF Bound
      <4>3. spent[d] + Burst <= (allowance[d] + Burst) + now
        BY <1>2, <1>9, <4>2, LimiterAssumption
      <4> QED BY <1>2, <2>3, <3>1, <4>1, <4>3 DEF Bound
    <3>4. CASE d \notin swept.resident
      <4>1. allowance'[d] = allowance[d]
        BY <1>8, <3>4
      <4>2. spent[d] + Burst <= allowance[d] + now
        <5>1. CASE d \in limiter.resident
          <6>1. spent[d] + limiter.tokens[d] <= allowance[d] + limiter.updated[d]
                /\ now - limiter.updated[d] > Ttl
            BY <1>6, <3>2, <3>4, <5>1 DEF Bound
          <6> QED BY <1>2, <1>9, <6>1, LimiterAssumption
        <5>2. CASE d \notin limiter.resident
          BY <1>2, <1>9, <3>2, <5>2, LimiterAssumption DEF Bound
        <5> QED BY <5>1, <5>2
      <4> QED BY <1>2, <2>3, <3>1, <4>1, <4>2 DEF Bound
    <3> QED BY <3>3, <3>4
  <2> QED BY <2>1, <2>2, <2>3
<1>17. QuotaInv'
  BY <1>16 DEF QuotaInv
<1> QED BY <1>2, <1>7, <1>13, <1>14, <1>15, <1>17 DEF IInv

-----------------------------------------------------------------------------
(* The rest of a request: a request that is not over may be taken further.   *)

(* What every step keeps, besides the invariant: RetryAfterKept's formula. *)
Kept ==
    \A r \in Slots, k \in Keys :
        request[r].phase = "ended" /\ request'[r].phase = "reject" /\ k \in request'[r].refused_by
          => promised[k] = NoPromise \/ clock' < promised[k]

(* A step on a request that was not over, or that no bucket refuses. *)
LEMMA KeptQuietly ==
  ASSUME IInv, NEW r \in Slots, NEW q \in Requests, Become(r, q),
         request[r].phase # "ended" \/ q.refused_by = {}
  PROVE  Kept
<1>1. request'[r] = q /\ \A s \in Slots \ {r} : request'[s] = request[s]
  BY DEF Become, IInv, TypeInv
<1> QED BY <1>1 DEF Kept

(* A new phase begins: a rejection, the draining of the body, the application. *)
LEMMA FreshStep ==
  ASSUME IInv, NEW r \in Slots, NEW phase \in {"body", "reject", "app"}, NEW code \in Nat,
         Become(r, Request(phase, code)), UNCHANGED quota
  PROVE  IInv' /\ Kept
<1>1. Request(phase, code) \in Requests /\ Sane(Request(phase, code))
  BY PlainRequest
<1>2. Request(phase, code).refused_by = {}
  BY DEF Request
<1> QED BY <1>1, <1>2, QuietStep, KeptQuietly

(* The three ways on for a body that is drained. *)
LEMMA BodyStep ==
  ASSUME IInv, NEW r \in Slots, NEW pieces \in Nat, NEW more \in BOOLEAN,
         ReadBody(r, pieces, more)
  PROVE  IInv' /\ Kept
<1> DEFINE q == request[r]
           size == q.size + pieces
           p == [q EXCEPT !.size = size]
<1>1. q \in Requests /\ q.phase = "body" /\ Open(q)
  BY DEF IInv, TypeInv, AccountInv, Sane, ReadBody
<1>2. UNCHANGED quota
  BY DEF ReadBody
<1>3. size \in Nat
  BY <1>1, GatewayAssumption DEF Requests
<1>4. \/ Become(r, Request("reject", 413))
      \/ size <= MaxBody /\ Become(r, p)
      \/ Become(r, Request("app", NoStatus))
  BY <1>3, GatewayAssumption DEF ReadBody
<1>5. CASE Become(r, Request("reject", 413))
  BY <1>2, <1>5, FreshStep
<1>6. CASE Become(r, Request("app", NoStatus))
  BY <1>2, <1>6, FreshStep DEF NoStatus
<1>7. CASE size <= MaxBody /\ Become(r, p)
  <2>1. size \in 0 .. MaxBody
    BY <1>3, <1>7, GatewayAssumption
  <2> HIDE DEF q, size
  <2>2. p \in Requests /\ p.phase = q.phase /\ p.counted = q.counted /\ p.status = q.status
        /\ p.disconnects = q.disconnects /\ p.aborted = q.aborted
        /\ p.cancelled = q.cancelled /\ p.sent = q.sent
    BY <1>1, <2>1 DEF Requests
  <2> HIDE DEF p
  <2>3. Sane(p)
    BY <1>1, <2>2 DEF Sane, Open
  <2>4. request[r].phase # "ended"
    BY <1>1 DEF q
  <2> QED BY <1>2, <1>7, <2>2, <2>3, <2>4, QuietStep, KeptQuietly
<1> QED BY <1>4, <1>5, <1>6, <1>7

(* The status that send_wrapper keeps is the one that it sends on. *)
LEMMA StartStep ==
  ASSUME IInv, NEW r \in Slots, NEW status \in Nat \ {0}, StartResponse(r, status)
  PROVE  IInv' /\ Kept
<1> DEFINE q == request[r]
           p == [q EXCEPT !.status = status, !.sent = status]
<1>1. q \in Requests /\ q.phase \in {"reject", "app"} /\ Open(q)
  BY DEF IInv, TypeInv, AccountInv, Sane, StartResponse
<1>2. UNCHANGED quota /\ Become(r, p) /\ request[r].phase # "ended"
  BY <1>1 DEF StartResponse
<1> HIDE DEF q
<1>3. p \in Requests /\ p.phase = q.phase /\ p.counted = q.counted /\ p.status = status
      /\ p.disconnects = q.disconnects /\ p.aborted = q.aborted
      /\ p.cancelled = q.cancelled /\ p.sent = status
  BY <1>1 DEF Requests
<1> HIDE DEF p
<1>4. Sane(p)
  BY <1>1, <1>3 DEF Sane, Open
<1> QED BY <1>2, <1>3, <1>4, QuietStep, KeptQuietly

(* The ways in which a request ends: each sets at most the fields named. *)
LEMMA EndStep ==
  ASSUME IInv, NEW r \in Slots, request[r].phase # "ended",
         Disconnect(r) \/ Return(r) \/ Raise(r) \/ Cancel(r)
  PROVE  IInv' /\ Kept
<1> DEFINE q == request[r]
<1>1. q \in Requests /\ Open(q) /\ q.phase # "ended"
  BY DEF IInv, TypeInv, AccountInv, Sane
<1>2. SUFFICES \E p \in Requests :
        /\ Finish(r, p) /\ p.counted = <<>>
        /\ \/ /\ p.status = (IF p.sent # NoStatus THEN p.sent ELSE 500)
              /\ p.disconnects = 0
           \/ /\ p.status = NoStatus /\ p.sent = NoStatus /\ p.aborted = 0
              /\ p.disconnects = (IF p.cancelled THEN 0 ELSE 1)
  <2>1. PICK p \in Requests :
        /\ Finish(r, p) /\ p.counted = <<>>
        /\ \/ /\ p.status = (IF p.sent # NoStatus THEN p.sent ELSE 500)
              /\ p.disconnects = 0
           \/ /\ p.status = NoStatus /\ p.sent = NoStatus /\ p.aborted = 0
              /\ p.disconnects = (IF p.cancelled THEN 0 ELSE 1)
    BY <1>2
  <2>2. Finished(p) \in Requests /\ Sane(Finished(p))
    BY <2>1, FinishFacts
  <2>3. Become(r, Finished(p)) /\ UNCHANGED quota
    BY <2>1 DEF Finish, Finished
  <2> QED BY <2>2, <2>3, QuietStep, KeptQuietly
<1>3. CASE Disconnect(r)
  <2> DEFINE n == q.disconnects + 1
             p == [q EXCEPT !.disconnects = n, !.status = NoStatus]
  <2>1. Finish(r, p) /\ q.phase = "body"
    BY <1>3 DEF Disconnect
  <2> HIDE DEF q
  <2>2. n = 1 /\ NoStatus \in Nat
    BY <1>1 DEF Open, NoStatus
  <2> HIDE DEF n
  <2>3. p \in Requests /\ p.counted = q.counted /\ p.status = NoStatus /\ p.sent = q.sent
        /\ p.aborted = q.aborted /\ p.disconnects = 1 /\ p.cancelled = q.cancelled
    BY <1>1, <2>2 DEF Requests
  <2> HIDE DEF p
  <2>4. p.counted = <<>> /\ p.sent = NoStatus /\ p.aborted = 0 /\ ~p.cancelled
    BY <1>1, <2>1, <2>3 DEF Open
  <2> QED BY <2>1, <2>3, <2>4
<1>4. CASE Return(r)
  <2>1. Finish(r, q) /\ q.sent # NoStatus
    BY <1>4 DEF Return
  <2> HIDE DEF q
  <2> QED BY <1>1, <2>1 DEF Open
<1>5. CASE Raise(r)
  <2>1. CASE q.sent # NoStatus
    <3> DEFINE p == [q EXCEPT !.aborted = @ + 1]
    <3>1. Finish(r, p)
      BY <1>5, <2>1 DEF Raise
    <3> HIDE DEF q
    <3>2. p \in Requests /\ p.counted = <<>> /\ p.status = p.sent /\ p.sent # NoStatus
          /\ p.disconnects = 0
      BY <1>1, <2>1 DEF Requests, Open
    <3> HIDE DEF p
    <3> QED BY <3>1, <3>2
  <2>2. CASE q.sent = NoStatus
    <3> DEFINE p == [q EXCEPT !.status = 500]
    <3>1. Finish(r, p)
      BY <1>5, <2>2 DEF Raise
    <3> HIDE DEF q
    <3>2. p \in Requests /\ p.counted = <<>> /\ p.status = 500 /\ p.sent = NoStatus
          /\ p.disconnects = 0
      BY <1>1, <2>2 DEF Requests, Open
    <3> HIDE DEF p
    <3> QED BY <3>1, <3>2
  <2> QED BY <2>1, <2>2
<1>6. CASE Cancel(r)
  <2> DEFINE p == [q EXCEPT !.cancelled = TRUE]
  <2>1. Finish(r, p)
    BY <1>6 DEF Cancel
  <2> HIDE DEF q
  <2>2. p \in Requests /\ p.counted = <<>> /\ p.status = p.sent /\ p.disconnects = 0
        /\ p.aborted = 0 /\ p.cancelled
    BY <1>1 DEF Requests, Open
  <2> HIDE DEF p
  <2> QED BY <2>1, <2>2
<1> QED BY <1>3, <1>4, <1>5, <1>6

-----------------------------------------------------------------------------

(* The invariant holds initially: the table is empty and every client has    *)
(* its first burst.                                                         *)
LEMMA InitIInv == Init => IInv
<1> SUFFICES ASSUME Init PROVE IInv
  OBVIOUS
<1>1. Sound(limiter, clock, clock) /\ limiter.resident = {}
  BY LimiterAssumption, FS_EmptySet DEF Init, NewLimiter, Table, Sound
<1>2. Unused \in Requests /\ Sane(Unused)
  BY GatewayAssumption DEF Unused, Request, Requests, Sane, NoStatus
<1>3. TypeInv /\ AccountInv
  BY <1>1, <1>2, LimiterAssumption DEF Init, TypeInv, AccountInv, NoPromise
<1>4. QuotaInv
  BY <1>1, LimiterAssumption DEF Init, QuotaInv, Bound
<1>5. PromiseInv
  BY DEF Init, PromiseInv, Promise
<1> QED BY <1>3, <1>4, <1>5 DEF IInv

(* Every step preserves it and keeps what Retry-After promised. *)
LEMMA NextIInv == IInv /\ [Next]_vars => IInv' /\ [Kept]_vars
<1> SUFFICES ASSUME IInv, [Next]_vars PROVE IInv' /\ [Kept]_vars
  OBVIOUS
<1>1. CASE UNCHANGED vars
  BY <1>1 DEF vars, IInv, TypeInv, QuotaInv, PromiseInv, AccountInv
<1>2. CASE Next
  <2>1. PICK r \in Slots :
        \/ TooLarge(r)
        \/ \E chunked \in BOOLEAN :
              \/ Exempt(r, chunked)
              \/ \E c \in Clients, v \in Conversations \cup {NoConversation} :
                    Limit(r, c, v, chunked)
        \/ \E pieces \in 0 .. MaxBody + 1, more \in BOOLEAN : ReadBody(r, pieces, more)
        \/ \E status \in Statuses \cup {413, 429} : StartResponse(r, status)
        \/ Disconnect(r) \/ Return(r) \/ Raise(r) \/ Cancel(r)
    BY <1>2 DEF Next
  <2>2. CASE TooLarge(r)
    BY <2>2, FreshStep DEF TooLarge
  <2>3. CASE \E chunked \in BOOLEAN : Exempt(r, chunked)
    BY <2>3, FreshStep DEF Exempt, GoOn, NoStatus
  <2>4. ASSUME NEW chunked \in BOOLEAN, NEW c \in Clients,
               NEW v \in Conversations \cup {NoConversation}, Limit(r, c, v, chunked)
        PROVE  IInv' /\ Kept
    <3>1. IInv' /\ Decided(r, clock')
      BY <2>4, LimitStep
    <3>2. CASE \E phase \in {"body", "app"} : Become(r, Request(phase, NoStatus))
      <4>1. PICK phase \in {"body", "app"} : Become(r, Request(phase, NoStatus))
        BY <3>2
      <4>2. Request(phase, NoStatus) \in Requests /\ Request(phase, NoStatus).refused_by = {}
        BY PlainRequest DEF NoStatus, Request
      <4> QED BY <3>1, <4>1, <4>2, KeptQuietly
    <3>3. CASE \E k \in Keys :
                  /\ promised[k] = NoPromise \/ clock' < promised[k]
                  /\ Become(r, [Request("reject", 429) EXCEPT !.refused_by = {k}])
      <4>1. PICK k \in Keys :
                  /\ promised[k] = NoPromise \/ clock' < promised[k]
                  /\ Become(r, [Request("reject", 429) EXCEPT !.refused_by = {k}])
        BY <3>3
      <4>2. [Request("reject", 429) EXCEPT !.refused_by = {k}].refused_by = {k}
        BY DEF Request
      <4>3. request'[r].refused_by = {k} /\ \A s \in Slots \ {r} : request'[s] = request[s]
        BY <4>1, <4>2 DEF Become, IInv, TypeInv
      <4> QED BY <3>1, <4>1, <4>3 DEF Kept
    <3> QED BY <3>1, <3>2, <3>3 DEF Decided
  <2>5. CASE \E pieces \in 0 .. MaxBody + 1, more \in BOOLEAN : ReadBody(r, pieces, more)
    BY <2>5, BodyStep, GatewayAssumption
  <2>6. CASE \E status \in Statuses \cup {413, 429} : StartResponse(r, status)
    BY <2>6, StartStep, GatewayAssumption
  <2>7. CASE Disconnect(r) \/ Return(r) \/ Raise(r) \/ Cancel(r)
    <3>1. request[r].phase # "ended"
      BY <2>7 DEF Disconnect, Return, Raise, Cancel
    <3> QED BY <2>7, <3>1, EndStep
  <2> QED BY <2>1, <2>2, <2>3, <2>4, <2>5, <2>6, <2>7
<1> QED BY <1>1, <1>2

(* The table of buckets never outgrows max_identities, no bucket is over-full *)
(* or in debt, no more of a body is kept than max_body_bytes.               *)
THEOREM TypeCorrect == Spec => []TypeOK
<1>1. IInv => TypeOK
  BY DEF IInv, TypeInv, Sound, Requests, TypeOK
<1> QED BY <1>1, InitIInv, NextIInv, PTL DEF Spec

(* No client takes more than its burst, what was refilled and a burst for    *)
(* every eviction that others caused, whatever it sends: admit(), with a    *)
(* table of two buckets or more and a lifetime in which a bucket fills.     *)
THEOREM QuotaBoundCorrect == Spec => []QuotaBound
<1>1. IInv => QuotaBound
  <2> SUFFICES ASSUME IInv, NEW c \in Clients PROVE spent[c] <= allowance[c] + clock
    BY DEF QuotaBound
  <2>1. spent[c] \in Nat /\ allowance[c] \in Nat /\ clock \in Nat /\ c \in Keys
        /\ limiter.tokens[c] \in Nat /\ limiter.updated[c] \in 0 .. clock
    BY DEF IInv, TypeInv, Sound, Keys
  <2>2. Bound(limiter, c, spent[c], allowance[c], clock)
    BY DEF IInv, QuotaInv
  <2> QED BY <2>1, <2>2, LimiterAssumption DEF Bound
<1> QED BY <1>1, InitIInv, NextIInv, PTL DEF Spec

(* Who waits for Retry-After is not refused by the same bucket, unless        *)
(* somebody took a token from it meanwhile: _seconds_until_token.           *)
THEOREM RetryAfterKeptCorrect == Spec => RetryAfterKept
<1>1. [Kept]_vars <=> [\A r \in Slots, k \in Keys :
          request[r].phase = "ended" /\ request'[r].phase = "reject" /\ k \in request'[r].refused_by
            => promised[k] = NoPromise \/ clock' < promised[k]]_vars
  BY DEF Kept
<1> QED BY <1>1, InitIInv, NextIInv, PTL DEF Spec, RetryAfterKept

(* A request that ended was counted once, under the status the client saw:    *)
(* the finally block of the middleware.                                     *)
THEOREM AccountedOnceCorrect == Spec => []AccountedOnce
<1>1. IInv => AccountedOnce
  BY DEF IInv, AccountInv, Sane, AccountedOnce
<1> QED BY <1>1, InitIInv, NextIInv, PTL DEF Spec
=============================================================================
