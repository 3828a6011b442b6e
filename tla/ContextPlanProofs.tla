-------------------------- MODULE ContextPlanProofs --------------------------
(***************************************************************************)
(* The context planners: for any list of inbound messages, any retrieved    *)
(* items and any budget, what they send keeps the budget, holds every       *)
(* instruction and the whole current request, and of the history the        *)
(* longest newest part in whole turns, and the two planners agree.  The     *)
(* algorithms are recursive functions over lists: each gets lemmas for one  *)
(* element more, and induction over lists (ListInduction) does the rest.    *)
(***************************************************************************)
EXTENDS ContextPlan, WellFoundedInduction, TLAPS

-----------------------------------------------------------------------------
(* Induction. *)

(* A nonempty set of naturals has a least element. *)
LEMMA LeastOf ==
  ASSUME NEW T \in SUBSET Nat, T # {}
  PROVE  \E x \in T : \A y \in T : x <= y
<1> DEFINE R == OpToRel(<, Nat)
<1>1. IsWellFoundedOn(R, Nat)
  BY NatLessThanWellFounded
<1>2. \A x, y \in Nat : x < y => <<x, y>> \in R
  BY DEF OpToRel
<1> HIDE DEF R
<1>3. PICK x \in T : \A y \in T : ~ (<<y, x>> \in R)
  BY <1>1, WFMin, T \subseteq Nat, Zenon
<1>4. \A y \in T : ~ (y < x)
  BY <1>2, <1>3, T \subseteq Nat, Zenon
<1>5. QED
  BY <1>4, SMT

(* Induction up to a bound, for membership in a set. *)
LEMMA UpTo ==
  ASSUME NEW N \in Nat, NEW S, 0 \in S, \A n \in 0 .. N - 1 : n \in S => n + 1 \in S
  PROVE  \A n \in 0 .. N : n \in S
<1> DEFINE T == {n \in 0 .. N : n \notin S}
<1>1. SUFFICES ASSUME T # {} PROVE FALSE
  OBVIOUS
<1>2. T \in SUBSET Nat
  OBVIOUS
<1>3. PICK x \in T : \A y \in T : x <= y
  BY <1>1, <1>2, LeastOf, Zenon
<1>4. x # 0 /\ x - 1 \in 0 .. N - 1 /\ x \notin S
  BY <1>3
<1>5. x - 1 \in S
  BY <1>3, <1>4
<1>6. QED
  BY <1>4, <1>5

(* Induction over lists, for membership in a set. *)
LEMMA ListInduction ==
  ASSUME NEW V, NEW S, << >> \in S,
         \A s \in Seq(V), x \in V : s \in S => Append(s, x) \in S
  PROVE  \A s \in Seq(V) : s \in S
<1> SUFFICES ASSUME NEW s \in Seq(V) PROVE s \in S
  OBVIOUS
<1> DEFINE T == {n \in Nat : SubSeq(s, 1, n) \in S}
<1>1. Len(s) \in Nat
  OBVIOUS
<1>2. 0 \in T
  <2>1. SubSeq(s, 1, 0) = << >>
    OBVIOUS
  <2>2. QED
    BY <2>1, Zenon
<1>3. ASSUME NEW n \in 0 .. Len(s) - 1, n \in T PROVE n + 1 \in T
  <2>1. SubSeq(s, 1, n) \in Seq(V) /\ s[n + 1] \in V
    OBVIOUS
  <2>2. SubSeq(s, 1, n + 1) = Append(SubSeq(s, 1, n), s[n + 1])
    OBVIOUS
  <2>3. SubSeq(s, 1, n) \in S
    BY <1>3
  <2>4. SubSeq(s, 1, n + 1) \in S
    BY <2>1, <2>2, <2>3, Zenon
  <2>5. QED
    BY <2>4
<1> HIDE DEF T
<1>4. Len(s) \in T
  <2>1. \A n \in 0 .. Len(s) : n \in T
    BY <1>1, <1>2, <1>3, UpTo
  <2>2. QED
    BY <1>1, <2>1
<1>5. SubSeq(s, 1, Len(s)) = s
  OBVIOUS
<1>6. QED
  BY <1>4, <1>5, Zenon DEF T

(* f starts at b and goes on by step. *)
Iterates(f, N, V, b, step) ==
  f \in [0 .. N -> V] /\ f[0] = b /\ \A n \in 1 .. N : f[n] = step[<<f[n - 1], n>>]

(* A recursion on the length has a solution. *)
LEMMA Iterated ==
  ASSUME NEW N \in Nat, NEW V, NEW b \in V, NEW step \in [V \X (1 .. N) -> V]
  PROVE  \E f : Iterates(f, N, V, b, step)
<1> DEFINE Upto(k, f) == f[0] = b /\ \A n \in 1 .. k : f[n] = step[<<f[n - 1], n>>]
           T == {k \in Nat : \E f \in [0 .. k -> V] : Upto(k, f)}
<1>1. 0 \in T
  <2>1. [n \in 0 .. 0 |-> b] \in [0 .. 0 -> V] /\ Upto(0, [n \in 0 .. 0 |-> b])
    OBVIOUS
  <2>2. QED
    BY <2>1, Zenon
<1>2. ASSUME NEW k \in 0 .. N - 1, k \in T PROVE k + 1 \in T
  <2>1. PICK f \in [0 .. k -> V] : Upto(k, f)
    BY <1>2
  <2> DEFINE v == step[<<f[k], k + 1>>]
             g == [n \in 0 .. k + 1 |-> IF n <= k THEN f[n] ELSE v]
  <2>2. v \in V
    <3>1. <<f[k], k + 1>> \in V \X (1 .. N)
      OBVIOUS
    <3>2. QED
      BY <3>1
  <2> HIDE DEF v
  <2>3. g \in [0 .. k + 1 -> V]
    BY <2>2
  <2>4. g[0] = b
    BY <2>1
  <2>5. ASSUME NEW n \in 1 .. k + 1 PROVE g[n] = step[<<g[n - 1], n>>]
    <3>1. CASE n <= k
      BY <2>1, <3>1
    <3>2. CASE n = k + 1
      BY <3>2 DEF v
    <3>3. QED
      BY <3>1, <3>2
  <2> HIDE DEF g
  <2>6. Upto(k + 1, g)
    BY <2>4, <2>5
  <2>7. k + 1 \in Nat
    OBVIOUS
  <2>8. QED
    BY <2>3, <2>6, <2>7, Zenon
<1> HIDE DEF T
<1>3. N \in T
  <2>1. \A k \in 0 .. N : k \in T
    BY <1>1, <1>2, UpTo
  <2>2. QED
    BY <2>1
<1>4. QED
  BY <1>3 DEF T, Iterates

(* Two recursions that go the same way agree. *)
SameWay(f, g, N) == f[0] = g[0] /\ \A n \in 1 .. N : f[n - 1] = g[n - 1] => f[n] = g[n]

SameUpTo(f, g, N) == \A n \in 0 .. N : f[n] = g[n]

(* Two functions that start and go on the same way are the same up to N. *)
LEMMA Agree ==
  ASSUME NEW N \in Nat, NEW f, NEW g, SameWay(f, g, N)
  PROVE  SameUpTo(f, g, N)
<1> DEFINE S == {n \in 0 .. N : f[n] = g[n]}
<1>1. 0 \in S
  BY DEF SameWay
<1>2. ASSUME NEW n \in 0 .. N - 1, n \in S PROVE n + 1 \in S
  <2>1. n + 1 \in 1 .. N /\ (n + 1) - 1 = n
    OBVIOUS
  <2>2. f[n + 1] = g[n + 1]
    BY <1>2, <2>1 DEF SameWay
  <2>3. QED
    BY <2>1, <2>2
<1> HIDE DEF S
<1>3. \A n \in 0 .. N : n \in S
  BY <1>1, <1>2, UpTo
<1>4. QED
  BY <1>3 DEF S, SameUpTo

-----------------------------------------------------------------------------
(* Lists. *)

(* A list without its last element. *)
LEMMA Append1 ==
  ASSUME NEW V, NEW s \in Seq(V), NEW x \in V
  PROVE  /\ Append(s, x) \in Seq(V) /\ Len(Append(s, x)) = Len(s) + 1 /\ Len(s) \in Nat
         /\ \A n \in 1 .. Len(s) : Append(s, x)[n] = s[n]
         /\ Append(s, x)[Len(s) + 1] = x
OBVIOUS

(* The running sums of a list. *)
Sums(c) == CHOOSE sum : sum = [n \in 0 .. Len(c) |-> IF n = 0 THEN 0 ELSE sum[n - 1] + c[n]]

(* The running sums, and SumOf as the last of them. *)
LEMMA SumsFacts ==
  ASSUME NEW c \in Seq(Int)
  PROVE  /\ Sums(c) \in [0 .. Len(c) -> Int] /\ Sums(c)[0] = 0
         /\ \A n \in 1 .. Len(c) : Sums(c)[n] = Sums(c)[n - 1] + c[n]
         /\ SumOf(c) = Sums(c)[Len(c)]
<1> PICK N \in Nat : N = Len(c)
  OBVIOUS
<1>0. \A n \in 1 .. N : c[n] \in Int
  OBVIOUS
<1> DEFINE Is(f) == f = [n \in 0 .. N |-> IF n = 0 THEN 0 ELSE f[n - 1] + c[n]]
           step == [p \in Int \X (1 .. N) |-> p[1] + c[p[2]]]
<1>1. step \in [Int \X (1 .. N) -> Int]
  BY <1>0
<1>2. \A v \in Int, n \in 1 .. N : step[<<v, n>>] = v + c[n]
  OBVIOUS
<1> HIDE DEF step
<1>3. PICK f : Iterates(f, N, Int, 0, step)
  BY <1>1, 0 \in Int, Iterated, Zenon
<1>4. ASSUME NEW n \in 1 .. N PROVE f[n] = f[n - 1] + c[n]
  <2>1. n - 1 \in 0 .. N
    OBVIOUS
  <2>2. f[n] = step[<<f[n - 1], n>>] /\ f[n - 1] \in Int
    BY <1>3, <2>1, Zenon DEF Iterates
  <2>3. QED
    BY <1>2, <2>2
<1>5. f \in [0 .. N -> Int] /\ f[0] = 0 /\ Is(f)
  BY <1>3, <1>4 DEF Iterates
<1> DEFINE g == Sums(c)
<1>6. Is(g) /\ SumOf(c) = g[N]
  BY <1>5, Zenon DEF SumOf, Sums
<1> HIDE DEF g
<1>7. DOMAIN g = 0 .. N /\ g[0] = 0
  BY <1>6
<1>8. ASSUME NEW n \in 1 .. N PROVE g[n] = g[n - 1] + c[n]
  <2>1. n \in 0 .. N /\ n # 0
    OBVIOUS
  <2>2. QED
    BY <1>6, <2>1, Zenon
<1>9. \A n \in 0 .. N : g[n] = f[n]
  <2>1. \A n \in 1 .. N : g[n - 1] = f[n - 1] => g[n] = f[n]
    BY <1>4, <1>8
  <2>2. SameWay(g, f, N)
    BY <1>5, <1>7, <2>1, Zenon DEF SameWay
  <2>3. QED
    BY <2>2, Agree DEF SameUpTo
<1>10. g \in [0 .. N -> Int]
  BY <1>5, <1>6, <1>9
<1>11. QED
  BY <1>6, <1>7, <1>8, <1>10, Zenon DEF g

(* The sum of a longer list. *)
LEMMA SumOfAppend ==
  /\ SumOf(<< >>) = 0
  /\ \A c \in Seq(Int), x \in Int : /\ SumOf(c) \in Int
                                    /\ SumOf(Append(c, x)) = SumOf(c) + x
<1>1. SumOf(<< >>) = 0
  <2>1. << >> \in Seq(Int) /\ Len(<< >>) = 0
    OBVIOUS
  <2>2. QED
    BY <2>1, SumsFacts, Zenon
<1>2. ASSUME NEW c \in Seq(Int), NEW x \in Int
      PROVE  SumOf(c) \in Int /\ SumOf(Append(c, x)) = SumOf(c) + x
  <2> DEFINE d == Append(c, x)
             f == Sums(c)
             g == Sums(d)
  <2> PICK N \in Nat : N = Len(c)
    OBVIOUS
  <2>1. d \in Seq(Int) /\ Len(d) = N + 1 /\ d[N + 1] = x
        /\ \A n \in 1 .. N : d[n] = c[n]
    BY Append1
  <2> HIDE DEF d
  <2>2. f \in [0 .. N -> Int] /\ f[0] = 0 /\ SumOf(c) = f[N]
        /\ \A n \in 1 .. N : f[n] = f[n - 1] + c[n]
    BY SumsFacts, Zenon
  <2>3. g \in [0 .. N + 1 -> Int] /\ g[0] = 0 /\ SumOf(d) = g[N + 1]
        /\ \A n \in 1 .. N + 1 : g[n] = g[n - 1] + d[n]
    BY <2>1, SumsFacts, Zenon
  <2> HIDE DEF f, g
  <2>4. \A n \in 1 .. N : f[n - 1] = g[n - 1] => f[n] = g[n]
    BY <2>1, <2>2, <2>3
  <2>5. SameWay(f, g, N)
    BY <2>2, <2>3, <2>4 DEF SameWay
  <2>6. \A n \in 0 .. N : f[n] = g[n]
    BY <2>5, Agree DEF SameUpTo
  <2>7. g[N + 1] = g[(N + 1) - 1] + d[N + 1] /\ (N + 1) - 1 = N
    BY <2>3
  <2>8. g[N + 1] = f[N] + x
    BY <2>1, <2>6, <2>7
  <2>9. QED
    BY <2>2, <2>3, <2>8 DEF d
<1>3. QED
  BY <1>1, <1>2

(* What Only has kept up to each place. *)
Kept(s, S) ==
  CHOOSE kept : kept = [n \in 0 .. Len(s) |-> IF n = 0 THEN << >> ELSE (IF s[n] \in S THEN Append(kept[n - 1], s[n]) ELSE kept[n - 1])]

(* Kept, one place at a time, and Only as the last of it. *)
LEMMA KeptFacts ==
  ASSUME NEW E, NEW s \in Seq(E), NEW S
  PROVE  /\ Kept(s, S) \in [0 .. Len(s) -> Seq(E)] /\ Kept(s, S)[0] = << >>
         /\ \A n \in 1 .. Len(s) : Kept(s, S)[n] = (IF s[n] \in S THEN Append(Kept(s, S)[n - 1], s[n]) ELSE Kept(s, S)[n - 1])
         /\ Only(s, S) = Kept(s, S)[Len(s)]
<1> PICK N \in Nat : N = Len(s)
  OBVIOUS
<1>0. << >> \in Seq(E) /\ \A v \in Seq(E), n \in 1 .. N : (IF s[n] \in S THEN Append(v, s[n]) ELSE v) \in Seq(E)
  OBVIOUS
<1> DEFINE Is(f) == f = [n \in 0 .. N |-> IF n = 0 THEN << >> ELSE (IF s[n] \in S THEN Append(f[n - 1], s[n]) ELSE f[n - 1])]
           step == [p \in Seq(E) \X (1 .. N) |-> (IF s[p[2]] \in S THEN Append(p[1], s[p[2]]) ELSE p[1])]
<1>1. step \in [Seq(E) \X (1 .. N) -> Seq(E)]
  BY <1>0
<1>2. \A v \in Seq(E), n \in 1 .. N : step[<<v, n>>] = (IF s[n] \in S THEN Append(v, s[n]) ELSE v)
  OBVIOUS
<1> HIDE DEF step
<1>3. PICK f : Iterates(f, N, Seq(E), << >>, step)
  BY <1>0, <1>1, Iterated, Zenon
<1>4. ASSUME NEW n \in 1 .. N PROVE f[n] = (IF s[n] \in S THEN Append(f[n - 1], s[n]) ELSE f[n - 1])
  <2>1. n - 1 \in 0 .. N
    OBVIOUS
  <2>2. f[n] = step[<<f[n - 1], n>>] /\ f[n - 1] \in Seq(E)
    BY <1>3, <2>1, Zenon DEF Iterates
  <2>3. QED
    BY <1>2, <2>2, Zenon
<1>5. f \in [0 .. N -> Seq(E)] /\ f[0] = << >> /\ Is(f)
  <2>1. f \in [0 .. N -> Seq(E)] /\ f[0] = << >>
    BY <1>3 DEF Iterates
  <2>2. \A n \in 0 .. N : n = 0 \/ n \in 1 .. N
    OBVIOUS
  <2>3. \A n \in 0 .. N : f[n] = IF n = 0 THEN << >> ELSE (IF s[n] \in S THEN Append(f[n - 1], s[n]) ELSE f[n - 1])
    BY <1>4, <2>1, <2>2, Zenon
  <2>4. QED
    BY <2>1, <2>3, Zenon
<1> DEFINE g == Kept(s, S)
<1>6. Is(g) /\ Only(s, S) = g[N]
  BY <1>5, Zenon DEF Only, Kept
<1> HIDE DEF g
<1>7. DOMAIN g = 0 .. N /\ g[0] = << >>
  BY <1>6
<1>8. ASSUME NEW n \in 1 .. N PROVE g[n] = (IF s[n] \in S THEN Append(g[n - 1], s[n]) ELSE g[n - 1])
  <2>1. n \in 0 .. N /\ n # 0
    OBVIOUS
  <2>2. QED
    BY <1>6, <2>1, Zenon
<1>9. SameUpTo(g, f, N)
  <2>1. \A n \in 1 .. N : g[n - 1] = f[n - 1] => g[n] = f[n]
    BY <1>4, <1>8, Zenon
  <2>2. SameWay(g, f, N)
    BY <1>5, <1>7, <2>1, Zenon DEF SameWay
  <2>3. QED
    BY <2>2, Agree
<1>10. g \in [0 .. N -> Seq(E)]
  BY <1>5, <1>6, <1>9, Zenon DEF SameUpTo
<1>11. QED
  BY <1>6, <1>7, <1>8, <1>10, Zenon DEF g

(* Only, one element at a time. *)
LEMMA OnlyType ==
  ASSUME NEW E, NEW s \in Seq(E), NEW S
  PROVE  Only(s, S) \in Seq(E) /\ (s = << >> => Only(s, S) = << >>)
<1>1. Len(s) \in 0 .. Len(s) /\ (s = << >> => Len(s) = 0)
  OBVIOUS
<1>2. Kept(s, S) \in [0 .. Len(s) -> Seq(E)] /\ Kept(s, S)[0] = << >>
      /\ Only(s, S) = Kept(s, S)[Len(s)]
  BY KeptFacts
<1>3. QED
  BY <1>1, <1>2, Zenon

(* Only, one element at a time. *)
LEMMA OnlyAppend ==
  ASSUME NEW E, NEW s \in Seq(E), NEW x \in E, NEW S
  PROVE  Only(Append(s, x), S) = (IF x \in S THEN Append(Only(s, S), x) ELSE Only(s, S))
<1> DEFINE d == Append(s, x)
           f == Kept(s, S)
           g == Kept(d, S)
<1> PICK N \in Nat : N = Len(s)
  OBVIOUS
<1>1. d \in Seq(E) /\ Len(d) = N + 1 /\ d[N + 1] = x
      /\ \A n \in 1 .. N : d[n] = s[n]
  BY Append1
<1> HIDE DEF d
<1>2. f \in [0 .. N -> Seq(E)] /\ f[0] = << >> /\ Only(s, S) = f[N]
      /\ \A n \in 1 .. N : f[n] = (IF s[n] \in S THEN Append(f[n - 1], s[n]) ELSE f[n - 1])
  BY KeptFacts
<1>3. g \in [0 .. N + 1 -> Seq(E)] /\ g[0] = << >> /\ Only(d, S) = g[N + 1]
      /\ \A n \in 1 .. N + 1 : g[n] = (IF d[n] \in S THEN Append(g[n - 1], d[n]) ELSE g[n - 1])
  BY <1>1, KeptFacts
<1> HIDE DEF f, g
<1>4. \A n \in 1 .. N : f[n - 1] = g[n - 1] => f[n] = g[n]
  <2>1. \A n \in 1 .. N : n \in 1 .. N + 1
    OBVIOUS
  <2>2. QED
    BY <1>1, <1>2, <1>3, <2>1, Zenon
<1>5. SameWay(f, g, N)
  BY <1>2, <1>3, <1>4, Zenon DEF SameWay
<1>6. g[N] = f[N] /\ N + 1 \in 1 .. N + 1 /\ (N + 1) - 1 = N
  BY <1>5, Agree DEF SameUpTo
<1>7. g[N + 1] = (IF x \in S THEN Append(f[N], x) ELSE f[N])
  BY <1>1, <1>3, <1>6
<1>8. Only(d, S) = (IF x \in S THEN Append(f[N], x) ELSE f[N]) /\ f[N] = Only(s, S)
  BY <1>2, <1>3, <1>7, Zenon
<1>9. QED
  BY <1>8, Zenon DEF d

(* The two cases. *)
LEMMA OnlyIn ==
  ASSUME NEW E, NEW s \in Seq(E), NEW S, NEW x \in E, x \in S
  PROVE  Only(Append(s, x), S) = Append(Only(s, S), x)
BY OnlyAppend

(* An element outside of the set leaves Only as it is. *)
LEMMA OnlyOut ==
  ASSUME NEW E, NEW s \in Seq(E), NEW S, NEW x \in E, x \notin S
  PROVE  Only(Append(s, x), S) = Only(s, S)
BY OnlyAppend

(* The messages and units that are sent. *)
AnyMessage == Inbound \cup {[role |-> "user", text |-> "retrieved"]}

Kinds == {"system", "turn", "prefill", "request", "retrieved"}

AnyUnit == [kind : Kinds, key : Int, messages : Seq(AnyMessage), tokens : Nat]

(* The fields of a unit. *)
LEMMA UnitFields ==
  \A u \in AnyUnit : /\ u.kind \in Kinds /\ u.key \in Int /\ u.tokens \in Nat
                     /\ u.messages \in Seq(AnyMessage)
BY DEF AnyUnit

(* Total and Tokens, one element at a time. *)
LEMMA TotalBoth ==
  ASSUME NEW s \in Seq(AnyUnit), NEW x \in AnyUnit
  PROVE  /\ Total(s) \in Int
         /\ Total(Append(s, x)) = Total(s) + x.tokens
<1> DEFINE C(r) == [n \in DOMAIN r |-> r[n].tokens]
<1>0. \A u \in AnyUnit : u.tokens \in Int
  BY DEF AnyUnit
<1>1. C(s) \in Seq(Int) /\ x.tokens \in Int
  BY <1>0
<1>2. C(Append(s, x)) = Append(C(s), x.tokens)
  <2> PICK N \in Nat : N = Len(s)
    OBVIOUS
  <2>1. DOMAIN Append(s, x) = 1 .. N + 1 /\ DOMAIN s = 1 .. N
    OBVIOUS
  <2>2. Append(C(s), x.tokens) = [n \in 1 .. N + 1 |-> IF n <= N THEN C(s)[n] ELSE x.tokens]
    BY <1>1
  <2>3. \A n \in 1 .. N + 1 : Append(s, x)[n] = IF n <= N THEN s[n] ELSE x
    BY Append1
  <2>4. QED
    BY <2>1, <2>2, <2>3
<1> HIDE DEF C
<1>3. Total(s) = SumOf(C(s)) /\ Total(Append(s, x)) = SumOf(C(Append(s, x)))
  BY DEF Total, C
<1>4. QED
  BY <1>1, <1>2, <1>3, SumOfAppend, Zenon

(* A total is an integer, and nothing costs nothing. *)
LEMMA TotalType ==
  ASSUME NEW s \in Seq(AnyUnit)
  PROVE  Total(s) \in Int /\ (s = << >> => Total(s) = 0)
<1>1. Total(<< >>) = 0
  <2>1. [n \in DOMAIN << >> |-> << >>[n].tokens] = << >>
    OBVIOUS
  <2>2. QED
    BY <2>1, SumOfAppend DEF Total
<1>2. CASE s = << >>
  BY <1>1, <1>2
<1>3. CASE s # << >>
  <2>1. s[1] \in AnyUnit
    BY <1>3
  <2>2. QED
    BY <1>3, <2>1, TotalBoth
<1>4. QED
  BY <1>2, <1>3

(* Tokens, one message at a time. *)
LEMMA TokensBoth ==
  ASSUME NEW s \in Seq(Inbound), NEW x \in Inbound
  PROVE  /\ Tokens(s) \in Int
         /\ Tokens(Append(s, x)) = Tokens(s) + Cost[x.text]
<1> DEFINE C(r) == [n \in DOMAIN r |-> Cost[r[n].text]]
<1>0. \A u \in Inbound : Cost[u.text] \in Int
  BY ContextAssumption
<1>1. C(s) \in Seq(Int) /\ Cost[x.text] \in Int
  BY <1>0
<1>2. C(Append(s, x)) = Append(C(s), Cost[x.text])
  <2> PICK N \in Nat : N = Len(s)
    OBVIOUS
  <2>1. DOMAIN Append(s, x) = 1 .. N + 1 /\ DOMAIN s = 1 .. N
    OBVIOUS
  <2>2. Append(C(s), Cost[x.text]) = [n \in 1 .. N + 1 |-> IF n <= N THEN C(s)[n] ELSE Cost[x.text]]
    BY <1>1
  <2>3. \A n \in 1 .. N + 1 : Append(s, x)[n] = IF n <= N THEN s[n] ELSE x
    BY Append1
  <2>4. QED
    BY <2>1, <2>2, <2>3
<1> HIDE DEF C
<1>3. Tokens(s) = SumOf(C(s)) /\ Tokens(Append(s, x)) = SumOf(C(Append(s, x)))
  BY DEF Tokens, C
<1>4. QED
  BY <1>1, <1>2, <1>3, SumOfAppend, Zenon

(* Tokens are an integer, and no message costs nothing. *)
LEMMA TokensType ==
  ASSUME NEW s \in Seq(Inbound)
  PROVE  Tokens(s) \in Int /\ (s = << >> => Tokens(s) = 0)
<1>1. Tokens(<< >>) = 0
  <2>1. [n \in DOMAIN << >> |-> Cost[<< >>[n].text]] = << >>
    OBVIOUS
  <2>2. QED
    BY <2>1, SumOfAppend DEF Tokens
<1>2. CASE s = << >>
  BY <1>1, <1>2
<1>3. CASE s # << >>
  <2>1. s[1] \in Inbound
    BY <1>3
  <2>2. QED
    BY <1>3, <2>1, TokensBoth
<1>4. QED
  BY <1>2, <1>3

(* What is rendered up to each unit. *)
Rendering(s) ==
  CHOOSE rendered : rendered = [n \in 0 .. Len(s) |-> IF n = 0 THEN << >> ELSE rendered[n - 1] \o s[n].messages]

(* Rendering, one unit at a time, and Rendered as the last of it. *)
LEMMA RenderingFacts ==
  ASSUME NEW s \in Seq(AnyUnit)
  PROVE  /\ Rendering(s) \in [0 .. Len(s) -> Seq(AnyMessage)] /\ Rendering(s)[0] = << >>
         /\ \A n \in 1 .. Len(s) : Rendering(s)[n] = Rendering(s)[n - 1] \o s[n].messages
         /\ Rendered(s) = Rendering(s)[Len(s)]
<1> PICK N \in Nat : N = Len(s)
  OBVIOUS
<1>0. << >> \in Seq(AnyMessage) /\ \A v \in Seq(AnyMessage), n \in 1 .. N : v \o s[n].messages \in Seq(AnyMessage)
  <2>1. << >> \in Seq(AnyMessage)
    OBVIOUS
  <2>2. \A n \in 1 .. N : s[n].messages \in Seq(AnyMessage)
    BY UnitFields, \A n \in 1 .. N : s[n] \in AnyUnit
  <2>3. QED
    BY <2>1, <2>2
<1> DEFINE Is(f) == f = [n \in 0 .. N |-> IF n = 0 THEN << >> ELSE f[n - 1] \o s[n].messages]
           step == [p \in Seq(AnyMessage) \X (1 .. N) |-> p[1] \o s[p[2]].messages]
<1>1. step \in [Seq(AnyMessage) \X (1 .. N) -> Seq(AnyMessage)]
  BY <1>0
<1>2. \A v \in Seq(AnyMessage), n \in 1 .. N : step[<<v, n>>] = v \o s[n].messages
  BY Zenon
<1> HIDE DEF step
<1>3. PICK f : Iterates(f, N, Seq(AnyMessage), << >>, step)
  BY <1>0, <1>1, Iterated, Zenon
<1>4. ASSUME NEW n \in 1 .. N PROVE f[n] = f[n - 1] \o s[n].messages
  <2>1. n - 1 \in 0 .. N
    OBVIOUS
  <2>2. f[n] = step[<<f[n - 1], n>>] /\ f[n - 1] \in Seq(AnyMessage)
    BY <1>3, <2>1, Zenon DEF Iterates
  <2>3. QED
    BY <1>2, <2>2, Zenon
<1>5. f \in [0 .. N -> Seq(AnyMessage)] /\ f[0] = << >> /\ Is(f)
  <2>1. f \in [0 .. N -> Seq(AnyMessage)] /\ f[0] = << >>
    BY <1>3 DEF Iterates
  <2>2. \A n \in 0 .. N : n = 0 \/ n \in 1 .. N
    OBVIOUS
  <2>3. \A n \in 0 .. N : f[n] = IF n = 0 THEN << >> ELSE f[n - 1] \o s[n].messages
    BY <1>4, <2>1, <2>2, Zenon
  <2>4. QED
    BY <2>1, <2>3, Zenon
<1> DEFINE g == Rendering(s)
<1>6. Is(g) /\ Rendered(s) = g[N]
  BY <1>5, Zenon DEF Rendered, Rendering
<1> HIDE DEF g
<1>7. DOMAIN g = 0 .. N /\ g[0] = << >>
  BY <1>6
<1>8. ASSUME NEW n \in 1 .. N PROVE g[n] = g[n - 1] \o s[n].messages
  <2>1. n \in 0 .. N /\ n # 0
    OBVIOUS
  <2>2. QED
    BY <1>6, <2>1, Zenon
<1>9. SameUpTo(g, f, N)
  <2>1. \A n \in 1 .. N : g[n - 1] = f[n - 1] => g[n] = f[n]
    BY <1>4, <1>8, Zenon
  <2>2. SameWay(g, f, N)
    BY <1>5, <1>7, <2>1, Zenon DEF SameWay
  <2>3. QED
    BY <2>2, Agree
<1>10. g \in [0 .. N -> Seq(AnyMessage)]
  BY <1>5, <1>6, <1>9, Zenon DEF SameUpTo
<1>11. QED
  BY <1>6, <1>7, <1>8, <1>10 DEF g

(* Rendered, one unit at a time. *)
LEMMA RenderedType ==
  ASSUME NEW s \in Seq(AnyUnit)
  PROVE  Rendered(s) \in Seq(AnyMessage) /\ (s = << >> => Rendered(s) = << >>)
<1>1. Len(s) \in 0 .. Len(s) /\ (s = << >> => Len(s) = 0)
  OBVIOUS
<1>2. Rendering(s) \in [0 .. Len(s) -> Seq(AnyMessage)] /\ Rendering(s)[0] = << >>
      /\ Rendered(s) = Rendering(s)[Len(s)]
  BY RenderingFacts, Zenon
<1>3. QED
  BY <1>1, <1>2, Zenon

(* The messages of one more unit come last. *)
LEMMA RenderedAppend ==
  ASSUME NEW s \in Seq(AnyUnit), NEW x \in AnyUnit
  PROVE  Rendered(Append(s, x)) = Rendered(s) \o x.messages
<1> DEFINE d == Append(s, x)
           f == Rendering(s)
           g == Rendering(d)
<1> PICK N \in Nat : N = Len(s)
  OBVIOUS
<1>1. d \in Seq(AnyUnit) /\ Len(d) = N + 1 /\ d[N + 1] = x
      /\ \A n \in 1 .. N : d[n] = s[n]
  BY Append1
<1> HIDE DEF d
<1>2. f \in [0 .. N -> Seq(AnyMessage)] /\ f[0] = << >> /\ Rendered(s) = f[N]
      /\ \A n \in 1 .. N : f[n] = f[n - 1] \o s[n].messages
  BY RenderingFacts, Zenon
<1>3. g \in [0 .. N + 1 -> Seq(AnyMessage)] /\ g[0] = << >> /\ Rendered(d) = g[N + 1]
      /\ \A n \in 1 .. N + 1 : g[n] = g[n - 1] \o d[n].messages
  BY <1>1, RenderingFacts, Zenon
<1> HIDE DEF f, g
<1>4. \A n \in 1 .. N : f[n - 1] = g[n - 1] => f[n] = g[n]
  <2>1. \A n \in 1 .. N : n \in 1 .. N + 1
    OBVIOUS
  <2>2. QED
    BY <1>1, <1>2, <1>3, <2>1, Zenon
<1>5. SameWay(f, g, N)
  BY <1>2, <1>3, <1>4, Zenon DEF SameWay
<1>6. g[N] = f[N] /\ N + 1 \in 1 .. N + 1 /\ (N + 1) - 1 = N
  BY <1>5, Agree DEF SameUpTo
<1>7. g[N + 1] = f[N] \o x.messages
  BY <1>1, <1>3, <1>6, Zenon
<1>8. Rendered(d) = f[N] \o x.messages /\ f[N] = Rendered(s)
  BY <1>2, <1>3, <1>7, Zenon
<1>9. QED
  BY <1>8, Zenon DEF d

(* Lists one behind the other. *)
LEMMA ConcatAppend ==
  ASSUME NEW E, NEW s \in Seq(E), NEW t \in Seq(E), NEW x \in E
  PROVE  s \o Append(t, x) = Append(s \o t, x) /\ s \o t \in Seq(E)
OBVIOUS

(* The empty list changes nothing. *)
LEMMA ConcatEmpty ==
  ASSUME NEW E, NEW s \in Seq(E)
  PROVE  s \o << >> = s /\ << >> \o s = s
OBVIOUS

(* Concatenation is associative. *)
LEMMA ConcatAssoc ==
  ASSUME NEW E, NEW a \in Seq(E), NEW b \in Seq(E), NEW c \in Seq(E)
  PROVE  (a \o b) \o c = a \o (b \o c)
OBVIOUS

(* The empty list is a list over any set. *)
LEMMA EmptyList == \A E : << >> \in Seq(E)
OBVIOUS

(* Only distributes over concatenation. *)
LEMMA OnlyConcat ==
  ASSUME NEW E, NEW s \in Seq(E), NEW t \in Seq(E), NEW S
  PROVE  Only(s \o t, S) = Only(s, S) \o Only(t, S)
<1> DEFINE P == {r \in Seq(E) : Only(s \o r, S) = Only(s, S) \o Only(r, S)}
<1>0. Only(s, S) \in Seq(E) /\ Only(<< >>, S) = << >> /\ << >> \in Seq(E)
  BY OnlyType, EmptyList, Zenon
<1>1. << >> \in P
  BY <1>0, ConcatEmpty
<1>2. ASSUME NEW r \in Seq(E), NEW x \in E, r \in P
      PROVE  Append(r, x) \in P
  <2> DEFINE q == s \o r
             a == Only(s, S)
             b == Only(r, S)
  <2>1. Append(r, x) \in Seq(E) /\ s \o Append(r, x) = Append(q, x)
    BY ConcatAppend
  <2>2. q \in Seq(E)
    OBVIOUS
  <2>3. Only(q, S) = a \o b
    BY <1>2
  <2>t. a \in Seq(E) /\ b \in Seq(E)
    BY <1>0, OnlyType
  <2> HIDE DEF q, a, b
  <2>4. Only(Append(q, x), S) = a \o Only(Append(r, x), S)
    <3>1. CASE x \in S
      <4>1. Only(Append(q, x), S) = Append(Only(q, S), x)
        BY <2>2, <3>1, OnlyIn
      <4>2. Only(Append(r, x), S) = Append(b, x)
        BY <3>1, OnlyIn DEF b
      <4>3. a \o Append(b, x) = Append(a \o b, x)
        BY <2>t, ConcatAppend
      <4>4. QED
        BY <2>3, <4>1, <4>2, <4>3, Zenon
    <3>2. CASE x \notin S
      <4>1. Only(Append(q, x), S) = Only(q, S)
        BY <2>2, <3>2, OnlyOut
      <4>2. Only(Append(r, x), S) = b
        BY <3>2, OnlyOut DEF b
      <4>3. QED
        BY <2>3, <4>1, <4>2, Zenon
    <3>3. QED
      BY <3>1, <3>2
  <2>5. QED
    BY <2>1, <2>4, Zenon DEF q, a
<1> HIDE DEF P
<1>3. \A r \in Seq(E) : r \in P
  BY <1>1, <1>2, ListInduction
<1>4. QED
  BY <1>3 DEF P

(* The total of two lists of units is the sum of their totals. *)
LEMMA TotalConcat ==
  ASSUME NEW s \in Seq(AnyUnit), NEW t \in Seq(AnyUnit)
  PROVE  Total(s \o t) = Total(s) + Total(t)
<1> DEFINE P == {r \in Seq(AnyUnit) : Total(s \o r) = Total(s) + Total(r)}
<1>0. Total(s) \in Int /\ Total(<< >>) = 0 /\ << >> \in Seq(AnyUnit)
  BY TotalType, EmptyList, Zenon
<1>1. << >> \in P
  BY <1>0, ConcatEmpty
<1>2. ASSUME NEW r \in Seq(AnyUnit), NEW x \in AnyUnit, r \in P
      PROVE  Append(r, x) \in P
  <2> DEFINE q == s \o r
             a == Total(s)
             b == Total(r)
             c == x.tokens
  <2>1. Append(r, x) \in Seq(AnyUnit) /\ s \o Append(r, x) = Append(q, x)
    BY ConcatAppend
  <2>2. q \in Seq(AnyUnit)
    OBVIOUS
  <2>3. Total(q) = a + b
    BY <1>2
  <2>4. a \in Int /\ b \in Int /\ c \in Int
    BY <1>0, TotalType, UnitFields
  <2> HIDE DEF q, a, b, c
  <2>5. Total(Append(q, x)) = Total(q) + c
    BY <2>2, TotalBoth DEF c
  <2>6. Total(Append(r, x)) = b + c
    BY TotalBoth DEF b, c
  <2>7. (a + b) + c = a + (b + c)
    BY <2>4
  <2>8. Total(Append(q, x)) = a + Total(Append(r, x))
    BY <2>3, <2>5, <2>6, <2>7, Zenon
  <2>9. QED
    BY <2>1, <2>8, Zenon DEF q, a
<1> HIDE DEF P
<1>3. \A r \in Seq(AnyUnit) : r \in P
  BY <1>1, <1>2, ListInduction
<1>4. QED
  BY <1>3 DEF P

(* The tokens of two lists of messages add up. *)
LEMMA TokensConcat ==
  ASSUME NEW s \in Seq(Inbound), NEW t \in Seq(Inbound)
  PROVE  Tokens(s \o t) = Tokens(s) + Tokens(t)
<1> DEFINE P == {r \in Seq(Inbound) : Tokens(s \o r) = Tokens(s) + Tokens(r)}
<1>0. Tokens(s) \in Int /\ Tokens(<< >>) = 0 /\ << >> \in Seq(Inbound)
  BY TokensType, EmptyList, Zenon
<1>1. << >> \in P
  BY <1>0, ConcatEmpty
<1>2. ASSUME NEW r \in Seq(Inbound), NEW x \in Inbound, r \in P
      PROVE  Append(r, x) \in P
  <2> DEFINE q == s \o r
             a == Tokens(s)
             b == Tokens(r)
             c == Cost[x.text]
  <2>1. Append(r, x) \in Seq(Inbound) /\ s \o Append(r, x) = Append(q, x)
    BY ConcatAppend
  <2>2. q \in Seq(Inbound)
    OBVIOUS
  <2>3. Tokens(q) = a + b
    BY <1>2
  <2>4. a \in Int /\ b \in Int /\ c \in Int
    BY <1>0, TokensType, ContextAssumption
  <2> HIDE DEF q, a, b, c
  <2>5. Tokens(Append(q, x)) = Tokens(q) + c
    BY <2>2, TokensBoth DEF c
  <2>6. Tokens(Append(r, x)) = b + c
    BY TokensBoth DEF b, c
  <2>7. (a + b) + c = a + (b + c)
    BY <2>4
  <2>8. Tokens(Append(q, x)) = a + Tokens(Append(r, x))
    BY <2>3, <2>5, <2>6, <2>7, Zenon
  <2>9. QED
    BY <2>1, <2>8, Zenon DEF q, a
<1> HIDE DEF P
<1>3. \A r \in Seq(Inbound) : r \in P
  BY <1>1, <1>2, ListInduction
<1>4. QED
  BY <1>3 DEF P

(* The messages of two lists of units, one after the other. *)
LEMMA RenderedConcat ==
  ASSUME NEW s \in Seq(AnyUnit), NEW t \in Seq(AnyUnit)
  PROVE  Rendered(s \o t) = Rendered(s) \o Rendered(t)
<1> DEFINE P == {r \in Seq(AnyUnit) : Rendered(s \o r) = Rendered(s) \o Rendered(r)}
<1>0. Rendered(s) \in Seq(AnyMessage) /\ Rendered(<< >>) = << >> /\ << >> \in Seq(AnyUnit)
  BY RenderedType, EmptyList, Zenon
<1>1. << >> \in P
  BY <1>0, ConcatEmpty
<1>2. ASSUME NEW r \in Seq(AnyUnit), NEW x \in AnyUnit, r \in P
      PROVE  Append(r, x) \in P
  <2> DEFINE q == s \o r
             a == Rendered(s)
             b == Rendered(r)
             c == x.messages
  <2>1. Append(r, x) \in Seq(AnyUnit) /\ s \o Append(r, x) = Append(q, x)
    BY ConcatAppend
  <2>2. q \in Seq(AnyUnit)
    OBVIOUS
  <2>3. Rendered(q) = a \o b
    BY <1>2
  <2>4. a \in Seq(AnyMessage) /\ b \in Seq(AnyMessage) /\ c \in Seq(AnyMessage)
    BY <1>0, RenderedType, UnitFields
  <2> HIDE DEF q, a, b, c
  <2>5. Rendered(Append(q, x)) = Rendered(q) \o c
    BY <2>2, RenderedAppend DEF c
  <2>6. Rendered(Append(r, x)) = b \o c
    BY RenderedAppend DEF b, c
  <2>7. (a \o b) \o c = a \o (b \o c)
    BY <2>4, ConcatAssoc, SMTT(20)
  <2>8. Rendered(Append(q, x)) = a \o Rendered(Append(r, x))
    BY <2>3, <2>5, <2>6, <2>7, Zenon
  <2>9. QED
    BY <2>1, <2>8, Zenon DEF q, a
<1> HIDE DEF P
<1>3. \A r \in Seq(AnyUnit) : r \in P
  BY <1>1, <1>2, ListInduction
<1>4. QED
  BY <1>3 DEF P

(* What Only selects. *)
LEMMA OnlySame ==
  ASSUME NEW E, NEW s \in Seq(E), NEW S, NEW T, \A x \in E : x \in S <=> x \in T
  PROVE  Only(s, S) = Only(s, T)
<1> DEFINE P == {r \in Seq(E) : Only(r, S) = Only(r, T)}
<1>1. << >> \in P
  BY OnlyType, EmptyList, Zenon
<1>2. ASSUME NEW r \in Seq(E), NEW x \in E, r \in P
      PROVE  Append(r, x) \in P
  <2>1. Append(r, x) \in Seq(E)
    OBVIOUS
  <2>2. Only(r, S) = Only(r, T)
    BY <1>2
  <2>3. CASE x \in S
    <3>1. x \in T /\ Only(Append(r, x), S) = Append(Only(r, S), x)
      BY <2>3, OnlyIn
    <3>2. Only(Append(r, x), T) = Append(Only(r, T), x)
      BY <3>1, OnlyIn
    <3>3. QED
      BY <2>1, <2>2, <3>1, <3>2, Zenon
  <2>4. CASE x \notin S
    <3>1. x \notin T /\ Only(Append(r, x), S) = Only(r, S)
      BY <2>4, OnlyOut
    <3>2. Only(Append(r, x), T) = Only(r, T)
      BY <3>1, OnlyOut
    <3>3. QED
      BY <2>1, <2>2, <3>1, <3>2, Zenon
  <2>5. QED
    BY <2>3, <2>4
<1> HIDE DEF P
<1>3. \A r \in Seq(E) : r \in P
  BY <1>1, <1>2, ListInduction
<1>4. QED
  BY <1>3 DEF P

(* A list whose elements all qualify is kept whole. *)
LEMMA OnlyAll ==
  ASSUME NEW E, NEW s \in Seq(E), NEW S, E \subseteq S
  PROVE  Only(s, S) = s
<1> DEFINE P == {r \in Seq(E) : Only(r, S) = r}
<1>1. << >> \in P
  BY OnlyType, EmptyList, Zenon
<1>2. ASSUME NEW r \in Seq(E), NEW x \in E, r \in P
      PROVE  Append(r, x) \in P
  <2>1. Append(r, x) \in Seq(E) /\ x \in S
    OBVIOUS
  <2>2. Only(r, S) = r
    BY <1>2
  <2>3. QED
    BY <2>1, <2>2, OnlyIn
<1> HIDE DEF P
<1>3. \A r \in Seq(E) : r \in P
  BY <1>1, <1>2, ListInduction
<1>4. QED
  BY <1>3 DEF P

(* A list whose elements all fail is dropped whole. *)
LEMMA OnlyNone ==
  ASSUME NEW E, NEW s \in Seq(E), NEW S, \A x \in E : x \notin S
  PROVE  Only(s, S) = << >>
<1> DEFINE P == {r \in Seq(E) : Only(r, S) = << >>}
<1>1. << >> \in P
  BY OnlyType, EmptyList, Zenon
<1>2. ASSUME NEW r \in Seq(E), NEW x \in E, r \in P
      PROVE  Append(r, x) \in P
  <2>1. Append(r, x) \in Seq(E) /\ x \notin S
    OBVIOUS
  <2>2. Only(r, S) = << >>
    BY <1>2
  <2>3. QED
    BY <2>1, <2>2, OnlyOut
<1> HIDE DEF P
<1>3. \A r \in Seq(E) : r \in P
  BY <1>1, <1>2, ListInduction
<1>4. QED
  BY <1>3 DEF P

(* Only keeps elements of the set. *)
LEMMA OnlyWithin ==
  ASSUME NEW E, NEW s \in Seq(E), NEW S
  PROVE  Only(s, S) \in Seq(E \cap S)
<1> DEFINE P == {r \in Seq(E) : Only(r, S) \in Seq(E \cap S)}
<1>1. << >> \in P
  BY OnlyType, EmptyList, Zenon
<1>2. ASSUME NEW r \in Seq(E), NEW x \in E, r \in P
      PROVE  Append(r, x) \in P
  <2>1. Append(r, x) \in Seq(E)
    OBVIOUS
  <2>2. Only(r, S) \in Seq(E \cap S)
    BY <1>2
  <2>3. CASE x \in S
    <3>1. Only(Append(r, x), S) = Append(Only(r, S), x)
      BY <2>3, OnlyIn
    <3>2. QED
      BY <2>1, <2>2, <2>3, <3>1
  <2>4. CASE x \notin S
    BY <2>1, <2>2, <2>4, OnlyOut
  <2>5. QED
    BY <2>3, <2>4
<1> HIDE DEF P
<1>3. \A r \in Seq(E) : r \in P
  BY <1>1, <1>2, ListInduction
<1>4. QED
  BY <1>3 DEF P

(* Two selections are the selection of what both keep. *)
LEMMA OnlyTwice ==
  ASSUME NEW E, NEW s \in Seq(E), NEW S, NEW T
  PROVE  Only(Only(s, S), T) = Only(s, S \cap T)
<1> DEFINE U == S \cap T
           P == {r \in Seq(E) : Only(Only(r, S), T) = Only(r, U)}
<1>0. \A x : x \in U <=> x \in S /\ x \in T
  OBVIOUS
<1> HIDE DEF U
<1>1. << >> \in P
  BY OnlyType, EmptyList, Zenon
<1>2. ASSUME NEW r \in Seq(E), NEW x \in E, r \in P
      PROVE  Append(r, x) \in P
  <2> DEFINE a == Only(r, S)
  <2>1. Append(r, x) \in Seq(E) /\ a \in Seq(E)
    BY OnlyType
  <2>2. Only(a, T) = Only(r, U)
    BY <1>2
  <2> HIDE DEF a
  <2>3. CASE x \in U
    <3>1. Only(Append(r, x), S) = Append(a, x)
      BY <1>0, <2>3, OnlyIn DEF a
    <3>2. Only(Append(a, x), T) = Append(Only(a, T), x)
      BY <1>0, <2>1, <2>3, OnlyIn
    <3>3. Only(Append(r, x), U) = Append(Only(r, U), x)
      BY <1>0, <2>3, OnlyIn
    <3>4. QED
      BY <2>1, <2>2, <3>1, <3>2, <3>3, Zenon
  <2>4. CASE x \in S /\ x \notin T
    <3>1. Only(Append(r, x), S) = Append(a, x)
      BY <2>4, OnlyIn DEF a
    <3>2. Only(Append(a, x), T) = Only(a, T)
      BY <2>1, <2>4, OnlyOut
    <3>3. Only(Append(r, x), U) = Only(r, U)
      BY <1>0, <2>4, OnlyOut
    <3>4. QED
      BY <2>1, <2>2, <3>1, <3>2, <3>3, Zenon
  <2>5. CASE x \notin S
    <3>1. Only(Append(r, x), S) = a
      BY <2>5, OnlyOut DEF a
    <3>2. Only(Append(r, x), U) = Only(r, U)
      BY <1>0, <2>5, OnlyOut
    <3>3. QED
      BY <2>1, <2>2, <3>1, <3>2, Zenon
  <2>6. QED
    BY <1>0, <2>3, <2>4, <2>5
<1> HIDE DEF P
<1>3. \A r \in Seq(E) : r \in P
  BY <1>1, <1>2, ListInduction
<1>4. QED
  BY <1>3, Zenon DEF P, U

(* The units of two disjoint sets. *)
LEMMA TotalSplit ==
  ASSUME NEW s \in Seq(AnyUnit), NEW S, NEW T, S \cap T = {}
  PROVE  Total(Only(s, S \cup T)) = Total(Only(s, S)) + Total(Only(s, T))
<1> DEFINE E == AnyUnit
           U == S \cup T
           P == {r \in Seq(E) : Total(Only(r, U)) = Total(Only(r, S)) + Total(Only(r, T))}
<1>0. \A x : (x \in U <=> x \in S \/ x \in T) /\ ~(x \in S /\ x \in T)
  OBVIOUS
<1> HIDE DEF U
<1>1. << >> \in P
  <2>1. Only(<< >>, U) = << >> /\ Only(<< >>, S) = << >> /\ Only(<< >>, T) = << >>
    BY OnlyType, EmptyList, Zenon
  <2>2. Total(<< >>) = 0 /\ << >> \in Seq(E)
    BY EmptyList, TotalType, Zenon
  <2>3. QED
    BY <2>1, <2>2
<1>2. ASSUME NEW r \in Seq(E), NEW x \in E, r \in P
      PROVE  Append(r, x) \in P
  <2> DEFINE a == Only(r, S)
             b == Only(r, T)
             c == Only(r, U)
  <2>1. a \in Seq(E) /\ b \in Seq(E) /\ c \in Seq(E)
    BY OnlyType
  <2>2. Total(c) = Total(a) + Total(b)
    BY <1>2
  <2>3. /\ x \in S => Only(Append(r, x), S) = Append(a, x)
        /\ x \notin S => Only(Append(r, x), S) = a
        /\ x \in T => Only(Append(r, x), T) = Append(b, x)
        /\ x \notin T => Only(Append(r, x), T) = b
        /\ x \in U => Only(Append(r, x), U) = Append(c, x)
        /\ x \notin U => Only(Append(r, x), U) = c
    BY OnlyIn, OnlyOut
  <2> HIDE DEF a, b, c
  <2>5. /\ Total(Append(a, x)) = Total(a) + x.tokens
        /\ Total(Append(b, x)) = Total(b) + x.tokens
        /\ Total(Append(c, x)) = Total(c) + x.tokens
    BY <2>1, TotalBoth
  <2>6. Total(a) \in Int /\ Total(b) \in Int /\ x.tokens \in Int
    BY <2>1, TotalType, UnitFields
  <2>7. Total(Only(Append(r, x), U))
          = Total(Only(Append(r, x), S)) + Total(Only(Append(r, x), T))
    <3> DEFINE u == Only(Append(r, x), U)
               v == Only(Append(r, x), S)
               w == Only(Append(r, x), T)
    <3>1. \/ u = Append(c, x) /\ v = Append(a, x) /\ w = b
          \/ u = Append(c, x) /\ v = a /\ w = Append(b, x)
          \/ u = c /\ v = a /\ w = b
      BY <1>0, <2>3, Zenon
    <3> HIDE DEF u, v, w
    <3>2. \/ /\ Total(u) = Total(c) + x.tokens /\ Total(v) = Total(a) + x.tokens
             /\ Total(w) = Total(b)
          \/ /\ Total(u) = Total(c) + x.tokens /\ Total(v) = Total(a)
             /\ Total(w) = Total(b) + x.tokens
          \/ Total(u) = Total(c) /\ Total(v) = Total(a) /\ Total(w) = Total(b)
      BY <2>5, <3>1, Zenon
    <3>3. Total(u) = Total(v) + Total(w)
      BY <2>2, <2>6, <3>2
    <3>4. QED
      BY <3>3, Zenon DEF u, v, w
  <2>8. Append(r, x) \in Seq(E)
    OBVIOUS
  <2>9. QED
    BY <2>7, <2>8, Zenon
<1> HIDE DEF P
<1>3. \A r \in Seq(E) : r \in P
  BY <1>1, <1>2, ListInduction
<1>4. QED
  BY <1>3, Zenon DEF P, U

(* No list costs less than nothing. *)
LEMMA TotalNat ==
  ASSUME NEW s \in Seq(AnyUnit)
  PROVE  Total(s) \in Nat
<1> DEFINE P == {r \in Seq(AnyUnit) : Total(r) \in Nat}
<1>1. << >> \in P
  <2>1. << >> \in Seq(AnyUnit) /\ Total(<< >>) = 0
    BY TotalType, EmptyList, Zenon
  <2>2. QED
    BY <2>1
<1>2. ASSUME NEW r \in Seq(AnyUnit), NEW x \in AnyUnit, r \in P
      PROVE  Append(r, x) \in P
  <2>1. Total(Append(r, x)) = Total(r) + x.tokens
    BY TotalBoth
  <2>2. x.tokens \in Nat
    BY UnitFields
  <2>3. Total(Append(r, x)) \in Nat
    BY <1>2, <2>1, <2>2
  <2>4. QED
    BY <2>3
<1> HIDE DEF P
<1>3. \A r \in Seq(AnyUnit) : r \in P
  BY <1>1, <1>2, ListInduction
<1>4. QED
  BY <1>3 DEF P

(* Tokens are a natural number. *)
LEMMA TokensNat ==
  ASSUME NEW s \in Seq(Inbound)
  PROVE  Tokens(s) \in Nat
<1> DEFINE P == {r \in Seq(Inbound) : Tokens(r) \in Nat}
<1>1. << >> \in P
  <2>1. << >> \in Seq(Inbound) /\ Tokens(<< >>) = 0
    BY TokensType, EmptyList, Zenon
  <2>2. QED
    BY <2>1
<1>2. ASSUME NEW r \in Seq(Inbound), NEW x \in Inbound, r \in P
      PROVE  Append(r, x) \in P
  <2>1. Tokens(Append(r, x)) = Tokens(r) + Cost[x.text]
    BY TokensBoth
  <2>2. Cost[x.text] \in Nat
    BY ContextAssumption
  <2>3. Tokens(Append(r, x)) \in Nat
    BY <1>2, <2>1, <2>2
  <2>4. QED
    BY <2>3
<1> HIDE DEF P
<1>3. \A r \in Seq(Inbound) : r \in P
  BY <1>1, <1>2, ListInduction
<1>4. QED
  BY <1>3 DEF P

(* The selections of the planners, with a set that does not depend on the    *)
(* list.                                                                    *)
KindSet(K) == {u \in AnyUnit : u.kind \in K}

SystemSet == {m \in AnyMessage : m.role = "system"}

OtherSet == {m \in AnyMessage : m.role # "system"}

(* The units of some kinds are a selection. *)
LEMMA OfKindsOnly ==
  ASSUME NEW s \in Seq(AnyUnit), NEW K
  PROVE  OfKinds(s, K) = Only(s, KindSet(K))
<1> DEFINE R == Range(s)
           T == {x \in R : x.kind \in K}
<1>1. s \in Seq(R) /\ R \subseteq AnyUnit
  BY DEF Range
<1> HIDE DEF R
<1>2. \A x \in R : x \in T <=> x \in KindSet(K)
  BY <1>1 DEF KindSet
<1>3. OfKinds(s, K) = Only(s, T)
  BY DEF OfKinds, R
<1> HIDE DEF T
<1>4. QED
  BY <1>1, <1>2, <1>3, OnlySame

(* The instructions are a selection. *)
LEMMA InstructionsOnly ==
  ASSUME NEW s \in Seq(AnyMessage)
  PROVE  Instructions(s) = Only(s, SystemSet)
<1> DEFINE R == Range(s)
           T == {x \in R : x.role = "system"}
<1>1. s \in Seq(R) /\ R \subseteq AnyMessage
  BY DEF Range
<1> HIDE DEF R
<1>2. \A x \in R : x \in T <=> x \in SystemSet
  BY <1>1 DEF SystemSet
<1>3. Instructions(s) = Only(s, T)
  BY DEF Instructions, R
<1> HIDE DEF T
<1>4. QED
  BY <1>1, <1>2, <1>3, OnlySame

(* The other messages are a selection. *)
LEMMA OthersOnly ==
  ASSUME NEW s \in Seq(AnyMessage)
  PROVE  Others(s) = Only(s, OtherSet)
<1> DEFINE R == Range(s)
           T == {x \in R : x.role # "system"}
<1>1. s \in Seq(R) /\ R \subseteq AnyMessage
  BY DEF Range
<1> HIDE DEF R
<1>2. \A x \in R : x \in T <=> x \in OtherSet
  BY <1>1 DEF OtherSet
<1>3. Others(s) = Only(s, T)
  BY DEF Others, R
<1> HIDE DEF T
<1>4. QED
  BY <1>1, <1>2, <1>3, OnlySame

-----------------------------------------------------------------------------
(* Segmentation. *)

Asks == {m \in Inbound : m.role = "user"}

Answers == {m \in Inbound : m.role = "assistant"}

Orders == {m \in Inbound : m.role = "system"}

TurnForm(ms) == ms \in Seq(Inbound) /\ ms # << >> /\ ms[1] \in Asks
                /\ \A i \in 2 .. Len(ms) : ms[i] \in Answers

(* The units of a history. *)
PlainUnit ==
  {u \in AnyUnit : /\ u.kind \in {"system", "turn", "prefill"}
                   /\ u.messages \in Seq(Inbound) /\ u.messages # << >>
                   /\ u.tokens = Tokens(u.messages)
                   /\ u.kind = "system" => u.messages \in Seq(Orders)
                   /\ u.kind = "prefill" => u.messages \in Seq(Answers)
                   /\ u.kind = "turn" => TurnForm(u.messages)}

NoTurn(units) == \A n \in 1 .. Len(units) : units[n].kind # "turn"

PrefillFirst(units) ==
  \A m, n \in 1 .. Len(units) : m < n /\ units[n].kind = "prefill" => units[m].kind # "turn"

Keyed(units) == \A n \in 1 .. Len(units) : units[n].key = n

(* units hold the instructions i and the other messages h. *)
Hold(units, i, h) ==
  /\ units \in Seq(PlainUnit) /\ Keyed(units) /\ PrefillFirst(units)
  /\ Rendered(OfKinds(units, System)) = i
  /\ Rendered(OfKinds(units, History)) = h

(* The units of a history are units. *)
LEMMA PlainIsAny == PlainUnit \subseteq AnyUnit /\ Seq(PlainUnit) \subseteq Seq(AnyUnit)
<1>1. PlainUnit \subseteq AnyUnit
  BY DEF PlainUnit
<1>2. QED
  BY <1>1

(* Inbound messages are messages. *)
LEMMA InboundIsAny == Inbound \subseteq AnyMessage /\ Seq(Inbound) \subseteq Seq(AnyMessage)
<1>1. Inbound \subseteq AnyMessage
  BY DEF AnyMessage
<1>2. QED
  BY <1>1

(* What a unit of its own holds. *)
LEMMA UnitIsAny ==
  ASSUME NEW kind \in Kinds, NEW key \in Int, NEW ms \in Seq(Inbound)
  PROVE  /\ Unit(kind, key, ms) \in AnyUnit
         /\ Unit(kind, key, ms).kind = kind /\ Unit(kind, key, ms).key = key
         /\ Unit(kind, key, ms).messages = ms /\ Unit(kind, key, ms).tokens = Tokens(ms)
<1>1. Tokens(ms) \in Nat /\ ms \in Seq(AnyMessage)
  BY TokensNat, InboundIsAny
<1>2. QED
  BY <1>1 DEF Unit, AnyUnit

(* One more unit. *)
LEMMA OneMore ==
  ASSUME NEW units \in Seq(AnyUnit), NEW u \in AnyUnit, NEW K
  PROVE  /\ u.kind \in K => OfKinds(Append(units, u), K) = Append(OfKinds(units, K), u)
         /\ u.kind \notin K => OfKinds(Append(units, u), K) = OfKinds(units, K)
         /\ OfKinds(units, K) \in Seq(AnyUnit)
<1>1. Append(units, u) \in Seq(AnyUnit)
  OBVIOUS
<1>2. OfKinds(units, K) = Only(units, KindSet(K))
  BY OfKindsOnly
<1>3. OfKinds(Append(units, u), K) = Only(Append(units, u), KindSet(K))
  BY <1>1, OfKindsOnly, Zenon
<1>4. u.kind \in K <=> u \in KindSet(K)
  BY DEF KindSet
<1>5. u \in KindSet(K) => Only(Append(units, u), KindSet(K)) = Append(Only(units, KindSet(K)), u)
  BY OnlyIn
<1>6. u \notin KindSet(K) => Only(Append(units, u), KindSet(K)) = Only(units, KindSet(K))
  BY OnlyOut
<1>7. Only(units, KindSet(K)) \in Seq(AnyUnit)
  BY OnlyType
<1>8. QED
  BY <1>2, <1>3, <1>4, <1>5, <1>6, <1>7, Zenon

(* The messages of the units of some kinds, with one more unit. *)
LEMMA OneMoreRendered ==
  ASSUME NEW units \in Seq(AnyUnit), NEW u \in AnyUnit, NEW K
  PROVE  /\ u.kind \in K => Rendered(OfKinds(Append(units, u), K))
                              = Rendered(OfKinds(units, K)) \o u.messages
         /\ u.kind \notin K => Rendered(OfKinds(Append(units, u), K))
                                 = Rendered(OfKinds(units, K))
         /\ Rendered(OfKinds(units, K)) \in Seq(AnyMessage)
<1> DEFINE k == OfKinds(units, K)
<1>1. k \in Seq(AnyUnit)
  BY OneMore
<1>2. /\ u.kind \in K => OfKinds(Append(units, u), K) = Append(k, u)
      /\ u.kind \notin K => OfKinds(Append(units, u), K) = k
  BY OneMore
<1> HIDE DEF k
<1>3. Rendered(Append(k, u)) = Rendered(k) \o u.messages /\ Rendered(k) \in Seq(AnyMessage)
  BY <1>1, RenderedAppend, RenderedType
<1>4. QED
  BY <1>2, <1>3, Zenon DEF k

(* A unit behind all others. *)
LEMMA HoldMore ==
  ASSUME NEW units, NEW i, NEW h, Hold(units, i, h),
         NEW u \in PlainUnit, u.key = Len(units) + 1, u.kind = "prefill" => NoTurn(units)
  PROVE  Hold(Append(units, u), IF u.kind = "system" THEN i \o u.messages ELSE i,
                                IF u.kind = "system" THEN h ELSE h \o u.messages)
<1>1. units \in Seq(PlainUnit) /\ units \in Seq(AnyUnit) /\ u \in AnyUnit
  BY PlainIsAny DEF Hold
<1>2. Append(units, u) \in Seq(PlainUnit) /\ Keyed(Append(units, u))
      /\ PrefillFirst(Append(units, u))
  <2> PICK N \in Nat : N = Len(units)
    BY <1>1
  <2> DEFINE d == Append(units, u)
  <2>1. d \in Seq(PlainUnit) /\ Len(d) = N + 1 /\ d[N + 1] = u
        /\ \A n \in 1 .. N : d[n] = units[n]
    BY <1>1, Append1
  <2> HIDE DEF d
  <2>2. Keyed(d)
    BY <2>1 DEF Hold, Keyed
  <2>3. PrefillFirst(d)
    BY <2>1 DEF Hold, PrefillFirst, NoTurn
  <2>4. QED
    BY <2>1, <2>2, <2>3 DEF d
<1>3. u.kind \in {"system", "turn", "prefill"}
  BY DEF PlainUnit
<1>4. /\ u.kind \in System <=> u.kind = "system"
      /\ u.kind \in History <=> u.kind # "system"
  BY <1>3 DEF System, History
<1>5. Rendered(OfKinds(units, System)) = i /\ Rendered(OfKinds(units, History)) = h
  BY DEF Hold
<1>6. Rendered(OfKinds(Append(units, u), System)) = IF u.kind = "system" THEN i \o u.messages ELSE i
  BY <1>1, <1>4, <1>5, OneMoreRendered, Zenon
<1>7. Rendered(OfKinds(Append(units, u), History)) = IF u.kind = "system" THEN h ELSE h \o u.messages
  BY <1>1, <1>4, <1>5, OneMoreRendered, Zenon
<1>8. QED
  BY <1>2, <1>6, <1>7 DEF Hold

(* The types of the segmentation. *)
SegState == [units : Seq(AnyUnit), prefill : Seq(Inbound), turn : Seq(Inbound)]

(* Closing a unit leaves a list of units. *)
LEMMA CloseType ==
  ASSUME NEW units \in Seq(AnyUnit), NEW kind \in Kinds, NEW ms \in Seq(Inbound)
  PROVE  Close(units, kind, ms) \in Seq(AnyUnit)
<1>1. Unit(kind, Len(units) + 1, ms) \in AnyUnit
  <2>1. Len(units) + 1 \in Int
    OBVIOUS
  <2>2. QED
    BY <2>1, UnitIsAny
<1>2. Append(units, Unit(kind, Len(units) + 1, ms)) \in Seq(AnyUnit)
  BY <1>1
<1>3. QED
  BY <1>2 DEF Close

(* A step of the segmentation keeps its state in SegState. *)
LEMMA StepType ==
  ASSUME NEW s \in SegState, NEW m \in Inbound
  PROVE  SegmentStep(s, m) \in SegState /\ CloseBoth(s) \in Seq(AnyUnit)
<1>1. s.units \in Seq(AnyUnit) /\ s.prefill \in Seq(Inbound) /\ s.turn \in Seq(Inbound)
      /\ s = [units |-> s.units, prefill |-> s.prefill, turn |-> s.turn]
  BY DEF SegState
<1>2. "system" \in Kinds /\ "turn" \in Kinds /\ "prefill" \in Kinds
  BY DEF Kinds
<1>3. << >> \in Seq(Inbound) /\ <<m>> \in Seq(Inbound)
      /\ Append(s.turn, m) \in Seq(Inbound) /\ Append(s.prefill, m) \in Seq(Inbound)
  BY <1>1
<1>4. Close(s.units, "prefill", s.prefill) \in Seq(AnyUnit)
  BY <1>1, <1>2, CloseType
<1>5. Close(Close(s.units, "prefill", s.prefill), "system", <<m>>) \in Seq(AnyUnit)
  BY <1>2, <1>3, <1>4, CloseType, Zenon
<1>6. Close(s.units, "turn", s.turn) \in Seq(AnyUnit)
  BY <1>1, <1>2, CloseType
<1>7. CloseBoth(s) \in Seq(AnyUnit)
  BY <1>1, <1>2, <1>6, CloseType DEF CloseBoth
<1>8. CASE m.role = "system"
  BY <1>1, <1>3, <1>5, <1>7, <1>8, Zenon DEF SegmentStep, SegState
<1>9. CASE m.role = "user"
  BY <1>1, <1>3, <1>7, <1>9 DEF SegmentStep, SegState
<1>10. CASE m.role # "system" /\ m.role # "user"
  <2>1. SegmentStep(s, m) = IF s.turn # << >> THEN [s EXCEPT !.turn = Append(s.turn, m)]
                            ELSE [s EXCEPT !.prefill = Append(s.prefill, m)]
    BY <1>10 DEF SegmentStep
  <2>2. QED
    BY <1>1, <1>3, <1>7, <2>1, Zenon DEF SegState
<1>11. QED
  BY <1>8, <1>9, <1>10

(* The states of the segmentation. *)
Segments(s) ==
  CHOOSE segment : segment = [n \in 0 .. Len(s) |-> IF n = 0 THEN [units |-> << >>, prefill |-> << >>, turn |-> << >>] ELSE SegmentStep(segment[n - 1], s[n])]

(* Segments, one message at a time, and Segment as the last of it. *)
LEMMA SegmentsFacts ==
  ASSUME NEW s \in Seq(Inbound)
  PROVE  /\ Segments(s) \in [0 .. Len(s) -> SegState] /\ Segments(s)[0] = [units |-> << >>, prefill |-> << >>, turn |-> << >>]
         /\ \A n \in 1 .. Len(s) : Segments(s)[n] = SegmentStep(Segments(s)[n - 1], s[n])
         /\ Segment(s) = Segments(s)[Len(s)]
<1> PICK N \in Nat : N = Len(s)
  OBVIOUS
<1>0. [units |-> << >>, prefill |-> << >>, turn |-> << >>] \in SegState /\ \A v \in SegState, n \in 1 .. N : SegmentStep(v, s[n]) \in SegState
  <2>1. << >> \in Seq(AnyUnit) /\ << >> \in Seq(Inbound)
    BY EmptyList
  <2>2. \A n \in 1 .. N : s[n] \in Inbound
    OBVIOUS
  <2>3. [units |-> << >>, prefill |-> << >>, turn |-> << >>] \in SegState
    BY <2>1 DEF SegState
  <2>4. QED
    BY <2>2, <2>3, StepType
<1> DEFINE Is(f) == f = [n \in 0 .. N |-> IF n = 0 THEN [units |-> << >>, prefill |-> << >>, turn |-> << >>] ELSE SegmentStep(f[n - 1], s[n])]
           step == [p \in SegState \X (1 .. N) |-> SegmentStep(p[1], s[p[2]])]
<1>1. step \in [SegState \X (1 .. N) -> SegState]
  BY <1>0
<1>2. \A v \in SegState, n \in 1 .. N : step[<<v, n>>] = SegmentStep(v, s[n])
  OBVIOUS
<1> HIDE DEF step
<1>3. PICK f : Iterates(f, N, SegState, [units |-> << >>, prefill |-> << >>, turn |-> << >>], step)
  BY <1>0, <1>1, Iterated, Zenon
<1>4. ASSUME NEW n \in 1 .. N PROVE f[n] = SegmentStep(f[n - 1], s[n])
  <2>1. n - 1 \in 0 .. N
    OBVIOUS
  <2>2. f[n] = step[<<f[n - 1], n>>] /\ f[n - 1] \in SegState
    BY <1>3, <2>1, Zenon DEF Iterates
  <2>3. QED
    BY <1>2, <2>2, Zenon
<1>5. f \in [0 .. N -> SegState] /\ f[0] = [units |-> << >>, prefill |-> << >>, turn |-> << >>] /\ Is(f)
  <2>1. f \in [0 .. N -> SegState] /\ f[0] = [units |-> << >>, prefill |-> << >>, turn |-> << >>]
    BY <1>3 DEF Iterates
  <2>2. \A n \in 0 .. N : n = 0 \/ n \in 1 .. N
    OBVIOUS
  <2>3. \A n \in 0 .. N : f[n] = IF n = 0 THEN [units |-> << >>, prefill |-> << >>, turn |-> << >>] ELSE SegmentStep(f[n - 1], s[n])
    BY <1>4, <2>1, <2>2, Zenon
  <2>4. QED
    BY <2>1, <2>3, Zenon
<1> DEFINE g == Segments(s)
<1>6. Is(g) /\ Segment(s) = g[N]
  BY <1>5, Zenon DEF Segment, Segments
<1> HIDE DEF g
<1>7. DOMAIN g = 0 .. N /\ g[0] = [units |-> << >>, prefill |-> << >>, turn |-> << >>]
  BY <1>6
<1>8. ASSUME NEW n \in 1 .. N PROVE g[n] = SegmentStep(g[n - 1], s[n])
  <2>1. n \in 0 .. N /\ n # 0
    OBVIOUS
  <2>2. QED
    BY <1>6, <2>1, Zenon
<1>9. SameUpTo(g, f, N)
  <2>1. \A n \in 1 .. N : g[n - 1] = f[n - 1] => g[n] = f[n]
    BY <1>4, <1>8, Zenon
  <2>2. SameWay(g, f, N)
    BY <1>5, <1>7, <2>1, Zenon DEF SameWay
  <2>3. QED
    BY <2>2, Agree
<1>10. g \in [0 .. N -> SegState]
  BY <1>5, <1>6, <1>9 DEF SameUpTo
<1>11. QED
  BY <1>6, <1>7, <1>8, <1>10, Zenon DEF g

(* Segment, one message at a time. *)
LEMMA SegmentType ==
  ASSUME NEW s \in Seq(Inbound)
  PROVE  Segment(s) \in SegState /\ (s = << >> => Segment(s) = [units |-> << >>, prefill |-> << >>, turn |-> << >>])
<1>1. Len(s) \in 0 .. Len(s) /\ (s = << >> => Len(s) = 0)
  OBVIOUS
<1>2. Segments(s) \in [0 .. Len(s) -> SegState] /\ Segments(s)[0] = [units |-> << >>, prefill |-> << >>, turn |-> << >>]
      /\ Segment(s) = Segments(s)[Len(s)]
  BY SegmentsFacts
<1>3. QED
  BY <1>1, <1>2, Zenon

(* Segment, one message at a time. *)
LEMMA SegmentAppend ==
  ASSUME NEW s \in Seq(Inbound), NEW x \in Inbound
  PROVE  Segment(Append(s, x)) = SegmentStep(Segment(s), x)
<1> DEFINE d == Append(s, x)
           f == Segments(s)
           g == Segments(d)
<1> PICK N \in Nat : N = Len(s)
  OBVIOUS
<1>1. d \in Seq(Inbound) /\ Len(d) = N + 1 /\ d[N + 1] = x
      /\ \A n \in 1 .. N : d[n] = s[n]
  BY Append1
<1> HIDE DEF d
<1>2. f \in [0 .. N -> SegState] /\ f[0] = [units |-> << >>, prefill |-> << >>, turn |-> << >>] /\ Segment(s) = f[N]
      /\ \A n \in 1 .. N : f[n] = SegmentStep(f[n - 1], s[n])
  BY SegmentsFacts
<1>3. g \in [0 .. N + 1 -> SegState] /\ g[0] = [units |-> << >>, prefill |-> << >>, turn |-> << >>] /\ Segment(d) = g[N + 1]
      /\ \A n \in 1 .. N + 1 : g[n] = SegmentStep(g[n - 1], d[n])
  BY <1>1, SegmentsFacts
<1> HIDE DEF f, g
<1>4. \A n \in 1 .. N : f[n - 1] = g[n - 1] => f[n] = g[n]
  <2>1. \A n \in 1 .. N : n \in 1 .. N + 1
    OBVIOUS
  <2>2. QED
    BY <1>1, <1>2, <1>3, <2>1, Zenon
<1>5. SameWay(f, g, N)
  BY <1>2, <1>3, <1>4, Zenon DEF SameWay
<1>6. g[N] = f[N] /\ N + 1 \in 1 .. N + 1 /\ (N + 1) - 1 = N
  BY <1>5, Agree DEF SameUpTo
<1>7. g[N + 1] = SegmentStep(f[N], x)
  BY <1>1, <1>3, <1>6
<1>8. Segment(d) = SegmentStep(f[N], x) /\ f[N] = Segment(s)
  BY <1>2, <1>3, <1>7, Zenon
<1>9. QED
  BY <1>8, Zenon DEF d

(* One more message. *)
LEMMA OneMessage ==
  ASSUME NEW ms \in Seq(AnyMessage), NEW m \in AnyMessage
  PROVE  /\ m.role = "system" => /\ Instructions(Append(ms, m)) = Append(Instructions(ms), m)
                                 /\ Others(Append(ms, m)) = Others(ms)
         /\ m.role # "system" => /\ Instructions(Append(ms, m)) = Instructions(ms)
                                 /\ Others(Append(ms, m)) = Append(Others(ms), m)
         /\ Instructions(ms) \in Seq(AnyMessage) /\ Others(ms) \in Seq(AnyMessage)
<1>1. Append(ms, m) \in Seq(AnyMessage)
  OBVIOUS
<1>2. Instructions(ms) = Only(ms, SystemSet) /\ Others(ms) = Only(ms, OtherSet)
  BY InstructionsOnly, OthersOnly
<1>3. /\ Instructions(Append(ms, m)) = Only(Append(ms, m), SystemSet)
      /\ Others(Append(ms, m)) = Only(Append(ms, m), OtherSet)
  BY <1>1, InstructionsOnly, OthersOnly, Zenon
<1>4. (m.role = "system" <=> m \in SystemSet) /\ (m.role # "system" <=> m \in OtherSet)
  BY DEF SystemSet, OtherSet
<1>5. /\ m \in SystemSet => Only(Append(ms, m), SystemSet) = Append(Only(ms, SystemSet), m)
      /\ m \notin SystemSet => Only(Append(ms, m), SystemSet) = Only(ms, SystemSet)
  BY OnlyIn, OnlyOut
<1>6. /\ m \in OtherSet => Only(Append(ms, m), OtherSet) = Append(Only(ms, OtherSet), m)
      /\ m \notin OtherSet => Only(Append(ms, m), OtherSet) = Only(ms, OtherSet)
  BY OnlyIn, OnlyOut
<1>7. Only(ms, SystemSet) \in Seq(AnyMessage) /\ Only(ms, OtherSet) \in Seq(AnyMessage)
  BY OnlyType
<1>8. QED
  BY <1>2, <1>3, <1>4, <1>5, <1>6, <1>7, Zenon

(* Closing a turn, a prefill or an instruction. *)
LEMMA CloseUnit ==
  ASSUME NEW units, NEW i, NEW h, Hold(units, i, h), NEW kind \in {"system", "turn", "prefill"},
         NEW ms \in Seq(Inbound), ms # << >>,
         kind = "system" => ms \in Seq(Orders),
         kind = "prefill" => ms \in Seq(Answers) /\ NoTurn(units),
         kind = "turn" => TurnForm(ms)
  PROVE  /\ Hold(Close(units, kind, ms), IF kind = "system" THEN i \o ms ELSE i,
                                         IF kind = "system" THEN h ELSE h \o ms)
         /\ kind # "turn" /\ NoTurn(units) => NoTurn(Close(units, kind, ms))
<1> DEFINE u == Unit(kind, Len(units) + 1, ms)
<1>1. units \in Seq(PlainUnit) /\ kind \in Kinds
  BY DEF Hold, Kinds
<1>2. Len(units) + 1 \in Int
  BY <1>1
<1>3. u \in AnyUnit /\ u.kind = kind /\ u.key = Len(units) + 1 /\ u.messages = ms
      /\ u.tokens = Tokens(ms)
  BY <1>1, <1>2, UnitIsAny
<1>4. Close(units, kind, ms) = Append(units, u)
  BY DEF Close
<1> HIDE DEF u
<1>5. u \in PlainUnit
  BY <1>3 DEF PlainUnit
<1>6. Hold(Append(units, u), IF u.kind = "system" THEN i \o u.messages ELSE i,
                             IF u.kind = "system" THEN h ELSE h \o u.messages)
  BY <1>3, <1>5, HoldMore
<1>7. ASSUME kind # "turn", NoTurn(units) PROVE NoTurn(Append(units, u))
  <2> PICK N \in Nat : N = Len(units)
    BY <1>1
  <2> DEFINE d == Append(units, u)
  <2>1. Len(d) = N + 1 /\ d[N + 1] = u /\ \A n \in 1 .. N : d[n] = units[n]
    BY <1>1, <1>5, Append1
  <2> HIDE DEF d
  <2>2. NoTurn(d)
    BY <1>3, <1>7, <2>1 DEF NoTurn
  <2>3. QED
    BY <2>2 DEF d
<1>8. QED
  BY <1>3, <1>4, <1>6, <1>7, Zenon

(* What is open while the messages ms are segmented. *)
SegInv(ms, g) ==
  /\ g \in SegState
  /\ g.prefill \in Seq(Answers) /\ (g.turn = << >> \/ TurnForm(g.turn))
  /\ g.turn # << >> => g.prefill = << >>
  /\ g.turn = << >> => NoTurn(g.units)
  /\ \E h \in Seq(AnyMessage) : /\ Hold(g.units, Instructions(ms), h)
                                /\ (h \o g.turn) \o g.prefill = Others(ms)

(* The types that SegInv gives. *)
LEMMA SegTypes ==
  ASSUME NEW ms, NEW g, SegInv(ms, g)
  PROVE  /\ g.units \in Seq(AnyUnit) /\ g.prefill \in Seq(Inbound) /\ g.turn \in Seq(Inbound)
         /\ g.prefill \in Seq(AnyMessage) /\ g.turn \in Seq(AnyMessage)
         /\ g = [units |-> g.units, prefill |-> g.prefill, turn |-> g.turn]
<1>1. g \in SegState
  BY DEF SegInv
<1>2. g.units \in Seq(AnyUnit) /\ g.prefill \in Seq(Inbound) /\ g.turn \in Seq(Inbound)
      /\ g = [units |-> g.units, prefill |-> g.prefill, turn |-> g.turn]
  BY <1>1 DEF SegState
<1>3. QED
  BY <1>2, InboundIsAny

(* Both closed: nothing of the history is missing. *)
LEMMA CloseBothHolds ==
  ASSUME NEW ms, NEW g, SegInv(ms, g)
  PROVE  Hold(CloseBoth(g), Instructions(ms), Others(ms))
<1> PICK h \in Seq(AnyMessage) : /\ Hold(g.units, Instructions(ms), h)
                                 /\ (h \o g.turn) \o g.prefill = Others(ms)
  BY Zenon DEF SegInv
<1> DEFINE i == Instructions(ms)
<1> HIDE DEF i
<1>0. Hold(g.units, i, h) /\ (h \o g.turn) \o g.prefill = Others(ms)
  BY DEF i
<1>1. g.prefill \in Seq(AnyMessage) /\ g.turn \in Seq(AnyMessage)
      /\ g.prefill \in Seq(Inbound) /\ g.turn \in Seq(Inbound)
  BY SegTypes
<1>2. CASE g.turn # << >>
  <2>1. g.prefill = << >> /\ TurnForm(g.turn)
    BY <1>2 DEF SegInv
  <2>2. Hold(Close(g.units, "turn", g.turn), i, h \o g.turn)
    BY <1>0, <1>1, <1>2, <2>1, CloseUnit
  <2>3. CloseBoth(g) = Close(g.units, "turn", g.turn)
    BY <2>1 DEF CloseBoth, Close
  <2>4. h \o g.turn = Others(ms)
    BY <1>0, <1>1, <2>1
  <2>5. QED
    BY <2>2, <2>3, <2>4 DEF i
<1>3. CASE g.turn = << >> /\ g.prefill # << >>
  <2>1. g.prefill \in Seq(Answers) /\ NoTurn(g.units)
    BY <1>3 DEF SegInv
  <2>2. Hold(Close(g.units, "prefill", g.prefill), i, h \o g.prefill)
    BY <1>0, <1>1, <1>3, <2>1, CloseUnit
  <2>3. CloseBoth(g) = Close(g.units, "prefill", g.prefill)
    BY <1>3 DEF CloseBoth, Close
  <2>4. h \o g.prefill = Others(ms)
    BY <1>0, <1>1, <1>3
  <2>5. QED
    BY <2>2, <2>3, <2>4 DEF i
<1>4. CASE g.turn = << >> /\ g.prefill = << >>
  <2>1. CloseBoth(g) = g.units
    BY <1>4 DEF CloseBoth, Close
  <2>2. h = Others(ms)
    BY <1>0, <1>4
  <2>3. QED
    BY <1>0, <2>1, <2>2 DEF i
<1>5. QED
  BY <1>2, <1>3, <1>4

(* A turn goes on with an answer. *)
LEMMA LongerTurn ==
  ASSUME NEW t, TurnForm(t), NEW m \in Answers
  PROVE  TurnForm(Append(t, m)) /\ Append(t, m) # << >>
<1>1. t \in Seq(Inbound) /\ t # << >> /\ t[1] \in Asks /\ m \in Inbound
      /\ \A i \in 2 .. Len(t) : t[i] \in Answers
  BY DEF TurnForm, Answers
<1> PICK N \in Nat : N = Len(t)
  BY <1>1
<1> DEFINE d == Append(t, m)
<1>2. d \in Seq(Inbound) /\ Len(d) = N + 1 /\ d[N + 1] = m /\ \A n \in 1 .. N : d[n] = t[n]
  BY <1>1, Append1
<1>3. N # 0
  BY <1>1
<1> HIDE DEF d
<1>4. d # << >> /\ d[1] = t[1]
  BY <1>2, <1>3
<1>5. \A i \in 2 .. N + 1 : d[i] \in Answers
  BY <1>1, <1>2
<1>6. QED
  BY <1>1, <1>2, <1>4, <1>5 DEF TurnForm, d

(* A message read by segment_messages preserves SegInv. *)
LEMMA SegStepInv ==
  ASSUME NEW ms \in Seq(Inbound), NEW m \in Inbound, NEW g, SegInv(ms, g)
  PROVE  SegInv(Append(ms, m), SegmentStep(g, m))
<1> DEFINE i == Instructions(ms)
           o == Others(ms)
           a == Append(ms, m)
           n == SegmentStep(g, m)
<1>0. ms \in Seq(AnyMessage) /\ m \in AnyMessage /\ m.role \in {"system", "user", "assistant"}
  BY InboundIsAny, ContextAssumption
<1>1. PICK h \in Seq(AnyMessage) : Hold(g.units, i, h) /\ (h \o g.turn) \o g.prefill = o
  BY Zenon DEF SegInv
<1>2. i \in Seq(AnyMessage) /\ o \in Seq(AnyMessage)
  BY <1>0, OneMessage
<1>3. /\ g.units \in Seq(AnyUnit) /\ g.prefill \in Seq(Inbound) /\ g.turn \in Seq(Inbound)
      /\ g.prefill \in Seq(AnyMessage) /\ g.turn \in Seq(AnyMessage)
      /\ g = [units |-> g.units, prefill |-> g.prefill, turn |-> g.turn]
  BY SegTypes
<1>4. n \in SegState
  <2>1. g \in SegState
    BY DEF SegInv
  <2>2. QED
    BY <2>1, StepType
<1>5. CASE m.role = "system"
  <2> DEFINE c == Close(g.units, "prefill", g.prefill)
             k == h \o g.prefill
  <2>1. Instructions(a) = Append(i, m) /\ Others(a) = o
    BY <1>0, <1>5, OneMessage
  <2>2. Hold(c, i, k) /\ (g.turn = << >> => NoTurn(c))
    <3>1. CASE g.prefill = << >>
      <4>1. c = g.units /\ k = h
        BY <3>1 DEF Close
      <4>2. QED
        BY <1>1, <4>1 DEF SegInv
    <3>2. CASE g.prefill # << >>
      <4>1. g.prefill \in Seq(Answers) /\ NoTurn(g.units)
        BY <3>2 DEF SegInv
      <4>2. QED
        BY <1>1, <1>3, <3>2, <4>1, CloseUnit
    <3>3. QED
      BY <3>1, <3>2
  <2> HIDE DEF c
  <2>3. <<m>> \in Seq(Orders) /\ <<m>> \in Seq(Inbound) /\ <<m>> # << >>
    BY <1>5 DEF Orders
  <2> DEFINE d == Close(c, "system", <<m>>)
  <2>4. Hold(d, i \o <<m>>, k) /\ (g.turn = << >> => NoTurn(d))
    BY <2>2, <2>3, CloseUnit, Zenon
  <2> HIDE DEF d
  <2>5. n = [units |-> d, prefill |-> << >>, turn |-> g.turn]
    BY <1>3, <1>5, Zenon DEF SegmentStep, c, d
  <2>6. i \o <<m>> = Append(i, m) /\ k \in Seq(AnyMessage)
    BY <1>0, <1>2, <1>3
  <2>7. (k \o g.turn) \o << >> = o
    <3>1. CASE g.turn = << >>
      BY <1>1, <1>2, <1>3, <2>6, <3>1
    <3>2. CASE g.turn # << >>
      <4>1. g.prefill = << >>
        BY <3>2 DEF SegInv
      <4>2. QED
        BY <1>1, <1>2, <1>3, <2>6, <4>1
    <3>3. QED
      BY <3>1, <3>2, Zenon
  <2> HIDE DEF k, i, o, a
  <2>8. n.prefill = << >> /\ n.turn = g.turn /\ n.units = d /\ << >> \in Seq(Answers)
    BY <2>5, EmptyList
  <2>9. Hold(n.units, Instructions(a), k) /\ (k \o n.turn) \o n.prefill = Others(a)
    BY <2>1, <2>4, <2>6, <2>7, <2>8, Zenon
  <2>10. QED
    BY <1>4, <2>4, <2>6, <2>8, <2>9, Zenon DEF SegInv, a
<1>6. CASE m.role = "user"
  <2>1. Instructions(a) = i /\ Others(a) = Append(o, m)
    BY <1>0, <1>6, OneMessage
  <2>2. Hold(CloseBoth(g), i, o)
    BY CloseBothHolds
  <2>3. n = [units |-> CloseBoth(g), prefill |-> << >>, turn |-> <<m>>]
    BY <1>6 DEF SegmentStep
  <2>4. TurnForm(<<m>>) /\ << >> \in Seq(Answers)
    BY <1>6 DEF TurnForm, Asks
  <2>5. (o \o <<m>>) \o << >> = Append(o, m)
    BY <1>0, <1>2
  <2> HIDE DEF i, o, a
  <2>6. n.prefill = << >> /\ n.turn = <<m>> /\ n.units = CloseBoth(g) /\ <<m>> # << >>
    BY <2>3
  <2>7. Hold(n.units, Instructions(a), o) /\ (o \o n.turn) \o n.prefill = Others(a)
    BY <2>1, <2>2, <2>5, <2>6
  <2>8. QED
    BY <1>2, <1>4, <2>4, <2>6, <2>7, Zenon DEF SegInv, a
<1>7. CASE m.role = "assistant"
  <2>1. Instructions(a) = i /\ Others(a) = Append(o, m)
    BY <1>0, <1>7, OneMessage
  <2>2. n = IF g.turn # << >> THEN [g EXCEPT !.turn = Append(g.turn, m)]
            ELSE [g EXCEPT !.prefill = Append(g.prefill, m)]
    BY <1>7 DEF SegmentStep
  <2>3. m \in Answers
    BY <1>7 DEF Answers
  <2>4. CASE g.turn # << >>
    <3>1. n.units = g.units /\ n.prefill = g.prefill /\ n.turn = Append(g.turn, m)
      BY <1>3, <2>2, <2>4
    <3>2. g.prefill = << >> /\ TurnForm(g.turn)
      BY <2>4 DEF SegInv
    <3>3. TurnForm(Append(g.turn, m)) /\ Append(g.turn, m) # << >>
      BY <2>3, <3>2, LongerTurn
    <3>4. (h \o Append(g.turn, m)) \o << >> = Append((h \o g.turn) \o << >>, m)
      <4> DEFINE t == g.turn
      <4>1. t \in Seq(AnyMessage)
        BY <1>3
      <4> HIDE DEF t
      <4>2. (h \o Append(t, m)) \o << >> = Append((h \o t) \o << >>, m)
        BY <1>0, <4>1
      <4>3. QED
        BY <4>2 DEF t
    <3> HIDE DEF i, o, a
    <3>5. Hold(n.units, Instructions(a), h) /\ (h \o n.turn) \o n.prefill = Others(a)
      BY <1>1, <2>1, <3>1, <3>2, <3>4, Zenon
    <3>6. n.prefill \in Seq(Answers) /\ TurnForm(n.turn) /\ n.turn # << >> /\ n.prefill = << >>
      BY <3>1, <3>2, <3>3, EmptyList
    <3>7. QED
      BY <1>4, <3>5, <3>6, Zenon DEF SegInv, a
  <2>5. CASE g.turn = << >>
    <3>1. n.units = g.units /\ n.prefill = Append(g.prefill, m) /\ n.turn = << >>
      BY <1>3, <2>2, <2>5
    <3>2. g.prefill \in Seq(Answers) /\ NoTurn(g.units)
      BY <2>5 DEF SegInv
    <3>3. Append(g.prefill, m) \in Seq(Answers)
      BY <2>3, <3>2
    <3>4. (h \o << >>) \o Append(g.prefill, m) = Append((h \o << >>) \o g.prefill, m)
      BY <1>0, <1>3
    <3> HIDE DEF i, o, a
    <3>5. Hold(n.units, Instructions(a), h) /\ (h \o n.turn) \o n.prefill = Others(a)
      BY <1>1, <2>1, <2>5, <3>1, <3>4, Zenon
    <3>6. QED
      BY <1>4, <3>1, <3>2, <3>3, <3>5, Zenon DEF SegInv, a
  <2>6. QED
    BY <2>4, <2>5
<1>8. QED
  BY <1>0, <1>5, <1>6, <1>7

(* segment_messages loses, repeats and reorders nothing: its units are whole *)
(* turns, leading answers or instructions, numbered in order, the messages   *)
(* of its instructions are the instructions of the history and those of its  *)
(* other units the other messages, for every list of messages.               *)
THEOREM Segmented ==
  ASSUME NEW ms \in Seq(Inbound)
  PROVE  Hold(segment_messages(ms), Instructions(ms), Others(ms))
<1> DEFINE P == {r \in Seq(Inbound) : SegInv(r, Segment(r))}
<1>1. << >> \in P
  <2> DEFINE g == [units |-> << >>, prefill |-> << >>, turn |-> << >>]
  <2>1. << >> \in Seq(Inbound) /\ << >> \in Seq(AnyMessage) /\ << >> \in Seq(Answers)
        /\ << >> \in Seq(AnyUnit) /\ << >> \in Seq(PlainUnit)
    BY EmptyList
  <2>2. Segment(<< >>) = g
    BY <2>1, SegmentType, Zenon
  <2>3. Only(<< >>, SystemSet) = << >> /\ Only(<< >>, OtherSet) = << >>
        /\ \A K : Only(<< >>, KindSet(K)) = << >>
    BY EmptyList, OnlyType, Zenon
  <2>4. Instructions(<< >>) = << >> /\ Others(<< >>) = << >>
        /\ OfKinds(<< >>, System) = << >> /\ OfKinds(<< >>, History) = << >>
    BY <2>1, <2>3, InstructionsOnly, OthersOnly, OfKindsOnly, Zenon
  <2>5. Rendered(<< >>) = << >>
    BY <2>1, RenderedType, Zenon
  <2>6. Keyed(<< >>) /\ PrefillFirst(<< >>) /\ NoTurn(<< >>)
    BY DEF Keyed, PrefillFirst, NoTurn
  <2>7. Hold(<< >>, << >>, << >>)
    BY <2>1, <2>4, <2>5, <2>6 DEF Hold
  <2>8. (<< >> \o << >>) \o << >> = << >>
    OBVIOUS
  <2>9. g \in SegState /\ g.units = << >> /\ g.prefill = << >> /\ g.turn = << >>
    BY <2>1 DEF SegState
  <2> HIDE DEF g
  <2>10. SegInv(<< >>, g)
    BY <2>1, <2>4, <2>6, <2>7, <2>8, <2>9, Zenon DEF SegInv
  <2>11. QED
    BY <2>1, <2>2, <2>10
<1>2. ASSUME NEW r \in Seq(Inbound), NEW x \in Inbound, r \in P
      PROVE  Append(r, x) \in P
  <2>1. Segment(Append(r, x)) = SegmentStep(Segment(r), x)
    BY SegmentAppend
  <2>2. SegInv(Append(r, x), SegmentStep(Segment(r), x))
    BY <1>2, SegStepInv
  <2>3. Append(r, x) \in Seq(Inbound)
    OBVIOUS
  <2>4. QED
    BY <2>1, <2>2, <2>3
<1> HIDE DEF P
<1>3. ms \in P
  <2>1. \A r \in Seq(Inbound) : r \in P
    BY <1>1, <1>2, ListInduction
  <2>2. QED
    BY <2>1
<1>4. SegInv(ms, Segment(ms))
  BY <1>3 DEF P
<1>5. QED
  BY <1>4, CloseBothHolds DEF segment_messages
-----------------------------------------------------------------------------
(* The current request. *)

(* The largest and the least of some integers. *)
LEMMA MaxOf ==
  ASSUME NEW S \in SUBSET Int, S # {},
         NEW b \in Int, \A x \in S : x <= b
  PROVE  /\ Max(S) \in S
         /\ \A y \in S : y <= Max(S)
         /\ \A m \in S : (\A y \in S : y <= m) => Max(S) = m
<1> DEFINE T == {y \in Nat : \E x \in S : y = b - x}
<1>1. T \in SUBSET Nat /\ T # {}
  <2>1. PICK x \in S : TRUE
    BY Zenon
  <2>2. b - x \in T
    BY <2>1
  <2>3. QED
    BY <2>2, Zenon
<1>2. PICK t \in T : \A y \in T : t <= y
  BY <1>1, LeastOf, Zenon
<1>3. PICK m \in S : t = b - m
  OBVIOUS
<1>4. \A y \in S : m >= y
  <2>1. \A y \in S : b - y \in T
    OBVIOUS
  <2>2. TAKE y \in S
  <2>3. t <= b - y
    BY <1>2, <2>1, Zenon
  <2>4. y \in Int /\ m \in Int
    BY S \in SUBSET Int
  <2>5. QED
    BY <1>3, <2>3, <2>4
<1>5. \E x \in S : \A y \in S : x >= y
  BY <1>4
<1>6. Max(S) \in S /\ \A y \in S : Max(S) >= y
  BY <1>5, Zenon DEF Max
<1>7. \A y \in S : y <= Max(S)
  BY <1>6, S \in SUBSET Int
<1>8. ASSUME NEW n \in S, \A y \in S : y <= n
      PROVE  Max(S) = n
  <2>1. Max(S) <= n /\ n <= Max(S)
    BY <1>6, <1>7, <1>8, Zenon
  <2>2. Max(S) \in Int /\ n \in Int
    BY <1>6, S \in SUBSET Int, Zenon
  <2>3. QED
    BY <2>1, <2>2
<1>9. QED
  BY <1>6, <1>7, <1>8

(* The largest and the least of some of the numbers up to b. *)
LEMMA MaxIn ==
  ASSUME NEW b \in Nat, NEW S, S \subseteq 0 .. b, S # {}
  PROVE  Max(S) \in S /\ \A y \in S : y <= Max(S)
<1>1. S \in SUBSET Int /\ b \in Int /\ \A x \in S : x <= b
  OBVIOUS
<1>2. QED
  BY <1>1, MaxOf, Zenon

(* The least element of a bounded set of naturals. *)
LEMMA MinIn ==
  ASSUME NEW b \in Nat, NEW S, S \subseteq 0 .. b, S # {}
  PROVE  Min(S) \in S /\ \A y \in S : Min(S) <= y
<1>1. S \in SUBSET Nat
  OBVIOUS
<1>2. \E x \in S : \A y \in S : x <= y
  BY <1>1, LeastOf
<1>3. QED
  BY <1>2, Zenon DEF Min

(* The elements of two lists put together, and equality of lists. *)
LEMMA ConcatElements ==
  ASSUME NEW E, NEW a \in Seq(E), NEW b \in Seq(E)
  PROVE  /\ a \o b \in Seq(E) /\ Len(a \o b) = Len(a) + Len(b)
         /\ \A n \in 1 .. Len(a) : (a \o b)[n] = a[n]
         /\ \A n \in 1 .. Len(b) : (a \o b)[Len(a) + n] = b[n]
<1> PICK A \in Nat : A = Len(a)
  OBVIOUS
<1> PICK B \in Nat : B = Len(b)
  OBVIOUS
<1>1. a \o b \in Seq(E) /\ Len(a \o b) = A + B /\ \A n \in 1 .. A : (a \o b)[n] = a[n]
  OBVIOUS
<1>2. ASSUME NEW n \in 1 .. B PROVE (a \o b)[A + n] = b[n]
  <2>1. A + n \in 1 .. Len(a) + Len(b) /\ ~(A + n <= Len(a)) /\ A + n - Len(a) = n
    OBVIOUS
  <2>2. QED
    BY <2>1
<1>3. QED
  BY <1>1, <1>2

(* Lists with the same elements are the same. *)
LEMMA SameList ==
  ASSUME NEW E, NEW a \in Seq(E), NEW b \in Seq(E), Len(a) = Len(b),
         \A n \in 1 .. Len(a) : a[n] = b[n]
  PROVE  a = b
OBVIOUS

(* A part of a list, in two. *)
LEMMA CutAt ==
  ASSUME NEW E, NEW s \in Seq(E), NEW i \in 1 .. Len(s) + 1, NEW j \in i - 1 .. Len(s)
  PROVE  SubSeq(s, i, Len(s)) = SubSeq(s, i, j) \o SubSeq(s, j + 1, Len(s))
<1> PICK N \in Nat : N = Len(s)
  OBVIOUS
<1> DEFINE a == SubSeq(s, i, N)
           b == SubSeq(s, i, j)
           c == SubSeq(s, j + 1, N)
<1>1. a \in Seq(E) /\ Len(a) = N - i + 1 /\ \A n \in 1 .. N - i + 1 : a[n] = s[i + n - 1]
  OBVIOUS
<1>2. b \in Seq(E) /\ Len(b) = j - i + 1 /\ \A n \in 1 .. j - i + 1 : b[n] = s[i + n - 1]
  OBVIOUS
<1>3. c \in Seq(E) /\ Len(c) = N - j /\ \A n \in 1 .. N - j : c[n] = s[j + n]
  OBVIOUS
<1> HIDE DEF a, b, c
<1>4. b \o c \in Seq(E) /\ Len(b \o c) = N - i + 1
      /\ (\A n \in 1 .. j - i + 1 : (b \o c)[n] = b[n])
      /\ \A n \in 1 .. N - j : (b \o c)[(j - i + 1) + n] = c[n]
  <2>1. j - i + 1 \in Nat /\ N - j \in Nat /\ (j - i + 1) + (N - j) = N - i + 1
    OBVIOUS
  <2>2. PICK B \in Nat : B = j - i + 1
    BY <2>1
  <2>3. PICK C \in Nat : C = N - j
    BY <2>1, Zenon
  <2>4. Len(b) = B /\ Len(c) = C
    BY <2>2, <2>3, <1>2, <1>3
  <2> b \in Seq(E) /\ c \in Seq(E)
    BY <1>2, <1>3
  <2>5. b \o c \in Seq(E) /\ Len(b \o c) = Len(b) + Len(c)
        /\ (\A n \in 1 .. Len(b) : (b \o c)[n] = b[n])
        /\ \A n \in 1 .. Len(c) : (b \o c)[Len(b) + n] = c[n]
    BY ConcatElements
  <2>6. QED
    BY <2>1, <2>2, <2>3, <2>4, <2>5, Zenon
<1>5. ASSUME NEW n \in 1 .. N - i + 1 PROVE a[n] = (b \o c)[n]
  <2>1. CASE n <= j - i + 1
    BY <2>1, <1>1, <1>2, <1>4
  <2>2. CASE n > j - i + 1
    <3> DEFINE m == n - (j - i + 1)
    <3>1. m \in 1 .. N - j /\ j + m = i + n - 1 /\ (j - i + 1) + m = n
      BY <2>2
    <3> HIDE DEF m
    <3>2. (b \o c)[(j - i + 1) + m] = c[m] /\ c[m] = s[j + m] /\ a[n] = s[i + n - 1]
      BY <3>1, <1>1, <1>3, <1>4, Zenon
    <3>3. QED
      BY <3>1, <3>2, Zenon
  <2>3. n <= j - i + 1 \/ n > j - i + 1
    OBVIOUS
  <2>4. QED
    BY <2>1, <2>2, <2>3, Zenon
<1>6. a = b \o c
  BY <1>1, <1>4, <1>5, SameList, Zenon
<1>7. QED
  BY <1>6 DEF a, b, c

RequestForm(r) ==
  /\ r # << >> /\ r[1] \in Asks /\ r[Len(r)] \notin Orders
  /\ \A i \in 2 .. Len(r) : r[i] \notin Asks

(* How the current request and the instructions at the end are separated. *)
Splits(ms, history, request, trail) ==
  /\ trail \in Seq(Orders) /\ request \in Seq(Inbound)
  /\ Earlier(ms) \in Seq(Inbound) /\ history = Earlier(ms) \o trail
  /\ FromLastUser(ms) = request \o trail
  /\ ms = Earlier(ms) \o FromLastUser(ms)
  /\ LastUser(ms) = 0 => request = << >>
  /\ LastUser(ms) # 0 => RequestForm(request)

(* The last user message of a list. *)
LEMMA LastUserIs ==
  ASSUME NEW ms \in Seq(AnyMessage), NEW l \in 1 .. Len(ms), ms[l].role = "user",
         \A i \in l + 1 .. Len(ms) : ms[i].role # "user"
  PROVE  LastUser(ms) = l
<1> PICK N \in Nat : N = Len(ms)
  OBVIOUS
<1> DEFINE U == {0} \cup {i \in DOMAIN ms : ms[i].role = "user"}
<1>1. U \in SUBSET Int /\ l \in U /\ DOMAIN ms = 1 .. N
  OBVIOUS
<1>2. \A y \in U : y <= l
  <2> TAKE y \in U
  <2>1. y = 0 \/ (y \in 1 .. N /\ ms[y].role = "user")
    OBVIOUS
  <2>2. QED
    BY <2>1
<1> HIDE DEF U
<1>3. Max(U) = l
  BY <1>1, <1>2, MaxOf, Zenon
<1>4. QED
  BY <1>3 DEF LastUser, U

(* Without a user message there is no request. *)
LEMMA NoUser ==
  ASSUME NEW ms \in Seq(AnyMessage), \A i \in 1 .. Len(ms) : ms[i].role # "user"
  PROVE  LastUser(ms) = 0
<1> DEFINE U == {0} \cup {i \in DOMAIN ms : ms[i].role = "user"}
<1>1. U = {0}
  OBVIOUS
<1> HIDE DEF U
<1>2. Max(U) = 0
  BY <1>1, MaxOf
<1>3. QED
  BY <1>2 DEF LastUser, U

(* separate_current_request splits the inbound messages. *)
LEMMA Separated ==
  ASSUME NEW ms \in Seq(Inbound)
  PROVE  \E trail : Splits(ms, separate_current_request(ms).history,
                               separate_current_request(ms).request, trail)
<1> PICK N \in Nat : N = Len(ms)
  OBVIOUS
<1> DEFINE users == {i \in DOMAIN ms : ms[i].role = "user"}
           last == Max(users)
           ends == {i \in last .. Len(ms) : ms[i].role # "system"}
           end == Max(ends)
           s == separate_current_request(ms)
<1>0. ms \in Seq(AnyMessage) /\ DOMAIN ms = 1 .. N
  BY InboundIsAny
<1>1. CASE users = {}
  <2>1. s.history = ms /\ s.request = << >>
    BY <1>1 DEF separate_current_request
  <2>2. LastUser(ms) = 0
    <3>1. \A i \in 1 .. Len(ms) : ms[i].role # "user"
      BY <1>1, <1>0
    <3>2. QED
      BY <3>1, <1>0, NoUser
  <2>3. Earlier(ms) = ms /\ FromLastUser(ms) = << >>
    BY <2>2 DEF Earlier, FromLastUser
  <2>4. << >> \in Seq(Orders) /\ << >> \in Seq(Inbound) /\ ms \o << >> = ms
        /\ << >> \o << >> = << >>
    OBVIOUS
  <2>5. Splits(ms, ms, << >>, << >>)
    BY <2>2, <2>3, <2>4 DEF Splits
  <2>6. QED
    BY <2>1, <2>5
<1>2. CASE users # {}
  <2>1. last \in 1 .. N /\ ms[last].role = "user"
        /\ \A i \in last + 1 .. N : ms[i].role # "user"
    <3>1. users \subseteq 0 .. N
      BY <1>0
    <3>2. Max(users) \in users /\ \A y \in users : y <= Max(users)
      <4> HIDE DEF users
      <4> QED
        BY <3>1, <1>2, MaxIn, Zenon
    <3>3. last \in 1 .. N /\ ms[last].role = "user"
      BY <3>2, <1>0
    <3>4. \A i \in last + 1 .. N : i \in users => FALSE
      <4> TAKE i \in last + 1 .. N
      <4> HAVE i \in users
      <4>1. i <= last
        BY <3>2
      <4> HIDE DEF users, last
      <4> QED
        BY <4>1, <3>3
    <3>5. \A i \in last + 1 .. N : ms[i].role # "user"
      <4> TAKE i \in last + 1 .. N
      <4>1. i \in 1 .. N
        <5> HIDE DEF last
        <5> QED
          BY <3>3
      <4>2. i \notin users
        BY <3>4
      <4> QED
        BY <4>1, <4>2, <1>0
    <3>6. QED
      BY <3>3, <3>5
  <2>2. end \in last .. N /\ ms[end].role # "system"
        /\ \A i \in end + 1 .. N : ms[i].role = "system"
    <3> HIDE DEF last
    <3>1. ends \subseteq 0 .. N /\ last \in ends
      BY <2>1
    <3>2. Max(ends) \in ends /\ \A y \in ends : y <= Max(ends)
      <4> HIDE DEF ends
      <4> QED
        BY <3>1, MaxIn, Zenon
    <3>3. end \in last .. N /\ ms[end].role # "system"
      BY <3>2
    <3>4. \A i \in end + 1 .. N : i \in ends => FALSE
      <4> TAKE i \in end + 1 .. N
      <4> HAVE i \in ends
      <4>1. i <= end
        BY <3>2
      <4> HIDE DEF ends, end
      <4> QED
        BY <4>1, <3>3, <2>1
    <3>5. \A i \in end + 1 .. N : ms[i].role = "system"
      <4> TAKE i \in end + 1 .. N
      <4>1. i \in last .. N
        <5> HIDE DEF end
        <5> QED
          BY <3>3, <2>1
      <4>2. i \notin ends
        BY <3>4
      <4> QED
        BY <4>1, <4>2
    <3>6. QED
      BY <3>3, <3>5
  <2> DEFINE r == SubSeq(ms, last, end)
             t == SubSeq(ms, end + 1, Len(ms))
             e == SubSeq(ms, 1, last - 1)
             h == e \o t
  <2>3. s.history = h /\ s.request = r
    BY <1>2, Zenon DEF separate_current_request
  <2> HIDE DEF users, ends, last, end
  <2>4. LastUser(ms) = last
    BY <1>0, <2>1, LastUserIs
  <2>5. Earlier(ms) = e /\ FromLastUser(ms) = SubSeq(ms, last, N)
    BY <2>1, <2>4 DEF Earlier, FromLastUser
  <2>6. e \in Seq(Inbound) /\ r \in Seq(Inbound) /\ t \in Seq(Inbound)
        /\ Len(e) = last - 1 /\ Len(r) = end - last + 1 /\ Len(t) = N - end
        /\ (\A i \in 1 .. end - last + 1 : r[i] = ms[last + i - 1])
        /\ \A i \in 1 .. N - end : t[i] = ms[end + i]
    BY <2>1, <2>2
  <2>7. SubSeq(ms, last, N) = r \o t
    <3>1. last \in 1 .. Len(ms) + 1 /\ end \in last - 1 .. Len(ms)
      BY <2>1, <2>2
    <3>2. QED
      BY <3>1, CutAt, Zenon
  <2>8. ms = e \o SubSeq(ms, last, N)
    <3>1. 1 \in 1 .. Len(ms) + 1 /\ last - 1 \in 1 - 1 .. Len(ms) /\ (last - 1) + 1 = last
      BY <2>1
    <3>2. SubSeq(ms, 1, Len(ms)) = ms
      OBVIOUS
    <3> HIDE DEF last
    <3>3. SubSeq(ms, 1, Len(ms)) = SubSeq(ms, 1, last - 1) \o SubSeq(ms, (last - 1) + 1, Len(ms))
      BY <3>1, CutAt, Zenon
    <3>4. QED
      BY <3>1, <3>2, <3>3, Zenon
  <2>9. t \in Seq(Orders)
    <3>1. \A i \in 1 .. N - end : t[i] \in Orders
      <4> SUFFICES ASSUME NEW i \in 1 .. N - end PROVE t[i] \in Orders
        BY Zenon
      <4>1. end + i \in end + 1 .. N /\ end + i \in 1 .. N
        BY <2>1, <2>2
      <4>2. ms[end + i] \in Orders
        BY <4>1, <2>2 DEF Orders
      <4> QED
        BY <4>2, <2>6, Zenon
    <3> HIDE DEF t
    <3>2. N - end \in Nat
      BY <2>1, <2>2
    <3>3. QED
      BY <3>1, <3>2, <2>6
  <2>10. RequestForm(r)
    <3>1. r # << >>
      BY <2>1, <2>2, <2>6
    <3>2. r[1] \in Asks
      <4>1. r[1] = ms[last] /\ ms[last] \in Inbound
        BY <2>1, <2>2, <2>6
      <4> QED
        BY <4>1, <2>1 DEF Asks
    <3>3. r[Len(r)] \notin Orders
      <4>1. r[Len(r)] = ms[end]
        BY <2>1, <2>2, <2>6
      <4> QED
        BY <4>1, <2>2 DEF Orders
    <3>4. \A i \in 2 .. Len(r) : r[i] \notin Asks
      <4> SUFFICES ASSUME NEW i \in 2 .. Len(r) PROVE r[i] \notin Asks
        BY Zenon
      <4>1. last + i - 1 \in last + 1 .. N /\ i \in 1 .. end - last + 1
        BY <2>1, <2>2, <2>6
      <4>2. r[i] = ms[last + i - 1]
        BY <4>1, <2>6, Zenon
      <4> QED
        BY <4>1, <4>2, <2>1 DEF Asks
    <3>5. QED
      BY <3>1, <3>2, <3>3, <3>4, Zenon DEF RequestForm
  <2>11. last # 0
    BY <2>1
  <2> HIDE DEF e, r, t, s
  <2>12. Splits(ms, h, r, t)
    BY <2>4, <2>5, <2>6, <2>7, <2>8, <2>9, <2>10, <2>11 DEF Splits
  <2>13. QED
    BY <2>3, <2>12 DEF s
<1>3. QED
  BY <1>1, <1>2

-----------------------------------------------------------------------------
(* Selection. *)

(* A score is an integer. *)
LEMMA MmrType ==
  ASSUME NEW i \in Items, NEW sel \in Seq(Items)
  PROVE  Mmr(i, sel) \in Int
<1> DEFINE T == {Similarity[i.id][s.id] : s \in Range(sel)} \cup {0}
<1>1. T \subseteq 0 .. 10 /\ T # {}
  <2>1. Range(sel) \subseteq Items
    BY DEF Range
  <2>2. QED
    BY <2>1, ContextAssumption
<1> HIDE DEF T
<1>2. Max(T) \in 0 .. 10
  BY <1>1, MaxIn, Zenon
<1>3. Lambda \in Int /\ i.score \in Int
  BY ContextAssumption
<1> DEFINE m == Max(T)
<1>4. Mmr(i, sel) = Lambda * i.score - (10 - Lambda) * m
  BY Zenon DEF Mmr, T
<1> HIDE DEF m
<1>5. m \in Int
  BY <1>2 DEF m
<1>6. \A a, b, c \in Int : a * b - (10 - a) * c \in Int
  OBVIOUS
<1>7. QED
  BY <1>3, <1>4, <1>5, <1>6

(* The rank orders the items. *)
LEMMA RankOrder ==
  ASSUME NEW i \in Items, NEW j \in Items, NEW k \in Items, NEW sel \in Seq(Items)
  PROVE  /\ i # j => RanksBefore(i, j, sel) \/ RanksBefore(j, i, sel)
         /\ RanksBefore(i, j, sel) /\ RanksBefore(j, k, sel) => RanksBefore(i, k, sel)
<1>1. Mmr(i, sel) \in Int /\ Mmr(j, sel) \in Int /\ Mmr(k, sel) \in Int
  BY MmrType
<1>2. i.score \in Int /\ j.score \in Int /\ k.score \in Int
      /\ i.id \in Int /\ j.id \in Int /\ k.id \in Int
  BY ContextAssumption
<1>3. i # j => i.id # j.id
  BY ContextAssumption
<1>4. QED
  BY <1>1, <1>2, <1>3 DEF RanksBefore

First(A, sel, b) == b \in A /\ \A j \in A \ {b} : RanksBefore(b, j, sel)

(* Of finitely many items one comes first. *)
LEMMA FirstExists ==
  ASSUME NEW list \in Seq(Items), NEW sel \in Seq(Items), NEW A, A \subseteq Range(list), A # {}
  PROVE  \E b : First(A, sel, b)
<1> PICK N \in Nat : N = Len(list)
  OBVIOUS
<1> DEFINE Upto(n) == {list[i] : i \in 1 .. n}
           S == {n \in Nat : \A C : C \subseteq Upto(n) /\ C # {} => \E b : First(C, sel, b)}
<1>1. 0 \in S
  OBVIOUS
<1>2. ASSUME NEW n \in 0 .. N - 1, n \in S PROVE n + 1 \in S
  <2> SUFFICES ASSUME NEW C, C \subseteq Upto(n + 1), C # {} PROVE \E b : First(C, sel, b)
    OBVIOUS
  <2> DEFINE x == list[n + 1]
             D == C \ {x}
  <2>1. x \in Items /\ C \subseteq Items /\ D \subseteq Upto(n)
    OBVIOUS
  <2>2. CASE D = {}
    <3>1. C = {x}
      BY <2>2
    <3>2. First(C, sel, x)
      BY <3>1 DEF First
    <3>3. QED
      BY <3>2
  <2>3. CASE D # {}
    <3>1. PICK b : First(D, sel, b)
      BY <1>2, <2>1, <2>3, Zenon
    <3>2. b \in Items /\ b \in C /\ b # x
      BY <2>1, <3>1 DEF First
    <3>3. CASE x \notin C
      BY <3>1, <3>3, Zenon
    <3>4. CASE x \in C /\ RanksBefore(b, x, sel)
      <4>1. First(C, sel, b)
        BY <3>1, <3>2, <3>4 DEF First
      <4>2. QED
        BY <4>1
    <3>5. CASE x \in C /\ RanksBefore(x, b, sel)
      <4>1. ASSUME NEW j \in C \ {x} PROVE RanksBefore(x, j, sel)
        <5>1. j = b \/ RanksBefore(b, j, sel)
          BY <3>1 DEF First
        <5>2. j \in Items
          BY <2>1
        <5> HIDE DEF x
        <5>3. QED
          BY <5>1, <5>2, <2>1, <3>2, <3>5, RankOrder
      <4>2. First(C, sel, x)
        BY <4>1, <3>5 DEF First
      <4>3. QED
        BY <4>2
    <3>6. RanksBefore(b, x, sel) \/ RanksBefore(x, b, sel)
      <4> HIDE DEF x
      <4> QED
        BY <2>1, <3>2, RankOrder
    <3>7. QED
      BY <3>3, <3>4, <3>5, <3>6
  <2>4. QED
    BY <2>2, <2>3
<1>3. N \in S
  <2> HIDE DEF S
  <2>1. \A n \in 0 .. N : n \in S
    BY <1>1, <1>2, UpTo, Zenon
  <2>2. QED
    BY <2>1
<1>4. Range(list) = Upto(N)
  BY DEF Range
<1>5. QED
  BY <1>3, <1>4

(* Best chooses one of the items. *)
LEMMA BestIn ==
  ASSUME NEW list \in Seq(Items), NEW sel \in Seq(Items), NEW A, A \subseteq Range(list), A # {}
  PROVE  Best(A, sel) \in A
<1>1. \E b : First(A, sel, b)
  BY FirstExists
<1>2. QED
  BY <1>1 DEF First, Best

Distinct(s) == \A m, n \in 1 .. Len(s) : s[m] = s[n] => m = n

(* One more item selected. *)
Pick(items, v) ==
  IF items \ Range(v) = {} THEN v ELSE Append(v, Best(items \ Range(v), v))

(* A pick adds an item that is not there yet, or nothing. *)
LEMMA PickType ==
  ASSUME NEW list \in Seq(Items), NEW A, A \subseteq Range(list), NEW v \in Seq(A), Distinct(v)
  PROVE  Pick(A, v) \in Seq(A) /\ Distinct(Pick(A, v))
<1> DEFINE R == A \ Range(v)
           x == Best(R, v)
<1>1. CASE R = {}
  BY <1>1 DEF Pick
<1>2. CASE R # {}
  <2>1. v \in Seq(Items) /\ R \subseteq Range(list)
    BY DEF Range
  <2>2. x \in R
    <3> HIDE DEF R
    <3> QED
      BY <1>2, <2>1, BestIn
  <2>3. Pick(A, v) = Append(v, x)
    BY <1>2 DEF Pick
  <2>4. x \in A /\ \A n \in 1 .. Len(v) : v[n] # x
    <3> HIDE DEF x
    <3>1. x \in A /\ x \notin Range(v) /\ DOMAIN v = 1 .. Len(v)
      BY <2>2
    <3>2. QED
      BY <3>1 DEF Range
  <2> HIDE DEF x, R
  <2>5. Distinct(Append(v, x))
    BY <2>4 DEF Distinct
  <2>6. QED
    BY <2>3, <2>4, <2>5
<1>3. QED
  BY <1>1, <1>2

(* What is selected after each round. *)
Picks(items, limit) ==
  CHOOSE pick : pick = [n \in 0 .. limit |-> IF n = 0 THEN << >> ELSE Pick(items, pick[n - 1])]

(* Items are selected once. *)
LEMMA Selected ==
  ASSUME NEW list \in Seq(Items), NEW A, A \subseteq Range(list)
  PROVE  /\ mmr_select(A, MaxRetrievedItems) \in Seq(A)
         /\ Distinct(mmr_select(A, MaxRetrievedItems))
<1> PICK N \in Nat : N = MaxRetrievedItems
  BY ContextAssumption
<1> DEFINE V == {v \in Seq(A) : Distinct(v)}
<1>0. << >> \in V /\ \A v \in V : Pick(A, v) \in V
  <2>1. << >> \in V
    BY DEF Distinct
  <2>2. QED
    BY <2>1, PickType
<1> HIDE DEF V
<1> DEFINE Is(f) == f = [n \in 0 .. N |-> IF n = 0 THEN << >> ELSE Pick(A, f[n - 1])]
           step == [p \in V \X (1 .. N) |-> Pick(A, p[1])]
<1>1. step \in [V \X (1 .. N) -> V]
  BY <1>0
<1>2. \A v \in V, n \in 1 .. N : step[<<v, n>>] = Pick(A, v)
  OBVIOUS
<1> HIDE DEF step
<1>3. PICK f : Iterates(f, N, V, << >>, step)
  BY <1>0, <1>1, Iterated, Zenon
<1>4. ASSUME NEW n \in 1 .. N PROVE f[n] = Pick(A, f[n - 1])
  <2>1. n - 1 \in 0 .. N
    OBVIOUS
  <2>2. f[n] = step[<<f[n - 1], n>>] /\ f[n - 1] \in V
    BY <1>3, <2>1, Zenon DEF Iterates
  <2>3. QED
    BY <1>2, <2>2, Zenon
<1>5. f \in [0 .. N -> V] /\ f[0] = << >> /\ Is(f)
  <2>1. f \in [0 .. N -> V] /\ f[0] = << >>
    BY <1>3 DEF Iterates
  <2>2. \A n \in 0 .. N : n = 0 \/ n \in 1 .. N
    OBVIOUS
  <2>3. \A n \in 0 .. N : f[n] = IF n = 0 THEN << >> ELSE Pick(A, f[n - 1])
    BY <1>4, <2>1, <2>2, Zenon
  <2>4. QED
    BY <2>1, <2>3, Zenon
<1> DEFINE g == Picks(A, N)
<1>6. Is(g) /\ mmr_select(A, MaxRetrievedItems) = g[N]
  <2>1. Is(g)
    BY <1>5 DEF Picks
  <2>2. mmr_select(A, N) = g[N]
    BY DEF mmr_select, Picks, Pick
  <2>3. QED
    BY <2>1, <2>2
<1> HIDE DEF g
<1>7. DOMAIN g = 0 .. N /\ g[0] = << >>
  BY <1>6
<1>8. ASSUME NEW n \in 1 .. N PROVE g[n] = Pick(A, g[n - 1])
  <2>1. n \in 0 .. N /\ n # 0
    OBVIOUS
  <2>2. QED
    BY <1>6, <2>1, Zenon
<1>9. SameUpTo(g, f, N)
  <2>1. \A n \in 1 .. N : g[n - 1] = f[n - 1] => g[n] = f[n]
    BY <1>4, <1>8, Zenon
  <2>2. SameWay(g, f, N)
    BY <1>5, <1>7, <2>1, Zenon DEF SameWay
  <2>3. QED
    BY <2>2, Agree
<1>10. g[N] \in V
  BY <1>5, <1>9 DEF SameUpTo
<1>11. QED
  BY <1>6, <1>10 DEF V

-----------------------------------------------------------------------------
(* Packing. *)

DistinctKeys(s) == \A m, n \in 1 .. Len(s) : s[m].key = s[n].key => m = n

(* One more unit packed, if it fits. *)
PackOne(v, x, cap) == IF Total(v) + x.tokens > cap THEN v ELSE Append(v, x)

(* What is packed up to each place of the ranking. *)
Packing(s, cap) ==
  CHOOSE packed : packed = [n \in 0 .. Len(s) |-> IF n = 0 THEN << >> ELSE PackOne(packed[n - 1], s[n], cap)]

(* One block is packed only if it fits. *)
LEMMA PackOneType ==
  ASSUME NEW cap \in Nat, NEW R, R \subseteq AnyUnit,
         NEW v \in Seq(R), NEW x \in R, Total(v) <= cap
  PROVE  PackOne(v, x, cap) \in Seq(R) /\ Total(PackOne(v, x, cap)) <= cap
<1>0. v \in Seq(AnyUnit) /\ x \in AnyUnit
  OBVIOUS
<1>1. Total(v) \in Int /\ x.tokens \in Int /\ Total(Append(v, x)) = Total(v) + x.tokens
  BY <1>0, TotalBoth, UnitFields
<1>2. CASE Total(v) + x.tokens > cap
  BY <1>2 DEF PackOne
<1>3. CASE ~(Total(v) + x.tokens > cap)
  <2>1. PackOne(v, x, cap) = Append(v, x)
    BY <1>3 DEF PackOne
  <2>2. Total(v) + x.tokens <= cap
    BY <1>1, <1>3
  <2>3. Append(v, x) \in Seq(R)
    OBVIOUS
  <2>4. QED
    BY <1>1, <2>1, <2>2, <2>3, Zenon
<1>4. QED
  BY <1>2, <1>3

(* Packing, one block at a time, and Pack as the last of it. *)
LEMMA PackingFacts ==
  ASSUME NEW cap \in Nat, NEW R, R \subseteq AnyUnit, NEW s \in Seq(R)
  PROVE  /\ Packing(s, cap)[0] = << >>
         /\ \A n \in 0 .. Len(s) : Packing(s, cap)[n] \in Seq(R) /\ Total(Packing(s, cap)[n]) <= cap
         /\ \A n \in 1 .. Len(s) : Packing(s, cap)[n] = PackOne(Packing(s, cap)[n - 1], s[n], cap)
         /\ Pack(s, cap) = Packing(s, cap)[Len(s)]
<1> PICK N \in Nat : N = Len(s)
  OBVIOUS
<1> DEFINE V == {v \in Seq(R) : Total(v) <= cap}
<1>0. << >> \in V /\ \A v \in V, n \in 1 .. N : PackOne(v, s[n], cap) \in V
  <2>1. << >> \in V
    <3>1. << >> \in Seq(R) /\ Total(<< >>) = 0
      BY EmptyList, TotalType, Zenon
    <3>2. QED
      BY <3>1
  <2>2. \A n \in 1 .. N : s[n] \in R
    OBVIOUS
  <2>3. QED
    BY <2>1, <2>2, PackOneType, Zenon
<1> HIDE DEF V
<1> DEFINE Is(f) == f = [n \in 0 .. N |-> IF n = 0 THEN << >> ELSE PackOne(f[n - 1], s[n], cap)]
           step == [p \in V \X (1 .. N) |-> PackOne(p[1], s[p[2]], cap)]
<1>1. step \in [V \X (1 .. N) -> V]
  BY <1>0
<1>2. \A v \in V, n \in 1 .. N : step[<<v, n>>] = PackOne(v, s[n], cap)
  OBVIOUS
<1> HIDE DEF step
<1>3. PICK f : Iterates(f, N, V, << >>, step)
  BY <1>0, <1>1, Iterated, Zenon
<1>4. ASSUME NEW n \in 1 .. N PROVE f[n] = PackOne(f[n - 1], s[n], cap)
  <2>1. n - 1 \in 0 .. N
    OBVIOUS
  <2>2. f[n] = step[<<f[n - 1], n>>] /\ f[n - 1] \in V
    BY <1>3, <2>1, Zenon DEF Iterates
  <2>3. QED
    BY <1>2, <2>2, Zenon
<1>5. f \in [0 .. N -> V] /\ f[0] = << >> /\ Is(f)
  <2>1. f \in [0 .. N -> V] /\ f[0] = << >>
    BY <1>3 DEF Iterates
  <2>2. \A n \in 0 .. N : n = 0 \/ n \in 1 .. N
    OBVIOUS
  <2>3. \A n \in 0 .. N : f[n] = IF n = 0 THEN << >> ELSE PackOne(f[n - 1], s[n], cap)
    BY <1>4, <2>1, <2>2, Zenon
  <2>4. QED
    BY <2>1, <2>3, Zenon
<1> DEFINE g == Packing(s, cap)
<1>6. Is(g) /\ Pack(s, cap) = g[N]
  <2>1. Is(g)
    BY <1>5, Zenon DEF Packing
  <2>2. Pack(s, cap) = g[N]
    BY DEF Pack, Packing, PackOne
  <2>3. QED
    BY <2>1, <2>2
<1> HIDE DEF g
<1>7. DOMAIN g = 0 .. N /\ g[0] = << >>
  BY <1>6
<1>8. ASSUME NEW n \in 1 .. N PROVE g[n] = PackOne(g[n - 1], s[n], cap)
  <2>1. n \in 0 .. N /\ n # 0
    OBVIOUS
  <2>2. QED
    BY <1>6, <2>1, Zenon
<1>9. SameUpTo(g, f, N)
  <2>1. \A n \in 1 .. N : g[n - 1] = f[n - 1] => g[n] = f[n]
    BY <1>4, <1>8, Zenon
  <2>2. SameWay(g, f, N)
    BY <1>5, <1>7, <2>1, Zenon DEF SameWay
  <2>3. QED
    BY <2>2, Agree
<1>10. \A n \in 0 .. N : g[n] \in V
  BY <1>5, <1>9 DEF SameUpTo
<1>11. QED
  BY <1>6, <1>7, <1>8, <1>10, Zenon DEF V, g

(* What is packed fits under the cap, and nothing is packed twice. *)
LEMMA Packed ==
  ASSUME NEW cap \in Nat, NEW R, R \subseteq AnyUnit, NEW s \in Seq(R), DistinctKeys(s)
  PROVE  Pack(s, cap) \in Seq(R) /\ Total(Pack(s, cap)) <= cap /\ DistinctKeys(Pack(s, cap))
<1> PICK N \in Nat : N = Len(s)
  OBVIOUS
<1> DEFINE g == Packing(s, cap)
           From(v, n) == \A k \in 1 .. Len(v) : \E m \in 1 .. n : v[k] = s[m]
           S == {n \in 0 .. N : From(g[n], n) /\ DistinctKeys(g[n])}
<1>1. /\ g[0] = << >>
      /\ \A n \in 0 .. N : g[n] \in Seq(R) /\ Total(g[n]) <= cap
      /\ \A n \in 1 .. N : g[n] = PackOne(g[n - 1], s[n], cap)
      /\ Pack(s, cap) = g[N]
  BY PackingFacts, Zenon
<1> HIDE DEF g
<1>2. 0 \in S
  BY <1>1 DEF DistinctKeys
<1>3. ASSUME NEW n \in 0 .. N - 1, n \in S PROVE n + 1 \in S
  <2> DEFINE v == g[n]
             x == s[n + 1]
             w == g[n + 1]
  <2>1. n + 1 \in 1 .. N /\ n + 1 \in 0 .. N /\ (n + 1) - 1 = n
    OBVIOUS
  <2>2. v \in Seq(R) /\ w = PackOne(v, x, cap) /\ x \in R
    BY <1>1, <2>1
  <2>3. From(v, n) /\ DistinctKeys(v)
    BY <1>3
  <2>4. \A m \in 1 .. n : s[m].key # x.key
    BY <2>1 DEF DistinctKeys
  <2>5. x = s[n + 1]
    OBVIOUS
  <2> HIDE DEF v, w, x
  <2>6. CASE w = v
    <3>1. From(v, n + 1)
      BY <2>3
    <3>2. QED
      BY <2>1, <2>3, <2>6, <3>1, Zenon DEF w
  <2>7. CASE w = Append(v, x)
    <3> PICK M \in Nat : M = Len(v)
      BY <2>2
    <3>0. Len(w) = M + 1 /\ w[M + 1] = x /\ \A k \in 1 .. M : w[k] = v[k]
      BY <2>2, <2>7
    <3>1. From(w, n + 1)
      <4> SUFFICES ASSUME NEW k \in 1 .. M + 1 PROVE \E m \in 1 .. n + 1 : w[k] = s[m]
        BY <3>0
      <4>1. CASE k = M + 1
        BY <4>1, <3>0, <2>1, <2>5
      <4>2. CASE k \in 1 .. M
        <5>1. PICK m \in 1 .. n : v[k] = s[m]
          BY <4>2, <2>3
        <5>2. m \in 1 .. n + 1 /\ w[k] = s[m]
          BY <5>1, <4>2, <3>0
        <5>3. QED
          BY <5>2
      <4>3. QED
        BY <4>1, <4>2
    <3>2. DistinctKeys(w)
      <4>1. \A k \in 1 .. M : v[k].key # x.key
        BY <2>3, <2>4
      <4>2. QED
        BY <4>1, <3>0, <2>3 DEF DistinctKeys
    <3>3. QED
      BY <2>1, <3>1, <3>2, Zenon DEF w
  <2>8. QED
    BY <2>2, <2>6, <2>7 DEF PackOne
<1>4. N \in S
  <2> HIDE DEF S
  <2>1. \A n \in 0 .. N : n \in S
    BY <1>2, <1>3, UpTo, Zenon
  <2>2. QED
    BY <2>1
<1>5. QED
  BY <1>1, <1>4

(* The retrieved blocks. *)
Block == {u \in AnyUnit : /\ u.kind = "retrieved" /\ u.key > MaxMessages
                          /\ u.messages = <<[role |-> "user", text |-> "retrieved"]>>}

(* A retrieved item becomes a block with the key of the item. *)
LEMMA CandidateIsBlock ==
  ASSUME NEW i \in Items
  PROVE  candidate_from_retrieved(i) \in Block /\ candidate_from_retrieved(i).key = i.id
<1>1. HeaderCost + Tokens(i.content) \in Nat /\ i.id \in Int /\ i.id > MaxMessages
  BY ContextAssumption
<1>2. <<[role |-> "user", text |-> "retrieved"]>> \in Seq(AnyMessage)
  BY DEF AnyMessage
<1>3. QED
  BY <1>1, <1>2 DEF candidate_from_retrieved, Block, AnyUnit, Kinds

(* Retrieved blocks stay within what remains. *)
LEMMA RetrievedPacked ==
  ASSUME NEW list \in Seq(Items), NEW A, A \subseteq Range(list), NEW remaining \in Int,
         remaining >= 0
  PROVE  /\ PackRetrieved(A, remaining) \in Seq(Block)
         /\ DistinctKeys(PackRetrieved(A, remaining))
         /\ Total(PackRetrieved(A, remaining)) <= remaining
<1>1. CASE remaining <= 0
  <2>1. PackRetrieved(A, remaining) = << >>
    BY <1>1 DEF PackRetrieved
  <2>2. << >> \in Seq(Block) /\ << >> \in Seq(AnyUnit) /\ DistinctKeys(<< >>)
    BY EmptyList DEF DistinctKeys
  <2>3. Total(<< >>) = 0
    BY <2>2, TotalType, Zenon
  <2>4. QED
    BY <1>1, <2>1, <2>2, <2>3
<1>2. CASE ~(remaining <= 0)
  <2> DEFINE ranked == mmr_select(A, MaxRetrievedItems)
             c == [n \in DOMAIN ranked |-> candidate_from_retrieved(ranked[n])]
             cap == Min({remaining, RetrievedBudget})
  <2>1. PackRetrieved(A, remaining) = Pack(c, cap)
    BY <1>2 DEF PackRetrieved
  <2>2. cap \in Nat /\ cap <= remaining
    <3> DEFINE S == {remaining, RetrievedBudget}
    <3>1. RetrievedBudget \in Nat
      BY ContextAssumption
    <3>2. PICK b \in Nat : b = remaining + RetrievedBudget
      BY <3>1
    <3>3. S \subseteq 0 .. b /\ S # {} /\ remaining \in S
      BY <3>1, <3>2
    <3> HIDE DEF S
    <3>4. Min(S) \in S /\ Min(S) <= remaining
      BY <3>3, MinIn, Zenon
    <3>5. QED
      BY <3>3, <3>4 DEF S
  <2>3. ranked \in Seq(A) /\ Distinct(ranked)
    BY Selected
  <2>4. A \subseteq Items
    BY DEF Range
  <2> HIDE DEF ranked, cap
  <2>5. \A n \in 1 .. Len(ranked) : ranked[n] \in Items
    BY <2>3, <2>4
  <2>6. c \in Seq(Block) /\ Len(c) = Len(ranked)
        /\ \A n \in 1 .. Len(ranked) : c[n].key = ranked[n].id
    BY <2>3, <2>5, CandidateIsBlock
  <2> HIDE DEF c
  <2>7. DistinctKeys(c)
    <3> SUFFICES ASSUME NEW m \in 1 .. Len(ranked), NEW n \in 1 .. Len(ranked),
                        c[m].key = c[n].key
                 PROVE  m = n
      BY <2>6 DEF DistinctKeys
    <3>1. ranked[m].id = ranked[n].id
      BY <2>6
    <3>2. ranked[m] = ranked[n]
      BY <3>1, <2>5, ContextAssumption
    <3>3. QED
      BY <3>2, <2>3 DEF Distinct
  <2>8. Block \subseteq AnyUnit
    BY DEF Block
  <2>9. Pack(c, cap) \in Seq(Block) /\ Total(Pack(c, cap)) <= cap /\ DistinctKeys(Pack(c, cap))
    BY <2>2, <2>6, <2>7, <2>8, Packed
  <2>10. Pack(c, cap) \in Seq(AnyUnit)
    BY <2>8, <2>9
  <2>11. Total(Pack(c, cap)) \in Int
    BY <2>10, TotalType
  <2>12. QED
    BY <2>1, <2>2, <2>9, <2>11
<1>3. QED
  BY <1>1, <1>2

-----------------------------------------------------------------------------
(* What is mandatory. *)

(* The units of a history cost what their messages cost. *)
LEMMA PlainTokens ==
  ASSUME NEW s \in Seq(PlainUnit)
  PROVE  Rendered(s) \in Seq(Inbound) /\ Total(s) = Tokens(Rendered(s))
<1> DEFINE P == {r \in Seq(PlainUnit) : Rendered(r) \in Seq(Inbound) /\ Total(r) = Tokens(Rendered(r))}
<1>1. << >> \in P
  <2>1. << >> \in Seq(PlainUnit) /\ << >> \in Seq(AnyUnit) /\ << >> \in Seq(Inbound)
    BY EmptyList
  <2>2. Rendered(<< >>) = << >> /\ Total(<< >>) = 0 /\ Tokens(<< >>) = 0
    BY <2>1, RenderedType, TotalType, TokensType, Zenon
  <2>3. QED
    BY <2>1, <2>2, Zenon
<1>2. ASSUME NEW r \in Seq(PlainUnit), NEW x \in PlainUnit, r \in P
      PROVE  Append(r, x) \in P
  <2>0. r \in Seq(AnyUnit) /\ x \in AnyUnit
    BY PlainIsAny
  <2>1. Rendered(Append(r, x)) = Rendered(r) \o x.messages
        /\ Total(Append(r, x)) = Total(r) + x.tokens
    BY <2>0, RenderedAppend, TotalBoth
  <2>2. x.messages \in Seq(Inbound) /\ x.tokens = Tokens(x.messages)
    BY DEF PlainUnit
  <2>3. Rendered(r) \in Seq(Inbound) /\ Total(r) = Tokens(Rendered(r))
    BY <1>2
  <2> DEFINE a == Rendered(r)
             b == x.messages
             d == Append(r, x)
  <2>4. d \in Seq(PlainUnit)
    OBVIOUS
  <2> HIDE DEF a, b, d, P
  <2>5. a \in Seq(Inbound) /\ b \in Seq(Inbound)
    BY <2>2, <2>3 DEF a, b
  <2>6. Tokens(a \o b) = Tokens(a) + Tokens(b) /\ a \o b \in Seq(Inbound)
    BY <2>5, TokensConcat
  <2>7. Rendered(d) = a \o b /\ Total(d) = Tokens(a) + Tokens(b)
    BY <2>1, <2>2, <2>3 DEF a, b, d
  <2>8. Rendered(d) \in Seq(Inbound) /\ Total(d) = Tokens(Rendered(d))
    BY <2>6, <2>7
  <2>9. d \in P
    BY <2>4, <2>8 DEF P
  <2>10. QED
    BY <2>9 DEF d
<1> HIDE DEF P
<1>3. s \in P
  <2>1. \A r \in Seq(PlainUnit) : r \in P
    BY <1>1, <1>2, ListInduction
  <2>2. QED
    BY <2>1
<1>4. QED
  BY <1>3 DEF P

(* The units of some kinds among those of a history. *)
LEMMA KindsOfPlain ==
  ASSUME NEW u \in Seq(PlainUnit), NEW K
  PROVE  OfKinds(u, K) \in Seq(PlainUnit) /\ OfKinds(u, K) = Only(u, KindSet(K))
<1>1. u \in Seq(AnyUnit)
  BY PlainIsAny
<1>2. OfKinds(u, K) = Only(u, KindSet(K))
  BY <1>1, OfKindsOnly
<1>3. QED
  BY <1>2, OnlyType

(* The request costs what its messages cost. *)
LEMMA CurrentIs ==
  ASSUME NEW r \in Seq(Inbound)
  PROVE  /\ CurrentRequest(r) \in Seq(AnyUnit)
         /\ Total(CurrentRequest(r)) = Tokens(r) /\ Rendered(CurrentRequest(r)) = r
<1>0. << >> \in Seq(AnyUnit) /\ Total(<< >>) = 0 /\ Tokens(<< >>) = 0 /\ Rendered(<< >>) = << >>
  BY EmptyList, TotalType, TokensType, RenderedType, Zenon
<1>1. CASE r = << >>
  BY <1>0, <1>1 DEF CurrentRequest
<1>2. CASE r # << >>
  <2> DEFINE x == Unit("request", 0, r)
  <2>1. x \in AnyUnit /\ x.messages = r /\ x.tokens = Tokens(r)
    BY UnitIsAny DEF Kinds
  <2>2. CurrentRequest(r) = <<x>>
    BY <1>2 DEF CurrentRequest
  <2> HIDE DEF x
  <2>3. <<x>> = Append(<< >>, x) /\ <<x>> \in Seq(AnyUnit)
    BY <2>1
  <2>4. Total(Append(<< >>, x)) = Total(<< >>) + x.tokens
    BY <1>0, <2>1, TotalBoth, Zenon
  <2>5. Rendered(Append(<< >>, x)) = Rendered(<< >>) \o x.messages
    BY <1>0, <2>1, RenderedAppend, Zenon
  <2>6. Tokens(r) \in Nat /\ << >> \o r = r
    BY TokensNat
  <2>7. QED
    BY <1>0, <2>1, <2>2, <2>3, <2>4, <2>5, <2>6
<1>3. QED
  BY <1>1, <1>2

(* Instructions and others among messages put together. *)
LEMMA PartsConcat ==
  ASSUME NEW a \in Seq(Inbound), NEW b \in Seq(Inbound)
  PROVE  /\ Instructions(a \o b) = Instructions(a) \o Instructions(b)
         /\ Others(a \o b) = Others(a) \o Others(b)
         /\ Instructions(a) \in Seq(Inbound) /\ Others(a) \in Seq(Inbound)
<1>1. a \in Seq(AnyMessage) /\ b \in Seq(AnyMessage)
  BY InboundIsAny
<1> DEFINE c == a \o b
<1>2. c \in Seq(AnyMessage)
  BY <1>1
<1>3. Only(c, SystemSet) = Only(a, SystemSet) \o Only(b, SystemSet)
      /\ Only(c, OtherSet) = Only(a, OtherSet) \o Only(b, OtherSet)
  BY OnlyConcat
<1>4. Only(a, SystemSet) \in Seq(Inbound) /\ Only(a, OtherSet) \in Seq(Inbound)
  BY OnlyType
<1> HIDE DEF c
<1>5. Instructions(a) = Only(a, SystemSet) /\ Instructions(b) = Only(b, SystemSet)
      /\ Instructions(c) = Only(c, SystemSet)
  BY <1>1, <1>2, InstructionsOnly
<1>6. Others(a) = Only(a, OtherSet) /\ Others(b) = Only(b, OtherSet) /\ Others(c) = Only(c, OtherSet)
  BY <1>1, <1>2, OthersOnly
<1>7. QED
  BY <1>3, <1>4, <1>5, <1>6 DEF c

(* Instructions only. *)
LEMMA OrdersParts ==
  ASSUME NEW t \in Seq(Orders)
  PROVE  Instructions(t) = t /\ Others(t) = << >> /\ t \in Seq(Inbound)
<1>1. Orders \subseteq Inbound
  BY DEF Orders
<1>2. t \in Seq(Inbound) /\ t \in Seq(AnyMessage)
  BY <1>1, InboundIsAny
<1>3. Orders \subseteq SystemSet /\ \A x \in Orders : x \notin OtherSet
  BY <1>1, InboundIsAny DEF Orders, SystemSet, OtherSet
<1>4. Only(t, SystemSet) = t /\ Only(t, OtherSet) = << >>
  BY <1>3, OnlyAll, OnlyNone
<1>5. QED
  BY <1>2, <1>4, InstructionsOnly, OthersOnly

Needed(ms) == Tokens(Instructions(Earlier(ms))) + Tokens(FromLastUser(ms))

(* The planners take for mandatory what is. *)
LEMMA MandatoryIs ==
  ASSUME NEW ms, NEW h, NEW r, NEW t, Splits(ms, h, r, t)
  PROVE  /\ Hold(segment_messages(h), Instructions(h), Others(h))
         /\ Others(h) = Others(Earlier(ms))
         /\ Instructions(h) = Instructions(Earlier(ms)) \o t
         /\ Total(OfKinds(segment_messages(h), System)) + Total(CurrentRequest(r)) = Needed(ms)
<1> DEFINE e == Earlier(ms)
           u == segment_messages(h)
<1>1. e \in Seq(Inbound) /\ t \in Seq(Orders) /\ r \in Seq(Inbound) /\ h = e \o t
      /\ FromLastUser(ms) = r \o t
  BY DEF Splits
<1>2. t \in Seq(Inbound) /\ Instructions(t) = t /\ Others(t) = << >>
  BY <1>1, OrdersParts
<1> HIDE DEF e
<1>3. h \in Seq(Inbound)
  BY <1>1, <1>2
<1>4. Hold(u, Instructions(h), Others(h))
  BY <1>3, Segmented
<1>5. Instructions(h) = Instructions(e) \o t /\ Others(h) = Others(e) \o << >>
      /\ Instructions(e) \in Seq(Inbound) /\ Others(e) \in Seq(Inbound)
  <2>1. e \in Seq(Inbound) /\ t \in Seq(Inbound)
    BY <1>1, <1>2
  <2>2. /\ Instructions(e \o t) = Instructions(e) \o Instructions(t)
        /\ Others(e \o t) = Others(e) \o Others(t)
        /\ Instructions(e) \in Seq(Inbound) /\ Others(e) \in Seq(Inbound)
    BY <2>1, PartsConcat, Zenon
  <2>3. QED
    BY <2>2, <1>1, <1>2
<1>6. Others(h) = Others(e)
  BY <1>5
<1>7. Tokens(Instructions(h)) = Tokens(Instructions(e)) + Tokens(t)
  <2> DEFINE i == Instructions(e)
  <2> HIDE DEF i
  <2>1. i \in Seq(Inbound)
    BY <1>5 DEF i
  <2>2. Tokens(i \o t) = Tokens(i) + Tokens(t)
    BY <2>1, <1>2, TokensConcat
  <2>3. QED
    BY <2>2, <1>5 DEF i
<1>8. Tokens(FromLastUser(ms)) = Tokens(r) + Tokens(t)
  BY <1>1, <1>2, TokensConcat
<1>9. Total(OfKinds(u, System)) = Tokens(Instructions(h))
  <2> HIDE DEF u
  <2>1. OfKinds(u, System) \in Seq(PlainUnit) /\ Rendered(OfKinds(u, System)) = Instructions(h)
    BY <1>4, KindsOfPlain DEF Hold
  <2> DEFINE y == OfKinds(u, System)
  <2> HIDE DEF y
  <2>2. y \in Seq(PlainUnit) /\ Rendered(y) = Instructions(h)
    BY <2>1 DEF y
  <2>3. Total(y) = Tokens(Rendered(y))
    BY <2>2, PlainTokens
  <2>4. QED
    BY <2>2, <2>3 DEF y
<1>10. Total(CurrentRequest(r)) = Tokens(r)
  BY <1>1, CurrentIs
<1>11. Tokens(r) \in Nat /\ Tokens(t) \in Nat /\ Tokens(Instructions(e)) \in Nat
  BY <1>1, <1>2, <1>5, TokensNat
<1>12. QED
  BY <1>4, <1>5, <1>6, <1>7, <1>8, <1>9, <1>10, <1>11 DEF Needed, e

-----------------------------------------------------------------------------
(* The window. *)

After(s, k) == SubSeq(s, k + 1, Len(s))

(* A list is what is up to a place and what is behind it. *)
LEMMA AfterFacts ==
  ASSUME NEW E, NEW s \in Seq(E), NEW k \in 0 .. Len(s)
  PROVE  /\ After(s, k) \in Seq(E) /\ Len(After(s, k)) = Len(s) - k
         /\ \A n \in 1 .. Len(s) - k : After(s, k)[n] = s[k + n]
         /\ SubSeq(s, 1, k) \in Seq(E) /\ Len(SubSeq(s, 1, k)) = k
         /\ \A n \in 1 .. k : SubSeq(s, 1, k)[n] = s[n]
         /\ s = SubSeq(s, 1, k) \o After(s, k)
<1>1. 1 \in 1 .. Len(s) + 1 /\ k \in 1 - 1 .. Len(s)
  OBVIOUS
<1>2. SubSeq(s, 1, Len(s)) = SubSeq(s, 1, k) \o SubSeq(s, k + 1, Len(s))
  BY <1>1, CutAt, Zenon
<1>3. SubSeq(s, 1, Len(s)) = s
  OBVIOUS
<1>4. s = SubSeq(s, 1, k) \o After(s, k)
  BY <1>2, <1>3, Zenon DEF After
<1>5. /\ After(s, k) \in Seq(E) /\ Len(After(s, k)) = Len(s) - k
      /\ \A n \in 1 .. Len(s) - k : After(s, k)[n] = s[k + n]
  BY DEF After
<1>6. /\ SubSeq(s, 1, k) \in Seq(E) /\ Len(SubSeq(s, 1, k)) = k
      /\ \A n \in 1 .. k : SubSeq(s, 1, k)[n] = s[n]
  OBVIOUS
<1>7. QED
  BY <1>4, <1>5, <1>6

(* More units cost more. *)
LEMMA AfterMono ==
  ASSUME NEW s \in Seq(AnyUnit), NEW k \in 0 .. Len(s), NEW j \in 0 .. k
  PROVE  /\ Total(After(s, j)) >= Total(After(s, k))
         /\ Total(After(s, j)) \in Int /\ Total(After(s, k)) \in Int
<1> DEFINE a == SubSeq(s, j + 1, k)
           b == After(s, k)
<1>1. a \in Seq(AnyUnit) /\ b \in Seq(AnyUnit)
  BY DEF After
<1>2. After(s, j) = a \o b
  <2>1. j + 1 \in 1 .. Len(s) + 1 /\ k \in (j + 1) - 1 .. Len(s)
    OBVIOUS
  <2>2. SubSeq(s, j + 1, Len(s)) = SubSeq(s, j + 1, k) \o SubSeq(s, k + 1, Len(s))
    BY <2>1, CutAt, Zenon
  <2>3. QED
    BY <2>2, Zenon DEF After
<1> HIDE DEF a, b
<1>3. Total(a \o b) = Total(a) + Total(b)
  BY <1>1, TotalConcat
<1>4. Total(a) \in Nat /\ Total(b) \in Nat
  BY <1>1, TotalNat
<1>5. QED
  BY <1>2, <1>3, <1>4 DEF b

(* The longest part at the end of h that costs at most room is what is      *)
(* behind the k-th unit.                                                    *)
Longest(h, k, room) ==
  /\ k \in 0 .. Len(h) /\ Total(After(h, k)) <= room
  /\ \A j \in 0 .. k - 1 : Total(After(h, j)) > room

(* There is only one longest part. *)
LEMMA LongestOnce ==
  ASSUME NEW h \in Seq(AnyUnit), NEW room \in Int, NEW j, NEW k,
         Longest(h, j, room), Longest(h, k, room)
  PROVE  j = k
<1>1. j \in 0 .. Len(h) /\ k \in 0 .. Len(h)
  BY DEF Longest
<1>2. Total(After(h, j)) \in Int /\ Total(After(h, k)) \in Int
  BY <1>1, AfterMono
<1>3. ~(j < k)
  <2> SUFFICES ASSUME j < k PROVE FALSE
    OBVIOUS
  <2>1. j \in 0 .. k - 1
    BY <1>1
  <2>2. Total(After(h, j)) > room /\ Total(After(h, j)) <= room
    BY <2>1 DEF Longest
  <2>3. QED
    BY <1>2, <2>2
<1>4. ~(k < j)
  <2> SUFFICES ASSUME k < j PROVE FALSE
    OBVIOUS
  <2>1. k \in 0 .. j - 1
    BY <1>1
  <2>2. Total(After(h, k)) > room /\ Total(After(h, k)) <= room
    BY <2>1 DEF Longest
  <2>3. QED
    BY <1>2, <2>2
<1>5. QED
  BY <1>1, <1>3, <1>4

(* The engine's window is the longest that fits. *)
LEMMA WindowLongest ==
  ASSUME NEW h \in Seq(AnyUnit), NEW room \in Int, room >= 0
  PROVE  \E k : Longest(h, k, room) /\ NewestWindow(h, room) = After(h, k)
<1> PICK N \in Nat : N = Len(h)
  OBVIOUS
<1> DEFINE fits == {k \in 0 .. N : \A j \in 0 .. k : Total(SubSeq(h, N - j + 1, N)) <= room}
           m == Max(fits)
           k == N - m
<1>1. \A j \in 0 .. N : SubSeq(h, N - j + 1, N) = After(h, N - j) /\ N - j \in 0 .. Len(h)
  BY DEF After
<1>2. 0 \in fits
  <2>1. Len(After(h, N)) = 0 /\ After(h, N) \in Seq(AnyUnit)
    BY AfterFacts
  <2>2. After(h, N) = << >>
    BY <2>1
  <2>3. Total(<< >>) = 0
    BY TotalType, EmptyList, Zenon
  <2>4. \A j \in 0 .. 0 : Total(SubSeq(h, N - j + 1, N)) <= room
    <3> TAKE j \in 0 .. 0
    <3>1. j = 0 /\ N - j = N /\ j \in 0 .. N
      OBVIOUS
    <3>2. SubSeq(h, N - j + 1, N) = After(h, N - j)
      BY <1>1, <3>1
    <3>3. After(h, N - j) = << >>
      BY <2>2, <3>1
    <3>4. Total(SubSeq(h, N - j + 1, N)) = 0
      BY <2>3, <3>2, <3>3, Zenon
    <3>5. QED
      BY <3>4
  <2>5. QED
    BY <2>4
<1>3. m \in fits /\ \A y \in fits : y <= m
  <2>1. fits \subseteq 0 .. N
    OBVIOUS
  <2> HIDE DEF fits
  <2>2. QED
    BY <1>2, <2>1, MaxIn, Zenon
<1>4. m \in 0 .. N /\ k \in 0 .. N /\ N - k = m
  <2>1. m \in 0 .. N
    BY <1>3
  <2> HIDE DEF m
  <2>2. QED
    BY <2>1
<1>5. NewestWindow(h, room) = After(h, k)
  BY <1>4 DEF NewestWindow, After
<1>6. Total(After(h, k)) <= room
  <2>1. m \in 0 .. m
    BY <1>4
  <2>2. Total(SubSeq(h, N - m + 1, N)) <= room
    BY <1>3, <2>1, Zenon
  <2>3. QED
    BY <1>1, <1>4, <2>2, Zenon
<1>7. ASSUME NEW j \in 0 .. k - 1 PROVE Total(After(h, j)) > room
  <2> HIDE DEF m
  <2>1. N - j \in 0 .. N /\ ~(N - j <= m)
    BY <1>4
  <2>2. N - j \notin fits
    BY <1>3, <2>1, Zenon
  <2>3. PICK i \in 0 .. N - j : ~(Total(SubSeq(h, N - i + 1, N)) <= room)
    BY <2>1, <2>2
  <2>4. i \in 0 .. N /\ N - i \in 0 .. Len(h) /\ j \in 0 .. N - i
    BY <2>1
  <2>5. ~(Total(After(h, N - i)) <= room)
    BY <1>1, <2>3, <2>4, Zenon
  <2>6. PICK l \in 0 .. Len(h) : l = N - i
    BY <2>4
  <2>7. Total(After(h, j)) >= Total(After(h, l))
        /\ Total(After(h, j)) \in Int /\ Total(After(h, l)) \in Int
    BY <2>4, <2>6, AfterMono
  <2>8. QED
    BY <2>5, <2>6, <2>7
<1> HIDE DEF k
<1>8. Longest(h, k, room)
  BY <1>4, <1>6, <1>7 DEF Longest
<1>9. QED
  BY <1>5, <1>8

(* What is left when the units up to the q-th are dropped. *)
LEMMA KeepFacts ==
  ASSUME NEW u \in Seq(PlainUnit), Keyed(u), NEW q \in 0 .. Len(u)
  PROVE  /\ KeepAfter(u, q) \in Seq(PlainUnit)
         /\ OfKinds(KeepAfter(u, q), System) = OfKinds(u, System)
         /\ OfKinds(KeepAfter(u, q), History) = OfKinds(After(u, q), History)
         /\ Total(KeepAfter(u, q)) = Total(OfKinds(u, System)) + Total(OfKinds(After(u, q), History))
<1> DEFINE G == {x \in AnyUnit : x.kind \in System \/ x.key > q}
           R == Range(u)
           T == {x \in R : x.kind \in System \/ x.key > q}
           KS == KindSet(System)
           KH == KindSet(History)
           a == SubSeq(u, 1, q)
           b == After(u, q)
           y == KeepAfter(u, q)
           GH == G \cap KH
           GS == G \cap KS
<1>0. \A x \in PlainUnit : x \in AnyUnit /\ x.kind \in {"system", "turn", "prefill"}
  BY DEF PlainUnit
<1>1. y = Only(u, G)
  <2>1. u \in Seq(R) /\ R \subseteq PlainUnit
    BY DEF Range
  <2>2. R \subseteq AnyUnit
    BY <2>1, <1>0
  <2> HIDE DEF R
  <2>3. \A x \in R : x \in T <=> x \in G
    BY <2>2
  <2> HIDE DEF T, G
  <2>4. Only(u, T) = Only(u, G)
    BY <2>1, <2>3, OnlySame
  <2>5. QED
    BY <2>4 DEF KeepAfter, R, T
<1>2. y \in Seq(PlainUnit)
  BY <1>1, OnlyType
<1>3. \A x \in AnyUnit : /\ x \in KS <=> x.kind = "system"
                         /\ x \in KH <=> x.kind = "turn" \/ x.kind = "prefill"
                         /\ x \in G <=> x.kind = "system" \/ x.key > q
  BY DEF KindSet, System, History
<1>4. \A x : (x \in GH <=> x \in G /\ x \in KH) /\ (x \in GS <=> x \in G /\ x \in KS)
  OBVIOUS
<1>5. Only(Only(u, G), KS) = Only(u, GS) /\ Only(Only(u, G), KH) = Only(u, GH)
  BY OnlyTwice
<1> HIDE DEF G, KS, KH, GH, GS
<1>6. OfKinds(y, System) = Only(y, KS) /\ OfKinds(y, History) = Only(y, KH)
      /\ OfKinds(u, System) = Only(u, KS)
  <2> HIDE DEF y
  <2>1. QED
    BY <1>2, KindsOfPlain DEF KS, KH
<1>7. Only(u, GS) = Only(u, KS)
  <2>1. \A x \in PlainUnit : x \in GS <=> x \in KS
    BY <1>0, <1>3, <1>4
  <2>2. QED
    BY <2>1, OnlySame
<1>8. Only(u, GH) = Only(b, KH)
  <2> DEFINE EA == {x \in PlainUnit : x.key <= q}
             EB == {x \in PlainUnit : x.key > q}
  <2>1. u = a \o b /\ a \in Seq(PlainUnit) /\ b \in Seq(PlainUnit)
        /\ Len(a) = q /\ Len(b) = Len(u) - q
        /\ (\A n \in 1 .. q : a[n] = u[n]) /\ \A n \in 1 .. Len(u) - q : b[n] = u[q + n]
    BY AfterFacts
  <2> HIDE DEF a, b
  <2>2. a \in Seq(EA)
    <3>1. \A n \in 1 .. q : a[n] \in EA
      <4> TAKE n \in 1 .. q
      <4>1. a[n] = u[n] /\ u[n] \in PlainUnit /\ u[n].key = n
        BY <2>1 DEF Keyed
      <4>2. QED
        BY <4>1
    <3> HIDE DEF EA
    <3>2. QED
      BY <2>1, <3>1
  <2>3. b \in Seq(EB)
    <3> PICK M \in Nat : M = Len(u) - q
      OBVIOUS
    <3>1. \A n \in 1 .. M : b[n] \in EB
      <4> TAKE n \in 1 .. M
      <4>1. q + n \in 1 .. Len(u)
        OBVIOUS
      <4>2. b[n] = u[q + n] /\ u[q + n] \in PlainUnit /\ u[q + n].key = q + n
        BY <2>1, <4>1 DEF Keyed
      <4>3. q + n > q
        OBVIOUS
      <4>4. QED
        BY <4>2, <4>3
    <3> HIDE DEF EB
    <3>2. QED
      BY <2>1, <3>1
  <2>4. \A x \in EA : x \notin GH
    <3> TAKE x \in EA
    <3>1. x \in AnyUnit /\ x.key <= q /\ x.key \in Int
      BY <1>0, UnitFields
    <3>2. QED
      BY <1>3, <1>4, <3>1
  <2>5. \A x \in EB : x \in GH <=> x \in KH
    BY <1>0, <1>3, <1>4
  <2> HIDE DEF EA, EB
  <2>6. Only(a, GH) = << >>
    BY <2>2, <2>4, OnlyNone
  <2>7. Only(b, GH) = Only(b, KH)
    BY <2>3, <2>5, OnlySame
  <2>8. Only(a \o b, GH) = Only(a, GH) \o Only(b, GH)
    BY <2>1, OnlyConcat
  <2>9. Only(b, KH) \in Seq(PlainUnit)
    BY <2>1, OnlyType
  <2>10. << >> \o Only(b, KH) = Only(b, KH)
    BY <2>9, ConcatEmpty
  <2>11. QED
    BY <2>1, <2>6, <2>7, <2>8, <2>10
<1>9. OfKinds(b, History) = Only(b, KH)
  <2>1. b \in Seq(PlainUnit)
    BY AfterFacts
  <2> HIDE DEF b
  <2>2. QED
    BY <2>1, KindsOfPlain DEF KH
<1>10. Total(Only(u, G)) = Total(Only(u, GS)) + Total(Only(u, GH))
  <2>1. GS \cap GH = {}
    BY <1>3, <1>4 DEF KS, KH, KindSet, System, History
  <2>2. u \in Seq(AnyUnit)
    BY PlainIsAny
  <2> DEFINE U == GS \cup GH
  <2>3. Total(Only(u, U)) = Total(Only(u, GS)) + Total(Only(u, GH))
    BY <2>1, <2>2, TotalSplit
  <2>4. \A x \in PlainUnit : x \in G <=> x \in U
    BY <1>0, <1>3, <1>4
  <2> HIDE DEF U
  <2>5. Only(u, G) = Only(u, U)
    BY <2>4, OnlySame
  <2>6. QED
    BY <2>3, <2>5
<1>11. QED
  BY <1>1, <1>2, <1>5, <1>6, <1>7, <1>8, <1>9, <1>10, Zenon

(* The end of two lists put together. *)
LEMMA AfterConcat ==
  ASSUME NEW E, NEW a \in Seq(E), NEW b \in Seq(E)
  PROVE  /\ After(a \o b, Len(a)) = b /\ Len(a) \in 0 .. Len(a \o b)
         /\ Len(a \o b) = Len(a) + Len(b)
<1> DEFINE c == a \o b
<1> PICK A \in Nat : A = Len(a)
  OBVIOUS
<1> PICK B \in Nat : B = Len(b)
  OBVIOUS
<1>1. c \in Seq(E) /\ Len(c) = Len(a) + Len(b)
      /\ \A n \in 1 .. Len(b) : c[Len(a) + n] = b[n]
  BY ConcatElements
<1> HIDE DEF c
<1>2. Len(c) = A + B /\ \A n \in 1 .. B : c[A + n] = b[n]
  BY <1>1
<1>3. A \in 0 .. Len(c) /\ Len(c) - A = B
  BY <1>2
<1>4. After(c, A) \in Seq(E) /\ Len(After(c, A)) = Len(c) - A
      /\ \A n \in 1 .. Len(c) - A : After(c, A)[n] = c[A + n]
  BY <1>1, <1>3, AfterFacts, Zenon
<1> DEFINE d == After(c, A)
<1> HIDE DEF d
<1>5. d \in Seq(E) /\ Len(d) = Len(b) /\ \A n \in 1 .. Len(d) : d[n] = b[n]
  BY <1>2, <1>3, <1>4 DEF d
<1>6. d = b
  BY <1>5, SameList
<1>7. QED
  BY <1>1, <1>2, <1>3, <1>6 DEF c, d

(* How many units of the history the first q units hold. *)
Held(u, q) == Len(OfKinds(SubSeq(u, 1, q), History))

(* What is behind q units has the history behind Held(u, q) of them. *)
LEMMA HeldFacts ==
  ASSUME NEW u \in Seq(PlainUnit), NEW q \in 0 .. Len(u)
  PROVE  /\ Held(u, q) \in 0 .. Len(OfKinds(u, History))
         /\ After(OfKinds(u, History), Held(u, q)) = OfKinds(After(u, q), History)
<1> DEFINE a == SubSeq(u, 1, q)
           b == After(u, q)
           K == KindSet(History)
<1>1. u = a \o b /\ a \in Seq(PlainUnit) /\ b \in Seq(PlainUnit)
  BY AfterFacts
<1> HIDE DEF a, b, K
<1>2. OfKinds(a, History) = Only(a, K) /\ OfKinds(b, History) = Only(b, K)
      /\ OfKinds(u, History) = Only(u, K)
  BY <1>1, KindsOfPlain, Zenon DEF K
<1>3. Only(a \o b, K) = Only(a, K) \o Only(b, K)
  BY <1>1, OnlyConcat
<1> DEFINE x == Only(a, K)
           y == Only(b, K)
<1>4. x \in Seq(PlainUnit) /\ y \in Seq(PlainUnit)
  BY <1>1, OnlyType
<1> HIDE DEF x, y
<1>5. After(x \o y, Len(x)) = y /\ Len(x) \in 0 .. Len(x \o y)
  BY <1>4, AfterConcat
<1>6. OfKinds(u, History) = x \o y /\ Held(u, q) = Len(x) /\ OfKinds(b, History) = y
  BY <1>1, <1>2, <1>3, Zenon DEF x, y, Held, a
<1>7. QED
  BY <1>5, <1>6 DEF b

(* One unit more holds at most one unit of history more. *)
LEMMA HeldStep ==
  ASSUME NEW u \in Seq(PlainUnit), NEW q \in 1 .. Len(u)
  PROVE  Held(u, q) = Held(u, q - 1) \/ Held(u, q) = Held(u, q - 1) + 1
<1> DEFINE a == SubSeq(u, 1, q - 1)
           x == u[q]
           K == KindSet(History)
<1>1. SubSeq(u, 1, q) = Append(a, x)
  OBVIOUS
<1>2. a \in Seq(PlainUnit) /\ x \in PlainUnit
  OBVIOUS
<1> HIDE DEF a, x, K
<1>3. Append(a, x) \in Seq(PlainUnit)
  BY <1>2
<1>4. OfKinds(a, History) = Only(a, K) /\ OfKinds(Append(a, x), History) = Only(Append(a, x), K)
  BY <1>2, <1>3, KindsOfPlain, Zenon DEF K
<1>5. Only(Append(a, x), K) = Only(a, K) \/ Only(Append(a, x), K) = Append(Only(a, K), x)
  BY <1>2, OnlyAppend
<1>6. Only(a, K) \in Seq(PlainUnit)
  BY <1>2, OnlyType
<1>7. Len(Append(Only(a, K), x)) = Len(Only(a, K)) + 1
  BY <1>2, <1>6, Append1
<1>8. QED
  BY <1>1, <1>4, <1>5, <1>7, Zenon DEF Held, a

(* No units have no units of any kind. *)
LEMMA NoUnits ==
  \A K : OfKinds(<< >>, K) = << >>
<1> TAKE K
<1>1. << >> \in Seq(PlainUnit)
  BY EmptyList
<1>2. OfKinds(<< >>, K) = Only(<< >>, KindSet(K))
  BY <1>1, KindsOfPlain, Zenon
<1>3. Only(<< >>, KindSet(K)) = << >>
  BY <1>1, OnlyType, Zenon
<1>4. QED
  BY <1>2, <1>3

(* Dropping the oldest leaves the longest window that fits. *)
LEMMA DropLongest ==
  ASSUME NEW u \in Seq(PlainUnit), Keyed(u), NEW available \in Int,
         Total(OfKinds(u, System)) <= available
  PROVE  \E q \in 0 .. Len(u) :
            /\ DropOldest(u, available) = KeepAfter(u, q)
            /\ Longest(OfKinds(u, History), Held(u, q), available - Total(OfKinds(u, System)))
<1> PICK N \in Nat : N = Len(u)
  OBVIOUS
<1> DEFINE Fit == {q \in 0 .. Len(u) : Total(KeepAfter(u, q)) <= available}
           q == Min(Fit)
           H == OfKinds(u, History)
           D == Total(OfKinds(u, System))
           room == available - D
<1>0. H \in Seq(PlainUnit) /\ H \in Seq(AnyUnit) /\ D \in Int
  <2>1. H \in Seq(PlainUnit) /\ OfKinds(u, System) \in Seq(PlainUnit)
    BY KindsOfPlain
  <2>2. H \in Seq(AnyUnit) /\ OfKinds(u, System) \in Seq(AnyUnit)
    BY <2>1, PlainIsAny
  <2>3. QED
    BY <2>1, <2>2, TotalType
<1> HIDE DEF H, D
<1>1. ASSUME NEW p \in 0 .. N
      PROVE  /\ Total(KeepAfter(u, p)) = D + Total(After(H, Held(u, p)))
             /\ Held(u, p) \in 0 .. Len(H) /\ Total(After(H, Held(u, p))) \in Int
  <2>1. Held(u, p) \in 0 .. Len(H) /\ After(H, Held(u, p)) = OfKinds(After(u, p), History)
    BY HeldFacts DEF H
  <2>2. Total(KeepAfter(u, p)) = D + Total(OfKinds(After(u, p), History))
    BY KeepFacts DEF D
  <2>3. After(H, Held(u, p)) \in Seq(AnyUnit)
    BY <1>0, <2>1, AfterFacts
  <2>4. Total(After(H, Held(u, p))) \in Int
    BY <2>3, TotalType
  <2>5. QED
    BY <2>1, <2>2, <2>4
<1>2. N \in Fit
  <2>1. After(u, N) \in Seq(PlainUnit) /\ Len(After(u, N)) = 0
    BY AfterFacts
  <2>2. After(u, N) = << >>
    BY <2>1
  <2>3. << >> \in Seq(PlainUnit) /\ << >> \in Seq(AnyUnit)
    BY EmptyList
  <2>4. OfKinds(<< >>, History) = << >> /\ Total(<< >>) = 0
    BY <2>3, NoUnits, TotalType, Zenon
  <2>5. N \in 0 .. Len(u)
    OBVIOUS
  <2>6. Total(KeepAfter(u, N)) = D + Total(OfKinds(After(u, N), History))
    BY <2>5, KeepFacts DEF D
  <2>7. Total(KeepAfter(u, N)) = D
    BY <2>2, <2>4, <2>6, <1>0
  <2>8. QED
    BY <2>5, <2>7 DEF D
<1>3. q \in Fit /\ \A p \in Fit : q <= p
  <2>1. Fit \subseteq 0 .. N
    OBVIOUS
  <2> HIDE DEF Fit
  <2>2. QED
    BY <1>2, <2>1, MinIn, Zenon
<1>4. q \in 0 .. N /\ Total(KeepAfter(u, q)) <= available
  BY <1>3
<1>5. DropOldest(u, available) = KeepAfter(u, q)
  BY DEF DropOldest
<1>6. \A p \in 0 .. q - 1 : p \notin Fit
  <2> TAKE p \in 0 .. q - 1
  <2> HIDE DEF q, Fit
  <2>1. p \in Int /\ q \in Int /\ ~(q <= p)
    BY <1>4
  <2>2. QED
    BY <1>3, <2>1
<1> HIDE DEF q
<1> DEFINE k == Held(u, q)
<1>7. k \in 0 .. Len(H) /\ Total(After(H, k)) <= room
  <2>1. Total(KeepAfter(u, q)) = D + Total(After(H, k)) /\ k \in 0 .. Len(H)
        /\ Total(After(H, k)) \in Int
    BY <1>1, <1>4
  <2> HIDE DEF k
  <2>2. QED
    BY <2>1, <1>0, <1>4
<1>8. ASSUME NEW j \in 0 .. k - 1 PROVE Total(After(H, j)) > room
  <2>1. q # 0
    <3> SUFFICES ASSUME q = 0 PROVE FALSE
      OBVIOUS
    <3>1. SubSeq(u, 1, 0) = << >> /\ << >> \in Seq(PlainUnit)
      OBVIOUS
    <3>2. OfKinds(SubSeq(u, 1, q), History) = << >>
      BY <3>1, NoUnits, Zenon
    <3>3. k = 0
      BY <3>2 DEF Held
    <3>4. QED
      BY <3>3
  <2>2. q \in 1 .. Len(u) /\ q - 1 \in 0 .. N /\ q - 1 \in 0 .. q - 1
    BY <2>1, <1>4
  <2> DEFINE l == Held(u, q - 1)
  <2>3. k = l \/ k = l + 1
    BY <2>2, HeldStep
  <2>4. Total(KeepAfter(u, q - 1)) = D + Total(After(H, l)) /\ l \in 0 .. Len(H)
        /\ Total(After(H, l)) \in Int
    BY <1>1, <2>2
  <2>5. ~(Total(KeepAfter(u, q - 1)) <= available)
    <3>1. q - 1 \notin Fit /\ q - 1 \in 0 .. Len(u)
      BY <1>6, <2>2
    <3>2. QED
      BY <3>1
  <2> HIDE DEF k, l
  <2>6. Total(After(H, l)) > room
    BY <1>0, <2>4, <2>5
  <2>7. k # l
    BY <1>7, <2>6, <2>4, <1>0
  <2>8. j \in 0 .. l
    BY <2>3, <2>7, <2>4
  <2>9. Total(After(H, j)) >= Total(After(H, l)) /\ Total(After(H, j)) \in Int
    BY <1>0, <2>4, <2>8, AfterMono
  <2>10. QED
    BY <1>0, <2>4, <2>6, <2>9
<1>9. Longest(H, k, room)
  BY <1>7, <1>8 DEF Longest
<1>10. QED
  BY <1>4, <1>5, <1>9 DEF H, D

-----------------------------------------------------------------------------
(* Keys and kinds. *)

(* The units of some kinds of two lists, one after the other. *)
LEMMA KindsConcat ==
  ASSUME NEW a \in Seq(AnyUnit), NEW b \in Seq(AnyUnit), NEW K
  PROVE  /\ OfKinds(a \o b, K) = OfKinds(a, K) \o OfKinds(b, K)
         /\ OfKinds(a, K) \in Seq(AnyUnit)
<1> DEFINE c == a \o b
           S == KindSet(K)
<1>1. c \in Seq(AnyUnit)
  OBVIOUS
<1>2. Only(c, S) = Only(a, S) \o Only(b, S)
  BY OnlyConcat
<1> HIDE DEF c, S
<1>3. OfKinds(a, K) = Only(a, S) /\ OfKinds(b, K) = Only(b, S) /\ OfKinds(c, K) = Only(c, S)
  BY <1>1, OfKindsOnly DEF S
<1>4. Only(a, S) \in Seq(AnyUnit)
  BY OnlyType
<1>5. QED
  BY <1>2, <1>3, <1>4 DEF c

(* A list with only units of some kinds is kept whole. *)
LEMMA AllOfKind ==
  ASSUME NEW K, NEW s \in Seq(KindSet(K))
  PROVE  OfKinds(s, K) = s /\ s \in Seq(AnyUnit)
<1>1. KindSet(K) \subseteq AnyUnit
  BY DEF KindSet
<1>2. s \in Seq(AnyUnit)
  BY <1>1
<1>3. Only(s, KindSet(K)) = s
  BY OnlyAll
<1>4. QED
  BY <1>2, <1>3, OfKindsOnly

(* A list without units of some kinds is dropped whole. *)
LEMMA NoneOfKind ==
  ASSUME NEW K, NEW L, K \cap L = {}, NEW s \in Seq(KindSet(K))
  PROVE  OfKinds(s, L) = << >>
<1>1. KindSet(K) \subseteq AnyUnit /\ \A x \in KindSet(K) : x \notin KindSet(L)
  BY DEF KindSet
<1>2. s \in Seq(AnyUnit)
  BY <1>1
<1>3. Only(s, KindSet(L)) = << >>
  BY <1>1, OnlyNone
<1>4. QED
  BY <1>2, <1>3, OfKindsOnly

(* The units of some kinds are of these kinds. *)
LEMMA KindsWithin ==
  ASSUME NEW s \in Seq(AnyUnit), NEW K
  PROVE  OfKinds(s, K) \in Seq(KindSet(K))
<1> DEFINE S == KindSet(K)
<1>1. OfKinds(s, K) = Only(s, S)
  BY OfKindsOnly
<1>2. Only(s, S) \in Seq(AnyUnit \cap S)
  BY OnlyWithin
<1>3. AnyUnit \cap S = S
  BY DEF KindSet
<1>4. QED
  BY <1>1, <1>2, <1>3

(* The current request is at most one unit, with key 0. *)
LEMMA RequestKind ==
  ASSUME NEW r \in Seq(Inbound)
  PROVE  /\ CurrentRequest(r) \in Seq(KindSet({"request"}))
         /\ Len(CurrentRequest(r)) \in {0, 1}
         /\ \A n \in 1 .. Len(CurrentRequest(r)) : CurrentRequest(r)[n].key = 0
<1>1. CASE r = << >>
  BY <1>1 DEF CurrentRequest
<1>2. CASE r # << >>
  <2> DEFINE x == Unit("request", 0, r)
  <2>1. x \in AnyUnit /\ x.kind = "request" /\ x.key = 0
    BY UnitIsAny DEF Kinds
  <2>2. CurrentRequest(r) = <<x>>
    BY <1>2 DEF CurrentRequest
  <2> HIDE DEF x
  <2>3. x \in KindSet({"request"})
    BY <2>1 DEF KindSet
  <2>4. QED
    BY <2>1, <2>2, <2>3
<1>3. QED
  BY <1>1, <1>2

(* The units of s are units of u, in the place that their key says. *)
Placed(s, u) == \A i \in 1 .. Len(s) : s[i].key \in 1 .. Len(u) /\ u[s[i].key] = s[i]

(* Choosing among units leaves their keys distinct. *)
LEMMA OnlyKeys ==
  ASSUME NEW u \in Seq(AnyUnit), Keyed(u), NEW S
  PROVE  DistinctKeys(Only(u, S)) /\ Placed(Only(u, S), u)
<1> DEFINE P == {r \in Seq(AnyUnit) : Keyed(r) => DistinctKeys(Only(r, S)) /\ Placed(Only(r, S), r)}
<1>1. << >> \in P
  <2>1. << >> \in Seq(AnyUnit) /\ Only(<< >>, S) = << >>
    BY EmptyList, OnlyType, Zenon
  <2>2. QED
    BY <2>1 DEF DistinctKeys, Placed
<1>2. ASSUME NEW r \in Seq(AnyUnit), NEW x \in AnyUnit, r \in P
      PROVE  Append(r, x) \in P
  <2> DEFINE d == Append(r, x)
             a == Only(r, S)
             b == Only(d, S)
  <2> SUFFICES ASSUME Keyed(d) PROVE DistinctKeys(b) /\ Placed(b, d)
    OBVIOUS
  <2> PICK N \in Nat : N = Len(r)
    OBVIOUS
  <2>1. Len(d) = N + 1 /\ d[N + 1] = x /\ \A n \in 1 .. N : d[n] = r[n]
    OBVIOUS
  <2>2. a \in Seq(AnyUnit)
    BY OnlyType
  <2>3. b = a \/ b = Append(a, x)
    BY OnlyAppend
  <2> HIDE DEF d, a, b
  <2>4. Keyed(r) /\ x.key = N + 1
    BY <2>1 DEF Keyed
  <2>5. DistinctKeys(a) /\ Placed(a, r)
    BY <1>2, <2>4 DEF a
  <2> PICK M \in Nat : M = Len(a)
    BY <2>2
  <2>6. \A i \in 1 .. M : a[i].key \in 1 .. N /\ d[a[i].key] = a[i]
    BY <2>1, <2>5 DEF Placed
  <2>7. CASE b = a
    BY <2>7, <2>5, <2>6, <2>1 DEF Placed
  <2>8. CASE b = Append(a, x)
    <3>1. Len(b) = M + 1 /\ b[M + 1] = x /\ \A i \in 1 .. M : b[i] = a[i]
      BY <2>2, <2>8
    <3>2. DistinctKeys(b)
      <4>1. \A i \in 1 .. M : b[i].key # x.key
        BY <3>1, <2>4, <2>6
      <4>2. QED
        BY <3>1, <4>1, <2>5 DEF DistinctKeys
    <3>3. ASSUME NEW i \in 1 .. M + 1 PROVE b[i].key \in 1 .. N + 1 /\ d[b[i].key] = b[i]
      <4>1. CASE i = M + 1
        BY <4>1, <3>1, <2>1, <2>4
      <4>2. CASE i \in 1 .. M
        BY <4>2, <3>1, <2>6
      <4>3. QED
        BY <4>1, <4>2
    <3>4. QED
      BY <3>1, <3>2, <3>3, <2>1 DEF Placed
  <2>9. QED
    BY <2>3, <2>7, <2>8
<1> HIDE DEF P
<1>3. u \in P
  <2>1. \A r \in Seq(AnyUnit) : r \in P
    BY <1>1, <1>2, ListInduction
  <2>2. QED
    BY <2>1
<1>4. QED
  BY <1>3 DEF P

(* Two lists without a common key. *)
Apart(a, b) == \A i \in 1 .. Len(a), j \in 1 .. Len(b) : a[i].key # b[j].key

(* Lists whose keys are distinct and apart have distinct keys together. *)
LEMMA KeysConcat ==
  ASSUME NEW a \in Seq(AnyUnit), NEW b \in Seq(AnyUnit),
         DistinctKeys(a), DistinctKeys(b), Apart(a, b)
  PROVE  DistinctKeys(a \o b)
<1> DEFINE c == a \o b
<1> PICK A \in Nat : A = Len(a)
  OBVIOUS
<1> PICK B \in Nat : B = Len(b)
  OBVIOUS
<1>1. Len(c) = Len(a) + Len(b) /\ (\A n \in 1 .. Len(a) : c[n] = a[n])
      /\ \A n \in 1 .. Len(b) : c[Len(a) + n] = b[n]
  BY ConcatElements
<1> HIDE DEF c
<1>2. Len(c) = A + B /\ (\A n \in 1 .. A : c[n] = a[n]) /\ \A n \in 1 .. B : c[A + n] = b[n]
  BY <1>1
<1>3. ASSUME NEW m \in 1 .. A + B, NEW n \in 1 .. A + B, c[m].key = c[n].key, m <= n PROVE m = n
  <2>1. CASE n <= A
    BY <2>1, <1>2, <1>3 DEF DistinctKeys
  <2>2. CASE m > A
    <3> PICK k \in 1 .. B : m = A + k
      <4>1. m - A \in 1 .. B /\ m = A + (m - A)
        BY <2>2
      <4>2. QED
        BY <4>1, Zenon
    <3> PICK l \in 1 .. B : n = A + l
      <4>1. n - A \in 1 .. B /\ n = A + (n - A)
        BY <2>2, <1>3
      <4>2. QED
        BY <4>1, Zenon
    <3>1. b[k].key = b[l].key
      BY <1>2, <1>3, Zenon
    <3>2. QED
      BY <3>1 DEF DistinctKeys
  <2>3. CASE m <= A /\ n > A
    <3> PICK l \in 1 .. B : n = A + l
      <4>1. n - A \in 1 .. B /\ n = A + (n - A)
        BY <2>3
      <4>2. QED
        BY <4>1, Zenon
    <3>1. a[m].key = b[l].key /\ m \in 1 .. A
      BY <1>2, <1>3, <2>3
    <3>2. QED
      BY <3>1 DEF Apart
  <2>4. QED
    BY <2>1, <2>2, <2>3
<1>4. \A m, n \in 1 .. A + B : c[m].key = c[n].key => m = n
  <2> TAKE m, n \in 1 .. A + B
  <2> HAVE c[m].key = c[n].key
  <2>1. m <= n \/ n <= m
    OBVIOUS
  <2>2. QED
    BY <2>1, <1>3
<1>5. QED
  BY <1>2, <1>4 DEF DistinctKeys, c

(* The end of a list has the keys of the list. *)
LEMMA KeysAfter ==
  ASSUME NEW s \in Seq(AnyUnit), NEW k \in 0 .. Len(s), NEW u, DistinctKeys(s), Placed(s, u)
  PROVE  DistinctKeys(After(s, k)) /\ Placed(After(s, k), u)
<1> PICK N \in Nat : N = Len(s)
  OBVIOUS
<1>1. Len(After(s, k)) = N - k /\ \A n \in 1 .. N - k : After(s, k)[n] = s[k + n]
  BY AfterFacts
<1>2. \A n \in 1 .. N - k : k + n \in 1 .. N
  OBVIOUS
<1>3. DistinctKeys(After(s, k))
  BY <1>1, <1>2 DEF DistinctKeys
<1>4. Placed(After(s, k), u)
  BY <1>1, <1>2 DEF Placed
<1>5. QED
  BY <1>3, <1>4

-----------------------------------------------------------------------------
(* What the planners return. *)

Sendable == PlainUnit \cup Block

(* What may be sent are units. *)
LEMMA SendableIsAny == Sendable \subseteq AnyUnit /\ Seq(Sendable) \subseteq Seq(AnyUnit)
<1>1. Sendable \subseteq AnyUnit
  BY PlainIsAny DEF Sendable, Block
<1>2. QED
  BY <1>1

PositiveKeys(s) == \A n \in 1 .. Len(s) : s[n].key > 0

(* X holds the instructions of u and, of its history, w. *)
Chosen(X, u, w) ==
  /\ X \in Seq(Sendable) /\ DistinctKeys(X) /\ PositiveKeys(X)
  /\ OfKinds(X, System) = OfKinds(u, System) /\ OfKinds(X, History) = w

(* What has to fit beside the history. *)
Fixed(u, c, cost, reserved) == Total(OfKinds(u, System)) + Total(c) + cost + reserved

(* The outcome p for the units u and the request c: an overflow, or the     *)
(* instructions, the history behind its k-th unit and the request.          *)
Overflows(p, u, c, cost, budget) ==
  Fixed(u, c, cost, p.reserved) > budget /\ p.status = "overflow" /\ p.ordered = << >>

Plans(p, X, u, c, k, cost, budget) ==
  /\ Fixed(u, c, cost, p.reserved) <= budget /\ p.status = "planned" /\ p.ordered = X \o c
  /\ Chosen(X, u, After(OfKinds(u, History), k))
  /\ Longest(OfKinds(u, History), k, budget - Fixed(u, c, cost, p.reserved))
  /\ Total(p.ordered) + cost + p.reserved <= budget

Good(p, u, c, cost, budget) ==
  /\ p.reserved \in Nat
  /\ Overflows(p, u, c, cost, budget) \/ \E X, k : Plans(p, X, u, c, k, cost, budget)

(* The fields of an outcome. *)
LEMMA OutcomeFields ==
  \A s, r, o : /\ Outcome(s, r, o).status = s /\ Outcome(s, r, o).reserved = r
               /\ Outcome(s, r, o).ordered = o
BY DEF Outcome

(* What has to fit is a natural number. *)
LEMMA FixedType ==
  ASSUME NEW u \in Seq(PlainUnit), NEW c \in Seq(AnyUnit), NEW cost \in Nat, NEW reserved \in Nat
  PROVE  /\ Total(OfKinds(u, System)) \in Nat /\ Total(c) \in Nat
         /\ Fixed(u, c, cost, reserved) \in Nat
<1>1. OfKinds(u, System) \in Seq(PlainUnit)
  BY KindsOfPlain
<1>2. OfKinds(u, System) \in Seq(AnyUnit)
  BY <1>1, PlainIsAny
<1>3. Total(OfKinds(u, System)) \in Nat /\ Total(c) \in Nat
  BY <1>2, TotalNat
<1>4. QED
  BY <1>3 DEF Fixed

(* plan_context. *)
LEMMA WindowGood ==
  ASSUME NEW h, NEW u \in Seq(PlainUnit), u = segment_messages(h), Keyed(u),
         NEW r \in Seq(Inbound), NEW cost \in Nat, NEW budget \in Int, NEW reserved \in Nat
  PROVE  Good(plan_context(h, r, cost, budget, reserved), u, CurrentRequest(r), cost, budget)
<1> DEFINE c == CurrentRequest(r)
           p == plan_context(h, r, cost, budget, reserved)
           sys == Total(OfKinds(u, System))
           H == OfKinds(u, History)
           mandatory == sys + cost + reserved + Total(c)
           available == budget - cost - reserved - Total(c)
           X == DropOldest(u, available)
           o == X \o c
<1>1. c \in Seq(AnyUnit)
  BY CurrentIs
<1>2. p = IF mandatory > budget THEN Overflow(reserved) ELSE Checked(o, cost, budget, reserved)
  BY DEF plan_context
<1> HIDE DEF p, c
<1>3. sys \in Nat /\ Total(c) \in Nat /\ Fixed(u, c, cost, reserved) \in Nat
  BY <1>1, FixedType, Zenon
<1>4. Fixed(u, c, cost, reserved) = mandatory /\ available \in Int /\ mandatory \in Int
      /\ available - sys = budget - mandatory
  BY <1>3, SMTT(20) DEF Fixed
<1>5. CASE mandatory > budget
  <2>1. p.status = "overflow" /\ p.reserved = reserved /\ p.ordered = << >>
    BY <1>2, <1>5, OutcomeFields DEF Overflow
  <2>2. QED
    BY <1>4, <1>5, <2>1 DEF Good, Overflows, c, p
<1>6. CASE ~(mandatory > budget)
  <2>1. sys <= available /\ mandatory <= budget
    BY <1>3, <1>4, <1>6
  <2>2. PICK q \in 0 .. Len(u) : X = KeepAfter(u, q) /\ Longest(H, Held(u, q), available - sys)
    <3> HIDE DEF mandatory, available
    <3> QED
      BY <1>4, <2>1, DropLongest
  <2> DEFINE k == Held(u, q)
  <2> HIDE DEF available, X, mandatory
  <2>3. X \in Seq(PlainUnit) /\ OfKinds(X, System) = OfKinds(u, System)
        /\ OfKinds(X, History) = OfKinds(After(u, q), History)
        /\ Total(X) = sys + Total(OfKinds(After(u, q), History))
    BY <2>2, KeepFacts
  <2>4. After(H, k) = OfKinds(After(u, q), History)
    BY HeldFacts
  <2>5. Total(After(H, k)) <= available - sys /\ k \in 0 .. Len(H)
    BY <2>2 DEF Longest
  <2>6. X \in Seq(AnyUnit) /\ H \in Seq(AnyUnit)
    <3>1. H \in Seq(PlainUnit)
      BY KindsOfPlain
    <3>2. QED
      BY <2>3, <3>1, PlainIsAny
  <2>7. Total(X) \in Int /\ Total(After(H, k)) \in Int
    <3>1. Total(After(H, k)) \in Int
      <4> HIDE DEF H, k
      <4> QED
        BY <2>5, <2>6, AfterMono
    <3>2. QED
      BY <3>1, <2>6, TotalType
  <2>8. Total(X) <= available
    BY <1>3, <1>4, <2>3, <2>4, <2>5, <2>7
  <2>9. Total(o) = Total(X) + Total(c)
    BY <1>1, <2>6, TotalConcat
  <2>10. Total(o) + cost + reserved <= budget
    BY <1>3, <2>7, <2>8, <2>9 DEF available
  <2> HIDE DEF o
  <2>11. ~(Total(o) + cost > budget)
    BY <2>9, <2>10, <2>7, <1>3
  <2>12. p.status = "planned" /\ p.reserved = reserved /\ p.ordered = o
    BY <1>2, <1>6, <2>11, OutcomeFields DEF Checked
  <2>13. DistinctKeys(X) /\ PositiveKeys(X)
    <3>1. u \in Seq(AnyUnit)
      BY PlainIsAny
    <3>2. DistinctKeys(X) /\ Placed(X, u)
      BY <2>2, <3>1, OnlyKeys DEF KeepAfter
    <3>3. QED
      BY <3>2 DEF Placed, PositiveKeys
  <2>14. Chosen(X, u, After(H, k))
    BY <2>3, <2>4, <2>13 DEF Chosen, Sendable
  <2>15. Longest(H, k, budget - mandatory)
    BY <1>4, <2>2
  <2>16. Plans(p, X, u, c, k, cost, budget)
    BY <1>4, <2>1, <2>10, <2>12, <2>14, <2>15 DEF Plans, o
  <2>17. QED
    BY <2>12, <2>16 DEF Good, c, p
<1>7. QED
  BY <1>5, <1>6

(* Instructions, retrieved blocks and a window, in this order. *)
LEMMA EngineChosen ==
  ASSUME NEW u \in Seq(PlainUnit), Keyed(u), Len(u) <= MaxMessages,
         NEW k \in 0 .. Len(OfKinds(u, History)),
         NEW b \in Seq(Block), DistinctKeys(b)
  PROVE  /\ Chosen((OfKinds(u, System) \o b) \o After(OfKinds(u, History), k), u,
                   After(OfKinds(u, History), k))
         /\ After(OfKinds(u, History), k) \in Seq(AnyUnit)
<1> DEFINE s == OfKinds(u, System)
           H == OfKinds(u, History)
           w == After(H, k)
           R == {"retrieved"}
           a == s \o b
           X == a \o w
<1>0. u \in Seq(AnyUnit)
  BY PlainIsAny
<1>1. s \in Seq(PlainUnit) /\ H \in Seq(PlainUnit)
      /\ s = Only(u, KindSet(System)) /\ H = Only(u, KindSet(History))
  BY KindsOfPlain
<1>2. s \in Seq(KindSet(System)) /\ H \in Seq(KindSet(History))
  BY <1>0, KindsWithin
<1>3. Block \subseteq KindSet(R) /\ Block \subseteq Sendable /\ PlainUnit \subseteq Sendable
  BY DEF Block, KindSet, Sendable
<1>4. b \in Seq(KindSet(R)) /\ b \in Seq(Sendable) /\ s \in Seq(Sendable)
  BY <1>1, <1>3
<1>5. DistinctKeys(s) /\ Placed(s, u) /\ DistinctKeys(H) /\ Placed(H, u)
  BY <1>0, <1>1, OnlyKeys
<1>6. H \in Seq(AnyUnit)
  BY <1>1, PlainIsAny
<1>7. k \in 0 .. Len(H)
  OBVIOUS
<1> HIDE DEF H, s
<1>8. DistinctKeys(w) /\ Placed(w, u)
  BY <1>5, <1>6, <1>7, KeysAfter
<1>9. w \in Seq(KindSet(History)) /\ w \in Seq(PlainUnit)
  BY <1>1, <1>2, <1>7, AfterFacts
<1>10. w \in Seq(Sendable) /\ w \in Seq(AnyUnit) /\ s \in Seq(AnyUnit) /\ b \in Seq(AnyUnit)
  BY <1>3, <1>4, <1>9, SendableIsAny
<1> HIDE DEF w
<1>11. X \in Seq(Sendable) /\ a \in Seq(AnyUnit)
  BY <1>4, <1>10
<1>12. System \cap R = {} /\ R \cap System = {} /\ R \cap History = {} /\ System \cap History = {}
       /\ History \cap System = {}
  BY DEF System, History
<1> HIDE DEF R
<1>13. OfKinds(s, System) = s /\ OfKinds(b, System) = << >> /\ OfKinds(w, System) = << >>
  BY <1>2, <1>4, <1>9, <1>12, AllOfKind, NoneOfKind
<1>14. OfKinds(s, History) = << >> /\ OfKinds(b, History) = << >> /\ OfKinds(w, History) = w
  BY <1>2, <1>4, <1>9, <1>12, AllOfKind, NoneOfKind
<1>15. OfKinds(X, System) = s
  <2>1. OfKinds(a, System) = OfKinds(s, System) \o OfKinds(b, System)
    BY <1>10, KindsConcat, Zenon
  <2> HIDE DEF a
  <2>2. OfKinds(a \o w, System) = OfKinds(a, System) \o OfKinds(w, System)
    <3>1. a \in Seq(AnyUnit) /\ w \in Seq(AnyUnit)
      BY <1>10, <1>11
    <3>2. QED
      BY <3>1, KindsConcat, Zenon
  <2>3. s \o << >> = s
    BY <1>10, ConcatEmpty
  <2>4. QED
    BY <1>13, <2>1, <2>2, <2>3
<1>16. OfKinds(X, History) = w
  <2>1. OfKinds(a, History) = OfKinds(s, History) \o OfKinds(b, History)
    BY <1>10, KindsConcat, Zenon
  <2> HIDE DEF a
  <2>2. OfKinds(a \o w, History) = OfKinds(a, History) \o OfKinds(w, History)
    <3>1. a \in Seq(AnyUnit) /\ w \in Seq(AnyUnit)
      BY <1>10, <1>11
    <3>2. QED
      BY <3>1, KindsConcat, Zenon
  <2>3. << >> \o << >> = << >> /\ << >> \o w = w
    BY <1>10, ConcatEmpty
  <2>4. QED
    BY <1>14, <2>1, <2>2, <2>3
<1>17. MaxMessages \in Nat /\ Len(u) \in Nat
  BY ContextAssumption
<1>18. \A n \in 1 .. Len(b) : b[n].key > MaxMessages /\ b[n].key \in Int
  <2>1. \A x \in Block : x.key > MaxMessages /\ x.key \in Int
    BY UnitFields DEF Block
  <2>2. QED
    BY <2>1
<1>19. \A n \in 1 .. Len(s) : s[n].key \in 1 .. Len(u) /\ s[n].kind \in System /\ u[s[n].key] = s[n]
  <2>1. \A x \in KindSet(System) : x.kind \in System
    BY DEF KindSet
  <2>2. QED
    BY <1>2, <1>5, <2>1 DEF Placed
<1>20. \A n \in 1 .. Len(w) : w[n].key \in 1 .. Len(u) /\ w[n].kind \in History /\ u[w[n].key] = w[n]
  <2>1. \A x \in KindSet(History) : x.kind \in History
    BY DEF KindSet
  <2>2. QED
    BY <1>8, <1>9, <2>1 DEF Placed
<1>21. Apart(s, b)
  BY <1>17, <1>18, <1>19 DEF Apart
<1>22. DistinctKeys(a)
  BY <1>5, <1>10, <1>21, KeysConcat
<1>23. \A n \in 1 .. Len(a) : \/ a[n].key \in Int /\ a[n].key > MaxMessages
                              \/ /\ a[n].key \in 1 .. Len(u) /\ a[n].kind \in System
                                 /\ u[a[n].key] = a[n]
  <2> PICK A \in Nat : A = Len(s)
    BY <1>10
  <2> PICK B \in Nat : B = Len(b)
    BY <1>10
  <2>1. Len(a) = Len(s) + Len(b) /\ (\A n \in 1 .. Len(s) : a[n] = s[n])
        /\ \A n \in 1 .. Len(b) : a[Len(s) + n] = b[n]
    BY <1>10, ConcatElements
  <2> HIDE DEF a
  <2> TAKE n \in 1 .. Len(a)
  <2>2. CASE n <= A
    <3>1. n \in 1 .. Len(s) /\ a[n] = s[n]
      BY <2>1, <2>2
    <3>2. QED
      BY <3>1, <1>19
  <2>3. CASE n > A
    <3>1. n - A \in 1 .. Len(b) /\ Len(s) + (n - A) = n
      BY <2>1, <2>3
    <3> PICK m \in 1 .. Len(b) : Len(s) + m = n
      BY <3>1, Zenon
    <3>2. a[n] = b[m]
      BY <2>1
    <3>3. QED
      BY <3>2, <1>18
  <2>4. QED
    BY <2>1, <2>2, <2>3
<1>24. Apart(a, w)
  <2> SUFFICES ASSUME NEW i \in 1 .. Len(a), NEW j \in 1 .. Len(w), a[i].key = w[j].key PROVE FALSE
    BY DEF Apart
  <2>1. w[j].key \in 1 .. Len(u) /\ w[j].kind \in History /\ u[w[j].key] = w[j]
    BY <1>20
  <2>2. ~(a[i].key > MaxMessages)
    BY <2>1, <1>17
  <2>3. a[i].kind \in System /\ u[a[i].key] = a[i]
    BY <1>23, <2>2
  <2>4. a[i] = w[j]
    BY <2>1, <2>3
  <2>5. QED
    BY <2>1, <2>3, <2>4, <1>12
<1> HIDE DEF a
<1>25. DistinctKeys(X)
  BY <1>8, <1>10, <1>11, <1>22, <1>24, KeysConcat
<1>26. PositiveKeys(X)
  <2> PICK A \in Nat : A = Len(a)
    BY <1>11
  <2> PICK B \in Nat : B = Len(w)
    BY <1>10
  <2>1. Len(X) = Len(a) + Len(w) /\ (\A n \in 1 .. Len(a) : X[n] = a[n])
        /\ \A n \in 1 .. Len(w) : X[Len(a) + n] = w[n]
    BY <1>10, <1>11, ConcatElements
  <2> HIDE DEF X
  <2> SUFFICES ASSUME NEW n \in 1 .. Len(X) PROVE X[n].key > 0
    BY DEF PositiveKeys
  <2>2. CASE n <= A
    <3>1. n \in 1 .. Len(a) /\ X[n] = a[n]
      BY <2>1, <2>2
    <3>2. QED
      BY <3>1, <1>17, <1>23
  <2>3. CASE n > A
    <3>1. n - A \in 1 .. Len(w) /\ Len(a) + (n - A) = n
      BY <2>1, <2>3
    <3> PICK m \in 1 .. Len(w) : Len(a) + m = n
      BY <3>1, Zenon
    <3>2. X[n] = w[m]
      BY <2>1
    <3>3. QED
      BY <3>2, <1>20
  <2>4. QED
    BY <2>1, <2>2, <2>3
<1>27. Chosen(X, u, w)
  BY <1>11, <1>15, <1>16, <1>25, <1>26 DEF Chosen, s
<1>28. QED
  BY <1>10, <1>27 DEF X, a, s, w, H

(* The guard of _make_plan: what is retrieved speaks as the user. *)
LEMMA NoneUntrusted ==
  ASSUME NEW X \in Seq(Sendable), NEW r \in Seq(Inbound)
  PROVE  \A n \in DOMAIN (X \o CurrentRequest(r)) : ~Untrusted((X \o CurrentRequest(r))[n])
<1> DEFINE c == CurrentRequest(r)
<1>1. \A u \in Sendable : ~Untrusted(u)
  <2>1. \A u \in PlainUnit : u.kind # "retrieved"
    BY DEF PlainUnit
  <2>2. \A u \in Block : u.messages[1].role = "user"
    BY DEF Block
  <2>3. QED
    BY <2>1, <2>2 DEF Sendable, Untrusted
<1>2. \A n \in 1 .. Len(c) : ~Untrusted(c[n])
  BY DEF CurrentRequest, Unit, Untrusted
<1>3. X \in Seq(AnyUnit) /\ c \in Seq(AnyUnit)
  BY CurrentIs, SendableIsAny
<1> HIDE DEF c
<1> PICK A \in Nat : A = Len(X)
  OBVIOUS
<1>4. /\ X \o c \in Seq(AnyUnit) /\ Len(X \o c) = A + Len(c)
      /\ \A n \in 1 .. A : (X \o c)[n] = X[n]
      /\ \A n \in 1 .. Len(c) : (X \o c)[A + n] = c[n]
  BY <1>3, ConcatElements
<1> DEFINE o == X \o c
<1>5. DOMAIN o = 1 .. A + Len(c)
  BY <1>4
<1> HIDE DEF o
<1> SUFFICES ASSUME NEW n \in DOMAIN o PROVE ~Untrusted(o[n])
  BY Zenon DEF o, c
<1>6. CASE n <= A
  <2>1. n \in 1 .. A /\ X[n] \in Sendable
    BY <1>5, <1>6
  <2>2. QED
    BY <1>1, <1>4, <2>1, Zenon DEF o
<1>7. CASE n > A
  <2>1. n - A \in 1 .. Len(c) /\ A + (n - A) = n
    BY <1>3, <1>5, <1>7
  <2>2. QED
    BY <1>2, <1>4, <2>1, Zenon DEF o
<1>8. QED
  BY <1>5, <1>6, <1>7

(* ContextEngine.build. *)
LEMMA EngineGood ==
  ASSUME NEW h, NEW u \in Seq(PlainUnit), u = segment_messages(h), Keyed(u),
         Len(u) <= MaxMessages,
         NEW r \in Seq(Inbound), NEW list \in Seq(Items), NEW cost \in Nat, NEW budget \in Int
  PROVE  Good(build(h, r, list, cost, budget), u, CurrentRequest(r), cost, budget)
<1> DEFINE c == CurrentRequest(r)
           p == build(h, r, list, cost, budget)
           A == Deduplicate(list, RawTexts(u, c))
           s == OfKinds(u, System)
           sys == Total(s)
           H == OfKinds(u, History)
           mandatory == sys + Total(c)
           remaining == budget - mandatory - cost
           window == NewestWindow(H, remaining)
           picked == PackRetrieved(A, remaining - Total(window))
           X == s \o picked \o window
           o == X \o c
<1>1. c \in Seq(AnyUnit)
  BY CurrentIs
<1>2. p = IF mandatory + cost > budget THEN Overflow(0) ELSE make_plan(o, cost, budget)
  BY DEF build, Allocate
<1>3. A \subseteq Range(list)
  BY DEF Deduplicate, Range
<1> HIDE DEF p, c, A
<1>4. sys \in Nat /\ Total(c) \in Nat /\ Fixed(u, c, cost, 0) \in Nat
  BY <1>1, FixedType, Zenon
<1>5. Fixed(u, c, cost, 0) = mandatory + cost /\ remaining \in Int /\ mandatory \in Int
      /\ remaining = budget - Fixed(u, c, cost, 0)
  BY <1>4 DEF Fixed
<1>6. CASE mandatory + cost > budget
  <2>1. p.status = "overflow" /\ p.reserved = 0 /\ p.ordered = << >>
    BY <1>2, <1>6, OutcomeFields DEF Overflow
  <2>2. Fixed(u, c, cost, p.reserved) > budget /\ p.reserved \in Nat
    BY <1>5, <1>6, <2>1
  <2>3. Good(p, u, c, cost, budget)
    BY <2>1, <2>2 DEF Good, Overflows
  <2>4. QED
    BY <2>3 DEF c, p
<1>7. CASE ~(mandatory + cost > budget)
  <2>1. remaining >= 0 /\ Fixed(u, c, cost, 0) <= budget
    BY <1>5, <1>7
  <2>2. s \in Seq(AnyUnit) /\ H \in Seq(AnyUnit)
    <3>1. s \in Seq(PlainUnit) /\ H \in Seq(PlainUnit)
      BY KindsOfPlain
    <3>2. QED
      BY <3>1, PlainIsAny
  <2>3. PICK k : Longest(H, k, remaining) /\ window = After(H, k)
    <3> HIDE DEF H, remaining, mandatory
    <3> QED
      BY <1>5, <2>1, <2>2, WindowLongest
  <2>4. k \in 0 .. Len(H) /\ Total(After(H, k)) <= remaining
    BY <2>3 DEF Longest
  <2>5. window \in Seq(AnyUnit) /\ Total(window) <= remaining
    <3> HIDE DEF H, window, remaining
    <3> QED
      BY <2>2, <2>3, <2>4, AfterFacts
  <2>6. Total(window) \in Int
    <3> HIDE DEF window
    <3> QED
      BY <2>5, TotalType
  <2> DEFINE left == remaining - Total(window)
  <2>7. left \in Int /\ left >= 0
    <3> HIDE DEF window, remaining
    <3> QED
      BY <1>5, <2>5, <2>6
  <2>8. picked \in Seq(Block) /\ DistinctKeys(picked) /\ Total(picked) <= left
    <3> HIDE DEF left
    <3>1. PackRetrieved(A, left) \in Seq(Block) /\ DistinctKeys(PackRetrieved(A, left))
          /\ Total(PackRetrieved(A, left)) <= left
      BY <1>3, <2>7, RetrievedPacked
    <3>2. QED
      BY <3>1 DEF left
  <2> HIDE DEF picked
  <2>9. Chosen((s \o picked) \o After(H, k), u, After(H, k))
    BY <2>4, <2>8, EngineChosen
  <2>10. Chosen(X, u, After(H, k))
    BY <2>3, <2>9
  <2>11. picked \in Seq(AnyUnit)
    BY <2>8, SendableIsAny DEF Sendable
  <2>12. Total(picked) \in Int
    BY <2>11, TotalType
  <2> DEFINE a == s \o picked
  <2>13. Total(o) = ((sys + Total(picked)) + Total(window)) + Total(c)
    <3> HIDE DEF s, window
    <3>1. Total(s \o picked) = Total(s) + Total(picked) /\ a \in Seq(AnyUnit)
      BY <2>2, <2>11, TotalConcat
    <3> HIDE DEF a
    <3>2. Total(a \o window) = Total(a) + Total(window) /\ a \o window \in Seq(AnyUnit)
      BY <2>5, <3>1, TotalConcat
    <3> DEFINE b == a \o window
    <3> HIDE DEF b
    <3>3. b \in Seq(AnyUnit)
      BY <3>2 DEF b
    <3>4. Total(b \o c) = Total(b) + Total(c)
      BY <1>1, <3>3, TotalConcat
    <3>5. QED
      BY <3>1, <3>2, <3>4 DEF a, b
  <2> HIDE DEF window, o, a
  <2>14. Total(o) + cost + 0 <= budget
    BY <1>4, <2>6, <2>8, <2>12, <2>13, SMTT(20)
  <2>15. ~(Total(o) + cost > budget)
    <3>1. Total(o) \in Int
      BY <1>4, <2>6, <2>12, <2>13
    <3>2. QED
      BY <2>14, <3>1
  <2>16. p.status = "planned" /\ p.reserved = 0 /\ p.ordered = o
    <3>1. X \in Seq(Sendable)
      BY <2>10 DEF Chosen
    <3>2. \A n \in DOMAIN o : ~Untrusted(o[n])
      <4> HIDE DEF X
      <4>1. \A n \in DOMAIN (X \o c) : ~Untrusted((X \o c)[n])
        BY <3>1, NoneUntrusted DEF c
      <4>2. QED
        BY <4>1, Zenon DEF o
    <3>3. p = Checked(o, cost, budget, 0)
      BY <1>2, <1>7, <3>2, Zenon DEF make_plan
    <3>4. QED
      BY <3>3, <2>15, OutcomeFields DEF Checked
  <2>17. Longest(H, k, budget - Fixed(u, c, cost, 0))
    BY <1>5, <2>3
  <2> HIDE DEF X, remaining, mandatory
  <2>18. Plans(p, X, u, c, k, cost, budget)
    BY <2>1, <2>10, <2>14, <2>16, <2>17 DEF Plans, o
  <2>19. QED
    BY <2>16, <2>18 DEF Good, c, p
<1>8. QED
  BY <1>6, <1>7

-----------------------------------------------------------------------------
(* The number of units. *)

(* Two complementary selections have all the elements together. *)
LEMMA OnlyLengths ==
  ASSUME NEW E, NEW s \in Seq(E), NEW S, NEW T, \A x \in E : x \in S <=> x \notin T
  PROVE  Len(Only(s, S)) + Len(Only(s, T)) = Len(s)
<1> DEFINE P == {r \in Seq(E) : Len(Only(r, S)) + Len(Only(r, T)) = Len(r)}
<1>1. << >> \in P
  <2>1. << >> \in Seq(E) /\ Only(<< >>, S) = << >> /\ Only(<< >>, T) = << >>
    BY EmptyList, OnlyType, Zenon
  <2>2. QED
    BY <2>1
<1>2. ASSUME NEW r \in Seq(E), NEW x \in E, r \in P
      PROVE  Append(r, x) \in P
  <2> DEFINE d == Append(r, x)
             a == Only(r, S)
             b == Only(r, T)
  <2>1. d \in Seq(E) /\ Len(d) = Len(r) + 1 /\ Len(r) \in Nat
    BY Append1
  <2>2. a \in Seq(E) /\ b \in Seq(E)
    BY OnlyType
  <2>3. Len(a) + Len(b) = Len(r)
    BY <1>2
  <2>4. CASE x \in S
    <3>1. Only(d, S) = Append(a, x) /\ Only(d, T) = b
      BY <2>4, OnlyIn, OnlyOut
    <3> HIDE DEF a, b, d
    <3>2. Len(Append(a, x)) = Len(a) + 1 /\ Len(a) \in Nat /\ Len(b) \in Nat
      BY <2>2
    <3>3. Len(Only(d, S)) = Len(a) + 1 /\ Len(Only(d, T)) = Len(b)
      BY <3>1, <3>2, Zenon
    <3>4. Len(d) = (Len(a) + Len(b)) + 1
      BY <2>1, <2>3, Zenon
    <3>5. Len(Only(d, S)) + Len(Only(d, T)) = Len(d)
      BY <3>2, <3>3, <3>4
    <3>6. QED
      BY <2>1, <3>5 DEF d
  <2>5. CASE x \in T
    <3>1. Only(d, T) = Append(b, x) /\ Only(d, S) = a
      BY <2>5, OnlyIn, OnlyOut
    <3> HIDE DEF a, b, d
    <3>2. Len(Append(b, x)) = Len(b) + 1 /\ Len(a) \in Nat /\ Len(b) \in Nat
      BY <2>2
    <3>3. Len(Only(d, T)) = Len(b) + 1 /\ Len(Only(d, S)) = Len(a)
      BY <3>1, <3>2, Zenon
    <3>4. Len(d) = (Len(a) + Len(b)) + 1
      BY <2>1, <2>3, Zenon
    <3>5. Len(Only(d, S)) + Len(Only(d, T)) = Len(d)
      BY <3>2, <3>3, <3>4
    <3>6. QED
      BY <2>1, <3>5 DEF d
  <2>6. QED
    BY <2>4, <2>5
<1> HIDE DEF P
<1>3. s \in P
  <2>1. \A r \in Seq(E) : r \in P
    BY <1>1, <1>2, ListInduction
  <2>2. QED
    BY <2>1
<1>4. QED
  BY <1>3 DEF P

(* Units are no more than their messages. *)
LEMMA UnitsLength ==
  ASSUME NEW s \in Seq(PlainUnit)
  PROVE  Len(s) <= Len(Rendered(s))
<1> DEFINE P == {r \in Seq(PlainUnit) : Len(r) <= Len(Rendered(r))}
<1>1. << >> \in P
  <2>1. << >> \in Seq(PlainUnit) /\ << >> \in Seq(AnyUnit)
    BY EmptyList
  <2>2. Rendered(<< >>) = << >>
    BY <2>1, RenderedType, Zenon
  <2>3. QED
    BY <2>1, <2>2
<1>2. ASSUME NEW r \in Seq(PlainUnit), NEW x \in PlainUnit, r \in P
      PROVE  Append(r, x) \in P
  <2>0. r \in Seq(AnyUnit) /\ x \in AnyUnit
    BY PlainIsAny
  <2>1. Rendered(Append(r, x)) = Rendered(r) \o x.messages
    BY <2>0, RenderedAppend
  <2> DEFINE a == Rendered(r)
             b == x.messages
             d == Append(r, x)
  <2>2. b \in Seq(AnyMessage) /\ b # << >>
    BY InboundIsAny DEF PlainUnit
  <2>3. a \in Seq(AnyMessage)
    BY <2>0, RenderedType
  <2>4. Len(r) <= Len(a) /\ Len(r) \in Nat
    BY <1>2
  <2>5. d \in Seq(PlainUnit) /\ Len(d) = Len(r) + 1
    BY Append1
  <2>6. Rendered(d) = a \o b
    BY <2>1
  <2> HIDE DEF a, b, d
  <2>7. Len(a \o b) = Len(a) + Len(b) /\ Len(a) \in Nat /\ Len(b) \in Nat /\ Len(b) # 0
    BY <2>2, <2>3
  <2>8. Len(d) <= Len(Rendered(d))
    BY <2>4, <2>5, <2>6, <2>7
  <2>9. QED
    BY <2>5, <2>8 DEF d
<1> HIDE DEF P
<1>3. s \in P
  <2>1. \A r \in Seq(PlainUnit) : r \in P
    BY <1>1, <1>2, ListInduction
  <2>2. QED
    BY <2>1
<1>4. QED
  BY <1>3 DEF P

(* There are no more units than messages. *)
LEMMA SegmentLength ==
  ASSUME NEW ms \in Seq(Inbound), NEW u, Hold(u, Instructions(ms), Others(ms))
  PROVE  Len(u) <= Len(ms)
<1> DEFINE s == OfKinds(u, System)
           h == OfKinds(u, History)
<1>1. u \in Seq(PlainUnit) /\ Rendered(s) = Instructions(ms) /\ Rendered(h) = Others(ms)
  BY DEF Hold
<1>2. s \in Seq(PlainUnit) /\ h \in Seq(PlainUnit)
      /\ s = Only(u, KindSet(System)) /\ h = Only(u, KindSet(History))
  BY <1>1, KindsOfPlain
<1> HIDE DEF s, h
<1>3. Len(s) + Len(h) = Len(u)
  <2>1. \A x \in PlainUnit : x \in KindSet(System) <=> x \notin KindSet(History)
    BY DEF PlainUnit, KindSet, System, History
  <2>2. Len(Only(u, KindSet(System))) + Len(Only(u, KindSet(History))) = Len(u)
    BY <1>1, <2>1, OnlyLengths
  <2>3. QED
    BY <1>2, <2>2
<1>4. Len(Instructions(ms)) + Len(Others(ms)) = Len(ms)
  <2>1. ms \in Seq(AnyMessage)
    BY InboundIsAny
  <2>2. \A x \in AnyMessage : x \in SystemSet <=> x \notin OtherSet
    BY DEF SystemSet, OtherSet
  <2>3. Len(Only(ms, SystemSet)) + Len(Only(ms, OtherSet)) = Len(ms)
    BY <2>1, <2>2, OnlyLengths
  <2>4. QED
    BY <2>1, <2>3, InstructionsOnly, OthersOnly
<1>5. Len(s) <= Len(Rendered(s)) /\ Len(h) <= Len(Rendered(h))
  BY <1>2, UnitsLength
<1>6. Len(s) \in Nat /\ Len(h) \in Nat
  BY <1>2
<1>7. Instructions(ms) \in Seq(Inbound) /\ Others(ms) \in Seq(Inbound)
  BY PartsConcat
<1>8. Len(Instructions(ms)) \in Nat /\ Len(Others(ms)) \in Nat
  BY <1>7
<1>9. QED
  BY <1>1, <1>3, <1>4, <1>5, <1>6, <1>8

(* The types of the parts of a split. *)
LEMMA SplitTypes ==
  ASSUME NEW ms \in Seq(Inbound), NEW h, NEW r, NEW t, Splits(ms, h, r, t)
  PROVE  h \in Seq(Inbound) /\ r \in Seq(Inbound) /\ Len(h) <= Len(ms)
<1> DEFINE e == Earlier(ms)
<1>1. e \in Seq(Inbound) /\ t \in Seq(Orders) /\ r \in Seq(Inbound) /\ h = e \o t
      /\ ms = e \o FromLastUser(ms) /\ FromLastUser(ms) = r \o t
  BY DEF Splits
<1>2. t \in Seq(Inbound)
  BY <1>1, OrdersParts
<1> HIDE DEF e
<1>3. ms = e \o (r \o t)
  BY <1>1
<1> DEFINE f == r \o t
<1>4. f \in Seq(Inbound) /\ Len(f) = Len(r) + Len(t)
  BY <1>1, <1>2, ConcatElements
<1> HIDE DEF f
<1>5. Len(e \o f) = Len(e) + Len(f)
  BY <1>1, <1>4, ConcatElements, Zenon
<1>6. h \in Seq(Inbound) /\ Len(h) = Len(e) + Len(t)
  BY <1>1, <1>2, ConcatElements
<1>7. Len(e) \in Nat /\ Len(t) \in Nat /\ Len(r) \in Nat
  BY <1>1, <1>2
<1>8. QED
  BY <1>1, <1>3, <1>4, <1>5, <1>6, <1>7 DEF f

-----------------------------------------------------------------------------
(* The invariant: a plan is an outcome for the inbound messages.            *)

PlanFor(p, ms, cost, budget) ==
  \E h, r, t : /\ Splits(ms, h, r, t)
               /\ Good(p, segment_messages(h), CurrentRequest(r), cost, budget)

IInv ==
  /\ inbound \in Seq(Inbound) /\ Len(inbound) <= MaxMessages /\ retrieved \in Seq(Items)
  /\ tools \in ToolCosts /\ usable \in Budgets
  /\ plan = NoPlan \/ PlanFor(plan, inbound, tools, usable)

(* Whatever is received and retrieved, both planners return such an outcome. *)
LEMMA PlannersGood ==
  ASSUME NEW ms \in Seq(Inbound), Len(ms) <= MaxMessages, NEW list \in Seq(Items),
         NEW cost \in Nat, NEW budget \in Int
  PROVE  \E h, r, t :
            /\ h = separate_current_request(ms).history
            /\ r = separate_current_request(ms).request
            /\ Splits(ms, h, r, t)
            /\ \A reserved \in Nat : Good(plan_context(h, r, cost, budget, reserved),
                                          segment_messages(h), CurrentRequest(r), cost, budget)
            /\ Good(build(h, r, list, cost, budget),
                    segment_messages(h), CurrentRequest(r), cost, budget)
<1> DEFINE h == separate_current_request(ms).history
           r == separate_current_request(ms).request
           u == segment_messages(h)
<1>1. PICK t : Splits(ms, h, r, t)
  BY Separated
<1> HIDE DEF h, r
<1>2. h \in Seq(Inbound) /\ r \in Seq(Inbound) /\ Len(h) <= Len(ms)
  BY <1>1, SplitTypes
<1>3. Hold(u, Instructions(h), Others(h))
  BY <1>2, Segmented
<1>4. u \in Seq(PlainUnit) /\ Keyed(u)
  BY <1>3 DEF Hold
<1>5. Len(u) <= MaxMessages
  <2> HIDE DEF u
  <2>1. Len(u) <= Len(h)
    BY <1>2, <1>3, SegmentLength
  <2>2. Len(u) \in Nat /\ Len(h) \in Nat /\ Len(ms) \in Nat /\ MaxMessages \in Nat
    BY <1>2, <1>4, ContextAssumption
  <2>3. QED
    BY <1>2, <2>1, <2>2
<1>6. \A reserved \in Nat : Good(plan_context(h, r, cost, budget, reserved), u, CurrentRequest(r), cost, budget)
  BY <1>2, <1>4, WindowGood
<1>7. Good(build(h, r, list, cost, budget), u, CurrentRequest(r), cost, budget)
  BY <1>2, <1>4, <1>5, EngineGood
<1>8. QED
  BY <1>1, <1>6, <1>7 DEF h, r

(* The types of the inputs. *)
LEMMA InputTypes ==
  ASSUME tools \in ToolCosts, usable \in Budgets
  PROVE  tools \in Nat /\ usable \in Int /\ Reserved \in Nat
BY ContextAssumption

(* The inductive invariant: whatever was received, retrieved and allowed, a  *)
(* plan is an outcome for a split of the inbound messages into history and   *)
(* current request.                                                          *)
THEOREM Invariant == Spec => []IInv
<1>1. Init => IInv
  BY ContextAssumption DEF Init, IInv
<1>2. IInv /\ [Next]_vars => IInv'
  <2> SUFFICES ASSUME IInv, [Next]_vars PROVE IInv'
    OBVIOUS
  <2>0. MaxMessages \in Nat
    BY ContextAssumption
  <2>1. ASSUME NEW m \in Inbound, Receive(m) PROVE IInv'
    <3>1. inbound' = Append(inbound, m) /\ Len(inbound) < MaxMessages /\ plan = NoPlan
          /\ UNCHANGED <<retrieved, tools, usable, plan>> /\ inbound \in Seq(Inbound)
      BY <2>1 DEF Receive, IInv
    <3>2. inbound' \in Seq(Inbound) /\ Len(inbound') = Len(inbound) + 1 /\ Len(inbound) \in Nat
      BY <3>1
    <3>3. Len(inbound') <= MaxMessages
      BY <2>0, <3>1, <3>2
    <3>4. QED
      BY <3>1, <3>2, <3>3 DEF IInv
  <2>2. ASSUME NEW i \in Items, Retrieve(i) PROVE IInv'
    BY <2>2 DEF Retrieve, IInv
  <2>3. CASE PlanWindow
    <3>1. tools \in Nat /\ usable \in Int /\ Reserved \in Nat
      BY InputTypes DEF IInv
    <3>2. plan' = plan_context(separate_current_request(inbound).history,
                               separate_current_request(inbound).request, tools, usable, Reserved)
          /\ UNCHANGED <<inbound, retrieved, tools, usable>>
      BY <2>3 DEF PlanWindow
    <3>3. inbound \in Seq(Inbound) /\ Len(inbound) <= MaxMessages /\ retrieved \in Seq(Items)
      BY DEF IInv
    <3>4. PICK h, r, t :
             /\ h = separate_current_request(inbound).history
             /\ r = separate_current_request(inbound).request
             /\ Splits(inbound, h, r, t)
             /\ \A reserved \in Nat : Good(plan_context(h, r, tools, usable, reserved),
                                           segment_messages(h), CurrentRequest(r), tools, usable)
      BY <3>1, <3>3, PlannersGood
    <3>5. Good(plan', segment_messages(h), CurrentRequest(r), tools, usable)
      BY <3>1, <3>2, <3>4
    <3>6. PlanFor(plan', inbound, tools, usable)
      BY <3>4, <3>5 DEF PlanFor
    <3>7. QED
      BY <3>2, <3>6 DEF IInv
  <2>4. CASE Assemble
    <3>1. tools \in Nat /\ usable \in Int
      BY InputTypes DEF IInv
    <3>2. plan' = build(separate_current_request(inbound).history,
                        separate_current_request(inbound).request, retrieved, tools, usable)
          /\ UNCHANGED <<inbound, retrieved, tools, usable>>
      BY <2>4 DEF Assemble
    <3>3. inbound \in Seq(Inbound) /\ Len(inbound) <= MaxMessages /\ retrieved \in Seq(Items)
      BY DEF IInv
    <3>4. PICK h, r, t :
             /\ h = separate_current_request(inbound).history
             /\ r = separate_current_request(inbound).request
             /\ Splits(inbound, h, r, t)
             /\ Good(build(h, r, retrieved, tools, usable),
                     segment_messages(h), CurrentRequest(r), tools, usable)
      BY <3>1, <3>3, PlannersGood
    <3>5. Good(plan', segment_messages(h), CurrentRequest(r), tools, usable)
      BY <3>2, <3>4
    <3>6. PlanFor(plan', inbound, tools, usable)
      BY <3>4, <3>5 DEF PlanFor
    <3>7. QED
      BY <3>2, <3>6 DEF IInv
  <2>5. CASE Forget
    BY <2>0, <2>5 DEF Forget, IInv
  <2>6. CASE UNCHANGED vars
    BY <2>6 DEF vars, IInv
  <2>7. QED
    BY <2>1, <2>2, <2>3, <2>4, <2>5, <2>6 DEF Next
<1>3. QED
  BY <1>1, <1>2, PTL DEF Spec

-----------------------------------------------------------------------------
(* The budget. *)

(* What has to fit is what BudgetKept calls mandatory. *)
LEMMA PlanMandatory ==
  ASSUME NEW ms, NEW h, NEW r, NEW t, Splits(ms, h, r, t), NEW cost \in Nat, NEW reserved \in Nat
  PROVE  /\ Fixed(segment_messages(h), CurrentRequest(r), cost, reserved)
              = Tokens(Instructions(Earlier(ms))) + Tokens(FromLastUser(ms)) + cost + reserved
         /\ Fixed(segment_messages(h), CurrentRequest(r), cost, reserved) \in Int
<1>1. Total(OfKinds(segment_messages(h), System)) + Total(CurrentRequest(r)) = Needed(ms)
      /\ Hold(segment_messages(h), Instructions(h), Others(h))
  BY MandatoryIs
<1>2. segment_messages(h) \in Seq(PlainUnit)
  BY <1>1 DEF Hold
<1>3. r \in Seq(Inbound)
  BY DEF Splits
<1>4. CurrentRequest(r) \in Seq(AnyUnit)
  BY <1>3, CurrentIs
<1>5. Fixed(segment_messages(h), CurrentRequest(r), cost, reserved) \in Nat
  BY <1>2, <1>4, FixedType, Zenon
<1>6. QED
  BY <1>1, <1>5 DEF Fixed, Needed

(* Both planners keep the budget, refuse exactly the payloads whose          *)
(* instructions, request, tools and reserve do not fit, and the final check  *)
(* of the plan in the planners never fails, for every payload, budget and    *)
(* retrieval.                                                                *)
THEOREM BudgetCorrect == Spec => []BudgetKept
<1>1. IInv => BudgetKept
  <2> SUFFICES ASSUME IInv, plan # NoPlan
               PROVE  /\ plan.status = (IF Mandatory > usable THEN "overflow" ELSE "planned")
                      /\ plan.status = "planned" => Total(plan.ordered) + tools + plan.reserved <= usable
    BY DEF BudgetKept
  <2>1. tools \in Nat /\ usable \in Int
    BY InputTypes DEF IInv
  <2>2. PICK h, r, t : /\ Splits(inbound, h, r, t)
                       /\ Good(plan, segment_messages(h), CurrentRequest(r), tools, usable)
    BY DEF IInv, PlanFor
  <2> DEFINE u == segment_messages(h)
             c == CurrentRequest(r)
             need == Fixed(u, c, tools, plan.reserved)
  <2>3. plan.reserved \in Nat
    BY <2>2 DEF Good
  <2>4. need = Mandatory /\ need \in Int
    BY <2>1, <2>2, <2>3, PlanMandatory DEF Mandatory
  <2>5. CASE Overflows(plan, u, c, tools, usable)
    BY <2>4, <2>5 DEF Overflows
  <2>6. CASE \E X, k : Plans(plan, X, u, c, k, tools, usable)
    <3>1. need <= usable /\ plan.status = "planned"
          /\ Total(plan.ordered) + tools + plan.reserved <= usable
      BY <2>6 DEF Plans
    <3> HIDE DEF need
    <3>2. ~(Mandatory > usable)
      BY <2>1, <2>4, <3>1
    <3>3. QED
      BY <3>1, <3>2
  <2>7. QED
    BY <2>2, <2>5, <2>6 DEF Good
<1>2. QED
  BY <1>1, Invariant, PTL

-----------------------------------------------------------------------------
(* Types and keys. *)

(* What is sent, with the request at the end, has distinct keys. *)
LEMMA SentKeys ==
  ASSUME NEW X \in Seq(Sendable), DistinctKeys(X), PositiveKeys(X), NEW r \in Seq(Inbound)
  PROVE  /\ X \o CurrentRequest(r) \in Seq(AnyUnit)
         /\ DistinctKeys(X \o CurrentRequest(r))
<1> DEFINE c == CurrentRequest(r)
<1>1. X \in Seq(AnyUnit)
  BY SendableIsAny
<1>2. c \in Seq(AnyUnit)
  BY CurrentIs
<1>3. Len(c) \in {0, 1} /\ \A n \in 1 .. Len(c) : c[n].key = 0
  BY RequestKind
<1> HIDE DEF c
<1>4. DistinctKeys(c)
  BY <1>3 DEF DistinctKeys
<1>5. Apart(X, c)
  <2>1. \A i \in 1 .. Len(X) : X[i].key # 0
    <3> TAKE i \in 1 .. Len(X)
    <3>1. X[i].key \in Int
      BY <1>1, UnitFields
    <3>2. QED
      BY <3>1 DEF PositiveKeys
  <2>2. QED
    BY <1>3, <2>1 DEF Apart
<1>6. DistinctKeys(X \o c) /\ X \o c \in Seq(AnyUnit)
  BY <1>1, <1>2, <1>4, <1>5, KeysConcat
<1>7. QED
  BY <1>6 DEF c

(* The types of the variables, and no unit is sent twice: the units of a     *)
(* plan have distinct keys, for every payload and every retrieval that       *)
(* mmr_select and the packing of blocks go through.                          *)
THEOREM PlanTypeCorrect == Spec => []TypeOK
<1>1. IInv => TypeOK
  <2> SUFFICES ASSUME IInv PROVE TypeOK
    OBVIOUS
  <2> DEFINE Rest == /\ plan.status \in {"none", "overflow", "broken", "planned"}
                     /\ plan.ordered \in Seq(AnyUnit) /\ DistinctKeys(plan.ordered)
  <2>1. CASE plan = NoPlan
    <3>1. plan.status = "none" /\ plan.ordered = << >>
      BY <2>1, OutcomeFields DEF NoPlan
    <3>2. Rest
      BY <3>1 DEF DistinctKeys
    <3>3. QED
      BY <3>1, <3>2 DEF TypeOK, IInv
  <2>2. CASE plan # NoPlan
    <3>1. PICK h, r, t : /\ Splits(inbound, h, r, t)
                         /\ Good(plan, segment_messages(h), CurrentRequest(r), tools, usable)
      BY <2>2 DEF IInv, PlanFor
    <3>2. r \in Seq(Inbound)
      BY <3>1 DEF Splits
    <3> DEFINE u == segment_messages(h)
               c == CurrentRequest(r)
    <3>3. CASE Overflows(plan, u, c, tools, usable)
      <4>1. plan.status = "overflow" /\ plan.ordered = << >>
        BY <3>3 DEF Overflows
      <4>2. QED
        BY <4>1 DEF TypeOK, IInv
    <3>4. ASSUME NEW X, NEW k, Plans(plan, X, u, c, k, tools, usable) PROVE TypeOK
      <4>1. plan.status = "planned" /\ plan.ordered = X \o c
            /\ X \in Seq(Sendable) /\ DistinctKeys(X) /\ PositiveKeys(X)
        BY <3>4 DEF Plans, Chosen
      <4>2. plan.ordered \in Seq(AnyUnit) /\ DistinctKeys(plan.ordered)
        BY <3>2, <4>1, SentKeys
      <4> DEFINE o == plan.ordered
      <4>3. DOMAIN o = 1 .. Len(o) /\ \A n \in DOMAIN o : o[n].kind \in Kinds
        BY <4>2, UnitFields
      <4>4. QED
        BY <4>1, <4>2, <4>3 DEF TypeOK, IInv, DistinctKeys, Kinds
    <3>5. QED
      BY <3>1, <3>3, <3>4 DEF Good
  <2>3. QED
    BY <2>1, <2>2
<1>2. QED
  BY <1>1, Invariant, PTL

-----------------------------------------------------------------------------
(* The two planners. *)

(* The units of a kind, from those of several kinds. *)
LEMMA KindWithin ==
  ASSUME NEW s \in Seq(AnyUnit), NEW K, NEW kind \in K
  PROVE  OfKinds(s, {kind}) = OfKinds(OfKinds(s, K), {kind})
<1> DEFINE S == KindSet(K)
           T == KindSet({kind})
           a == OfKinds(s, K)
<1>1. a = Only(s, S) /\ OfKinds(s, {kind}) = Only(s, T)
  BY OfKindsOnly
<1>2. a \in Seq(AnyUnit)
  BY <1>1, OnlyType
<1>3. OfKinds(a, {kind}) = Only(a, T)
  <2> HIDE DEF a
  <2> QED
    BY <1>2, OfKindsOnly
<1>4. S \cap T = T
  BY DEF KindSet
<1>5. Only(Only(s, S), T) = Only(s, S \cap T)
  <2> HIDE DEF S, T
  <2> QED
    BY OnlyTwice
<1>6. QED
  BY <1>1, <1>3, <1>4, <1>5, Zenon

(* The units of one kind in a plan. *)
LEMMA KindsSent ==
  ASSUME NEW X, NEW u, NEW w, Chosen(X, u, w), NEW r \in Seq(Inbound),
         NEW kind \in {"system", "turn", "prefill", "request"}
  PROVE  OfKinds(X \o CurrentRequest(r), {kind})
           = (IF kind = "system" THEN OfKinds(u, System)
              ELSE IF kind = "request" THEN << >> ELSE OfKinds(w, {kind}))
             \o OfKinds(CurrentRequest(r), {kind})
<1> DEFINE c == CurrentRequest(r)
<1>1. X \in Seq(AnyUnit) /\ X \in Seq(Sendable) /\ OfKinds(X, System) = OfKinds(u, System)
      /\ OfKinds(X, History) = w
  BY SendableIsAny DEF Chosen
<1>2. c \in Seq(AnyUnit)
  BY CurrentIs
<1> HIDE DEF c
<1>3. OfKinds(X \o c, {kind}) = OfKinds(X, {kind}) \o OfKinds(c, {kind})
  BY <1>1, <1>2, KindsConcat, Zenon
<1>4. CASE kind = "system"
  <2>1. {kind} = System
    BY <1>4 DEF System
  <2>2. QED
    BY <1>1, <1>3, <1>4, <2>1, Zenon DEF c
<1>5. CASE kind = "request"
  <2> DEFINE K == {"system", "turn", "prefill", "retrieved"}
  <2>1. Sendable \subseteq KindSet(K)
    BY SendableIsAny, Zenon DEF Sendable, PlainUnit, Block, KindSet
  <2>2. X \in Seq(KindSet(K)) /\ K \cap {kind} = {}
    BY <1>1, <1>5, <2>1
  <2> HIDE DEF K
  <2>3. OfKinds(X, {kind}) = << >>
    BY <2>2, NoneOfKind
  <2>4. QED
    BY <1>3, <1>5, <2>3, Zenon DEF c
<1>6. CASE kind \in History
  <2>1. OfKinds(X, {kind}) = OfKinds(OfKinds(X, History), {kind})
    BY <1>1, <1>6, KindWithin
  <2>2. kind # "system" /\ kind # "request"
    BY <1>6 DEF History
  <2>3. QED
    BY <1>1, <1>3, <2>1, <2>2, Zenon DEF c
<1>7. QED
  BY <1>4, <1>5, <1>6, Zenon DEF History

(* The planners report what was reserved. *)
LEMMA ReservedIs ==
  ASSUME NEW h, NEW r, NEW list, NEW cost, NEW budget, NEW reserved
  PROVE  /\ plan_context(h, r, cost, budget, reserved).reserved = reserved
         /\ build(h, r, list, cost, budget).reserved = 0
<1>1. Overflow(reserved).reserved = reserved /\ Overflow(0).reserved = 0
  BY OutcomeFields DEF Overflow
<1>2. \A o, x : Checked(o, cost, budget, x).reserved = x
  BY OutcomeFields DEF Checked
<1>3. \A o : make_plan(o, cost, budget).reserved = 0
  BY <1>2, OutcomeFields DEF make_plan
<1>4. QED
  BY <1>1, <1>2, <1>3, Zenon DEF plan_context, build, Allocate

(* plan_context, which drops the oldest units until the rest fits, and the   *)
(* engine's build, which takes the newest until one does not fit, keep the   *)
(* same history for every payload, budget and retrieval.                     *)
THEOREM AgreementCorrect == Spec => []PlannersAgree
<1>1. IInv => PlannersAgree
  <2> SUFFICES ASSUME IInv PROVE PlannersAgree
    OBVIOUS
  <2>1. tools \in Nat /\ usable \in Int /\ 0 \in Nat
    BY InputTypes DEF IInv
  <2>2. inbound \in Seq(Inbound) /\ Len(inbound) <= MaxMessages /\ retrieved \in Seq(Items)
    BY DEF IInv
  <2>3. PICK h, r, t :
           /\ h = separate_current_request(inbound).history
           /\ r = separate_current_request(inbound).request
           /\ Splits(inbound, h, r, t)
           /\ \A reserved \in Nat : Good(plan_context(h, r, tools, usable, reserved),
                                         segment_messages(h), CurrentRequest(r), tools, usable)
           /\ Good(build(h, r, retrieved, tools, usable),
                   segment_messages(h), CurrentRequest(r), tools, usable)
    BY <2>1, <2>2, PlannersGood
  <2> DEFINE u == segment_messages(h)
             c == CurrentRequest(r)
             e == build(h, r, retrieved, tools, usable)
             w == plan_context(h, r, tools, usable, 0)
             H == OfKinds(u, History)
             need == Fixed(u, c, tools, 0)
  <2>4. e.reserved = 0 /\ w.reserved = 0
    BY ReservedIs
  <2>5. Good(e, u, c, tools, usable) /\ Good(w, u, c, tools, usable)
    BY <2>1, <2>3
  <2>6. r \in Seq(Inbound) /\ u \in Seq(PlainUnit)
    <3>1. Hold(u, Instructions(h), Others(h))
      BY <2>3, MandatoryIs
    <3>2. QED
      BY <2>3, <3>1, Zenon DEF Splits, Hold
  <2>7. H \in Seq(AnyUnit)
    <3>1. H \in Seq(PlainUnit)
      BY <2>6, KindsOfPlain
    <3>2. QED
      BY <3>1, PlainIsAny
  <2>8. need \in Int
    <3>1. c \in Seq(AnyUnit)
      BY <2>6, CurrentIs
    <3>2. QED
      BY <2>1, <2>6, <3>1, FixedType
  <2> HIDE DEF e, w, u, c
  <2> DEFINE Same == /\ e.status = w.status
                     /\ \A kind \in {"system", "turn", "prefill", "request"} :
                          OfKinds(e.ordered, {kind}) = OfKinds(w.ordered, {kind})
  <2>9. Same
    <3>1. CASE need > usable
      <4>1. ~(need <= usable)
        BY <2>1, <2>8, <3>1
      <4>2. Overflows(e, u, c, tools, usable) /\ Overflows(w, u, c, tools, usable)
        BY <2>4, <2>5, <4>1 DEF Good, Plans
      <4>3. QED
        BY <4>2 DEF Overflows
    <3>2. CASE ~(need > usable)
      <4>1. PICK X, j : Plans(e, X, u, c, j, tools, usable)
        BY <2>4, <2>5, <3>2 DEF Good, Overflows
      <4>2. PICK Y, k : Plans(w, Y, u, c, k, tools, usable)
        BY <2>4, <2>5, <3>2 DEF Good, Overflows
      <4>3. Longest(H, j, usable - need) /\ Longest(H, k, usable - need)
        BY <2>4, <4>1, <4>2, Zenon DEF Plans
      <4>4. usable - need \in Int
        BY <2>1, <2>8
      <4> DEFINE room == usable - need
      <4> HIDE DEF room, H
      <4>5. j = k
        <5>1. Longest(H, j, room) /\ Longest(H, k, room) /\ room \in Int
          BY <4>3, <4>4 DEF room
        <5>2. QED
          BY <2>7, <5>1, LongestOnce
      <4> DEFINE v == After(H, k)
      <4>6. Chosen(X, u, v) /\ Chosen(Y, u, v) /\ e.ordered = X \o c /\ w.ordered = Y \o c
            /\ e.status = "planned" /\ w.status = "planned"
        BY <4>1, <4>2, <4>5, Zenon DEF Plans, H
      <4> HIDE DEF v
      <4>7. ASSUME NEW kind \in {"system", "turn", "prefill", "request"}
            PROVE  OfKinds(X \o c, {kind}) = OfKinds(Y \o c, {kind})
        <5> DEFINE z == (IF kind = "system" THEN OfKinds(u, System)
                         ELSE IF kind = "request" THEN << >> ELSE OfKinds(v, {kind}))
                        \o OfKinds(c, {kind})
        <5>1. OfKinds(X \o c, {kind}) = z
          BY <2>6, <4>6, KindsSent, Zenon DEF c
        <5>2. OfKinds(Y \o c, {kind}) = z
          BY <2>6, <4>6, KindsSent, Zenon DEF c
        <5> HIDE DEF z
        <5>3. QED
          BY <5>1, <5>2
      <4>8. QED
        BY <4>6, <4>7, Zenon
    <3>3. QED
      BY <3>1, <3>2
  <2>10. QED
    BY <2>3, <2>9 DEF PlannersAgree, e, w
<1>2. QED
  BY <1>1, Invariant, PTL

-----------------------------------------------------------------------------
(* The request and the instructions. *)

(* Occurrences in two lists add up. *)
LEMMA CountConcat ==
  ASSUME NEW a \in Seq(AnyMessage), NEW b \in Seq(AnyMessage), NEW m
  PROVE  Count(m, a \o b) = Count(m, a) + Count(m, b) /\ Count(m, a) \in Nat
<1> DEFINE x == Only(a, {m})
           y == Only(b, {m})
<1>1. Only(a \o b, {m}) = x \o y
  BY OnlyConcat
<1>2. x \in Seq(AnyMessage) /\ y \in Seq(AnyMessage)
  BY OnlyType
<1>3. Count(m, a \o b) = Len(x \o y) /\ Count(m, a) = Len(x) /\ Count(m, b) = Len(y)
  BY <1>1 DEF Count
<1> HIDE DEF x, y
<1>4. Len(x \o y) = Len(x) + Len(y) /\ Len(x) \in Nat
  BY <1>2
<1>5. QED
  BY <1>3, <1>4

(* A unit holds instructions or none. *)
LEMMA UnitMessages ==
  ASSUME NEW x \in Sendable
  PROVE  /\ x.kind = "system" => x.messages \in Seq(SystemSet)
         /\ x.kind # "system" => x.messages \in Seq(OtherSet)
<1> DEFINE ms == x.messages
<1>1. Orders \subseteq SystemSet /\ Asks \subseteq OtherSet /\ Answers \subseteq OtherSet
  BY InboundIsAny DEF Orders, Asks, Answers, SystemSet, OtherSet
<1>2. CASE x \in Block
  <2>1. x.kind # "system" /\ ms = <<[role |-> "user", text |-> "retrieved"]>>
    BY <1>2 DEF Block
  <2>2. [role |-> "user", text |-> "retrieved"] \in OtherSet
    BY DEF OtherSet, AnyMessage
  <2>3. QED
    BY <2>1, <2>2
<1>3. CASE x \in PlainUnit
  <2>1. CASE x.kind = "system"
    BY <1>1, <1>3, <2>1 DEF PlainUnit
  <2>2. CASE x.kind = "prefill"
    BY <1>1, <1>3, <2>2 DEF PlainUnit
  <2>3. CASE x.kind = "turn"
    <3>1. TurnForm(ms)
      BY <1>3, <2>3 DEF PlainUnit
    <3> HIDE DEF ms
    <3>2. ms \in Seq(Inbound) /\ ms[1] \in Asks /\ \A i \in 2 .. Len(ms) : ms[i] \in Answers
      BY <3>1 DEF TurnForm
    <3>3. \A i \in 1 .. Len(ms) : ms[i] \in OtherSet
      BY <1>1, <3>2
    <3>4. ms \in Seq(OtherSet)
      BY <3>2, <3>3
    <3>5. QED
      BY <2>3, <3>4 DEF ms
  <2>4. QED
    BY <1>3, <2>1, <2>2, <2>3 DEF PlainUnit
<1>4. QED
  BY <1>2, <1>3 DEF Sendable

(* The instructions that are sent are those of the instruction units. *)
LEMMA SentInstructions ==
  ASSUME NEW X \in Seq(Sendable)
  PROVE  Only(Rendered(X), SystemSet) = Rendered(OfKinds(X, System))
<1> DEFINE P == {s \in Seq(Sendable) : Only(Rendered(s), SystemSet) = Rendered(OfKinds(s, System))}
<1>1. << >> \in P
  <2>1. << >> \in Seq(Sendable) /\ << >> \in Seq(AnyUnit) /\ << >> \in Seq(AnyMessage)
    BY EmptyList
  <2>2. Rendered(<< >>) = << >> /\ OfKinds(<< >>, System) = << >> /\ Only(<< >>, SystemSet) = << >>
    BY <2>1, RenderedType, NoUnits, OnlyType, Zenon
  <2>3. QED
    BY <2>1, <2>2
<1>2. ASSUME NEW s \in Seq(Sendable), NEW x \in Sendable, s \in P
      PROVE  Append(s, x) \in P
  <2>0. s \in Seq(AnyUnit) /\ x \in AnyUnit
    BY SendableIsAny
  <2> DEFINE d == Append(s, x)
             a == Rendered(s)
             b == x.messages
             o == Rendered(OfKinds(s, System))
  <2>1. Rendered(d) = a \o b
    BY <2>0, RenderedAppend
  <2>2. a \in Seq(AnyMessage) /\ b \in Seq(AnyMessage)
    BY <2>0, RenderedType, UnitFields
  <2>3. /\ x.kind \in System => Rendered(OfKinds(d, System)) = o \o b
        /\ x.kind \notin System => Rendered(OfKinds(d, System)) = o
        /\ o \in Seq(AnyMessage)
    BY <2>0, OneMoreRendered
  <2>4. Only(a, SystemSet) = o
    BY <1>2
  <2>5. /\ x.kind = "system" => b \in Seq(SystemSet)
        /\ x.kind # "system" => b \in Seq(OtherSet)
    BY UnitMessages
  <2>6. d \in Seq(Sendable)
    OBVIOUS
  <2> HIDE DEF a, b, o, d
  <2>7. Only(a \o b, SystemSet) = Only(a, SystemSet) \o Only(b, SystemSet)
    BY <2>2, OnlyConcat
  <2>8. CASE x.kind = "system"
    <3>1. b \in Seq(SystemSet)
      BY <2>5, <2>8
    <3>2. Only(b, SystemSet) = b
      BY <3>1, OnlyAll
    <3>3. Only(Rendered(d), SystemSet) = Rendered(OfKinds(d, System))
      BY <2>1, <2>3, <2>4, <2>7, <2>8, <3>2 DEF System
    <3>4. QED
      BY <2>6, <3>3 DEF d
  <2>9. CASE x.kind # "system"
    <3>1. b \in Seq(OtherSet) /\ \A y \in OtherSet : y \notin SystemSet
      BY <2>5, <2>9 DEF OtherSet, SystemSet
    <3>2. Only(b, SystemSet) = << >>
      BY <3>1, OnlyNone
    <3>3. o \o << >> = o
      BY <2>3, ConcatEmpty
    <3>4. Only(Rendered(d), SystemSet) = Rendered(OfKinds(d, System))
      BY <2>1, <2>3, <2>4, <2>7, <2>9, <3>2, <3>3 DEF System
    <3>5. QED
      BY <2>6, <3>4 DEF d
  <2>10. QED
    BY <2>8, <2>9
<1> HIDE DEF P
<1>3. X \in P
  <2>1. \A s \in Seq(Sendable) : s \in P
    BY <1>1, <1>2, ListInduction
  <2>2. QED
    BY <2>1
<1>4. QED
  BY <1>3 DEF P

(* Counting an instruction looks at instructions only. *)
LEMMA CountInstruction ==
  ASSUME NEW s \in Seq(AnyMessage), NEW m \in SystemSet
  PROVE  Count(m, s) = Count(m, Only(s, SystemSet))
<1>1. SystemSet \cap {m} = {m}
  OBVIOUS
<1>2. Only(Only(s, SystemSet), {m}) = Only(s, SystemSet \cap {m})
  BY OnlyTwice
<1>3. QED
  BY <1>1, <1>2, Zenon DEF Count

(* What comes before the request holds every instruction of the history.    *)
LEMMA SameInstructions ==
  ASSUME NEW ms \in Seq(Inbound), NEW h, NEW r, NEW t, Splits(ms, h, r, t),
         NEW X, NEW w, Chosen(X, segment_messages(h), w), NEW m \in SystemSet
  PROVE  Count(m, Rendered(X) \o r) = Count(m, ms)
<1> DEFINE u == segment_messages(h)
           p == Rendered(X)
           e == Earlier(ms)
           f == r \o t
<1>1. X \in Seq(Sendable) /\ OfKinds(X, System) = OfKinds(u, System)
  BY DEF Chosen
<1>2. p \in Seq(AnyMessage)
  BY <1>1, SendableIsAny, RenderedType
<1>3. Hold(u, Instructions(h), Others(h))
  BY MandatoryIs
<1>4. Only(p, SystemSet) = Instructions(h)
  BY <1>1, <1>3, SentInstructions DEF Hold
<1>5. t \in Seq(Orders) /\ r \in Seq(Inbound) /\ e \in Seq(Inbound) /\ h = e \o t
      /\ ms = e \o f
  BY DEF Splits
<1>6. t \in Seq(Inbound)
  BY <1>5, OrdersParts
<1>7. h \in Seq(AnyMessage) /\ e \in Seq(AnyMessage) /\ t \in Seq(AnyMessage)
      /\ r \in Seq(AnyMessage)
  BY <1>5, <1>6, InboundIsAny
<1>8. Instructions(h) = Only(h, SystemSet)
  BY <1>7, InstructionsOnly
<1> HIDE DEF p, e
<1>9. Count(m, p) = Count(m, h)
  BY <1>2, <1>4, <1>7, <1>8, CountInstruction
<1>10. Count(m, e \o t) = Count(m, e) + Count(m, t) /\ Count(m, e) \in Nat /\ Count(m, t) \in Nat
  BY <1>7, CountConcat
<1>11. Count(m, r \o t) = Count(m, r) + Count(m, t) /\ Count(m, r) \in Nat /\ f \in Seq(AnyMessage)
  BY <1>7, CountConcat
<1> HIDE DEF f
<1>12. Count(m, e \o f) = Count(m, e) + Count(m, f)
  BY <1>7, <1>11, CountConcat
<1>13. Count(m, p \o r) = Count(m, p) + Count(m, r)
  BY <1>2, <1>7, CountConcat
<1>14. Count(m, ms) = Count(m, e) + (Count(m, r) + Count(m, t))
  BY <1>5, <1>11, <1>12 DEF f
<1>15. Count(m, p \o r) = (Count(m, e) + Count(m, t)) + Count(m, r)
  BY <1>5, <1>9, <1>10, <1>13
<1>16. Count(m, p \o r) = Count(m, ms)
  BY <1>10, <1>11, <1>14, <1>15
<1>17. QED
  BY <1>16 DEF p

(* The request is found at the end of what is sent. *)
LEMMA RequestFound ==
  ASSUME NEW p \in Seq(AnyMessage), NEW r \in Seq(Inbound), RequestForm(r)
  PROVE  FromLastUser(p \o r) = r /\ (p \o r)[Len(p \o r)].role # "system"
<1> DEFINE s == p \o r
<1> PICK A \in Nat : A = Len(p)
  OBVIOUS
<1> PICK B \in Nat : B = Len(r)
  OBVIOUS
<1>0. r \in Seq(AnyMessage)
  BY InboundIsAny
<1>1. s \in Seq(AnyMessage) /\ Len(s) = Len(p) + Len(r)
      /\ \A n \in 1 .. Len(r) : s[Len(p) + n] = r[n]
  BY <1>0, ConcatElements
<1>2. After(s, Len(p)) = r
  BY <1>0, AfterConcat
<1> HIDE DEF s
<1>3. Len(s) = A + B /\ (\A n \in 1 .. B : s[A + n] = r[n]) /\ B \in 1 .. B
  <2>1. B # 0
    BY DEF RequestForm
  <2>2. QED
    BY <1>1, <2>1
<1>4. s[A + 1].role = "user"
  <2>1. s[A + 1] = r[1]
    BY <1>3
  <2>2. QED
    BY <2>1 DEF RequestForm, Asks
<1>5. ASSUME NEW i \in (A + 1) + 1 .. Len(s) PROVE s[i].role # "user"
  <2>1. i - A \in 2 .. B /\ A + (i - A) = i
    BY <1>3
  <2> PICK n \in 2 .. B : A + n = i
    BY <2>1, Zenon
  <2>2. s[i] = r[n] /\ r[n] \in Inbound /\ r[n] \notin Asks
    BY <1>3 DEF RequestForm
  <2>3. QED
    BY <2>2 DEF Asks
<1>6. LastUser(s) = A + 1
  <2>1. A + 1 \in 1 .. Len(s)
    BY <1>3
  <2>2. QED
    BY <1>1, <1>4, <1>5, <2>1, LastUserIs, Zenon
<1>7. FromLastUser(s) = r
  <2>1. LastUser(s) # 0 /\ LastUser(s) = Len(p) + 1
    BY <1>6
  <2>2. FromLastUser(s) = SubSeq(s, Len(p) + 1, Len(s))
    BY <2>1 DEF FromLastUser
  <2>3. QED
    BY <1>2, <2>2, Zenon DEF After
<1>8. s[Len(s)].role # "system"
  <2>1. s[Len(s)] = r[B] /\ r[B] \in Inbound /\ r[B] \notin Orders
    BY <1>3 DEF RequestForm
  <2>2. QED
    BY <2>1 DEF Orders
<1>9. QED
  BY <1>7, <1>8, Zenon DEF s

(* In the payload that is sent no instruction is lost or duplicated, and the *)
(* current request is last and complete, for every payload, budget and       *)
(* retrieval.                                                                *)
THEOREM RequestCorrect == Spec => []RequestLast
<1>1. IInv => RequestLast
  <2> DEFINE sent == Rendered(plan.ordered)
  <2> SUFFICES ASSUME IInv, plan.status = "planned"
               PROVE  /\ \A m \in Range(inbound) :
                           m.role = "system" => Count(m, sent) = Count(m, inbound)
                      /\ LastUser(inbound) # 0 =>
                           /\ Others(FromLastUser(sent)) = Others(FromLastUser(inbound))
                           /\ sent[Len(sent)].role # "system"
    BY DEF RequestLast
  <2>1. plan # NoPlan
    BY OutcomeFields DEF NoPlan
  <2>2. PICK h, r, t : /\ Splits(inbound, h, r, t)
                       /\ Good(plan, segment_messages(h), CurrentRequest(r), tools, usable)
    BY <2>1 DEF IInv, PlanFor
  <2> DEFINE u == segment_messages(h)
             c == CurrentRequest(r)
  <2>3. PICK X, k : Plans(plan, X, u, c, k, tools, usable)
    BY <2>2 DEF Good, Overflows
  <2>4. plan.ordered = X \o c /\ Chosen(X, u, After(OfKinds(u, History), k))
        /\ X \in Seq(Sendable)
    BY <2>3 DEF Plans, Chosen
  <2>5. r \in Seq(Inbound) /\ inbound \in Seq(Inbound)
    BY <2>2 DEF Splits, IInv
  <2> DEFINE p == Rendered(X)
  <2>6. sent = p \o r /\ p \in Seq(AnyMessage)
    <3>1. c \in Seq(AnyUnit) /\ Rendered(c) = r
      BY <2>5, CurrentIs
    <3>2. X \in Seq(AnyUnit)
      BY <2>4, SendableIsAny
    <3> HIDE DEF c
    <3>3. Rendered(X \o c) = Rendered(X) \o Rendered(c) /\ Rendered(X) \in Seq(AnyMessage)
      BY <3>1, <3>2, RenderedConcat, RenderedType, Zenon
    <3>4. QED
      BY <2>4, <3>1, <3>3
  <2> HIDE DEF sent
  <2>7. ASSUME NEW m \in Range(inbound), m.role = "system"
        PROVE  Count(m, sent) = Count(m, inbound)
    <3>1. m \in SystemSet
      BY <2>5, <2>7, InboundIsAny DEF Range, SystemSet
    <3>2. Count(m, Rendered(X) \o r) = Count(m, inbound)
      BY <2>2, <2>4, <2>5, <3>1, SameInstructions
    <3>3. QED
      BY <2>6, <3>2
  <2>8. ASSUME LastUser(inbound) # 0
        PROVE  /\ Others(FromLastUser(sent)) = Others(FromLastUser(inbound))
               /\ sent[Len(sent)].role # "system"
    <3>1. RequestForm(r) /\ FromLastUser(inbound) = r \o t /\ t \in Seq(Orders)
      BY <2>2, <2>8 DEF Splits
    <3>2. t \in Seq(Inbound) /\ Others(t) = << >>
      BY <3>1, OrdersParts
    <3> HIDE DEF p
    <3>3. FromLastUser(p \o r) = r /\ (p \o r)[Len(p \o r)].role # "system"
      BY <2>5, <2>6, <3>1, RequestFound, Zenon
    <3>4. Others(r \o t) = Others(r) \o Others(t) /\ Others(r) \in Seq(Inbound)
      BY <2>5, <3>2, PartsConcat, Zenon
    <3>5. Others(r) \o << >> = Others(r)
      BY <3>4, ConcatEmpty
    <3>6. QED
      BY <2>6, <3>1, <3>2, <3>3, <3>4, <3>5, Zenon
  <2>9. QED
    BY <2>7, <2>8
<1>2. QED
  BY <1>1, Invariant, PTL

-----------------------------------------------------------------------------
(* The history that is kept. *)

(* Choosing among units keeps the prefill before the turns. *)
LEMMA PrefillKept ==
  ASSUME NEW u \in Seq(AnyUnit), PrefillFirst(u), NEW S
  PROVE  PrefillFirst(Only(u, S))
<1> DEFINE P == {r \in Seq(AnyUnit) : PrefillFirst(r) => PrefillFirst(Only(r, S))}
<1>1. << >> \in P
  <2>1. << >> \in Seq(AnyUnit) /\ Only(<< >>, S) = << >>
    BY EmptyList, OnlyType, Zenon
  <2>2. QED
    BY <2>1 DEF PrefillFirst
<1>2. ASSUME NEW r \in Seq(AnyUnit), NEW x \in AnyUnit, r \in P
      PROVE  Append(r, x) \in P
  <2> DEFINE d == Append(r, x)
             a == Only(r, S)
             b == Only(d, S)
             Q == {y \in AnyUnit : y.kind # "turn"}
  <2> SUFFICES ASSUME PrefillFirst(d) PROVE PrefillFirst(b)
    OBVIOUS
  <2> PICK N \in Nat : N = Len(r)
    OBVIOUS
  <2>1. Len(d) = N + 1 /\ d[N + 1] = x /\ \A n \in 1 .. N : d[n] = r[n]
    OBVIOUS
  <2>2. a \in Seq(AnyUnit)
    BY OnlyType
  <2>3. b = a \/ b = Append(a, x)
    BY OnlyAppend
  <2> HIDE DEF d, a, b
  <2>4. PrefillFirst(r)
    BY <2>1 DEF PrefillFirst
  <2>5. PrefillFirst(a)
    BY <1>2, <2>4 DEF a
  <2> PICK M \in Nat : M = Len(a)
    BY <2>2
  <2>6. CASE b = Append(a, x)
    <3>1. Len(b) = M + 1 /\ b[M + 1] = x /\ \A i \in 1 .. M : b[i] = a[i]
      BY <2>2, <2>6
    <3>2. ASSUME x.kind = "prefill" PROVE \A i \in 1 .. M : a[i].kind # "turn"
      <4>1. \A n \in 1 .. N : r[n] \in Q
        <5> TAKE n \in 1 .. N
        <5>1. n < N + 1 /\ n \in 1 .. N + 1 /\ N + 1 \in 1 .. N + 1 /\ d[n] = r[n]
          BY <2>1
        <5>2. d[n].kind # "turn"
          BY <2>1, <3>2, <5>1 DEF PrefillFirst
        <5>3. r[n] \in AnyUnit
          OBVIOUS
        <5>4. QED
          BY <5>1, <5>2, <5>3
      <4>2. \A y \in Q : y.kind # "turn"
        OBVIOUS
      <4> HIDE DEF Q
      <4>3. r \in Seq(Q)
        BY <4>1
      <4>4. a \in Seq(Q)
        BY <4>3, OnlyType DEF a
      <4>5. QED
        BY <4>2, <4>4
    <3>3. ASSUME NEW m \in 1 .. M + 1, NEW n \in 1 .. M + 1, m < n, b[n].kind = "prefill"
          PROVE  b[m].kind # "turn"
      <4>1. CASE n = M + 1
        <5>1. m \in 1 .. M /\ x.kind = "prefill" /\ b[m] = a[m]
          BY <3>1, <3>3, <4>1
        <5>2. QED
          BY <3>2, <5>1
      <4>2. CASE n # M + 1
        <5>1. m \in 1 .. M /\ n \in 1 .. M /\ b[m] = a[m] /\ b[n] = a[n]
          BY <3>1, <3>3, <4>2
        <5>2. QED
          BY <2>5, <3>3, <5>1 DEF PrefillFirst
      <4>3. QED
        BY <4>1, <4>2
    <3>4. QED
      BY <3>1, <3>3 DEF PrefillFirst
  <2>7. QED
    BY <2>3, <2>5, <2>6
<1> HIDE DEF P
<1>3. u \in P
  <2>1. \A r \in Seq(AnyUnit) : r \in P
    BY <1>1, <1>2, ListInduction
  <2>2. QED
    BY <2>1
<1>4. QED
  BY <1>3 DEF P

PrefillUnit == {x \in PlainUnit : x.kind = "prefill"}

(* A prefill holds answers. *)
LEMMA PrefillAnswers ==
  ASSUME NEW s \in Seq(PrefillUnit)
  PROVE  Rendered(s) \in Seq(Answers)
<1> DEFINE P == {r \in Seq(PrefillUnit) : Rendered(r) \in Seq(Answers)}
<1>0. PrefillUnit \subseteq AnyUnit
  BY PlainIsAny DEF PrefillUnit
<1>1. << >> \in P
  <2>1. << >> \in Seq(PrefillUnit) /\ << >> \in Seq(AnyUnit) /\ << >> \in Seq(Answers)
    BY EmptyList
  <2>2. Rendered(<< >>) = << >>
    BY <2>1, RenderedType, Zenon
  <2>3. QED
    BY <2>1, <2>2, Zenon
<1>2. ASSUME NEW r \in Seq(PrefillUnit), NEW x \in PrefillUnit, r \in P
      PROVE  Append(r, x) \in P
  <2>0. r \in Seq(AnyUnit) /\ x \in AnyUnit
    BY <1>0
  <2> DEFINE a == Rendered(r)
             b == x.messages
             d == Append(r, x)
  <2>1. Rendered(d) = a \o b
    BY <2>0, RenderedAppend
  <2>2. a \in Seq(Answers) /\ b \in Seq(Answers) /\ d \in Seq(PrefillUnit)
    BY <1>2 DEF PrefillUnit, PlainUnit
  <2> HIDE DEF a, b, d
  <2>3. Rendered(d) \in Seq(Answers)
    BY <2>1, <2>2
  <2>4. QED
    BY <2>2, <2>3 DEF d
<1> HIDE DEF P
<1>3. s \in P
  <2>1. \A r \in Seq(PrefillUnit) : r \in P
    BY <1>1, <1>2, ListInduction
  <2>2. QED
    BY <2>1
<1>4. QED
  BY <1>3 DEF P

HistoryUnit == {x \in PlainUnit : x.kind \in History}

(* The messages before the unit that starts at place j. *)
StartsAt(s, i, j) == i \in 0 .. Len(s) - 1 /\ Len(Rendered(SubSeq(s, 1, i))) = j

UserStart(s) ==
  \A j \in 0 .. Len(Rendered(s)) - 1 :
     Rendered(s)[j + 1].role = "user" => \E i : StartsAt(s, i, j)

(* In the history a user message starts a unit. *)
LEMMA UserStarts ==
  ASSUME NEW s \in Seq(HistoryUnit)
  PROVE  UserStart(s)
<1> DEFINE P == {r \in Seq(HistoryUnit) : UserStart(r)}
<1>0. HistoryUnit \subseteq AnyUnit /\ Seq(HistoryUnit) \subseteq Seq(AnyUnit)
  <2>1. HistoryUnit \subseteq AnyUnit
    BY PlainIsAny DEF HistoryUnit
  <2>2. QED
    BY <2>1
<1>1. << >> \in P
  <2>1. << >> \in Seq(HistoryUnit) /\ << >> \in Seq(AnyUnit)
    BY EmptyList
  <2>2. Rendered(<< >>) = << >>
    BY <2>1, RenderedType, Zenon
  <2>3. Len(Rendered(<< >>)) = 0
    BY <2>2
  <2>4. UserStart(<< >>)
    BY <2>3 DEF UserStart
  <2>5. QED
    BY <2>1, <2>4
<1>2. ASSUME NEW r \in Seq(HistoryUnit), NEW x \in HistoryUnit, r \in P
      PROVE  Append(r, x) \in P
  <2>0. r \in Seq(AnyUnit) /\ x \in AnyUnit
    BY <1>0
  <2> DEFINE a == Rendered(r)
             b == x.messages
             d == Append(r, x)
             v == Rendered(d)
  <2>1. v = a \o b
    BY <2>0, RenderedAppend
  <2>2. a \in Seq(AnyMessage) /\ b \in Seq(AnyMessage)
    BY <2>0, RenderedType, UnitFields
  <2>3. d \in Seq(HistoryUnit) /\ Len(d) = Len(r) + 1 /\ Len(r) \in Nat
        /\ SubSeq(d, 1, Len(r)) = r
        /\ \A i \in 0 .. Len(r) : SubSeq(d, 1, i) = SubSeq(r, 1, i)
    OBVIOUS
  <2>4. \A n \in 2 .. Len(b) : b[n].role # "user"
    <3>1. x.kind = "turn" \/ x.kind = "prefill"
      BY DEF HistoryUnit, History
    <3>2. CASE x.kind = "turn"
      <4>1. TurnForm(b)
        BY <3>2 DEF HistoryUnit, PlainUnit
      <4>2. QED
        BY <4>1 DEF TurnForm, Answers
    <3>3. CASE x.kind = "prefill"
      <4>1. b \in Seq(Answers)
        BY <3>3 DEF HistoryUnit, PlainUnit
      <4> HIDE DEF b
      <4>2. \A n \in 1 .. Len(b) : b[n] \in Answers
        BY <4>1
      <4>3. QED
        BY <4>2 DEF Answers
    <3>4. QED
      BY <3>1, <3>2, <3>3
  <2>5. UserStart(r)
    BY <1>2
  <2> HIDE DEF a, b, d, v
  <2> PICK A \in Nat : A = Len(a)
    BY <2>2
  <2> PICK B \in Nat : B = Len(b)
    BY <2>2
  <2>6. Len(v) = A + B /\ (\A n \in 1 .. A : v[n] = a[n]) /\ \A n \in 1 .. B : v[A + n] = b[n]
    <3>1. Len(a \o b) = Len(a) + Len(b) /\ (\A n \in 1 .. Len(a) : (a \o b)[n] = a[n])
          /\ \A n \in 1 .. Len(b) : (a \o b)[Len(a) + n] = b[n]
      BY <2>2, ConcatElements
    <3>2. QED
      BY <2>1, <3>1
  <2>7. ASSUME NEW j \in 0 .. A + B - 1, v[j + 1].role = "user" PROVE \E i : StartsAt(d, i, j)
    <3>1. CASE j + 1 <= A
      <4>1. j \in 0 .. Len(a) - 1 /\ a[j + 1].role = "user"
        BY <2>6, <2>7, <3>1
      <4>2. PICK i : StartsAt(r, i, j)
        BY <2>5, <4>1, Zenon DEF UserStart, a
      <4>3. i \in 0 .. Len(r) /\ i \in 0 .. Len(d) - 1
        BY <2>3, <4>2 DEF StartsAt
      <4>4. SubSeq(d, 1, i) = SubSeq(r, 1, i)
        BY <2>3, <4>3
      <4>5. StartsAt(d, i, j)
        BY <4>2, <4>3, <4>4, Zenon DEF StartsAt
      <4>6. QED
        BY <4>5
    <3>2. CASE j + 1 > A
      <4>1. (j + 1) - A \in 1 .. B /\ A + ((j + 1) - A) = j + 1
        BY <3>2
      <4> PICK n \in 1 .. B : A + n = j + 1
        BY <4>1, Zenon
      <4>2. b[n].role = "user"
        BY <2>6, <2>7
      <4>3. n = 1
        BY <2>4, <4>2
      <4>4. j = Len(a)
        BY <4>3
      <4>5. StartsAt(d, Len(r), j)
        <5>1. Len(r) \in 0 .. Len(d) - 1
          BY <2>3
        <5>2. Rendered(SubSeq(d, 1, Len(r))) = a
          BY <2>3, Zenon DEF a
        <5>3. QED
          BY <4>4, <5>1, <5>2 DEF StartsAt
      <4>6. QED
        BY <4>5
    <3>3. QED
      BY <3>1, <3>2
  <2>8. UserStart(d)
    <3>1. \A j \in 0 .. Len(v) - 1 : v[j + 1].role = "user" => \E i : StartsAt(d, i, j)
      <4>1. Len(v) = A + B
        BY <2>6
      <4>2. 0 .. Len(v) - 1 = 0 .. A + B - 1
        BY <4>1
      <4>3. \A j \in 0 .. A + B - 1 : v[j + 1].role = "user" => \E i : StartsAt(d, i, j)
        BY <2>7, Zenon
      <4>4. QED
        BY <4>2, <4>3, Zenon
    <3>2. QED
      BY <3>1, Zenon DEF UserStart, v
  <2>9. QED
    BY <2>3, <2>8 DEF d
<1> HIDE DEF P
<1>3. s \in P
  <2>1. \A r \in Seq(HistoryUnit) : r \in P
    BY <1>1, <1>2, ListInduction
  <2>2. QED
    BY <2>1
<1>4. QED
  BY <1>3 DEF P

(* The first message of some units is that of the first unit. *)
LEMMA FirstMessage ==
  ASSUME NEW w \in Seq(PlainUnit), w # << >>
  PROVE  Rendered(w)[1] = w[1].messages[1] /\ w[1] \in PlainUnit
<1> DEFINE x == w[1]
           y == After(w, 1)
<1>1. x \in PlainUnit /\ 1 \in 0 .. Len(w) /\ SubSeq(w, 1, 1) = <<x>>
  <2>1. Len(w) \in Nat /\ Len(w) # 0
    OBVIOUS
  <2>2. 1 \in 1 .. Len(w) /\ 1 \in 0 .. Len(w)
    BY <2>1
  <2>3. x \in PlainUnit
    BY <2>2
  <2>4. SubSeq(w, 1, 1) \in Seq(PlainUnit) /\ Len(SubSeq(w, 1, 1)) = 1
        /\ SubSeq(w, 1, 1)[1] = x
    BY <2>2
  <2>5. SubSeq(w, 1, 1) = <<x>>
    <3> DEFINE y1 == SubSeq(w, 1, 1)
    <3> HIDE DEF y1, x
    <3>1. y1 \in Seq(PlainUnit) /\ Len(y1) = 1 /\ y1[1] = x
      BY <2>4 DEF y1
    <3>2. y1 = <<x>>
      BY <3>1, <2>3
    <3>3. QED
      BY <3>2 DEF y1
  <2>6. QED
    BY <2>2, <2>3, <2>5
<1>2. w = SubSeq(w, 1, 1) \o y /\ y \in Seq(PlainUnit)
  BY <1>1, AfterFacts
<1> HIDE DEF x, y
<1>3. x \in AnyUnit /\ y \in Seq(AnyUnit) /\ << >> \in Seq(AnyUnit)
  BY <1>1, <1>2, PlainIsAny
<1>4. <<x>> \in Seq(AnyUnit) /\ <<x>> = Append(<< >>, x)
  BY <1>3
<1>5. Rendered(<<x>> \o y) = Rendered(<<x>>) \o Rendered(y)
  BY <1>3, <1>4, RenderedConcat, Zenon
<1>6. Rendered(<< >>) = << >>
  BY <1>3, RenderedType, Zenon
<1>7. Rendered(Append(<< >>, x)) = Rendered(<< >>) \o x.messages
  BY <1>3, RenderedAppend, Zenon
<1> DEFINE b == x.messages
           z == Rendered(y)
<1>8. b \in Seq(AnyMessage) /\ b # << >> /\ z \in Seq(AnyMessage)
  BY <1>1, <1>3, UnitFields, RenderedType DEF PlainUnit
<1> HIDE DEF b, z
<1>9. << >> \o b = b
  BY <1>8, ConcatEmpty
<1>10. Rendered(w) = b \o z
  BY <1>1, <1>2, <1>4, <1>5, <1>6, <1>7, <1>9, Zenon DEF b, z
<1>11. (b \o z)[1] = b[1]
  BY <1>8
<1>12. QED
  BY <1>1, <1>10, <1>11 DEF b, x

(* What the k-th unit of a history ends, the messages of the units. *)
LEMMA CutHistory ==
  ASSUME NEW H \in Seq(HistoryUnit), NEW i \in 0 .. Len(H)
  PROVE  /\ After(H, i) \in Seq(HistoryUnit) /\ SubSeq(H, 1, i) \in Seq(HistoryUnit)
         /\ Rendered(H) = Rendered(SubSeq(H, 1, i)) \o Rendered(After(H, i))
         /\ Rendered(SubSeq(H, 1, i)) \in Seq(Inbound) /\ Rendered(After(H, i)) \in Seq(Inbound)
         /\ Total(After(H, i)) = Tokens(Rendered(After(H, i)))
<1> DEFINE a == SubSeq(H, 1, i)
           b == After(H, i)
<1>1. H = a \o b /\ a \in Seq(HistoryUnit) /\ b \in Seq(HistoryUnit)
  BY AfterFacts
<1> HIDE DEF a, b
<1>2. a \in Seq(PlainUnit) /\ b \in Seq(PlainUnit)
  BY <1>1 DEF HistoryUnit
<1>3. a \in Seq(AnyUnit) /\ b \in Seq(AnyUnit)
  BY <1>2, PlainIsAny
<1>4. Rendered(a \o b) = Rendered(a) \o Rendered(b)
  BY <1>3, RenderedConcat
<1>5. Rendered(a) \in Seq(Inbound) /\ Rendered(b) \in Seq(Inbound)
      /\ Total(b) = Tokens(Rendered(b))
  BY <1>2, PlainTokens
<1>6. QED
  BY <1>1, <1>4, <1>5, Zenon DEF a, b

(* The history of some units. *)
LEMMA HistoryIs ==
  ASSUME NEW u, NEW i, NEW o, Hold(u, i, o)
  PROVE  /\ OfKinds(u, History) \in Seq(HistoryUnit) /\ PrefillFirst(OfKinds(u, History))
         /\ Rendered(OfKinds(u, History)) = o
<1> DEFINE K == KindSet(History)
<1>1. u \in Seq(PlainUnit) /\ PrefillFirst(u) /\ Rendered(OfKinds(u, History)) = o
  BY DEF Hold
<1>2. u \in Seq(AnyUnit)
  BY <1>1, PlainIsAny
<1>3. OfKinds(u, History) = Only(u, K)
  BY <1>2, OfKindsOnly
<1>4. Only(u, K) \in Seq(PlainUnit \cap K)
  BY <1>1, OnlyWithin
<1>5. PlainUnit \cap K = HistoryUnit
  BY PlainIsAny DEF HistoryUnit, KindSet
<1>6. PrefillFirst(Only(u, K))
  BY <1>1, <1>2, PrefillKept
<1>7. QED
  BY <1>1, <1>3, <1>4, <1>5, <1>6

(* Where the history that is kept starts. *)
LEMMA KeptStart ==
  ASSUME NEW H \in Seq(HistoryUnit), PrefillFirst(H), NEW k \in 0 .. Len(H),
         Rendered(After(H, k)) # << >>
  PROVE  \/ Rendered(After(H, k))[1].role = "user"
         \/ Rendered(SubSeq(H, 1, k)) \in Seq(Answers)
<1> DEFINE a == SubSeq(H, 1, k)
           w == After(H, k)
<1> PICK N \in Nat : N = Len(H)
  OBVIOUS
<1>1. a \in Seq(HistoryUnit) /\ w \in Seq(HistoryUnit) /\ Len(a) = k /\ Len(w) = N - k
      /\ (\A n \in 1 .. N - k : w[n] = H[k + n]) /\ \A n \in 1 .. k : a[n] = H[n]
  BY AfterFacts
<1>2. w # << >>
  <2> SUFFICES ASSUME w = << >> PROVE FALSE
    OBVIOUS
  <2>1. Rendered(<< >>) = << >>
    BY EmptyList, RenderedType, Zenon
  <2>2. QED
    BY <2>1
<1> HIDE DEF a, w
<1>3. w \in Seq(PlainUnit) /\ a \in Seq(PlainUnit)
  BY <1>1 DEF HistoryUnit
<1>4. Rendered(w)[1] = w[1].messages[1] /\ w[1] \in PlainUnit
  BY <1>2, <1>3, FirstMessage
<1>5. 1 \in 1 .. N - k /\ k + 1 \in 1 .. N /\ w[1] = H[k + 1] /\ w[1] \in HistoryUnit
  <2>1. Len(w) # 0
    BY <1>2, <1>3
  <2>2. 1 \in 1 .. N - k /\ k + 1 \in 1 .. N
    BY <1>1, <2>1
  <2>3. QED
    BY <1>1, <2>2
<1>6. w[1].kind = "turn" \/ w[1].kind = "prefill"
  BY <1>5 DEF HistoryUnit, History
<1>7. CASE w[1].kind = "turn"
  <2>1. TurnForm(w[1].messages)
    BY <1>4, <1>7 DEF PlainUnit
  <2>2. w[1].messages[1].role = "user"
    BY <2>1 DEF TurnForm, Asks
  <2>3. QED
    BY <1>4, <2>2 DEF w
<1>8. CASE w[1].kind = "prefill"
  <2>1. \A n \in 1 .. k : a[n] \in PrefillUnit
    <3> TAKE n \in 1 .. k
    <3>1. n \in 1 .. N /\ n < k + 1 /\ a[n] = H[n] /\ a[n] \in HistoryUnit
      BY <1>1, <1>5
    <3>2. H[n].kind # "turn"
      BY <1>5, <1>8, <3>1 DEF PrefillFirst
    <3>3. QED
      BY <3>1, <3>2 DEF HistoryUnit, History, PrefillUnit
  <2>2. a \in Seq(PrefillUnit)
    BY <1>1, <2>1
  <2>3. Rendered(a) \in Seq(Answers)
    BY <2>2, PrefillAnswers
  <2>4. QED
    BY <2>3 DEF a
<1>9. QED
  BY <1>6, <1>7, <1>8

(* A place where nothing or a user message is cut starts a unit. *)
LEMMA CutStarts ==
  ASSUME NEW a \in Seq(HistoryUnit), NEW j \in 0 .. Len(Rendered(a)) - 1,
         j = 0 \/ Rendered(a)[j + 1].role = "user"
  PROVE  \E i : StartsAt(a, i, j)
<1>1. CASE Rendered(a)[j + 1].role = "user"
  <2>1. UserStart(a)
    BY UserStarts
  <2>2. QED
    BY <1>1, <2>1 DEF UserStart
<1>2. CASE j = 0
  <2>1. << >> \in Seq(AnyUnit) /\ Rendered(<< >>) = << >>
    BY EmptyList, RenderedType, Zenon
  <2>2. SubSeq(a, 1, 0) = << >>
    OBVIOUS
  <2>3. Len(a) \in Nat /\ Len(a) # 0
    <3>1. ASSUME Len(a) = 0 PROVE FALSE
      <4>1. a = << >>
        BY <3>1
      <4>2. Len(Rendered(a)) = 0
        BY <2>1, <4>1
      <4>3. QED
        BY <4>2
    <3>2. QED
      BY <3>1
  <2>4. 0 \in 0 .. Len(a) - 1 /\ Len(Rendered(SubSeq(a, 1, 0))) = j
    <3>1. 0 \in 0 .. Len(a) - 1
      BY <2>3
    <3>2. Rendered(SubSeq(a, 1, 0)) = << >>
      BY <2>1, <2>2, Zenon
    <3>3. QED
      BY <1>2, <3>1, <3>2
  <2>5. QED
    BY <2>4 DEF StartsAt
<1>3. QED
  BY <1>1, <1>2

(* What NewestWholeTurns says of the messages of a history, the ones that   *)
(* are kept and the room there is for them.                                 *)
NewestPart(raw, kept, cut, room) ==
  /\ cut >= 0 /\ kept = SubSeq(raw, cut + 1, Len(raw))
  /\ \/ kept = << >>
     \/ raw[cut + 1].role = "user"
     \/ \A i \in 1 .. cut : raw[i].role # "user"
  /\ \A j \in 0 .. cut - 1 :
        j = 0 \/ raw[j + 1].role = "user" => Tokens(SubSeq(raw, j + 1, Len(raw))) > room

(* It holds of the longest newest units within the room. *)
LEMMA NewestTurns ==
  ASSUME NEW H \in Seq(HistoryUnit), PrefillFirst(H), NEW room \in Int, NEW k,
         Longest(H, k, room), NEW raw, raw = Rendered(H), NEW kept, kept = Rendered(After(H, k)),
         NEW cut, cut = Len(raw) - Len(kept)
  PROVE  NewestPart(raw, kept, cut, room)
<1>0. k \in 0 .. Len(H)
  BY DEF Longest
<1> DEFINE s == SubSeq(H, 1, k)
           a == Rendered(s)
<1>1. s \in Seq(HistoryUnit) /\ raw = a \o kept /\ a \in Seq(Inbound) /\ kept \in Seq(Inbound)
  BY <1>0, CutHistory, Zenon
<1>2. Len(s) = k
  BY <1>0, AfterFacts
<1> HIDE DEF a
<1> PICK A \in Nat : A = Len(a)
  BY <1>1
<1> PICK B \in Nat : B = Len(kept)
  BY <1>1
<1>3. raw \in Seq(Inbound) /\ Len(raw) = A + B /\ (\A n \in 1 .. A : raw[n] = a[n])
      /\ \A n \in 1 .. B : raw[A + n] = kept[n]
  <2>1. a \o kept \in Seq(Inbound) /\ Len(a \o kept) = Len(a) + Len(kept)
        /\ (\A n \in 1 .. Len(a) : (a \o kept)[n] = a[n])
        /\ \A n \in 1 .. Len(kept) : (a \o kept)[Len(a) + n] = kept[n]
    BY <1>1, ConcatElements
  <2>2. QED
    BY <1>1, <2>1
<1>4. cut = A
  BY <1>3
<1>5. cut >= 0 /\ kept = SubSeq(raw, cut + 1, Len(raw))
  <2>1. After(a \o kept, Len(a)) = kept
    BY <1>1, AfterConcat
  <2>2. After(raw, cut) = kept
    BY <1>1, <1>4, <2>1
  <2>3. QED
    BY <1>4, <2>2 DEF After
<1>6. \/ kept = << >>
      \/ raw[cut + 1].role = "user"
      \/ \A i \in 1 .. cut : raw[i].role # "user"
  <2> SUFFICES ASSUME kept # << >>
               PROVE  raw[cut + 1].role = "user" \/ \A i \in 1 .. cut : raw[i].role # "user"
    OBVIOUS
  <2>1. kept[1].role = "user" \/ a \in Seq(Answers)
    BY <1>0, KeptStart DEF a
  <2>2. CASE kept[1].role = "user"
    <3>1. B # 0
      BY <1>1
    <3>2. raw[A + 1] = kept[1]
      BY <1>3, <3>1
    <3>3. QED
      BY <1>4, <2>2, <3>2, Zenon
  <2>3. CASE a \in Seq(Answers)
    <3>1. \A i \in 1 .. A : a[i] \in Answers
      BY <2>3
    <3>2. \A i \in 1 .. A : raw[i].role # "user"
      BY <1>3, <3>1 DEF Answers
    <3>3. QED
      BY <1>4, <3>2
  <2>4. QED
    BY <2>1, <2>2, <2>3
<1>7. ASSUME NEW j \in 0 .. cut - 1, j = 0 \/ raw[j + 1].role = "user"
      PROVE  Tokens(SubSeq(raw, j + 1, Len(raw))) > room
  <2>1. j \in 0 .. Len(a) - 1 /\ j + 1 \in 1 .. A
    BY <1>4
  <2>2. j = 0 \/ a[j + 1].role = "user"
    BY <1>3, <1>7, <2>1
  <2>3. PICK i : StartsAt(s, i, j)
    <3> HIDE DEF s
    <3> QED
      BY <1>1, <2>1, <2>2, CutStarts, Zenon DEF a
  <2>4. i \in 0 .. k - 1 /\ i \in 0 .. Len(H) /\ Len(Rendered(SubSeq(s, 1, i))) = j
    BY <1>0, <1>2, <2>3 DEF StartsAt
  <2>5. SubSeq(s, 1, i) = SubSeq(H, 1, i)
    <3> PICK N \in Nat : N = Len(H)
      OBVIOUS
    <3>1. k \in 0 .. N /\ i \in 0 .. k
      BY <1>0, <2>4
    <3>2. s \in Seq(HistoryUnit) /\ Len(s) = k /\ \A n \in 1 .. k : s[n] = H[n]
      BY <1>0, AfterFacts
    <3> HIDE DEF s
    <3>3. SubSeq(s, 1, i) \in Seq(HistoryUnit) /\ Len(SubSeq(s, 1, i)) = i
          /\ \A n \in 1 .. i : SubSeq(s, 1, i)[n] = s[n]
      BY <3>1, <3>2, AfterFacts
    <3>4. SubSeq(H, 1, i) \in Seq(HistoryUnit) /\ Len(SubSeq(H, 1, i)) = i
          /\ \A n \in 1 .. i : SubSeq(H, 1, i)[n] = H[n]
      BY <2>4, AfterFacts
    <3>5. \A n \in 1 .. i : n \in 1 .. k
      BY <3>1
    <3> DEFINE x == SubSeq(s, 1, i)
               y == SubSeq(H, 1, i)
    <3> HIDE DEF x, y
    <3>6. x \in Seq(HistoryUnit) /\ y \in Seq(HistoryUnit) /\ Len(x) = Len(y)
          /\ \A n \in 1 .. Len(x) : x[n] = y[n]
      BY <3>2, <3>3, <3>4, <3>5 DEF x, y
    <3>7. x = y
      BY <3>6, SameList
    <3>8. QED
      BY <3>7, Zenon DEF x, y
  <2> DEFINE b == Rendered(SubSeq(H, 1, i))
             z == Rendered(After(H, i))
  <2>6. raw = b \o z /\ b \in Seq(Inbound) /\ z \in Seq(Inbound)
        /\ Total(After(H, i)) = Tokens(z)
    BY <2>4, CutHistory, Zenon
  <2>7. Len(b) = j
    BY <2>4, <2>5, Zenon
  <2> HIDE DEF b, z
  <2>8. After(b \o z, Len(b)) = z
    BY <2>6, AfterConcat
  <2>9. SubSeq(raw, j + 1, Len(raw)) = z
    BY <2>6, <2>7, <2>8 DEF After
  <2>10. Total(After(H, i)) > room
    BY <2>4 DEF Longest
  <2>11. QED
    BY <2>6, <2>9, <2>10, Zenon
<1>8. QED
  BY <1>5, <1>6, <1>7, Zenon DEF NewestPart

(* The history that a plan keeps is the newest part of the inbound history,  *)
(* starts at a user message unless no user message was dropped, and is the   *)
(* longest such part that fits, for every payload, budget and retrieval.     *)
THEOREM NewestCorrect == Spec => []NewestWholeTurns
<1>1. IInv => NewestWholeTurns
  <2> DEFINE raw == Others(Earlier(inbound))
             kept == Rendered(OfKinds(plan.ordered, History))
             cut == Len(raw) - Len(kept)
  <2> SUFFICES ASSUME IInv, plan.status = "planned"
               PROVE  /\ cut >= 0 /\ kept = SubSeq(raw, cut + 1, Len(raw))
                      /\ \/ kept = << >>
                         \/ raw[cut + 1].role = "user"
                         \/ \A i \in 1 .. cut : raw[i].role # "user"
                      /\ \A j \in 0 .. cut - 1 :
                            j = 0 \/ raw[j + 1].role = "user" =>
                                Tokens(SubSeq(raw, j + 1, Len(raw))) + Mandatory > usable
    BY DEF NewestWholeTurns
  <2>0. tools \in Nat /\ usable \in Int
    BY InputTypes DEF IInv
  <2>1. plan # NoPlan
    BY OutcomeFields DEF NoPlan
  <2>2. PICK h, r, t : /\ Splits(inbound, h, r, t)
                       /\ Good(plan, segment_messages(h), CurrentRequest(r), tools, usable)
    BY <2>1 DEF IInv, PlanFor
  <2> DEFINE u == segment_messages(h)
             c == CurrentRequest(r)
             H == OfKinds(u, History)
             need == Fixed(u, c, tools, plan.reserved)
             room == usable - need
  <2>3. PICK X, k : Plans(plan, X, u, c, k, tools, usable)
    BY <2>2, Zenon DEF Good, Overflows
  <2>4. plan.ordered = X \o c /\ X \in Seq(Sendable) /\ OfKinds(X, History) = After(H, k)
        /\ Longest(H, k, room)
    BY <2>3 DEF Plans, Chosen
  <2>5. r \in Seq(Inbound) /\ plan.reserved \in Nat
    BY <2>2 DEF Splits, Good
  <2>6. need = Mandatory /\ need \in Int
    BY <2>0, <2>2, <2>5, PlanMandatory, Zenon DEF Mandatory
  <2>7. Hold(u, Instructions(h), Others(h)) /\ Others(h) = raw
    BY <2>2, MandatoryIs
  <2>8. H \in Seq(HistoryUnit) /\ PrefillFirst(H) /\ Rendered(H) = raw
    BY <2>7, HistoryIs
  <2>9. kept = Rendered(After(H, k))
    <3>1. c \in Seq(KindSet({"request"})) /\ c \in Seq(AnyUnit)
      BY <2>5, RequestKind, CurrentIs
    <3>2. {"request"} \cap History = {}
      BY DEF History
    <3> HIDE DEF c
    <3>3. OfKinds(c, History) = << >>
      BY <3>1, <3>2, NoneOfKind
    <3>4. X \in Seq(AnyUnit)
      BY <2>4, SendableIsAny
    <3>5. OfKinds(X \o c, History) = OfKinds(X, History) \o OfKinds(c, History)
          /\ OfKinds(X, History) \in Seq(AnyUnit)
      BY <3>1, <3>4, KindsConcat, Zenon
    <3>6. OfKinds(X, History) \o << >> = OfKinds(X, History)
      BY <3>5, ConcatEmpty
    <3>7. QED
      BY <2>4, <3>3, <3>5, <3>6
  <2> HIDE DEF u, c, H, need, raw, kept
  <2>10. room \in Int
    BY <2>0, <2>6
  <2> HIDE DEF room, cut
  <2>11. NewestPart(raw, kept, cut, room)
    <3>1. cut = Len(raw) - Len(kept)
      BY DEF cut
    <3>2. Longest(H, k, room) /\ raw = Rendered(H)
      BY <2>4, <2>8
    <3>3. QED
      BY <2>8, <2>9, <2>10, <3>1, <3>2, NewestTurns
  <2>12. ASSUME NEW j \in 0 .. cut - 1, j = 0 \/ raw[j + 1].role = "user"
         PROVE  Tokens(SubSeq(raw, j + 1, Len(raw))) + Mandatory > usable
    <3> DEFINE q == SubSeq(raw, j + 1, Len(raw))
    <3>1. Tokens(q) > room
      BY <2>11, <2>12 DEF NewestPart
    <3>2. raw \in Seq(Inbound)
      <4>1. Earlier(inbound) \in Seq(Inbound)
        BY <2>2 DEF Splits
      <4>2. QED
        BY <4>1, PartsConcat DEF raw
    <3>3. j \in Nat /\ j + 1 \in 1 .. Len(raw) + 1
      <4>1. kept \in Seq(AnyMessage)
        <5>1. H \in Seq(AnyUnit)
          BY <2>8, PlainIsAny DEF HistoryUnit
        <5>2. After(H, k) \in Seq(AnyUnit)
          BY <2>4, <5>1, AfterFacts DEF Longest
        <5>3. QED
          BY <2>9, <5>2, RenderedType
      <4>2. Len(kept) \in Nat /\ Len(raw) \in Nat
        BY <3>2, <4>1
      <4>3. QED
        BY <2>12, <4>2 DEF cut
    <3>4. q \in Seq(Inbound)
      BY <3>2, <3>3
    <3> HIDE DEF q
    <3>5. Tokens(q) \in Nat
      BY <3>4, TokensNat
    <3>6. Tokens(q) + Mandatory > usable
      BY <2>0, <2>6, <3>1, <3>5 DEF room
    <3>7. QED
      BY <3>6 DEF q
  <2>13. QED
    BY <2>11, <2>12 DEF NewestPart
<1>2. QED
  BY <1>1, Invariant, PTL
==============================================================================
