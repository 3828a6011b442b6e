------------------------ MODULE ReconciliationProofs ------------------------
(***************************************************************************)
(* What the operators of Reconciliation compute, for histories of any       *)
(* length over any messages and for any scan limit.                         *)
(***************************************************************************)
EXTENDS Reconciliation, WellFoundedInduction, TLAPS

-----------------------------------------------------------------------------
(* Least and greatest elements of sets of numbers. *)

(* A nonempty set of naturals has a least element. *)
LEMMA LeastExists ==
  ASSUME NEW T \in SUBSET Nat, T # {}
  PROVE  \E x \in T : \A y \in T : x <= y
<1> DEFINE R == OpToRel(<, Nat)
<1>1. IsWellFoundedOn(R, Nat)
  BY NatLessThanWellFounded
<1>2. \A x, y \in Nat : x < y => <<x, y>> \in R
  BY DEF OpToRel
<1> HIDE DEF R
<1>3. PICK x \in T : \A y \in T : ~ (<<y, x>> \in R)
  BY <1>1, WFMin, T \subseteq Nat, Zenon
<1>4. \A y \in T : ~ (y < x)
  BY <1>2, <1>3, T \subseteq Nat, Zenon
<1>5. QED
  BY <1>4, SMT

(* Max returns the greatest element of a nonempty bounded set of naturals. *)
LEMMA MaxFacts ==
  ASSUME NEW S \in SUBSET Nat, S # {},
         NEW b \in Nat, \A x \in S : x <= b
  PROVE  /\ Max(S) \in S
         /\ \A y \in S : y <= Max(S)
<1> DEFINE T == {y \in Nat : \E x \in S : y = b - x}
<1>1. T \in SUBSET Nat /\ T # {}
  <2>1. PICK x \in S : TRUE
    OBVIOUS
  <2>2. b - x \in T
    BY <2>1
  <2>3. QED
    BY <2>2
<1>2. PICK t \in T : \A y \in T : t <= y
  BY <1>1, LeastExists
<1>3. PICK m \in S : t = b - m
  OBVIOUS
<1>4. \A y \in S : m >= y
  <2>1. \A y \in S : b - y \in T
    OBVIOUS
  <2>2. QED
    BY <1>2, <1>3, <2>1
<1>5. \E x \in S : \A y \in S : x >= y
  BY <1>4
<1>6. Max(S) \in S /\ \A y \in S : Max(S) >= y
  BY <1>5 DEF Max
<1>7. QED
  BY <1>6

-----------------------------------------------------------------------------
(* What the operators of Reconciliation compute. *)

(* A message is equivalent to itself, whatever its representation. *)
LEMMA EquivalentReflexive ==
  ASSUME NEW m
  PROVE  equivalent(m, m)
BY DEF equivalent

(* PrefixLen is where the forward loop stops: the histories agree up to     *)
(* there, and one of them ends or they differ next.                         *)
LEMMA PrefixFacts ==
  ASSUME NEW P \in Seq(Message), NEW I \in Seq(Message)
  PROVE  LET n == PrefixLen(P, I)
         IN  /\ n \in Nat /\ PrefixMatches(P, I, n)
             /\ \/ n = Len(P)
                \/ n = Len(I)
                \/ ~equivalent(P[n + 1], I[n + 1])
<1> DEFINE S == {n \in 0 .. Len(I) : PrefixMatches(P, I, n)}
           m == Max(S)
<1>1. S \in SUBSET Nat /\ 0 \in S /\ Len(I) \in Nat /\ \A x \in S : x <= Len(I)
  BY DEF PrefixMatches
<1>2. m \in S /\ \A y \in S : y <= m
  BY <1>1, MaxFacts
<1>3. PrefixLen(P, I) = m
  BY DEF PrefixLen
<1> HIDE DEF m
<1>4. ASSUME m # Len(P), m # Len(I), equivalent(P[m + 1], I[m + 1])
      PROVE  FALSE
  <2>1. m + 1 \in S
    BY <1>2, <1>4 DEF PrefixMatches
  <2>2. QED
    BY <1>2, <2>1
<1>5. QED
  BY <1>2, <1>3, <1>4

(* ... and no other length has that property. *)
LEMMA PrefixUnique ==
  ASSUME NEW P \in Seq(Message), NEW I \in Seq(Message), NEW n \in Nat,
         PrefixMatches(P, I, n),
         \/ n = Len(P)
         \/ n = Len(I)
         \/ ~equivalent(P[n + 1], I[n + 1])
  PROVE  PrefixLen(P, I) = n
<1>1. PICK m : m = PrefixLen(P, I)
  OBVIOUS
<1>2. /\ m \in Nat /\ PrefixMatches(P, I, m)
      /\ \/ m = Len(P)
         \/ m = Len(I)
         \/ ~equivalent(P[m + 1], I[m + 1])
  BY <1>1, PrefixFacts
<1>3. ~ (m < n) /\ ~ (n < m)
  BY <1>2 DEF PrefixMatches
<1>4. QED
  BY <1>1, <1>2, <1>3

(* RunBack is where the backward loops stop. *)
LEMMA RunFacts ==
  ASSUME NEW P \in Seq(Message), NEW I \in Seq(Message),
         NEW pe \in Nat, NEW ie \in Nat, NEW floor \in Nat,
         floor <= pe, floor <= ie
  PROVE  LET n == RunBack(P, I, pe, ie, floor)
         IN  /\ n \in Nat /\ RunMatches(P, I, pe, ie, floor, n)
             /\ \/ n = pe - floor
                \/ n = ie - floor
                \/ ~equivalent(P[pe - n], I[ie - n])
<1> DEFINE S == {n \in 0 .. ie : RunMatches(P, I, pe, ie, floor, n)}
           m == Max(S)
<1>1. S \in SUBSET Nat /\ 0 \in S /\ \A x \in S : x <= ie
  BY DEF RunMatches
<1>2. m \in S /\ \A y \in S : y <= m
  BY <1>1, MaxFacts
<1>3. RunBack(P, I, pe, ie, floor) = m
  BY DEF RunBack
<1> HIDE DEF m
<1>4. ASSUME m # pe - floor, m # ie - floor, equivalent(P[pe - m], I[ie - m])
      PROVE  FALSE
  <2>1. m + 1 \in S
    BY <1>2, <1>4 DEF RunMatches
  <2>2. QED
    BY <1>2, <2>1
<1>5. QED
  BY <1>2, <1>3, <1>4

(* ... and no other length has that property. *)
LEMMA RunUnique ==
  ASSUME NEW P \in Seq(Message), NEW I \in Seq(Message),
         NEW pe \in Nat, NEW ie \in Nat, NEW floor \in Nat,
         floor <= pe, floor <= ie, NEW n \in Nat,
         RunMatches(P, I, pe, ie, floor, n),
         \/ n = pe - floor
         \/ n = ie - floor
         \/ ~equivalent(P[pe - n], I[ie - n])
  PROVE  RunBack(P, I, pe, ie, floor) = n
<1>1. PICK m : m = RunBack(P, I, pe, ie, floor)
  OBVIOUS
<1>2. /\ m \in Nat /\ RunMatches(P, I, pe, ie, floor, m)
      /\ \/ m = pe - floor
         \/ m = ie - floor
         \/ ~equivalent(P[pe - m], I[ie - m])
  BY <1>1, RunFacts
<1>3. ~ (m < n) /\ ~ (n < m)
  BY <1>2 DEF RunMatches
<1>4. QED
  BY <1>1, <1>2, <1>3
(* The greater of two integers. *)
LEMMA MaxOfTwo ==
  ASSUME NEW a \in Int, NEW b \in Int
  PROVE  /\ Max({a, b}) \in {a, b}
         /\ a <= Max({a, b}) /\ b <= Max({a, b})
<1>1. \E x \in {a, b} : \A y \in {a, b} : x >= y
  OBVIOUS
<1>2. Max({a, b}) \in {a, b} /\ \A y \in {a, b} : Max({a, b}) >= y
  BY <1>1 DEF Max
<1>3. QED
  BY <1>2

(* Where _anchor_before_tail stops looking. *)
LEMMA LowerFacts ==
  ASSUME NEW I \in Seq(Message), NEW prefix \in Nat
  PROVE  LET lower == Max({prefix + 1, Len(I) - MaxScan})
         IN  /\ lower \in Int
             /\ \A e \in Int : lower <= e <=>
                  (prefix < e /\ Len(I) - MaxScan <= e)
<1>1. PICK a \in Int, b \in Int : a = prefix + 1 /\ b = Len(I) - MaxScan
  BY ScanAssumption
<1>2. PICK m : m = Max({a, b})
  OBVIOUS
<1>3. m \in {a, b} /\ a <= m /\ b <= m
  BY <1>2, MaxOfTwo, Zenon
<1>4. Max({prefix + 1, Len(I) - MaxScan}) = m
  BY <1>1, <1>2, Zenon
<1>5. /\ m \in Int
      /\ \A e \in Int : m <= e <=> (prefix < e /\ Len(I) - MaxScan <= e)
  BY <1>1, <1>3, ScanAssumption
<1>6. QED
  BY <1>4, <1>5, Zenon

(* Which offsets _anchor_before_tail considers. *)
LEMMA AnchorEndsFacts ==
  ASSUME NEW P \in Seq(Message), NEW I \in Seq(Message), NEW prefix \in Nat,
         NEW e \in Int
  PROVE  e \in AnchorEnds(P, I, prefix) <=>
           /\ prefix < e /\ Len(I) - MaxScan <= e /\ e <= Len(I)
           /\ equivalent(P[Len(P)], I[e])
<1>1. Len(I) \in Nat /\ Len(I) - MaxScan \in Int
  BY ScanAssumption
<1> DEFINE lower == Max({prefix + 1, Len(I) - MaxScan})
<1>2. /\ lower \in Int
      /\ lower <= e <=> (prefix + 1 <= e /\ Len(I) - MaxScan <= e)
  BY LowerFacts
<1>3. AnchorEnds(P, I, prefix) =
        {f \in lower .. Len(I) : equivalent(P[Len(P)], I[f])}
  BY DEF AnchorEnds
<1> HIDE DEF lower
<1>4. QED
  BY <1>1, <1>2, <1>3

(* The anchor ends at the last copy of the last persisted message within    *)
(* reach, and its run is as long as possible.                               *)
LEMMA AnchorFacts ==
  ASSUME NEW P \in Seq(Message), NEW I \in Seq(Message), NEW prefix \in Nat,
         prefix < Len(P), AnchorEnds(P, I, prefix) # {}
  PROVE  \E e \in Nat, n \in Nat :
           /\ Anchor(P, I, prefix) =
                [persisted_start |-> Len(P) - n, incoming_start |-> e - n,
                 incoming_end |-> e]
           /\ e \in AnchorEnds(P, I, prefix)
           /\ prefix < e /\ e <= Len(I) /\ equivalent(P[Len(P)], I[e])
           /\ \A f \in AnchorEnds(P, I, prefix) : f <= e
           /\ n = RunBack(P, I, Len(P), e, prefix)
           /\ RunMatches(P, I, Len(P), e, prefix, n)
<1> DEFINE S == AnchorEnds(P, I, prefix)
           e == Max(S)
           n == RunBack(P, I, Len(P), e, prefix)
<1>1. S \in SUBSET Int
  <2>1. Max({prefix + 1, Len(I) - MaxScan}) \in Int
    BY LowerFacts
  <2>2. QED
    BY <2>1 DEF AnchorEnds
<1>2. S \in SUBSET Nat /\ \A x \in S : prefix < x /\ x <= Len(I)
  BY <1>1, AnchorEndsFacts
<1>3. e \in S /\ \A f \in S : f <= e
  <2>1. Len(I) \in Nat
    OBVIOUS
  <2>2. QED
    BY <1>2, <2>1, MaxFacts
<1>4. e \in Nat /\ prefix < e /\ e <= Len(I) /\ equivalent(P[Len(P)], I[e])
  BY <1>1, <1>2, <1>3, AnchorEndsFacts
<1>5. n \in Nat /\ RunMatches(P, I, Len(P), e, prefix, n)
  <2> HIDE DEF e
  <2>1. Len(P) \in Nat /\ prefix <= Len(P) /\ prefix <= e
    BY <1>4
  <2>2. QED
    BY <1>4, <2>1, RunFacts
<1>6. Anchor(P, I, prefix) =
        [persisted_start |-> Len(P) - n, incoming_start |-> e - n,
         incoming_end |-> e]
  BY DEF Anchor
<1> HIDE DEF S, e, n
<1>7. n = RunBack(P, I, Len(P), e, prefix) /\ S = AnchorEnds(P, I, prefix)
  BY DEF n, S
<1>8. QED
  BY <1>3, <1>4, <1>5, <1>6, <1>7
-----------------------------------------------------------------------------
(* The outcomes of reconcile_projection. *)

(* The condition under which an anchored projection is accepted. *)
AnchorAccepted(P, I, prefix) ==
  LET a == Anchor(P, I, prefix)
  IN  /\ AnchorEnds(P, I, prefix) # {}
      /\ a.persisted_start > prefix
      /\ \/ SummaryBetween(I, prefix, a.incoming_start)
         \/ a.incoming_start = 0

(* The anchored part of reconcile_projection by cases. *)
LEMMA AnchoredCases ==
  ASSUME NEW P \in Seq(Message), NEW I \in Seq(Message), NEW prefix \in Nat,
         prefix < Len(P)
  PROVE  /\ AnchorAccepted(P, I, prefix) =>
              /\ Anchored(P, I, prefix).mode
                   \in {"compacted", "truncate", "truncate_append"}
              /\ Anchored(P, I, prefix).append_from =
                   Anchor(P, I, prefix).incoming_end
         /\ ~AnchorAccepted(P, I, prefix) =>
              Anchored(P, I, prefix) = Result("none", Len(I))
<1> DEFINE a == Anchor(P, I, prefix)
           none == \/ AnchorEnds(P, I, prefix) = {}
                   \/ a.persisted_start <= prefix
<1>1. CASE AnchorEnds(P, I, prefix) = {}
  BY <1>1 DEF Anchored, AnchorAccepted
<1>2. CASE AnchorEnds(P, I, prefix) # {}
  <2>1. PICK s \in Int : s = a.persisted_start
    BY <1>2, AnchorFacts
  <2> HIDE DEF a
  <2>2. CASE s <= prefix
    BY <2>1, <2>2 DEF Anchored, AnchorAccepted, a
  <2>3. CASE ~ (s <= prefix)
    <3>1. ~none /\ s > prefix
      BY <1>2, <2>1, <2>3
    <3>2. Anchored(P, I, prefix) =
            IF SummaryBetween(I, prefix, a.incoming_start)
               THEN Result("compacted", a.incoming_end)
             ELSE IF a.incoming_start = 0
               THEN Result(IF a.incoming_end = Len(I) THEN "truncate"
                                                      ELSE "truncate_append",
                           a.incoming_end)
             ELSE Result("none", Len(I))
      BY <3>1 DEF Anchored, a
    <3>3. AnchorAccepted(P, I, prefix) <=>
            \/ SummaryBetween(I, prefix, a.incoming_start)
            \/ a.incoming_start = 0
      BY <1>2, <2>1, <3>1 DEF AnchorAccepted, a
    <3>4. QED
      BY <3>2, <3>3 DEF Result, a
  <2>4. QED
    BY <2>2, <2>3
<1>3. QED
  BY <1>1, <1>2

(* The four ways a projection is taken: its prefix is all of it, it extends *)
(* the whole transcript, it is anchored, or none of these.                  *)
LEMMA ResultCases ==
  ASSUME NEW P \in Seq(Message), NEW I \in Seq(Message)
  PROVE  LET r == reconcile_projection(P, I)
             prefix == PrefixLen(P, I)
         IN  /\ prefix = Len(I) =>
                  r.mode \in {"exact", "truncate"} /\ r.append_from = Len(I)
             /\ (prefix # Len(I) /\ prefix = Len(P)) => r = Result("append", Len(P))
             /\ (prefix # Len(I) /\ prefix # Len(P)) =>
                  /\ AnchorAccepted(P, I, prefix) =>
                       /\ r.mode \in {"compacted", "truncate", "truncate_append"}
                       /\ r.append_from = Anchor(P, I, prefix).incoming_end
                  /\ ~AnchorAccepted(P, I, prefix) =>
                       /\ r.mode = IF IsTail(P, I) THEN "truncate" ELSE "conflict"
                       /\ r.append_from = Len(I)
<1> DEFINE r == reconcile_projection(P, I)
           prefix == PrefixLen(P, I)
<1>1. prefix \in Nat /\ prefix <= Len(P)
  BY PrefixFacts DEF PrefixMatches
<1> HIDE DEF prefix
<1>2. CASE prefix = Len(I)
  BY <1>2 DEF reconcile_projection, Result, prefix
<1>3. CASE prefix # Len(I) /\ prefix = Len(P)
  BY <1>3 DEF reconcile_projection, prefix
<1>4. CASE prefix # Len(I) /\ prefix # Len(P)
  <2>1. r = IF Anchored(P, I, prefix).mode # "none" THEN Anchored(P, I, prefix)
            ELSE Result(IF IsTail(P, I) THEN "truncate" ELSE "conflict", Len(I))
    BY <1>4 DEF reconcile_projection, prefix
  <2>2. prefix < Len(P)
    BY <1>1, <1>4
  <2>3. CASE AnchorAccepted(P, I, prefix)
    BY <1>1, <1>4, <2>1, <2>2, <2>3, AnchoredCases DEF prefix
  <2>4. CASE ~AnchorAccepted(P, I, prefix)
    BY <1>1, <1>4, <2>1, <2>2, <2>4, AnchoredCases DEF prefix, Result
  <2>5. QED
    BY <2>3, <2>4
<1>5. QED
  BY <1>2, <1>3, <1>4 DEF prefix
(* append_from is an offset into the incoming history, and the tail is      *)
(* empty exactly when it is the end.                                        *)
LEMMA TailFacts ==
  ASSUME NEW P \in Seq(Message), NEW I \in Seq(Message)
  PROVE  LET a == reconcile_projection(P, I).append_from
         IN  /\ a \in 0 .. Len(I)
             /\ NewTail(P, I) \in Seq(Message)
             /\ Len(NewTail(P, I)) = Len(I) - a
             /\ \A k \in 1 .. Len(I) - a : NewTail(P, I)[k] = I[a + k]
             /\ NewTail(P, I) = << >> <=> a = Len(I)
<1> DEFINE a == reconcile_projection(P, I).append_from
           prefix == PrefixLen(P, I)
<1>1. prefix \in Nat /\ prefix <= Len(P) /\ prefix <= Len(I)
  BY PrefixFacts DEF PrefixMatches
<1>2. a \in 0 .. Len(I)
  <2> HIDE DEF prefix
  <2>1. CASE prefix = Len(I) \/ prefix = Len(P)
    BY <1>1, <2>1, ResultCases DEF Result, prefix
  <2>2. CASE prefix # Len(I) /\ prefix # Len(P) /\ AnchorAccepted(P, I, prefix)
    <3>1. prefix < Len(P) /\ AnchorEnds(P, I, prefix) # {}
      BY <1>1, <2>2 DEF AnchorAccepted
    <3>2. Anchor(P, I, prefix).incoming_end \in 0 .. Len(I)
      BY <1>1, <3>1, AnchorFacts
    <3>3. QED
      BY <2>2, <3>2, ResultCases DEF prefix
  <2>3. CASE prefix # Len(I) /\ prefix # Len(P) /\ ~AnchorAccepted(P, I, prefix)
    BY <2>3, ResultCases DEF prefix
  <2>4. QED
    BY <2>1, <2>2, <2>3
<1> HIDE DEF a
<1>3. NewTail(P, I) = SubSeq(I, a + 1, Len(I))
  BY DEF NewTail, a
<1>4. /\ NewTail(P, I) \in Seq(Message)
      /\ Len(NewTail(P, I)) = Len(I) - a
      /\ \A k \in 1 .. Len(I) - a : NewTail(P, I)[k] = I[a + k]
  BY <1>2, <1>3
<1>5. NewTail(P, I) = << >> <=> a = Len(I)
  BY <1>2, <1>4
<1>6. QED
  BY <1>2, <1>4, <1>5 DEF a

(* What is known when there is something to insert. *)
LEMMA InsertCases ==
  ASSUME NEW P \in Seq(Message), NEW I \in Seq(Message),
         reconcile_projection(P, I).append_from # Len(I)
  PROVE  LET a == reconcile_projection(P, I).append_from
             prefix == PrefixLen(P, I)
         IN  /\ prefix < Len(I)
             /\ \/ prefix = Len(P) /\ a = Len(P)
                \/ /\ prefix < Len(P)
                   /\ AnchorAccepted(P, I, prefix)
                   /\ a = Anchor(P, I, prefix).incoming_end
<1> DEFINE prefix == PrefixLen(P, I)
<1>1. prefix \in Nat /\ prefix <= Len(P) /\ prefix <= Len(I)
  BY PrefixFacts DEF PrefixMatches
<1> HIDE DEF prefix
<1>2. QED
  BY <1>1, ResultCases DEF Result, prefix

(* Where the elements of a concatenation come from. *)
LEMMA ConcatFacts ==
  ASSUME NEW S, NEW s \in Seq(S), NEW t \in Seq(S)
  PROVE  /\ s \o t \in Seq(S) /\ Len(s \o t) = Len(s) + Len(t)
         /\ \A k \in 1 .. Len(s) : (s \o t)[k] = s[k]
         /\ \A k \in 1 .. Len(t) : (s \o t)[Len(s) + k] = t[k]
OBVIOUS

(* Sequences with the same elements are the same. *)
LEMMA SeqExtensional ==
  ASSUME NEW S, NEW s \in Seq(S), NEW t \in Seq(S), Len(s) = Len(t),
         \A k \in 1 .. Len(s) : s[k] = t[k]
  PROVE  s = t
OBVIOUS

(* What is inserted continues the last persisted message on both sides. *)
LEMMA BehindLast ==
  ASSUME NEW P \in Seq(Message), NEW I \in Seq(Message),
         P # << >>, NewTail(P, I) # << >>
  PROVE  LET a == reconcile_projection(P, I).append_from
         IN  a > 0 /\ equivalent(P[Len(P)], I[a])
<1> DEFINE a == reconcile_projection(P, I).append_from
           prefix == PrefixLen(P, I)
<1> SUFFICES a > 0 /\ equivalent(P[Len(P)], I[a])
  OBVIOUS
<1>1. a # Len(I) /\ a \in Nat
  <2>1. a \in 0 .. Len(I) /\ (NewTail(P, I) = << >> <=> a = Len(I))
    BY TailFacts, Zenon
  <2>2. QED
    BY <2>1
<1>2. prefix \in Nat /\ PrefixMatches(P, I, prefix) /\ Len(P) > 0
  BY PrefixFacts
<1>3. CASE prefix = Len(P) /\ a = Len(P)
  BY <1>2, <1>3 DEF PrefixMatches
<1>4. CASE /\ prefix < Len(P)
           /\ AnchorAccepted(P, I, prefix)
           /\ a = Anchor(P, I, prefix).incoming_end
  <2> HIDE DEF a, prefix
  <2>1. AnchorEnds(P, I, prefix) # {}
    BY <1>4 DEF AnchorAccepted
  <2>2. QED
    BY <1>2, <1>4, <2>1, AnchorFacts
<1>5. QED
  BY <1>1, <1>3, <1>4, InsertCases

(* A history that agrees with the transcript to its own end is accepted and *)
(* brings nothing new.                                                      *)
LEMMA PrefixIsReplay ==
  ASSUME NEW P \in Seq(Message), NEW I \in Seq(Message),
         PrefixMatches(P, I, Len(I))
  PROVE  Accepts(P, I) /\ NewTail(P, I) = << >>
<1>1. PrefixLen(P, I) = Len(I)
  BY PrefixUnique
<1>2. /\ reconcile_projection(P, I).mode \in {"exact", "truncate"}
      /\ reconcile_projection(P, I).append_from = Len(I)
  BY <1>1, ResultCases
<1>3. QED
  BY <1>2, TailFacts DEF Accepts

(* A longer transcript agrees with what the shorter one agreed with. *)
LEMMA PrefixGrows ==
  ASSUME NEW P \in Seq(Message), NEW Q \in Seq(Message), NEW I \in Seq(Message),
         PrefixMatches(P, I, Len(I))
  PROVE  PrefixMatches(P \o Q, I, Len(I))
<1>1. /\ Len(P \o Q) = Len(P) + Len(Q)
      /\ \A k \in 1 .. Len(P) : (P \o Q)[k] = P[k]
  BY ConcatFacts
<1>2. QED
  BY <1>1 DEF PrefixMatches

(* A history that the transcript is a prefix of agrees with it once its     *)
(* tail is inserted.                                                        *)
LEMMA PrefixAfterAppend ==
  ASSUME NEW P \in Seq(Message), NEW I \in Seq(Message),
         PrefixLen(P, I) = Len(P)
  PROVE  PrefixMatches(P \o NewTail(P, I), I, Len(I))
<1> DEFINE Q == NewTail(P, I)
           a == reconcile_projection(P, I).append_from
<1>1. PrefixMatches(P, I, Len(P))
  BY PrefixFacts
<1>2. CASE Len(I) = Len(P)
  <2>1. PrefixMatches(P, I, Len(I)) /\ Q \in Seq(Message)
    BY <1>1, <1>2, TailFacts
  <2>2. QED
    BY <2>1, PrefixGrows
<1>3. CASE Len(I) # Len(P)
  <2>1. reconcile_projection(P, I) = Result("append", Len(P))
    BY <1>3, ResultCases
  <2>2. a = Len(P)
    BY <2>1 DEF Result
  <2>3. /\ Q \in Seq(Message) /\ Len(Q) = Len(I) - Len(P)
        /\ \A k \in 1 .. Len(I) - Len(P) : Q[k] = I[Len(P) + k]
    <3>1. /\ Q \in Seq(Message) /\ Len(Q) = Len(I) - a
          /\ \A k \in 1 .. Len(I) - a : Q[k] = I[a + k]
      BY TailFacts, Zenon
    <3> HIDE DEF Q, a
    <3>2. QED
      BY <2>2, <3>1
  <2> HIDE DEF Q, a
  <2>4. /\ Len(P \o Q) = Len(P) + Len(Q)
        /\ \A k \in 1 .. Len(P) : (P \o Q)[k] = P[k]
        /\ \A k \in 1 .. Len(Q) : (P \o Q)[Len(P) + k] = Q[k]
    BY <2>3, ConcatFacts
  <2>5. Len(P) <= Len(I) /\ Len(P \o Q) = Len(I)
    BY <1>1, <2>3, <2>4 DEF PrefixMatches
  <2>6. ASSUME NEW k \in 1 .. Len(I)
        PROVE  equivalent((P \o Q)[k], I[k])
    <3>1. CASE k <= Len(P)
      BY <1>1, <2>4, <3>1 DEF PrefixMatches
    <3>2. CASE ~ (k <= Len(P))
      <4>1. /\ k - Len(P) \in 1 .. Len(Q) /\ k - Len(P) \in 1 .. Len(I) - Len(P)
            /\ Len(P) + (k - Len(P)) = k
        BY <2>3, <2>5, <3>2
      <4>2. (P \o Q)[k] = I[k]
        BY <2>3, <2>4, <4>1
      <4>3. QED
        BY <4>2, EquivalentReflexive
    <3>3. QED
      BY <3>1, <3>2
  <2>7. QED
    BY <2>5, <2>6 DEF PrefixMatches, Q
<1>4. QED
  BY <1>2, <1>3
-----------------------------------------------------------------------------
(* The promises of reconcile_projection hold for all histories. *)

(* New messages are stored only where the client, too, has the last         *)
(* persisted message just before them.                                      *)
THEOREM TailContinuesAlways ==
  ASSUME NEW P \in Seq(Message), NEW I \in Seq(Message)
  PROVE  TailContinues(P, I)
BY BehindLast DEF TailContinues

(* A history without a compaction summary is accepted only if all of it but *)
(* the new tail is a run of consecutive persisted messages.                 *)
THEOREM NoForkAlways ==
  ASSUME NEW P \in Seq(Message), NEW I \in Seq(Message)
  PROVE  NoForkIn(P, I)
<1> DEFINE r == reconcile_projection(P, I)
           a == r.append_from
           prefix == PrefixLen(P, I)
<1> SUFFICES ASSUME r.mode # "conflict", ~SummaryBetween(I, 0, Len(I))
             PROVE  IsRun(P, I, a)
  BY DEF NoForkIn, Accepts
<1>1. prefix \in Nat /\ PrefixMatches(P, I, prefix) /\ Len(P) \in Nat /\ Len(I) \in Nat
  BY PrefixFacts
<1>2. ASSUME NEW n \in Nat, RunMatches(P, I, Len(P), n, 0, n)
      PROVE  IsRun(P, I, n)
  <2>1. n <= Len(P) /\ \A k \in 0 .. n - 1 : equivalent(P[Len(P) - k], I[n - k])
    BY <1>1, <1>2 DEF RunMatches
  <2>2. \A k \in 1 .. n : equivalent(P[Len(P) - n + k], I[k])
    <3>1. TAKE k \in 1 .. n
    <3>2. n - k \in 0 .. n - 1 /\ Len(P) - (n - k) = Len(P) - n + k /\ n - (n - k) = k
      BY <1>1
    <3>3. QED
      BY <2>1, <3>2
  <2>3. Len(P) - n \in 0 .. Len(P) /\ Len(P) - n + n <= Len(P)
    BY <1>1, <2>1
  <2>4. QED
    BY <2>2, <2>3 DEF IsRun
<1>3. CASE a = prefix
  <2>1. 0 \in 0 .. Len(P) /\ 0 + prefix <= Len(P)
    BY <1>1 DEF PrefixMatches
  <2>2. \A k \in 1 .. prefix : equivalent(P[0 + k], I[k])
    BY <1>1 DEF PrefixMatches
  <2>3. QED
    BY <1>3, <2>1, <2>2 DEF IsRun
<1>4. CASE prefix # Len(I) /\ prefix # Len(P) /\ AnchorAccepted(P, I, prefix)
  <2> HIDE DEF r, prefix
  <2>1. prefix < Len(P) /\ AnchorEnds(P, I, prefix) # {}
    BY <1>1, <1>4 DEF AnchorAccepted, PrefixMatches
  <2>2. PICK e \in Nat, n \in Nat :
          /\ Anchor(P, I, prefix) =
               [persisted_start |-> Len(P) - n, incoming_start |-> e - n,
                incoming_end |-> e]
          /\ e <= Len(I)
          /\ RunMatches(P, I, Len(P), e, prefix, n)
    BY <1>1, <2>1, AnchorFacts
  <2>3. ~SummaryBetween(I, prefix, e - n)
    BY <1>1, <2>2 DEF SummaryBetween
  <2>4. e = n /\ a = e
    <3>1. a = e
      BY <1>4, <2>2, ResultCases DEF r, prefix
    <3>2. QED
      BY <1>4, <2>2, <2>3, <3>1 DEF AnchorAccepted
  <2>5. RunMatches(P, I, Len(P), e, 0, e)
    BY <1>1, <2>2, <2>4 DEF RunMatches
  <2>6. QED
    BY <1>2, <2>4, <2>5
<1>5. CASE prefix # Len(I) /\ prefix # Len(P) /\ ~AnchorAccepted(P, I, prefix)
  <2>1. IsTail(P, I) /\ a = Len(I)
    BY <1>5, ResultCases
  <2>2. RunMatches(P, I, Len(P), Len(I), 0, Len(I))
    BY <1>1, <2>1, RunFacts DEF IsTail
  <2>3. QED
    BY <1>1, <1>2, <2>1, <2>2
<1>6. QED
  <2>1. CASE prefix = Len(I) \/ prefix = Len(P)
    <3>1. a = prefix
      BY <2>1, ResultCases DEF Result
    <3>2. QED
      BY <1>3, <3>1
  <2>2. QED
    BY <1>4, <1>5, <2>1

(* Q is P followed by the messages of I from offset e on. *)
Grown(Q, P, I, e) ==
  /\ Len(Q) = Len(P) + (Len(I) - e)
  /\ \A k \in 1 .. Len(P) : Q[k] = P[k]
  /\ \A k \in 1 .. Len(I) - e : Q[Len(P) + k] = I[e + k]

(* A run that ends at the end of P and at e is prolonged by the messages    *)
(* that follow on both sides.                                               *)
LEMMA LongerRun ==
  ASSUME NEW P \in Seq(Message), NEW I \in Seq(Message), NEW Q \in Seq(Message),
         NEW prefix \in Nat, NEW e \in Nat, NEW n \in Nat,
         prefix < Len(P), prefix < e, e < Len(I),
         RunBack(P, I, Len(P), e, prefix) = n, Grown(Q, P, I, e)
  PROVE  RunBack(Q, I, Len(Q), Len(I), prefix) = Len(I) - e + n
<1>1. \E lp, lq, li, d, m \in Nat :
        /\ lp = Len(P) /\ lq = Len(Q) /\ li = Len(I)
        /\ d = li - e /\ m = d + n /\ lq = lp + d /\ li = e + d
  <2>1. /\ Len(P) \in Nat /\ Len(Q) \in Nat /\ Len(I) \in Nat
        /\ Len(I) - e \in Nat /\ Len(I) - e + n \in Nat
        /\ Len(I) = e + (Len(I) - e)
    OBVIOUS
  <2>2. Len(Q) = Len(P) + (Len(I) - e)
    BY DEF Grown
  <2>3. QED
    BY <2>1, <2>2, Zenon
<1>2. PICK lp, lq, li, d, m \in Nat :
        /\ lp = Len(P) /\ lq = Len(Q) /\ li = Len(I)
        /\ d = li - e /\ m = d + n /\ lq = lp + d /\ li = e + d
  BY <1>1, Zenon
<1>3. prefix <= lp /\ prefix <= e /\ RunBack(P, I, lp, e, prefix) = n
  BY <1>2
<1>4. /\ RunMatches(P, I, lp, e, prefix, n)
      /\ \/ n = lp - prefix
         \/ n = e - prefix
         \/ ~equivalent(P[lp - n], I[e - n])
  <2> DEFINE r == RunBack(P, I, lp, e, prefix)
  <2>1. /\ RunMatches(P, I, lp, e, prefix, r)
        /\ \/ r = lp - prefix
           \/ r = e - prefix
           \/ ~equivalent(P[lp - r], I[e - r])
    BY <1>3, RunFacts, Zenon
  <2> HIDE DEF r
  <2>2. r = n
    BY <1>3 DEF r
  <2>3. QED
    BY <2>1, <2>2, Zenon
<1>5. n <= lp - prefix /\ n <= e - prefix
  BY <1>4 DEF RunMatches
<1>6. /\ \A k \in 1 .. lp : Q[k] = P[k]
      /\ \A k \in 1 .. d : Q[lp + k] = I[e + k]
  BY <1>2, Zenon DEF Grown
<1>7. ASSUME NEW k \in 0 .. m - 1
      PROVE  equivalent(Q[lq - k], I[li - k])
  <2>1. CASE k < d
    <3>1. d - k \in 1 .. d /\ lp + (d - k) = lq - k /\ e + (d - k) = li - k
      BY <1>2, <2>1
    <3>2. Q[lp + (d - k)] = I[e + (d - k)]
      BY <1>6, <3>1, Zenon
    <3>3. QED
      BY <3>1, <3>2, EquivalentReflexive
  <2>2. CASE ~ (k < d)
    <3>1. /\ k - d \in 0 .. n - 1 /\ lp - (k - d) \in 1 .. lp
          /\ lp - (k - d) = lq - k /\ e - (k - d) = li - k
      BY <1>2, <1>5, <2>2
    <3>2. equivalent(P[lp - (k - d)], I[e - (k - d)])
      BY <1>4, <3>1, Zenon DEF RunMatches
    <3>3. Q[lp - (k - d)] = P[lp - (k - d)]
      BY <1>6, <3>1, Zenon
    <3>4. QED
      BY <3>1, <3>2, <3>3
  <2>3. QED
    BY <2>1, <2>2
<1>8. RunMatches(Q, I, lq, li, prefix, m)
  <2>1. m <= lq - prefix /\ m <= li - prefix
    BY <1>2, <1>5
  <2>2. QED
    BY <1>7, <2>1 DEF RunMatches
<1>9. \/ m = lq - prefix
      \/ m = li - prefix
      \/ ~equivalent(Q[lq - m], I[li - m])
  <2>1. CASE n = lp - prefix \/ n = e - prefix
    <3>1. n = lp - prefix => m = lq - prefix
      BY <1>2
    <3>2. n = e - prefix => m = li - prefix
      BY <1>2
    <3>3. QED
      BY <2>1, <3>1, <3>2, Zenon
  <2>2. CASE n # lp - prefix /\ ~equivalent(P[lp - n], I[e - n])
    <3>1. lq - m = lp - n /\ li - m = e - n /\ lp - n \in 1 .. lp
      BY <1>2, <1>5, <2>2
    <3>2. Q[lp - n] = P[lp - n]
      BY <1>6, <3>1, Zenon
    <3>3. QED
      BY <2>2, <3>1, <3>2
  <2>3. QED
    BY <1>4, <2>1, <2>2
<1>10. prefix <= lq /\ prefix <= li
  BY <1>2, <1>3
<1>11. RunBack(Q, I, lq, li, prefix) = m
  BY <1>8, <1>9, <1>10, RunUnique
<1>12. QED
  BY <1>2, <1>11, Zenon

(* When the anchored tail of I is inserted, I anchors in the longer         *)
(* transcript at the same place, now with the tail as part of the run.      *)
LEMMA ReplayAnchored ==
  ASSUME NEW P \in Seq(Message), NEW I \in Seq(Message), NEW Q \in Seq(Message),
         NEW prefix \in Nat, NEW e \in Nat, NEW n \in Nat,
         prefix = PrefixLen(P, I), prefix < Len(P), prefix < e, e < Len(I),
         RunBack(P, I, Len(P), e, prefix) = n, Grown(Q, P, I, e)
  PROVE  /\ PrefixLen(Q, I) = prefix
         /\ AnchorEnds(Q, I, prefix) # {}
         /\ Anchor(Q, I, prefix) =
              [persisted_start |-> Len(P) - n, incoming_start |-> e - n,
               incoming_end |-> Len(I)]
<1>1. /\ Len(P) \in Nat /\ Len(I) \in Nat /\ Len(Q) \in Nat
      /\ prefix < Len(I) /\ Len(Q) = Len(P) + (Len(I) - e)
      /\ prefix < Len(Q)
  BY DEF Grown
<1>2. PrefixLen(Q, I) = prefix
  <2>1. PrefixMatches(P, I, prefix) /\ ~equivalent(P[prefix + 1], I[prefix + 1])
    BY <1>1, PrefixFacts
  <2>2. prefix + 1 \in 1 .. Len(P) /\ \A k \in 1 .. prefix : k \in 1 .. Len(P)
    BY <1>1
  <2>3. \A k \in 1 .. Len(P) : Q[k] = P[k]
    BY DEF Grown
  <2>4. ~equivalent(Q[prefix + 1], I[prefix + 1])
    BY <2>1, <2>2, <2>3, Zenon
  <2>5. \A k \in 1 .. prefix : equivalent(Q[k], I[k])
    BY <2>1, <2>2, <2>3, Zenon DEF PrefixMatches
  <2>6. PrefixMatches(Q, I, prefix)
    BY <1>1, <2>5 DEF PrefixMatches
  <2>7. QED
    BY <2>4, <2>6, PrefixUnique
<1>3. Len(I) \in AnchorEnds(Q, I, prefix)
  <2>1. /\ Len(I) - e \in 1 .. Len(I) - e
        /\ Len(P) + (Len(I) - e) = Len(Q) /\ e + (Len(I) - e) = Len(I)
    BY <1>1
  <2>2. Q[Len(P) + (Len(I) - e)] = I[e + (Len(I) - e)]
    BY <2>1, Zenon DEF Grown
  <2>3. equivalent(Q[Len(Q)], I[Len(I)])
    BY <2>1, <2>2, EquivalentReflexive
  <2>4. Len(I) \in Int /\ prefix < Len(I) /\ Len(I) - MaxScan <= Len(I)
    BY <1>1, ScanAssumption
  <2>5. QED
    BY <2>3, <2>4, AnchorEndsFacts
<1>4. PICK f \in Nat, m \in Nat :
        /\ Anchor(Q, I, prefix) =
             [persisted_start |-> Len(Q) - m, incoming_start |-> f - m,
              incoming_end |-> f]
        /\ f <= Len(I)
        /\ \A g \in AnchorEnds(Q, I, prefix) : g <= f
        /\ m = RunBack(Q, I, Len(Q), f, prefix)
  BY <1>1, <1>3, AnchorFacts
<1>5. f = Len(I)
  BY <1>1, <1>3, <1>4
<1>6. m = Len(I) - e + n
  BY <1>4, <1>5, LongerRun
<1>7. Len(Q) - m = Len(P) - n /\ f - m = e - n
  BY <1>1, <1>5, <1>6
<1>8. QED
  BY <1>2, <1>3, <1>4, <1>5, <1>7

(* Replaying a projection that was just accepted is accepted and inserts    *)
(* nothing.                                                                 *)
THEOREM ReplayAlways ==
  ASSUME NEW P \in Seq(Message), NEW I \in Seq(Message), Accepts(P, I)
  PROVE  LET after == P \o NewTail(P, I)
         IN  Accepts(after, I) /\ NewTail(after, I) = << >>
<1> DEFINE a == reconcile_projection(P, I).append_from
           prefix == PrefixLen(P, I)
           Q == P \o NewTail(P, I)
<1>1. /\ a \in 0 .. Len(I)
      /\ NewTail(P, I) \in Seq(Message)
      /\ Len(NewTail(P, I)) = Len(I) - a
      /\ \A k \in 1 .. Len(I) - a : NewTail(P, I)[k] = I[a + k]
      /\ NewTail(P, I) = << >> <=> a = Len(I)
  BY TailFacts, Zenon
<1>2. Len(P) \in Nat /\ Len(I) \in Nat
  OBVIOUS
<1> HIDE DEF a
<1>3. Q \in Seq(Message) /\ Grown(Q, P, I, a)
  <2>1. PICK T \in Seq(Message) : T = NewTail(P, I)
    BY <1>1
  <2>2. /\ P \o T \in Seq(Message) /\ Len(P \o T) = Len(P) + Len(T)
        /\ \A k \in 1 .. Len(P) : (P \o T)[k] = P[k]
        /\ \A k \in 1 .. Len(T) : (P \o T)[Len(P) + k] = T[k]
    BY ConcatFacts
  <2>3. QED
    BY <1>1, <2>1, <2>2, Zenon DEF Grown
<1>4. prefix \in Nat /\ PrefixMatches(P, I, prefix)
  BY PrefixFacts
<1>5. CASE a = Len(I)
  <2>1. NewTail(P, I) = << >> /\ Q = P
    BY <1>1, <1>5
  <2>2. QED
    BY <2>1
<1> HIDE DEF Q, prefix
<1>6. CASE a # Len(I) /\ prefix = Len(P) /\ a = Len(P)
  <2>1. Len(Q) = Len(I) /\ PrefixMatches(Q, I, Len(I))
    <3>1. Len(Q) = Len(I)
      BY <1>2, <1>3, <1>6 DEF Grown
    <3>2. ASSUME NEW k \in 1 .. Len(I)
          PROVE  equivalent(Q[k], I[k])
      <4>1. CASE k <= Len(P)
        <5>1. k \in 1 .. Len(P)
          BY <1>2, <4>1
        <5>2. Q[k] = P[k]
          BY <1>3, <5>1, Zenon DEF Grown
        <5>3. equivalent(P[k], I[k])
          BY <1>4, <1>6, <5>1, Zenon DEF PrefixMatches
        <5>4. QED
          BY <5>2, <5>3
      <4>2. CASE ~ (k <= Len(P))
        <5>1. k - Len(P) \in 1 .. Len(I) - Len(P) /\ Len(P) + (k - Len(P)) = k
          BY <1>2, <4>2
        <5>2. Q[Len(P) + (k - Len(P))] = I[Len(P) + (k - Len(P))]
          BY <1>3, <1>6, <5>1, Zenon DEF Grown
        <5>3. QED
          BY <5>1, <5>2, EquivalentReflexive
      <4>3. QED
        BY <4>1, <4>2
    <3>3. QED
      BY <1>2, <3>1, <3>2 DEF PrefixMatches
  <2>2. PrefixLen(Q, I) = Len(I)
    BY <1>2, <1>3, <2>1, PrefixUnique
  <2>3. Accepts(Q, I) /\ reconcile_projection(Q, I).append_from = Len(I)
    BY <1>3, <2>2, ResultCases DEF Accepts
  <2>4. QED
    BY <1>3, <2>3, TailFacts DEF Q
<1>7. CASE /\ a # Len(I) /\ prefix < Len(P) /\ prefix < Len(I)
           /\ AnchorAccepted(P, I, prefix)
           /\ a = Anchor(P, I, prefix).incoming_end
  <2>1. AnchorEnds(P, I, prefix) # {}
    BY <1>7 DEF AnchorAccepted
  <2>2. PICK e \in Nat, n \in Nat :
          /\ Anchor(P, I, prefix) =
               [persisted_start |-> Len(P) - n, incoming_start |-> e - n,
                incoming_end |-> e]
          /\ prefix < e
          /\ n = RunBack(P, I, Len(P), e, prefix)
    BY <1>4, <1>7, <2>1, AnchorFacts
  <2>3. a = e /\ e < Len(I)
    BY <1>1, <1>2, <1>7, <2>2
  <2>4. /\ PrefixLen(Q, I) = prefix
        /\ AnchorEnds(Q, I, prefix) # {}
        /\ Anchor(Q, I, prefix) =
             [persisted_start |-> Len(P) - n, incoming_start |-> e - n,
              incoming_end |-> Len(I)]
    <3>1. prefix = PrefixLen(P, I)
      BY DEF prefix
    <3>2. QED
      BY <1>3, <1>4, <1>7, <2>2, <2>3, <3>1, ReplayAnchored
  <2>5. AnchorAccepted(Q, I, prefix)
    BY <1>7, <2>2, <2>4 DEF AnchorAccepted
  <2>6. prefix # Len(I) /\ prefix # Len(Q)
    BY <1>2, <1>3, <1>4, <1>7, <2>3 DEF Grown
  <2>7. Accepts(Q, I) /\ reconcile_projection(Q, I).append_from = Len(I)
    BY <1>3, <2>4, <2>5, <2>6, ResultCases DEF Accepts
  <2>8. QED
    BY <1>3, <2>7, TailFacts DEF Q
<1>8. QED
  <2>1. CASE a # Len(I)
    BY <1>6, <1>7, <2>1, InsertCases DEF a, prefix
  <2>2. QED
    BY <1>5, <2>1
=============================================================================
