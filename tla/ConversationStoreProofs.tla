----------------------- MODULE ConversationStoreProofs -----------------------
(***************************************************************************)
(* For any number of sessions, any histories and any number of              *)
(* transactions, the locked transactions of the store behave like atomic    *)
(* steps of Transcript, and tool results are linked to their calls.         *)
(***************************************************************************)
EXTENDS ConversationStore, ReconciliationProofs

(* The lock is held exactly by the session between its lock statement and   *)
(* the end of its transaction.                                              *)
LockInv == \A w \in Writers : tx[w].phase \in InLock <=> lock = w

(* What a transaction holds before it inserts. *)
StartInv ==
  \A w \in Writers :
    /\ Active(w) => tx[w].incoming \in Projections
    /\ tx[w].phase # "inserting" => tx[w].rows = << >>

(* The inductive invariant. *)
IInv == TypeOK /\ LockInv /\ StartInv /\ DecisionFresh /\ SeqFollows

-----------------------------------------------------------------------------
(* Contents maps rows to messages, position by position. *)
LEMMA ContentsFacts ==
  ASSUME NEW r \in Seq(Row)
  PROVE  /\ Contents(r) \in Seq(Message)
         /\ Len(Contents(r)) = Len(r)
         /\ \A k \in 1 .. Len(r) : Contents(r)[k] = r[k].content
<1>1. Len(r) \in Nat /\ \A k \in 1 .. Len(r) : r[k] \in Row
  OBVIOUS
<1>2. \A k \in 1 .. Len(r) : r[k].content \in Message
  BY <1>1 DEF Row
<1>3. QED
  BY <1>1, <1>2 DEF Contents

(* Contents of a concatenation. *)
LEMMA ContentsConcat ==
  ASSUME NEW r \in Seq(Row), NEW s \in Seq(Row)
  PROVE  Contents(r \o s) = Contents(r) \o Contents(s)
<1>1. /\ r \o s \in Seq(Row) /\ Len(r \o s) = Len(r) + Len(s)
      /\ \A k \in 1 .. Len(r) : (r \o s)[k] = r[k]
      /\ \A k \in 1 .. Len(s) : (r \o s)[Len(r) + k] = s[k]
  BY ConcatFacts
<1>2. PICK b \in Seq(Message) :
        /\ b = Contents(r) /\ Len(b) = Len(r)
        /\ \A k \in 1 .. Len(r) : b[k] = r[k].content
  BY ContentsFacts
<1>3. PICK c \in Seq(Message) :
        /\ c = Contents(s) /\ Len(c) = Len(s)
        /\ \A k \in 1 .. Len(s) : c[k] = s[k].content
  BY ContentsFacts
<1>4. PICK a \in Seq(Message) :
        /\ a = Contents(r \o s) /\ Len(a) = Len(r) + Len(s)
        /\ \A k \in 1 .. Len(r) + Len(s) : a[k] = (r \o s)[k].content
  BY <1>1, ContentsFacts
<1>5. /\ b \o c \in Seq(Message) /\ Len(b \o c) = Len(b) + Len(c)
      /\ \A k \in 1 .. Len(b) : (b \o c)[k] = b[k]
      /\ \A k \in 1 .. Len(c) : (b \o c)[Len(b) + k] = c[k]
  BY ConcatFacts
<1>6. ASSUME NEW k \in 1 .. Len(a)
      PROVE  a[k] = (b \o c)[k]
  <2>1. CASE k <= Len(r)
    <3>1. k \in 1 .. Len(r) /\ k \in 1 .. Len(r) + Len(s)
      BY <1>4, <2>1
    <3>2. QED
      BY <1>1, <1>2, <1>4, <1>5, <3>1
  <2>2. CASE ~ (k <= Len(r))
    <3>1. /\ k - Len(r) \in 1 .. Len(s) /\ Len(r) + (k - Len(r)) = k
          /\ k \in 1 .. Len(r) + Len(s)
      BY <1>4, <2>2
    <3>2. (r \o s)[k] = s[k - Len(r)]
      BY <1>1, <3>1
    <3>3. (b \o c)[k] = c[k - Len(r)]
      BY <1>2, <1>3, <1>5, <3>1
    <3>4. QED
      BY <1>3, <1>4, <3>1, <3>2, <3>3
  <2>3. QED
    BY <2>1, <2>2
<1>7. Len(a) = Len(b \o c)
  BY <1>2, <1>3, <1>4, <1>5
<1>8. a = b \o c
  BY <1>5, <1>6, <1>7, SeqExtensional
<1>9. QED
  BY <1>2, <1>3, <1>4, <1>8

(* No rows, no messages. *)
LEMMA ContentsEmpty == Contents(<< >>) = << >>
BY DEF Contents

(* Moving the head of the suffix to the end of the rows keeps what both     *)
(* hold together.                                                           *)
LEMMA ContentsMove ==
  ASSUME NEW r \in Seq(Row), NEW x \in Row, NEW s \in Seq(Message), s # << >>,
         x.content = Head(s)
  PROVE  Contents(Append(r, x)) \o Tail(s) = Contents(r) \o s
<1>1. Append(r, x) = r \o <<x>> /\ <<x>> \in Seq(Row)
  OBVIOUS
<1>2. Contents(<<x>>) = <<Head(s)>>
  BY DEF Contents
<1>3. Contents(Append(r, x)) = Contents(r) \o <<Head(s)>>
  BY <1>1, <1>2, ContentsConcat
<1>4. PICK c \in Seq(Message) : c = Contents(r)
  BY ContentsFacts
<1>5. (c \o <<Head(s)>>) \o Tail(s) = c \o s
  OBVIOUS
<1>6. QED
  BY <1>3, <1>4, <1>5
-----------------------------------------------------------------------------
(* The effects of the actions, field by field. *)

(* Nothing about the other sessions changes. *)
OthersKept(w) == \A v \in Writers : v # w => tx'[v] = tx[v]

(* BEGIN touches its own session only. *)
LEMMA BeginEffect ==
  ASSUME TypeOK, NEW w \in Writers, NEW I \in Projections, Begin(w, I)
  PROVE  /\ tx' \in [Writers -> Tx] /\ OthersKept(w)
         /\ tx'[w].phase = "begun" /\ tx'[w].incoming = I
         /\ tx'[w].rows = << >> /\ begins' \in Nat
         /\ UNCHANGED <<messages, lock>>
<1>1. I \in Seq(Message)
  BY StoreAssumption
<1> DEFINE new == TxRecord("begun", I, begins + 1)
<1>a. new \in Tx
  BY <1>1 DEF TxRecord, Tx, TypeOK
<1>b. new.phase = "begun" /\ new.incoming = I /\ new.rows = << >>
  BY DEF TxRecord
<1>2. PICK t \in Tx : /\ t = TxRecord("begun", I, begins + 1)
                      /\ t.phase = "begun" /\ t.incoming = I /\ t.rows = << >>
  BY <1>a, <1>b, Zenon
<1>3. tx' = [tx EXCEPT ![w] = t]
  BY <1>2 DEF Begin
<1>4. begins' \in Nat /\ UNCHANGED <<messages, lock>>
  BY DEF Begin, TypeOK
<1>5. QED
  BY <1>2, <1>3, <1>4 DEF TypeOK, OthersKept

(* The end of a transaction frees the lock if it holds it. *)
LEMMA CloseEffect ==
  ASSUME TypeOK, NEW w \in Writers, Close(w)
  PROVE  /\ tx' \in [Writers -> Tx] /\ OthersKept(w)
         /\ tx'[w].phase = "idle" /\ tx'[w].rows = << >>
         /\ lock' = IF lock = w THEN NoSession ELSE lock
         /\ UNCHANGED begins
<1>1. NoTx \in Tx /\ NoTx.phase = "idle" /\ NoTx.rows = << >>
  BY DEF NoTx, TxRecord, Tx
<1>2. QED
  BY <1>1 DEF TypeOK, OthersKept, Close

(* The lock is taken only when it is free. *)
LEMMA LockEffect ==
  ASSUME TypeOK, NEW w \in Writers, LockConversation(w)
  PROVE  /\ tx' \in [Writers -> Tx] /\ OthersKept(w)
         /\ tx'[w].phase = "locked" /\ tx'[w].incoming = tx[w].incoming
         /\ tx'[w].rows = tx[w].rows
         /\ lock = NoSession /\ lock' = w
         /\ UNCHANGED <<messages, begins>>
<1>1. tx[w] \in Tx
  BY DEF TypeOK
<1>2. QED
  BY <1>1 DEF TypeOK, OthersKept, LockConversation, Tx, InLock

(* The tail to insert is the one reconciliation finds. *)
LEMMA FindTailEffect ==
  ASSUME TypeOK, NEW w \in Writers, FindTail(w)
  PROVE  /\ tx' \in [Writers -> Tx] /\ OthersKept(w)
         /\ tx'[w].phase = "reconciled" /\ tx'[w].incoming = tx[w].incoming
         /\ tx'[w].rows = tx[w].rows
         /\ tx'[w].suffix = NewTail(Contents(messages), tx[w].incoming)
         /\ UNCHANGED <<messages, lock, begins>>
<1>1. tx[w] \in Tx /\ tx[w].incoming \in Seq(Message) /\ messages \in Seq(Row)
  BY DEF TypeOK, Tx
<1>2. Contents(messages) \in Seq(Message)
  BY <1>1, ContentsFacts
<1>3. PICK tail \in Seq(Message) : tail = NewTail(Contents(messages), tx[w].incoming)
  BY <1>1, <1>2, TailFacts
<1>4. tx' = [tx EXCEPT ![w].phase = "reconciled", ![w].suffix = tail]
  BY <1>3 DEF FindTail
<1>5. UNCHANGED <<messages, lock, begins>>
  BY DEF FindTail
<1>6. tx \in [Writers -> Tx]
  BY DEF TypeOK
<1>7. QED
  BY <1>1, <1>3, <1>4, <1>5, <1>6 DEF OthersKept, Tx, InLock

(* seq starts at the last committed number. *)
LEMMA ReadEffect ==
  ASSUME TypeOK, NEW w \in Writers, ReadMaxSeq(w)
  PROVE  /\ tx' \in [Writers -> Tx] /\ OthersKept(w)
         /\ tx'[w].phase = "inserting" /\ tx'[w].incoming = tx[w].incoming
         /\ tx'[w].rows = tx[w].rows /\ tx'[w].suffix = tx[w].suffix
         /\ tx'[w].seq = Len(messages) - 1
         /\ UNCHANGED <<messages, lock, begins>>
<1>1. tx[w] \in Tx /\ Len(messages) \in Nat
  BY DEF TypeOK
<1>2. Len(messages) - 1 \in Nat \cup {-1}
  BY <1>1
<1>3. QED
  BY <1>1, <1>2 DEF TypeOK, OthersKept, ReadMaxSeq, Tx, InLock

(* An insert moves one message from the suffix to the rows. *)
LEMMA InsertEffect ==
  ASSUME TypeOK, NEW w \in Writers, InsertMessage(w)
  PROVE  /\ tx' \in [Writers -> Tx] /\ OthersKept(w)
         /\ tx'[w].phase = "inserting" /\ tx'[w].incoming = tx[w].incoming
         /\ Contents(tx'[w].rows) \o tx'[w].suffix
              = Contents(tx[w].rows) \o tx[w].suffix
         /\ Len(tx'[w].rows) = Len(tx[w].rows) + 1
         /\ tx'[w].seq = tx[w].seq + 1
         /\ UNCHANGED <<messages, lock, begins>>
<1> DEFINE m == Head(tx[w].suffix)
           c == tx[w].created
<1>1. /\ tx[w] \in Tx /\ tx[w].suffix \in Seq(Message) /\ tx[w].suffix # << >>
      /\ tx[w].rows \in Seq(Row) /\ tx[w].created \in Nat
      /\ tx[w].seq \in Nat \cup {-1} /\ tx[w].phase = "inserting"
      /\ messages \in Seq(Row)
  BY DEF TypeOK, Tx, InsertMessage
<1>2. m \in Message /\ Tail(tx[w].suffix) \in Seq(Message)
  BY <1>1
<1>3. PICK r \in ToolCallRefs(m, messages \o tx[w].rows, c) :
        tx' = [tx EXCEPT ![w].seq = @ + 1,
                         ![w].suffix = Tail(@),
                         ![w].rows = Append(@, RowOf(m, c, r))]
  BY DEF InsertMessage
<1>4. c \in Nat
  BY <1>1
<1> HIDE DEF m, c
<1>5. r \in Nat
  <2> DEFINE rows == Append(messages \o tx[w].rows, RowOf(m, c, NoRef))
  <2>1. Len(rows) \in Nat
    <3>1. RowOf(m, c, NoRef) \in Row
      BY <1>2, <1>4 DEF RowOf, Row, NoRef
    <3>2. QED
      BY <1>1, <3>1
  <2>2. CallsOf(m.tool_call_id, rows) \subseteq Nat
    BY <2>1 DEF CallsOf
  <2>3. QED
    BY <1>3, <2>2 DEF ToolCallRefs, NoRef
<1>a. RowOf(m, c, r) \in Row
  BY <1>2, <1>4, <1>5 DEF RowOf, Row
<1>b. RowOf(m, c, r).content = m
  BY DEF RowOf
<1>6. PICK x \in Row : x = RowOf(m, c, r) /\ x.content = m
  BY <1>a, <1>b, Zenon
<1>7. tx' = [tx EXCEPT ![w].seq = @ + 1, ![w].suffix = Tail(@),
                       ![w].rows = Append(@, x)]
  BY <1>3, <1>6
<1>8. /\ Append(tx[w].rows, x) \in Seq(Row)
      /\ Len(Append(tx[w].rows, x)) = Len(tx[w].rows) + 1
      /\ tx[w].seq + 1 \in Nat \cup {-1}
  BY <1>1, <1>6
<1>9. Contents(Append(tx[w].rows, x)) \o Tail(tx[w].suffix)
        = Contents(tx[w].rows) \o tx[w].suffix
  BY <1>1, <1>6, ContentsMove DEF m
<1>10. tx \in [Writers -> Tx] /\ UNCHANGED <<messages, lock, begins>>
  BY DEF TypeOK, InsertMessage
<1>11. QED
  BY <1>1, <1>2, <1>7, <1>8, <1>9, <1>10 DEF OthersKept, Tx, InLock
-----------------------------------------------------------------------------
(* One fact about one session: what the quantified invariants say of it. *)
LockOf(w) == tx[w].phase \in InLock <=> lock = w

StartOf(w) ==
  /\ Active(w) => tx[w].incoming \in Projections
  /\ tx[w].phase # "inserting" => tx[w].rows = << >>

FreshOf(w) ==
  tx[w].phase \in {"reconciled", "inserting"} =>
    /\ Accepts(Contents(messages), tx[w].incoming)
    /\ Contents(tx[w].rows) \o tx[w].suffix =
         NewTail(Contents(messages), tx[w].incoming)

SeqOf(w) ==
  tx[w].phase = "inserting" =>
    tx[w].seq = Len(messages) + Len(tx[w].rows) - 1

SessionOK(w) == LockOf(w) /\ StartOf(w) /\ FreshOf(w) /\ SeqOf(w)

(* IInv, session by session. *)
LEMMA SessionWise == IInv <=> TypeOK /\ \A w \in Writers : SessionOK(w)
BY DEF IInv, LockInv, StartInv, DecisionFresh, SeqFollows, SessionOK, LockOf,
       StartOf, FreshOf, SeqOf

(* A session that takes no step is not disturbed by one that does: the      *)
(* messages change only under the lock, and the lock passes only from and   *)
(* to the session that steps.                                               *)
LEMMA Undisturbed ==
  ASSUME NEW w \in Writers, NEW v \in Writers, v # w, SessionOK(v),
         OthersKept(w), lock = v <=> lock' = v,
         UNCHANGED messages \/ lock = w
  PROVE  SessionOK(v)'
<1>1. tx'[v] = tx[v]
  BY DEF OthersKept
<1>2. LockOf(v)' /\ StartOf(v)'
  BY <1>1 DEF SessionOK, LockOf, StartOf, Active
<1>3. CASE UNCHANGED messages
  BY <1>1, <1>2, <1>3 DEF SessionOK, FreshOf, SeqOf
<1>4. CASE lock = w
  <2>1. tx[v].phase \notin InLock
    BY <1>4 DEF SessionOK, LockOf
  <2>2. FreshOf(v)' /\ SeqOf(v)'
    BY <1>1, <2>1 DEF FreshOf, SeqOf, InLock
  <2>3. QED
    BY <1>2, <2>2 DEF SessionOK
<1>5. QED
  BY <1>3, <1>4

(* So the invariant is kept if the session that steps keeps its part. *)
LEMMA StepKeeps ==
  ASSUME NEW w \in Writers, \A v \in Writers : SessionOK(v), OthersKept(w),
         \A v \in Writers : v # w => (lock = v <=> lock' = v),
         UNCHANGED messages \/ lock = w, TypeOK', SessionOK(w)'
  PROVE  IInv'
<1>1. \A v \in Writers : v # w => SessionOK(v)'
  BY Undisturbed
<1>2. \A v \in Writers : SessionOK(v)'
  BY <1>1
<1>3. QED
  BY <1>2 DEF IInv, LockInv, StartInv, DecisionFresh, SeqFollows, SessionOK, LockOf,
              StartOf, FreshOf, SeqOf

(* A transaction that ends leaves the invariant, whether or not it commits. *)
LEMMA CloseKeeps ==
  ASSUME IInv, NEW w \in Writers, Close(w), messages' \in Seq(Row),
         UNCHANGED messages \/ lock = w
  PROVE  IInv'
<1>1. TypeOK /\ \A v \in Writers : SessionOK(v)
  BY SessionWise
<1>2. /\ tx' \in [Writers -> Tx] /\ OthersKept(w)
      /\ tx'[w].phase = "idle" /\ tx'[w].rows = << >>
      /\ lock' = IF lock = w THEN NoSession ELSE lock
      /\ UNCHANGED begins
  BY <1>1, CloseEffect
<1>3. TypeOK'
  BY <1>1, <1>2 DEF TypeOK
<1>4. SessionOK(w)'
  BY <1>2, StoreAssumption
  DEF SessionOK, LockOf, StartOf, FreshOf, SeqOf, Active, InLock
<1>5. \A v \in Writers : v # w => (lock = v <=> lock' = v)
  BY <1>2, StoreAssumption
<1>6. QED
  BY <1>1, <1>2, <1>3, <1>4, <1>5, StepKeeps

(* Every step keeps the inductive invariant. *)
LEMMA Inductive ==
  ASSUME IInv, [Next]_vars
  PROVE  IInv'
<1>1. TypeOK /\ \A v \in Writers : SessionOK(v)
  BY SessionWise
<1>2. ASSUME NEW w \in Writers, NEW I \in Projections, Begin(w, I)
      PROVE  IInv'
  <2>1. /\ tx' \in [Writers -> Tx] /\ OthersKept(w)
        /\ tx'[w].phase = "begun" /\ tx'[w].incoming = I
        /\ tx'[w].rows = << >> /\ begins' \in Nat
        /\ UNCHANGED <<messages, lock>>
    BY <1>1, <1>2, BeginEffect
  <2>2. lock # w
    BY <1>1, <1>2 DEF Begin, SessionOK, LockOf, Active, InLock
  <2>3. SessionOK(w)'
    BY <2>1, <2>2 DEF SessionOK, LockOf, StartOf, FreshOf, SeqOf, InLock
  <2>4. TypeOK'
    BY <1>1, <2>1 DEF TypeOK
  <2>5. QED
    BY <1>1, <2>1, <2>3, <2>4, StepKeeps
<1>3. ASSUME NEW w \in Writers, LockConversation(w)
      PROVE  IInv'
  <2>1. /\ tx' \in [Writers -> Tx] /\ OthersKept(w)
        /\ tx'[w].phase = "locked" /\ tx'[w].incoming = tx[w].incoming
        /\ tx'[w].rows = tx[w].rows
        /\ lock = NoSession /\ lock' = w
        /\ UNCHANGED <<messages, begins>>
    BY <1>1, <1>3, LockEffect
  <2>2. SessionOK(w) /\ tx[w].phase = "begun"
    BY <1>1, <1>3 DEF LockConversation
  <2>3. SessionOK(w)'
    BY <2>1, <2>2
    DEF SessionOK, LockOf, StartOf, FreshOf, SeqOf, Active, InLock
  <2>4. TypeOK'
    BY <1>1, <2>1 DEF TypeOK
  <2>5. \A v \in Writers : v # w => (lock = v <=> lock' = v)
    BY <2>1, StoreAssumption
  <2>6. QED
    BY <1>1, <2>1, <2>3, <2>4, <2>5, StepKeeps
<1>4. ASSUME NEW w \in Writers, FindTail(w)
      PROVE  IInv'
  <2>1. /\ tx' \in [Writers -> Tx] /\ OthersKept(w)
        /\ tx'[w].phase = "reconciled" /\ tx'[w].incoming = tx[w].incoming
        /\ tx'[w].rows = tx[w].rows
        /\ tx'[w].suffix = NewTail(Contents(messages), tx[w].incoming)
        /\ UNCHANGED <<messages, lock, begins>>
    BY <1>1, <1>4, FindTailEffect
  <2>2. /\ SessionOK(w) /\ tx[w].phase = "locked"
        /\ Accepts(Contents(messages), tx[w].incoming)
    BY <1>1, <1>4 DEF FindTail
  <2>3. tx'[w].rows = << >>
    BY <2>1, <2>2 DEF SessionOK, StartOf
  <2>4. LockOf(w)' /\ StartOf(w)' /\ SeqOf(w)'
    BY <2>1, <2>2, <2>3 DEF SessionOK, LockOf, StartOf, SeqOf, Active, InLock
  <2>5. tx'[w].suffix \in Seq(Message)
    BY <2>1 DEF Tx
  <2>6. Contents(tx'[w].rows) \o tx'[w].suffix = tx'[w].suffix
    BY <2>3, <2>5, ContentsEmpty
  <2>7. FreshOf(w)'
    BY <2>1, <2>2, <2>6 DEF FreshOf
  <2>8. TypeOK'
    BY <1>1, <2>1 DEF TypeOK
  <2>9. QED
    BY <1>1, <2>1, <2>4, <2>7, <2>8, StepKeeps DEF SessionOK
<1>5. ASSUME NEW w \in Writers, ReadMaxSeq(w)
      PROVE  IInv'
  <2>1. /\ tx' \in [Writers -> Tx] /\ OthersKept(w)
        /\ tx'[w].phase = "inserting" /\ tx'[w].incoming = tx[w].incoming
        /\ tx'[w].rows = tx[w].rows /\ tx'[w].suffix = tx[w].suffix
        /\ tx'[w].seq = Len(messages) - 1
        /\ UNCHANGED <<messages, lock, begins>>
    BY <1>1, <1>5, ReadEffect
  <2>2. SessionOK(w) /\ tx[w].phase = "reconciled"
    BY <1>1, <1>5 DEF ReadMaxSeq
  <2>3. Len(tx'[w].rows) = 0 /\ Len(messages) \in Nat
    BY <1>1, <2>1, <2>2 DEF SessionOK, StartOf, TypeOK
  <2>4. LockOf(w)' /\ StartOf(w)' /\ FreshOf(w)'
    BY <2>1, <2>2 DEF SessionOK, LockOf, StartOf, FreshOf, Active, InLock
  <2>5. SeqOf(w)'
    BY <2>1, <2>3 DEF SeqOf
  <2>6. TypeOK'
    BY <1>1, <2>1 DEF TypeOK
  <2>7. QED
    BY <1>1, <2>1, <2>4, <2>5, <2>6, StepKeeps DEF SessionOK
<1>6. ASSUME NEW w \in Writers, InsertMessage(w)
      PROVE  IInv'
  <2>1. /\ tx' \in [Writers -> Tx] /\ OthersKept(w)
        /\ tx'[w].phase = "inserting" /\ tx'[w].incoming = tx[w].incoming
        /\ Contents(tx'[w].rows) \o tx'[w].suffix
             = Contents(tx[w].rows) \o tx[w].suffix
        /\ Len(tx'[w].rows) = Len(tx[w].rows) + 1
        /\ tx'[w].seq = tx[w].seq + 1
        /\ UNCHANGED <<messages, lock, begins>>
    BY <1>1, <1>6, InsertEffect
  <2>2. SessionOK(w) /\ tx[w].phase = "inserting"
    BY <1>1, <1>6 DEF InsertMessage
  <2>3. Len(tx[w].rows) \in Nat /\ Len(messages) \in Nat
    BY <1>1 DEF TypeOK, Tx
  <2>4. LockOf(w)' /\ StartOf(w)' /\ FreshOf(w)'
    BY <2>1, <2>2 DEF SessionOK, LockOf, StartOf, FreshOf, Active, InLock
  <2>5. SeqOf(w)'
    BY <2>1, <2>2, <2>3 DEF SessionOK, SeqOf
  <2>6. TypeOK'
    BY <1>1, <2>1 DEF TypeOK
  <2>7. QED
    BY <1>1, <2>1, <2>4, <2>5, <2>6, StepKeeps DEF SessionOK
<1>7. ASSUME NEW w \in Writers, Commit(w)
      PROVE  IInv'
  <2>1. lock = w
    BY <1>1, <1>7 DEF Commit, SessionOK, LockOf, InLock
  <2>2. messages \in Seq(Row) /\ tx[w].rows \in Seq(Row)
    BY <1>1 DEF TypeOK, Tx
  <2>3. messages' \in Seq(Row)
    BY <1>7, <2>2, ConcatFacts DEF Commit
  <2>4. QED
    BY <1>7, <2>1, <2>3, CloseKeeps DEF Commit
<1>8. ASSUME NEW w \in Writers, Conflict(w) \/ NothingNew(w) \/ Abort(w)
      PROVE  IInv'
  <2>1. Close(w) /\ UNCHANGED messages
    BY <1>8 DEF Conflict, NothingNew, Abort
  <2>2. messages' \in Seq(Row)
    BY <1>1, <2>1 DEF TypeOK
  <2>3. QED
    BY <2>1, <2>2, CloseKeeps
<1>9. CASE UNCHANGED vars
  BY <1>9 DEF vars, IInv, TypeOK, LockInv, StartInv, DecisionFresh, SeqFollows,
             Active
<1>10. QED
  BY <1>2, <1>3, <1>4, <1>5, <1>6, <1>7, <1>8, <1>9
  DEF Next, Proceed, Decide, Quiescent
-----------------------------------------------------------------------------
(* IInv holds at the start. *)
LEMMA Initially == Init => IInv
<1> SUFFICES ASSUME Init PROVE IInv
  OBVIOUS
<1>1. NoTx \in Tx /\ NoTx.phase = "idle" /\ NoTx.rows = << >>
  BY DEF NoTx, TxRecord, Tx
<1>2. TypeOK
  BY <1>1 DEF Init, TypeOK
<1>3. \A w \in Writers : tx[w] = NoTx /\ lock # w
  BY StoreAssumption DEF Init
<1>4. \A w \in Writers : SessionOK(w)
  BY <1>1, <1>3
  DEF SessionOK, LockOf, StartOf, FreshOf, SeqOf, Active, InLock
<1>5. QED
  BY <1>2, <1>4, SessionWise

(* The inductive invariant holds in every state of the store. *)
THEOREM InvariantCorrect == Spec => []IInv
<1>1. IInv /\ [Next]_vars => IInv'
  BY Inductive
<1>2. QED
  BY <1>1, Initially, PTL DEF Spec

(* The variables keep their types. *)
THEOREM TypeCorrect == Spec => []TypeOK
<1>1. IInv => TypeOK
  BY DEF IInv
<1>2. QED
  BY <1>1, InvariantCorrect, PTL

(* What a transaction found new is still what is new when it commits, for   *)
(* every number of concurrent transactions.                                 *)
THEOREM FreshCorrect == Spec => []DecisionFresh
<1>1. IInv => DecisionFresh
  BY DEF IInv
<1>2. QED
  BY <1>1, InvariantCorrect, PTL

(* The sequence numbers continue the committed ones without a gap. *)
THEOREM SeqCorrect == Spec => []SeqFollows
<1>1. IInv => SeqFollows
  BY DEF IInv
<1>2. QED
  BY <1>1, InvariantCorrect, PTL
-----------------------------------------------------------------------------
(* Abstract has its own copy of the operators of Reconciliation; the copies *)
(* are equal, from the bottom up.                                           *)
LEMMA SameEquivalent ==
  ASSUME NEW a, NEW b
  PROVE  Abstract!equivalent(a, b) = equivalent(a, b)
BY Zenon DEF Abstract!equivalent, equivalent, Abstract!canonical_message, canonical_message,
       Abstract!NoCallId, NoCallId, Abstract!PRUNED_TOOL_RESULT,
       PRUNED_TOOL_RESULT

(* The copies of Max agree. *)
LEMMA SameMax ==
  ASSUME NEW S
  PROVE  Abstract!Max(S) = Max(S)
BY Zenon DEF Abstract!Max, Max

(* The copies of _prefix_len agree. *)
LEMMA SamePrefixLen ==
  ASSUME NEW P, NEW I
  PROVE  Abstract!PrefixLen(P, I) = PrefixLen(P, I)
<1>1. \A n : Abstract!PrefixMatches(P, I, n) <=> PrefixMatches(P, I, n)
  BY SameEquivalent, Zenon DEF Abstract!PrefixMatches, PrefixMatches
<1>2. {n \in 0 .. Len(I) : Abstract!PrefixMatches(P, I, n)}
        = {n \in 0 .. Len(I) : PrefixMatches(P, I, n)}
  BY <1>1, Zenon
<1>3. QED
  BY <1>2, SameMax, Zenon DEF Abstract!PrefixLen, PrefixLen

(* The copies of the backward loop agree. *)
LEMMA SameRunBack ==
  ASSUME NEW P, NEW I, NEW pe, NEW ie, NEW floor
  PROVE  Abstract!RunBack(P, I, pe, ie, floor) = RunBack(P, I, pe, ie, floor)
<1>1. \A n : Abstract!RunMatches(P, I, pe, ie, floor, n)
               <=> RunMatches(P, I, pe, ie, floor, n)
  BY SameEquivalent, Zenon DEF Abstract!RunMatches, RunMatches
<1>2. {n \in 0 .. ie : Abstract!RunMatches(P, I, pe, ie, floor, n)}
        = {n \in 0 .. ie : RunMatches(P, I, pe, ie, floor, n)}
  BY <1>1, Zenon
<1>3. QED
  BY <1>2, SameMax, Zenon DEF Abstract!RunBack, RunBack

(* The copies of the anchor search agree. *)
LEMMA SameAnchorEnds ==
  ASSUME NEW P, NEW I, NEW prefix
  PROVE  Abstract!AnchorEnds(P, I, prefix) = AnchorEnds(P, I, prefix)
<1> DEFINE R == Max({prefix + 1, Len(I) - MaxScan}) .. Len(I)
<1>1. {e \in R : Abstract!equivalent(P[Len(P)], I[e])}
        = {e \in R : equivalent(P[Len(P)], I[e])}
  <2>1. \A e \in R : Abstract!equivalent(P[Len(P)], I[e]) <=> equivalent(P[Len(P)], I[e])
    BY SameEquivalent, Zenon
  <2> HIDE DEF R
  <2>2. QED
    BY <2>1, Zenon
<1>2. QED
  BY <1>1, SameMax, Zenon DEF Abstract!AnchorEnds, AnchorEnds

(* The copies of _anchor_before_tail agree. *)
LEMMA SameAnchor ==
  ASSUME NEW P, NEW I, NEW prefix
  PROVE  Abstract!Anchor(P, I, prefix) = Anchor(P, I, prefix)
BY SameAnchorEnds, SameMax, SameRunBack, Zenon DEF Abstract!Anchor, Anchor

(* The copies of the anchored decision agree. *)
LEMMA SameAnchored ==
  ASSUME NEW P, NEW I, NEW prefix
  PROVE  Abstract!Anchored(P, I, prefix) = Anchored(P, I, prefix)
<1>1. \A a, b : Abstract!SummaryBetween(I, a, b) = SummaryBetween(I, a, b)
  BY Zenon DEF Abstract!SummaryBetween, SummaryBetween
<1>2. \A a, b : Abstract!Result(a, b) = Result(a, b)
  BY Zenon DEF Abstract!Result, Result
<1>3. QED
  BY <1>1, <1>2, SameAnchorEnds, SameAnchor DEF Abstract!Anchored, Anchored

(* The copies of reconcile_projection agree. *)
LEMMA SameReconcile ==
  ASSUME NEW P, NEW I
  PROVE  Abstract!reconcile_projection(P, I) = reconcile_projection(P, I)
<1>1. Abstract!IsTail(P, I) <=> IsTail(P, I)
  BY SameRunBack, Zenon DEF Abstract!IsTail, IsTail
<1>2. \A a, b : Abstract!Result(a, b) = Result(a, b)
  BY Zenon DEF Abstract!Result, Result
<1>3. QED
  BY <1>1, <1>2, SamePrefixLen, SameAnchored
  DEF Abstract!reconcile_projection, reconcile_projection

(* So do those of what the store makes of its result. *)
LEMMA SameAccepts ==
  ASSUME NEW P, NEW I
  PROVE  /\ Abstract!Accepts(P, I) = Accepts(P, I)
         /\ Abstract!NewTail(P, I) = NewTail(P, I)
BY SameReconcile, Zenon DEF Abstract!Accepts, Accepts, Abstract!NewTail, NewTail

(* The copies of the promises agree. *)
LEMMA SamePromises ==
  ASSUME NEW P, NEW I
  PROVE  /\ Abstract!TailContinues(P, I) <=> TailContinues(P, I)
         /\ Abstract!NoForkIn(P, I) <=> NoForkIn(P, I)
<1>1. Abstract!TailContinues(P, I) <=> TailContinues(P, I)
  BY SameReconcile, SameAccepts, SameEquivalent, Zenon
  DEF Abstract!TailContinues, TailContinues
<1>2. \A n : Abstract!IsRun(P, I, n) <=> IsRun(P, I, n)
  BY SameEquivalent, Zenon DEF Abstract!IsRun, IsRun
<1>3. \A a, b : Abstract!SummaryBetween(I, a, b) <=> SummaryBetween(I, a, b)
  BY Zenon DEF Abstract!SummaryBetween, SummaryBetween
<1>4. Abstract!NoForkIn(P, I) <=> NoForkIn(P, I)
  BY <1>2, <1>3, SameReconcile, SameAccepts, Zenon DEF Abstract!NoForkIn, NoForkIn
<1>5. QED
  BY <1>1, <1>4

(* The detailed store implements the atomic one: a committed transaction is *)
(* one Sync of its request, every other step leaves the transcript alone.   *)
THEOREM RefinementCorrect == Spec => ImplementsTranscript
<1>1. Init => Abstract!Empty
  BY ContentsEmpty DEF Init, Abstract!Empty
<1>2. IInv /\ [Next]_vars => [Abstract!Reconcile]_(Contents(messages))
  <2> SUFFICES ASSUME IInv, [Next]_vars
               PROVE  Abstract!Reconcile \/ UNCHANGED Contents(messages)
    OBVIOUS
  <2>1. ASSUME NEW w \in Writers, Commit(w)
        PROVE  Abstract!Reconcile
    <3>1. /\ tx[w].phase = "inserting" /\ tx[w].suffix = << >>
          /\ messages' = messages \o tx[w].rows
      BY <2>1 DEF Commit
    <3>2. /\ messages \in Seq(Row) /\ tx[w].rows \in Seq(Row)
          /\ tx[w].incoming \in Projections
      BY <3>1 DEF IInv, TypeOK, Tx, StartInv, Active
    <3>3. /\ Accepts(Contents(messages), tx[w].incoming)
          /\ Contents(tx[w].rows) \o << >> =
               NewTail(Contents(messages), tx[w].incoming)
      BY <3>1 DEF IInv, DecisionFresh
    <3>4. Contents(tx[w].rows) \o << >> = Contents(tx[w].rows)
      BY <3>2, ContentsFacts
    <3>5. Contents(messages') = Contents(messages) \o Contents(tx[w].rows)
      BY <3>1, <3>2, ContentsConcat
    <3>6. /\ Abstract!Accepts(Contents(messages), tx[w].incoming)
          /\ Contents(messages') = Contents(messages)
               \o Abstract!NewTail(Contents(messages), tx[w].incoming)
      BY <3>3, <3>4, <3>5, SameAccepts
    <3>7. Abstract!Sync(tx[w].incoming)
      BY <3>6 DEF Abstract!Sync
    <3>8. QED
      BY <3>2, <3>7 DEF Abstract!Reconcile
  <2>2. CASE \A w \in Writers : ~Commit(w)
    <3>1. UNCHANGED messages
      BY <2>2 DEF Next, vars, Proceed, Decide, Quiescent, Begin, LockConversation,
              Conflict, NothingNew, FindTail, ReadMaxSeq, InsertMessage, Abort
    <3>2. QED
      BY <3>1
  <2>3. QED
    BY <2>1, <2>2
<1>3. QED
  BY <1>1, <1>2, InvariantCorrect, PTL DEF Spec, ImplementsTranscript, Abstract!TranscriptSpec
-----------------------------------------------------------------------------
(* The promises of the abstract specification, and through the refinement   *)
(* those of the store.                                                      *)

IsTranscript == Contents(messages) \in Seq(Message)

Promises ==
  Abstract!ReplayIdempotent /\ Abstract!AnchoredAppend /\ Abstract!ForksRefused

(* They hold of every sequence of messages. *)
LEMMA PromisesOfTranscripts == IsTranscript => Promises
<1> SUFFICES ASSUME Contents(messages) \in Seq(Message) PROVE Promises
  BY DEF IsTranscript
<1>1. PICK P \in Seq(Message) : P = Contents(messages)
  OBVIOUS
<1>2. Abstract!AnchoredAppend
  BY <1>1, StoreAssumption, TailContinuesAlways, SamePromises DEF Abstract!AnchoredAppend
<1>3. Abstract!ForksRefused
  BY <1>1, StoreAssumption, NoForkAlways, SamePromises DEF Abstract!ForksRefused
<1>4. ASSUME NEW I \in Projections, Abstract!Accepts(P, I)
      PROVE  LET after == P \o Abstract!NewTail(P, I)
             IN  Abstract!Accepts(after, I) /\ Abstract!NewTail(after, I) = << >>
  <2>1. I \in Seq(Message) /\ Accepts(P, I)
    BY <1>4, StoreAssumption, SameAccepts
  <2>2. LET after == P \o NewTail(P, I)
        IN  Accepts(after, I) /\ NewTail(after, I) = << >>
    BY <2>1, ReplayAlways, Zenon
  <2>3. QED
    BY <2>2, SameAccepts, Zenon
<1>5. Abstract!ReplayIdempotent
  BY <1>1, <1>4, Zenon DEF Abstract!ReplayIdempotent
<1>6. QED
  BY <1>2, <1>3, <1>5 DEF Promises

(* In every behaviour of the abstract specification, whatever carries it. *)
LEMMA PromisesOfAbstract == Abstract!TranscriptSpec => []Promises
<1>1. Abstract!Empty => IsTranscript
  BY DEF Abstract!Empty, IsTranscript
<1>2. IsTranscript /\ [Abstract!Reconcile]_(Contents(messages)) => IsTranscript'
  <2> SUFFICES ASSUME Contents(messages) \in Seq(Message), Abstract!Reconcile
               PROVE  Contents(messages)' \in Seq(Message)
    BY DEF IsTranscript
  <2>1. PICK P \in Seq(Message) : P = Contents(messages)
    OBVIOUS
  <2>2. PICK I \in Projections : Abstract!Sync(I) \/ Abstract!Reject(I)
    BY DEF Abstract!Reconcile
  <2>3. I \in Seq(Message)
    BY StoreAssumption
  <2>4. CASE Abstract!Sync(I)
    <3>1. Contents(messages)' = P \o NewTail(P, I)
      BY <2>1, <2>4, SameAccepts DEF Abstract!Sync
    <3>2. NewTail(P, I) \in Seq(Message)
      BY <2>3, TailFacts
    <3>3. QED
      BY <3>1, <3>2, ConcatFacts
  <2>5. CASE Abstract!Reject(I)
    BY <2>5 DEF Abstract!Reject
  <2>6. QED
    BY <2>2, <2>4, <2>5
<1>3. QED
  BY <1>1, <1>2, PromisesOfTranscripts, PTL DEF Abstract!TranscriptSpec

(* In every state of the store: a request that was just accepted can be     *)
(* repeated without a conflict and without inserting anything, new messages *)
(* are only stored behind the message they follow in the client's history,  *)
(* and a rewritten history without a compaction summary is refused.         *)
THEOREM PromisesCorrect == Spec => []Promises
BY PromisesOfAbstract, RefinementCorrect, PTL DEF ImplementsTranscript
-----------------------------------------------------------------------------
(* The messages up to row k that made a call with its id. *)
CallsUpTo(rows, k) ==
  {j \in 1 .. k : rows[k].content.tool_call_id \in rows[j].content.calls}

(* RefsSound of row k, of all rows, and of what each transaction sees. *)
Linked(rows, k) ==
  LET m == rows[k].content
  IN  IF m.role = "tool" /\ m.tool_call_id # NoCallId /\ CallsUpTo(rows, k) # {}
        THEN rows[k].ref \in CallsUpTo(rows, k)
        ELSE rows[k].ref = NoRef

AllLinked(rows) == \A k \in 1 .. Len(rows) : Linked(rows, k)

RefInv ==
  /\ AllLinked(messages)
  /\ \A w \in Writers :
       tx[w].phase = "inserting" => AllLinked(messages \o tx[w].rows)

(* Later rows do not matter to row k. *)
LEMMA LinkedKept ==
  ASSUME NEW R \in Seq(Row), NEW S \in Seq(Row), NEW k \in 1 .. Len(R),
         \A j \in 1 .. k : S[j] = R[j], Linked(R, k)
  PROVE  Linked(S, k)
<1>1. k \in 1 .. k
  OBVIOUS
<1>2. S[k] = R[k]
  BY <1>1
<1>3. CallsUpTo(S, k) = CallsUpTo(R, k)
  BY <1>2 DEF CallsUpTo
<1>4. QED
  BY <1>2, <1>3 DEF Linked

(* A row linked by _persist_tool_parts keeps all rows linked. *)
LEMMA LinkedAppend ==
  ASSUME NEW R \in Seq(Row), AllLinked(R), NEW m \in Message, NEW c \in Nat,
         NEW r \in Nat, r \in ToolCallRefs(m, R, c)
  PROVE  AllLinked(Append(R, RowOf(m, c, r)))
<1>1. PICK n \in Nat : n = Len(R)
  OBVIOUS
<1>2. PICK x \in Row : x = RowOf(m, c, r) /\ x.content = m /\ x.ref = r
  <2>1. /\ RowOf(m, c, r) \in Row /\ RowOf(m, c, r).content = m
        /\ RowOf(m, c, r).ref = r
    BY DEF RowOf, Row
  <2>2. QED
    BY <2>1, Zenon
<1>3. PICK y \in Row : y = RowOf(m, c, NoRef) /\ y.content = m
  <2>1. RowOf(m, c, NoRef) \in Row /\ RowOf(m, c, NoRef).content = m
    BY DEF RowOf, Row, NoRef
  <2>2. QED
    BY <2>1, Zenon
<1>4. PICK S \in Seq(Row) :
        /\ S = Append(R, x) /\ Len(S) = n + 1 /\ S[n + 1] = x
        /\ \A j \in 1 .. n : S[j] = R[j]
  <2>1. /\ Append(R, x) \in Seq(Row) /\ Len(Append(R, x)) = n + 1
        /\ Append(R, x)[n + 1] = x
        /\ \A j \in 1 .. n : Append(R, x)[j] = R[j]
    BY <1>1
  <2>2. QED
    BY <2>1, Zenon
<1>5. PICK T \in Seq(Row) :
        /\ T = Append(R, y) /\ Len(T) = n + 1 /\ T[n + 1] = y
        /\ \A j \in 1 .. n : T[j] = R[j]
  <2>1. /\ Append(R, y) \in Seq(Row) /\ Len(Append(R, y)) = n + 1
        /\ Append(R, y)[n + 1] = y
        /\ \A j \in 1 .. n : Append(R, y)[j] = R[j]
    BY <1>1
  <2>2. QED
    BY <2>1, Zenon
<1>6. \A j \in 1 .. n + 1 : S[j].content = T[j].content
  <2> TAKE j \in 1 .. n + 1
  <2>1. j \in 1 .. n \/ j = n + 1
    BY <1>1
  <2>2. QED
    BY <1>2, <1>3, <1>4, <1>5, <2>1
<1>7. CallsOf(m.tool_call_id, T) = CallsUpTo(S, n + 1)
  BY <1>2, <1>4, <1>5, <1>6 DEF CallsOf, CallsUpTo
<1>8. r \in IF m.role = "tool" /\ m.tool_call_id # NoCallId
                /\ CallsOf(m.tool_call_id, T) # {}
              THEN {k \in CallsOf(m.tool_call_id, T) :
                      \A l \in CallsOf(m.tool_call_id, T) : T[l].created <= T[k].created}
              ELSE {NoRef}
  BY <1>3, <1>5, Zenon DEF ToolCallRefs
<1>9. Linked(S, n + 1)
  BY <1>2, <1>4, <1>7, <1>8, Zenon DEF Linked
<1>10. ASSUME NEW k \in 1 .. n
       PROVE  Linked(S, k)
  <2>1. k \in 1 .. Len(R) /\ \A j \in 1 .. k : j \in 1 .. n
    BY <1>1
  <2>2. Linked(R, k)
    BY <2>1 DEF AllLinked
  <2>3. QED
    BY <1>4, <2>1, <2>2, LinkedKept
<1>11. \A k \in 1 .. Len(S) : k \in 1 .. n \/ k = n + 1
  BY <1>1, <1>4
<1>12. AllLinked(S)
  BY <1>9, <1>10, <1>11 DEF AllLinked
<1>13. QED
  BY <1>2, <1>4, <1>12

(* One round of the loop of _insert_messages leaves all rows linked. *)
LEMMA InsertLinks ==
  ASSUME IInv, RefInv, NEW w \in Writers, InsertMessage(w)
  PROVE  AllLinked(messages \o tx'[w].rows)
<1>1. /\ tx \in [Writers -> Tx] /\ tx[w] \in Tx /\ messages \in Seq(Row)
      /\ tx[w].phase = "inserting" /\ tx[w].suffix # << >>
  BY DEF IInv, TypeOK, InsertMessage
<1>2. /\ tx[w].rows \in Seq(Row) /\ tx[w].suffix \in Seq(Message) /\ tx[w].created \in Nat
  BY <1>1 DEF Tx
<1>3. PICK m \in Message : m = Head(tx[w].suffix)
  BY <1>1, <1>2
<1>4. PICK R \in Seq(Row) : R = messages \o tx[w].rows
  BY <1>1, <1>2, ConcatFacts
<1>5. PICK r \in ToolCallRefs(m, R, tx[w].created) :
        tx' = [tx EXCEPT ![w].seq = @ + 1,
                         ![w].suffix = Tail(@),
                         ![w].rows = Append(@, RowOf(m, tx[w].created, r))]
  BY <1>3, <1>4 DEF InsertMessage
<1>6. r \in Nat
  <2>1. \A id, rows : CallsOf(id, rows) \subseteq 1 .. Len(rows)
    BY DEF CallsOf
  <2>2. r \in Int
    BY <1>5, <2>1 DEF ToolCallRefs, NoRef
  <2>3. r = 0 \/ r >= 1
    BY <1>5, <2>1 DEF ToolCallRefs, NoRef
  <2>4. QED
    BY <2>2, <2>3
<1>7. tx'[w].rows = Append(tx[w].rows, RowOf(m, tx[w].created, r))
  BY <1>1, <1>5 DEF Tx
<1>8. RowOf(m, tx[w].created, r) \in Row
  BY <1>2, <1>6 DEF RowOf, Row
<1>9. messages \o tx'[w].rows = Append(R, RowOf(m, tx[w].created, r))
  BY <1>1, <1>2, <1>4, <1>7, <1>8
<1>10. AllLinked(R)
  BY <1>1, <1>4 DEF RefInv
<1>11. AllLinked(Append(R, RowOf(m, tx[w].created, r)))
  BY <1>2, <1>5, <1>6, <1>10, LinkedAppend
<1>12. QED
  BY <1>9, <1>11

(* Every step keeps RefInv: only the holder of the lock inserts or commits. *)
LEMMA RefKept == IInv /\ RefInv /\ [Next]_vars => RefInv'
<1> SUFFICES ASSUME IInv, RefInv, [Next]_vars PROVE RefInv'
  OBVIOUS
<1>1. TypeOK /\ messages \in Seq(Row)
  BY DEF IInv, TypeOK
<1>2. ASSUME NEW w \in Writers, OthersKept(w), UNCHANGED messages,
             tx'[w].phase = "inserting" => AllLinked(messages \o tx'[w].rows)
      PROVE  RefInv'
  BY <1>2 DEF RefInv, OthersKept
<1>3. ASSUME NEW w \in Writers, NEW I \in Projections, Begin(w, I)
      PROVE  RefInv'
  BY <1>1, <1>2, <1>3, BeginEffect
<1>4. ASSUME NEW w \in Writers, LockConversation(w)
      PROVE  RefInv'
  BY <1>1, <1>2, <1>4, LockEffect
<1>5. ASSUME NEW w \in Writers, FindTail(w)
      PROVE  RefInv'
  BY <1>1, <1>2, <1>5, FindTailEffect
<1>6. ASSUME NEW w \in Writers, ReadMaxSeq(w)
      PROVE  RefInv'
  <2>1. OthersKept(w) /\ UNCHANGED messages /\ tx'[w].rows = tx[w].rows
    BY <1>1, <1>6, ReadEffect
  <2>2. tx[w].rows = << >>
    BY <1>6 DEF ReadMaxSeq, IInv, StartInv
  <2>3. messages \o << >> = messages
    BY <1>1
  <2>4. AllLinked(messages \o tx'[w].rows)
    BY <2>1, <2>2, <2>3 DEF RefInv
  <2>5. QED
    BY <1>2, <2>1, <2>4
<1>7. ASSUME NEW w \in Writers, InsertMessage(w)
      PROVE  RefInv'
  BY <1>1, <1>2, <1>7, InsertEffect, InsertLinks
<1>8. ASSUME NEW w \in Writers, Conflict(w) \/ NothingNew(w) \/ Abort(w)
      PROVE  RefInv'
  <2>1. Close(w) /\ UNCHANGED messages
    BY <1>8 DEF Conflict, NothingNew, Abort
  <2>2. QED
    BY <1>1, <1>2, <2>1, CloseEffect
<1>9. ASSUME NEW w \in Writers, Commit(w)
      PROVE  RefInv'
  <2>1. /\ tx[w].phase = "inserting" /\ messages' = messages \o tx[w].rows
        /\ Close(w)
    BY <1>9 DEF Commit
  <2>2. OthersKept(w) /\ tx'[w].phase = "idle"
    BY <1>1, <2>1, CloseEffect
  <2>3. AllLinked(messages')
    BY <2>1 DEF RefInv
  <2>4. ASSUME NEW v \in Writers
        PROVE  tx'[v].phase # "inserting"
    <3>1. CASE v = w
      BY <2>2, <3>1
    <3>2. CASE v # w
      BY <2>1, <2>2, <3>2 DEF IInv, LockInv, InLock, OthersKept
    <3>3. QED
      BY <3>1, <3>2
  <2>5. QED
    BY <2>3, <2>4 DEF RefInv
<1>10. CASE UNCHANGED vars
  BY <1>10 DEF vars, RefInv
<1>11. QED
  BY <1>3, <1>4, <1>5, <1>6, <1>7, <1>8, <1>9, <1>10
  DEF Next, Proceed, Decide, Quiescent

(* Every stored tool result is linked to a call with its id that is not     *)
(* later than it, or there is none, whatever the transactions and their     *)
(* clocks.                                                                  *)
THEOREM RefsCorrect == Spec => []RefsSound
<1>1. IInv /\ RefInv => RefsSound
  <2> SUFFICES ASSUME IInv, RefInv, NEW k \in 1 .. Len(messages)
               PROVE  LET m     == messages[k].content
                          calls == CallsOf(m.tool_call_id, SubSeq(messages, 1, k))
                      IN  IF m.role = "tool" /\ m.tool_call_id # NoCallId /\ calls # {}
                            THEN messages[k].ref \in calls
                            ELSE messages[k].ref = NoRef
    BY DEF RefsSound
  <2>1. messages \in Seq(Row)
    BY DEF IInv, TypeOK
  <2>2. /\ Len(SubSeq(messages, 1, k)) = k
        /\ \A j \in 1 .. k : SubSeq(messages, 1, k)[j] = messages[j]
    BY <2>1
  <2>3. CallsOf(messages[k].content.tool_call_id, SubSeq(messages, 1, k))
          = CallsUpTo(messages, k)
    BY <2>2 DEF CallsOf, CallsUpTo
  <2>4. Linked(messages, k)
    BY DEF RefInv, AllLinked
  <2>5. QED
    BY <2>3, <2>4, Zenon DEF Linked
<1>2. Init => RefInv
  BY DEF Init, RefInv, AllLinked, NoTx, TxRecord
<1>3. IInv /\ [Next]_vars => IInv'
  BY Inductive
<1>4. QED
  BY <1>1, <1>2, <1>3, Initially, RefKept, PTL DEF Spec
=============================================================================
