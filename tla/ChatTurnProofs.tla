--------------------------- MODULE ChatTurnProofs ---------------------------
(***************************************************************************)
(* For any number of concurrent requests, any histories and any answers:    *)
(* full histories can be sent again at any time, an answer is stored right  *)
(* behind the message it answers, and only the first of identical requests  *)
(* stores one.                                                              *)
(***************************************************************************)
EXTENDS ChatTurn, ReconciliationProofs

-----------------------------------------------------------------------------
(* The promises of the transcript, for all histories. *)

IsTranscript == transcript \in Seq(Message)

(* The transcript stays a sequence of messages. *)
LEMMA TranscriptType == TranscriptSpec => []IsTranscript
<1>1. Empty => IsTranscript
  BY DEF Empty, IsTranscript
<1>2. IsTranscript /\ [Reconcile]_transcript => IsTranscript'
  <2> SUFFICES ASSUME transcript \in Seq(Message), NEW I \in Projections, Sync(I) \/ Reject(I)
               PROVE  transcript' \in Seq(Message)
    BY DEF IsTranscript, Reconcile
  <2>1. I \in Seq(Message) /\ NewTail(transcript, I) \in Seq(Message)
    BY ProjectionsAssumption, TailFacts
  <2>2. QED
    BY <2>1, ConcatFacts DEF Sync, Reject
<1>3. QED
  BY <1>1, <1>2, PTL DEF TranscriptSpec

(* A request that was just accepted can be repeated without a conflict and  *)
(* without inserting anything again, for every transcript and all histories. *)
THEOREM ReplayCorrect == TranscriptSpec => []ReplayIdempotent
<1>1. IsTranscript => ReplayIdempotent
  BY ProjectionsAssumption, ReplayAlways, Zenon DEF IsTranscript, ReplayIdempotent
<1>2. QED
  BY <1>1, TranscriptType, PTL

(* New messages are only stored behind the message they follow in the       *)
(* client's history, for every transcript and all histories.                *)
THEOREM AppendCorrect == TranscriptSpec => []AnchoredAppend
<1>1. IsTranscript => AnchoredAppend
  BY ProjectionsAssumption, TailContinuesAlways DEF IsTranscript, AnchoredAppend
<1>2. QED
  BY <1>1, TranscriptType, PTL

(* A rewritten history without a compaction summary is refused, for every   *)
(* transcript and all histories.                                            *)
THEOREM ForkCorrect == TranscriptSpec => []ForksRefused
<1>1. IsTranscript => ForksRefused
  BY ProjectionsAssumption, NoForkAlways DEF IsTranscript, ForksRefused
<1>2. QED
  BY <1>1, TranscriptType, PTL

-----------------------------------------------------------------------------
(* The handler. *)

(* A full history that was reconciled is a prefix of the transcript. *)
SyncedPrefix ==
  /\ transcript \in Seq(Message)
  /\ synced \subseteq Seq(Message)
  /\ \A I \in synced : PrefixMatches(transcript, I, Len(I))

(* A request in flight has a history. *)
HasHistory == \A r \in Requests : InFlight(r) => turn[r].incoming \in Histories

(* The inductive invariant. *)
IInv == TypeOK /\ SyncedPrefix /\ HasHistory

-----------------------------------------------------------------------------
(* A successful reconcile_history keeps the synced histories prefixes. *)
LEMMA PersistKeeps ==
  ASSUME SyncedPrefix, NEW I \in Seq(Message), Persist(I)
  PROVE  SyncedPrefix'
<1>1. /\ transcript \in Seq(Message) /\ NewTail(transcript, I) \in Seq(Message)
      /\ transcript' = transcript \o NewTail(transcript, I)
  BY TailFacts DEF SyncedPrefix, Persist, Sync
<1>2. transcript' \in Seq(Message)
  BY <1>1, ConcatFacts
<1>3. synced' \subseteq synced \cup {I}
  BY DEF Persist, Sync
<1>4. synced' \subseteq Seq(Message)
  BY <1>3 DEF SyncedPrefix
<1>5. ASSUME NEW J \in synced
      PROVE  PrefixMatches(transcript', J, Len(J))
  <2>1. J \in Seq(Message) /\ PrefixMatches(transcript, J, Len(J))
    BY DEF SyncedPrefix
  <2>2. QED
    BY <1>1, <2>1, PrefixGrows
<1>6. CASE PrefixLen(transcript, I) = Len(transcript)
  <2>1. PrefixMatches(transcript', I, Len(I))
    BY <1>1, <1>6, PrefixAfterAppend
  <2>2. QED
    BY <1>2, <1>3, <1>4, <1>5, <2>1 DEF SyncedPrefix
<1>7. CASE PrefixLen(transcript, I) = Len(I)
  <2>1. PrefixMatches(transcript, I, Len(I))
    BY <1>1, <1>7, PrefixFacts
  <2>2. PrefixMatches(transcript', I, Len(I))
    BY <1>1, <2>1, PrefixGrows
  <2>3. QED
    BY <1>2, <1>3, <1>4, <1>5, <2>2 DEF SyncedPrefix
<1>8. CASE PrefixLen(transcript, I) \notin {Len(transcript), Len(I)}
  <2>1. synced' = synced
    BY <1>8 DEF Persist, Sync
  <2>2. QED
    BY <1>2, <1>4, <1>5, <2>1 DEF SyncedPrefix
<1>9. QED
  BY <1>6, <1>7, <1>8

(* So does a step that stores nothing. *)
LEMMA NothingKeeps == SyncedPrefix /\ PersistNothing => SyncedPrefix'
BY DEF SyncedPrefix, PersistNothing

(* What persist_assistant hands to the store is a history. *)
LEMMA WithReply ==
  ASSUME IInv, NEW r \in Requests, InFlight(r), turn[r].reply # << >>
  PROVE  /\ turn[r].incoming \in Seq(Message) /\ turn[r].incoming # << >>
         /\ \E m \in Message : turn[r].reply = <<m>>
         /\ turn[r].incoming \o turn[r].reply \in Seq(Message)
<1>1. turn[r] \in Turn /\ turn[r].incoming \in Histories
  BY DEF IInv, TypeOK, HasHistory
<1>2. turn[r].incoming \in Seq(Message) /\ turn[r].incoming # << >>
  BY <1>1, TurnAssumption
<1>3. turn[r].reply \in {<<m>> : m \in Replies}
  BY <1>1 DEF Turn
<1>4. PICK m \in Message : turn[r].reply = <<m>>
  BY <1>3, TurnAssumption
<1>5. <<m>> \in Seq(Message)
  OBVIOUS
<1>6. turn[r].incoming \o <<m>> \in Seq(Message)
  BY <1>2, <1>5, ConcatFacts
<1>7. QED
  BY <1>2, <1>4, <1>6

(* No step disturbs what was reconciled. *)
LEMMA SyncedKept == IInv /\ [Next]_vars => SyncedPrefix'
<1> SUFFICES ASSUME IInv, [Next]_vars PROVE SyncedPrefix'
  OBVIOUS
<1>0. SyncedPrefix
  BY DEF IInv
<1>1. CASE PersistNothing
  BY <1>0, <1>1, NothingKeeps
<1>2. ASSUME NEW r \in Requests, Inbound(r) \/ InboundFails(r)
      PROVE  SyncedPrefix'
  <2>1. InFlight(r)
    BY <1>2 DEF Inbound, InboundFails, InFlight
  <2>2. turn[r].incoming \in Seq(Message)
    BY <2>1, TurnAssumption DEF IInv, HasHistory
  <2>3. Persist(turn[r].incoming) \/ PersistNothing
    BY <1>2 DEF Inbound, InboundFails, PersistFails
  <2>4. QED
    BY <1>0, <2>2, <2>3, PersistKeeps, NothingKeeps
<1>3. ASSUME NEW r \in Requests, PersistReply(r) \/ ReplyFails(r)
      PROVE  SyncedPrefix'
  <2>1. InFlight(r) /\ turn[r].reply # << >>
    BY <1>3 DEF PersistReply, ReplyFails, InFlight
  <2>2. turn[r].incoming \o turn[r].reply \in Seq(Message)
    BY <2>1, WithReply
  <2>3. Persist(turn[r].incoming \o turn[r].reply) \/ PersistNothing
    BY <1>3 DEF PersistReply, ReplyFails, PersistFails
  <2>4. QED
    BY <1>0, <2>2, <2>3, PersistKeeps, NothingKeeps
<1>4. CASE UNCHANGED vars
  BY <1>4, <1>1 DEF vars, PersistNothing
<1>5. QED
  BY <1>1, <1>2, <1>3, <1>4
  DEF Next, Step, Quiescent, Receive, Diverges, Plan, Overflow, Complete, OpenStream,
      InferenceFails, StreamEnds, StreamCut, DropReply, Index, Abandon
-----------------------------------------------------------------------------
(* The records of the requests. *)
TurnOK(t) == t \in Turn /\ (t.phase # "idle" => t.incoming \in Histories)

TurnsOK == turn \in [Requests -> {t \in Turn : TurnOK(t)}]

(* TurnsOK is what IInv says of the requests. *)
LEMMA TurnWise ==
  TurnsOK <=> turn \in [Requests -> Turn] /\ HasHistory
BY DEF TurnsOK, TurnOK, HasHistory, InFlight

(* A request in flight may move on to its next phase. *)
LEMMA NewPhase ==
  ASSUME NEW t, TurnOK(t), t.phase # "idle",
         NEW p \in {"planning", "inferring", "streaming", "replied", "indexing"}
  PROVE  TurnOK([t EXCEPT !.phase = p])
BY DEF TurnOK, Turn

(* An answer of the model arrives. *)
LEMMA NewReply ==
  ASSUME NEW t, TurnOK(t), t.phase # "idle", NEW m \in Replies
  PROVE  TurnOK([t EXCEPT !.phase = "replied", !.reply = <<m>>])
BY DEF TurnOK, Turn

(* A request degrades to passthrough. *)
LEMMA NoStore ==
  ASSUME NEW t, TurnOK(t), t.phase # "idle"
  PROVE  TurnOK([t EXCEPT !.phase = "planning", !.store = FALSE])
BY DEF TurnOK, Turn

(* Marking a request as beaten keeps its record in order. *)
LEMMA NowBeaten ==
  ASSUME NEW t, TurnOK(t)
  PROVE  TurnOK([t EXCEPT !.beaten = TRUE])
BY DEF TurnOK, Turn

(* The record of an idle request is in order. *)
LEMMA NoTurnOK == TurnOK(NoTurn)
BY DEF TurnOK, Turn, NoTurn, TurnRecord

(* The record of a request just received is in order. *)
LEMMA NewTurnOK ==
  ASSUME NEW I \in Histories, NEW p \in {"received", "planning"}, NEW b \in BOOLEAN
  PROVE  TurnOK(TurnRecord(p, I, b, << >>))
BY DEF TurnOK, Turn, TurnRecord

(* A step that gives one request a record that is in order. *)
LEMMA OneTurn ==
  ASSUME TurnsOK, NEW r \in Requests, NEW t, TurnOK(t),
         turn' = [turn EXCEPT ![r] = t]
  PROVE  TurnsOK'
<1>1. t \in {x \in Turn : TurnOK(x)}
  BY DEF TurnOK
<1>2. QED
  BY <1>1 DEF TurnsOK

(* Every step of the handler keeps the records in order. *)
LEMMA TurnsKept == TurnsOK /\ [Next]_vars => TurnsOK'
<1> SUFFICES ASSUME TurnsOK, [Next]_vars PROVE TurnsOK'
  OBVIOUS
<1>0. \A r \in Requests : TurnOK(turn[r])
  BY DEF TurnsOK
<1>1. ASSUME NEW r \in Requests, NEW I \in Histories, NEW b \in BOOLEAN, Receive(r, I, b)
      PROVE  TurnsOK'
  <2>1. PICK p \in {"received", "planning"} :
          turn' = [turn EXCEPT ![r] = TurnRecord(p, I, b, << >>)]
    BY <1>1 DEF Receive
  <2>2. QED
    BY <2>1, NewTurnOK, OneTurn
<1>2. ASSUME NEW r \in Requests, Respond(r)
      PROVE  TurnsOK'
  BY <1>2, NoTurnOK, OneTurn DEF Respond
<1>3. ASSUME NEW r \in Requests, Inbound(r)
      PROVE  TurnsOK'
  <2>1. turn[r].phase # "idle" /\ turn' = [turn EXCEPT ![r] = [turn[r] EXCEPT !.phase = "planning"]]
    BY <1>3 DEF Inbound
  <2>2. QED
    BY <1>0, <2>1, NewPhase, OneTurn
<1>4. ASSUME NEW r \in Requests, InboundFails(r)
      PROVE  TurnsOK'
  <2>1. turn[r].phase # "idle" /\ turn' = [turn EXCEPT ![r] = [turn[r] EXCEPT !.phase = "planning", !.store = FALSE]]
    BY <1>4 DEF InboundFails
  <2>2. QED
    BY <1>0, <2>1, NoStore, OneTurn
<1>5. ASSUME NEW r \in Requests, Plan(r) \/ OpenStream(r) \/ StreamCut(r)
      PROVE  TurnsOK'
  <2>1. PICK p \in {"inferring", "streaming", "replied"} :
          turn[r].phase # "idle" /\ turn' = [turn EXCEPT ![r] = [turn[r] EXCEPT !.phase = p]]
    BY <1>5 DEF Plan, OpenStream, StreamCut
  <2>2. QED
    BY <1>0, <2>1, NewPhase, OneTurn
<1>6. ASSUME NEW r \in Requests, NEW m \in Replies, Complete(r, m) \/ StreamEnds(r, m)
      PROVE  TurnsOK'
  <2>1. turn[r].phase # "idle" /\ turn' = [turn EXCEPT ![r] = [turn[r] EXCEPT !.phase = "replied", !.reply = <<m>>]]
    BY <1>6 DEF Complete, StreamEnds
  <2>2. QED
    BY <1>0, <2>1, NewReply, OneTurn
<1>7. ASSUME NEW r \in Requests, PersistReply(r)
      PROVE  TurnsOK'
  <2>1. TurnOK([turn[r] EXCEPT !.phase = "indexing"])
    BY <1>0, <1>7, NewPhase DEF PersistReply
  <2>2. ASSUME NEW q \in Requests
        PROVE  TurnOK(turn'[q])
    <3>1. TurnOK(turn[q]) /\ TurnOK([turn[q] EXCEPT !.beaten = TRUE])
      BY <1>0, NowBeaten
    <3>2. turn'[q] = IF q = r THEN [turn[r] EXCEPT !.phase = "indexing"]
                     ELSE IF Beat(r, q) THEN [turn[q] EXCEPT !.beaten = TRUE]
                     ELSE turn[q]
      BY <1>7 DEF PersistReply
    <3>3. QED
      BY <2>1, <3>1, <3>2, Zenon
  <2>3. \A q \in Requests : turn'[q] \in {t \in Turn : TurnOK(t)}
    BY <2>2 DEF TurnOK
  <2>4. turn' = [q \in Requests |-> turn'[q]]
    BY <1>7 DEF PersistReply
  <2>5. QED
    BY <2>3, <2>4 DEF TurnsOK
<1>8. CASE UNCHANGED turn
  BY <1>8 DEF TurnsOK
<1>9. QED
  BY <1>1, <1>2, <1>3, <1>4, <1>5, <1>6, <1>7, <1>8
  DEF Next, Step, Quiescent, vars, Diverges, Overflow, InferenceFails, DropReply,
      ReplyFails, Index, Abandon

(* Only Receive counts a request, and only below the bound. *)
LEMMA TurnsBounded ==
  turns \in 0 .. MaxTurns /\ [Next]_vars => turns' \in 0 .. MaxTurns
<1> SUFFICES ASSUME turns \in 0 .. MaxTurns, [Next]_vars
             PROVE  turns' \in 0 .. MaxTurns
  OBVIOUS
<1>1. CASE UNCHANGED turns
  BY <1>1
<1>2. CASE turns < MaxTurns /\ turns' = turns + 1
  BY <1>2, TurnAssumption
<1>3. ASSUME NEW r \in Requests, Step(r)
      PROVE  UNCHANGED turns
  BY <1>3, Zenon
  DEF Step, Inbound, InboundFails, Diverges, Plan, Overflow, Complete, OpenStream,
      InferenceFails, StreamEnds, StreamCut, PersistReply, DropReply, ReplyFails,
      Index, Abandon
<1>4. ASSUME NEW r \in Requests, NEW I, NEW b, Receive(r, I, b)
      PROVE  turns < MaxTurns /\ turns' = turns + 1
  BY <1>4 DEF Receive
<1>5. QED
  BY <1>1, <1>2, <1>3, <1>4 DEF Next, Quiescent, vars

(* IInv holds at the start. *)
LEMMA Initially == Init => IInv
<1> SUFFICES ASSUME Init PROVE IInv
  OBVIOUS
<1>1. TurnsOK
  BY NoTurnOK DEF Init, TurnsOK, TurnOK
<1>2. SyncedPrefix
  BY DEF Init, Empty, SyncedPrefix
<1>3. QED
  BY <1>1, <1>2, TurnWise, TurnAssumption DEF IInv, TypeOK, Init, Empty

(* Every step keeps IInv. *)
LEMMA Inductive == IInv /\ [Next]_vars => IInv'
<1> SUFFICES ASSUME IInv, [Next]_vars PROVE IInv'
  OBVIOUS
<1>1. SyncedPrefix'
  BY SyncedKept
<1>2. TurnsOK'
  BY TurnWise, TurnsKept DEF IInv, TypeOK
<1>3. turn' \in [Requests -> Turn] /\ HasHistory'
  BY <1>2 DEF TurnsOK, TurnOK, HasHistory, InFlight
<1>4. turns' \in 0 .. MaxTurns
  BY TurnsBounded DEF IInv, TypeOK
<1>5. QED
  BY <1>1, <1>3, <1>4 DEF IInv, TypeOK, SyncedPrefix

(* The variables keep their types: in particular what is handed to          *)
(* persist_assistant is what a response held that ended without an error.   *)
THEOREM TypeCorrect == Spec => []TypeOK
<1>1. IInv => TypeOK
  BY DEF IInv
<1>2. QED
  BY <1>1, Initially, Inductive, PTL DEF Spec

(* What the handlers of concurrent requests do to the stored messages is    *)
(* what the transcript allows: each of their steps reconciles one history   *)
(* that a client sent, with or without the model's answer, or none.         *)
THEOREM HandlersReconcile == Spec => TranscriptSpec
<1>1. Init => Empty
  BY DEF Init
<1>2. IInv /\ [Next]_vars => [Reconcile]_transcript
  <2> SUFFICES ASSUME IInv, [Next]_vars PROVE [Reconcile]_transcript
    OBVIOUS
  <2>1. CASE UNCHANGED transcript
    BY <2>1
  <2>2. ASSUME NEW r \in Requests, Inbound(r) \/ InboundFails(r)
        PROVE  [Reconcile]_transcript
    <3>1. turn[r].incoming \in Projections
      BY <2>2, TurnAssumption DEF Inbound, InboundFails, IInv, HasHistory, InFlight
    <3>2. Sync(turn[r].incoming) \/ UNCHANGED transcript
      BY <2>2 DEF Inbound, InboundFails, PersistFails, PersistNothing, Persist
    <3>3. QED
      BY <3>1, <3>2 DEF Reconcile
  <2>3. ASSUME NEW r \in Requests, PersistReply(r) \/ ReplyFails(r)
        PROVE  [Reconcile]_transcript
    <3>1. /\ turn[r].incoming \in Histories /\ turn[r] \in Turn
          /\ turn[r].reply # << >>
      BY <2>3 DEF PersistReply, ReplyFails, IInv, TypeOK, HasHistory, InFlight
    <3>2. PICK m \in Replies : turn[r].reply = <<m>>
      BY <3>1 DEF Turn
    <3>3. turn[r].incoming \o turn[r].reply \in Projections
      <4>1. \A I \in Histories : I \o <<m>> \in Projections
        BY TurnAssumption
      <4>2. QED
        BY <3>1, <3>2, <4>1
    <3>4. Sync(turn[r].incoming \o turn[r].reply) \/ UNCHANGED transcript
      BY <2>3 DEF PersistReply, ReplyFails, PersistFails, PersistNothing, Persist
    <3>5. QED
      BY <3>3, <3>4 DEF Reconcile
  <2>4. QED
    BY <2>1, <2>2, <2>3
    DEF Next, Step, Quiescent, vars, PersistNothing, Receive, Diverges, Plan, Overflow,
        Complete, OpenStream, InferenceFails, StreamEnds, StreamCut, DropReply, Index, Abandon
<1>3. QED
  BY <1>1, <1>2, Initially, Inductive, PTL DEF Spec, TranscriptSpec

(* Full histories can be sent again at any time: no conflict, nothing new. *)
THEOREM FullReplayCorrect == Spec => []FullReplay
<1>1. IInv => FullReplay
  BY PrefixIsReplay DEF IInv, SyncedPrefix, FullReplay
<1>2. QED
  BY <1>1, Initially, Inductive, PTL DEF Spec
-----------------------------------------------------------------------------
(* Reconciling a history I with an answer behind it, when something is      *)
(* inserted: the answer comes last, and behind the last message of I.       *)
Behind(T, I, m) ==
  LET n == Len(T)
  IN  /\ T[n] = m
      /\ n > 1 /\ equivalent(T[n - 1], I[Len(I)])

(* Reconciling I with answer m behind it puts m last when it inserts. *)
LEMMA AnswerLast ==
  ASSUME NEW P \in Seq(Message), NEW I \in Seq(Message), I # << >>,
         NEW m \in Message, NEW J \in Seq(Message), I \o <<m>> = J,
         NEW Q \in Seq(Message), NewTail(P, J) = Q, Q # << >>
  PROVE  Behind(P \o Q, I, m)
<1>1. /\ Len(J) = Len(I) + 1 /\ Len(I) \in Nat /\ Len(I) > 0
      /\ J[Len(I) + 1] = m /\ J[Len(I)] = I[Len(I)]
  OBVIOUS
<1>2. PICK a \in Nat : reconcile_projection(P, J).append_from = a /\ a <= Len(J)
  <2>1. reconcile_projection(P, J).append_from \in 0 .. Len(J)
    BY TailFacts, Zenon
  <2>2. QED
    BY <2>1
<1>3. /\ Len(Q) = Len(J) - a /\ a < Len(J)
      /\ \A k \in 1 .. Len(J) - a : Q[k] = J[a + k]
  <2>1. /\ Len(Q) = Len(J) - a
        /\ \A k \in 1 .. Len(J) - a : Q[k] = J[a + k]
        /\ Q = << >> <=> a = Len(J)
    <3>1. LET b == reconcile_projection(P, J).append_from
          IN  /\ Len(NewTail(P, J)) = Len(J) - b
              /\ \A k \in 1 .. Len(J) - b : NewTail(P, J)[k] = J[b + k]
              /\ NewTail(P, J) = << >> <=> b = Len(J)
      BY TailFacts, Zenon
    <3>2. QED
      BY <1>2, <3>1, Zenon
  <2>2. QED
    BY <1>1, <1>2, <2>1
<1>4. /\ Len(P \o Q) = Len(P) + Len(Q)
      /\ \A k \in 1 .. Len(P) : (P \o Q)[k] = P[k]
      /\ \A k \in 1 .. Len(Q) : (P \o Q)[Len(P) + k] = Q[k]
  BY ConcatFacts
<1>5. PICK p \in Nat, q \in Nat : Len(P) = p /\ Len(Q) = q /\ q > 0
  <2>1. Len(P) \in Nat /\ Len(Q) \in Nat
    OBVIOUS
  <2>2. Len(Q) > 0
    BY <1>1, <1>2, <1>3
  <2>3. QED
    BY <2>1, <2>2, Zenon
<1>6. (P \o Q)[p + q] = m
  <2>1. q \in 1 .. Len(Q) /\ q \in 1 .. Len(J) - a /\ a + q = Len(I) + 1
    BY <1>1, <1>2, <1>3, <1>5
  <2>2. (P \o Q)[p + q] = Q[q] /\ Q[q] = J[a + q]
    BY <1>3, <1>4, <1>5, <2>1
  <2>3. QED
    BY <1>1, <2>1, <2>2
<1>7. CASE q > 1
  <2>1. /\ q - 1 \in 1 .. Len(Q) /\ q - 1 \in 1 .. Len(J) - a
        /\ a + (q - 1) = Len(I) /\ p + q - 1 = p + (q - 1) /\ p + q > 1
    BY <1>1, <1>2, <1>3, <1>5, <1>7
  <2>2. (P \o Q)[p + (q - 1)] = Q[q - 1] /\ Q[q - 1] = J[a + (q - 1)]
    BY <1>3, <1>4, <1>5, <2>1
  <2>3. (P \o Q)[p + q - 1] = I[Len(I)]
    BY <1>1, <2>1, <2>2
  <2>4. QED
    BY <1>4, <1>5, <1>6, <2>1, <2>3, EquivalentReflexive DEF Behind
<1>8. CASE ~ (q > 1)
  <2>1. q = 1 /\ a = Len(I) /\ a # 0
    BY <1>1, <1>2, <1>3, <1>5, <1>8
  <2>2. P # << >>
    <3> SUFFICES ASSUME P = << >> PROVE FALSE
      OBVIOUS
    <3>1. Len(P) = 0 /\ PrefixMatches(P, J, 0)
      BY <1>1 DEF PrefixMatches
    <3>2. PrefixLen(P, J) = 0
      BY <1>1, <3>1, PrefixUnique
    <3>3. reconcile_projection(P, J) = Result("append", Len(P))
      <4>1. PrefixLen(P, J) # Len(J) /\ PrefixLen(P, J) = Len(P)
        BY <1>1, <3>1, <3>2
      <4>2. QED
        BY <4>1, ResultCases, Zenon
    <3>4. QED
      BY <1>2, <2>1, <3>1, <3>3 DEF Result
  <2>3. equivalent(P[Len(P)], J[a])
    BY <1>2, <2>2, BehindLast
  <2>a. Len(P) \in Nat /\ Len(P) > 0
    BY <2>2
  <2>4. p \in 1 .. Len(P) /\ p + q - 1 = p /\ p + q > 1
    BY <1>5, <2>1, <2>a
  <2>5. (P \o Q)[p + q - 1] = P[Len(P)]
    BY <1>4, <1>5, <2>4
  <2>6. QED
    BY <1>1, <1>4, <1>5, <1>6, <2>1, <2>3, <2>4, <2>5 DEF Behind
<1>9. QED
  BY <1>7, <1>8

(* A stored answer stands right behind the message it answers. *)
THEOREM ReplyInPlaceCorrect == Spec => ReplyInPlace
<1> DEFINE InPlace(r) ==
             LET n == Len(transcript')
                 I == turn[r].incoming
             IN  /\ transcript'[n] = turn[r].reply[1]
                 /\ n > 1 /\ equivalent(transcript'[n - 1], I[Len(I)])
           Stores(r) ==
             /\ turn[r].phase = "replied" /\ turn[r].reply # << >>
             /\ Persist(turn[r].incoming \o turn[r].reply)
<1>1. ASSUME IInv, NEW r \in Requests, Stores(r), transcript' # transcript
      PROVE  InPlace(r)
  <2>1. InFlight(r)
    BY <1>1 DEF InFlight
  <2>2. PICK m \in Message : turn[r].reply = <<m>>
    BY <1>1, <2>1, WithReply
  <2>3. /\ turn[r].incoming \in Seq(Message) /\ turn[r].incoming # << >>
        /\ turn[r].incoming \o <<m>> \in Seq(Message)
    BY <1>1, <2>1, <2>2, WithReply
  <2>4. transcript \in Seq(Message)
    BY <1>1 DEF IInv, TypeOK
  <2>a. PICK J \in Seq(Message) : turn[r].incoming \o <<m>> = J
    BY <2>3
  <2>5. PICK Q \in Seq(Message) : NewTail(transcript, J) = Q
    BY <2>4, TailFacts
  <2>6. transcript' = transcript \o Q
    BY <1>1, <2>2, <2>a, <2>5 DEF Persist, Sync
  <2>7. Q # << >>
    BY <1>1, <2>4, <2>6
  <2>8. turn[r].reply[1] = m
    BY <2>2
  <2>9. Behind(transcript \o Q, turn[r].incoming, m)
    BY <2>3, <2>4, <2>a, <2>5, <2>7, AnswerLast, Zenon
  <2>10. QED
    BY <2>6, <2>8, <2>9, Zenon DEF Behind
<1>2. ASSUME IInv, Next, NEW r \in Requests, ReplyStored(r)
      PROVE  InPlace(r)
  <2>1. turn'[r] # turn[r] /\ transcript' # transcript /\ turn[r].phase = "replied"
    BY <1>2 DEF ReplyStored
  <2>2. PICK q \in Requests : Step(q)
    BY <1>2, <2>1 DEF Next, Quiescent, vars, Receive, PersistNothing
  <2>3. turn \in [Requests -> Turn]
    BY <1>2 DEF IInv, TypeOK
  <2>4. \/ Inbound(q) \/ InboundFails(q)
        \/ PersistReply(q) \/ ReplyFails(q)
    BY <2>1, <2>2
    DEF Step, Diverges, Plan, Overflow, Complete, OpenStream, InferenceFails,
        StreamEnds, StreamCut, DropReply, Index, Abandon, PersistNothing
  <2>5. CASE Inbound(q) \/ InboundFails(q)
    <3>1. q # r
      BY <2>1, <2>5 DEF Inbound, InboundFails
    <3>2. turn'[r] = turn[r]
      BY <2>3, <2>5, <3>1 DEF Inbound, InboundFails
    <3>3. QED
      BY <2>1, <3>2
  <2>6. CASE PersistReply(q) \/ ReplyFails(q)
    <3>1. CASE q # r
      <4>1. turn[r] \in Turn
        BY <2>3
      <4>2. turn'[r] = turn[r] \/ turn'[r] = [turn[r] EXCEPT !.beaten = TRUE]
        BY <2>3, <2>6, <3>1 DEF PersistReply, ReplyFails, Respond
      <4>3. turn'[r].phase = turn[r].phase
        BY <4>1, <4>2 DEF Turn
      <4>4. QED
        BY <1>2, <4>3 DEF ReplyStored
    <3>2. CASE q = r
      <4>1. Stores(r)
        BY <2>1, <2>6, <3>2
        DEF PersistReply, ReplyFails, PersistFails, PersistNothing
      <4>2. QED
        BY <1>1, <1>2, <2>1, <4>1
    <3>3. QED
      BY <3>1, <3>2
  <2>7. QED
    BY <2>4, <2>5, <2>6
<1>3. ASSUME NEW r \in Requests, UNCHANGED vars
      PROVE  ~ReplyStored(r)
  BY <1>3 DEF vars, ReplyStored
<1>4. IInv /\ [Next]_vars => [\A r \in Requests : ReplyStored(r) => InPlace(r)]_vars
  BY <1>2, <1>3
<1>5. QED
  BY <1>4, Initially, Inductive, PTL DEF Spec, ReplyInPlace
-----------------------------------------------------------------------------
(* T goes beyond I or differs from it: I with an answer behind it is not    *)
(* what T waits for.                                                        *)
Passed(T, I) ==
  \/ Len(T) > Len(I)
  \/ \E k \in 1 .. Len(I) : k <= Len(T) /\ ~equivalent(T[k], I[k])

(* Whoever was beaten was passed. *)
BeatenInv ==
  \A r \in Requests : turn[r].beaten => Passed(transcript, turn[r].incoming)

(* A longer transcript has passed what the shorter one had. *)
LEMMA PassedGrows ==
  ASSUME NEW T \in Seq(Message), NEW Q \in Seq(Message), NEW I \in Seq(Message),
         Passed(T, I)
  PROVE  Passed(T \o Q, I)
<1>1. /\ Len(T \o Q) = Len(T) + Len(Q) /\ Len(T) \in Nat /\ Len(Q) \in Nat
      /\ Len(I) \in Nat
      /\ \A k \in 1 .. Len(T) : (T \o Q)[k] = T[k]
  BY ConcatFacts
<1>2. QED
  BY <1>1 DEF Passed

(* The history of a request whose answer is inserted has been passed. *)
LEMMA PassedByAnswer ==
  ASSUME NEW P \in Seq(Message), NEW I \in Seq(Message), NEW m \in Message,
         NEW J \in Seq(Message), J = I \o <<m>>,
         NEW Q \in Seq(Message), Q = NewTail(P, J), Q # << >>
  PROVE  Passed(P \o Q, I)
<1>1. /\ Len(J) = Len(I) + 1 /\ Len(I) \in Nat /\ Len(P) \in Nat
      /\ \A k \in 1 .. Len(I) : J[k] = I[k]
  OBVIOUS
<1>2. PICK a \in Nat, prefix \in Nat :
        /\ a = reconcile_projection(P, J).append_from /\ a # Len(J)
        /\ prefix = PrefixLen(P, J)
        /\ Len(Q) = Len(J) - a
  <2>1. LET b == reconcile_projection(P, J).append_from
        IN  /\ b \in 0 .. Len(J)
            /\ Len(NewTail(P, J)) = Len(J) - b
            /\ NewTail(P, J) = << >> <=> b = Len(J)
    BY TailFacts, Zenon
  <2>2. reconcile_projection(P, J).append_from \in Nat
    BY <2>1
  <2>3. PrefixLen(P, J) \in Nat
    BY PrefixFacts, Zenon
  <2>4. QED
    BY <2>1, <2>2, <2>3, Zenon
<1>3. prefix < Len(J) /\ ((prefix = Len(P) /\ a = Len(P)) \/ prefix < Len(P))
  BY <1>2, InsertCases
<1>4. CASE prefix = Len(P) /\ a = Len(P)
  <2>1. Len(P \o Q) = Len(P) + Len(Q)
    BY ConcatFacts
  <2>2. Len(P \o Q) > Len(I)
    BY <1>1, <1>2, <1>4, <2>1
  <2>3. QED
    BY <2>2 DEF Passed
<1>5. CASE prefix < Len(P)
  <2>1. ~equivalent(P[prefix + 1], J[prefix + 1])
    <3>1. prefix = Len(P) \/ prefix = Len(J) \/ ~equivalent(P[prefix + 1], J[prefix + 1])
      BY <1>2, PrefixFacts, Zenon
    <3>2. prefix # Len(P) /\ prefix # Len(J)
      BY <1>1, <1>2, <1>3, <1>5
    <3>3. QED
      BY <3>1, <3>2
  <2>2. CASE prefix + 1 <= Len(I)
    <3>1. prefix + 1 \in 1 .. Len(I) /\ prefix + 1 <= Len(P)
      BY <1>1, <1>2, <1>5, <2>2
    <3>2. Passed(P, I)
      BY <1>1, <2>1, <3>1 DEF Passed
    <3>3. QED
      BY <3>2, PassedGrows
  <2>3. CASE ~(prefix + 1 <= Len(I))
    <3>1. Passed(P, I)
      BY <1>1, <1>2, <1>5, <2>3 DEF Passed
    <3>2. QED
      BY <3>1, PassedGrows
  <2>4. QED
    BY <2>2, <2>3
<1>6. QED
  BY <1>3, <1>4, <1>5

(* An answer to a stored history that has been passed inserts nothing: it    *)
(* could only be anchored at its very end.                                  *)
LEMMA PassedNothingNew ==
  ASSUME NEW P \in Seq(Message), NEW I \in Seq(Message), NEW m \in Message,
         NEW J \in Seq(Message), J = I \o <<m>>,
         PrefixMatches(P, I, Len(I)), Passed(P, I)
  PROVE  NewTail(P, J) = << >>
<1> SUFFICES ASSUME NewTail(P, J) # << >> PROVE FALSE
  OBVIOUS
<1>1. /\ Len(J) = Len(I) + 1 /\ Len(I) \in Nat /\ Len(P) \in Nat
      /\ \A k \in 1 .. Len(I) : J[k] = I[k]
  OBVIOUS
<1>2. Len(P) > Len(I)
  BY <1>1 DEF Passed, PrefixMatches
<1>3. PICK a \in Nat, prefix \in Nat :
        /\ a = reconcile_projection(P, J).append_from /\ a # Len(J)
        /\ prefix = PrefixLen(P, J)
  <2>1. LET b == reconcile_projection(P, J).append_from
        IN  b \in 0 .. Len(J) /\ (NewTail(P, J) = << >> <=> b = Len(J))
    BY TailFacts, Zenon
  <2>2. reconcile_projection(P, J).append_from \in Nat
    BY <2>1
  <2>3. PrefixLen(P, J) \in Nat
    BY PrefixFacts, Zenon
  <2>4. QED
    BY <2>1, <2>2, <2>3, Zenon
<1>4. /\ prefix < Len(J)
      /\ \/ prefix = Len(P)
         \/ /\ prefix < Len(P) /\ AnchorAccepted(P, J, prefix)
            /\ a = Anchor(P, J, prefix).incoming_end
  BY <1>3, InsertCases
<1>5. prefix = Len(P) \/ prefix = Len(J) \/ ~equivalent(P[prefix + 1], J[prefix + 1])
  BY <1>3, PrefixFacts
<1>6. prefix < Len(I) => prefix + 1 \in 1 .. Len(I)
  BY <1>1, <1>3
<1>7. prefix < Len(I) => equivalent(P[prefix + 1], J[prefix + 1])
  BY <1>1, <1>6 DEF PrefixMatches
<1>8. prefix = Len(I) /\ prefix < Len(P)
  BY <1>1, <1>2, <1>3, <1>4, <1>5, <1>7
<1>9. AnchorEnds(P, J, prefix) # {} /\ a = Anchor(P, J, prefix).incoming_end
  BY <1>4, <1>8 DEF AnchorAccepted
<1>10. PICK e \in Nat, n \in Nat :
         /\ Anchor(P, J, prefix) =
              [persisted_start |-> Len(P) - n, incoming_start |-> e - n,
               incoming_end |-> e]
         /\ prefix < e /\ e <= Len(J)
  BY <1>8, <1>9, AnchorFacts
<1>11. a = e
  BY <1>9, <1>10
<1>12. QED
  BY <1>1, <1>3, <1>8, <1>10, <1>11

(* The transcript only grows. *)
LEMMA TranscriptGrows ==
  ASSUME IInv, [Next]_vars
  PROVE  \E Q \in Seq(Message) : transcript' = transcript \o Q
<1>0. transcript \in Seq(Message)
  BY DEF IInv, TypeOK
<1>1. ASSUME NEW I \in Seq(Message), Persist(I)
      PROVE  \E Q \in Seq(Message) : transcript' = transcript \o Q
  BY <1>0, <1>1, TailFacts DEF Persist, Sync
<1>2. CASE UNCHANGED transcript
  <2>1. transcript \o << >> = transcript /\ << >> \in Seq(Message)
    BY <1>0
  <2>2. QED
    BY <1>2, <2>1
<1>3. ASSUME NEW r \in Requests, Inbound(r) \/ InboundFails(r)
      PROVE  \E Q \in Seq(Message) : transcript' = transcript \o Q
  <2>1. turn[r].incoming \in Seq(Message)
    BY <1>3, TurnAssumption DEF Inbound, InboundFails, InFlight, IInv, HasHistory
  <2>2. Persist(turn[r].incoming) \/ UNCHANGED transcript
    BY <1>3 DEF Inbound, InboundFails, PersistFails, PersistNothing
  <2>3. QED
    BY <1>1, <1>2, <2>1, <2>2
<1>4. ASSUME NEW r \in Requests, PersistReply(r) \/ ReplyFails(r)
      PROVE  \E Q \in Seq(Message) : transcript' = transcript \o Q
  <2>1. InFlight(r) /\ turn[r].reply # << >>
    BY <1>4 DEF PersistReply, ReplyFails, InFlight
  <2>2. turn[r].incoming \o turn[r].reply \in Seq(Message)
    BY <2>1, WithReply
  <2>3. Persist(turn[r].incoming \o turn[r].reply) \/ UNCHANGED transcript
    BY <1>4 DEF PersistReply, ReplyFails, PersistFails, PersistNothing
  <2>4. QED
    BY <1>1, <1>2, <2>2, <2>3
<1>5. QED
  BY <1>2, <1>3, <1>4
  DEF Next, Step, Quiescent, vars, Receive, Diverges, Plan, Overflow, Complete,
      OpenStream, InferenceFails, StreamEnds, StreamCut, DropReply, Index, Abandon,
      PersistNothing

(* What a step does to the mark of a request, unless another one beats it. *)
MarkKept(q) ==
  \/ ~turn'[q].beaten
  \/ turn'[q].beaten = turn[q].beaten /\ turn'[q].incoming = turn[q].incoming

(* Only PersistReply marks requests. *)
LEMMA MarksKept ==
  ASSUME IInv, [Next]_vars, NEW q \in Requests
  PROVE  MarkKept(q) \/ \E r \in Requests : PersistReply(r)
<1>1. turn \in [Requests -> Turn] /\ turn[q] \in Turn
  BY DEF IInv, TypeOK
<1>2. ASSUME NEW r \in Requests, Respond(r)
      PROVE  MarkKept(q)
  BY <1>1, <1>2 DEF Respond, NoTurn, TurnRecord, MarkKept
<1>3. ASSUME NEW r \in Requests, NEW I \in Histories, NEW b \in BOOLEAN, Receive(r, I, b)
      PROVE  MarkKept(q)
  <2>1. CASE q = r
    <3>1. PICK p : turn'[q] = TurnRecord(p, I, b, << >>)
      BY <1>1, <1>3, <2>1 DEF Receive
    <3>2. QED
      BY <3>1 DEF TurnRecord, MarkKept
  <2>2. CASE q # r
    BY <1>1, <1>3, <2>2 DEF Receive, MarkKept
  <2>3. QED
    BY <2>1, <2>2
<1>4. ASSUME NEW r \in Requests, NEW m \in Replies,
             \/ Inbound(r) \/ InboundFails(r) \/ Plan(r) \/ OpenStream(r) \/ StreamCut(r)
             \/ Complete(r, m) \/ StreamEnds(r, m)
      PROVE  MarkKept(q)
  BY <1>1, <1>4
  DEF Inbound, InboundFails, Plan, OpenStream, StreamCut, Complete, StreamEnds, Turn, MarkKept
<1>5. ASSUME NEW r \in Requests,
             Inbound(r) \/ InboundFails(r) \/ Plan(r) \/ OpenStream(r) \/ StreamCut(r)
      PROVE  MarkKept(q)
  BY <1>1, <1>5
  DEF Inbound, InboundFails, Plan, OpenStream, StreamCut, Turn, MarkKept
<1>6. CASE UNCHANGED vars
  BY <1>6 DEF vars, MarkKept
<1>7. QED
  BY <1>2, <1>3, <1>4, <1>5, <1>6
  DEF Next, Step, Quiescent, Diverges, Overflow, InferenceFails, DropReply,
      ReplyFails, Index, Abandon

(* A request that beats others has passed their history. *)
LEMMA BeatPasses ==
  ASSUME IInv, NEW r \in Requests, PersistReply(r), transcript' # transcript
  PROVE  Passed(transcript', turn[r].incoming)
<1>1. InFlight(r) /\ turn[r].reply # << >>
  BY DEF PersistReply, InFlight
<1>2. PICK m \in Message : turn[r].reply = <<m>>
  BY <1>1, WithReply
<1>3. turn[r].incoming \in Seq(Message)
  BY <1>1, WithReply
<1>4. PICK J \in Seq(Message) : J = turn[r].incoming \o <<m>>
  BY <1>1, <1>2, WithReply
<1>5. transcript \in Seq(Message)
  BY DEF IInv, TypeOK
<1>6. PICK Q \in Seq(Message) : Q = NewTail(transcript, J)
  BY <1>5, TailFacts
<1>7. transcript' = transcript \o Q
  BY <1>2, <1>4, <1>6 DEF PersistReply, Persist, Sync
<1>8. Q # << >>
  BY <1>5, <1>7
<1>9. Passed(transcript \o Q, turn[r].incoming)
  BY <1>3, <1>4, <1>5, <1>6, <1>8, PassedByAnswer, Zenon
<1>10. QED
  BY <1>7, <1>9

(* Every step keeps BeatenInv. *)
LEMMA BeatenKept == IInv /\ BeatenInv /\ [Next]_vars => BeatenInv'
<1> SUFFICES ASSUME IInv, BeatenInv, [Next]_vars, NEW q \in Requests, turn'[q].beaten
             PROVE  Passed(transcript', turn'[q].incoming)
  BY DEF BeatenInv
<1>1. turn \in [Requests -> Turn] /\ turn[q] \in Turn /\ transcript \in Seq(Message)
  BY DEF IInv, TypeOK
<1>2. turn[q].incoming \in Seq(Message)
  <2>1. turn[q].incoming \in Histories \cup {<< >>}
    BY <1>1 DEF Turn
  <2>2. Histories \subseteq Seq(Message)
    BY TurnAssumption, Zenon
  <2>3. << >> \in Seq(Message)
    OBVIOUS
  <2>4. QED
    BY <2>1, <2>2, <2>3, Zenon
<1>3. turn[q].beaten => Passed(transcript', turn[q].incoming)
  BY <1>1, <1>2, TranscriptGrows, PassedGrows DEF BeatenInv
<1>4. CASE MarkKept(q)
  BY <1>3, <1>4 DEF MarkKept
<1>5. ASSUME NEW r \in Requests, PersistReply(r)
      PROVE  Passed(transcript', turn'[q].incoming)
  <2>1. turn'[q] = IF q = r THEN [turn[r] EXCEPT !.phase = "indexing"]
                   ELSE IF Beat(r, q) THEN [turn[q] EXCEPT !.beaten = TRUE]
                   ELSE turn[q]
    BY <1>5 DEF PersistReply
  <2>2. turn'[q].incoming = turn[q].incoming
    BY <1>1, <2>1 DEF Turn
  <2>3. turn[q].beaten \/ Beat(r, q)
    BY <1>1, <2>1 DEF Turn
  <2>4. CASE Beat(r, q)
    <3>1. turn[q].incoming = turn[r].incoming /\ transcript' # transcript
      BY <2>4 DEF Beat
    <3>2. QED
      BY <1>5, <2>2, <3>1, BeatPasses
  <2>5. QED
    BY <1>3, <2>2, <2>3, <2>4
<1>6. QED
  BY <1>4, <1>5, MarksKept

(* Of identical concurrent requests with the full history only the first    *)
(* stores its answer, for any number of requests and whatever else is       *)
(* stored meanwhile.                                                        *)
THEOREM FullLoserDroppedCorrect == Spec => []FullLoserDropped
<1>1. IInv /\ BeatenInv => FullLoserDropped
  <2> SUFFICES ASSUME IInv, BeatenInv, NEW r \in Requests, turn[r].beaten,
                      turn[r].incoming \in synced, Appends(r)
               PROVE  FALSE
    BY DEF FullLoserDropped
  <2>1. InFlight(r) /\ turn[r].reply # << >>
    BY DEF Appends, InFlight
  <2>2. PICK m \in Message : turn[r].reply = <<m>>
    BY <2>1, WithReply
  <2>3. PICK I \in Seq(Message) : I = turn[r].incoming
    BY <2>1, WithReply
  <2>4. PICK J \in Seq(Message) : J = I \o <<m>>
    BY <2>1, <2>2, <2>3, WithReply
  <2>5. transcript \in Seq(Message) /\ PrefixMatches(transcript, I, Len(I))
    BY <2>3 DEF IInv, TypeOK, SyncedPrefix
  <2>6. Passed(transcript, I)
    BY <2>3 DEF BeatenInv
  <2>7. NewTail(transcript, J) = << >>
    BY <2>4, <2>5, <2>6, PassedNothingNew
  <2>8. QED
    BY <2>2, <2>3, <2>4, <2>7 DEF Appends
<1>2. Init => BeatenInv
  BY DEF Init, BeatenInv, NoTurn, TurnRecord
<1>3. QED
  BY <1>1, <1>2, Initially, Inductive, BeatenKept, PTL DEF Spec
=============================================================================
