----------------------------- MODULE Transcript -----------------------------
(***************************************************************************)
(* What the conversation store promises for one conversation: a transcript  *)
(* that only grows, in one atomic step per accepted request, by the tail    *)
(* that reconciliation finds new.  The projection-aware store               *)
(* (conversation/projection_store.py) implements it with a transaction, see *)
(* ConversationStore; the chat handler builds on it, see ChatTurn.          *)
(***************************************************************************)
EXTENDS Reconciliation

CONSTANT Projections    \* the histories that are reconciled

ASSUME ProjectionsAssumption == Projections \subseteq Seq(Message)

VARIABLE transcript

Empty == transcript = << >>

Sync(I) ==
  /\ Accepts(transcript, I)
  /\ transcript' = transcript \o NewTail(transcript, I)

(* A conflict leaves the transcript alone. *)
Reject(I) ==
  /\ ~Accepts(transcript, I)
  /\ UNCHANGED transcript

Reconcile == \E I \in Projections : Sync(I) \/ Reject(I)

TranscriptSpec == Empty /\ [][Reconcile]_transcript

-----------------------------------------------------------------------------
(* A request that was just accepted can be sent again: reconciling it with  *)
(* the transcript it produced is no conflict and inserts nothing            *)
(* (docs/memory-and-context.md: "Identical replays are idempotent").        *)
ReplayIdempotent ==
  \A I \in Projections :
    Accepts(transcript, I) =>
      LET after == transcript \o NewTail(transcript, I)
      IN  Accepts(after, I) /\ NewTail(after, I) = << >>

(* TailContinues of every history that may be reconciled next. *)
AnchoredAppend == \A I \in Projections : TailContinues(transcript, I)

(* NoForkIn of every history that may be reconciled next. *)
ForksRefused == \A I \in Projections : NoForkIn(transcript, I)
=============================================================================
