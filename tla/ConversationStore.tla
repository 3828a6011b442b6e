-------------------------- MODULE ConversationStore --------------------------
(***************************************************************************)
(* One conversation in PostgreSQL and the transactions that write to it:    *)
(* reconcile_history of conversation/projection_store.py with the helpers   *)
(* it calls in conversation/store.py.  A step is one statement of one       *)
(* transaction, with the code that runs before the next await; statements   *)
(* of different transactions interleave (READ COMMITTED: each sees what is  *)
(* committed when it starts, and its own transaction's writes).             *)
(***************************************************************************)
EXTENDS Reconciliation

CONSTANTS Projections,    \* the histories clients send
          Writers,        \* database sessions
          MaxBegins       \* bound on the number of transactions

NoSession == "nobody"    \* the lock is free

ASSUME StoreAssumption == /\ Projections \subseteq Seq(Message)
                          /\ MaxBegins \in Nat
                          /\ NoSession \notin Writers

VARIABLES messages,       \* the committed rows of messages, in the order of seq
          lock,           \* who holds the lock of the row in conversations
          tx,             \* the transaction of each session
          begins          \* transactions begun so far, the clock behind now()

vars == <<messages, lock, tx, begins>>

(* A row with what its projection tables hold.  created is the created_at   *)
(* of its tool calls, the start of the transaction.  ref is the             *)
(* tool_call_ref of its tool result, as the position of the message that    *)
(* made the call; NoRef stands for NULL.                                    *)
NoRef == 0
Row == [content : Message, created : Nat, ref : Nat]
RowOf(m, created, ref) == [content |-> m, created |-> created, ref |-> ref]

Contents(rows) == [k \in 1 .. Len(rows) |-> rows[k].content]

(* seq is the variable of _insert_messages: the last number in use.  suffix *)
(* is what is still to be inserted, rows what this transaction inserted.    *)
TxRecord(phase, incoming, created) ==
  [phase |-> phase, incoming |-> incoming, created |-> created, seq |-> 0,
   suffix |-> << >>, rows |-> << >>]

NoTx == TxRecord("idle", << >>, 0)

InLock == {"locked", "reconciled", "inserting"}

Tx == [phase : {"idle", "begun"} \cup InLock, incoming : Seq(Message),
       created : Nat, seq : Nat \cup {-1}, suffix : Seq(Message), rows : Seq(Row)]

Active(w) == tx[w].phase # "idle"

Init ==
  /\ messages = << >>
  /\ lock = NoSession
  /\ tx = [w \in Writers |-> NoTx]
  /\ begins = 0

-----------------------------------------------------------------------------
Begin(w, I) ==
  /\ ~Active(w)
  /\ begins < MaxBegins
  /\ begins' = begins + 1
  /\ tx' = [tx EXCEPT ![w] = TxRecord("begun", I, begins + 1)]
  /\ UNCHANGED <<messages, lock>>

(* Mutant: the row is not locked. *)
ReadConversation(w) ==
  /\ tx[w].phase = "begun"
  /\ lock' = w
  /\ tx' = [tx EXCEPT ![w].phase = "locked"]
  /\ UNCHANGED <<messages, begins>>

(* The upsert of _ensure_conversation already waits for the row's lock and  *)
(* takes it, _lock_conversation takes it again.                             *)
LockConversation(w) ==
  /\ tx[w].phase = "begun"
  /\ lock = NoSession
  /\ lock' = w
  /\ tx' = [tx EXCEPT ![w].phase = "locked"]
  /\ UNCHANGED <<messages, begins>>

(* Mutant: a connection goes back to the pool with its transaction open. *)
CloseKeepingLock(w) ==
  /\ tx' = [tx EXCEPT ![w] = NoTx]
  /\ UNCHANGED <<lock, begins>>

(* The end of a transaction, committed or not. *)
Close(w) ==
  /\ tx' = [tx EXCEPT ![w] = NoTx]
  /\ lock' = IF lock = w THEN NoSession ELSE lock
  /\ UNCHANGED begins

(* HistoryDivergenceError rolls the transaction back. *)
Conflict(w) ==
  /\ tx[w].phase = "locked"
  /\ ~Accepts(Contents(messages), tx[w].incoming)
  /\ Close(w)
  /\ UNCHANGED messages

NothingNew(w) ==
  /\ tx[w].phase = "locked"
  /\ Accepts(Contents(messages), tx[w].incoming)
  /\ NewTail(Contents(messages), tx[w].incoming) = << >>
  /\ Close(w)
  /\ UNCHANGED messages

FindTail(w) ==
  LET tail == NewTail(Contents(messages), tx[w].incoming)
  IN  /\ tx[w].phase = "locked"
      /\ Accepts(Contents(messages), tx[w].incoming)
      /\ tail # << >>
      /\ tx' = [tx EXCEPT ![w].phase = "reconciled", ![w].suffix = tail]
      /\ UNCHANGED <<messages, lock, begins>>

(* Mutant: off by one. *)
ReadSeqBefore(w) ==
  /\ tx[w].phase = "reconciled"
  /\ tx' = [tx EXCEPT ![w].phase = "inserting", ![w].seq = Len(messages) - 2]
  /\ UNCHANGED <<messages, lock, begins>>

(* SELECT COALESCE(MAX(seq), -1) *)
ReadMaxSeq(w) ==
  /\ tx[w].phase = "reconciled"
  /\ tx' = [tx EXCEPT ![w].phase = "inserting", ![w].seq = Len(messages) - 1]
  /\ UNCHANGED <<messages, lock, begins>>

(* The positions of the messages that made call id, as a statement of w     *)
(* sees them.                                                               *)
CallsOf(id, rows) == {k \in 1 .. Len(rows) : id \in rows[k].content.calls}

(* Mutant: the result is matched with the calls of earlier transactions. *)
ToolCallRefsCommitted(m, visible, created) ==
  LET calls == CallsOf(m.tool_call_id, messages)
  IN  IF m.role = "tool" /\ m.tool_call_id # NoCallId /\ calls # {}
        THEN calls
        ELSE {NoRef}

(* What _persist_tool_parts may link the result in message m to: it takes   *)
(* the call with the latest created_at, among equals the one with the       *)
(* greatest id, and ids are random.                                         *)
ToolCallRefs(m, visible, created) ==
  LET rows  == Append(visible, RowOf(m, created, NoRef))
      calls == CallsOf(m.tool_call_id, rows)
  IN  IF m.role = "tool" /\ m.tool_call_id # NoCallId /\ calls # {}
        THEN {k \in calls : \A l \in calls : rows[l].created <= rows[k].created}
        ELSE {NoRef}

(* One round of the loop: the message with its tool calls, then its result. *)
InsertMessage(w) ==
  LET m == Head(tx[w].suffix)
  IN  /\ tx[w].phase = "inserting"
      /\ tx[w].suffix # << >>
      /\ \E r \in ToolCallRefs(m, messages \o tx[w].rows, tx[w].created) :
           tx' = [tx EXCEPT ![w].seq = @ + 1,
                            ![w].suffix = Tail(@),
                            ![w].rows = Append(@, RowOf(m, tx[w].created, r))]
      /\ UNCHANGED <<messages, lock, begins>>

Commit(w) ==
  /\ tx[w].phase = "inserting"
  /\ tx[w].suffix = << >>
  /\ messages' = messages \o tx[w].rows
  /\ Close(w)

(* A failed statement, a lost connection, a cancelled request, a crash. *)
Abort(w) ==
  /\ Active(w)
  /\ Close(w)
  /\ UNCHANGED messages

Decide(w) == Conflict(w) \/ NothingNew(w) \/ FindTail(w)

Proceed(w) ==
  \/ LockConversation(w)
  \/ Decide(w)
  \/ ReadMaxSeq(w)
  \/ InsertMessage(w)
  \/ Commit(w)

(* The bound on transactions is used up and all of them are over. *)
Quiescent ==
  /\ begins = MaxBegins
  /\ \A w \in Writers : ~Active(w)
  /\ UNCHANGED vars

Next ==
  \/ \E w \in Writers :
       \/ \E I \in Projections : Begin(w, I)
       \/ Proceed(w)
       \/ Abort(w)
  \/ Quiescent

Spec == Init /\ [][Next]_vars

(* Proceed(w) can happen: written out, because TLC would evaluate the       *)
(* reconciliation once more for every ENABLED.                              *)
CanProceed(w) ==
  \/ tx[w].phase \in InLock
  \/ tx[w].phase = "begun" /\ lock = NoSession

(* A session that can go on does (weak fairness of Proceed); PostgreSQL     *)
(* queues the waiters of a lock, so one that waits gets it in the end.      *)
FairSpec == /\ Spec
            /\ \A w \in Writers : /\ []<>~CanProceed(w) \/ []<><<Proceed(w)>>_vars
                                  /\ SF_vars(LockConversation(w))

-----------------------------------------------------------------------------
TypeOK ==
  /\ messages \in Seq(Row)
  /\ lock \in Writers \cup {NoSession}
  /\ tx \in [Writers -> Tx]
  /\ begins \in Nat

(* The tail a transaction is inserting is still the one reconciliation      *)
(* finds for its request: what it read at its start has not gone stale by   *)
(* the time it commits (reconcile_history: "lock -> read -> compare ->      *)
(* append -> commit in ONE transaction").                                   *)
DecisionFresh ==
  \A w \in Writers :
    tx[w].phase \in {"reconciled", "inserting"} =>
      /\ Accepts(Contents(messages), tx[w].incoming)
      /\ Contents(tx[w].rows) \o tx[w].suffix =
           NewTail(Contents(messages), tx[w].incoming)

(* The numbers a transaction gives its rows follow the committed ones: no   *)
(* insert can meet UNIQUE (conversation_id, seq), no number is left out     *)
(* (append_messages: "independent writers can never compute the same next   *)
(* seq").                                                                   *)
SeqFollows ==
  \A w \in Writers :
    tx[w].phase = "inserting" =>
      tx[w].seq = Len(messages) + Len(tx[w].rows) - 1

(* A stored tool result points at a message that is not later than it and   *)
(* made a call with its id, and is an orphan only if there is none.         *)
RefsSound ==
  \A k \in 1 .. Len(messages) :
    LET m     == messages[k].content
        calls == CallsOf(m.tool_call_id, SubSeq(messages, 1, k))
    IN  IF m.role = "tool" /\ m.tool_call_id # NoCallId /\ calls # {}
          THEN messages[k].ref \in calls
          ELSE messages[k].ref = NoRef

(* The store implements the atomic transcript. *)
Abstract == INSTANCE Transcript WITH transcript <- Contents(messages)
ImplementsTranscript == Abstract!TranscriptSpec

(* Every transaction ends, and with it the lock it holds: writers of one    *)
(* conversation cannot block each other for good.                           *)
EveryTransactionEnds ==
  \A w \in Writers : Active(w) ~> ~Active(w)

(* What test_duplicate_tool_call_ids_resolve_deterministically says: a      *)
(* result whose call id occurs more than once is linked to the newest call. *)
NewestCall ==
  \A k \in 1 .. Len(messages) :
    messages[k].ref # NoRef =>
      messages[k].ref = Max(CallsOf(messages[k].content.tool_call_id,
                                    SubSeq(messages, 1, k)))
=============================================================================
