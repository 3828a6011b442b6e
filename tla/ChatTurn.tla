------------------------------ MODULE ChatTurn ------------------------------
(***************************************************************************)
(* Concurrent requests of one conversation through chat_completions of      *)
(* api/routes.py, with PersistingLLMStream of capture.py for the streamed   *)
(* ones: the request is persisted, a context is planned, the model answers, *)
(* the answer is persisted.  Each reconcile_history is one step, as         *)
(* ConversationStore shows that it may be; between two of them other        *)
(* requests run.                                                            *)
(***************************************************************************)
EXTENDS Transcript

CONSTANTS Requests,       \* requests in flight at the same time
          Histories,      \* the histories clients send
          Replies,        \* what responses that end without an error hold
          MaxTurns        \* bound on the number of requests

ASSUME TurnAssumption == /\ Histories \subseteq Seq(Message) \ {<< >>}
                         /\ Replies \subseteq Message
                         /\ Projections = Histories \cup
                              {I \o <<m>> : I \in Histories, m \in Replies}
                         /\ MaxTurns \in Nat

VARIABLES turn,           \* the progress of each request
          synced,         \* history: full histories reconciled so far
          turns           \* requests received so far

vars == <<transcript, turn, synced, turns>>

(* store says that the local variable of that name is not None; reply is    *)
(* the message handed to persist_assistant, << >> for None.  beaten records *)
(* history only: an identical request stored its answer while this one was  *)
(* in flight.                                                               *)
TurnRecord(phase, incoming, store, reply) ==
  [phase |-> phase, incoming |-> incoming, store |-> store, reply |-> reply,
   beaten |-> FALSE]

NoTurn == TurnRecord("idle", << >>, FALSE, << >>)

Turn == [phase : {"idle", "received", "planning", "inferring", "streaming",
                  "replied", "indexing"},
         incoming : Histories \cup {<< >>},
         store : BOOLEAN,
         reply : {<< >>} \cup {<<m>> : m \in Replies},
         beaten : BOOLEAN]

InFlight(r) == turn[r].phase # "idle"

Init ==
  /\ Empty
  /\ turn = [r \in Requests |-> NoTurn]
  /\ synced = {}
  /\ turns = 0

-----------------------------------------------------------------------------
(* Mutant: the stored history becomes what the client sent. *)
PersistRewriting(I) ==
  /\ Accepts(transcript, I)
  /\ transcript' = I
  /\ synced' = IF PrefixLen(transcript, I) \in {Len(transcript), Len(I)}
                 THEN synced \cup {I} ELSE synced

(* A successful reconcile_history.  I is a full history when it agrees with *)
(* the transcript from the start to the end of one of them.                 *)
Persist(I) ==
  /\ Sync(I)
  /\ synced' = IF PrefixLen(transcript, I) \in {Len(transcript), Len(I)}
                 THEN synced \cup {I} ELSE synced

PersistNothing == UNCHANGED <<transcript, synced>>

(* An asyncpg, timeout or OS error; one at the commit may come after it. *)
PersistFails(I) == Persist(I) \/ PersistNothing

(* The handler returns its response. *)
Respond(r) == turn' = [turn EXCEPT ![r] = NoTurn]

-----------------------------------------------------------------------------
(* A valid request; store is None when the database was down at startup. *)
Receive(r, I, store) ==
  /\ ~InFlight(r)
  /\ turns < MaxTurns
  /\ turns' = turns + 1
  /\ turn' = [turn EXCEPT ![r] =
                TurnRecord(IF store THEN "received" ELSE "planning", I, store,
                           << >>)]
  /\ PersistNothing

Inbound(r) ==
  /\ turn[r].phase = "received"
  /\ Persist(turn[r].incoming)
  /\ turn' = [turn EXCEPT ![r].phase = "planning"]
  /\ UNCHANGED turns

(* 409 history_conflict *)
Diverges(r) ==
  /\ turn[r].phase = "received"
  /\ ~Accepts(transcript, turn[r].incoming)
  /\ Respond(r)
  /\ PersistNothing
  /\ UNCHANGED turns

(* Degrades to passthrough: from here on there is no store. *)
InboundFails(r) ==
  /\ turn[r].phase = "received"
  /\ PersistFails(turn[r].incoming)
  /\ turn' = [turn EXCEPT ![r].phase = "planning", ![r].store = FALSE]
  /\ UNCHANGED turns

Plan(r) ==
  /\ turn[r].phase = "planning"
  /\ turn' = [turn EXCEPT ![r].phase = "inferring"]
  /\ PersistNothing
  /\ UNCHANGED turns

(* 400 context_length_exceeded *)
Overflow(r) ==
  /\ turn[r].phase = "planning"
  /\ Respond(r)
  /\ PersistNothing
  /\ UNCHANGED turns

(* A buffered answer with a message in it. *)
Complete(r, m) ==
  /\ turn[r].phase = "inferring"
  /\ turn' = [turn EXCEPT ![r].phase = "replied", ![r].reply = <<m>>]
  /\ PersistNothing
  /\ UNCHANGED turns

OpenStream(r) ==
  /\ turn[r].phase = "inferring"
  /\ turn' = [turn EXCEPT ![r].phase = "streaming"]
  /\ PersistNothing
  /\ UNCHANGED turns

(* No answer, an upstream error, or a body without a message in it. *)
InferenceFails(r) ==
  /\ turn[r].phase = "inferring"
  /\ Respond(r)
  /\ PersistNothing
  /\ UNCHANGED turns

(* The iteration ends without an error.  finalize makes a message of what    *)
(* arrived and looks neither for [DONE] nor for a finish_reason: if the     *)
(* endpoint ended the stream early but in good order, m is the beginning of *)
(* an answer.                                                               *)
StreamEnds(r, m) ==
  /\ turn[r].phase = "streaming"
  /\ turn' = [turn EXCEPT ![r].phase = "replied", ![r].reply = <<m>>]
  /\ PersistNothing
  /\ UNCHANGED turns

(* Mutant: what arrived before the stream broke passes for the answer. *)
Partial == [CHOOSE m \in Replies : TRUE EXCEPT !.repr = "partial"]

StreamCutKeepingPart(r) ==
  /\ turn[r].phase = "streaming"
  /\ turn' = [turn EXCEPT ![r].phase = "replied", ![r].reply = <<Partial>>]
  /\ PersistNothing
  /\ UNCHANGED turns

(* The stream breaks, is too large to capture or holds no choice. *)
StreamCut(r) ==
  /\ turn[r].phase = "streaming"
  /\ turn' = [turn EXCEPT ![r].phase = "replied"]
  /\ PersistNothing
  /\ UNCHANGED turns

(* The identical requests in flight have lost when this one stores an answer. *)
Beat(r, q) ==
  /\ q # r /\ InFlight(q)
  /\ turn[q].incoming = turn[r].incoming
  /\ transcript' # transcript

(* Mutant: the answer goes to the end of the transcript, as append_messages  *)
(* would put it.                                                            *)
AppendReply(r) ==
  /\ turn[r].phase = "replied"
  /\ turn[r].store
  /\ turn[r].reply # << >>
  /\ transcript' = transcript \o turn[r].reply
  /\ UNCHANGED synced
  /\ turn' = [q \in Requests |->
                IF q = r THEN [turn[r] EXCEPT !.phase = "indexing"]
                ELSE IF Beat(r, q) THEN [turn[q] EXCEPT !.beaten = TRUE]
                ELSE turn[q]]
  /\ UNCHANGED turns

(* persist_assistant: [*messages, message] is reconciled. *)
PersistReply(r) ==
  /\ turn[r].phase = "replied"
  /\ turn[r].store
  /\ turn[r].reply # << >>
  /\ Persist(turn[r].incoming \o turn[r].reply)
  /\ turn' = [q \in Requests |->
                IF q = r THEN [turn[r] EXCEPT !.phase = "indexing"]
                ELSE IF Beat(r, q) THEN [turn[q] EXCEPT !.beaten = TRUE]
                ELSE turn[q]]
  /\ UNCHANGED turns

(* Nothing to store or nowhere to store it, or a conflict. *)
DropReply(r) ==
  /\ turn[r].phase = "replied"
  /\ \/ ~turn[r].store
     \/ turn[r].reply = << >>
     \/ ~Accepts(transcript, turn[r].incoming \o turn[r].reply)
  /\ Respond(r)
  /\ PersistNothing
  /\ UNCHANGED turns

ReplyFails(r) ==
  /\ turn[r].phase = "replied"
  /\ turn[r].store
  /\ turn[r].reply # << >>
  /\ PersistFails(turn[r].incoming \o turn[r].reply)
  /\ Respond(r)
  /\ UNCHANGED turns

(* index_memory ends, fails or times out. *)
Index(r) ==
  /\ turn[r].phase = "indexing"
  /\ Respond(r)
  /\ PersistNothing
  /\ UNCHANGED turns

(* An error the handler does not expect, a client that goes away, a crash. *)
Abandon(r) ==
  /\ InFlight(r)
  /\ Respond(r)
  /\ PersistNothing
  /\ UNCHANGED turns

Step(r) ==
  \/ Inbound(r)
  \/ Diverges(r)
  \/ InboundFails(r)
  \/ Plan(r)
  \/ Overflow(r)
  \/ \E m \in Replies : Complete(r, m) \/ StreamEnds(r, m)
  \/ OpenStream(r)
  \/ InferenceFails(r)
  \/ StreamCut(r)
  \/ PersistReply(r)
  \/ DropReply(r)
  \/ ReplyFails(r)
  \/ Index(r)
  \/ Abandon(r)

(* The bound on requests is used up and all of them are over. *)
Quiescent ==
  /\ turns = MaxTurns
  /\ \A r \in Requests : ~InFlight(r)
  /\ UNCHANGED vars

Next ==
  \/ \E r \in Requests :
       \/ \E I \in Histories, store \in BOOLEAN : Receive(r, I, store)
       \/ Step(r)
  \/ Quiescent

Spec == Init /\ [][Next]_vars

-----------------------------------------------------------------------------
(* The types.  What is handed to persist_assistant is what a response held  *)
(* that ended without an error: of a stream that broke, or grew too large   *)
(* to capture, nothing is stored.                                           *)
TypeOK ==
  /\ transcript \in Seq(Message)
  /\ turn \in [Requests -> Turn]
  /\ synced \subseteq Seq(Message)
  /\ turns \in 0 .. MaxTurns

(* A client that sends full histories can send any of them again at any     *)
(* time, whatever other requests stored in between: no conflict, nothing    *)
(* inserted (docs/memory-and-context.md: "Identical replays are             *)
(* idempotent").                                                            *)
FullReplay ==
  \A I \in synced : Accepts(transcript, I) /\ NewTail(transcript, I) = << >>

(* Of identical concurrent requests with the full history only the first    *)
(* stores its answer (persist_assistant: "A loser diverges at the assistant *)
(* index ... nothing is appended").                                         *)
Appends(r) ==
  /\ turn[r].phase = "replied" /\ turn[r].store /\ turn[r].reply # << >>
  /\ LET I == turn[r].incoming \o turn[r].reply
     IN  Accepts(transcript, I) /\ NewTail(transcript, I) # << >>

FullLoserDropped ==
  \A r \in Requests :
    (turn[r].beaten /\ turn[r].incoming \in synced) => ~Appends(r)

(* The same of every identical concurrent request. *)
LoserDropped == \A r \in Requests : turn[r].beaten => ~Appends(r)

(* A stored answer stands right behind the message it answers, whatever     *)
(* other requests stored while the model was at work.                       *)
ReplyStored(r) ==
  /\ turn[r].phase = "replied" /\ turn'[r].phase # "replied"
  /\ transcript' # transcript

ReplyInPlace ==
  [][\A r \in Requests :
       ReplyStored(r) =>
         LET n == Len(transcript')
             I == turn[r].incoming
         IN  /\ transcript'[n] = turn[r].reply[1]
             /\ n > 1 /\ equivalent(transcript'[n - 1], I[Len(I)])]_vars
=============================================================================
