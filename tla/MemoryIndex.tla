----------------------------- MODULE MemoryIndex -----------------------------
(***************************************************************************)
(* The chunks of one conversation and their vectors: index_completed_turns  *)
(* and the chunk part of rebuild_vector_index of memory/service.py, the     *)
(* client of memory/qdrant.py with its cache, and index_memory of           *)
(* api/routes.py, which runs a pass after every stored answer and cancels   *)
(* it after a timeout.  A step is one statement or one request of one task. *)
(***************************************************************************)
EXTENDS Integers, Sequences, FiniteSets, FiniteSetsExt

CONSTANTS Tasks,            \* passes and rebuilds at work at the same time
          PassLimit,        \* LIMIT of the query for pending chunks
          EmbedBatchSize,
          Refused,          \* the chunks the embedding provider always refuses
          MaxMessages,      \* bound on the transcript
          MaxMishaps        \* bound on failures and operator's interventions

NoTask == "nobody"          \* a lock is free

ASSUME IndexAssumption == /\ PassLimit \in Nat \ {0}
                          /\ EmbedBatchSize \in Nat \ {0}
                          /\ Refused \subseteq Nat
                          /\ MaxMessages \in Nat /\ MaxMishaps \in Nat
                          /\ NoTask \notin Tasks

VARIABLES roles,            \* the roles of the stored messages, in order of seq
          watermark,        \* last_chunked_seq, -1 for NULL
          chunks,           \* rows of conversation_chunks
          indexed,          \* the ones with vector_indexed_at, by start_seq
          lock,             \* who holds the lock of the conversation's row
          collection,       \* whether the collection exists in Qdrant
          points,           \* the chunks with a point in it
          lost,             \* history: points that went with a dropped collection
          ready,            \* _collection_ready of the client
          ensure_lock,      \* who holds _ensure_lock
          task,
          mishaps

conversation == <<roles, watermark, chunks, lock>>
server == <<collection, points, lost>>
client == <<ready, ensure_lock>>
vars == <<conversation, indexed, server, client, task, mishaps>>

(* The code tells user messages, system messages and all others apart. *)
Role == {"user", "system", "other"}
Chunk == [start : Nat, stop : Nat]

(* seen, units: the watermark _chunk_new_turns read, and what it is about   *)
(* to insert.  rest: the chunks whose slice has not been embedded yet.      *)
(* batch: the embedded ones still to be upserted.  again: the upsert is at  *)
(* its second attempt.                                                      *)
Idle == [phase |-> "idle", seen |-> -1, units |-> {}, rest |-> << >>,
         batch |-> << >>, again |-> FALSE]
At(phase) == [Idle EXCEPT !.phase = phase]

Init ==
  /\ roles = << >> /\ watermark = -1 /\ chunks = {} /\ lock = NoTask
  /\ indexed = {}
  /\ collection = FALSE /\ points = {} /\ lost = {}
  /\ ready = FALSE /\ ensure_lock = NoTask
  /\ task = [t \in Tasks |-> Idle]
  /\ mishaps = 0

Misfortune == mishaps < MaxMishaps /\ mishaps' = mishaps + 1

Become(t, r) == task' = [task EXCEPT ![t] = r]

-----------------------------------------------------------------------------
(* Turns and chunks. *)

Seqs == 0 .. Len(roles) - 1
RoleAt(n) == roles[n + 1]

(* The user message at or before the watermark, 0 if there is none. *)
Boundary(w) == Max({0} \cup {n \in Seqs : RoleAt(n) = "user" /\ n <= w})

RowsFrom(b) == {n \in Seqs : n >= b /\ RoleAt(n) # "system"}

(* Where a unit starts: at every user message and at the first row. *)
Heads(rows) == {n \in rows : RoleAt(n) = "user" \/ \A m \in rows : n <= m}

(* Mutant: a unit starts one before its first row. *)
UnitsTooEarly(rows) ==
  LET Settled == {h \in Heads(rows) : \E g \in Heads(rows) : h < g}
      End(h)  == Max({n \in rows : \A g \in Heads(rows) : h < g => n < g})
  IN  {[start |-> h - 1, stop |-> End(h)] : h \in Settled}

(* The units but the last, which is the live interaction. *)
SettledUnits(rows) ==
  LET Settled == {h \in Heads(rows) : \E g \in Heads(rows) : h < g}
      End(h)  == Max({n \in rows : \A g \in Heads(rows) : h < g => n < g})
  IN  {[start |-> h, stop |-> End(h)] : h \in Settled}

(* reconcile_history stores a message; the lock is held meanwhile. *)
StoreMessage(role) ==
  /\ Len(roles) < MaxMessages
  /\ lock = NoTask
  /\ roles' = Append(roles, role)
  /\ UNCHANGED <<watermark, chunks, lock, indexed, server, client, task, mishaps>>

BeginPass(t) ==
  /\ task[t].phase = "idle"
  /\ Become(t, At("begun"))
  /\ UNCHANGED <<conversation, indexed, server, client, mishaps>>

(* Mutant: no FOR UPDATE. *)
ReadUnlocked(t) ==
  /\ task[t].phase = "begun"
  /\ lock' = t
  /\ Become(t, [At("read") EXCEPT
                   !.seen = watermark,
                   !.units = SettledUnits(RowsFrom(Boundary(watermark)))])
  /\ UNCHANGED <<roles, watermark, chunks, indexed, server, client, mishaps>>

(* FOR UPDATE, and the three queries behind it, whose rows only the holder  *)
(* of the lock changes.                                                     *)
ReadTurns(t) ==
  /\ task[t].phase = "begun"
  /\ lock = NoTask
  /\ lock' = t
  /\ Become(t, [At("read") EXCEPT
                   !.seen = watermark,
                   !.units = SettledUnits(RowsFrom(Boundary(watermark)))])
  /\ UNCHANGED <<roles, watermark, chunks, indexed, server, client, mishaps>>

Starts(cs) == {c.start : c \in cs}

(* ON CONFLICT (conversation_id, start_seq) DO NOTHING, the new watermark   *)
(* if it is beyond the one read, and the commit.                            *)
InsertChunks(t) ==
  LET new == {u \in task[t].units : u.start \notin Starts(chunks)}
      end == Max({task[t].seen} \cup {u.stop : u \in task[t].units})
  IN  /\ task[t].phase = "read"
      /\ chunks' = chunks \cup new
      /\ watermark' = IF end > task[t].seen THEN end ELSE watermark
      /\ lock' = IF lock = t THEN NoTask ELSE lock
      /\ Become(t, At("select"))
      /\ UNCHANGED <<roles, indexed, server, client, mishaps>>

-----------------------------------------------------------------------------
(* Passes over chunks. *)

(* ORDER BY start_seq: at position i is the one with i - 1 smaller ones. *)
Sorted(S) ==
  [i \in 1 .. Cardinality(S) |-> CHOOSE x \in S : Cardinality({y \in S : y < x}) = i - 1]
Take(s, n) == SubSeq(s, 1, Min({n, Len(s)}))
Drop(s, n) == SubSeq(s, n + 1, Len(s))

(* The next slice, or the end of the pass or rebuild. *)
Slice(rest) == IF rest = << >> THEN Idle ELSE [At("embed") EXCEPT !.rest = rest]

(* At a step of the upsert of the first chunk of the batch. *)
Upserting(phase, r, again) ==
  [At(phase) EXCEPT !.rest = r.rest, !.batch = r.batch, !.again = again]

(* The next chunk of the slice. *)
NextChunk(r) ==
  IF r.batch = << >> THEN Slice(r.rest) ELSE Upserting("ensure", r, FALSE)

SelectPending(t) ==
  /\ task[t].phase = "select"
  /\ Become(t, Slice(Take(Sorted(Starts(chunks) \ indexed), PassLimit)))
  /\ UNCHANGED <<conversation, indexed, server, client, mishaps>>

(* rebuild_vector_index, with or without force. *)
BeginRebuild(t, force) ==
  /\ task[t].phase = "idle"
  /\ Misfortune
  /\ indexed' = IF force THEN {} ELSE indexed
  /\ Become(t, At("select_all"))
  /\ UNCHANGED <<conversation, server, client>>

SelectAll(t) ==
  /\ task[t].phase = "select_all"
  /\ Become(t, Slice(Sorted(Starts(chunks))))
  /\ UNCHANGED <<conversation, indexed, server, client, mishaps>>

(* One call of the provider for a slice. *)
EmbedSlice(t) ==
  LET slice == Take(task[t].rest, EmbedBatchSize)
  IN  /\ task[t].phase = "embed"
      /\ Range(slice) \cap Refused = {}
      /\ Become(t, NextChunk([rest |-> Drop(task[t].rest, EmbedBatchSize), batch |-> slice]))
      /\ UNCHANGED <<conversation, indexed, server, client, mishaps>>

(* It fails: the slice stays pending, the next one is tried. *)
SkipSlice(t) ==
  /\ task[t].phase = "embed"
  /\ Become(t, Slice(Drop(task[t].rest, EmbedBatchSize)))
  /\ \/ /\ Range(Take(task[t].rest, EmbedBatchSize)) \cap Refused # {}
        /\ UNCHANGED mishaps
     \/ Misfortune
  /\ UNCHANGED <<conversation, indexed, server, client>>

-----------------------------------------------------------------------------
(* QdrantVectorStore.upsert for the first chunk of the batch. *)

(* ensure_collection finds the cache set. *)
CollectionCached(t) ==
  /\ task[t].phase = "ensure"
  /\ ensure_lock = NoTask
  /\ ready
  /\ Become(t, Upserting("put", task[t], task[t].again))
  /\ UNCHANGED <<conversation, indexed, server, client, mishaps>>

(* Otherwise it keeps the lock for its requests. *)
LockEnsure(t) ==
  /\ task[t].phase = "ensure"
  /\ ensure_lock = NoTask
  /\ ~ready
  /\ ensure_lock' = t
  /\ Become(t, Upserting("create", task[t], task[t].again))
  /\ UNCHANGED <<conversation, indexed, server, ready, mishaps>>

(* PUT of the collection: created, or 409 and found to be compatible. *)
CreateCollection(t) ==
  /\ task[t].phase = "create"
  /\ collection' = TRUE
  /\ ready' = TRUE
  /\ ensure_lock' = NoTask
  /\ Become(t, Upserting("put", task[t], task[t].again))
  /\ UNCHANGED <<conversation, indexed, points, lost, mishaps>>

PutPoint(t) ==
  LET c == Head(task[t].batch)
  IN  /\ task[t].phase = "put"
      /\ collection
      /\ points' = points \cup {c}
      /\ lost' = lost \ {c}
      /\ Become(t, Upserting("mark", task[t], task[t].again))
      /\ UNCHANGED <<conversation, indexed, collection, client, mishaps>>

(* Mutant: the cache survives the 404. *)
RetryWithCache(t) ==
  /\ task[t].phase = "put"
  /\ ~collection
  /\ ~task[t].again
  /\ Become(t, Upserting("ensure", task[t], TRUE))
  /\ UNCHANGED <<conversation, indexed, server, client, mishaps>>

(* 404, the first time: the cache is stale. *)
PointNotFound(t) ==
  /\ task[t].phase = "put"
  /\ ~collection
  /\ ~task[t].again
  /\ ready' = FALSE
  /\ Become(t, Upserting("ensure", task[t], TRUE))
  /\ UNCHANGED <<conversation, indexed, server, ensure_lock, mishaps>>

(* A second 404 is an HTTP error, which nothing in the pass catches: it     *)
(* ends the pass.                                                           *)
PointNotFoundAgain(t) ==
  /\ task[t].phase = "put"
  /\ ~collection
  /\ task[t].again
  /\ Become(t, Idle)
  /\ UNCHANGED <<conversation, indexed, server, client, mishaps>>

(* Mutant: the marker of a chunk is set for the whole slice. *)
MarkSlice(t) ==
  /\ task[t].phase = "mark"
  /\ indexed' = indexed \cup Range(task[t].batch)
  /\ Become(t, NextChunk([rest |-> task[t].rest, batch |-> Tail(task[t].batch)]))
  /\ UNCHANGED <<conversation, server, client, mishaps>>

(* UPDATE ... WHERE vector_indexed_at IS NULL *)
MarkIndexed(t) ==
  /\ task[t].phase = "mark"
  /\ indexed' = indexed \cup {Head(task[t].batch)}
  /\ Become(t, NextChunk([rest |-> task[t].rest, batch |-> Tail(task[t].batch)]))
  /\ UNCHANGED <<conversation, server, client, mishaps>>

ReleaseBoth(t) ==
  /\ lock' = IF lock = t THEN NoTask ELSE lock
  /\ ensure_lock' = IF ensure_lock = t THEN NoTask ELSE ensure_lock

(* VectorStoreError: the collection is incompatible or its parameters       *)
(* cannot be read.  The chunk stays pending, the next one is tried.         *)
SkipChunk(t) ==
  /\ task[t].phase = "create"
  /\ collection
  /\ Misfortune
  /\ ReleaseBoth(t)
  /\ Become(t, NextChunk([rest |-> task[t].rest, batch |-> Tail(task[t].batch)]))
  /\ UNCHANGED <<roles, watermark, chunks, indexed, server, ready>>

(* The task ends between any two steps: the timeout of index_memory, a      *)
(* cancelled request, a failed statement, an HTTP error of the client.  A   *)
(* request or a commit that took effect although its answer was lost is     *)
(* its step followed by this one; only the client's cache tells the two     *)
(* apart, so the collection may be there without its answer.                *)
EndEarly(t) ==
  /\ task[t].phase # "idle"
  /\ Misfortune
  /\ ReleaseBoth(t)
  /\ Become(t, Idle)
  /\ collection' \in {collection, collection \/ task[t].phase = "create"}
  /\ UNCHANGED <<roles, watermark, chunks, indexed, points, lost, ready>>

(* The process dies and is started again. *)
Restart ==
  /\ Misfortune
  /\ lock' = NoTask
  /\ ready' = FALSE /\ ensure_lock' = NoTask
  /\ task' = [t \in Tasks |-> Idle]
  /\ UNCHANGED <<roles, watermark, chunks, indexed, server>>

(* An operator deletes the collection, or Qdrant loses its volume. *)
DropCollection ==
  /\ collection
  /\ Misfortune
  /\ collection' = FALSE
  /\ points' = {}
  /\ lost' = lost \cup points
  /\ UNCHANGED <<conversation, indexed, client, task>>

Refusal(t) == /\ SkipSlice(t)
              /\ UNCHANGED mishaps

Upsert(t) ==
  \/ CollectionCached(t) \/ LockEnsure(t) \/ CreateCollection(t)
  \/ PutPoint(t) \/ PointNotFound(t) \/ PointNotFoundAgain(t)
  \/ MarkIndexed(t)

Proceed(t) ==
  \/ ReadTurns(t) \/ InsertChunks(t)
  \/ SelectPending(t) \/ SelectAll(t)
  \/ EmbedSlice(t) \/ Refusal(t)
  \/ Upsert(t)

Next ==
  \/ \E role \in Role : StoreMessage(role)
  \/ \E t \in Tasks : \/ BeginPass(t)
                      \/ \E force \in BOOLEAN : BeginRebuild(t, force)
                      \/ Proceed(t)
                      \/ SkipSlice(t) \/ SkipChunk(t) \/ EndEarly(t)
  \/ Restart
  \/ DropCollection

Spec == Init /\ [][Next]_vars

(* When Proceed(t) is enabled. *)
CanProceed(t) == /\ task[t].phase # "idle"
                 /\ task[t].phase = "begun" => lock = NoTask
                 /\ task[t].phase = "ensure" => ensure_lock = NoTask

(* A task that can go on infinitely often does: what it waits for are the   *)
(* two locks, which queue their waiters.  And the conversation goes on, so  *)
(* that there is always another pass.  Mishaps are never forced.  This is   *)
(* SF_vars(Proceed(t)) /\ WF_vars(BeginPass(t)) with the enabling           *)
(* conditions written out.                                                  *)
FairSpec ==
  /\ Spec
  /\ \A t \in Tasks : /\ <>[]~CanProceed(t) \/ []<><<Proceed(t)>>_vars
                      /\ []<>(task[t].phase # "idle")

-----------------------------------------------------------------------------
TypeOK ==
  /\ roles \in Seq(Role)
  /\ watermark \in Nat \cup {-1}
  /\ chunks \in SUBSET Chunk
  /\ indexed \in SUBSET Nat /\ points \in SUBSET Nat /\ lost \in SUBSET Nat
  /\ lock \in Tasks \cup {NoTask} /\ ensure_lock \in Tasks \cup {NoTask}
  /\ collection \in BOOLEAN /\ ready \in BOOLEAN
  /\ \A t \in Tasks : /\ task[t].units \in SUBSET Chunk
                      /\ task[t].rest \in Seq(Nat) /\ task[t].batch \in Seq(Nat)
  /\ mishaps \in 0 .. MaxMishaps

(* The incremental scan is exact: the chunks are the settled units of the   *)
(* whole transcript up to the watermark, however the passes that made them  *)
(* overlapped or died, so turns are never cut, joined, repeated or left     *)
(* out, and the live turn is never chunked (_chunk_new_turns: "a turn       *)
(* straddling the boundary is reconsidered once it completes").             *)
ChunksExact ==
  chunks = {u \in SettledUnits(RowsFrom(0)) : u.stop <= watermark}

(* A chunk is marked only when its vector is stored, or went down with a    *)
(* dropped collection ("vector_indexed_at: NULL until embedding AND Qdrant  *)
(* upsert both succeeded for that chunk").                                  *)
MarkedIsStored == indexed \subseteq points \cup lost

(* When mishaps stop, every settled turn gets its chunk and its marker,     *)
(* whatever was pending and whatever happened to the collection ("partial   *)
(* embedding/Qdrant failures are recovered automatically without a manual   *)
(* rebuild").  A chunk that the provider refuses holds back no more than    *)
(* its slice, provided that fewer chunks are held back than PassLimit.      *)
EventuallyIndexed ==
  <>[](/\ chunks = SettledUnits(RowsFrom(0))
       /\ Cardinality(Starts(chunks) \ indexed) <=
            EmbedBatchSize * Cardinality(Starts(chunks) \cap Refused))
=============================================================================
