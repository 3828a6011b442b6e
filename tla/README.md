# Verification of the context proxy

The proxy sits between OpenAI-compatible chat clients and an inference
endpoint. It stores every conversation in PostgreSQL, derives a vector index in
Qdrant from it, assembles a context within a token budget for each request, and
guards the endpoint with retries and a circuit breaker. It is one asyncio
process (several may share a database): a request is a task, and tasks
interleave at every `await`.

This directory holds TLA+ modules translated from the code under
`src/src/context_proxy/`, the configurations that TLC checks, and proofs that
TLAPS checks. `PROJECT.json` maps every definition to the lines it models and
lists the hazards the properties are aimed at.

## Parts of the system

| part | code | state | modules |
|---|---|---|---|
| circuit breaker | `providers/resilience.py` | state, failure count, probe reservation, clock | `CircuitBreaker` |
| inference provider | `providers/llm.py` | calls in flight | `UpstreamCall` |
| history reconciliation | `conversation/reconciliation.py` | none (pure) | `Reconciliation` |
| conversation store | `conversation/projection_store.py`, `store.py` | rows, row lock, transactions | `Transcript` (abstract), `ConversationStore` |
| chat handler, streaming capture | `api/routes.py`, `capture.py` | requests in flight | `ChatTurn` |
| memory indexing | `memory/service.py`, `index_memory` in `api/routes.py` | chunks, watermark, markers | `MemoryIndex` |
| vector store client | `memory/qdrant.py` | collection, readiness cache, lock | `MemoryIndex`, `MemoryRecords` |
| memory records, retrieval | `memory/service.py`, `api/routes_internal.py` | records, status, supersession, row locks | `MemoryRecords` |
| context planner and engine | `context/` | none (pure) | `ContextPlan` |
| rate limiter | `observability/ratelimit.py` | buckets, last sweep | `RateLimiter` |
| middleware | `observability/middleware.py` | requests in flight, counters | `Gateway` |
| migrations, lifecycle | `db/database.py`, `main.py` | applied migrations, advisory lock | `Migrations` |
| identity, validation, responses, configuration, metrics, logging | `conversation/identity.py`, `api/`, `config.py`, `observability/` | none, or output only | not modelled |

How they interact: a process migrates the database before it serves. A request
passes the middleware and the limiter. `chat_completions` reconciles the inbound
history with the store, retrieves memories and plans a context, calls the
provider through the breaker, and, when the answer is complete, reconciles
history plus answer with the store and indexes the turns that are over.

## What the modules say

**CircuitBreaker, UpstreamCall.** The breaker's fields are a record and every
method, which the code runs under the object's lock, an operator on it.
`_opened_at` and the clock are reduced to `reset_elapsed`, the only thing the
code asks of them. The failure count saturates at the threshold, above which
the code does not tell values apart. A call goes through `_resilient_send`:
`Admit` or `Refuse`, then sending, delivered or backing off, until one of
`ConnectExhausted`, `TransportError`, `Answer` and `Cancel` ends it, each
including the `release_probe` of the `finally` block. Whether a failure happens
before or after the endpoint has the request is the environment's choice;
connect errors happen only before. The body of a streamed response is read
after the call is over and is part of `ChatTurn`.

**Reconciliation.** `reconcile_projection` and its helpers as operators. A
message is a record of what `canonical_message` and `equivalent` look at: role,
normalised text, tool calls, the id of a tool result, whether it carries a mark
of a compaction summary, and a representation (reasoning fields, text as parts)
that they must ignore. The loops are the longest matching prefix or run. The
results `append_from = None` and `append_from = len(incoming)` are one, as they
are to the store.

**Transcript.** What the store promises: a transcript that grows atomically by
the tail reconciliation finds new, or is left alone.

**ConversationStore.** The transaction of `reconcile_history`, one step per
statement, for any number of sessions. `LockConversation` is the upsert of
`_ensure_conversation` with the `FOR UPDATE` behind it: the upsert already
waits for the row's lock. `Conflict`, `NothingNew` and `FindTail` are the three
ways on from the read; `ReadMaxSeq` and `InsertMessage` are `_insert_messages`
with `_persist_tool_parts`; `Abort` is any failure, cancellation or crash.
`created` stands for `created_at`, which PostgreSQL sets to the start of the
transaction. The standalone `ensure_conversation` only touches `updated_at`.

**ChatTurn.** `chat_completions` with `persist_assistant` for concurrent
requests of one conversation, and `PersistingLLMStream` by the ways a stream
can end: with a message, or broken, too large or empty. `finalize` looks neither
for `[DONE]` nor for a finish reason, so a stream that the endpoint ended early
but in good order counts as complete, and its message may be the beginning of
an answer; what `TypeOK` says of stored answers is that the response ended
without an error. Each `reconcile_history` is a single step here, which
`ConversationStore` justifies. A database error may come after the commit took
effect (`PersistFails`). Planning is a step with two outcomes, indexing a step
without an effect on this state. `synced` and `beaten` record history for the
properties and influence nothing.

**MemoryIndex.** One conversation, its chunks and their vectors. A task is a
call of `index_completed_turns` or the chunk part of `rebuild_vector_index`, one
step per statement or HTTP request: `ReadTurns` and `InsertChunks` are
`_chunk_new_turns` under its row lock, `SelectPending`, `EmbedSlice` and
`SkipSlice` the loop over slices, `CollectionCached` to `MarkIndexed` the upsert
of one chunk with the client's cache and lock. `EndEarly` ends a task anywhere
(the timeout of `index_memory`, a failed statement, an HTTP error), `Restart` is
a crash, `DropCollection` an operator. Chunks are named by their `start_seq`, the
unique key; a message is its role. `lost` records which points went with a
dropped collection: nothing in the code promises to notice that before a rebuild.
HTTP errors of an upsert are not `VectorStoreError`s, so they end a pass although
a docstring (`memory/service.py:175`) calls Qdrant failures per-chunk; the model
does as the code does.

**MemoryRecords.** `create_memory` is `LockConversation`, `LockTarget`, the commit of
insert and update, and the upsert; `supersede_memory` is one statement; a
retrieval is the vector search, the lexical search and the fetch by id. Scores,
limits and failures only make the result smaller and are left out: a search
returns all that it may. Conversations are compared by identity; the code
compares the printed id with the client's spelling of it and so also refuses a
target when the client spells the id differently, which has the effect of
`AbortCreate`. The two reads are not a snapshot, so a record may be
returned together with one that supersedes it meanwhile.

**ContextPlan.** `segment_messages`, `separate_current_request`, `plan_context` and
`ContextAssemblyEngine.build` as operators; the actions put together a payload,
what was retrieved, a budget, and plan it with either planner. A message is a
role and a text with a cost; a retrieved item whose `dedup_text` is empty has
no content, and is never a duplicate. `make_plan` has the guard of `_make_plan`
against retrieved blocks that would speak as instructions, which `BudgetKept`
shows never to fire. Two facts a reader should know. The redundancy of two
retrieved items is computed from their keys, not their texts, so the similarity
is a constant function of two keys; the docstring of `_deduplicate`
(`engine.py:378`), which leaves partial overlap to the redundancy pressure of
MMR, expects more than that. And duplicates are removed before the budget is
allocated, so a retrieved block that repeats a turn goes even if the turn is
then too large. No property depends on either.

**RateLimiter, Gateway.** The limiter's fields are a record and its methods
operators on it, as for the breaker. Time is in ticks, and a bucket's content
is the number of ticks that refill it, so the arithmetic is exact; the code uses
floating point. `Gateway` is the middleware: `TooLarge`, `Exempt`, `Admit` and
`Refuse` run without an await, then the body is drained, the application
answers, and `finally` counts. Every way out is an action. `spent`, `allowance`
and `promised` record history for the properties. `Retry-After` speaks of the
bucket that refused; another one may refuse the retry. On the quota the
documents disagree. `docs/security.md:61`, the docstring of `ratelimit.py` and
the tests say that rotating `X-Conversation-ID` cannot mint quota, which is what
the code does and `QuotaBound` states. The docstring of `RateLimitSettings`
(`config.py:117-126`) says that a client rotating it gets fresh buckets, by
design, and the head of `middleware.py` (lines 13-14) still names that header,
or else the client's host, as the one key: both describe an earlier limiter with
one bucket per request.

**Migrations.** Processes of several releases on one database: connect or
degrade, then the bootstrap transaction and one per file, statement by
statement, with a failure or crash between any two. Uncommitted DDL is a phase of
its transaction, so it vanishes with it.

## Runs

| run | instance | shows |
|---|---|---|
| `upstream_call` | 3 calls, threshold 2, 1 retry | reservations never leak, count and state agree, nothing delivered is resent, the circuit never stays shut |
| `exclusive_probe` | 3 calls, threshold 1 | **violated**: two probes at a time |
| `transcript` | all histories of up to 4 of 5 messages, scan of 2 | replays, appends and forks |
| `store` | 2 sessions, 4 transactions | the store implements `Transcript`; fresh decisions, sequence numbers, tool references; every transaction ends |
| `newest_call` | 2 sessions, 3 transactions | **violated**: a result linked to the older of two calls |
| `chat_turn` | 2 requests at a time, 3 in all | replay of full histories, losers dropped, answers in place |
| `loser_dropped` | same | **violated** for windowed histories |
| `memory_index` | 2 tasks, 5 messages, slices of 2, a limit of 3, one refused chunk, 2 mishaps | chunks are exactly the settled turns, a marker means a vector, everything but the refused chunk's slice is indexed in the end |
| `memory_records` | 2 conversations, 2 creators, 1 reader, 3 records | links are sound, retired is for good and not returned, no creators block each other |
| `context` | payloads of up to 5 messages, up to 2 of 7 items, 3 budgets | budget, request and instructions, newest whole turns, the planners agree |
| `gateway` | 2 clients, 2 conversations, 2 buckets, 2 requests at a time | quota, Retry-After, table limit, accounting |
| `migrations` | 3 processes of two releases, 3 and 2 files | applied once and in order, served only when migrated, every start ends |

The three violated properties are statements of the repository that the code
does not keep:

- `ExclusiveProbe` (docstring of `CircuitBreaker`, `docs/operations.md`): a
  call admitted before the circuit opened that ends while a probe is running
  clears the probe's reservation, because `release_probe` does not know whose
  it is.
- `NewestCall` (`tests/test_store_concurrency.py`): two calls with one id that
  are stored in one transaction have the same `created_at`; the tie is broken by
  a random id. The test stores them in two transactions.
- `LoserDropped` (docstring of `persist_assistant`): two identical requests send
  a window `[ok, user]` of the transcript `[user, ok, user]`. The winner's
  answer is again `ok`. The loser's `[ok, user, answer]` then anchors on it, and
  `user` and `answer` are stored again. For full histories the docstring is
  right: `FullLoserDropped`.

**Bounds.** Three calls are one more than the two whose outcomes cross (a probe,
a late call and a newcomer); threshold 2 separates a failure from an opening.
Four messages are a matched prefix, a gap, an anchor and a tail; `MaxScan` 2 lets
the scan limit cut off an anchor, which the default of 128 does not at this size.
Two sessions with four transactions let each commit between any two statements
of the other. `MaxBegins` and `MaxTurns` end the runs, after which `Quiescent`
stutters, so that every other deadlock is an error. Five messages are two
settled turns and a live one, with an instruction or a second answer to spare;
three records a target and two that supersede it. Two mishaps are a failure
during the recovery from another. The gateway's bucket holds one token, a second
is two ticks and a token four, so that Retry-After rounds; a table of two is
full with one client and its conversation; the waits fall before, at and after a
refill and a lifetime. Its proofs hold for every value. The samples are in
`SampleMessages` and the MC modules.

`EventuallyIndexed` depends on its instance: a pass looks at the oldest
`PassLimit` pending chunks, and chunks that the provider refuses for good hold
back their slices. It holds as long as fewer are held back than the limit lets
through. The run has one refused chunk, slices of 2 and a limit of 3, so it
shows the recovery from cancellations, failures and a lost collection, and not
what happens when the limit is filled. With the code's 100 and 64, two such
chunks in different slices of the first 100 would keep all later ones waiting
for good. The docstrings promise more, if one reads them literally: "Every
invocation retries chunks whose vector_indexed_at is NULL" (`memory/service.py:71`)
and "every chunk still pending" (line 170).

**Fairness.** `UpstreamCall!FairSpec`: an admitted call goes on (connect, read,
write and pool timeouts end a send that stalls, the rest are sleeps) and time
passes. The read timeout is per read, so this assumes of the endpoint that a
response it started does not trickle in for ever; nothing is assumed of clients.
`ConversationStore!FairSpec`: a session that can execute its next statement does,
and one that waits for the lock gets it, since PostgreSQL queues the waiters.
`MemoryIndex!FairSpec` and `Migrations!FairSpec`: the same for their tasks and
processes, whose locks (row, advisory, asyncio) are queues as well, and in
`MemoryIndex` every task starts again, since each answer of the conversation
starts a pass. These write the condition under which a step is enabled out
instead of using `WF` and `SF`. Begin, Abort, failures, crashes and interventions
are never forced.

## Proofs

All theorems hold for every value of the constants: any number of calls,
sessions, requests, tasks and processes, any threshold, number of retries, scan
limit and, within the assumptions below, rate limit, any set of messages and histories, any list of inbound messages and retrieved
items. Every safety invariant and action property that a passing run checks is
proved.

- `UpstreamCallProofs`: types with `NeverResent`, then `ReservationHeld` and
  `CountMatchesState`. Lemmas say what each breaker method does; the
  reservation invariant is inductive because every outcome clears the
  reservation, its own or not: the same fact that breaks `ExclusiveProbe`.
- `ReconciliationProofs`: lemmas on prefixes, runs and anchors: where an anchor
  ends, that a longer transcript keeps its matching prefixes, that a stored
  prefix is a replay.
- `ConversationStoreProofs`: the inductive invariant adds to types,
  `DecisionFresh` and `SeqFollows` that a session is between lock and commit
  exactly when it holds the lock (`LockInv`) and that it has inserted nothing
  before it starts inserting (`StartInv`); without the first, another commit
  could invalidate a decision. `RefinementCorrect` then shows that a commit is a
  `Sync` and every other step a stutter. `RefsCorrect` carries the link of every
  row through the inserts: what a transaction sees, committed rows with its own,
  is linked soundly after each round (`RefInv`). `PromisesCorrect` takes the three
  promises of `Transcript` through the refinement to the rows of the store.
- `ChatTurnProofs`: first `Transcript`, which `ChatTurn` extends:
  `ReplayIdempotent`, `AnchoredAppend` and `ForksRefused`, by cases on the result
  of `reconcile_projection`. They hold for all transcripts, so the invariant
  needed is only that the transcript is a sequence of messages.
  `HandlersReconcile` shows that the handlers implement `Transcript`, so the three
  hold of them too. For the handlers, the invariant adds that every full history reconciled is
  a prefix of the transcript (`SyncedPrefix`) and that a request in flight has a
  history (`HasHistory`). `FullReplayCorrect` follows from the first,
  `ReplyInPlaceCorrect` from what reconciliation appends.
  `FullLoserDroppedCorrect` needs that the transcript has passed the history of a
  beaten request: it is longer or differs from it (`BeatenInv`), which no later
  append undoes; a full history does not differ, so its answer could only be
  anchored at its own end, where nothing is left to insert.
- `MemoryProofs`, the index: the invariant says that the watermark is the end of a
  settled unit (`WatermarkInv`), that a task between its read and its commit
  holds the row lock and its units are those of the present transcript
  (`LockInv`), and that the chunk about to be marked has a point (`MarkInv`).
  The core is a lemma: the units found from the boundary on, with the chunks up
  to the watermark, are the units of the whole transcript, because a scan that
  starts at a user message cuts where the full scan cuts. `IndexTypeCorrect` needs
  in addition that a task which is about to upsert or mark has a chunk to do it
  for, whatever failed before (`TaskOK`).
- `MemoryProofs`, the records: a call has locked what its phase says and nobody
  else holds a lock (`CreateInv`, `RecordLocks`), calls that have not stored their
  record have room for it (`RoomInv`, by cardinalities), and a record supersedes
  only older ones (`RowInv`); with these, `SupersessionSound` is inductive. A call
  that holds a target's lock waits for nobody, and without one nobody waits for
  a target; hence `NoStandstill`. `RetrievalInv` follows a
  retrieval: what was retired when it began still is, since `RetiredForGood`.
- `ContextPlanProofs`: the loops of the planners are recursive functions over
  lists. Each gets a lemma for one element more; induction over lists (derived
  from the well-foundedness of the naturals, for membership in a set) does the
  rest. `Segmented` is such an induction: `SegInv` says what the units, the
  leading answers and the open turn hold of the messages read so far, an
  instruction inside a turn included. `WindowLongest` and `DropLongest` show that
  the engine's loop and the window planner's both end with the longest newest
  part that fits (`Longest`), which is unique; hence `AgreementCorrect`. The
  inductive invariant says that a plan is such an outcome for a split of the
  inbound messages (`PlanFor`); budget, types and keys, request, instructions and
  newest turns follow from it. Uniqueness of keys needs that `mmr_select` picks an
  item at most once, for which its rank must be a total order (`RankOrder`). The
  guard of `_make_plan` never fires because a block always speaks as the user
  (`NoneUntrusted`).
- `GatewayProofs`: `QuotaInv` says of each client that what it spent plus what its
  bucket holds is at most its allowance plus the refill up to the bucket's last
  update, or, with no bucket, that a whole burst is left; that is what makes the
  eviction of a client's bucket by its own conversation impossible (it was
  updated in the same call) and expiry harmless. `PromiseInv` relates a promise to
  the bucket's content in the same way. `AccountInv` follows each request.
- `MigrationsProofs`: the lock holder is the only process inside a transaction,
  the names applied are `1 .. Len(schema)`, and a process is past file `n` only if
  `n` is applied.

The assumptions are the named `ASSUME`s: a positive threshold (the constructor
refuses others), natural bounds, histories that are sequences of messages,
non-empty histories in `ChatTurn` (`api/validation.py` refuses empty ones), and for
the limiter room for two buckets and a lifetime in which a bucket fills: the
constructor and `docs/configuration.md:143` accept less, and then the quota is
not kept, but the defaults are far from it. `GatewayAssumption` has the clock
advance between two admissions: `time.monotonic` counts nanoseconds on Linux. On
a clock coarse enough for two admissions to read the same time, `min` in
`_make_room` might pick the client's own bucket to make room for its
conversation. `Migrations` assumes that a release adds files behind the old ones.
`ContextPlan` assumes that every message costs something (`TokenCounter` adds an
overhead per message), that similarity is between 0 and 1 (`mmr.py` clamps it),
and that keys of retrieved items are those of no unit.

Only model-checked: the liveness properties `NeverPinned`, `EveryTransactionEnds`,
`EventuallyIndexed` and `EveryStartEnds`, since fairness is out of the prover's
reach. The invariant of `ContextPlanProofs` quantifies over all splits and windows
and was not given to TLC; its consequences are what the run `context` checks.

## Not modelled

The contents of messages, HTTP and SSE encoding with the reassembly of streamed
tool calls, headers, metrics and logs. The conversation's identity, validation
and configuration are functions of a single request; the embedding client is
one HTTP call and appears by its outcomes. `_persist_media_parts` writes rows
that nothing reads back; `append_messages`, `embed_texts_in_batches` and
`RateLimiter.allow` have no caller. No caller passes pinned messages or superseded
ids to the engine, and `_filter_foreign` has nothing to find, since `retrieve`
returns items of one conversation. Several conversations at once: nothing but
the breaker, the rate limiter, the vector store client and the pool is shared
between them; the pool's size is not modelled. Rounding of floating-point numbers
in the limiter and in scores.
