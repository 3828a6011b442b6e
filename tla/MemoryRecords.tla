---------------------------- MODULE MemoryRecords ----------------------------
(***************************************************************************)
(* Memory records: create_memory with supersession, supersede_memory,       *)
(* retrieve and the memory part of rebuild_vector_index of                  *)
(* memory/service.py, as the handlers of api/routes_internal.py and the     *)
(* chat handler call them.  A step is one statement or one request; the     *)
(* rows a transaction has locked or written are out of sight until its      *)
(* commit, so insert, update and commit are one step.                       *)
(***************************************************************************)
EXTENDS Integers, Sequences, FiniteSets

CONSTANTS Conversations,
          Creators,         \* concurrent calls of create_memory
          Readers,          \* concurrent calls of retrieve
          MaxRecords        \* bound on the records ever made

VARIABLES records,          \* committed rows, in order of commit; ids are positions
          conv_lock,        \* row locks: conversations
          row_lock,         \* and records
          record_points,    \* the records with a point in Qdrant
          create, retrieval

database == <<records, conv_lock, row_lock>>
record_vars == <<database, record_points, create, retrieval>>

None == 0                   \* no record
Free == "free"              \* a lock is free
Nowhere == "nowhere"        \* no conversation

ASSUME RecordsAssumption == /\ IsFiniteSet(Creators) /\ Free \notin Creators
                            /\ MaxRecords \in Nat

(* The code treats resolved and obsolete alike. *)
Status == {"active", "superseded", "obsolete"}
Id == 1 .. MaxRecords
Ids == DOMAIN records
IsActive(r) == records[r].status = "active"
Active == {r \in Ids : IsActive(r)}
Of(c) == {r \in Ids : records[r].conv = c}

Record == [conv : Conversations, status : Status,
           supersedes : Id \cup {None}, superseded_by : Id \cup {None}]

NoCreate == [phase |-> "idle", conv |-> Nowhere, target |-> None, id |-> None]
NoRetrieval == [phase |-> "idle", conv |-> Nowhere, hits |-> {}, found |-> {}, retired |-> {}]

RecordsInit ==
  /\ records = << >>
  /\ conv_lock = [c \in Conversations |-> Free]
  /\ row_lock = [r \in Id |-> Free]
  /\ record_points = {}
  /\ create = [p \in Creators |-> NoCreate]
  /\ retrieval = [q \in Readers |-> NoRetrieval]

-----------------------------------------------------------------------------
(* create_memory *)

Unstored == {p \in Creators : create[p].phase \in {"begun", "locked", "checked"}}

BeginCreate(p, c, t) ==
  /\ create[p].phase = "idle"
  /\ Len(records) + Cardinality(Unstored) < MaxRecords
  /\ create' = [create EXCEPT ![p] = [phase |-> "begun", conv |-> c, target |-> t, id |-> None]]
  /\ UNCHANGED <<database, record_points, retrieval>>

(* The parent row is made if need be, and locked. *)
LockConversation(p) ==
  /\ create[p].phase = "begun"
  /\ conv_lock[create[p].conv] = Free
  /\ conv_lock' = [conv_lock EXCEPT ![create[p].conv] = p]
  /\ create' = [create EXCEPT ![p].phase = "locked"]
  /\ UNCHANGED <<records, row_lock, record_points, retrieval>>

LockTarget(p) ==
  LET t == create[p].target
  IN  /\ create[p].phase = "locked"
      /\ t \in Ids
      /\ row_lock[t] = Free
      /\ row_lock' = [row_lock EXCEPT ![t] = p]
      /\ create' = [create EXCEPT ![p].phase = "checked"]
      /\ UNCHANGED <<records, conv_lock, record_points, retrieval>>

Release(p) ==
  /\ conv_lock' = [c \in Conversations |-> IF conv_lock[c] = p THEN Free ELSE conv_lock[c]]
  /\ row_lock' = [r \in Id |-> IF row_lock[r] = p THEN Free ELSE row_lock[r]]

(* An unknown target, or one of another conversation: ValueError.  The code *)
(* compares the id of the target's conversation, as uuid prints it, with    *)
(* the string the client sent; another spelling of the same id is refused   *)
(* as well, which has the effect of AbortCreate.                            *)
RefuseTarget(p) ==
  LET t == create[p].target
  IN  /\ \/ create[p].phase = "locked" /\ t # None /\ t \notin Ids
         \/ create[p].phase = "checked" /\ t \notin Of(create[p].conv)
      /\ Release(p)
      /\ create' = [create EXCEPT ![p] = NoCreate]
      /\ UNCHANGED <<records, record_points, retrieval>>

(* Mutant: no precheck. *)
CanInsertUnchecked(p) == create[p].phase \in {"locked", "checked"}

CanInsert(p) ==
  \/ create[p].phase = "locked" /\ create[p].target = None
  \/ create[p].phase = "checked" /\ create[p].target \in Of(create[p].conv)

NewRecord(c, t) ==
  [conv |-> c, status |-> "active", supersedes |-> t, superseded_by |-> None]

(* Mutant: WHERE status = 'active', as in supersede_memory. *)
RetireActive(t, by) ==
  [r \in Ids |-> IF r = t /\ records[r].status = "active"
                 THEN [records[r] EXCEPT !.status = "superseded", !.superseded_by = by]
                 ELSE records[r]]

(* Mutant: no condition on the status. *)
RetireAlways(t, by) ==
  [r \in Ids |-> IF r = t
                 THEN [records[r] EXCEPT !.status = "superseded", !.superseded_by = by]
                 ELSE records[r]]

(* UPDATE ... WHERE status <> 'superseded' *)
Retire(t, by) ==
  [r \in Ids |-> IF r = t /\ records[r].status # "superseded"
                 THEN [records[r] EXCEPT !.status = "superseded", !.superseded_by = by]
                 ELSE records[r]]

(* INSERT, the update of the target, and the commit. *)
InsertMemory(p) ==
  LET id == Len(records) + 1
      t  == create[p].target
  IN  /\ CanInsert(p)
      /\ records' = Append(Retire(t, id), NewRecord(create[p].conv, t))
      /\ Release(p)
      /\ create' = [create EXCEPT ![p].phase = "stored", ![p].id = id]
      /\ UNCHANGED <<record_points, retrieval>>

(* _embed_and_upsert, behind the commit. *)
UpsertMemory(p) ==
  /\ create[p].phase = "stored"
  /\ record_points' = record_points \cup {create[p].id}
  /\ create' = [create EXCEPT ![p] = NoCreate]
  /\ UNCHANGED <<database, retrieval>>

(* Mutant: the transaction stays open. *)
LeakTransaction(p) ==
  /\ create[p].phase # "idle"
  /\ create' = [create EXCEPT ![p] = NoCreate]
  /\ UNCHANGED <<database, record_points, retrieval>>

(* The call ends between two steps: a failed statement or request, or its   *)
(* task is cancelled.  A record that is stored stays without its point.     *)
AbortCreate(p) ==
  /\ create[p].phase # "idle"
  /\ Release(p)
  /\ create' = [create EXCEPT ![p] = NoCreate]
  /\ UNCHANGED <<records, record_points, retrieval>>

(* supersede_memory, one statement; it finds nothing to do unless the       *)
(* record is active.  The request may name any status.                      *)
SupersedeMemory(r, status) ==
  /\ r \in Ids
  /\ row_lock[r] = Free
  /\ IsActive(r)
  /\ records' = [records EXCEPT ![r].status = status]
  /\ UNCHANGED <<conv_lock, row_lock, record_points, create, retrieval>>

-----------------------------------------------------------------------------
(* retrieve *)

(* The query is embedded and Qdrant asked.  Every point of the conversation *)
(* may be a hit; limits, scores and failures only make the result smaller,  *)
(* here and below.                                                          *)
SearchPoints(q, c) ==
  /\ retrieval[q].phase = "idle"
  /\ retrieval' = [retrieval EXCEPT ![q] =
       [phase |-> "lexical", conv |-> c, hits |-> record_points \cap Of(c), found |-> {},
        retired |-> Ids \ Active]]
  /\ UNCHANGED <<database, record_points, create>>

(* _lexical_search: every active record may match. *)
LexicalSearch(q) ==
  /\ retrieval[q].phase = "lexical"
  /\ retrieval' = [retrieval EXCEPT ![q].phase = "fetch",
                                    ![q].found = Active \cap Of(retrieval[q].conv)]
  /\ UNCHANGED <<database, record_points, create>>

(* Mutant: _fetch_by_ids trusts the index. *)
FetchAny(q) ==
  /\ retrieval[q].phase = "fetch"
  /\ retrieval' = [retrieval EXCEPT ![q].phase = "done",
                                    ![q].found = @ \cup retrieval[q].hits]
  /\ UNCHANGED <<database, record_points, create>>

(* _fetch_by_ids for the hits that the lexical search did not find. *)
FetchByIds(q) ==
  /\ retrieval[q].phase = "fetch"
  /\ retrieval' = [retrieval EXCEPT ![q].phase = "done",
       ![q].found = @ \cup (retrieval[q].hits \cap Active \cap Of(retrieval[q].conv))]
  /\ UNCHANGED <<database, record_points, create>>

(* The result is used, or a query failed (RetrievalError). *)
EndRetrieve(q) ==
  /\ retrieval[q].phase # "idle"
  /\ retrieval' = [retrieval EXCEPT ![q] = NoRetrieval]
  /\ UNCHANGED <<database, record_points, create>>

-----------------------------------------------------------------------------
(* rebuild_vector_index reads the active records, embeds them and upserts    *)
(* them one by one; a failed upsert is counted and left out.  Every record  *)
(* is active when it is made and a rebuild may have read it then, so at any *)
(* time a rebuild may upsert any record, retired or not.                    *)
RebuildMemory(r) ==
  /\ r \in Ids
  /\ record_points' = record_points \cup {r}
  /\ UNCHANGED <<database, create, retrieval>>

ProceedCreate(p) == \/ LockConversation(p) \/ LockTarget(p) \/ RefuseTarget(p)
              \/ InsertMemory(p) \/ UpsertMemory(p)

RecordsNext ==
  \/ \E p \in Creators : \/ \E c \in Conversations, t \in Id \cup {None} : BeginCreate(p, c, t)
                         \/ ProceedCreate(p)
                         \/ AbortCreate(p)
  \/ \E r \in Id, status \in Status : SupersedeMemory(r, status)
  \/ \E q \in Readers : \/ \E c \in Conversations : SearchPoints(q, c)
                        \/ LexicalSearch(q) \/ FetchByIds(q) \/ EndRetrieve(q)
  \/ \E r \in Id : RebuildMemory(r)

RecordsSpec == RecordsInit /\ [][RecordsNext]_record_vars

-----------------------------------------------------------------------------
RecordsTypeOK ==
  /\ records \in Seq(Record)
  /\ conv_lock \in [Conversations -> Creators \cup {Free}]
  /\ row_lock \in [Id -> Creators \cup {Free}]
  /\ record_points \subseteq Ids
  /\ \A r \in Ids : records[r].supersedes \in 0 .. r - 1

(* A record that another one supersedes is superseded from the moment the   *)
(* other can be seen, whatever became of it before, both are of one         *)
(* conversation, and superseded_by names one that supersedes it: the        *)
(* precheck and both writes of create_memory are one transaction.           *)
SupersessionSound ==
  \A r, s \in Ids :
    /\ records[s].supersedes = r => /\ records[r].status = "superseded"
                                    /\ records[r].conv = records[s].conv
    /\ records[r].superseded_by = s => records[s].supersedes = r

(* A record is retired for good: no sequence of calls makes it active       *)
(* again or gives a superseded one another successor, although both         *)
(* handlers update it and may name any status ("Superseded/obsolete records *)
(* are NEVER deleted", create_memory).                                      *)
RetiredForGood ==
  [][\A r \in Ids :
       /\ r \in Ids'
       /\ ~IsActive(r) => ~IsActive(r)'
       /\ records[r].status = "superseded" =>
            records'[r].superseded_by = records[r].superseded_by]_record_vars

(* What a retrieval returns is of its conversation and was not retired when *)
(* it began, although points of retired records stay in Qdrant ("active     *)
(* memories only = supersession filtering", retrieve).                      *)
NeverReturnsRetired ==
  \A q \in Readers :
    retrieval[q].phase = "done" =>
      /\ retrieval[q].found \cap retrieval[q].retired = {}
      /\ retrieval[q].found \subseteq Of(retrieval[q].conv)

(* When ProceedCreate(p) is enabled. *)
CanProceedCreate(p) ==
  LET t == create[p].target
  IN  CASE create[p].phase = "begun"  -> conv_lock[create[p].conv] = Free
        [] create[p].phase = "locked" -> t \in Ids => row_lock[t] = Free
        [] OTHER                      -> create[p].phase # "idle"

(* No call of create_memory is blocked for good: when some are under way,   *)
(* one of them can go on, although each waits for the row of a conversation *)
(* and then for a target that may be of another conversation.               *)
NoStandstill ==
  (\E p \in Creators : create[p].phase # "idle") => \E p \in Creators : CanProceedCreate(p)
=============================================================================
