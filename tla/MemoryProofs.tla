---------------------------- MODULE MemoryProofs ----------------------------
(***************************************************************************)
(* The memory service.  Its index: the chunks are exact and the markers     *)
(* sound, for any number of tasks, any transcript, limit and slice, and any *)
(* number of mishaps.  Its records: supersession is sound and final,        *)
(* retrieval never returns what is retired, and nobody waits for good, for  *)
(* any number of concurrent calls, conversations and records.               *)
(***************************************************************************)
EXTENDS MemoryIndex, MemoryRecords, FiniteSetTheorems, WellFoundedInduction, TLAPS

-----------------------------------------------------------------------------
(* Memory records. *)

(* The calls of create_memory and the locks they hold: a call has locked    *)
(* the conversation it names once it is past that step, its target once it  *)
(* has read it, and nobody else holds a lock.                               *)
CreateType == [phase : {"idle", "begun", "locked", "checked", "stored"},
               conv : Conversations \cup {Nowhere},
               target : Id \cup {None}, id : Id \cup {None}]

CreateInv ==
  /\ create \in [Creators -> CreateType]
  /\ \A p \in Creators :
       /\ create[p].phase # "idle" => create[p].conv \in Conversations
       /\ create[p].phase = "stored" => create[p].id \in Ids
       /\ create[p].phase = "checked" => create[p].target \in Ids

RecordLocks ==
  /\ conv_lock \in [Conversations -> Creators \cup {Free}]
  /\ row_lock \in [Id -> Creators \cup {Free}]
  /\ \A c \in Conversations : conv_lock[c] # Free =>
       create[conv_lock[c]].phase \in {"locked", "checked"} /\ create[conv_lock[c]].conv = c
  /\ \A r \in Id : row_lock[r] # Free =>
       create[row_lock[r]].phase = "checked" /\ create[row_lock[r]].target = r

(* Calls that have not stored their record yet have room for it. *)
RoomInv == Len(records) + Cardinality(Unstored) <= MaxRecords

(* The committed rows: a record supersedes older ones, and superseded_by    *)
(* names no record that is still to come.                                   *)
RowInv ==
  /\ records \in Seq(Record)
  /\ record_points \subseteq Ids
  /\ \A r \in Ids : /\ records[r].supersedes \in 0 .. r - 1
                    /\ records[r].superseded_by \in 0 .. Len(records)

(* A retrieval under way: what it found is of its conversation, and what    *)
(* was retired when it began still is.                                      *)
RetrievalType == [phase : {"idle", "lexical", "fetch", "done"},
                  conv : Conversations \cup {Nowhere},
                  hits : SUBSET Nat, found : SUBSET Nat, retired : SUBSET Nat]

RetrievalInv ==
  /\ retrieval \in [Readers -> RetrievalType]
  /\ \A q \in Readers :
       /\ retrieval[q].retired \subseteq Ids \ Active
       /\ retrieval[q].found \cap retrieval[q].retired = {}
       /\ retrieval[q].found \subseteq Of(retrieval[q].conv)

RecordsInv == CreateInv /\ RecordLocks /\ RoomInv /\ RowInv /\ SupersessionSound

-----------------------------------------------------------------------------
(* Rows and calls. *)

(* The UPDATE of the target keeps every row but the target's. *)
LEMMA RetireFacts ==
  ASSUME records \in Seq(Record), NEW t, NEW by \in Id
  PROVE  /\ Retire(t, by) \in Seq(Record) /\ Len(Retire(t, by)) = Len(records)
         /\ \A r \in Ids :
              /\ Retire(t, by)[r].conv = records[r].conv
              /\ Retire(t, by)[r].supersedes = records[r].supersedes
              /\ r # t \/ records[r].status = "superseded" => Retire(t, by)[r] = records[r]
              /\ r = t => Retire(t, by)[r].status = "superseded"
              /\ r = t /\ records[r].status # "superseded" => Retire(t, by)[r].superseded_by = by
<1>1. Ids = 1 .. Len(records) /\ Len(records) \in Nat
  BY DEF Ids
<1>2. ASSUME NEW r \in Ids
      PROVE  Retire(t, by)[r] \in Record
  <2>1. records[r] \in Record
    BY DEF Ids
  <2>2. [records[r] EXCEPT !.status = "superseded", !.superseded_by = by] \in Record
    BY <2>1 DEF Record, Status
  <2>3. QED
    BY <2>1, <2>2 DEF Retire
<1>3. Retire(t, by) \in Seq(Record) /\ Len(Retire(t, by)) = Len(records)
  <2>1. Retire(t, by) = [r \in 1 .. Len(records) |-> Retire(t, by)[r]]
    BY <1>1 DEF Retire
  <2>2. Retire(t, by) \in [1 .. Len(records) -> Record]
    BY <1>1, <1>2, <2>1
  <2>3. QED
    BY <1>1, <2>2
<1>4. ASSUME NEW r \in Ids
      PROVE  /\ Retire(t, by)[r].conv = records[r].conv
             /\ Retire(t, by)[r].supersedes = records[r].supersedes
             /\ r # t \/ records[r].status = "superseded" => Retire(t, by)[r] = records[r]
             /\ r = t => Retire(t, by)[r].status = "superseded"
             /\ r = t /\ records[r].status # "superseded" => Retire(t, by)[r].superseded_by = by
  <2>1. records[r] \in Record
    BY DEF Ids
  <2>2. CASE r = t /\ records[r].status # "superseded"
    <3>1. Retire(t, by)[r] = [records[r] EXCEPT !.status = "superseded", !.superseded_by = by]
      BY <2>2 DEF Retire
    <3>2. QED
      BY <2>1, <2>2, <3>1 DEF Record
  <2>3. CASE ~ (r = t /\ records[r].status # "superseded")
    <3>1. Retire(t, by)[r] = records[r]
      BY <2>3 DEF Retire
    <3>2. QED
      BY <2>3, <3>1
  <2>4. QED
    BY <2>2, <2>3
<1>5. QED
  BY <1>3, <1>4

(* Every id is a position that MaxRecords leaves room for. *)
LEMMA IdsFacts ==
  ASSUME records \in Seq(Record), RoomInv
  PROVE  /\ Ids = 1 .. Len(records) /\ Ids \subseteq Id /\ Len(records) \in Nat
         /\ IsFiniteSet(Unstored) /\ Cardinality(Unstored) \in Nat
<1>1. Ids = 1 .. Len(records) /\ Len(records) \in Nat
  BY DEF Ids
<1>2. IsFiniteSet(Unstored)
  BY RecordsAssumption, FS_Subset DEF Unstored
<1>3. Cardinality(Unstored) \in Nat
  BY <1>2, FS_CardinalityType
<1>4. QED
  BY <1>1, <1>2, <1>3, RecordsAssumption DEF RoomInv, Id

(* How a step of one call changes the number of calls without a record. *)
LEMMA UnstoredCount ==
  ASSUME CreateInv, NEW p \in Creators, NEW v \in CreateType,
         create' = [create EXCEPT ![p] = v]
  PROVE  /\ IsFiniteSet(Unstored) /\ Cardinality(Unstored) \in Nat
         /\ Cardinality(Unstored') \in Nat
         /\ v.phase \notin {"begun", "locked", "checked"} =>
              /\ Cardinality(Unstored') <= Cardinality(Unstored)
              /\ p \in Unstored => Cardinality(Unstored') = Cardinality(Unstored) - 1
         /\ p \in Unstored => Cardinality(Unstored') <= Cardinality(Unstored)
         /\ Cardinality(Unstored') <= Cardinality(Unstored) + 1
<1>1. IsFiniteSet(Unstored) /\ Cardinality(Unstored) \in Nat
  BY RecordsAssumption, FS_Subset, FS_CardinalityType DEF Unstored
<1>2. create'[p] = v /\ \A q \in Creators \ {p} : create'[q] = create[q]
  BY DEF CreateInv
<1>3. CASE v.phase \notin {"begun", "locked", "checked"}
  <2>1. Unstored' = Unstored \ {p}
    BY <1>2, <1>3 DEF Unstored
  <2>2. /\ Cardinality(Unstored') =
             IF p \in Unstored THEN Cardinality(Unstored) - 1 ELSE Cardinality(Unstored)
        /\ Cardinality(Unstored') \in Nat
    BY <1>1, <2>1, FS_RemoveElement, FS_CardinalityType
  <2>3. QED
    BY <1>1, <1>3, <2>2
<1>4. CASE v.phase \in {"begun", "locked", "checked"}
  <2>1. Unstored' = Unstored \cup {p}
    BY <1>2, <1>4 DEF Unstored
  <2>2. Cardinality(Unstored') =
          IF p \in Unstored THEN Cardinality(Unstored) ELSE Cardinality(Unstored) + 1
    BY <1>1, <2>1, FS_AddElement
  <2>3. QED
    BY <1>1, <1>4, <2>2
<1>5. QED
  BY <1>3, <1>4

(* A step of one call keeps the calls in order. *)
LEMMA OneCreate ==
  ASSUME CreateInv, NEW p \in Creators, NEW v \in CreateType,
         create' = [create EXCEPT ![p] = v], Ids \subseteq Ids',
         v.phase # "idle" => v.conv \in Conversations,
         v.phase = "stored" => v.id \in Ids',
         v.phase = "checked" => v.target \in Ids'
  PROVE  CreateInv'
<1>1. create'[p] = v /\ \A q \in Creators \ {p} : create'[q] = create[q]
  BY DEF CreateInv
<1>2. create' \in [Creators -> CreateType]
  BY DEF CreateInv
<1>3. QED
  BY <1>1, <1>2 DEF CreateInv

(* The end of a transaction leaves the locks of the others. *)
LEMMA ReleaseLocks ==
  ASSUME CreateInv, RecordLocks, NEW p \in Creators, NEW v, Release(p),
         create' = [create EXCEPT ![p] = v]
  PROVE  RecordLocks'
<1>1. \A q \in Creators \ {p} : create'[q] = create[q]
  BY DEF CreateInv
<1>2. /\ conv_lock' \in [Conversations -> Creators \cup {Free}]
      /\ row_lock' \in [Id -> Creators \cup {Free}]
  BY DEF RecordLocks, Release
<1>3. ASSUME NEW c \in Conversations, conv_lock'[c] # Free
      PROVE  conv_lock'[c] = conv_lock[c] /\ conv_lock[c] \in Creators \ {p}
  BY <1>3 DEF RecordLocks, Release
<1>4. ASSUME NEW r \in Id, row_lock'[r] # Free
      PROVE  row_lock'[r] = row_lock[r] /\ row_lock[r] \in Creators \ {p}
  BY <1>4 DEF RecordLocks, Release
<1>5. QED
  BY <1>1, <1>2, <1>3, <1>4 DEF RecordLocks

(* Steps that leave the rows alone. *)
LEMMA SameRows ==
  ASSUME UNCHANGED records, record_points' = record_points
  PROVE  /\ RowInv => RowInv'
         /\ SupersessionSound => SupersessionSound'
         /\ Ids' = Ids
BY DEF RowInv, SupersessionSound, Ids

(* create_memory begins. *)
LEMMA BeginCreateInv ==
  ASSUME RecordsInv, NEW p \in Creators, NEW c \in Conversations, NEW t \in Id \cup {None},
         BeginCreate(p, c, t)
  PROVE  RecordsInv'
<1> DEFINE v == [phase |-> "begun", conv |-> c, target |-> t, id |-> None]
<1>1. /\ v \in CreateType /\ v.phase = "begun" /\ v.conv = c
      /\ create' = [create EXCEPT ![p] = v] /\ create[p].phase = "idle"
      /\ UNCHANGED <<records, conv_lock, row_lock, record_points>>
      /\ Len(records) + Cardinality(Unstored) < MaxRecords
  BY DEF BeginCreate, database, CreateType
<1> HIDE DEF v
<1>2. CreateInv /\ RecordLocks /\ RoomInv /\ RowInv /\ SupersessionSound
  BY DEF RecordsInv
<1>3. RowInv' /\ SupersessionSound' /\ Ids' = Ids
  BY <1>1, <1>2, SameRows
<1>4. CreateInv'
  BY <1>1, <1>2, <1>3, OneCreate
<1>5. RecordLocks'
  <2>1. \A q \in Creators \ {p} : create'[q] = create[q]
    BY <1>1, <1>2 DEF CreateInv
  <2>2. /\ \A d \in Conversations : conv_lock[d] # p
        /\ \A r \in Id : row_lock[r] # p
    BY <1>1, <1>2, RecordsAssumption DEF RecordLocks
  <2>3. QED
    BY <1>1, <1>2, <2>1, <2>2 DEF RecordLocks
<1>6. RoomInv'
  <2>1. Cardinality(Unstored') \in Nat /\ Cardinality(Unstored') <= Cardinality(Unstored) + 1
    BY <1>1, <1>2, UnstoredCount
  <2>2. Len(records) \in Nat /\ Cardinality(Unstored) \in Nat
    BY <1>2, IdsFacts DEF RowInv
  <2>3. QED
    BY <1>1, <2>1, <2>2, RecordsAssumption DEF RoomInv
<1>7. QED
  BY <1>3, <1>4, <1>5, <1>6 DEF RecordsInv

(* A call that goes on within its transaction keeps its room. *)
LEMMA SameRoom ==
  ASSUME CreateInv, RoomInv, RowInv, UNCHANGED records,
         NEW p \in Unstored, NEW v \in CreateType,
         create' = [create EXCEPT ![p] = v]
  PROVE  RoomInv'
<1>1. p \in Creators
  BY DEF Unstored
<1>2. Cardinality(Unstored') \in Nat /\ Cardinality(Unstored') <= Cardinality(Unstored)
  BY <1>1, UnstoredCount
<1>3. Len(records) \in Nat /\ Cardinality(Unstored) \in Nat
  BY IdsFacts DEF RowInv
<1>4. QED
  BY <1>2, <1>3, RecordsAssumption DEF RoomInv

(* It locks its conversation. *)
LEMMA LockConversationInv ==
  ASSUME RecordsInv, NEW p \in Creators, LockConversation(p)
  PROVE  RecordsInv'
<1> DEFINE v == [create[p] EXCEPT !.phase = "locked"]
           c == create[p].conv
<1>2. CreateInv /\ RecordLocks /\ RoomInv /\ RowInv /\ SupersessionSound
  BY DEF RecordsInv
<1>0. create[p] \in CreateType /\ create[p].phase = "begun" /\ c \in Conversations
  BY <1>2 DEF CreateInv, LockConversation
<1>1. /\ v \in CreateType /\ v.phase = "locked" /\ v.conv = c
      /\ create' = [create EXCEPT ![p] = v]
      /\ conv_lock[c] = Free /\ conv_lock' = [conv_lock EXCEPT ![c] = p]
      /\ UNCHANGED <<records, row_lock, record_points>>
  BY <1>0 DEF LockConversation, CreateType
<1> HIDE DEF v, c
<1>3. RowInv' /\ SupersessionSound' /\ Ids' = Ids
  BY <1>1, <1>2, SameRows
<1>4. CreateInv'
  BY <1>0, <1>1, <1>2, <1>3, OneCreate
<1>5. RecordLocks'
  <2>1. create'[p] = v /\ \A q \in Creators \ {p} : create'[q] = create[q]
    BY <1>1, <1>2 DEF CreateInv
  <2>2. /\ \A d \in Conversations : conv_lock[d] # p
        /\ \A r \in Id : row_lock[r] # p
    BY <1>0, <1>2, RecordsAssumption DEF RecordLocks
  <2>3. conv_lock'[c] = p /\ \A d \in Conversations \ {c} : conv_lock'[d] = conv_lock[d]
    BY <1>0, <1>1, <1>2 DEF RecordLocks
  <2>4. conv_lock' \in [Conversations -> Creators \cup {Free}]
    BY <1>0, <1>1, <1>2 DEF RecordLocks
  <2>5. QED
    BY <1>1, <1>2, <2>1, <2>2, <2>3, <2>4 DEF RecordLocks
<1>6. RoomInv'
  BY <1>0, <1>1, <1>2, SameRoom DEF Unstored
<1>7. QED
  BY <1>3, <1>4, <1>5, <1>6 DEF RecordsInv

(* It locks its target, which it has found. *)
LEMMA LockTargetInv ==
  ASSUME RecordsInv, NEW p \in Creators, LockTarget(p)
  PROVE  RecordsInv'
<1> DEFINE v == [create[p] EXCEPT !.phase = "checked"]
           t == create[p].target
<1>2. CreateInv /\ RecordLocks /\ RoomInv /\ RowInv /\ SupersessionSound
  BY DEF RecordsInv
<1>0. create[p] \in CreateType /\ create[p].phase = "locked" /\ create[p].conv \in Conversations
  BY <1>2 DEF CreateInv, LockTarget
<1>1. /\ v \in CreateType /\ v.phase = "checked" /\ v.conv = create[p].conv /\ v.target = t
      /\ create' = [create EXCEPT ![p] = v]
      /\ t \in Ids /\ row_lock[t] = Free /\ row_lock' = [row_lock EXCEPT ![t] = p]
      /\ UNCHANGED <<records, conv_lock, record_points>>
  BY <1>0 DEF LockTarget, CreateType
<1> HIDE DEF v, t
<1>3. RowInv' /\ SupersessionSound' /\ Ids' = Ids
  BY <1>1, <1>2, SameRows
<1>4. CreateInv'
  BY <1>0, <1>1, <1>2, <1>3, OneCreate
<1>5. RecordLocks'
  <2>1. create'[p] = v /\ \A q \in Creators \ {p} : create'[q] = create[q]
    BY <1>1, <1>2 DEF CreateInv
  <2>2. t \in Id
    BY <1>1, <1>2, IdsFacts DEF RowInv
  <2>3. \A r \in Id : row_lock[r] # p
    BY <1>0, <1>2, RecordsAssumption DEF RecordLocks
  <2>4. row_lock'[t] = p /\ \A r \in Id \ {t} : row_lock'[r] = row_lock[r]
    BY <1>1, <1>2, <2>2 DEF RecordLocks
  <2>5. row_lock' \in [Id -> Creators \cup {Free}]
    BY <1>1, <1>2, <2>2 DEF RecordLocks
  <2>6. \A d \in Conversations : conv_lock[d] = p => v.phase \in {"locked", "checked"} /\ v.conv = d
    BY <1>1, <1>2, RecordsAssumption DEF RecordLocks
  <2>7. QED
    BY <1>1, <1>2, <2>1, <2>3, <2>4, <2>5, <2>6 DEF RecordLocks
<1>6. RoomInv'
  BY <1>0, <1>1, <1>2, SameRoom DEF Unstored
<1>7. QED
  BY <1>3, <1>4, <1>5, <1>6 DEF RecordsInv

(* It ends without a record: refused, failed or cancelled.  So does a call  *)
(* that is past its commit.                                                 *)
LEMMA EndCreateInv ==
  ASSUME RecordsInv, NEW p \in Creators, RefuseTarget(p) \/ AbortCreate(p)
  PROVE  RecordsInv'
<1>1. /\ create' = [create EXCEPT ![p] = NoCreate] /\ Release(p)
      /\ UNCHANGED <<records, record_points>>
  BY DEF RefuseTarget, AbortCreate
<1>2. CreateInv /\ RecordLocks /\ RoomInv /\ RowInv /\ SupersessionSound
  BY DEF RecordsInv
<1>3. RowInv' /\ SupersessionSound' /\ Ids' = Ids
  BY <1>1, <1>2, SameRows
<1>4. NoCreate \in CreateType /\ NoCreate.phase = "idle"
  BY DEF NoCreate, CreateType
<1>5. CreateInv'
  BY <1>1, <1>2, <1>3, <1>4, OneCreate
<1>6. RecordLocks'
  BY <1>1, <1>2, ReleaseLocks
<1>7. RoomInv'
  <2>1. Cardinality(Unstored') \in Nat /\ Cardinality(Unstored') <= Cardinality(Unstored)
    BY <1>1, <1>2, <1>4, UnstoredCount
  <2>2. Len(records) \in Nat /\ Cardinality(Unstored) \in Nat
    BY <1>2, IdsFacts DEF RowInv
  <2>3. QED
    BY <1>1, <1>2, <2>1, <2>2, RecordsAssumption DEF RoomInv
<1>8. QED
  BY <1>3, <1>5, <1>6, <1>7 DEF RecordsInv

(* The rows behind an insert: the new one is the last, and the target is    *)
(* superseded.                                                              *)
LEMMA InsertedRows ==
  ASSUME RowInv, RoomInv, NEW t, NEW c \in Conversations,
         t = None \/ t \in Of(c), Len(records) < MaxRecords,
         records' = Append(Retire(t, Len(records) + 1), NewRecord(c, t))
  PROVE  /\ records' \in Seq(Record) /\ Len(records') = Len(records) + 1
         /\ records'[Len(records) + 1] = NewRecord(c, t)
         /\ \A r \in Ids : records'[r] = Retire(t, Len(records) + 1)[r]
<1> DEFINE n == Len(records)
           old == Retire(t, n + 1)
<1>1. n \in Nat /\ n + 1 \in Id /\ Ids = 1 .. n /\ Ids \subseteq Id
  BY IdsFacts, RecordsAssumption DEF RowInv, Id
<1>2. t \in Id \cup {None}
  BY <1>1 DEF Of
<1>3. NewRecord(c, t) \in Record
  BY <1>2 DEF NewRecord, Record, Status, None
<1>4. old \in Seq(Record) /\ Len(old) = n
  BY <1>1, RetireFacts DEF RowInv
<1> HIDE DEF old
<1>5. QED
  BY <1>1, <1>3, <1>4 DEF old

(* They are in order and every supersession is sound. *)
LEMMA InsertedSound ==
  ASSUME RowInv, RoomInv, SupersessionSound, NEW t, NEW c \in Conversations,
         t = None \/ t \in Of(c), Len(records) < MaxRecords,
         record_points' = record_points,
         records' \in Seq(Record), Len(records') = Len(records) + 1,
         records'[Len(records) + 1] = NewRecord(c, t),
         \A r \in Ids : records'[r] = Retire(t, Len(records) + 1)[r]
  PROVE  RowInv' /\ SupersessionSound' /\ Ids \subseteq Ids' /\ Len(records) + 1 \in Ids'
<1>0. PICK n \in Nat : n = Len(records)
  BY DEF RowInv
<1> DEFINE Old(r) == Retire(t, n + 1)[r]
<1>1. n + 1 \in Id /\ Ids = 1 .. n /\ Ids \subseteq Id
  BY <1>0, IdsFacts, RecordsAssumption DEF RowInv, Id
<1>2. /\ records' \in Seq(Record) /\ Len(records') = n + 1
      /\ records'[n + 1] = NewRecord(c, t)
      /\ \A r \in Ids : records'[r] = Old(r)
  BY <1>0
<1>3. Ids' = 1 .. n + 1
  BY <1>1, <1>2 DEF Ids
<1>4. \A r \in Ids : /\ Old(r).conv = records[r].conv
                     /\ Old(r).supersedes = records[r].supersedes
                     /\ r # t \/ records[r].status = "superseded" => Old(r) = records[r]
                     /\ r = t => Old(r).status = "superseded"
                     /\ r = t /\ records[r].status # "superseded" => Old(r).superseded_by = n + 1
  BY <1>1, RetireFacts DEF RowInv
<1> HIDE DEF Old
<1>5. /\ records'[n + 1].supersedes = t /\ records'[n + 1].superseded_by = 0
      /\ records'[n + 1].conv = c
  BY <1>2 DEF NewRecord, None
<1>6. t = 0 \/ (t \in Ids /\ records[t].conv = c)
  BY DEF None, Of
<1>7. \A r \in Ids : records[r].supersedes \in 0 .. r - 1 /\ records[r].superseded_by \in 0 .. n
  BY <1>0 DEF RowInv
<1>8. RowInv'
  <2>1. ASSUME NEW r \in Ids'
        PROVE  records'[r].supersedes \in 0 .. r - 1 /\ records'[r].superseded_by \in 0 .. n + 1
    <3>1. CASE r = n + 1
      BY <1>1, <1>5, <1>6, <3>1
    <3>2. CASE r \in Ids
      <4>1. records[r].supersedes \in 0 .. r - 1 /\ records[r].superseded_by \in 0 .. n
        BY <1>7, <3>2
      <4>2. Old(r).superseded_by = n + 1 \/ Old(r).superseded_by = records[r].superseded_by
        BY <1>4, <3>2
      <4>3. QED
        BY <1>1, <1>2, <1>4, <3>2, <4>1, <4>2
    <3>3. QED
      BY <1>1, <1>3, <3>1, <3>2
  <2>2. record_points' \subseteq Ids'
    BY <1>1, <1>3 DEF RowInv
  <2>3. QED
    BY <1>2, <2>1, <2>2 DEF RowInv
<1>9. SupersessionSound'
  <2> SUFFICES ASSUME NEW r \in Ids', NEW s \in Ids'
               PROVE  /\ records'[s].supersedes = r => /\ records'[r].status = "superseded"
                                                       /\ records'[r].conv = records'[s].conv
                      /\ records'[r].superseded_by = s => records'[s].supersedes = r
    BY DEF SupersessionSound
  <2>1. CASE r \in Ids /\ s \in Ids
    <3>1. /\ records[s].supersedes = r => /\ records[r].status = "superseded"
                                          /\ records[r].conv = records[s].conv
          /\ records[r].superseded_by = s => records[s].supersedes = r
      BY <2>1 DEF SupersessionSound
    <3>2. records'[s].supersedes = records[s].supersedes /\ records'[s].conv = records[s].conv
      BY <1>2, <1>4, <2>1
    <3>3. records'[r].conv = records[r].conv
      BY <1>2, <1>4, <2>1
    <3>4. records[r].status = "superseded" => records'[r].status = "superseded"
      BY <1>2, <1>4, <2>1
    <3>5. records'[r].superseded_by = s => records[r].superseded_by = s
      BY <1>1, <1>2, <1>4, <2>1
    <3>6. QED
      BY <3>1, <3>2, <3>3, <3>4, <3>5
  <2>2. CASE r \in Ids /\ s = n + 1
    <3>1. records[r].superseded_by \in 0 .. n
      BY <1>7, <2>2
    <3>2. records'[r].superseded_by = n + 1 => r = t
      BY <1>1, <1>2, <1>4, <2>2, <3>1
    <3>3. r = t => records'[r].status = "superseded" /\ records'[r].conv = c
      BY <1>1, <1>2, <1>4, <1>6, <2>2
    <3>4. QED
      BY <1>5, <2>2, <3>2, <3>3
  <2>3. CASE r = n + 1
    <3>1. records'[r].superseded_by # s
      BY <1>1, <1>3, <1>5, <2>3
    <3>2. records'[s].supersedes \in 0 .. s - 1
      BY <1>8 DEF RowInv
    <3>3. QED
      BY <1>1, <1>3, <2>3, <3>1, <3>2
  <2>4. QED
    BY <1>1, <1>3, <2>1, <2>2, <2>3
<1>10. QED
  BY <1>1, <1>3, <1>8, <1>9, <1>0

(* The insert and the update commit together. *)
LEMMA InsertMemoryInv ==
  ASSUME RecordsInv, NEW p \in Creators, InsertMemory(p)
  PROVE  RecordsInv'
<1> DEFINE n == Len(records)
           v == [create[p] EXCEPT !.phase = "stored", !.id = n + 1]
           t == create[p].target
           c == create[p].conv
<1>1. CreateInv /\ RecordLocks /\ RoomInv /\ RowInv /\ SupersessionSound
  BY DEF RecordsInv
<1>2. /\ create[p] \in CreateType /\ create[p].phase \in {"locked", "checked"}
      /\ c \in Conversations /\ (t = None \/ t \in Of(c)) /\ p \in Unstored
  BY <1>1 DEF CreateInv, InsertMemory, CanInsert, Unstored
<1>3. n \in Nat /\ Cardinality(Unstored) \in Nat /\ IsFiniteSet(Unstored)
  BY <1>1, IdsFacts DEF RowInv
<1>4. n < MaxRecords
  <2>1. Cardinality(Unstored) # 0
    BY <1>2, <1>3, FS_EmptySet
  <2>2. QED
    BY <1>1, <1>3, <2>1, RecordsAssumption DEF RoomInv
<1>5. /\ create' = [create EXCEPT ![p] = v] /\ Release(p)
      /\ records' = Append(Retire(t, n + 1), NewRecord(c, t))
      /\ record_points' = record_points
  BY DEF InsertMemory
<1>6. /\ v \in CreateType /\ v.phase = "stored" /\ v.conv = c /\ v.id = n + 1
  <2>1. n + 1 \in Id
    BY <1>3, <1>4, RecordsAssumption DEF Id
  <2>2. QED
    BY <1>2, <2>1 DEF CreateType
<1> HIDE DEF v
<1>7. RowInv' /\ SupersessionSound' /\ Ids \subseteq Ids' /\ n + 1 \in Ids'
  BY <1>1, <1>2, <1>4, <1>5, InsertedRows, InsertedSound
<1>8. CreateInv'
  BY <1>1, <1>2, <1>5, <1>6, <1>7, OneCreate
<1>9. RecordLocks'
  BY <1>1, <1>5, ReleaseLocks
<1>10. RoomInv'
  <2>1. Cardinality(Unstored') = Cardinality(Unstored) - 1
    BY <1>1, <1>2, <1>5, <1>6, UnstoredCount
  <2>2. Len(records') = n + 1
    BY <1>1, <1>2, <1>4, <1>5, InsertedRows
  <2>3. QED
    BY <1>1, <1>3, <2>1, <2>2, RecordsAssumption DEF RoomInv
<1>11. QED
  BY <1>7, <1>8, <1>9, <1>10 DEF RecordsInv

(* The point of a stored record is upserted. *)
LEMMA UpsertMemoryInv ==
  ASSUME RecordsInv, NEW p \in Creators, UpsertMemory(p)
  PROVE  RecordsInv'
<1>1. CreateInv /\ RecordLocks /\ RoomInv /\ RowInv /\ SupersessionSound
  BY DEF RecordsInv
<1>2. /\ create' = [create EXCEPT ![p] = NoCreate] /\ create[p].phase = "stored"
      /\ UNCHANGED <<records, conv_lock, row_lock>>
      /\ record_points' = record_points \cup {create[p].id}
  BY DEF UpsertMemory, database
<1>3. NoCreate \in CreateType /\ NoCreate.phase = "idle"
  BY DEF NoCreate, CreateType
<1>4. RowInv' /\ SupersessionSound' /\ Ids' = Ids
  BY <1>1, <1>2 DEF RowInv, SupersessionSound, Ids, CreateInv
<1>5. CreateInv'
  BY <1>1, <1>2, <1>3, <1>4, OneCreate
<1>6. RecordLocks'
  <2>1. \A q \in Creators \ {p} : create'[q] = create[q]
    BY <1>1, <1>2 DEF CreateInv
  <2>2. /\ \A d \in Conversations : conv_lock[d] # p
        /\ \A r \in Id : row_lock[r] # p
    BY <1>1, <1>2, RecordsAssumption DEF RecordLocks
  <2>3. QED
    BY <1>1, <1>2, <2>1, <2>2 DEF RecordLocks
<1>7. RoomInv'
  <2>1. Cardinality(Unstored') \in Nat /\ Cardinality(Unstored') <= Cardinality(Unstored)
    BY <1>1, <1>2, <1>3, UnstoredCount
  <2>2. Len(records) \in Nat /\ Cardinality(Unstored) \in Nat
    BY <1>1, IdsFacts DEF RowInv
  <2>3. QED
    BY <1>1, <1>2, <2>1, <2>2, RecordsAssumption DEF RoomInv
<1>8. QED
  BY <1>4, <1>5, <1>6, <1>7 DEF RecordsInv

(* supersede_memory retires a record that is active and therefore not       *)
(* superseded by another one.                                               *)
LEMMA SupersedeMemoryInv ==
  ASSUME RecordsInv, NEW r \in Id, NEW status \in Status, SupersedeMemory(r, status)
  PROVE  RecordsInv'
<1>1. CreateInv /\ RecordLocks /\ RoomInv /\ RowInv /\ SupersessionSound
  BY DEF RecordsInv
<1>2. /\ r \in Ids /\ records[r].status = "active"
      /\ records' = [records EXCEPT ![r] = [records[r] EXCEPT !.status = status]]
      /\ UNCHANGED <<conv_lock, row_lock, record_points, create>>
  BY DEF SupersedeMemory, IsActive
<1>3. records \in Seq(Record) /\ records[r] \in Record
  BY <1>1, <1>2 DEF RowInv, Ids
<1>4. [records[r] EXCEPT !.status = status] \in Record
  BY <1>3 DEF Record
<1>5. /\ records' \in Seq(Record) /\ Len(records') = Len(records) /\ Ids' = Ids
      /\ \A s \in Ids : /\ s # r => records'[s] = records[s]
                        /\ records'[s].conv = records[s].conv
                        /\ records'[s].supersedes = records[s].supersedes
                        /\ records'[s].superseded_by = records[s].superseded_by
  BY <1>2, <1>3, <1>4 DEF Ids, Record
<1>6. RowInv'
  BY <1>1, <1>2, <1>5 DEF RowInv
<1>7. SupersessionSound'
  <2>1. \A s \in Ids : records[s].supersedes # r
    BY <1>1, <1>2 DEF SupersessionSound
  <2>2. QED
    BY <1>1, <1>5, <2>1 DEF SupersessionSound
<1>8. CreateInv' /\ RecordLocks'
  BY <1>1, <1>2, <1>5 DEF CreateInv, RecordLocks
<1>9. RoomInv'
  BY <1>1, <1>2, <1>5 DEF RoomInv, Unstored
<1>10. QED
  BY <1>6, <1>7, <1>8, <1>9 DEF RecordsInv

(* A rebuild upserts the point of a record. *)
LEMMA RebuildMemoryInv ==
  ASSUME RecordsInv, NEW r \in Id, RebuildMemory(r)
  PROVE  RecordsInv'
BY DEF RebuildMemory, database, RecordsInv, CreateInv, RecordLocks, RoomInv, RowInv,
       SupersessionSound, Unstored, Ids

(* A retrieval only reads. *)
LEMMA ReadersInv ==
  ASSUME RecordsInv, UNCHANGED <<records, conv_lock, row_lock, record_points, create>>
  PROVE  RecordsInv'
BY DEF RecordsInv, CreateInv, RecordLocks, RoomInv, RowInv, SupersessionSound, Unstored, Ids

(* RecordsInv holds at the start and is kept by every step. *)
LEMMA RecordsInductive ==
  /\ RecordsInit => RecordsInv
  /\ RecordsInv /\ [RecordsNext]_record_vars => RecordsInv'
<1>1. ASSUME RecordsInit
      PROVE  RecordsInv
  <2>1. /\ records = << >> /\ record_points = {} /\ Ids = {}
        /\ create = [p \in Creators |-> NoCreate]
        /\ conv_lock = [c \in Conversations |-> Free] /\ row_lock = [r \in Id |-> Free]
    BY <1>1 DEF RecordsInit, Ids
  <2>2. NoCreate \in CreateType /\ NoCreate.phase = "idle"
    BY DEF NoCreate, CreateType
  <2>3. CreateInv /\ RecordLocks
    BY <2>1, <2>2 DEF CreateInv, RecordLocks
  <2>4. RoomInv
    <3>1. Unstored = {}
      BY <2>1, <2>2 DEF Unstored
    <3>2. QED
      BY <2>1, <3>1, FS_EmptySet, RecordsAssumption DEF RoomInv
  <2>5. RowInv /\ SupersessionSound
    BY <2>1 DEF RowInv, SupersessionSound
  <2>6. QED
    BY <2>3, <2>4, <2>5 DEF RecordsInv
<1>2. ASSUME RecordsInv, [RecordsNext]_record_vars
      PROVE  RecordsInv'
  <2>1. CASE UNCHANGED <<records, conv_lock, row_lock, record_points, create>>
    BY <1>2, <2>1, ReadersInv
  <2>2. QED
    BY <1>2, <2>1, BeginCreateInv, LockConversationInv, LockTargetInv, EndCreateInv,
       InsertMemoryInv, UpsertMemoryInv, SupersedeMemoryInv, RebuildMemoryInv
    DEF RecordsNext, ProceedCreate, SearchPoints, LexicalSearch, FetchByIds, EndRetrieve,
        record_vars, database
<1>3. QED
  BY <1>1, <1>2

(* The types of the records, their locks and points hold, and a record only *)
(* supersedes older ones, for any number of concurrent calls of             *)
(* create_memory and retrieve and any number of conversations and records.  *)
THEOREM RecordsTypeCorrect == RecordsSpec => []RecordsTypeOK
<1>1. RecordsInv => RecordsTypeOK
  BY DEF RecordsInv, RowInv, RecordLocks, RecordsTypeOK
<1>2. QED
  BY <1>1, RecordsInductive, PTL DEF RecordsSpec

(* Whatever calls of create_memory and supersede_memory overlap, fail or    *)
(* are cancelled: a record that another one supersedes is superseded, both  *)
(* are of one conversation, and superseded_by names one that supersedes it. *)
THEOREM SupersessionCorrect == RecordsSpec => []SupersessionSound
<1>1. RecordsInv => SupersessionSound
  BY DEF RecordsInv
<1>2. QED
  BY <1>1, RecordsInductive, PTL DEF RecordsSpec

(* What a step makes of the rows: none is lost or moves to another          *)
(* conversation, none becomes active again, and a superseded one keeps its  *)
(* successor.                                                               *)
LEMMA RowsKept ==
  ASSUME RecordsInv, [RecordsNext]_record_vars
  PROVE  \A r \in Ids : /\ r \in Ids'
                        /\ records'[r].conv = records[r].conv
                        /\ records[r].status # "active" => records'[r].status # "active"
                        /\ records[r].status = "superseded" =>
                             records'[r].superseded_by = records[r].superseded_by
<1>0. records \in Seq(Record)
  BY DEF RecordsInv, RowInv
<1>1. CASE UNCHANGED records
  BY <1>1 DEF Ids
<1>2. ASSUME NEW p \in Creators, InsertMemory(p)
      PROVE  \A r \in Ids : /\ r \in Ids'
                            /\ records'[r].conv = records[r].conv
                            /\ records[r].status # "active" => records'[r].status # "active"
                            /\ records[r].status = "superseded" =>
                                 records'[r].superseded_by = records[r].superseded_by
  <2> DEFINE n == Len(records)
             t == create[p].target
             c == create[p].conv
  <2>1. CreateInv /\ RecordLocks /\ RoomInv /\ RowInv /\ SupersessionSound
    BY DEF RecordsInv
  <2>2. c \in Conversations /\ (t = None \/ t \in Of(c)) /\ p \in Unstored
    BY <1>2, <2>1 DEF CreateInv, InsertMemory, CanInsert, Unstored
  <2>3. n \in Nat /\ Cardinality(Unstored) \in Nat /\ IsFiniteSet(Unstored)
    BY <2>1, IdsFacts DEF RowInv
  <2>4. n < MaxRecords
    <3>1. Cardinality(Unstored) # 0
      BY <2>2, <2>3, FS_EmptySet
    <3>2. QED
      BY <2>1, <2>3, <3>1, RecordsAssumption DEF RoomInv
  <2>5. n + 1 \in Id
    BY <2>3, <2>4, RecordsAssumption DEF Id
  <2>6. /\ records' \in Seq(Record) /\ Len(records') = n + 1
        /\ \A r \in Ids : records'[r] = Retire(t, n + 1)[r]
    <3>1. records' = Append(Retire(t, n + 1), NewRecord(c, t))
      BY <1>2 DEF InsertMemory
    <3>2. QED
      BY <2>1, <2>2, <2>4, <3>1, InsertedRows
  <2>7. \A r \in Ids : /\ Retire(t, n + 1)[r].conv = records[r].conv
                       /\ r # t \/ records[r].status = "superseded" =>
                            Retire(t, n + 1)[r] = records[r]
                       /\ r = t => Retire(t, n + 1)[r].status = "superseded"
    BY <1>0, <2>5, RetireFacts
  <2>8. Ids \subseteq Ids'
    BY <1>0, <2>3, <2>6 DEF Ids
  <2>9. QED
    BY <2>6, <2>7, <2>8
<1>3. ASSUME NEW s \in Id, NEW status \in Status, SupersedeMemory(s, status)
      PROVE  \A r \in Ids : /\ r \in Ids'
                            /\ records'[r].conv = records[r].conv
                            /\ records[r].status # "active" => records'[r].status # "active"
                            /\ records[r].status = "superseded" =>
                                 records'[r].superseded_by = records[r].superseded_by
  <2>1. /\ s \in Ids /\ records[s].status = "active" /\ records[s] \in Record
        /\ records' = [records EXCEPT ![s] = [records[s] EXCEPT !.status = status]]
    BY <1>0, <1>3 DEF SupersedeMemory, IsActive, Ids
  <2>2. /\ Ids' = Ids /\ records'[s].conv = records[s].conv
        /\ \A r \in Ids \ {s} : records'[r] = records[r]
    BY <1>0, <2>1 DEF Ids, Record
  <2>3. QED
    BY <2>1, <2>2
<1>4. QED
  BY <1>1, <1>2, <1>3
  DEF RecordsNext, ProceedCreate, BeginCreate, LockConversation, LockTarget, RefuseTarget,
      UpsertMemory, AbortCreate, SearchPoints, LexicalSearch, FetchByIds, EndRetrieve,
      RebuildMemory, record_vars, database

(* A record is retired for good, whatever calls overlap.                    *)
THEOREM RetiredCorrect == RecordsSpec => RetiredForGood
<1>1. ASSUME RecordsInv, [RecordsNext]_record_vars
      PROVE  [\A r \in Ids :
                /\ r \in Ids'
                /\ ~IsActive(r) => ~IsActive(r)'
                /\ records[r].status = "superseded" =>
                     records'[r].superseded_by = records[r].superseded_by]_record_vars
  BY <1>1, RowsKept DEF IsActive
<1>2. QED
  BY <1>1, RecordsInductive, PTL DEF RecordsSpec, RetiredForGood

(* A retrieval under way stays in order while rows are added and retired.   *)
LEMMA RetrievalStands ==
  ASSUME RecordsInv, [RecordsNext]_record_vars, RetrievalInv, UNCHANGED retrieval
  PROVE  RetrievalInv'
<1>1. \A r \in Ids : /\ r \in Ids'
                     /\ records'[r].conv = records[r].conv
                     /\ records[r].status # "active" => records'[r].status # "active"
  BY RowsKept
<1>2. ASSUME NEW q \in Readers
      PROVE  retrieval[q].retired \subseteq (Ids \ Active)'
  BY <1>1 DEF RetrievalInv, Active, IsActive
<1>3. QED
  BY <1>1, <1>2 DEF RetrievalInv, Of

(* Every step of a retrieval keeps it in order. *)
LEMMA RetrievalKept ==
  RecordsInv /\ RetrievalInv /\ [RecordsNext]_record_vars => RetrievalInv'
<1> SUFFICES ASSUME RecordsInv, RetrievalInv, [RecordsNext]_record_vars
             PROVE  RetrievalInv'
  OBVIOUS
<1>0. Ids \subseteq Nat /\ Active \subseteq Ids
  BY DEF RecordsInv, RowInv, Ids, Active
<1>1. CASE UNCHANGED retrieval
  BY <1>1, RetrievalStands
<1>2. ASSUME NEW q \in Readers, NEW v \in RetrievalType,
             retrieval' = [retrieval EXCEPT ![q] = v], UNCHANGED records,
             v.retired \subseteq Ids \ Active, v.found \cap v.retired = {},
             v.found \subseteq Of(v.conv)
      PROVE  RetrievalInv'
  <2>1. retrieval' \in [Readers -> RetrievalType]
    BY <1>2 DEF RetrievalInv
  <2>2. retrieval'[q] = v /\ \A u \in Readers \ {q} : retrieval'[u] = retrieval[u]
    BY <1>2 DEF RetrievalInv
  <2>3. Ids' = Ids /\ Active' = Active /\ \A c : Of(c)' = Of(c)
    BY <1>2 DEF Ids, Active, IsActive, Of
  <2>4. QED
    BY <1>2, <2>1, <2>2, <2>3 DEF RetrievalInv
<1>3. ASSUME NEW q \in Readers, NEW c \in Conversations, SearchPoints(q, c)
      PROVE  RetrievalInv'
  <2> DEFINE v == [phase |-> "lexical", conv |-> c, hits |-> record_points \cap Of(c),
                   found |-> {}, retired |-> Ids \ Active]
  <2>1. record_points \cap Of(c) \in SUBSET Nat /\ Ids \ Active \in SUBSET Nat
    BY <1>0 DEF Of
  <2>2. /\ v \in RetrievalType /\ v.retired = Ids \ Active /\ v.found = {}
        /\ retrieval' = [retrieval EXCEPT ![q] = v] /\ UNCHANGED records
    BY <1>3, <2>1 DEF SearchPoints, RetrievalType, database
  <2> HIDE DEF v
  <2>3. QED
    BY <1>2, <2>2
<1>4. ASSUME NEW q \in Readers, LexicalSearch(q)
      PROVE  RetrievalInv'
  <2> DEFINE f == Active \cap Of(retrieval[q].conv)
             v == [retrieval[q] EXCEPT !.phase = "fetch", !.found = f]
  <2>1. retrieval[q] \in RetrievalType /\ f \in SUBSET Nat
    BY <1>0 DEF RetrievalInv
  <2>2. f \cap retrieval[q].retired = {} /\ f \subseteq Of(retrieval[q].conv)
    BY DEF RetrievalInv
  <2>3. retrieval' = [retrieval EXCEPT ![q] = v] /\ UNCHANGED records
    BY <1>4 DEF LexicalSearch, database
  <2> HIDE DEF f
  <2>4. /\ v \in RetrievalType /\ v.retired = retrieval[q].retired /\ v.found = f
        /\ v.conv = retrieval[q].conv
    BY <2>1 DEF RetrievalType
  <2> HIDE DEF v
  <2>5. retrieval[q].retired \subseteq Ids \ Active
    BY DEF RetrievalInv
  <2>6. QED
    BY <1>2, <2>2, <2>3, <2>4, <2>5
<1>5. ASSUME NEW q \in Readers, FetchByIds(q)
      PROVE  RetrievalInv'
  <2> DEFINE f == retrieval[q].found \cup
                    (retrieval[q].hits \cap Active \cap Of(retrieval[q].conv))
             v == [retrieval[q] EXCEPT !.phase = "done", !.found = f]
  <2>1. retrieval[q] \in RetrievalType
    BY DEF RetrievalInv
  <2>2. f \in SUBSET Nat
    BY <1>0, <2>1 DEF RetrievalType
  <2>3. f \cap retrieval[q].retired = {} /\ f \subseteq Of(retrieval[q].conv)
    BY DEF RetrievalInv
  <2>4. retrieval' = [retrieval EXCEPT ![q] = v] /\ UNCHANGED records
    BY <1>5, <2>1 DEF FetchByIds, database, RetrievalType, RetrievalInv
  <2> HIDE DEF f
  <2>5. /\ v \in RetrievalType /\ v.retired = retrieval[q].retired /\ v.found = f
        /\ v.conv = retrieval[q].conv
    BY <2>1, <2>2 DEF RetrievalType
  <2> HIDE DEF v
  <2>6. retrieval[q].retired \subseteq Ids \ Active
    BY DEF RetrievalInv
  <2>7. QED
    BY <1>2, <2>3, <2>4, <2>5, <2>6
<1>6. ASSUME NEW q \in Readers, EndRetrieve(q)
      PROVE  RetrievalInv'
  <2>1. /\ NoRetrieval \in RetrievalType /\ NoRetrieval.retired = {} /\ NoRetrieval.found = {}
    BY DEF NoRetrieval, RetrievalType
  <2>2. retrieval' = [retrieval EXCEPT ![q] = NoRetrieval] /\ UNCHANGED records
    BY <1>6 DEF EndRetrieve, database
  <2>3. QED
    BY <1>2, <2>1, <2>2
<1>7. QED
  BY <1>1, <1>3, <1>4, <1>5, <1>6
  DEF RecordsNext, ProceedCreate, BeginCreate, LockConversation, LockTarget, RefuseTarget,
      InsertMemory, UpsertMemory, AbortCreate, SupersedeMemory, RebuildMemory, record_vars

(* Nothing that was retired when a retrieval began, and nothing of another  *)
(* conversation, is returned, however many calls run meanwhile.             *)
THEOREM RetrievalCorrect == RecordsSpec => []NeverReturnsRetired
<1>1. RecordsInit => RetrievalInv
  <2>1. NoRetrieval \in RetrievalType /\ NoRetrieval.retired = {} /\ NoRetrieval.found = {}
    BY DEF NoRetrieval, RetrievalType
  <2>2. QED
    BY <2>1 DEF RecordsInit, RetrievalInv
<1>2. RetrievalInv => NeverReturnsRetired
  BY DEF RetrievalInv, NeverReturnsRetired
<1>3. QED
  BY <1>1, <1>2, RecordsInductive, RetrievalKept, PTL DEF RecordsSpec

(* Calls of create_memory cannot block each other for good, for any number  *)
(* of them and of conversations: who holds a target holds everything it     *)
(* needs, who has only its conversation waits for no one else's, and who    *)
(* has nothing only waits for those two.                                    *)
THEOREM NoStandstillCorrect == RecordsSpec => []NoStandstill
<1>1. RecordsInv => NoStandstill
  <2> SUFFICES ASSUME RecordsInv, NEW p \in Creators, create[p].phase # "idle"
               PROVE  \E q \in Creators : CanProceedCreate(q)
    BY DEF NoStandstill
  <2>0. /\ CreateInv /\ RecordLocks /\ Ids \subseteq Id
    BY IdsFacts DEF RecordsInv, RowInv
  <2>1. CASE \E q \in Creators : create[q].phase \in {"checked", "stored"}
    BY <2>1 DEF CanProceedCreate
  <2>2. CASE /\ \A q \in Creators : create[q].phase \notin {"checked", "stored"}
             /\ \E q \in Creators : create[q].phase = "locked"
    <3>1. \A r \in Id : row_lock[r] = Free
      BY <2>0, <2>2 DEF RecordLocks
    <3>2. QED
      BY <2>0, <2>2, <3>1 DEF CanProceedCreate
  <2>3. CASE \A q \in Creators : create[q].phase \notin {"checked", "stored", "locked"}
    <3>1. \A c \in Conversations : conv_lock[c] = Free
      BY <2>0, <2>3 DEF RecordLocks
    <3>2. create[p].phase = "begun" /\ create[p].conv \in Conversations
      BY <2>0, <2>3 DEF CreateInv, CreateType
    <3>3. QED
      BY <3>1, <3>2 DEF CanProceedCreate
  <2>4. QED
    BY <2>1, <2>2, <2>3
<1>2. QED
  BY <1>1, RecordsInductive, PTL DEF RecordsSpec

-----------------------------------------------------------------------------
(* Greatest elements. *)

(* A nonempty set of naturals has a least element. *)
LEMMA LeastOf ==
  ASSUME NEW T \in SUBSET Nat, T # {}
  PROVE  \E x \in T : \A y \in T : x <= y
<1> DEFINE R == OpToRel(<, Nat)
<1>1. IsWellFoundedOn(R, Nat)
  BY NatLessThanWellFounded
<1>2. \A x, y \in Nat : x < y => <<x, y>> \in R
  BY DEF OpToRel
<1> HIDE DEF R
<1>3. PICK x \in T : \A y \in T : ~ (<<y, x>> \in R)
  BY <1>1, WFMin, T \subseteq Nat, Zenon
<1>4. \A y \in T : ~ (y < x)
  BY <1>2, <1>3, T \subseteq Nat, Zenon
<1>5. QED
  BY <1>4, SMT

(* Max returns the greatest element of a nonempty set of integers that has  *)
(* an upper bound, and nothing else is that element.                        *)
LEMMA MaxOf ==
  ASSUME NEW S \in SUBSET Int, S # {},
         NEW b \in Int, \A x \in S : x <= b
  PROVE  /\ Max(S) \in S
         /\ \A y \in S : y <= Max(S)
         /\ \A m \in S : (\A y \in S : y <= m) => Max(S) = m
<1> DEFINE T == {y \in Nat : \E x \in S : y = b - x}
<1>1. T \in SUBSET Nat /\ T # {}
  <2>1. PICK x \in S : TRUE
    OBVIOUS
  <2>2. b - x \in T
    BY <2>1
  <2>3. QED
    BY <2>2
<1>2. PICK t \in T : \A y \in T : t <= y
  BY <1>1, LeastOf
<1>3. PICK m \in S : t = b - m
  OBVIOUS
<1>4. \A y \in S : m >= y
  <2>1. \A y \in S : b - y \in T
    OBVIOUS
  <2>2. TAKE y \in S
  <2>3. t <= b - y
    BY <1>2, <2>1
  <2>4. y \in Int /\ m \in Int
    BY S \in SUBSET Int
  <2>5. QED
    BY <1>3, <2>3, <2>4
<1>5. \E x \in S : \A y \in S : x >= y
  BY <1>4
<1>6. Max(S) \in S /\ \A y \in S : Max(S) >= y
  BY <1>5 DEF Max
<1>7. \A y \in S : y <= Max(S)
  BY <1>6, S \in SUBSET Int
<1>8. ASSUME NEW n \in S, \A y \in S : y <= n
      PROVE  Max(S) = n
  <2>1. Max(S) <= n /\ n <= Max(S)
    BY <1>6, <1>7, <1>8
  <2>2. Max(S) \in Int /\ n \in Int
    BY <1>6, S \in SUBSET Int
  <2>3. QED
    BY <2>1, <2>2
<1>9. QED
  BY <1>6, <1>7, <1>8

-----------------------------------------------------------------------------
(* Turns. *)

Reach(rows, heads, h) == {n \in rows : \A g \in heads : h < g => n < g}
EndOf(rows, heads, h) == Max(Reach(rows, heads, h))
Settled(heads) == {h \in heads : \E g \in heads : h < g}

(* The units by their heads. *)
Units(rows, heads) ==
  {[start |-> h, stop |-> EndOf(rows, heads, h)] : h \in Settled(heads)}

(* SettledUnits is Units. *)
LEMMA UnitsByHead ==
  ASSUME NEW rows
  PROVE  SettledUnits(rows) = Units(rows, Heads(rows))
BY DEF SettledUnits, Units, EndOf, Reach, Settled

(* Rows are natural numbers below the length of the transcript. *)
LEMMA RowsBounded ==
  ASSUME roles \in Seq(Role), NEW b \in Int
  PROVE  /\ Len(roles) \in Nat
         /\ RowsFrom(b) \in SUBSET Nat
         /\ \A n \in RowsFrom(b) : n < Len(roles)
BY DEF RowsFrom, Seqs

(* A unit ends at or behind its head and before any later head. *)
LEMMA EndFacts ==
  ASSUME NEW rows \in SUBSET Nat, NEW b \in Nat, \A n \in rows : n <= b,
         NEW heads \in SUBSET rows, NEW h \in heads
  PROVE  LET R == Reach(rows, heads, h)
             e == EndOf(rows, heads, h)
         IN  /\ e \in R /\ e \in Nat /\ h <= e
             /\ \A g \in heads : h < g => e < g
             /\ \A m \in R : (\A y \in R : y <= m) => e = m
             /\ \A m \in R : m <= e
<1>1. h \in Reach(rows, heads, h)
  BY DEF Reach
<1>2. Reach(rows, heads, h) \subseteq rows
  BY DEF Reach
<1>3. rows \subseteq Int /\ b \in Int
  BY rows \in SUBSET Nat
<1>4. Reach(rows, heads, h) \in SUBSET Int
  BY <1>2, <1>3
<1>5. \A n \in Reach(rows, heads, h) : n <= b
  BY <1>2
<1> DEFINE R == Reach(rows, heads, h)
           e == EndOf(rows, heads, h)
<1>6. /\ e \in R
      /\ \A m \in R : m <= e
      /\ \A m \in R : (\A y \in R : y <= m) => e = m
  BY <1>1, <1>3, <1>4, <1>5, MaxOf DEF EndOf
<1>7. e \in Nat /\ h <= e
  BY <1>1, <1>2, <1>6, rows \in SUBSET Nat
<1>8. \A g \in heads : h < g => e < g
  BY <1>6 DEF Reach
<1>9. QED
  BY <1>6, <1>7, <1>8

(* Units are chunks, and differ in their starts. *)
LEMMA UnitFacts ==
  ASSUME NEW rows \in SUBSET Nat, NEW b \in Nat, \A n \in rows : n <= b,
         NEW heads \in SUBSET rows
  PROVE  /\ \A u \in Units(rows, heads) : /\ u \in Chunk
                                          /\ u.stop <= b
         /\ \A u, v \in Units(rows, heads) : u.start = v.start => u = v
<1>1. ASSUME NEW u \in Units(rows, heads)
      PROVE  u \in Chunk /\ u.stop <= b
  <2>1. PICK h \in heads : u = [start |-> h, stop |-> EndOf(rows, heads, h)]
    BY <1>1 DEF Units, Settled
  <2>2. EndOf(rows, heads, h) \in Nat /\ EndOf(rows, heads, h) \in rows
    BY EndFacts DEF Reach
  <2>3. h \in Nat
    OBVIOUS
  <2>4. QED
    BY <2>1, <2>2, <2>3 DEF Chunk
<1>2. \A u, v \in Units(rows, heads) : u.start = v.start => u = v
  BY DEF Units
<1>3. QED
  BY <1>1, <1>2

(* The units of a window that starts at a user message are the units of the *)
(* transcript from there on, and the earlier ones end before it.            *)
LEMMA WindowUnits ==
  ASSUME roles \in Seq(Role), NEW b \in Seqs, RoleAt(b) = "user"
  PROVE  /\ SettledUnits(RowsFrom(b)) = {u \in SettledUnits(RowsFrom(0)) : u.start >= b}
         /\ \A u \in SettledUnits(RowsFrom(0)) : u.start < b => u.stop < b
<1> DEFINE R == RowsFrom(0)
           Q == RowsFrom(b)
           H == Heads(R)
           K == Heads(Q)
<1>1. b \in Nat /\ b \in Q /\ b \in R
  BY DEF RowsFrom, Seqs
<1>2. Q = {n \in R : n >= b}
  BY <1>1 DEF RowsFrom, Seqs
<1>3. /\ R \in SUBSET Nat /\ Q \in SUBSET Nat
      /\ Len(roles) \in Nat /\ \A n \in R : n <= Len(roles)
      /\ \A n \in Q : n <= Len(roles)
  BY RowsBounded, <1>1
<1>u. SettledUnits(Q) = Units(Q, K) /\ SettledUnits(R) = Units(R, H)
  BY UnitsByHead
<1> HIDE DEF R, Q
<1>4. K = {h \in H : h >= b}
  BY <1>1, <1>2, <1>3 DEF Heads
<1>5. b \in H /\ H \in SUBSET R /\ K \in SUBSET Q
  BY <1>1 DEF Heads
<1> HIDE DEF H, K
<1>6. Settled(K) = {h \in Settled(H) : h >= b}
  <2>1. \A h, g \in H : h >= b /\ h < g => g >= b
    BY <1>1, <1>3, <1>5
  <2>2. QED
    BY <1>4, <2>1 DEF Settled
<1>7. ASSUME NEW h \in H, h >= b
      PROVE  EndOf(Q, K, h) = EndOf(R, H, h)
  <2>1. Reach(Q, K, h) = {n \in Reach(R, H, h) : n >= b}
    <3>1. \A g \in H : h < g => g \in K
      BY <1>1, <1>3, <1>4, <1>5, <1>7
    <3>2. QED
      BY <1>2, <1>4, <3>1 DEF Reach
  <2>2. h \in K
    BY <1>4, <1>7
  <2>3. /\ EndOf(R, H, h) \in Reach(R, H, h) /\ EndOf(R, H, h) \in Nat
        /\ h <= EndOf(R, H, h)
        /\ \A m \in Reach(R, H, h) : m <= EndOf(R, H, h)
    BY <1>3, <1>5, EndFacts
  <2>4. EndOf(R, H, h) \in Reach(Q, K, h)
    <3>1. h \in Nat
      BY <1>3, <1>5
    <3>2. QED
      BY <1>1, <1>7, <2>1, <2>3, <3>1
  <2>5. \A m \in Reach(Q, K, h) : (\A y \in Reach(Q, K, h) : y <= m) => EndOf(Q, K, h) = m
    BY <1>3, <1>5, <2>2, EndFacts
  <2>6. QED
    BY <2>1, <2>3, <2>4, <2>5
<1>8. ASSUME NEW h \in H, h < b
      PROVE  EndOf(R, H, h) < b
  BY <1>3, <1>5, <1>8, EndFacts
<1>10. Units(Q, K) = {u \in Units(R, H) : u.start >= b}
  BY <1>6, <1>7 DEF Settled, Units
<1>11. \A u \in Units(R, H) : u.start < b => u.stop < b
  BY <1>8 DEF Settled, Units
<1>12. QED
  BY <1>10, <1>11, <1>u DEF R, Q

AllSettled == SettledUnits(RowsFrom(0))

(* The facts about units for the whole transcript. *)
LEMMA SettledFacts ==
  ASSUME roles \in Seq(Role)
  PROVE  /\ \A u \in AllSettled : u \in Chunk /\ u.stop <= Len(roles)
         /\ \A u, v \in AllSettled : u.start = v.start => u = v
         /\ Len(roles) \in Nat
<1>1. /\ RowsFrom(0) \in SUBSET Nat /\ Len(roles) \in Nat
      /\ \A n \in RowsFrom(0) : n <= Len(roles)
  BY RowsBounded
<1>2. Heads(RowsFrom(0)) \in SUBSET RowsFrom(0)
  BY DEF Heads
<1>3. AllSettled = Units(RowsFrom(0), Heads(RowsFrom(0)))
  BY UnitsByHead DEF AllSettled
<1>4. QED
  BY <1>1, <1>2, <1>3, UnitFacts

(* The scan from the boundary misses only units at or before the watermark. *)
LEMMA ScanFacts ==
  ASSUME roles \in Seq(Role), NEW w \in Int
  PROVE  LET W == SettledUnits(RowsFrom(Boundary(w)))
         IN  /\ W \subseteq AllSettled
             /\ \A u \in AllSettled : u \in W \/ u.stop <= w
<1> DEFINE b == Boundary(w)
           S == {n \in Seqs : RoleAt(n) = "user" /\ n <= w}
<1>1. b \in {0} \cup S
  <2>1. {0} \cup S \in SUBSET Int /\ {0} \cup S # {}
    BY DEF Seqs
  <2>2. Len(roles) \in Int /\ \A n \in {0} \cup S : n <= Len(roles)
    BY DEF Seqs
  <2>3. Max({0} \cup S) \in {0} \cup S
    BY <2>1, <2>2, MaxOf
  <2>4. QED
    BY <2>3 DEF Boundary
<1>2. CASE b = 0
  BY <1>2 DEF AllSettled
<1>3. CASE b \in S
  <2>1. b \in Seqs /\ RoleAt(b) = "user" /\ b <= w /\ b \in Int
    BY <1>3 DEF Seqs
  <2>2. /\ SettledUnits(RowsFrom(b)) = {u \in AllSettled : u.start >= b}
        /\ \A u \in AllSettled : u.start < b => u.stop < b
    BY <2>1, WindowUnits DEF AllSettled
  <2>3. \A u \in AllSettled : u.start \in Int /\ u.stop \in Int
    BY SettledFacts DEF Chunk
  <2> HIDE DEF b
  <2>4. \A u \in AllSettled : u \in SettledUnits(RowsFrom(b)) \/ u.stop <= w
    BY <2>1, <2>2, <2>3
  <2>5. QED
    BY <2>2, <2>4 DEF b
<1>4. QED
  BY <1>1, <1>2, <1>3

(* A stored message leaves the settled units as they are and settles at     *)
(* most one unit, behind all of them.                                       *)
LEMMA UnitsAppended ==
  ASSUME roles \in Seq(Role), NEW role \in Role, roles' = Append(roles, role)
  PROVE  /\ AllSettled \subseteq AllSettled'
         /\ \A u \in AllSettled' : /\ u \in AllSettled \/ \A v \in AllSettled : v.stop < u.stop
                                   /\ u \in Chunk
<1> DEFINE N == Len(roles)
           R == RowsFrom(0)
           P == {n \in 0 .. N : n \in R \/ (n = N /\ role # "system")}
           H == Heads(R)
           K == {n \in P : (n \in R /\ RoleAt(n) = "user") \/ (n = N /\ role = "user")
                           \/ \A m \in P : n <= m}
<1>1. /\ R \in SUBSET Nat /\ N \in Nat /\ \A n \in R : n < N
  BY RowsBounded
<1>2. RowsFrom(0)' = P
  <2>1. Len(roles') = N + 1 /\ roles'[N + 1] = role
        /\ \A n \in 0 .. N - 1 : roles'[n + 1] = roles[n + 1]
    OBVIOUS
  <2>2. QED
    BY <1>1, <2>1 DEF RowsFrom, Seqs, RoleAt
<1>3. Heads(RowsFrom(0))' = K
  <2>1. roles'[N + 1] = role
        /\ \A n \in 0 .. N - 1 : roles'[n + 1] = roles[n + 1]
    OBVIOUS
  <2>2. \A n \in P : RoleAt(n)' = "user" <=> (n \in R /\ RoleAt(n) = "user") \/ (n = N /\ role = "user")
    BY <1>1, <2>1 DEF RoleAt
  <2>3. Heads(RowsFrom(0))' = {n \in RowsFrom(0)' : RoleAt(n)' = "user" \/ \A m \in RowsFrom(0)' : n <= m}
    BY DEF Heads
  <2>4. QED
    BY <1>2, <2>2, <2>3
<1>4. AllSettled = Units(R, H)
  BY UnitsByHead DEF AllSettled
<1>5. AllSettled' = Units(P, K)
  <2>1. AllSettled' = Units(RowsFrom(0)', Heads(RowsFrom(0))')
    BY DEF AllSettled, SettledUnits, Units, EndOf, Reach, Settled
  <2>2. QED
    BY <1>2, <1>3, <2>1
<1>6. H \in SUBSET R /\ K \in SUBSET P
  BY DEF Heads
<1>7. P \in SUBSET Nat /\ \A n \in P : n <= N
  BY <1>1
<1>8. R \subseteq P /\ P \subseteq R \cup {N}
  BY <1>1
<1>9. H \subseteq K /\ K \subseteq H \cup {N}
  BY <1>1, <1>8 DEF Heads
<1> HIDE DEF R, P, H, K, N
<1>10. ASSUME NEW h \in Settled(H)
       PROVE  h \in Settled(K) /\ EndOf(P, K, h) = EndOf(R, H, h)
  <2>1. PICK g \in H : h \in H /\ h < g
    BY DEF Settled
  <2>2. Reach(P, K, h) = Reach(R, H, h)
    <3>1. g < N /\ g \in Nat /\ h < N /\ h \in Nat
      BY <1>1, <1>6, <2>1
    <3>2. N \notin Reach(P, K, h)
      BY <1>1, <1>9, <2>1, <3>1 DEF Reach
    <3>3. \A n \in R : n < N
      BY <1>1
    <3>4. QED
      BY <1>8, <1>9, <3>2, <3>3 DEF Reach
  <2>3. QED
    BY <1>9, <2>1, <2>2 DEF Settled, EndOf
<1>11. Units(R, H) \subseteq Units(P, K)
  BY <1>10 DEF Units
<1>12. ASSUME NEW h \in Settled(K), h \notin Settled(H)
       PROVE  \A v \in Units(R, H) : v.stop < EndOf(P, K, h)
  <2>1. h \in H
    <3>1. PICK g \in K : h \in K /\ h < g
      BY DEF Settled
    <3>2. g <= N /\ g \in Nat /\ h \in Nat
      BY <1>6, <1>7, <3>1
    <3>3. h # N
      BY <1>1, <3>1, <3>2
    <3>4. QED
      BY <1>9, <3>1, <3>3
  <2>2. TAKE v \in Units(R, H)
  <2>3. PICK k \in Settled(H) : v = [start |-> k, stop |-> EndOf(R, H, k)]
    BY DEF Units
  <2>4. PICK g \in H : k \in H /\ k < g
    BY DEF Settled
  <2>5. ~ (h < g)
    BY <1>12, <2>1, <2>4 DEF Settled
  <2>6. EndOf(R, H, k) < g /\ EndOf(R, H, k) \in Nat
    <3>1. \A n \in R : n <= N
      BY <1>1
    <3>2. QED
      BY <1>1, <1>6, <2>4, <3>1, EndFacts
  <2>7. h <= EndOf(P, K, h) /\ EndOf(P, K, h) \in Nat
    BY <1>1, <1>6, <1>7, <1>9, <2>1, EndFacts
  <2>8. h \in Nat /\ g \in Nat
    BY <1>1, <1>6, <2>1, <2>4
  <2>9. EndOf(R, H, k) < EndOf(P, K, h)
    BY <2>5, <2>6, <2>7, <2>8
  <2>10. QED
    BY <2>3, <2>9
<1>13. ASSUME NEW u \in Units(P, K)
       PROVE  u \in Units(R, H) \/ \A v \in Units(R, H) : v.stop < u.stop
  <2>1. PICK h \in Settled(K) : u = [start |-> h, stop |-> EndOf(P, K, h)]
    BY <1>13 DEF Units
  <2>2. CASE h \in Settled(H)
    BY <1>10, <2>1, <2>2 DEF Units
  <2>3. CASE h \notin Settled(H)
    BY <1>12, <2>1, <2>3
  <2>4. QED
    BY <2>2, <2>3
<1>14. \A u \in Units(P, K) : u \in Chunk
  BY <1>1, <1>6, <1>7, UnitFacts
<1>15. QED
  BY <1>4, <1>5, <1>11, <1>13, <1>14

-----------------------------------------------------------------------------
(* The inductive invariant. *)

TranscriptInv == roles \in Seq(Role) /\ watermark \in Int /\ DOMAIN task = Tasks

(* The watermark is the end of a settled unit. *)
WatermarkInv == watermark = -1 \/ \E u \in AllSettled : u.stop = watermark

(* The holder of the conversation's lock has read what is there. *)
LockInv ==
  \A t \in Tasks :
    task[t].phase = "read" => /\ lock = t
                              /\ task[t].seen = watermark
                              /\ task[t].units = SettledUnits(RowsFrom(Boundary(watermark)))

(* A chunk that is about to be marked has been upserted. *)
MarkInv ==
  \A t \in Tasks : task[t].phase = "mark" => Head(task[t].batch) \in points \cup lost

ChunkInv == TranscriptInv /\ WatermarkInv /\ LockInv /\ ChunksExact

(* The phases the continuations of a pass lead to. *)
LEMMA Phases ==
  /\ Idle.phase = "idle"
  /\ \A p : At(p).phase = p
  /\ \A p, r, a : Upserting(p, r, a).phase = p /\ Upserting(p, r, a).batch = r.batch
  /\ \A rest : Slice(rest).phase \in {"idle", "embed"}
  /\ \A r : NextChunk(r).phase \in {"idle", "embed", "ensure"}
<1>1. Idle.phase = "idle" /\ \A p : At(p).phase = p
  BY DEF Idle, At
<1>u. \A p, r, a : Upserting(p, r, a).phase = p /\ Upserting(p, r, a).batch = r.batch
  BY DEF Idle, At, Upserting
<1>2. \A rest : Slice(rest).phase \in {"idle", "embed"}
  BY DEF Idle, At, Slice
<1>3. \A r : NextChunk(r).phase \in {"idle", "embed", "ensure"}
  BY <1>2, <1>u DEF NextChunk
<1>4. QED
  BY <1>1, <1>u, <1>2, <1>3

(* The initial state satisfies the invariant. *)
LEMMA InitChunkInv == Init => ChunkInv /\ MarkInv /\ MarkedIsStored
<1> SUFFICES ASSUME Init PROVE ChunkInv /\ MarkInv /\ MarkedIsStored
  OBVIOUS
<1>1. TranscriptInv /\ WatermarkInv
  BY DEF Init, TranscriptInv, WatermarkInv
<1>2. LockInv /\ MarkInv /\ MarkedIsStored
  BY Phases DEF Init, LockInv, MarkInv, MarkedIsStored
<1>3. ChunksExact
  <2>1. RowsFrom(0) = {}
    BY DEF Init, RowsFrom, Seqs
  <2>2. SettledUnits(RowsFrom(0)) = {}
    BY <2>1 DEF SettledUnits, Heads
  <2>3. QED
    BY <2>2 DEF Init, ChunksExact
<1>4. QED
  BY <1>1, <1>2, <1>3 DEF ChunkInv

(* Steps that leave the conversation alone, whatever they do to tasks that  *)
(* are not and do not become readers.                                       *)
LEMMA QuietStep ==
  ASSUME ChunkInv, DOMAIN task' = Tasks,
         UNCHANGED <<roles, watermark, chunks>>,
         \A t \in Tasks : \/ task'[t] = task[t] /\ (lock' = lock \/ lock # t)
                          \/ task'[t].phase # "read"
  PROVE  ChunkInv'
<1>1. /\ AllSettled' = AllSettled
      /\ SettledUnits(RowsFrom(Boundary(watermark)))' = SettledUnits(RowsFrom(Boundary(watermark)))
  BY DEF AllSettled, SettledUnits, RowsFrom, Boundary, Heads, Seqs, RoleAt
<1>2. TranscriptInv' /\ WatermarkInv' /\ ChunksExact'
  BY <1>1 DEF ChunkInv, TranscriptInv, WatermarkInv, ChunksExact, AllSettled
<1>3. LockInv'
  <2>1. SUFFICES ASSUME NEW t \in Tasks, task'[t].phase = "read"
                 PROVE  /\ lock' = t /\ task'[t].seen = watermark'
                        /\ task'[t].units = SettledUnits(RowsFrom(Boundary(watermark)))'
    BY DEF LockInv
  <2>2. QED
    BY <1>1, <2>1 DEF ChunkInv, LockInv
<1>4. QED
  BY <1>2, <1>3 DEF ChunkInv

(* A stored message. *)
LEMMA StoreMessageInv ==
  ASSUME ChunkInv, IndexAssumption, NEW role \in Role, StoreMessage(role)
  PROVE  ChunkInv'
<1>1. roles \in Seq(Role) /\ watermark \in Int /\ roles' = Append(roles, role)
  BY DEF ChunkInv, TranscriptInv, StoreMessage
<1>2. /\ AllSettled \subseteq AllSettled'
      /\ \A u \in AllSettled' : /\ u \in AllSettled \/ \A v \in AllSettled : v.stop < u.stop
                                /\ u \in Chunk
  BY <1>1, UnitsAppended
<1>3. TranscriptInv'
  BY <1>1 DEF ChunkInv, TranscriptInv, StoreMessage
<1>4. WatermarkInv' /\ LockInv'
  <2>1. WatermarkInv'
    BY <1>2 DEF ChunkInv, WatermarkInv, StoreMessage
  <2>2. LockInv'
    BY DEF ChunkInv, LockInv, StoreMessage, IndexAssumption
  <2>3. QED
    BY <2>1, <2>2
<1>5. ChunksExact'
  <2>1. \A u \in AllSettled' : u \in AllSettled \/ ~ (u.stop <= watermark)
    <3>1. SUFFICES ASSUME NEW u \in AllSettled', u \notin AllSettled
                   PROVE  ~ (u.stop <= watermark)
      OBVIOUS
    <3>2. u.stop \in Nat
      BY <1>2 DEF Chunk
    <3>3. CASE watermark = -1
      BY <3>2, <3>3
    <3>4. CASE \E v \in AllSettled : v.stop = watermark
      BY <1>1, <1>2, <3>1, <3>2, <3>4
    <3>5. QED
      BY <3>3, <3>4 DEF ChunkInv, WatermarkInv
  <2>2. chunks' = {u \in AllSettled : u.stop <= watermark} /\ watermark' = watermark
    BY DEF ChunkInv, ChunksExact, AllSettled, StoreMessage
  <2>3. chunks' = {u \in AllSettled' : u.stop <= watermark}
    BY <1>2, <2>1, <2>2
  <2>4. QED
    BY <2>2, <2>3 DEF ChunksExact, AllSettled
<1>6. QED
  BY <1>3, <1>4, <1>5 DEF ChunkInv

(* A pass that takes the lock and reads. *)
LEMMA ReadTurnsInv ==
  ASSUME ChunkInv, IndexAssumption, NEW t \in Tasks, ReadTurns(t)
  PROVE  ChunkInv'
<1> DEFINE W == SettledUnits(RowsFrom(Boundary(watermark)))
<1>1. UNCHANGED <<roles, watermark, chunks>>
  BY DEF ReadTurns
<1>2. AllSettled' = AllSettled /\ W' = W
  BY <1>1 DEF AllSettled, SettledUnits, RowsFrom, Boundary, Heads, Seqs, RoleAt
<1>3. DOMAIN task' = Tasks /\ \A q \in Tasks : q # t => task'[q] = task[q]
  BY DEF ReadTurns, Become, ChunkInv, TranscriptInv
<1>4. TranscriptInv' /\ WatermarkInv' /\ ChunksExact'
  BY <1>1, <1>2, <1>3 DEF ChunkInv, TranscriptInv, WatermarkInv, ChunksExact, AllSettled
<1>5. LockInv'
  <2>1. task'[t].seen = watermark /\ task'[t].units = W /\ lock' = t
    BY DEF ReadTurns, Become, At, Idle, ChunkInv, TranscriptInv
  <2>2. \A q \in Tasks : task[q].phase # "read"
    BY DEF ReadTurns, ChunkInv, LockInv, IndexAssumption
  <2>3. ASSUME NEW q \in Tasks, task'[q].phase = "read"
        PROVE  lock' = q /\ task'[q].seen = watermark' /\ task'[q].units = W'
    BY <1>1, <1>2, <1>3, <2>1, <2>2, <2>3
  <2>4. QED
    BY <2>3 DEF LockInv
<1>6. QED
  BY <1>4, <1>5 DEF ChunkInv

(* The commit of a pass: afterwards every settled unit has its chunk. *)
LEMMA InsertChunksInv ==
  ASSUME ChunkInv, NEW t \in Tasks, InsertChunks(t)
  PROVE  ChunkInv'
<1> DEFINE W == SettledUnits(RowsFrom(Boundary(watermark)))
           S == {watermark} \cup {u.stop : u \in W}
<1>1. /\ roles' = roles /\ roles \in Seq(Role) /\ watermark \in Int
      /\ lock = t /\ task[t].seen = watermark /\ task[t].units = W
  BY DEF InsertChunks, ChunkInv, TranscriptInv, LockInv
<1>2. AllSettled' = AllSettled
  BY <1>1 DEF AllSettled, SettledUnits, RowsFrom, Heads, Seqs, RoleAt
<1>3. DOMAIN task' = Tasks /\ \A q \in Tasks : task'[q].phase # "read"
  <2>1. task' = [task EXCEPT ![t] = At("select")] /\ DOMAIN task = Tasks
    BY DEF InsertChunks, Become, ChunkInv, TranscriptInv
  <2>2. task'[t].phase = "select"
    BY <2>1, Phases
  <2>3. \A q \in Tasks : q # t => task'[q] = task[q] /\ task[q].phase # "read"
    BY <1>1, <2>1 DEF ChunkInv, LockInv
  <2>4. QED
    BY <2>1, <2>2, <2>3
<1>4. /\ W \subseteq AllSettled
      /\ \A u \in AllSettled : u \in W \/ u.stop <= watermark
  BY <1>1, ScanFacts
<1>5. /\ \A u \in AllSettled : u \in Chunk /\ u.stop <= Len(roles)
      /\ \A u, v \in AllSettled : u.start = v.start => u = v
      /\ Len(roles) \in Nat
  BY <1>1, SettledFacts
<1>6. chunks = {u \in AllSettled : u.stop <= watermark}
  BY DEF ChunkInv, ChunksExact, AllSettled
<1>7. chunks' = chunks \cup {u \in W : u.start \notin Starts(chunks)}
  BY <1>1 DEF InsertChunks
<1>8. chunks' = AllSettled
  <2>1. \A u \in W : u.start \in Starts(chunks) => u \in chunks
    BY <1>4, <1>5, <1>6 DEF Starts
  <2>2. QED
    BY <1>4, <1>6, <1>7, <2>1
<1> HIDE DEF W
<1>9. Max(S) \in S /\ \A y \in S : y <= Max(S)
  <2>1. watermark <= Len(roles)
    BY <1>5 DEF ChunkInv, WatermarkInv
  <2>2. \A u \in W : u.stop \in Int /\ u.stop <= Len(roles)
    BY <1>4, <1>5 DEF Chunk
  <2>3. S \in SUBSET Int /\ S # {} /\ \A x \in S : x <= Len(roles)
    BY <1>1, <2>1, <2>2
  <2>4. Len(roles) \in Int
    BY <1>5
  <2> HIDE DEF S
  <2>5. QED
    BY <2>3, <2>4, MaxOf
<1>10. watermark' = Max(S)
  <2>1. watermark' = IF Max(S) > watermark THEN Max(S) ELSE watermark
    BY <1>1 DEF InsertChunks
  <2>2. watermark <= Max(S) /\ Max(S) \in Int
    <3>1. \A u \in W : u.stop \in Int
      BY <1>4, <1>5 DEF Chunk
    <3>2. QED
      BY <1>1, <1>9, <3>1
  <2>3. QED
    BY <1>1, <2>1, <2>2
<1>11. \A u \in AllSettled : u.stop <= watermark'
  <2>1. TAKE u \in AllSettled
  <2>2. u.stop \in Int /\ \A v \in W : v.stop \in Int
    BY <1>4, <1>5 DEF Chunk
  <2>3. watermark <= watermark' /\ watermark' \in Int
    BY <1>1, <1>9, <1>10, <2>2
  <2>4. CASE u \in W
    BY <1>9, <1>10, <2>4
  <2>5. CASE u.stop <= watermark
    BY <1>1, <2>2, <2>3, <2>5
  <2>6. QED
    BY <1>4, <2>4, <2>5
<1>12. ChunksExact'
  BY <1>2, <1>8, <1>11 DEF ChunksExact, AllSettled
<1>13. WatermarkInv'
  <2>1. watermark' \in S
    BY <1>9, <1>10
  <2>2. CASE watermark' = watermark
    BY <1>2, <2>2 DEF ChunkInv, WatermarkInv
  <2>3. CASE \E u \in W : u.stop = watermark'
    BY <1>2, <1>4, <2>3 DEF WatermarkInv
  <2>4. QED
    BY <2>1, <2>2, <2>3
<1>14. TranscriptInv'
  <2>1. watermark' \in Int
    BY <1>1, <1>4, <1>5, <1>9, <1>10 DEF Chunk
  <2>2. QED
    BY <1>1, <1>3, <2>1 DEF TranscriptInv
<1>15. LockInv'
  BY <1>3 DEF LockInv
<1>16. QED
  BY <1>12, <1>13, <1>14, <1>15 DEF ChunkInv

(* A task that moves on, to a phase other than reading, and leaves the      *)
(* conversation alone but for its own locks.                                *)
LEMMA MoveOn ==
  ASSUME ChunkInv, NEW t \in Tasks, NEW r, Become(t, r), r.phase # "read",
         UNCHANGED <<roles, watermark, chunks>>,
         lock' = lock \/ lock = t
  PROVE  ChunkInv'
<1>1. DOMAIN task' = Tasks /\ task'[t] = r /\ \A q \in Tasks : q # t => task'[q] = task[q]
  BY DEF Become, ChunkInv, TranscriptInv
<1>2. QED
  BY <1>1, QuietStep

(* Every step preserves the exactness of the chunks. *)
LEMMA NextChunkInv == ChunkInv /\ [Next]_vars => ChunkInv'
<1> SUFFICES ASSUME ChunkInv, [Next]_vars PROVE ChunkInv'
  OBVIOUS
<1> USE IndexAssumption
<1>1. ASSUME NEW role \in Role, StoreMessage(role) PROVE ChunkInv'
  BY <1>1, StoreMessageInv
<1>2. ASSUME NEW t \in Tasks, BeginPass(t) PROVE ChunkInv'
  BY <1>2, Phases, MoveOn DEF BeginPass, conversation
<1>3. ASSUME NEW t \in Tasks, NEW force \in BOOLEAN, BeginRebuild(t, force) PROVE ChunkInv'
  BY <1>3, Phases, MoveOn DEF BeginRebuild, conversation
<1>4. ASSUME NEW t \in Tasks, Proceed(t) PROVE ChunkInv'
  <2>1. CASE ReadTurns(t)
    BY <2>1, ReadTurnsInv
  <2>2. CASE InsertChunks(t)
    BY <2>2, InsertChunksInv
  <2>3. CASE SelectPending(t)
    BY <2>3, Phases, MoveOn DEF SelectPending, conversation
  <2>4. CASE SelectAll(t)
    BY <2>4, Phases, MoveOn DEF SelectAll, conversation
  <2>5. CASE EmbedSlice(t)
    BY <2>5, Phases, MoveOn DEF EmbedSlice, conversation
  <2>6. CASE Refusal(t)
    BY <2>6, Phases, MoveOn DEF Refusal, SkipSlice, conversation
  <2>7. CASE MarkIndexed(t)
    BY <2>7, Phases, MoveOn DEF MarkIndexed, conversation
  <2>8. CASE PointNotFoundAgain(t)
    BY <2>8, Phases, MoveOn DEF PointNotFoundAgain, conversation
  <2>9. CASE \/ CollectionCached(t) \/ LockEnsure(t) \/ CreateCollection(t)
             \/ PutPoint(t) \/ PointNotFound(t)
    <3>1. PICK p \in {"put", "create", "mark", "ensure"}, a \in {task[t].again, TRUE} :
            Become(t, Upserting(p, task[t], a))
      BY <2>9 DEF CollectionCached, LockEnsure, CreateCollection, PutPoint, PointNotFound
    <3>2. UNCHANGED <<roles, watermark, chunks, lock>>
      BY <2>9 DEF CollectionCached, LockEnsure, CreateCollection, PutPoint,
                  PointNotFound, conversation
    <3>3. Upserting(p, task[t], a).phase # "read"
      BY <3>1, Phases
    <3>4. QED
      BY <3>1, <3>2, <3>3, MoveOn
  <2>10. QED
    BY <1>4, <2>1, <2>2, <2>3, <2>4, <2>5, <2>6, <2>7, <2>8, <2>9 DEF Proceed, Upsert
<1>5. ASSUME NEW t \in Tasks, SkipSlice(t) PROVE ChunkInv'
  BY <1>5, Phases, MoveOn DEF SkipSlice, conversation
<1>6. ASSUME NEW t \in Tasks, SkipChunk(t) PROVE ChunkInv'
  BY <1>6, Phases, MoveOn DEF SkipChunk, ReleaseBoth
<1>7. ASSUME NEW t \in Tasks, EndEarly(t) PROVE ChunkInv'
  BY <1>7, Phases, MoveOn DEF EndEarly, ReleaseBoth
<1>8. CASE Restart
  <2>1. DOMAIN task' = Tasks /\ \A q \in Tasks : task'[q].phase # "read"
    BY <1>8, Phases DEF Restart
  <2>2. QED
    BY <1>8, <2>1, QuietStep DEF Restart
<1>9. CASE DropCollection \/ UNCHANGED vars
  <2>1. UNCHANGED <<roles, watermark, chunks, lock, task>>
    BY <1>9 DEF DropCollection, conversation, vars
  <2>2. DOMAIN task' = Tasks
    BY <2>1 DEF ChunkInv, TranscriptInv
  <2>3. QED
    BY <2>1, <2>2, QuietStep
<1>10. QED
  BY <1>1, <1>2, <1>3, <1>4, <1>5, <1>6, <1>7, <1>8, <1>9 DEF Next

(* Every step preserves the soundness of the markers. *)
LEMMA NextMarked ==
  DOMAIN task = Tasks /\ MarkInv /\ MarkedIsStored /\ [Next]_vars => MarkInv' /\ MarkedIsStored'
<1> SUFFICES ASSUME DOMAIN task = Tasks, MarkInv, MarkedIsStored, [Next]_vars
             PROVE  MarkInv' /\ MarkedIsStored'
  OBVIOUS
<1> DEFINE Stored == points \cup lost
<1>1. Stored \subseteq Stored'
  BY DEF Next, StoreMessage, BeginPass, BeginRebuild, Proceed, ReadTurns, InsertChunks,
         SelectPending, SelectAll, EmbedSlice, Refusal, Upsert, CollectionCached,
         LockEnsure, CreateCollection, PutPoint, PointNotFound, PointNotFoundAgain,
         MarkIndexed, SkipSlice, SkipChunk, EndEarly, Restart, DropCollection, server, vars
<1>2. ASSUME NEW t \in Tasks, PutPoint(t) PROVE MarkInv' /\ MarkedIsStored'
  <2>1. task'[t].batch = task[t].batch /\ \A q \in Tasks : q # t => task'[q] = task[q]
    BY <1>2, Phases DEF PutPoint, Become
  <2>2. Head(task[t].batch) \in Stored'
    BY <1>2 DEF PutPoint
  <2>3. MarkInv'
    BY <1>1, <2>1, <2>2 DEF MarkInv
  <2>4. QED
    BY <1>1, <1>2, <2>3 DEF PutPoint, MarkedIsStored
<1>3. ASSUME NEW t \in Tasks, MarkIndexed(t) PROVE MarkInv' /\ MarkedIsStored'
  <2>1. task'[t].phase # "mark" /\ \A q \in Tasks : q # t => task'[q] = task[q]
    BY <1>3, Phases DEF MarkIndexed, Become
  <2>2. Head(task[t].batch) \in Stored
    BY <1>3 DEF MarkIndexed, MarkInv
  <2>3. MarkInv'
    BY <1>1, <2>1 DEF MarkInv
  <2>4. QED
    BY <1>1, <1>3, <2>2, <2>3 DEF MarkIndexed, MarkedIsStored
<1>4. CASE /\ \A t \in Tasks : task'[t] = task[t] \/ task'[t].phase # "mark"
           /\ indexed' \subseteq indexed
  BY <1>1, <1>4 DEF MarkInv, MarkedIsStored
<1>5. ASSUME NEW t \in Tasks, NEW r, Become(t, r), r.phase # "mark", indexed' \subseteq indexed
      PROVE  MarkInv' /\ MarkedIsStored'
  BY <1>4, <1>5 DEF Become
<1>6. ASSUME NEW t \in Tasks, Proceed(t) PROVE MarkInv' /\ MarkedIsStored'
  <2>1. CASE ReadTurns(t)
    BY <1>5, <2>1 DEF ReadTurns, At, Idle
  <2>2. CASE InsertChunks(t) \/ SelectPending(t) \/ SelectAll(t) \/ EmbedSlice(t) \/ Refusal(t)
             \/ PointNotFoundAgain(t)
    BY <1>5, <2>2, Phases DEF InsertChunks, SelectPending, SelectAll, EmbedSlice, Refusal,
                              SkipSlice, PointNotFoundAgain
  <2>3. CASE CollectionCached(t) \/ LockEnsure(t) \/ CreateCollection(t) \/ PointNotFound(t)
    <3>1. PICK p \in {"put", "create", "ensure"}, a \in {task[t].again, TRUE} :
            Become(t, Upserting(p, task[t], a))
      BY <2>3 DEF CollectionCached, LockEnsure, CreateCollection, PointNotFound
    <3>2. indexed' = indexed
      BY <2>3 DEF CollectionCached, LockEnsure, CreateCollection, PointNotFound
    <3>3. Upserting(p, task[t], a).phase # "mark"
      BY <3>1, Phases
    <3>4. QED
      BY <1>5, <3>1, <3>2, <3>3
  <2>4. QED
    BY <1>2, <1>3, <1>6, <2>1, <2>2, <2>3 DEF Proceed, Upsert
<1>7. ASSUME NEW t \in Tasks, BeginPass(t) \/ SkipSlice(t) \/ SkipChunk(t) \/ EndEarly(t)
      PROVE  MarkInv' /\ MarkedIsStored'
  BY <1>5, <1>7, Phases DEF BeginPass, SkipSlice, SkipChunk, EndEarly
<1>8. ASSUME NEW t \in Tasks, NEW force \in BOOLEAN, BeginRebuild(t, force)
      PROVE  MarkInv' /\ MarkedIsStored'
  BY <1>5, <1>8, Phases DEF BeginRebuild
<1>9. CASE Restart
  BY <1>4, <1>9, Phases DEF Restart
<1>10. CASE DropCollection \/ (\E role \in Role : StoreMessage(role)) \/ UNCHANGED vars
  BY <1>4, <1>10 DEF DropCollection, StoreMessage, vars
<1>11. QED
  BY <1>6, <1>7, <1>8, <1>9, <1>10 DEF Next

-----------------------------------------------------------------------------
(* The chunks are exact in every reachable state. *)
THEOREM ChunksExactCorrect == Spec => []ChunksExact
<1>1. Init => ChunkInv
  BY InitChunkInv
<1>2. ChunkInv => ChunksExact
  BY DEF ChunkInv
<1>3. QED
  BY <1>1, <1>2, NextChunkInv, PTL DEF Spec

(* A chunk is never marked before its vector was stored. *)
THEOREM MarkedIsStoredCorrect == Spec => []MarkedIsStored
<1>1. Init => ChunkInv /\ MarkInv /\ MarkedIsStored
  BY InitChunkInv
<1>2. ChunkInv => DOMAIN task = Tasks
  BY DEF ChunkInv, TranscriptInv
<1>3. ChunkInv /\ MarkInv /\ MarkedIsStored /\ [Next]_vars =>
        (ChunkInv /\ MarkInv /\ MarkedIsStored)'
  BY <1>2, NextChunkInv, NextMarked
<1>4. QED
  BY <1>1, <1>3, PTL DEF Spec

-----------------------------------------------------------------------------
(* Types. *)

(* Of a finite set of numbers, i have a place in the order for every i up   *)
(* to their number.                                                         *)
LEMMA PlaceTaken ==
  ASSUME NEW S \in SUBSET Nat, IsFiniteSet(S), NEW i \in 0 .. Cardinality(S) - 1
  PROVE  \E x \in S : Cardinality({y \in S : y < x}) = i
<1> DEFINE Below(x) == {y \in S : y < x}
           Vacant == {k \in Nat : k < Cardinality(S) /\ \A x \in S : Cardinality(Below(x)) # k}
<1>0. Cardinality(S) \in Nat
  BY FS_CardinalityType
<1>1. Vacant = {}
  <2> SUFFICES ASSUME Vacant # {} PROVE FALSE
    OBVIOUS
  <2>1. PICK k \in Vacant : \A j \in Vacant : k <= j
    BY LeastOf
  <2>2. k \in Nat /\ k < Cardinality(S) /\ \A x \in S : Cardinality(Below(x)) # k
    OBVIOUS
  <2> HIDE DEF Vacant
  <2>3. ASSUME NEW T \in SUBSET S, T # {}
        PROVE  \E x \in T : \A y \in T : x <= y
    BY <2>3, LeastOf
  <2>4. CASE k = 0
    <3>1. S # {}
      BY <2>2, <2>4, FS_EmptySet
    <3>2. PICK x \in S : \A y \in S : x <= y
      BY <2>3, <3>1
    <3>3. Below(x) = {}
      <4>1. \A y \in S : ~ (y < x)
        BY <3>2
      <4>2. QED
        BY <4>1
    <3>4. Cardinality(Below(x)) = 0
      BY <3>3, FS_EmptySet, Zenon
    <3>5. QED
      BY <2>2, <2>4, <3>4
  <2>5. CASE k # 0
    <3>1. k - 1 \in Nat /\ k - 1 < Cardinality(S) /\ k - 1 \notin Vacant
      BY <1>0, <2>1, <2>2, <2>5
    <3>2. PICK x \in S : Cardinality(Below(x)) = k - 1
      BY <3>1 DEF Vacant
    <3> DEFINE UpTo == Below(x) \cup {x}
    <3>3. IsFiniteSet(Below(x)) /\ x \notin Below(x)
      BY FS_Subset
    <3>4. Cardinality(UpTo) = k
      <4>1. Cardinality(UpTo) = Cardinality(Below(x)) + 1
        BY <3>3, FS_AddElement
      <4>2. QED
        BY <2>2, <3>2, <4>1
    <3>5. S \ UpTo # {}
      <4>1. UpTo \subseteq S
        OBVIOUS
      <4>2. QED
        BY <2>2, <3>4, <4>1
    <3>6. PICK z \in S \ UpTo : \A y \in S \ UpTo : z <= y
      BY <2>3, <3>5
    <3>7. Below(z) = UpTo
      <4>1. x < z
        BY <3>6
      <4>2. \A y \in S : y < z <=> y \in UpTo
        BY <3>6, <4>1
      <4>3. QED
        BY <4>2
    <3>8. QED
      BY <2>2, <3>4, <3>6, <3>7
  <2>6. QED
    BY <2>4, <2>5
<1>2. i \in Nat /\ i < Cardinality(S) /\ i \notin Vacant
  BY <1>0, <1>1
<1>3. QED
  BY <1>2

(* Sorting a finite set of numbers gives a sequence of its elements. *)
LEMMA SortedFacts ==
  ASSUME NEW S \in SUBSET Nat, IsFiniteSet(S)
  PROVE  Sorted(S) \in Seq(Nat)
<1>1. Cardinality(S) \in Nat
  BY FS_CardinalityType
<1>2. ASSUME NEW i \in 1 .. Cardinality(S)
      PROVE  Sorted(S)[i] \in Nat
  <2>1. i - 1 \in 0 .. Cardinality(S) - 1
    BY <1>1
  <2>2. \E x \in S : Cardinality({y \in S : y < x}) = i - 1
    BY <2>1, PlaceTaken
  <2>3. (CHOOSE x \in S : Cardinality({y \in S : y < x}) = i - 1) \in S
    BY <2>2, Zenon
  <2>4. QED
    BY <2>3 DEF Sorted
<1>3. Sorted(S) \in [1 .. Cardinality(S) -> Nat]
  <2>1. Sorted(S) = [i \in 1 .. Cardinality(S) |-> Sorted(S)[i]]
    BY DEF Sorted
  <2>2. QED
    BY <1>2, <2>1
<1>4. QED
  BY <1>1, <1>3

(* So do the slices of one. *)
LEMMA SliceFacts ==
  ASSUME NEW s \in Seq(Nat), NEW n \in Nat \ {0}
  PROVE  Take(s, n) \in Seq(Nat) /\ Drop(s, n) \in Seq(Nat)
<1>1. Min({n, Len(s)}) \in {n, Len(s)} /\ \A x \in {n, Len(s)} : Min({n, Len(s)}) <= x
  <2>1. PICK m \in {n, Len(s)} : \A x \in {n, Len(s)} : m <= x
    <3>1. n <= Len(s) \/ Len(s) <= n
      OBVIOUS
    <3>2. QED
      BY <3>1
  <2>2. QED
    BY <2>1, Zenon DEF Min
<1>2. PICK m \in Nat : m = Min({n, Len(s)}) /\ m <= Len(s)
  BY <1>1
<1>3. Take(s, n) = SubSeq(s, 1, m)
  BY <1>2 DEF Take
<1>4. Take(s, n) \in Seq(Nat)
  <2>1. ASSUME NEW k \in Nat, k <= Len(s) PROVE SubSeq(s, 1, k) \in Seq(Nat)
    BY <2>1
  <2>2. QED
    BY <1>2, <1>3, <2>1, Zenon
<1>5. Drop(s, n) \in Seq(Nat)
  <2>1. PICK l \in Nat : l = Len(s)
    OBVIOUS
  <2>2. CASE n + 1 > l
    BY <2>1, <2>2 DEF Drop
  <2>3. CASE n + 1 <= l
    BY <2>1, <2>3 DEF Drop
  <2>4. QED
    BY <2>1, <2>2, <2>3
<1>6. QED
  BY <1>4, <1>5

(* The tasks: an upsert is always of a chunk of the batch. *)
TaskOK(r) ==
  /\ r.units \in SUBSET Chunk /\ r.rest \in Seq(Nat) /\ r.batch \in Seq(Nat)
  /\ r.phase \in {"ensure", "create", "put", "mark"} => r.batch # << >>

TasksOK == \A t \in Tasks : TaskOK(task[t])

ServerInv ==
  /\ indexed \in SUBSET Nat /\ points \in SUBSET Nat /\ lost \in SUBSET Nat
  /\ lock \in Tasks \cup {NoTask} /\ ensure_lock \in Tasks \cup {NoTask}
  /\ collection \in BOOLEAN /\ ready \in BOOLEAN
  /\ mishaps \in 0 .. MaxMishaps

(* The places a task moves on to. *)
LEMMA TaskFacts ==
  /\ TaskOK(Idle)
  /\ \A p : p \notin {"ensure", "create", "put", "mark"} => TaskOK(At(p))
  /\ \A rest \in Seq(Nat) : TaskOK(Slice(rest))
  /\ \A rest, batch \in Seq(Nat) : TaskOK(NextChunk([rest |-> rest, batch |-> batch]))
  /\ \A p, r, a : TaskOK(r) /\ r.batch # << >> => TaskOK(Upserting(p, r, a))
<1>1. TaskOK(Idle)
  BY DEF TaskOK, Idle
<1>2. \A p : p \notin {"ensure", "create", "put", "mark"} => TaskOK(At(p))
  BY DEF TaskOK, At, Idle
<1>3. ASSUME NEW rest \in Seq(Nat)
      PROVE  TaskOK(Slice(rest))
  BY <1>1 DEF Slice, TaskOK, At, Idle
<1>4. ASSUME NEW p, NEW a, NEW rest \in Seq(Nat), NEW batch \in Seq(Nat), batch # << >>,
             NEW r, r.rest = rest, r.batch = batch
      PROVE  TaskOK(Upserting(p, r, a))
  BY <1>4 DEF Upserting, TaskOK, At, Idle
<1>5. ASSUME NEW rest \in Seq(Nat), NEW batch \in Seq(Nat)
      PROVE  TaskOK(NextChunk([rest |-> rest, batch |-> batch]))
  BY <1>3, <1>4 DEF NextChunk
<1>6. \A p, r, a : TaskOK(r) /\ r.batch # << >> => TaskOK(Upserting(p, r, a))
  BY <1>4 DEF TaskOK
<1>7. QED
  BY <1>1, <1>2, <1>3, <1>5, <1>6

(* The chunks are finitely many. *)
LEMMA StartsFacts ==
  ASSUME ChunkInv
  PROVE  /\ chunks \in SUBSET Chunk /\ watermark \in Nat \cup {-1}
         /\ Starts(chunks) \in SUBSET Nat /\ IsFiniteSet(Starts(chunks))
<1>1. roles \in Seq(Role) /\ chunks \subseteq AllSettled
  BY DEF ChunkInv, TranscriptInv, ChunksExact, AllSettled
<1>2. Len(roles) \in Nat /\ AllSettled \subseteq Chunk
  BY <1>1, SettledFacts
<1>3. \A u \in AllSettled : u.start \in 0 .. Len(roles)
  <2>1. \A n \in RowsFrom(0) : n \in 0 .. Len(roles)
    BY <1>1, <1>2 DEF RowsFrom, Seqs
  <2>2. \A u \in AllSettled : u.start \in RowsFrom(0)
    <3>1. AllSettled = Units(RowsFrom(0), Heads(RowsFrom(0)))
      BY UnitsByHead DEF AllSettled
    <3>2. Heads(RowsFrom(0)) \in SUBSET RowsFrom(0)
      BY DEF Heads
    <3>3. \A u \in Units(RowsFrom(0), Heads(RowsFrom(0))) : u.start \in Heads(RowsFrom(0))
      BY DEF Units, Settled
    <3>4. QED
      BY <3>1, <3>2, <3>3
  <2>3. QED
    BY <2>1, <2>2
<1>4. Starts(chunks) \subseteq 0 .. Len(roles)
  BY <1>1, <1>3 DEF Starts
<1>5. IsFiniteSet(0 .. Len(roles))
  BY <1>2, FS_Interval
<1>6. IsFiniteSet(Starts(chunks))
  BY <1>4, <1>5, FS_Subset
<1>7. watermark \in Nat \cup {-1}
  BY <1>2 DEF ChunkInv, WatermarkInv, Chunk
<1>8. QED
  BY <1>1, <1>2, <1>4, <1>6, <1>7

(* A task that moves on to a place that is in order. *)
LEMMA OneTask ==
  ASSUME TasksOK, DOMAIN task = Tasks, NEW t \in Tasks, NEW r, TaskOK(r), Become(t, r)
  PROVE  TasksOK'
<1>1. task'[t] = r /\ \A q \in Tasks : q # t => task'[q] = task[q]
  BY DEF Become
<1>2. QED
  BY <1>1 DEF TasksOK, TaskOK

(* The first chunk of a batch, and the others. *)
LEMMA BatchFacts ==
  ASSUME NEW r, TaskOK(r), r.phase \in {"ensure", "create", "put", "mark"}
  PROVE  /\ r.batch # << >> /\ r.rest \in Seq(Nat)
         /\ Head(r.batch) \in Nat /\ Tail(r.batch) \in Seq(Nat)
<1>1. r.batch \in Seq(Nat) /\ r.batch # << >> /\ r.rest \in Seq(Nat)
  BY DEF TaskOK
<1>2. QED
  BY <1>1

(* Every step leaves the tasks in order. *)
LEMMA TasksKept == ChunkInv /\ TasksOK /\ [Next]_vars => TasksOK'
<1> SUFFICES ASSUME ChunkInv, TasksOK, [Next]_vars PROVE TasksOK'
  OBVIOUS
<1>0. DOMAIN task = Tasks /\ \A t \in Tasks : TaskOK(task[t])
  BY DEF ChunkInv, TranscriptInv, TasksOK
<1>s. Starts(chunks) \in SUBSET Nat /\ IsFiniteSet(Starts(chunks))
  BY StartsFacts
<1>1. CASE UNCHANGED task
  BY <1>1 DEF TasksOK, TaskOK
<1>2. ASSUME NEW t \in Tasks,
             BeginPass(t) \/ (\E force \in BOOLEAN : BeginRebuild(t, force)) \/ InsertChunks(t)
             \/ PointNotFoundAgain(t) \/ EndEarly(t)
      PROVE  TasksOK'
  <2>1. PICK p \in {"begun", "select_all", "select"} : Become(t, At(p)) \/ Become(t, Idle)
    BY <1>2 DEF BeginPass, BeginRebuild, InsertChunks, PointNotFoundAgain, EndEarly
  <2>2. TaskOK(At(p)) /\ TaskOK(Idle)
    BY TaskFacts
  <2>3. QED
    BY <1>0, <2>1, <2>2, OneTask
<1>3. ASSUME NEW t \in Tasks, ReadTurns(t)
      PROVE  TasksOK'
  <2> DEFINE W == SettledUnits(RowsFrom(Boundary(watermark)))
             r == [At("read") EXCEPT !.seen = watermark, !.units = W]
  <2>1. W \in SUBSET Chunk
    BY ScanFacts, SettledFacts DEF ChunkInv, TranscriptInv
  <2>2. Become(t, r)
    BY <1>3 DEF ReadTurns
  <2> HIDE DEF W
  <2>3. TaskOK(r)
    BY <2>1 DEF TaskOK, At, Idle
  <2>4. QED
    BY <1>0, <2>2, <2>3, OneTask
<1>4. ASSUME NEW t \in Tasks, SelectPending(t) \/ SelectAll(t)
      PROVE  TasksOK'
  <2>1. Sorted(Starts(chunks)) \in Seq(Nat)
    BY <1>s, SortedFacts
  <2>2. Sorted(Starts(chunks) \ indexed) \in Seq(Nat)
    <3>1. IsFiniteSet(Starts(chunks) \ indexed)
      BY <1>s, FS_Subset
    <3>2. QED
      BY <1>s, <3>1, SortedFacts
  <2>3. Take(Sorted(Starts(chunks) \ indexed), PassLimit) \in Seq(Nat)
    BY <2>2, SliceFacts, IndexAssumption
  <2>4. PICK s \in Seq(Nat) : Become(t, Slice(s))
    BY <1>4, <2>1, <2>3 DEF SelectPending, SelectAll
  <2>5. QED
    BY <1>0, <2>4, TaskFacts, OneTask
<1>5. ASSUME NEW t \in Tasks, EmbedSlice(t) \/ SkipSlice(t)
      PROVE  TasksOK'
  <2> DEFINE b == Take(task[t].rest, EmbedBatchSize)
             d == Drop(task[t].rest, EmbedBatchSize)
  <2>1. b \in Seq(Nat) /\ d \in Seq(Nat)
    BY <1>0, SliceFacts, IndexAssumption DEF TaskOK
  <2>2. Become(t, NextChunk([rest |-> d, batch |-> b])) \/ Become(t, Slice(d))
    BY <1>5 DEF EmbedSlice, SkipSlice
  <2> HIDE DEF b, d
  <2>3. QED
    BY <1>0, <2>1, <2>2, TaskFacts, OneTask
<1>6. ASSUME NEW t \in Tasks, MarkIndexed(t) \/ SkipChunk(t)
      PROVE  TasksOK'
  <2>1. task[t].phase \in {"create", "mark"}
    BY <1>6 DEF MarkIndexed, SkipChunk
  <2>2. task[t].rest \in Seq(Nat) /\ Tail(task[t].batch) \in Seq(Nat)
    BY <1>0, <2>1, BatchFacts
  <2>3. Become(t, NextChunk([rest |-> task[t].rest, batch |-> Tail(task[t].batch)]))
    BY <1>6 DEF MarkIndexed, SkipChunk
  <2>4. QED
    BY <1>0, <2>2, <2>3, TaskFacts, OneTask
<1>7. ASSUME NEW t \in Tasks,
             CollectionCached(t) \/ LockEnsure(t) \/ CreateCollection(t) \/ PutPoint(t)
             \/ PointNotFound(t)
      PROVE  TasksOK'
  <2>1. task[t].phase \in {"ensure", "create", "put"}
    BY <1>7 DEF CollectionCached, LockEnsure, CreateCollection, PutPoint, PointNotFound
  <2>2. task[t].batch # << >>
    BY <1>0, <2>1, BatchFacts
  <2>3. PICK p \in {"put", "create", "mark", "ensure"}, a \in {task[t].again, TRUE} :
          Become(t, Upserting(p, task[t], a))
    BY <1>7 DEF CollectionCached, LockEnsure, CreateCollection, PutPoint, PointNotFound
  <2>4. TaskOK(Upserting(p, task[t], a))
    BY <1>0, <2>2, TaskFacts
  <2>5. QED
    BY <1>0, <2>3, <2>4, OneTask
<1>8. CASE Restart
  <2>1. task' = [t \in Tasks |-> Idle]
    BY <1>8 DEF Restart
  <2>2. QED
    BY <2>1, TaskFacts DEF TasksOK
<1>9. QED
  BY <1>1, <1>2, <1>3, <1>4, <1>5, <1>6, <1>7, <1>8
  DEF Next, StoreMessage, Proceed, Refusal, Upsert, DropCollection, vars

(* Every step keeps the types of the server's, the client's and the          *)
(* database's state.                                                        *)
LEMMA ServerKept == TasksOK /\ ServerInv /\ [Next]_vars => ServerInv'
<1> SUFFICES ASSUME TasksOK, ServerInv, [Next]_vars PROVE ServerInv'
  OBVIOUS
<1>0. \A t \in Tasks : TaskOK(task[t])
  BY DEF TasksOK
<1>1. mishaps' \in 0 .. MaxMishaps
  <2>1. mishaps' = mishaps \/ Misfortune
    BY DEF Next, StoreMessage, BeginPass, BeginRebuild, Proceed, ReadTurns, InsertChunks,
           SelectPending, SelectAll, EmbedSlice, Refusal, Upsert, CollectionCached,
           LockEnsure, CreateCollection, PutPoint, PointNotFound, PointNotFoundAgain,
           MarkIndexed, SkipSlice, SkipChunk, EndEarly, Restart, DropCollection, vars
  <2>2. QED
    BY <2>1, IndexAssumption DEF ServerInv, Misfortune
<1>2. lock' \in Tasks \cup {NoTask} /\ ensure_lock' \in Tasks \cup {NoTask}
  BY DEF ServerInv, Next, StoreMessage, BeginPass, BeginRebuild, Proceed, ReadTurns,
         InsertChunks, SelectPending, SelectAll, EmbedSlice, Refusal, Upsert,
         CollectionCached, LockEnsure, CreateCollection, PutPoint, PointNotFound,
         PointNotFoundAgain, MarkIndexed, SkipSlice, SkipChunk, EndEarly, ReleaseBoth,
         Restart, DropCollection, conversation, client, vars
<1>3. collection' \in BOOLEAN /\ ready' \in BOOLEAN
  BY DEF ServerInv, Next, StoreMessage, BeginPass, BeginRebuild, Proceed, ReadTurns,
         InsertChunks, SelectPending, SelectAll, EmbedSlice, Refusal, Upsert,
         CollectionCached, LockEnsure, CreateCollection, PutPoint, PointNotFound,
         PointNotFoundAgain, MarkIndexed, SkipSlice, SkipChunk, EndEarly,
         Restart, DropCollection, server, client, vars
<1>4. \A t \in Tasks : task[t].phase \in {"put", "mark"} => Head(task[t].batch) \in Nat
  BY <1>0, BatchFacts
<1>5. indexed' \in SUBSET Nat /\ points' \in SUBSET Nat /\ lost' \in SUBSET Nat
  BY <1>4
  DEF ServerInv, Next, StoreMessage, BeginPass, BeginRebuild, Proceed, ReadTurns,
      InsertChunks, SelectPending, SelectAll, EmbedSlice, Refusal, Upsert,
      CollectionCached, LockEnsure, CreateCollection, PutPoint, PointNotFound,
      PointNotFoundAgain, MarkIndexed, SkipSlice, SkipChunk, EndEarly,
      Restart, DropCollection, server, vars
<1>6. QED
  BY <1>1, <1>2, <1>3, <1>5 DEF ServerInv

(* Every reachable state of the index is well typed: in particular every    *)
(* upsert and every marker is of a chunk that was selected, whatever slice  *)
(* failed and whatever chunk was skipped before it.                         *)
THEOREM IndexTypeCorrect == Spec => []TypeOK
<1>1. Init => ChunkInv /\ TasksOK /\ ServerInv
  <2> SUFFICES ASSUME Init PROVE TasksOK /\ ServerInv
    BY InitChunkInv
  <2>1. TasksOK
    BY TaskFacts DEF Init, TasksOK
  <2>2. ServerInv
    <3>1. mishaps \in 0 .. MaxMishaps
      BY IndexAssumption DEF Init
    <3>2. indexed = {} /\ points = {} /\ lost = {} /\ collection = FALSE /\ ready = FALSE
      BY DEF Init
    <3>3. QED
      BY <3>1, <3>2 DEF Init, ServerInv
  <2>3. QED
    BY <2>1, <2>2
<1>2. ChunkInv /\ TasksOK /\ ServerInv /\ [Next]_vars => (ChunkInv /\ TasksOK /\ ServerInv)'
  BY NextChunkInv, TasksKept, ServerKept
<1>3. ChunkInv /\ TasksOK /\ ServerInv => TypeOK
  BY StartsFacts DEF ChunkInv, TranscriptInv, TasksOK, TaskOK, ServerInv, TypeOK
<1>4. QED
  BY <1>1, <1>2, <1>3, PTL DEF Spec

=============================================================================
