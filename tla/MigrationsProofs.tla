--------------------------- MODULE MigrationsProofs ---------------------------
(* Startups and migrations, for any number of processes and releases.       *)
EXTENDS Migrations, TLAPS

(* A process is inside a transaction exactly when it holds the lock. *)
LockInv == \A p \in Procs : phase[p] \in InTx <=> lock = p

(* A process has passed only files that are applied, and the one it is      *)
(* about to apply is the first that is not.                                 *)
NextInv ==
  \A p \in Procs :
    /\ phase[p] \in Starting => next[p] <= Len(schema) + 1
    /\ phase[p] \in {"pending", "executed"} => next[p] = Len(schema) + 1

IInv == TypeOK /\ AppliedInOrder /\ ServesMigrated /\ LockInv /\ NextInv

(* At the start no process runs and nothing is applied. *)
LEMMA InitIInv == Init => IInv
<1> SUFFICES ASSUME Init PROVE IInv
  OBVIOUS
<1> USE MigrationsAssumption DEF Init
<1>1. TypeOK
  <2>1. 1 \in File
    BY DEF File
  <2>2. schema \in Seq(File)
    OBVIOUS
  <2>5. applied \in SUBSET File /\ tracked \in BOOLEAN
    OBVIOUS
  <2>3. phase \in [Procs -> {"down", "serving", "degraded"} \cup Starting]
    OBVIOUS
  <2>4. next \in [Procs -> File]
    BY <2>1
  <2>q. QED
    BY <2>2, <2>3, <2>4, <2>5 DEF TypeOK
<1>2. AppliedInOrder
  BY DEF AppliedInOrder
<1>3. ServesMigrated /\ LockInv /\ NextInv
  BY DEF ServesMigrated, LockInv, NextInv, InTx, Starting, Waiting
<1>q. QED
  BY <1>1, <1>2, <1>3 DEF IInv

(* A step that leaves the database alone keeps order and markers; it also   *)
(* keeps what a process that was serving relies on.                         *)
LEMMA QuietStep ==
  ASSUME IInv, NEW p \in Procs, UNCHANGED <<schema, applied>>,
         NEW ph \in {"down", "serving", "degraded"} \cup Starting, Goto(p, ph),
         ph = "serving" => Version[p] <= Len(schema)
  PROVE  AppliedInOrder' /\ ServesMigrated'
<1>1. AppliedInOrder'
  BY DEF IInv, AppliedInOrder
<1>2. ServesMigrated'
  BY DEF IInv, ServesMigrated, TypeOK, Goto
<1>q. QED
  BY <1>1, <1>2

(* Every action preserves the invariant. *)
LEMMA NextIInv == IInv /\ [Next]_vars => IInv'
<1> SUFFICES ASSUME IInv, [Next]_vars PROVE IInv'
  OBVIOUS
<1> USE MigrationsAssumption DEF IInv
<1>1. CASE UNCHANGED vars
  BY <1>1 DEF vars, TypeOK, AppliedInOrder, ServesMigrated, LockInv, NextInv
<1>2. ASSUME NEW p \in Procs, Connect(p) PROVE IInv'
  <2> USE <1>2 DEF Connect
  <2>1. TypeOK'
    BY DEF TypeOK, File, Goto, database, Starting, Waiting
  <2>2. AppliedInOrder' /\ ServesMigrated'
    BY QuietStep DEF database, Starting, Waiting
  <2>3. LockInv' /\ NextInv'
    BY DEF LockInv, NextInv, TypeOK, Goto, database, InTx, Starting, Waiting
  <2>q. QED
    BY <2>1, <2>2, <2>3
<1>3. ASSUME NEW p \in Procs, Degrade(p) \/ Close(p) PROVE IInv'
  <2> USE <1>3 DEF Degrade, Close
  <2>1. TypeOK'
    BY DEF TypeOK, Goto, database
  <2>2. AppliedInOrder' /\ ServesMigrated'
    BY QuietStep DEF database
  <2>3. LockInv' /\ NextInv'
    BY DEF LockInv, NextInv, TypeOK, Goto, database, InTx, Starting, Waiting
  <2>q. QED
    BY <2>1, <2>2, <2>3
<1>4. ASSUME NEW p \in Procs, LockBootstrap(p) \/ LockMigration(p) PROVE IInv'
  <2> USE <1>4 DEF LockBootstrap, LockMigration, TakeLock
  <2>1. TypeOK'
    BY DEF TypeOK, Goto, database, Starting, InTx
  <2>2. AppliedInOrder' /\ ServesMigrated'
    BY QuietStep DEF database, Starting, InTx
  <2>3. LockInv' /\ NextInv'
    BY DEF LockInv, NextInv, TypeOK, Goto, database, InTx, Starting, Waiting
  <2>q. QED
    BY <2>1, <2>2, <2>3
<1>5. ASSUME NEW p \in Procs, CreateTable(p) PROVE IInv'
  <2> USE <1>5 DEF CreateTable, ReleaseLock
  <2>1. TypeOK'
    BY DEF TypeOK, Goto, Starting, Waiting
  <2>2. AppliedInOrder' /\ ServesMigrated'
    BY QuietStep DEF Starting, Waiting
  <2>3. LockInv' /\ NextInv'
    BY DEF LockInv, NextInv, TypeOK, Goto, InTx, Starting, Waiting
  <2>q. QED
    BY <2>1, <2>2, <2>3
<1>6. ASSUME NEW p \in Procs, SkipApplied(p) PROVE IInv'
  <2> USE <1>6 DEF SkipApplied, ReleaseLock
  <2>0. next[p] + 1 \in File
    BY DEF TypeOK, File
  <2>1. TypeOK'
    BY <2>0 DEF TypeOK, Goto, database, Starting, Waiting
  <2>2. AppliedInOrder' /\ ServesMigrated'
    BY QuietStep DEF database, Starting, Waiting
  <2>3. LockInv'
    BY DEF LockInv, TypeOK, Goto, InTx
  <2>4. next[p] <= Len(schema)
    BY DEF AppliedInOrder, TypeOK
  <2>5. ASSUME NEW q \in Procs PROVE NextInv!(q)'
    <3>1. CASE q = p
      BY <2>4, <3>1 DEF NextInv, TypeOK, File, Goto, database, Starting, Waiting
    <3>2. CASE q # p
      BY <3>2 DEF NextInv, TypeOK, Goto, database, Starting
    <3>q. QED
      BY <3>1, <3>2
  <2>q. QED
    BY <2>1, <2>2, <2>3, <2>5 DEF NextInv
<1>7. ASSUME NEW p \in Procs, FindPending(p) PROVE IInv'
  <2> USE <1>7 DEF FindPending
  <2>1. TypeOK'
    BY DEF TypeOK, Goto, database, Starting, InTx
  <2>2. AppliedInOrder' /\ ServesMigrated'
    BY QuietStep DEF database, Starting, InTx
  <2>3. LockInv'
    BY DEF LockInv, TypeOK, Goto, InTx
  <2>4. next[p] = Len(schema) + 1
    BY DEF File, AppliedInOrder, TypeOK, NextInv, Starting, InTx
  <2>5. NextInv'
    BY <2>4 DEF NextInv, TypeOK, Goto, database, InTx, Starting, Waiting
  <2>q. QED
    BY <2>1, <2>2, <2>3, <2>5
<1>8. ASSUME NEW p \in Procs, ExecuteSql(p) PROVE IInv'
  <2> USE <1>8 DEF ExecuteSql
  <2>1. TypeOK'
    BY DEF TypeOK, Goto, database, Starting, InTx
  <2>2. AppliedInOrder' /\ ServesMigrated'
    BY QuietStep DEF database, Starting, InTx
  <2>3. LockInv' /\ NextInv'
    BY DEF LockInv, NextInv, TypeOK, Goto, database, InTx, Starting, Waiting
  <2>q. QED
    BY <2>1, <2>2, <2>3
<1>9. ASSUME NEW p \in Procs, MarkAndCommit(p) PROVE IInv'
  <2> USE <1>9 DEF MarkAndCommit, ReleaseLock
  <2>1. next[p] = Len(schema) + 1 /\ lock = p
    BY DEF NextInv, LockInv, InTx
  <2>0. next[p] \in File /\ next[p] + 1 \in File
    BY DEF TypeOK, File
  <2>2. TypeOK'
    BY <2>0 DEF TypeOK, Goto, Starting, Waiting
  <2>3. /\ Len(schema') = Len(schema) + 1
        /\ \A i \in 1 .. Len(schema) : schema'[i] = schema[i]
        /\ schema'[Len(schema) + 1] = next[p]
    BY DEF TypeOK
  <2>4. AppliedInOrder'
    BY <2>1, <2>3 DEF AppliedInOrder, TypeOK
  <2>5. ServesMigrated'
    BY <2>3 DEF ServesMigrated, TypeOK, Goto
  <2>6. LockInv'
    BY <2>1 DEF LockInv, TypeOK, Goto, InTx
  <2>7. ASSUME NEW q \in Procs PROVE NextInv!(q)'
    <3>1. CASE q = p
      BY <2>1, <2>3, <3>1 DEF NextInv, TypeOK, Goto, Starting, Waiting, InTx
    <3>2. CASE q # p
      <4>1. phase[q] \notin InTx
        BY <2>1, <3>2 DEF LockInv
      <4>q. QED
        BY <2>3, <3>2, <4>1 DEF File, NextInv, TypeOK, Goto, Starting, InTx
    <3>q. QED
      BY <3>1, <3>2
  <2>q. QED
    BY <2>2, <2>4, <2>5, <2>6, <2>7 DEF NextInv
<1>10. ASSUME NEW p \in Procs, Serve(p) PROVE IInv'
  <2> USE <1>10 DEF Serve
  <2>1. TypeOK'
    BY DEF TypeOK, Goto, database
  <2>2. Version[p] <= Len(schema)
    BY DEF File, NextInv, TypeOK, Starting, Waiting
  <2>3. AppliedInOrder' /\ ServesMigrated'
    BY <2>2, QuietStep DEF database
  <2>4. LockInv' /\ NextInv'
    BY DEF LockInv, NextInv, TypeOK, Goto, database, InTx, Starting, Waiting
  <2>q. QED
    BY <2>1, <2>3, <2>4
<1>11. ASSUME NEW p \in Procs, Fail(p) PROVE IInv'
  <2> USE <1>11 DEF Fail, ReleaseLock
  <2>1. TypeOK'
    BY DEF TypeOK, Goto, database
  <2>2. AppliedInOrder' /\ ServesMigrated'
    BY QuietStep DEF database
  <2>3. LockInv' /\ NextInv'
    BY DEF LockInv, NextInv, TypeOK, Goto, database, InTx, Starting, Waiting
  <2>q. QED
    BY <2>1, <2>2, <2>3
<1>q. QED
  BY <1>1, <1>2, <1>3, <1>4, <1>5, <1>6, <1>7, <1>8, <1>9, <1>10, <1>11
     DEF Next, Proceed

(* The invariant holds in every behaviour. *)
LEMMA IInvHolds == Spec => []IInv
  BY InitIInv, NextIInv, PTL DEF Spec

(* TypeOK for any processes and releases. *)
THEOREM TypeCorrect == Spec => []TypeOK
  BY IInvHolds, PTL DEF IInv

(* Every migration is applied once, in order, with its marker, however many *)
(* processes start at the same time and whatever fails.                     *)
THEOREM AppliedInOrderCorrect == Spec => []AppliedInOrder
  BY IInvHolds, PTL DEF IInv

(* A process that serves with a pool finds the schema of its release.       *)
THEOREM ServesMigratedCorrect == Spec => []ServesMigrated
  BY IInvHolds, PTL DEF IInv
=============================================================================
