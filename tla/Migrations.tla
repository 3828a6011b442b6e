------------------------------ MODULE Migrations ------------------------------
(***************************************************************************)
(* Startup of several processes on one database: apply_migrations and       *)
(* Database of db/database.py, with what lifespan of main.py makes of the   *)
(* outcome.  A step is one statement; an uncommitted statement leaves the   *)
(* database as it is and its transaction a phase further.                   *)
(***************************************************************************)
EXTENDS Naturals, Sequences

CONSTANTS Procs,       \* processes, of one or of several releases
          Version      \* how many migration files the release of each has

NoProc == "nobody"     \* the advisory lock is free

File == Nat \ {0}

(* Files are numbered in the order of their names; a release adds files     *)
(* behind the ones there are.                                               *)
ASSUME MigrationsAssumption == /\ Version \in [Procs -> Nat]
                               /\ NoProc \notin Procs

VARIABLES schema,      \* the migrations whose DDL is committed, in order
          applied,     \* the names in schema_migrations
          tracked,     \* whether that table exists
          lock,        \* who holds the advisory lock
          phase,       \* what each process is doing
          next         \* the file each process is at

vars == <<schema, applied, tracked, lock, phase, next>>
database == <<schema, applied, tracked>>

(* The transactions of apply_migrations, by the last statement that has     *)
(* been executed.                                                           *)
InTx == {"creating", "reading", "pending", "executed"}
Waiting == {"bootstrap", "behind"}
Starting == Waiting \cup InTx

Init ==
  /\ schema = << >>
  /\ applied = {}
  /\ tracked = FALSE
  /\ lock = NoProc
  /\ phase = [p \in Procs |-> "down"]
  /\ next = [p \in Procs |-> 1]

Goto(p, ph) == phase' = [phase EXCEPT ![p] = ph]

(* Mutant: the lock does not exclude. *)
TakeSharedLock(p) == lock' = p

(* pg_advisory_xact_lock: held to the end of the transaction. *)
TakeLock(p) == lock = NoProc /\ lock' = p

(* Mutant: a session lock, which outlives the transaction. *)
KeepLock(p) == UNCHANGED lock

ReleaseLock(p) == lock' = IF lock = p THEN NoProc ELSE lock

-----------------------------------------------------------------------------
(* Mutant: the files are counted from the one before the first. *)
ConnectAtZero(p) ==
  /\ phase[p] = "down"
  /\ Goto(p, "bootstrap")
  /\ next' = [next EXCEPT ![p] = 0]
  /\ UNCHANGED <<database, lock>>

(* create_pool succeeds. *)
Connect(p) ==
  /\ phase[p] = "down"
  /\ Goto(p, "bootstrap")
  /\ next' = [next EXCEPT ![p] = 1]
  /\ UNCHANGED <<database, lock>>

(* It fails: the process serves without a store. *)
Degrade(p) ==
  /\ phase[p] = "down"
  /\ Goto(p, "degraded")
  /\ UNCHANGED <<database, lock, next>>

LockBootstrap(p) ==
  /\ phase[p] = "bootstrap"
  /\ TakeLock(p)
  /\ Goto(p, "creating")
  /\ UNCHANGED <<database, next>>

CreateTable(p) ==
  /\ phase[p] = "creating"
  /\ tracked' = TRUE
  /\ ReleaseLock(p)
  /\ Goto(p, "behind")
  /\ UNCHANGED <<schema, applied, next>>

LockMigration(p) ==
  /\ phase[p] = "behind"
  /\ next[p] <= Version[p]
  /\ TakeLock(p)
  /\ Goto(p, "reading")
  /\ UNCHANGED <<database, next>>

SkipApplied(p) ==
  /\ phase[p] = "reading"
  /\ tracked
  /\ next[p] \in applied
  /\ ReleaseLock(p)
  /\ Goto(p, "behind")
  /\ next' = [next EXCEPT ![p] = @ + 1]
  /\ UNCHANGED database

FindPending(p) ==
  /\ phase[p] = "reading"
  /\ tracked
  /\ next[p] \notin applied
  /\ Goto(p, "pending")
  /\ UNCHANGED <<database, lock, next>>

ExecuteSql(p) ==
  /\ phase[p] = "pending"
  /\ Goto(p, "executed")
  /\ UNCHANGED <<database, lock, next>>

(* INSERT INTO schema_migrations and the commit of DDL and marker. *)
MarkAndCommit(p) ==
  /\ phase[p] = "executed"
  /\ schema' = Append(schema, next[p])
  /\ applied' = applied \cup {next[p]}
  /\ ReleaseLock(p)
  /\ Goto(p, "behind")
  /\ next' = [next EXCEPT ![p] = @ + 1]
  /\ UNCHANGED tracked

(* start returns True and lifespan creates the store and the memory         *)
(* service on the pool.                                                     *)
Serve(p) ==
  /\ phase[p] = "behind"
  /\ next[p] > Version[p]
  /\ Goto(p, "serving")
  /\ UNCHANGED <<database, lock, next>>

(* Mutant: a migration that failed is passed over. *)
FailAndGoOn(p) ==
  /\ phase[p] \in Starting
  /\ ReleaseLock(p)
  /\ Goto(p, "behind")
  /\ next' = [next EXCEPT ![p] = @ + 1]
  /\ UNCHANGED database

(* A statement of a startup fails: its transaction is rolled back, the pool *)
(* closed and the error raised again, which ends the process.               *)
Fail(p) ==
  /\ phase[p] \in Starting
  /\ ReleaseLock(p)
  /\ Goto(p, "down")
  /\ UNCHANGED <<database, next>>

(* Shutdown of a process that serves. *)
Close(p) ==
  /\ phase[p] \in {"serving", "degraded"}
  /\ Goto(p, "down")
  /\ UNCHANGED <<database, lock, next>>

Proceed(p) ==
  \/ LockBootstrap(p) \/ CreateTable(p)
  \/ LockMigration(p) \/ SkipApplied(p) \/ FindPending(p)
  \/ ExecuteSql(p) \/ MarkAndCommit(p)
  \/ Serve(p)

Next == \E p \in Procs : \/ Connect(p) \/ Degrade(p)
                         \/ Proceed(p)
                         \/ Fail(p) \/ Close(p)

Spec == Init /\ [][Next]_vars

(* A startup that can execute its next statement does, and one that waits   *)
(* for the advisory lock gets it, since PostgreSQL queues the waiters.      *)
FairSpec == /\ Spec
            /\ \A p \in Procs : /\ WF_vars(Proceed(p))
                                /\ SF_vars(LockBootstrap(p))
                                /\ SF_vars(LockMigration(p))

-----------------------------------------------------------------------------
TypeOK ==
  /\ schema \in Seq(File)
  /\ applied \in SUBSET File
  /\ tracked \in BOOLEAN
  /\ lock \in Procs \cup {NoProc}
  /\ phase \in [Procs -> {"down", "serving", "degraded"} \cup Starting]
  /\ next \in [Procs -> File]

(* However startups overlap and fail, every migration is applied once and   *)
(* behind all the ones before it, and the table of names says which they    *)
(* are (comment of MIGRATIONS_LOCK_KEY: "two processes can never apply the  *)
(* same migration twice or interleave half-done schema changes").           *)
AppliedInOrder ==
  /\ \A i \in 1 .. Len(schema) : schema[i] = i
  /\ applied = 1 .. Len(schema)

(* A process that serves with a pool finds the schema of its release:       *)
(* "serving traffic on an unverified schema would be worse than failing     *)
(* startup" (Database.start), also when another process did the work.       *)
ServesMigrated ==
  \A p \in Procs : phase[p] = "serving" => Version[p] <= Len(schema)

(* No startup waits for good, whatever becomes of the others: each is over, *)
(* well or not, in the end.                                                 *)
EveryStartEnds ==
  \A p \in Procs : phase[p] \in Starting ~> phase[p] \notin Starting
=============================================================================
