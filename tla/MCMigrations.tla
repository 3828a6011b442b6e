---------------------------- MODULE MCMigrations ----------------------------
(* Three processes of two releases. *)
EXTENDS Migrations

CONSTANTS p1, p2, p3

MCVersion == [p \in Procs |-> IF p = p3 THEN 2 ELSE 3]
=============================================================================
