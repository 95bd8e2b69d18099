------------------------------ MODULE Migrate ------------------------------
(***************************************************************************)
(* open_db and migrate, in processes that start when they like and may die *)
(* at any point: the applied migrations are read once, then each missing   *)
(* one is executed and entered in a transaction of its own.                *)
(***************************************************************************)
EXTENDS Naturals, Sequences, FiniteSets

CONSTANTS
  Procs,
  N           \* number of migrations: the length of MIGRATIONS

ASSUME MigrateAssumption == N \in Nat

VARIABLES
  log,        \* migrations in effect, in the order of their commits
  table,      \* schema_migrations
  boot        \* of each process: pc, the migrations it has read, the next one

migration == <<log, table, boot>>

Down == [pc |-> "down", applied |-> {}, next |-> 1]

MigrateInit == log = <<>> /\ table = {} /\ boot = [p \in Procs |-> Down]

\* open_db; CREATE TABLE IF NOT EXISTS schema_migrations.
Open(p) ==
  /\ boot[p].pc = "down" /\ boot' = [boot EXCEPT ![p].pc = "open"]
  /\ UNCHANGED <<log, table>>

ReadApplied(p) ==
  /\ boot[p].pc = "open"
  /\ boot' = [boot EXCEPT ![p].pc = "migrating", ![p].applied = table]
  /\ UNCHANGED <<log, table>>

Skip(p) ==
  /\ boot[p].pc = "migrating" /\ boot[p].next \in boot[p].applied
  /\ boot' = [boot EXCEPT ![p].next = @ + 1]
  /\ UNCHANGED <<log, table>>

\* Bug: the row is not entered, so that its key cannot clash.
ApplyUnentered(p) ==
  LET m == boot[p].next
  IN /\ boot[p].pc = "migrating" /\ m <= N /\ m \notin boot[p].applied
     /\ m \notin table
     /\ log' = Append(log, m) /\ boot' = [boot EXCEPT ![p].next = m + 1]
     /\ UNCHANGED table

\* The migration and its row, in one transaction: if another process has entered it, the
\* ALTER or the row's primary key fails.
Apply(p) ==
  LET m == boot[p].next
  IN /\ boot[p].pc = "migrating" /\ m <= N /\ m \notin boot[p].applied
     /\ m \notin table
     /\ log' = Append(log, m) /\ table' = table \cup {m}
     /\ boot' = [boot EXCEPT ![p].next = m + 1]

\* It fails, also for another reason (a lock that is held for 5 s): the command ends.
ApplyFails(p) ==
  /\ boot[p].pc = "migrating" /\ boot[p].next \notin boot[p].applied
  /\ boot' = [boot EXCEPT ![p] = Down]
  /\ UNCHANGED <<log, table>>

Migrated(p) ==
  /\ boot[p].pc = "migrating" /\ boot[p].next = N + 1
  /\ boot' = [boot EXCEPT ![p] = [Down EXCEPT !.pc = "ready"]]
  /\ UNCHANGED <<log, table>>

MigrateStep(p) ==
  Open(p) \/ ReadApplied(p) \/ Skip(p) \/ Apply(p) \/ ApplyFails(p) \/ Migrated(p)

\* Properties.

MigrateTypeOK ==
  /\ table \subseteq 1 .. N /\ log \in Seq(1 .. N)
  /\ \A p \in Procs :
       /\ boot[p].pc \in {"down", "open", "migrating", "ready"}
       /\ boot[p].applied \subseteq table /\ boot[p].next \in 1 .. N + 1

\* A process that is past migrate finds every migration in effect, whether it or another
\* one has applied it.
SchemaComplete == \A p \in Procs : boot[p].pc = "ready" => Len(log) = N /\ table = 1 .. N

Schema == INSTANCE Schema WITH N <- N, log <- log

\* Racing migrations have the effect of one that runs alone.
SchemaSpec == Schema!Spec
=============================================================================
