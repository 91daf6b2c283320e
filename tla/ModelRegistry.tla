--------------------------- MODULE ModelRegistry ---------------------------
(*****************************************************************************)
(* store/registry: models register themselves, from init functions or from   *)
(* goroutines, and Migrate creates their tables. The global registry is made *)
(* once, under sync.Once; its slice of models is read and written without a  *)
(* lock, so a Register is a read of the slice and later a write of it.       *)
(*                                                                           *)
(* A definition Name_Mistake is a mistake one could make in Name; nothing    *)
(* uses it but the experiments that put it in Name's place.                  *)
(*****************************************************************************)
EXTENDS Sequences, FiniteSets, Naturals

CONSTANTS
  Models,        \* the models of the program, each registered by a goroutine
  MaxMigrations  \* bound: calls of Migrate

ASSUME RegistryAssumption == IsFiniteSet(Models) /\ MaxMigrations \in Nat

VARIABLES
  made,       \* globalRegistry has been made
  models,     \* its models
  read,       \* read[m]: the slice m's Register has read, or the empty tuple
  stage,      \* stage[m]: "out", "in", "read", "done"
  overlapped, \* history: models whose Register overlapped another one
  due,        \* history: the models registered when Migrate was called
  range,      \* what Migrate's loop ranges over
  next,       \* the index of the loop; 0 when no Migrate runs
  tables,     \* the models whose tables this Migrate has made
  result,     \* what the last Migrate returned
  migrations  \* calls of Migrate

registryVars == <<made, models, read, stage, overlapped, due, range, next, tables, result, migrations>>

RegistryInit ==
  /\ made = FALSE
  /\ models = <<>>
  /\ read = [m \in Models |-> <<>>]
  /\ stage = [m \in Models |-> "out"]
  /\ overlapped = {}
  /\ due = {}
  /\ range = <<>>
  /\ next = 0
  /\ tables = {}
  /\ result = "none"
  /\ migrations = 0

Inside == {m \in Models : stage[m] \in {"in", "read"}}
Migrating == <<due, range, next, tables, result, migrations>>

\* Register: once.Do makes the registry.
Register(m) ==
  /\ stage[m] = "out"
  /\ stage' = [stage EXCEPT ![m] = "in"]
  /\ made' = TRUE
  /\ overlapped' = overlapped \cup (IF Inside # {} THEN Inside \cup {m} ELSE {})
  /\ UNCHANGED <<models, read>> /\ UNCHANGED Migrating

\* append: the slice is read ...
AppendReads(m) ==
  /\ stage[m] = "in"
  /\ stage' = [stage EXCEPT ![m] = "read"]
  /\ read' = [read EXCEPT ![m] = models]
  /\ UNCHANGED <<made, models, overlapped>> /\ UNCHANGED Migrating

\* ... and written back, one longer.
AppendWrites(m) ==
  /\ stage[m] = "read"
  /\ stage' = [stage EXCEPT ![m] = "done"]
  /\ models' = Append(read[m], m)
  /\ read' = [read EXCEPT ![m] = <<>>]
  /\ UNCHANGED <<made, overlapped>> /\ UNCHANGED Migrating

\* Migrate: nothing to do without a registry; the loop ranges over the models
\* of this moment.
Migrate ==
  /\ next = 0 /\ migrations < MaxMigrations
  /\ migrations' = migrations + 1
  /\ due' = {m \in Models : stage[m] = "done"}
  /\ tables' = {}
  /\ range' = models
  /\ IF made THEN next' = 1 /\ result' = "running"
     ELSE next' = 0 /\ result' = "nil"
  /\ UNCHANGED <<made, models, read, stage, overlapped>>

MigrateModel_IgnoresError ==
  /\ next \in 1..Len(range)
  /\ next' = next + 1
  /\ tables' \in {tables \cup {range[next]}, tables}
  /\ UNCHANGED <<made, models, read, stage, overlapped, due, range, result, migrations>>

MigrateModel ==
  /\ next \in 1..Len(range)
  /\ next' = next + 1
  /\ tables' = tables \cup {range[next]}
  /\ UNCHANGED <<made, models, read, stage, overlapped, due, range, result, migrations>>

MigrateFails ==
  /\ next \in 1..Len(range)
  /\ next' = 0
  /\ result' = "error"
  /\ UNCHANGED <<made, models, read, stage, overlapped, due, range, tables, migrations>>

MigrateReturns ==
  /\ next > Len(range)
  /\ next' = 0
  /\ result' = "nil"
  /\ UNCHANGED <<made, models, read, stage, overlapped, due, range, tables, migrations>>

RegistryNext ==
  \/ \E m \in Models : Register(m) \/ AppendReads(m) \/ AppendWrites(m)
  \/ Migrate \/ MigrateModel \/ MigrateFails \/ MigrateReturns

RegistrySpecification == RegistryInit /\ [][RegistryNext]_registryVars

-----------------------------------------------------------------------------
\* A Migrate that returns nil has made the table of every model whose Register
\* had returned when it was called, also while others register and after an
\* earlier Migrate failed, unless that Register ran at the same time as another
\* (registry.go, Register and Migrate): the price of the missing lock.
NoModelSkipped ==
  next = 0 /\ result = "nil" => due \ overlapped \subseteq tables
=============================================================================
