------------------------------ MODULE MCStore ------------------------------
(***************************************************************************)
(* The instance of the run "store": the store with its transactions, the   *)
(* conditions of its queries and the models it migrates.  The three are    *)
(* checked side by side: part says which of them moves.                    *)
(***************************************************************************)
EXTENDS MCTxStore, QueryConditions, ModelRegistry

CONSTANTS v, x, f1, f2, m1, m2, m3

VARIABLE part

\* No page, a page, and one whose offset is beyond the largest integer.
MCPageArgs == {0, 3, 4}

\* The map a program keeps and passes to WithFilter for several queries.
MCFilters == [c \in Columns |-> IF c = "id" THEN v ELSE Absent]

MCModels == {m1, m2, m3}

storeRunVars == <<part, vars, queryVars, registryVars>>

MCInit ==
  /\ part \in {"store", "conditions", "registry"}
  /\ Init /\ QueryInit /\ RegistryInit

MCNext ==
  \/ part = "store" /\ Next /\ UNCHANGED <<part, queryVars, registryVars>>
  \/ part = "conditions" /\ QueryNext /\ UNCHANGED <<part, vars, registryVars>>
  \/ part = "registry" /\ RegistryNext /\ UNCHANGED <<part, vars, queryVars>>

MCSpec == MCInit /\ [][MCNext]_storeRunVars

=============================================================================
