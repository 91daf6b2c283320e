------------------------------- MODULE TxStore -------------------------------
(***************************************************************************)
(* The generic store and the transaction runner of store/store.go, over a  *)
(* SQL database reached through a pool of connections.                     *)
(*                                                                         *)
(* Goroutines call the operations of a Store, by themselves or within a    *)
(* function they pass to TxRunner.Run, which may call Run again.  An       *)
(* operation takes the steps its SQL statements take; statements fail,     *)
(* connections break, contexts are cancelled and the reply to a COMMIT may *)
(* be lost.                                                                *)
(*                                                                         *)
(* The database is read committed and locks the rows a transaction writes. *)
(* A row is known by the run that wrote it: what else it holds plays no    *)
(* part here.                                                              *)
(*                                                                         *)
(* A definition Name_Mistake is a mistake one could make in Name; nothing  *)
(* uses it but the experiments that put it in Name's place.                *)
(***************************************************************************)
EXTENDS Naturals, FiniteSets

CONSTANTS
  Procs,     \* goroutines
  Keys,      \* primary keys
  Kinds,     \* the operations the goroutines call
  MaxOpen,   \* MaxOpenConnections of the pool
  Nested,    \* do functions passed to Run call Run again?
  MaxRuns,   \* bound: calls of Run
  MaxCalls   \* bound: store operations of each goroutine

ASSUME StoreAssumption ==
  /\ IsFiniteSet(Keys)
  /\ Kinds \subseteq {"Create", "Update", "Updates", "Delete", "Get", "Count", "List"}
  /\ MaxOpen \in Nat \ {0}
  /\ Nested \in BOOLEAN
  /\ MaxRuns \in Nat
  /\ MaxCalls \in Nat

\* Calls of Run are numbered as they start; 0 stands for "no transaction".
Runs == 1..MaxRuns
None == 0

VARIABLES
  table,    \* table[k]: is the row there, and which run wrote or deleted it
  status,   \* status[r]: where run r is, or what its Run returned
  parent,   \* parent[r]: the run whose function called Run, or None
  writes,   \* writes[r][k]: what run r has done to row k
  current,  \* current[p]: the run whose transaction p's context carries
  call,     \* call[p]: the store operation p is in
  reply,    \* reply[p]: what its last read returned
  started,  \* runs so far
  calls     \* calls[p]: operations of p so far

vars == <<table, status, parent, writes, current, call, reply, started, calls>>

Untouched == [k \in Keys |-> "untouched"]
Idle == [kind |-> "none"]
NoReply == [kind |-> "none"]

Init ==
  /\ table = [k \in Keys |-> [live |-> FALSE, by |-> None]]
  /\ status = [r \in Runs |-> "unused"]
  /\ parent = [r \in Runs |-> None]
  /\ writes = [r \in Runs |-> Untouched]
  /\ current = [p \in Procs |-> None]
  /\ call = [p \in Procs |-> Idle]
  /\ reply = [p \in Procs |-> NoReply]
  /\ started = 0
  /\ calls = [p \in Procs |-> 0]

-----------------------------------------------------------------------------
(* The database as the statements of one handle see it *)

\* Every open transaction keeps a connection, a single statement needs one.
FreeConnection == Cardinality({r \in Runs : status[r] = "active"}) < MaxOpen

Touched(r, k) == writes[r][k] # "untouched"

Locked(h, k) ==
  \E r \in Runs : r # h /\ status[r] = "active" /\ Touched(r, k)

\* The row as handle h sees it: its own write, or else what is committed.
Row(h, k) ==
  IF h # None /\ Touched(h, k)
  THEN [live |-> writes[h][k] = "row", by |-> h]
  ELSE table[k]

LiveKeys(h) == {k \in Keys : Row(h, k).live}

\* Within a transaction a write is kept there, otherwise it commits at once.
Write(h, k, what) ==
  IF h = None
  THEN /\ table' = [table EXCEPT ![k] = [live |-> what = "row", by |-> None]]
       /\ UNCHANGED writes
  ELSE /\ writes' = [writes EXCEPT ![h][k] = what]
       /\ UNCHANGED table

-----------------------------------------------------------------------------
raw_NoTx(p) == None

\* The transaction of the context, if there is one, else the pool.
raw(p) == current[p]

\* The handle can take a statement: the transaction is still open, or a
\* connection of the pool is free.
Usable(h) == IF h = None THEN FreeConnection ELSE status[h] = "active"

Outer(p) == IF current[p] = None THEN None ELSE parent[current[p]]

\* p is in its own code: outside of Run, or in the function passed to it.
InFunction(p) == current[p] # None => status[current[p]] \in {"active", "broken"}

-----------------------------------------------------------------------------
(* TxRunner.Run *)

\* Run begins on r.root, never on the transaction its context carries.
Run(p) ==
  /\ call[p] = Idle
  /\ InFunction(p)
  /\ current[p] # None => Nested
  /\ started < MaxRuns
  /\ started' = started + 1
  /\ status' = [status EXCEPT ![started + 1] = "beginning"]
  /\ parent' = [parent EXCEPT ![started + 1] = current[p]]
  /\ current' = [current EXCEPT ![p] = started + 1]
  /\ UNCHANGED <<table, writes, call, reply, calls>>

Begin(p) ==
  /\ current[p] # None
  /\ status[current[p]] = "beginning"
  /\ FreeConnection
  /\ status' = [status EXCEPT ![current[p]] = "active"]
  /\ UNCHANGED <<table, parent, writes, current, call, reply, started, calls>>

\* Run returns, with the status given, to the function that called it.
Return(p, result) ==
  /\ status' = [status EXCEPT ![current[p]] = result]
  /\ writes' = [writes EXCEPT ![current[p]] = Untouched]
  /\ current' = [current EXCEPT ![p] = Outer(p)]
  /\ reply' = [reply EXCEPT ![p] = NoReply]
  /\ UNCHANGED <<parent, call, started, calls>>

\* No connection, or the context is done: the function is not called.
BeginFails(p) ==
  /\ current[p] # None
  /\ status[current[p]] = "beginning"
  /\ Return(p, "error")
  /\ UNCHANGED table

\* The function is about to return to Transaction.
Finishing(p) ==
  /\ current[p] # None
  /\ call[p] = Idle

Committed(r) ==
  [k \in Keys |-> IF Touched(r, k)
                  THEN [live |-> writes[r][k] = "row", by |-> r]
                  ELSE table[k]]

Commit(p) ==
  /\ Finishing(p)
  /\ status[current[p]] = "active"
  /\ table' = Committed(current[p])
  /\ Return(p, "nil")

\* The connection breaks at the COMMIT: Run returns an error, and the database
\* has committed or has not.
CommitUnanswered(p) ==
  /\ Finishing(p)
  /\ status[current[p]] = "active"
  /\ table' \in {table, Committed(current[p])}
  /\ Return(p, "unknown")

\* The transaction was rolled back behind the function's back.
CommitFails(p) ==
  /\ Finishing(p)
  /\ status[current[p]] = "broken"
  /\ Return(p, "error")
  /\ UNCHANGED table

Abandon_AfterCommit(p) ==
  /\ Finishing(p)
  /\ status[current[p]] = "active"
  /\ table' = Committed(current[p])
  /\ Return(p, "error")

Abandon_NoRollback(p) ==
  /\ Finishing(p)
  /\ status[current[p]] \in {"active", "broken"}
  /\ current' = [current EXCEPT ![p] = Outer(p)]
  /\ UNCHANGED <<table, status, parent, writes, call, reply, started, calls>>

\* The function returns an error or panics: Transaction rolls back.  After a
\* panic the caller's function goes on only if it recovers.
Abandon(p) ==
  /\ Finishing(p)
  /\ status[current[p]] \in {"active", "broken"}
  /\ Return(p, "error")
  /\ UNCHANGED table

\* The context is cancelled or the connection is lost: the database rolls the
\* transaction back, while the function goes on.
Break(r) ==
  /\ status[r] = "active"
  /\ status' = [status EXCEPT ![r] = "broken"]
  /\ writes' = [writes EXCEPT ![r] = Untouched]
  /\ UNCHANGED <<table, parent, current, call, reply, started, calls>>

-----------------------------------------------------------------------------
(* The operations of a Store *)

Call(p, kind, k) ==
  /\ call[p] = Idle
  /\ InFunction(p)
  /\ calls[p] < MaxCalls
  /\ call' = [call EXCEPT ![p] = [kind |-> kind, key |-> k]]
  /\ reply' = [reply EXCEPT ![p] = NoReply]
  /\ calls' = [calls EXCEPT ![p] = @ + 1]
  /\ UNCHANGED <<table, status, parent, writes, current, started>>

Done(p) ==
  /\ call' = [call EXCEPT ![p] = Idle]
  /\ UNCHANGED <<status, parent, current, started, calls>>

\* A statement fails: on a broken transaction, after the database has ended
\* its wait for a lock, or for any reason of its own.
StatementFails(p) ==
  /\ call[p] # Idle
  /\ Done(p)
  /\ UNCHANGED <<table, writes, reply>>

\* A statement of p on a row nobody else has locked.
Statement(p, kind) ==
  /\ call[p].kind = kind
  /\ Usable(raw(p))
  /\ ~Locked(raw(p), call[p].key)

Present(p) == Row(raw(p), call[p].key).live

\* INSERT, which fails when the key is there.
Create(p) ==
  /\ Statement(p, "Create")
  /\ IF Present(p) THEN UNCHANGED <<table, writes>>
                   ELSE Write(raw(p), call[p].key, "row")
  /\ Done(p)
  /\ UNCHANGED reply

\* Save is an UPDATE ...
UpdateFinds(p) ==
  /\ Statement(p, "Update")
  /\ Present(p)
  /\ Write(raw(p), call[p].key, "row")
  /\ Done(p)
  /\ UNCHANGED reply

UpdateMisses(p) ==
  /\ Statement(p, "Update")
  /\ ~Present(p)
  /\ call' = [call EXCEPT ![p] = [kind |-> "Upsert", key |-> call[p].key]]
  /\ UNCHANGED <<table, status, parent, writes, current, reply, started, calls>>

\* ... and when that finds no row an INSERT ... ON CONFLICT UPDATE.
Upsert(p) ==
  /\ Statement(p, "Upsert")
  /\ Write(raw(p), call[p].key, "row")
  /\ Done(p)
  /\ UNCHANGED reply

\* UpdatePartial and UpdateColumns; without attributes or columns, and without
\* a matching row, they write nothing.
Updates(p) ==
  /\ Statement(p, "Updates")
  /\ \/ Present(p) /\ Write(raw(p), call[p].key, "row")
     \/ UNCHANGED <<table, writes>>
  /\ Done(p)
  /\ UNCHANGED reply

Delete(p) ==
  /\ Statement(p, "Delete")
  /\ IF Present(p) THEN Write(raw(p), call[p].key, "gone")
                   ELSE UNCHANGED <<table, writes>>
  /\ Done(p)
  /\ UNCHANGED reply

Answer(p, a) ==
  /\ reply' = [reply EXCEPT ![p] = a]
  /\ Done(p)
  /\ UNCHANGED <<table, writes>>

Seen(p, kind, rows, count) ==
  [kind |-> kind, run |-> current[p], count |-> count,
   rows |-> [k \in rows |-> Row(raw(p), k).by]]

\* First, with ErrRecordNotFound when there is no row.
Get(p) ==
  /\ call[p].kind = "Get"
  /\ Usable(raw(p))
  /\ Answer(p, Seen(p, "Get", {call[p].key} \cap LiveKeys(raw(p)), 1))

\* Count, and Exists, which asks whether the count is positive.
Count(p) ==
  /\ call[p].kind = "Count"
  /\ Usable(raw(p))
  /\ Answer(p, Seen(p, "Count", {}, Cardinality(LiveKeys(raw(p)))))

\* List counts first and reads the rows in a second statement.
ListCounts(p) ==
  /\ call[p].kind = "List"
  /\ Usable(raw(p))
  /\ call' = [call EXCEPT ![p] =
                [kind |-> "ListFind", key |-> call[p].key,
                 count |-> Cardinality(LiveKeys(raw(p)))]]
  /\ UNCHANGED <<table, status, parent, writes, current, reply, started, calls>>

ListFinds_OutsideTx(p) ==
  /\ call[p].kind = "ListFind"
  /\ FreeConnection
  /\ Answer(p, [kind |-> "List", run |-> current[p], count |-> call[p].count,
                rows |-> [k \in LiveKeys(None) |-> table[k].by]])

ListFinds(p) ==
  /\ call[p].kind = "ListFind"
  /\ Usable(raw(p))
  /\ Answer(p, Seen(p, "List", LiveKeys(raw(p)), call[p].count))

-----------------------------------------------------------------------------

Transaction(p) ==
  \/ Begin(p)
  \/ Commit(p)
  \/ CommitFails(p)
  \/ Abandon(p)

Operation(p) ==
  \/ Create(p)
  \/ UpdateFinds(p)
  \/ UpdateMisses(p)
  \/ Upsert(p)
  \/ Updates(p)
  \/ Delete(p)
  \/ Get(p)
  \/ Count(p)
  \/ ListCounts(p)
  \/ ListFinds(p)

Next ==
  \/ \E p \in Procs :
       \/ Run(p)
       \/ Transaction(p)
       \/ BeginFails(p)
       \/ CommitUnanswered(p)
       \/ \E kind \in Kinds, k \in Keys : Call(p, kind, k)
       \/ Operation(p)
       \/ StatementFails(p)
  \/ \E r \in Runs : Break(r)

Spec == Init /\ [][Next]_vars

\* A statement that cannot run because a row is locked, or because its
\* transaction is gone, is ended by the database or the driver; one that waits
\* for a connection waits on.
Hopeless(p) ==
  /\ call[p] # Idle
  /\ \/ raw(p) # None /\ status[raw(p)] # "active"
     \/ Usable(raw(p)) /\ Locked(raw(p), call[p].key)
  /\ StatementFails(p)

\* Statements that can run do, and functions return.
FairSpec ==
  /\ Spec
  /\ \A p \in Procs :
       /\ WF_vars(Transaction(p))
       /\ WF_vars(Operation(p))
       /\ WF_vars(Hopeless(p))

-----------------------------------------------------------------------------
(* Properties *)

Statuses == {"unused", "beginning", "active", "broken",
             "nil", "error", "unknown"}

Calls ==
  {Idle}
    \cup [kind: Kinds \cup {"Upsert"}, key: Keys]
    \cup [kind: {"ListFind"}, key: Keys, count: Nat]

Replies ==
  {NoReply}
    \cup [kind: {"Get", "Count", "List"}, run: 0..MaxRuns, count: Nat,
          rows: UNION {[K -> 0..MaxRuns] : K \in SUBSET Keys}]

\* Which run a row may be known by: one whose COMMIT was sent, or none.
Settled(w) == w = None \/ status[w] \in {"nil", "unknown"}

TypeOK ==
  /\ table \in [Keys -> [live: BOOLEAN, by: 0..MaxRuns]]
  /\ status \in [Runs -> Statuses]
  /\ parent \in [Runs -> 0..MaxRuns]
  /\ writes \in [Runs -> [Keys -> {"untouched", "row", "gone"}]]
  /\ current \in [Procs -> 0..MaxRuns]
  /\ call \in [Procs -> Calls]
  /\ reply \in [Procs -> Replies]
  /\ started \in 0..MaxRuns
  /\ calls \in [Procs -> 0..MaxCalls]

\* Nothing that a run did is in the database while it is open or when its
\* function failed, panicked or lost its transaction (store.go, Run).
NoTraceOfFailure == \A k \in Keys : Settled(table[k].by)

Open(r) == status[r] \in {"beginning", "active", "broken"}

\* Every transaction that is open belongs to the context of a goroutine that is
\* within its Run: none is left behind with its locks and its connection, by
\* errors, panics or nested runs (store.go, Run).
NoneLeftBehind ==
  \A r \in Runs :
    Open(r) => \/ \E p \in Procs : current[p] = r
               \/ \E c \in Runs : parent[c] = r /\ Open(c)

Unstarted == \A r \in Runs : r > started => status[r] = "unused"

\* Only an open transaction holds writes, and no two hold one row.
LocksHeld ==
  \A r \in Runs, k \in Keys :
    Touched(r, k) => status[r] = "active" /\ ~Locked(r, k)

\* NoTraceOfFailure is kept by the locks and by the order in which runs start.
StoreInvariant ==
  /\ TypeOK
  /\ Unstarted
  /\ LocksHeld
  /\ NoTraceOfFailure

\* A Get or a List in a run returns the run's own version of every row the run
\* has written, and no row it has deleted: the bug List once had.
ReadsOwnWrites ==
  [][\A p \in Procs :
       reply'[p] # reply[p] /\ reply'[p].kind \in {"Get", "List"} /\ current[p] # None
         => \A k \in Keys :
              /\ /\ writes[current[p]][k] = "row"
                 /\ reply'[p].kind = "List" \/ k = call[p].key
                 => k \in DOMAIN reply'[p].rows /\ reply'[p].rows[k] = current[p]
              /\ writes[current[p]][k] = "gone" => k \notin DOMAIN reply'[p].rows]_vars

\* A Run that is not nested ends, whichever transactions break and however the
\* goroutines compete, be there but one connection: what its function does needs
\* no second one (store.go, raw).
RunsEnd ==
  \A r \in Runs :
    status[r] = "beginning" ~> status[r] \in {"nil", "error", "unknown"}

-----------------------------------------------------------------------------
(* A statement of the documentation the code does not keep *)

\* "业务层应使用 Run 包装一组 store 操作，确保原子性": when a Run has failed,
\* nothing its function did is in the database, within a further Run or not.
RunIsAtomic ==
  \A k \in Keys :
    LET w == table[k].by IN
    w # None /\ parent[w] # None => status[parent[w]] # "error"

=============================================================================
