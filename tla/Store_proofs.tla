--------------------------- MODULE Store_proofs -----------------------------
(***************************************************************************)
(* Proofs about the store: transactions (TxStore), for any goroutines,     *)
(* keys, operations and pool; queries (QueryConditions), for any columns,  *)
(* values, tenants and page arguments of the machine; migrations           *)
(* (ModelRegistry), for any finite set of models and any number of calls   *)
(* of Migrate.                                                             *)
(*                                                                         *)
(* QueriesAreIndependent speaks of Options that share nothing. It needs to *)
(* be known that those who share a list share their map too, so that       *)
(* whoever has a map alone has the list alone, and what a tenant's lookup  *)
(* has still to add.                                                       *)
(*                                                                         *)
(* NoModelSkipped speaks of the end of a Migrate. What makes it true is    *)
(* what every Register leaves behind: a model that overlapped with nobody  *)
(* is in the slice, and in every slice somebody is about to extend and     *)
(* write back.                                                             *)
(***************************************************************************)
EXTENDS TxStore, QueryConditions, ModelRegistry, Foundations, FiniteSetTheorems

-----------------------------------------------------------------------------
(* Transactions                                                            *)

\* What a step of a transaction does to the run of p: it moves on, and what it
\* had written is discarded or, at a commit, in the table.
LEMMA ReturnStep ==
  ASSUME StoreInvariant, NEW p \in Procs,
         current[p] # None, Open(current[p]),
         NEW outcome \in {"nil", "error", "unknown"}, Return(p, outcome),
         \/ table' = table
         \/ table' = Committed(current[p]) /\ outcome # "error"
  PROVE  StoreInvariant'
<1> DEFINE r == current[p]
<1>1. r \in Runs
  BY StoreAssumption DEF StoreInvariant, TypeOK, Runs, None
<1>2. /\ status' = [status EXCEPT ![r] = outcome]
      /\ writes' = [writes EXCEPT ![r] = Untouched]
      /\ current' = [current EXCEPT ![p] = Outer(p)]
      /\ reply' = [reply EXCEPT ![p] = NoReply]
      /\ UNCHANGED <<parent, call, started, calls>>
  BY DEF Return
<1>3. Outer(p) \in 0..MaxRuns
  BY <1>1 DEF Outer, StoreInvariant, TypeOK
<1>4. table' \in [Keys -> [live: BOOLEAN, by: 0..MaxRuns]]
  <2>1. Committed(r) \in [Keys -> [live: BOOLEAN, by: 0..MaxRuns]]
    <3> SUFFICES ASSUME NEW k \in Keys
                 PROVE  Committed(r)[k] \in [live: BOOLEAN, by: 0..MaxRuns]
      BY DEF Committed
    <3>1. [live |-> writes[r][k] = "row", by |-> r] \in [live: BOOLEAN, by: 0..MaxRuns]
      BY <1>1 DEF Runs
    <3> QED
      BY <3>1 DEF Committed, StoreInvariant, TypeOK
  <2> QED
    BY <2>1 DEF StoreInvariant, TypeOK
<1>5. status' \in [Runs -> Statuses]
  BY <1>1, <1>2 DEF StoreInvariant, TypeOK, Statuses
<1>6. writes' \in [Runs -> [Keys -> {"untouched", "row", "gone"}]]
  BY <1>1, <1>2 DEF StoreInvariant, TypeOK, Untouched
<1>7. TypeOK'
  BY <1>2, <1>3, <1>4, <1>5, <1>6 DEF StoreInvariant, TypeOK, Replies
<1>8. Unstarted'
  BY <1>1, <1>2, <1>5 DEF StoreInvariant, TypeOK, Unstarted, Open, Runs
<1>9. LocksHeld'
  <2> SUFFICES ASSUME NEW q \in Runs, NEW k \in Keys, Touched(q, k)'
               PROVE  (status[q] = "active")' /\ ~Locked(q, k)'
    BY DEF LocksHeld
  <2>1. q # r /\ Touched(q, k)
    BY <1>1, <1>2 DEF StoreInvariant, TypeOK, Touched, Untouched
  <2>2. status[q] = "active" /\ ~Locked(q, k)
    BY <2>1 DEF StoreInvariant, LocksHeld
  <2> QED
    BY <1>1, <1>2, <2>1, <2>2
    DEF StoreInvariant, TypeOK, Locked, Touched, Untouched
<1>10. NoTraceOfFailure'
  <2> SUFFICES ASSUME NEW k \in Keys
               PROVE  Settled(table[k].by)'
    BY DEF NoTraceOfFailure
  <2>1. CASE table'[k] = table[k]
    <3>1. Settled(table[k].by) /\ table[k].by \in 0..MaxRuns
      BY DEF StoreInvariant, NoTraceOfFailure, TypeOK
    <3>2. table[k].by # r
      BY <1>1, <3>1 DEF Settled, Open, Runs, None
    <3> QED
      BY <1>1, <1>2, <2>1, <3>1, <3>2 DEF Settled, StoreInvariant, TypeOK, Runs, None
  <2>2. CASE table'[k] # table[k]
    <3>1. table'[k].by = r /\ outcome # "error"
      BY <2>2 DEF Committed
    <3> QED
      BY <1>1, <1>2, <3>1 DEF Settled, StoreInvariant, TypeOK
  <2> QED
    BY <2>1, <2>2
<1> QED
  BY <1>7, <1>8, <1>9, <1>10 DEF StoreInvariant

\* A write keeps to the table when there is no transaction and to the
\* transaction, whose lock it takes, when there is one.
LEMMA WriteStep ==
  ASSUME StoreInvariant, NEW h \in 0..MaxRuns, NEW k \in Keys,
         NEW what \in {"row", "gone"},
         h # None => status[h] = "active",
         ~Locked(h, k), Write(h, k, what), UNCHANGED <<status, started>>
  PROVE  /\ table' \in [Keys -> [live: BOOLEAN, by: 0..MaxRuns]]
         /\ writes' \in [Runs -> [Keys -> {"untouched", "row", "gone"}]]
         /\ LocksHeld'
         /\ NoTraceOfFailure'
<1>1. CASE h = None
  <2>1. /\ table' = [table EXCEPT ![k] = [live |-> what = "row", by |-> None]]
        /\ writes' = writes
    BY <1>1 DEF Write
  <2>2. table' \in [Keys -> [live: BOOLEAN, by: 0..MaxRuns]]
    BY <1>1, <2>1 DEF StoreInvariant, TypeOK
  <2>3. NoTraceOfFailure'
    BY <2>1 DEF StoreInvariant, TypeOK, NoTraceOfFailure, Settled
  <2>4. LocksHeld'
    BY <2>1 DEF StoreInvariant, LocksHeld, Locked, Touched
  <2> QED
    BY <2>1, <2>2, <2>3, <2>4 DEF StoreInvariant, TypeOK
<1>2. CASE h # None
  <2>1. /\ writes' = [writes EXCEPT ![h][k] = what]
        /\ table' = table
    BY <1>2 DEF Write
  <2>2. h \in Runs
    BY <1>2 DEF Runs, None
  <2>3. writes' \in [Runs -> [Keys -> {"untouched", "row", "gone"}]]
    BY <2>1, <2>2 DEF StoreInvariant, TypeOK
  <2>4. LocksHeld'
    <3> SUFFICES ASSUME NEW q \in Runs, NEW j \in Keys, Touched(q, j)'
                 PROVE  status[q] = "active" /\ ~Locked(q, j)'
      BY DEF LocksHeld
    <3>1. \A s \in Runs : \A i \in Keys :
            Touched(s, i)' <=> Touched(s, i) \/ (s = h /\ i = k)
      BY <2>1, <2>2 DEF StoreInvariant, TypeOK, Touched
    <3>2. status[q] = "active"
      BY <1>2, <3>1 DEF StoreInvariant, LocksHeld
    <3>3. ASSUME NEW s \in Runs, s # q, status[s] = "active", Touched(s, j)'
          PROVE  FALSE
      <4>1. CASE Touched(q, j) /\ Touched(s, j)
        BY <3>3, <4>1 DEF StoreInvariant, LocksHeld, Locked
      <4>2. CASE q = h /\ j = k
        BY <3>1, <3>3, <4>2 DEF Locked
      <4>3. CASE s = h /\ j = k
        BY <3>1, <3>2, <3>3, <4>3 DEF Locked
      <4> QED
        BY <3>1, <3>3, <4>1, <4>2, <4>3
    <3> QED
      BY <3>2, <3>3 DEF Locked
  <2>5. NoTraceOfFailure'
    BY <2>1 DEF StoreInvariant, NoTraceOfFailure, Settled
  <2> QED
    BY <2>1, <2>3, <2>4, <2>5 DEF StoreInvariant, TypeOK
<1> QED
  BY <1>1, <1>2

\* A step that leaves the table and the transactions alone keeps the invariant.
LEMMA SilentStep ==
  ASSUME StoreInvariant,
         UNCHANGED <<table, status, parent, writes, current, started>>,
         calls' \in [Procs -> 0..MaxCalls],
         call' \in [Procs -> Calls],
         reply' \in [Procs -> Replies]
  PROVE  StoreInvariant'
  BY DEF StoreInvariant, TypeOK, Unstarted, LocksHeld, Locked, Touched,
         NoTraceOfFailure, Settled

\* So does the start of a run, which has written nothing.
LEMMA RunStep ==
  ASSUME StoreInvariant, NEW p \in Procs, Run(p)
  PROVE  StoreInvariant'
<1> DEFINE r == started + 1
<1>1. r \in Runs /\ started \in Nat /\ status[r] = "unused"
  BY StoreAssumption DEF Run, StoreInvariant, TypeOK, Unstarted, Runs
<1>2. /\ status' = [status EXCEPT ![r] = "beginning"]
      /\ parent' = [parent EXCEPT ![r] = current[p]]
      /\ current' = [current EXCEPT ![p] = r]
      /\ started' = r
      /\ UNCHANGED <<table, writes, call, reply, calls>>
  BY DEF Run
<1>3. TypeOK'
  BY <1>1, <1>2, StoreAssumption DEF StoreInvariant, TypeOK, Statuses, Runs
<1>4. Unstarted'
  BY <1>1, <1>2 DEF StoreInvariant, TypeOK, Unstarted, Runs
<1>5. LocksHeld'
  BY <1>1, <1>2 DEF StoreInvariant, TypeOK, LocksHeld, Locked, Touched
<1>6. NoTraceOfFailure'
  BY <1>1, <1>2 DEF StoreInvariant, TypeOK, NoTraceOfFailure, Settled
<1> QED
  BY <1>3, <1>4, <1>5, <1>6 DEF StoreInvariant

\* Begin and Break change the status of a run that holds, then, no write.
LEMMA StatusStep ==
  ASSUME StoreInvariant, NEW r \in Runs, Open(r),
         NEW s \in {"active", "broken"},
         status' = [status EXCEPT ![r] = s],
         writes' = [writes EXCEPT ![r] = Untouched],
         UNCHANGED <<table, parent, current, call, reply, started, calls>>
  PROVE  StoreInvariant'
<1>1. TypeOK'
  BY DEF StoreInvariant, TypeOK, Statuses, Untouched
<1>2. Unstarted'
  BY DEF StoreInvariant, TypeOK, Unstarted, Open
<1>3. LocksHeld'
  <2> SUFFICES ASSUME NEW q \in Runs, NEW k \in Keys, Touched(q, k)'
               PROVE  (status[q] = "active")' /\ ~Locked(q, k)'
    BY DEF LocksHeld
  <2>1. q # r /\ Touched(q, k)
    BY DEF StoreInvariant, TypeOK, Touched, Untouched
  <2>2. status[q] = "active" /\ ~Locked(q, k)
    BY <2>1 DEF StoreInvariant, LocksHeld
  <2> QED
    BY <2>1, <2>2 DEF StoreInvariant, TypeOK, Locked, Touched, Untouched
<1>4. NoTraceOfFailure'
  BY DEF StoreInvariant, TypeOK, NoTraceOfFailure, Settled, Open
<1> QED
  BY <1>1, <1>2, <1>3, <1>4 DEF StoreInvariant

\* The number of rows a List or a Count reports is a natural number.
LEMMA CountType ==
  ASSUME NEW h
  PROVE  Cardinality(LiveKeys(h)) \in Nat
  BY StoreAssumption, FS_Subset, FS_CardinalityType DEF LiveKeys

\* What a read shows are rows of the table or of the reader's transaction.
LEMMA SeenType ==
  ASSUME StoreInvariant, NEW p \in Procs, NEW kind \in {"Get", "Count", "List"},
         NEW rows \in SUBSET Keys, NEW count \in Nat
  PROVE  Seen(p, kind, rows, count) \in Replies
<1>1. current[p] \in 0..MaxRuns
  BY DEF StoreInvariant, TypeOK
<1>2. \A k \in rows : Row(raw(p), k).by \in 0..MaxRuns
  BY <1>1 DEF raw, Row, StoreInvariant, TypeOK
<1>3. [k \in rows |-> Row(raw(p), k).by] \in UNION {[K -> 0..MaxRuns] : K \in SUBSET Keys}
  BY <1>2
<1> QED
  BY <1>1, <1>3 DEF Seen, Replies

\* A read sets the reply of its caller and nothing else.
LEMMA AnswerType ==
  ASSUME StoreInvariant, NEW p \in Procs, Get(p) \/ Count(p) \/ ListFinds(p)
  PROVE  reply' \in [Procs -> Replies]
<1>1. ASSUME NEW a \in Replies, Answer(p, a)
      PROVE  reply' \in [Procs -> Replies]
  BY <1>1 DEF Answer, StoreInvariant, TypeOK
<1>2. CASE Get(p)
  <2>1. {call[p].key} \cap LiveKeys(raw(p)) \in SUBSET Keys
    BY DEF LiveKeys
  <2> QED
    BY <1>1, <1>2, <2>1, SeenType DEF Get
<1>3. CASE Count(p)
  BY <1>1, <1>3, SeenType, CountType DEF Count
<1>4. CASE ListFinds(p)
  <2>1. call[p].count \in Nat
    BY <1>4, StoreAssumption DEF ListFinds, StoreInvariant, TypeOK, Calls, Idle
  <2>2. LiveKeys(raw(p)) \in SUBSET Keys
    BY DEF LiveKeys
  <2> QED
    BY <1>1, <1>4, <2>1, <2>2, SeenType DEF ListFinds
<1> QED
  BY <1>2, <1>3, <1>4

\* The operations of a Store keep the invariant; those that write take the lock
\* of the row (store.go, Create to List).
LEMMA OperationStep ==
  ASSUME StoreInvariant, NEW p \in Procs, Operation(p) \/ StatementFails(p)
  PROVE  StoreInvariant'
<1>1. raw(p) \in 0..MaxRuns
  BY DEF raw, StoreInvariant, TypeOK
<1>2. /\ call \in [Procs -> Calls]
      /\ call[p] # Idle => call[p].key \in Keys
      /\ Done(p) => call' \in [Procs -> Calls]
      /\ Done(p) => UNCHANGED <<status, parent, current, started, calls>>
  BY DEF StoreInvariant, TypeOK, Calls, Done
<1>3. ASSUME Done(p), UNCHANGED <<table, writes>>, reply' \in [Procs -> Replies]
      PROVE  StoreInvariant'
  BY <1>2, <1>3, SilentStep DEF StoreInvariant, TypeOK
<1>4. ASSUME Done(p), call[p] # Idle, Usable(raw(p)),
             ~Locked(raw(p), call[p].key),
             NEW what \in {"row", "gone"}, Write(raw(p), call[p].key, what),
             UNCHANGED reply
      PROVE  StoreInvariant'
  <2>1. raw(p) # None => status[raw(p)] = "active"
    BY <1>4 DEF Usable
  <2>2. UNCHANGED <<status, parent, current, started, calls>>
    BY <1>2, <1>4
  <2>3. /\ table' \in [Keys -> [live: BOOLEAN, by: 0..MaxRuns]]
        /\ writes' \in [Runs -> [Keys -> {"untouched", "row", "gone"}]]
        /\ LocksHeld'
        /\ NoTraceOfFailure'
    BY <1>1, <1>2, <1>4, <2>1, <2>2, WriteStep
  <2>4. TypeOK' /\ Unstarted'
    BY <1>2, <1>4, <2>2, <2>3 DEF StoreInvariant, TypeOK, Unstarted
  <2> QED
    BY <2>3, <2>4 DEF StoreInvariant
<1>5. ASSUME NEW c \in Calls, call' = [call EXCEPT ![p] = c],
             UNCHANGED <<table, status, parent, writes, current, reply, started, calls>>
      PROVE  StoreInvariant'
  <2>1. call' \in [Procs -> Calls]
    BY <1>2, <1>5
  <2> QED
    BY <1>5, <2>1, SilentStep DEF StoreInvariant, TypeOK
<1>15. UNCHANGED reply => reply' \in [Procs -> Replies]
  BY DEF StoreInvariant, TypeOK
<1>6. CASE Create(p)
  BY <1>3, <1>4, <1>6, <1>15 DEF Create, Statement, Idle
<1>7. CASE UpdateFinds(p)
  BY <1>4, <1>7 DEF UpdateFinds, Statement, Idle
<1>8. CASE UpdateMisses(p)
  <2>1. [kind |-> "Upsert", key |-> call[p].key] \in Calls
    BY <1>2, <1>8 DEF UpdateMisses, Statement, Idle, Calls
  <2> QED
    BY <1>5, <1>8, <2>1 DEF UpdateMisses
<1>9. CASE Upsert(p)
  BY <1>4, <1>9 DEF Upsert, Statement, Idle
<1>10. CASE Updates(p)
  BY <1>3, <1>4, <1>10, <1>15 DEF Updates, Statement, Idle
<1>11. CASE Delete(p)
  BY <1>3, <1>4, <1>11, <1>15 DEF Delete, Statement, Idle
<1>12. CASE Get(p) \/ Count(p) \/ ListFinds(p)
  <2>1. \E a : Answer(p, a)
    BY <1>12 DEF Get, Count, ListFinds
  <2>2. reply' \in [Procs -> Replies]
    BY <1>12, AnswerType
  <2> QED
    BY <1>3, <2>1, <2>2 DEF Answer
<1>13. CASE ListCounts(p)
  <2>1. Cardinality(LiveKeys(raw(p))) \in Nat
    BY CountType
  <2>2. [kind |-> "ListFind", key |-> call[p].key,
         count |-> Cardinality(LiveKeys(raw(p)))] \in Calls
    BY <1>2, <1>13, <2>1 DEF ListCounts, Idle, Calls
  <2> QED
    BY <1>5, <1>13, <2>2 DEF ListCounts
<1>14. CASE StatementFails(p)
  BY <1>3, <1>14, <1>15 DEF StatementFails
<1> QED
  BY <1>6, <1>7, <1>8, <1>9, <1>10, <1>11, <1>12, <1>13, <1>14 DEF Operation

\* A run that has not begun has written nothing.
LEMMA BeginStep ==
  ASSUME StoreInvariant, NEW p \in Procs, Begin(p)
  PROVE  StoreInvariant'
<1> DEFINE r == current[p]
<1>1. r \in Runs /\ Open(r)
  BY DEF Begin, StoreInvariant, TypeOK, Runs, None, Open
<1>2. writes[r] = Untouched
  <2>1. \A k \in Keys : writes[r][k] = "untouched"
    BY <1>1 DEF Begin, StoreInvariant, LocksHeld, Touched
  <2> QED
    BY <1>1, <2>1 DEF StoreInvariant, TypeOK, Untouched
<1>3. writes' = [writes EXCEPT ![r] = Untouched]
  BY <1>1, <1>2 DEF Begin, StoreInvariant, TypeOK
<1> QED
  BY <1>1, <1>3, StatusStep DEF Begin

\* No step of a transaction that ends one, by whatever way, breaks it.
LEMMA TransactionStep ==
  ASSUME StoreInvariant, NEW p \in Procs,
         Transaction(p) \/ BeginFails(p) \/ CommitUnanswered(p)
  PROVE  StoreInvariant'
<1>1. CASE Begin(p)
  BY <1>1, BeginStep
<1>2. CASE BeginFails(p)
  BY <1>2, ReturnStep DEF BeginFails, Open
<1>3. CASE Commit(p)
  BY <1>3, ReturnStep DEF Commit, Finishing, Open
<1>4. CASE CommitUnanswered(p)
  BY <1>4, ReturnStep DEF CommitUnanswered, Finishing, Open
<1>5. CASE CommitFails(p)
  BY <1>5, ReturnStep DEF CommitFails, Finishing, Open
<1>6. CASE Abandon(p)
  BY <1>6, ReturnStep DEF Abandon, Finishing, Open
<1> QED
  BY <1>1, <1>2, <1>3, <1>4, <1>5, <1>6 DEF Transaction

\* Types, locks and the order of the runs keep what the database holds apart
\* from what open and failed runs did (store.go, Run).
THEOREM StoreCorrect == Spec => []StoreInvariant
<1>1. Init => StoreInvariant
  <2> SUFFICES ASSUME Init
               PROVE  StoreInvariant
    OBVIOUS
  <2>1. TypeOK
    BY StoreAssumption
    DEF Init, TypeOK, Statuses, Untouched, Calls, Replies, Runs, None, Idle
  <2>2. Unstarted /\ LocksHeld /\ NoTraceOfFailure
    BY DEF Init, Unstarted, LocksHeld, Touched, Untouched, NoTraceOfFailure, Settled
  <2> QED
    BY <2>1, <2>2 DEF StoreInvariant
<1>2. StoreInvariant /\ [Next]_vars => StoreInvariant'
  <2> SUFFICES ASSUME StoreInvariant, [Next]_vars
               PROVE  StoreInvariant'
    OBVIOUS
  <2>1. ASSUME NEW p \in Procs, Run(p)
        PROVE  StoreInvariant'
    BY <2>1, RunStep
  <2>2. ASSUME NEW p \in Procs,
               Transaction(p) \/ BeginFails(p) \/ CommitUnanswered(p)
        PROVE  StoreInvariant'
    BY <2>2, TransactionStep
  <2>3. ASSUME NEW p \in Procs, NEW kind \in Kinds, NEW k \in Keys, Call(p, kind, k)
        PROVE  StoreInvariant'
    <3>1. call' \in [Procs -> Calls]
      BY <2>3 DEF Call, StoreInvariant, TypeOK, Calls
    <3>2. calls' \in [Procs -> 0..MaxCalls]
      BY <2>3, StoreAssumption DEF Call, StoreInvariant, TypeOK
    <3>3. reply' \in [Procs -> Replies]
      BY <2>3 DEF Call, StoreInvariant, TypeOK, Replies
    <3> QED
      BY <2>3, <3>1, <3>2, <3>3, SilentStep DEF Call
  <2>4. ASSUME NEW p \in Procs, Operation(p) \/ StatementFails(p)
        PROVE  StoreInvariant'
    BY <2>4, OperationStep
  <2>5. ASSUME NEW r \in Runs, Break(r)
        PROVE  StoreInvariant'
    BY <2>5, StatusStep DEF Break, Open
  <2>6. CASE UNCHANGED vars
    BY <2>6, SilentStep DEF vars, StoreInvariant, TypeOK
  <2> QED
    BY <2>1, <2>2, <2>3, <2>4, <2>5, <2>6 DEF Next
<1> QED
  BY <1>1, <1>2, PTL DEF Spec

\* Nothing that an open, failed or broken run did is ever in the database
\* (store.go, Run).
THEOREM RollbackIsComplete == Spec => []NoTraceOfFailure
<1>1. StoreInvariant => NoTraceOfFailure
  BY DEF StoreInvariant
<1> QED
  BY <1>1, StoreCorrect, PTL

\* Only p's own Get or List gives p an answer with rows.
LEMMA ReadStep ==
  ASSUME StoreInvariant, [Next]_vars, NEW p \in Procs,
         reply'[p] # reply[p], reply'[p].kind \in {"Get", "List"}
  PROVE  Get(p) \/ ListFinds(p)
<1>1. reply \in [Procs -> Replies]
  BY DEF StoreInvariant, TypeOK
<1>2. ASSUME NEW q \in Procs, reply' = [reply EXCEPT ![q] = NoReply]
      PROVE  FALSE
  BY <1>1, <1>2 DEF NoReply
<1>3. PICK q \in Procs :
        \/ Get(q) \/ Count(q) \/ ListFinds(q)
        \/ reply' = [reply EXCEPT ![q] = NoReply]
        \/ reply' = reply
  <2>1. ASSUME NEW q \in Procs, Transaction(q) \/ BeginFails(q) \/ CommitUnanswered(q)
        PROVE  reply' = [reply EXCEPT ![q] = NoReply] \/ reply' = reply
    BY <2>1 DEF Transaction, Begin, Commit, CommitFails, Abandon, BeginFails,
                CommitUnanswered, Return
  <2>2. ASSUME NEW q \in Procs, Operation(q)
        PROVE  Get(q) \/ Count(q) \/ ListFinds(q) \/ reply' = reply
    BY <2>2 DEF Operation, Create, UpdateFinds, UpdateMisses, Upsert, Updates,
                Delete, ListCounts
  <2> QED
    BY <2>1, <2>2 DEF Next, vars, Run, Call, StatementFails, Break
<1>4. Get(q) \/ Count(q) \/ ListFinds(q)
  BY <1>2, <1>3
<1>5. p = q
  BY <1>1, <1>4 DEF Get, Count, ListFinds, Answer
<1>6. ~Count(p)
  BY <1>1 DEF Count, Answer, Seen
<1> QED
  BY <1>4, <1>5, <1>6

\* Get and List in a run answer from the run's own transaction (store.go, raw).
THEOREM RunReadsItself == Spec => ReadsOwnWrites
<1> DEFINE Own(p, a) ==
      \A k \in Keys :
        /\ /\ writes[current[p]][k] = "row"
           /\ a.kind = "List" \/ k = call[p].key
           => k \in DOMAIN a.rows /\ a.rows[k] = current[p]
        /\ writes[current[p]][k] = "gone" => k \notin DOMAIN a.rows
<1>1. ASSUME StoreInvariant, [Next]_vars, NEW p \in Procs,
             reply'[p] # reply[p], reply'[p].kind \in {"Get", "List"},
             current[p] # None
      PROVE  Own(p, reply'[p])
  <2>1. Get(p) \/ ListFinds(p)
    BY <1>1, ReadStep
  <2>2. reply \in [Procs -> Replies]
    BY <1>1 DEF StoreInvariant, TypeOK
  <2>3. \A k \in Keys :
          /\ writes[current[p]][k] = "row" =>
               k \in LiveKeys(raw(p)) /\ Row(raw(p), k).by = current[p]
          /\ writes[current[p]][k] = "gone" => k \notin LiveKeys(raw(p))
    BY <1>1 DEF raw, LiveKeys, Row, Touched
  <2>4. CASE Get(p)
    <3> DEFINE rows == {call[p].key} \cap LiveKeys(raw(p))
    <3>1. reply'[p] = Seen(p, "Get", rows, 1)
      BY <2>2, <2>4 DEF Get, Answer
    <3>2. reply'[p].kind = "Get" /\ reply'[p].rows = [k \in rows |-> Row(raw(p), k).by]
      BY <3>1 DEF Seen
    <3> QED
      BY <2>3, <3>2
  <2>5. CASE ListFinds(p)
    <3> DEFINE rows == LiveKeys(raw(p))
    <3>1. reply'[p] = Seen(p, "List", rows, call[p].count)
      BY <2>2, <2>5 DEF ListFinds, Answer
    <3>2. reply'[p].rows = [k \in rows |-> Row(raw(p), k).by]
      BY <3>1 DEF Seen
    <3> QED
      BY <2>3, <3>2
  <2> QED
    BY <2>1, <2>4, <2>5
<1>2. StoreInvariant /\ [Next]_vars =>
        [\A p \in Procs :
           reply'[p] # reply[p] /\ reply'[p].kind \in {"Get", "List"} /\ current[p] # None
             => Own(p, reply'[p])]_vars
  BY <1>1
<1> QED
  BY <1>2, StoreCorrect, PTL DEF Spec, ReadsOwnWrites

\* How the open runs hang together: a goroutine is in an open run, which no other
\* is in and which has no open run within it; the run around an open one is open
\* and has no second one within it.
Nesting ==
  /\ \A p \in Procs : current[p] # None => Open(current[p])
  /\ \A c \in Runs : Open(c) /\ parent[c] # None => Open(parent[c])
  /\ \A p \in Procs, c \in Runs : Open(c) /\ parent[c] # None => parent[c] # current[p]
  /\ \A p, q \in Procs : current[p] = current[q] /\ current[p] # None => p = q
  /\ \A c, d \in Runs :
       Open(c) /\ Open(d) /\ parent[c] = parent[d] /\ parent[c] # None => c = d

\* A step that neither opens nor ends a run keeps this.
LEMMA OpenStaysOpen ==
  ASSUME Nesting, NoneLeftBehind, UNCHANGED <<parent, current>>,
         \A r \in 0..MaxRuns : Open(r)' <=> Open(r),
         TypeOK
  PROVE  Nesting' /\ NoneLeftBehind'
<1>1. /\ \A r \in Runs : Open(r)' <=> Open(r)
      /\ \A p \in Procs : current[p] \in 0..MaxRuns
      /\ \A r \in Runs : parent[r] \in 0..MaxRuns
  <2>1. \A r \in Runs : r \in 0..MaxRuns
    BY DEF Runs
  <2> QED
    BY <2>1 DEF TypeOK
<1>2. Nesting'
  BY <1>1 DEF Nesting
<1>3. NoneLeftBehind'
  BY <1>1 DEF NoneLeftBehind
<1> QED
  BY <1>2, <1>3

\* A run starts within the one its goroutine was in.
LEMMA RunNests ==
  ASSUME StoreInvariant, Nesting, NoneLeftBehind, NEW p \in Procs, Run(p)
  PROVE  Nesting' /\ NoneLeftBehind'
<1>0. PICK r, o : r = started + 1 /\ o = current[p]
  OBVIOUS
<1>1. /\ r \in Runs /\ r # None /\ status[r] = "unused" /\ o \in 0..MaxRuns
      /\ parent \in [Runs -> 0..MaxRuns] /\ current \in [Procs -> 0..MaxRuns]
      /\ status \in [Runs -> Statuses]
  BY <1>0, StoreAssumption DEF Run, StoreInvariant, TypeOK, Unstarted, Runs, None
<1>2. /\ status' = [status EXCEPT ![r] = "beginning"]
      /\ parent' = [parent EXCEPT ![r] = o]
      /\ current' = [current EXCEPT ![p] = r]
  BY <1>0 DEF Run
<1>3. ~Open(r) /\ o # r /\ (o # None => Open(o) /\ o \in Runs)
  BY <1>0, <1>1 DEF Open, Nesting, Runs, None
<1>4. /\ Open(r)' /\ parent'[r] = o /\ current'[p] = r
      /\ \A c \in Runs : c # r => (Open(c)' <=> Open(c)) /\ parent'[c] = parent[c]
      /\ \A q \in Procs : q # p => current'[q] = current[q]
  BY <1>1, <1>2 DEF Open
<1>5. \A c \in Runs : Open(c) => parent[c] # r
  BY <1>1, <1>3 DEF Nesting
<1>6. /\ \A c \in Runs : Open(c) => c # r
      /\ \A q \in Procs : current[q] # r
      /\ \A c \in Runs : Open(c) /\ o # None => parent[c] # o
      /\ \A q \in Procs : q # p /\ o # None => current[q] # o
  BY <1>0, <1>1, <1>3 DEF Nesting
<1>7. \A c \in Runs : parent[c] = None \/ parent[c] \in Runs
  BY <1>1 DEF Runs, None
<1>8. \A q \in Procs : current[q] = None \/ current[q] \in Runs
  BY <1>1 DEF Runs, None
<1>9. Nesting'
  <2>1. \A q \in Procs : current'[q] # None => Open(current[q])'
    BY <1>1, <1>4, <1>6, <1>8 DEF Nesting
  <2>2. \A c \in Runs : Open(c)' /\ parent'[c] # None => Open(parent[c])'
    BY <1>1, <1>3, <1>4, <1>5, <1>7 DEF Nesting
  <2>3. \A q \in Procs, c \in Runs : Open(c)' /\ parent'[c] # None => parent'[c] # current'[q]
    BY <1>1, <1>3, <1>4, <1>5, <1>6 DEF Nesting
  <2>4. \A q1, q2 \in Procs : current'[q1] = current'[q2] /\ current'[q1] # None => q1 = q2
    BY <1>4, <1>6 DEF Nesting
  <2>5. \A c, d \in Runs :
          Open(c)' /\ Open(d)' /\ parent'[c] = parent'[d] /\ parent'[c] # None => c = d
    BY <1>4, <1>6 DEF Nesting
  <2> QED
    BY <2>1, <2>2, <2>3, <2>4, <2>5 DEF Nesting
<1>10. NoneLeftBehind'
  <2> SUFFICES ASSUME NEW x \in Runs, Open(x)'
               PROVE  \/ \E q \in Procs : current'[q] = x
                      \/ \E c \in Runs : parent'[c] = x /\ Open(c)'
    BY DEF NoneLeftBehind
  <2>1. CASE x = r
    BY <2>1, <1>4
  <2>2. CASE x = o
    BY <2>2, <1>1, <1>4
  <2>3. CASE x # r /\ x # o
    <3>1. Open(x)
      BY <2>3, <1>4
    <3>2. CASE \E q \in Procs : current[q] = x
      BY <2>3, <3>2, <1>0, <1>4
    <3>3. CASE \E c \in Runs : parent[c] = x /\ Open(c)
      BY <3>3, <1>4, <1>6
    <3> QED
      BY <3>1, <3>2, <3>3 DEF NoneLeftBehind
  <2> QED
    BY <2>1, <2>2, <2>3
<1> QED
  BY <1>9, <1>10

\* A Run that returns leaves its goroutine in the run around it.
LEMMA ReturnNests ==
  ASSUME StoreInvariant, Nesting, NoneLeftBehind, NEW p \in Procs,
         current[p] # None, NEW outcome \in {"nil", "error", "unknown"}, Return(p, outcome)
  PROVE  Nesting' /\ NoneLeftBehind'
<1>0. PICK r, o : r = current[p] /\ o = parent[r]
  OBVIOUS
<1>1. /\ r \in Runs /\ Open(r) /\ o \in 0..MaxRuns
      /\ parent \in [Runs -> 0..MaxRuns] /\ current \in [Procs -> 0..MaxRuns]
      /\ status \in [Runs -> Statuses]
  BY <1>0 DEF StoreInvariant, TypeOK, Nesting, Runs, None
<1>2. /\ status' = [status EXCEPT ![r] = outcome]
      /\ current' = [current EXCEPT ![p] = o]
      /\ parent' = parent
  BY <1>0 DEF Return, Outer
<1>3. o # None => Open(o) /\ o # r /\ (\A q \in Procs : current[q] # o)
  BY <1>0, <1>1 DEF Nesting
<1>4. /\ \A c \in Runs : Open(c) => parent[c] # r
      /\ \A q \in Procs : q # p => current[q] # r
      /\ \A c \in Runs : c # r /\ Open(c) /\ o # None => parent[c] # o
  <2>1. r # None
    BY <1>0
  <2> QED
    BY <1>0, <1>1, <2>1 DEF Nesting
<1>5. /\ ~Open(r)' /\ current'[p] = o
      /\ \A c \in Runs : c # r => (Open(c)' <=> Open(c))
      /\ \A q \in Procs : q # p => current'[q] = current[q]
  BY <1>1, <1>2 DEF Open
<1>6. \A x \in 0..MaxRuns : x = None \/ x \in Runs
  BY DEF Runs, None
<1>7. Nesting'
  <2>1. \A q \in Procs : current'[q] # None => Open(current[q])'
    <3> SUFFICES ASSUME NEW q \in Procs, current'[q] # None
                 PROVE  Open(current[q])'
      OBVIOUS
    <3>1. CASE q = p
      <4>1. o \in Runs /\ Open(o) /\ o # r
        BY <3>1, <1>1, <1>3, <1>5, <1>6
      <4> QED
        BY <3>1, <4>1, <1>5
    <3>2. CASE q # p
      <4>1. current'[q] = current[q] /\ current[q] # r /\ current[q] \in Runs /\ Open(current[q])
        BY <3>2, <1>1, <1>4, <1>5, <1>6 DEF Nesting
      <4> QED
        BY <4>1, <1>5
    <3> QED
      BY <3>1, <3>2
  <2>2. \A c \in Runs : Open(c)' /\ parent'[c] # None => Open(parent[c])'
    <3> SUFFICES ASSUME NEW c \in Runs, Open(c)', parent[c] # None
                 PROVE  Open(parent[c])'
      BY <1>2
    <3>1. Open(c) /\ Open(parent[c]) /\ parent[c] \in Runs /\ parent[c] # r
      BY <1>1, <1>4, <1>5, <1>6 DEF Nesting
    <3> QED
      BY <3>1, <1>2, <1>5
  <2>3. \A q \in Procs, c \in Runs : Open(c)' /\ parent'[c] # None => parent'[c] # current'[q]
    <3> SUFFICES ASSUME NEW q \in Procs, NEW c \in Runs, Open(c)', parent[c] # None
                 PROVE  parent[c] # current'[q]
      BY <1>2
    <3>1. c # r /\ Open(c)
      BY <1>5
    <3>2. CASE q = p
      BY <3>1, <3>2, <1>4, <1>5
    <3>3. CASE q # p
      BY <3>1, <3>3, <1>5 DEF Nesting
    <3> QED
      BY <3>2, <3>3
  <2>4. \A q1, q2 \in Procs : current'[q1] = current'[q2] /\ current'[q1] # None => q1 = q2
    BY <1>3, <1>5 DEF Nesting
  <2>5. \A c, d \in Runs :
          Open(c)' /\ Open(d)' /\ parent'[c] = parent'[d] /\ parent'[c] # None => c = d
    <3> SUFFICES ASSUME NEW c \in Runs, NEW d \in Runs, Open(c)', Open(d)',
                        parent[c] = parent[d], parent[c] # None
                 PROVE  c = d
      BY <1>2
    <3>1. Open(c) /\ Open(d)
      BY <1>5
    <3> QED
      BY <3>1 DEF Nesting
  <2> QED
    BY <2>1, <2>2, <2>3, <2>4, <2>5 DEF Nesting
<1>8. NoneLeftBehind'
  <2> SUFFICES ASSUME NEW x \in Runs, Open(x)'
               PROVE  \/ \E q \in Procs : current'[q] = x
                      \/ \E c \in Runs : parent'[c] = x /\ Open(c)'
    BY DEF NoneLeftBehind
  <2>1. x # r /\ Open(x)
    BY <1>5
  <2>2. CASE \E q \in Procs : current[q] = x
    BY <2>1, <2>2, <1>0, <1>5
  <2>3. CASE \E c \in Runs : parent[c] = x /\ Open(c)
    <3>1. PICK c \in Runs : parent[c] = x /\ Open(c)
      BY <2>3
    <3>2. CASE c = r
      BY <3>1, <3>2, <1>0, <1>5
    <3>3. CASE c # r
      BY <3>1, <3>3, <1>2, <1>5
    <3> QED
      BY <3>2, <3>3
  <2> QED
    BY <2>1, <2>2, <2>3 DEF NoneLeftBehind
<1> QED
  BY <1>7, <1>8

\* Every open transaction is that of a goroutine which is still within its Run
\* (store.go, Run).
THEOREM NoRunLeftBehind == Spec => []NoneLeftBehind
<1>1. Init => Nesting /\ NoneLeftBehind
  BY DEF Init, Nesting, NoneLeftBehind, Open
<1>2. StoreInvariant /\ Nesting /\ NoneLeftBehind /\ [Next]_vars
        => Nesting' /\ NoneLeftBehind'
  <2> SUFFICES ASSUME StoreInvariant, Nesting, NoneLeftBehind, [Next]_vars
               PROVE  Nesting' /\ NoneLeftBehind'
    OBVIOUS
  <2>1. TypeOK
    BY DEF StoreInvariant
  <2>2. ASSUME UNCHANGED <<status, parent, current>>
        PROVE  Nesting' /\ NoneLeftBehind'
    BY <2>1, <2>2, OpenStaysOpen DEF Open
  <2>3. ASSUME NEW r \in Runs, Open(r), NEW s \in {"active", "broken"},
               status' = [status EXCEPT ![r] = s], UNCHANGED <<parent, current>>
        PROVE  Nesting' /\ NoneLeftBehind'
    <3>1. \A x \in 0..MaxRuns : Open(x)' <=> Open(x)
      <4> SUFFICES ASSUME NEW x \in 0..MaxRuns
                   PROVE  Open(x)' <=> Open(x)
        OBVIOUS
      <4>1. CASE x = r
        BY <2>1, <2>3, <4>1 DEF TypeOK, Open
      <4>2. CASE x # r
        BY <2>1, <2>3, <4>2 DEF TypeOK, Open
      <4> QED
        BY <4>1, <4>2
    <3> QED
      BY <2>1, <2>3, <3>1, OpenStaysOpen
  <2>4. ASSUME NEW p \in Procs, Run(p)
        PROVE  Nesting' /\ NoneLeftBehind'
    BY <2>4, RunNests
  <2>5. ASSUME NEW p \in Procs, Begin(p)
        PROVE  Nesting' /\ NoneLeftBehind'
    <3>1. current[p] \in Runs /\ Open(current[p])
      BY <2>1, <2>5 DEF Begin, TypeOK, Runs, None, Open
    <3> QED
      BY <2>3, <2>5, <3>1 DEF Begin
  <2>6. ASSUME NEW p \in Procs,
               Commit(p) \/ CommitFails(p) \/ Abandon(p) \/ BeginFails(p) \/ CommitUnanswered(p)
        PROVE  Nesting' /\ NoneLeftBehind'
    <3>1. current[p] # None
      BY <2>6 DEF Commit, CommitFails, Abandon, BeginFails, CommitUnanswered, Finishing
    <3>2. \E outcome \in {"nil", "error", "unknown"} : Return(p, outcome)
      BY <2>6 DEF Commit, CommitFails, Abandon, BeginFails, CommitUnanswered
    <3> QED
      BY <3>1, <3>2, ReturnNests
  <2>7. ASSUME NEW p \in Procs, NEW kind \in Kinds, NEW k \in Keys, Call(p, kind, k)
        PROVE  Nesting' /\ NoneLeftBehind'
    BY <2>2, <2>7 DEF Call
  <2>8. ASSUME NEW p \in Procs, Operation(p) \/ StatementFails(p)
        PROVE  Nesting' /\ NoneLeftBehind'
    BY <2>2, <2>8
    DEF Operation, StatementFails, Create, UpdateFinds, UpdateMisses, Upsert, Updates, Delete,
        Get, Count, ListCounts, ListFinds, Answer, Done
  <2>9. ASSUME NEW r \in Runs, Break(r)
        PROVE  Nesting' /\ NoneLeftBehind'
    BY <2>3, <2>9 DEF Break, Open
  <2>10. CASE UNCHANGED vars
    BY <2>2, <2>10 DEF vars
  <2> QED
    BY <2>4, <2>5, <2>6, <2>7, <2>8, <2>9, <2>10 DEF Next, Transaction
<1> QED
  BY <1>1, <1>2, StoreCorrect, PTL DEF Spec

-----------------------------------------------------------------------------
(* Queries                                                                 *)

Conds == {Unset} \cup {<<"cond", o, n>> : o \in Nat, n \in Nat}
Filters == [Columns -> Values \cup {Absent} \cup (Tenants \X Contexts)]
Looked == [key : Columns, fn : Tenants, ctx : Contexts]
Option ==
  [filters : Nat, conds : [array : Nat, len : Nat], shown : BOOLEAN, offset : Int, limit : Int,
   looking : Looked \cup {Absent}, usable : BOOLEAN]
Wanted ==
  [filters : Filters, conds : Seq(Conds), shown : BOOLEAN, offset : Int, limit : Int]

QueryTypeOK ==
  /\ filterMaps \in Seq(Filters) /\ Len(filterMaps) >= 1
  /\ condArrays \in HeapOf(Conds)
  /\ options \in Seq(Option)
  /\ wanted \in Seq(Wanted) /\ Len(wanted) = Len(options)
  /\ tenant \in [key : Columns \cup {Absent}, fn : Tenants \cup {Absent}]

\* The options hold a map and a list that are there.
Holds(p, maps, heap) == p.filters \in 1..Len(maps) /\ p.conds \in Views(heap)

\* Nobody else has their map: then nobody else has their list.
Alone(o) ==
  /\ options[o].filters # 1
  /\ \A q \in 1..Len(options) : q # o => options[q].filters # options[o].filters

\* The window and what is shown are nobody else's in any case.
Window(p, w) ==
  /\ p.shown = w.shown
  /\ p.limit = w.limit /\ (p.limit > 0 \/ p.limit = Unlimited)
  /\ w.offset <= TopInt => (IF p.offset > 0 THEN p.offset ELSE 0) = w.offset

\* The filters are those asked for, but for the tenant's that is still looked up.
Right(p, w, map, list) ==
  /\ list = w.conds
  /\ p.usable =>
       IF p.looking = Absent THEN map = w.filters
       ELSE w.filters = [map EXCEPT ![p.looking.key] = <<p.looking.fn, p.looking.ctx>>]

QueryInvariant ==
  /\ QueryTypeOK
  /\ \A o \in 1..Len(options) :
       /\ Holds(options[o], filterMaps, condArrays)
       /\ Window(options[o], wanted[o])
       /\ Alone(o) => Right(options[o], wanted[o], filterMaps[options[o].filters],
                            Content(condArrays, options[o].conds))
  /\ \A o, q \in 1..Len(options) :
       options[o].conds.array = options[q].conds.array => options[o].filters = options[q].filters

LEMMA WrappedIs ==
  ASSUME NEW n \in Int, -(TopInt + 1) <= n, n <= TopInt
  PROVE  Wrapped(n) = n
<1> DEFINE a == n + TopInt + 1
           b == 2 * (TopInt + 1)
<1>1. TopInt \in Nat
  BY ConditionsAssumption
<1>2. a \in Int /\ b \in Int /\ b > 0 /\ 0 <= a /\ a < b /\ a - (TopInt + 1) = n
  BY <1>1
<1> HIDE DEF a, b
<1>3. a % b = a
  BY <1>2, Z3
<1> QED
  BY <1>2, <1>3 DEF Wrapped, a, b

LEMMA OptionFacts ==
  ASSUME QueryInvariant
  PROVE  /\ QueryTypeOK /\ Len(options) \in Nat /\ DOMAIN options = 1..Len(options)
         /\ Len(filterMaps) \in Nat /\ Len(condArrays) \in Nat
         /\ \A o \in 1..Len(options) :
              /\ options[o] \in Option /\ wanted[o] \in Wanted
              /\ filterMaps[options[o].filters] \in Filters
              /\ options[o].filters \in 1..Len(filterMaps)
              /\ options[o].conds \in Views(condArrays)
<1>1. QueryTypeOK /\ \A o \in 1..Len(options) : Holds(options[o], filterMaps, condArrays)
  BY DEF QueryInvariant
<1>2. Len(options) \in Nat /\ DOMAIN options = 1..Len(options) /\ Len(filterMaps) \in Nat
      /\ Len(condArrays) \in Nat
  BY <1>1, LenProperties DEF QueryTypeOK, HeapOf
<1>3. \A o \in 1..Len(options) : options[o] \in Option /\ wanted[o] \in Wanted
  BY <1>1, ElementOfSeq DEF QueryTypeOK
<1>4. \A m \in 1..Len(filterMaps) : filterMaps[m] \in Filters
  BY <1>1, ElementOfSeq DEF QueryTypeOK
<1> QED
  BY <1>1, <1>2, <1>3, <1>4 DEF Holds

\* Options that are alone keep their list, whoever writes to another.
LEMMA ListStays ==
  ASSUME QueryInvariant, condArrays' \in HeapOf(Conds), NEW at, NEW low \in Nat,
         Written(condArrays, condArrays', at, low),
         NEW o \in 1..Len(options), options[o].conds.array = at => options[o].conds.len <= low
  PROVE  Content(condArrays', options[o].conds) = Content(condArrays, options[o].conds)
<1>1. condArrays \in HeapOf(Conds)
  BY DEF QueryInvariant, QueryTypeOK
<1>2. options[o].conds \in Views(condArrays)
  BY OptionFacts
<1> QED
  BY <1>1, <1>2, ContentStays

\* A step of one Options value, which writes to its own map and its own list only.
LEMMA OneChanges ==
  ASSUME QueryInvariant, NEW o \in 1..Len(options), NEW p, NEW w,
         options' = [options EXCEPT ![o] = p], wanted' = [wanted EXCEPT ![o] = w],
         p \in Option, w \in Wanted, p.filters = options[o].filters,
         tenant' = tenant,
         filterMaps' \in Seq(Filters), Len(filterMaps') = Len(filterMaps),
         \A m \in 1..Len(filterMaps) : m # p.filters => filterMaps'[m] = filterMaps[m],
         condArrays' \in HeapOf(Conds),
         Written(condArrays, condArrays', options[o].conds.array, options[o].conds.len),
         p.conds \in Views(condArrays'),
         p.conds.array = options[o].conds.array \/ p.conds.array > Len(condArrays),
         Window(p, w),
         Alone(o) => Right(p, w, filterMaps'[p.filters], Content(condArrays', p.conds))
  PROVE  QueryInvariant'
<1>1. /\ QueryTypeOK /\ Len(options) \in Nat /\ Len(condArrays) \in Nat
      /\ options \in Seq(Option) /\ wanted \in Seq(Wanted) /\ Len(wanted) = Len(options)
      /\ condArrays \in HeapOf(Conds)
  BY OptionFacts DEF QueryTypeOK
<1>2. /\ options' \in Seq(Option) /\ Len(options') = Len(options)
      /\ \A i \in 1..Len(options) : options'[i] = IF i = o THEN p ELSE options[i]
  BY <1>1, ExceptSeq
<1>3. /\ wanted' \in Seq(Wanted) /\ Len(wanted') = Len(options)
      /\ \A i \in 1..Len(options) : wanted'[i] = IF i = o THEN w ELSE wanted[i]
  BY <1>1, ExceptSeq
<1>4. QueryTypeOK'
  BY <1>1, <1>2, <1>3 DEF QueryTypeOK
<1>5. \A i \in 1..Len(options) : options'[i].filters = options[i].filters
  BY <1>2
<1>6. \A i \in 1..Len(options) : Alone(i)' => Alone(i)
  BY <1>2, <1>5 DEF Alone
<1>7. Views(condArrays) \subseteq Views(condArrays')
  BY <1>1, ViewsStay
<1>8. ASSUME NEW i \in 1..Len(options)
      PROVE  /\ Holds(options'[i], filterMaps', condArrays')
             /\ Window(options'[i], wanted'[i])
             /\ Alone(i)' => Right(options'[i], wanted'[i], filterMaps'[options'[i].filters],
                                   Content(condArrays', options'[i].conds))
  <2>1. CASE i = o
    <3>1. Holds(p, filterMaps', condArrays')
      BY OptionFacts DEF Holds
    <3> QED
      BY <1>2, <1>3, <1>6, <2>1, <3>1
  <2>2. CASE i # o
    <3>1. options'[i] = options[i] /\ wanted'[i] = wanted[i]
      BY <1>2, <1>3, <2>2
    <3>2. Holds(options[i], filterMaps', condArrays')
      BY <1>7, OptionFacts DEF Holds
    <3>3. Window(options[i], wanted[i])
      BY DEF QueryInvariant
    <3>4. ASSUME Alone(i)
          PROVE  Right(options[i], wanted[i], filterMaps'[options[i].filters],
                       Content(condArrays', options[i].conds))
      <4>1. options[o].filters # options[i].filters
        BY <2>2, <3>4 DEF Alone
      <4>2. options[i].conds.array # options[o].conds.array
        BY <4>1 DEF QueryInvariant
      <4>3. Content(condArrays', options[i].conds) = Content(condArrays, options[i].conds)
        <5>1. options[o].conds.len \in Nat
          BY OptionFacts DEF Views
        <5> QED
          BY <4>2, <5>1, ListStays
      <4>4. filterMaps'[options[i].filters] = filterMaps[options[i].filters]
        BY <4>1, OptionFacts
      <4> QED
        BY <3>4, <4>3, <4>4 DEF QueryInvariant
    <3> QED
      BY <1>6, <3>1, <3>2, <3>3, <3>4
  <2> QED
    BY <2>1, <2>2
<1>9. ASSUME NEW i \in 1..Len(options), NEW q \in 1..Len(options),
             options'[i].conds.array = options'[q].conds.array
      PROVE  options'[i].filters = options'[q].filters
  <2>1. \A n \in 1..Len(options) : options[n].conds.array <= Len(condArrays)
                                   /\ options[n].conds.array \in Nat
    BY <1>1, OptionFacts DEF Views
  <2>2. p.conds.array \in Nat
    BY DEF Views
  <2>3. \A n \in 1..Len(options) :
          options'[n].conds.array = options[n].conds.array
          \/ (n = o /\ options'[n].conds.array > Len(condArrays))
    BY <1>2
  <2>4. i = q \/ options[i].conds.array = options[q].conds.array
    BY <1>1, <1>9, <2>1, <2>3
  <2>5. options[i].filters = options[q].filters
    BY <2>4 DEF QueryInvariant
  <2> QED
    BY <1>5, <2>5
<1>10. 1..Len(options') = 1..Len(options)
  BY <1>2
<1> QED
  BY <1>4, <1>8, <1>9, <1>10 DEF QueryInvariant

\* New Options, with a map and a list of their own, with the caller's map, or
\* with the map and the list of others.
LEMMA OneMore ==
  ASSUME QueryInvariant, NEW p, NEW w,
         options' = Append(options, p), wanted' = Append(wanted, w),
         p \in Option, w \in Wanted, tenant' = tenant,
         filterMaps' \in Seq(Filters), Len(filterMaps') >= Len(filterMaps),
         \A m \in 1..Len(filterMaps) : filterMaps'[m] = filterMaps[m],
         condArrays' \in HeapOf(Conds), Written(condArrays, condArrays', 0, 0),
         Holds(p, filterMaps', condArrays'), Window(p, w),
         \/ p.conds.array > Len(condArrays)
         \/ \E q \in 1..Len(options) :
              p.filters = options[q].filters /\ p.conds.array = options[q].conds.array,
         \/ p.filters = 1
         \/ \E q \in 1..Len(options) : p.filters = options[q].filters
         \/ Right(p, w, filterMaps'[p.filters], Content(condArrays', p.conds))
  PROVE  QueryInvariant'
<1> DEFINE o == Len(options) + 1
<1>1. /\ QueryTypeOK /\ Len(options) \in Nat /\ Len(condArrays) \in Nat
      /\ options \in Seq(Option) /\ wanted \in Seq(Wanted) /\ Len(wanted) = Len(options)
      /\ condArrays \in HeapOf(Conds) /\ Len(filterMaps) \in Nat /\ Len(filterMaps') \in Nat
      /\ Len(filterMaps) >= 1
  BY OptionFacts DEF QueryTypeOK
<1>2. /\ options' \in Seq(Option) /\ Len(options') = o /\ options'[o] = p
      /\ \A i \in 1..Len(options) : options'[i] = options[i]
  BY <1>1, AppendProperties
<1>3. /\ wanted' \in Seq(Wanted) /\ Len(wanted') = o /\ wanted'[o] = w
      /\ \A i \in 1..Len(options) : wanted'[i] = wanted[i]
  BY <1>1, AppendProperties
<1>4. QueryTypeOK'
  BY <1>1, <1>2, <1>3 DEF QueryTypeOK
<1>5. 1..Len(options') = 1..Len(options) \cup {o} /\ o \notin 1..Len(options)
  BY <1>1, <1>2
<1> HIDE DEF o
<1>6. \A i \in 1..Len(options) : Alone(i)' => Alone(i)
  BY <1>2, <1>5 DEF Alone
<1>7. Views(condArrays) \subseteq Views(condArrays')
  BY <1>1, ViewsStay
<1>8. ASSUME NEW i \in 1..Len(options)
      PROVE  /\ Holds(options'[i], filterMaps', condArrays')
             /\ Window(options'[i], wanted'[i])
             /\ Alone(i)' => Right(options'[i], wanted'[i], filterMaps'[options'[i].filters],
                                   Content(condArrays', options'[i].conds))
  <2>1. options'[i] = options[i] /\ wanted'[i] = wanted[i]
    BY <1>2, <1>3
  <2>2. Holds(options[i], filterMaps', condArrays')
    BY <1>1, <1>7, OptionFacts DEF Holds
  <2>3. Content(condArrays', options[i].conds) = Content(condArrays, options[i].conds)
    <3>1. options[i].conds.array # 0
      BY OptionFacts DEF Views
    <3> QED
      BY <3>1, ListStays
  <2>4. filterMaps'[options[i].filters] = filterMaps[options[i].filters]
    BY OptionFacts
  <2>5. /\ Window(options[i], wanted[i])
        /\ Alone(i) => Right(options[i], wanted[i], filterMaps[options[i].filters],
                             Content(condArrays, options[i].conds))
    BY DEF QueryInvariant
  <2> QED
    BY <1>6, <2>1, <2>2, <2>3, <2>4, <2>5
<1>9. ASSUME NEW i, i = o
      PROVE  /\ Holds(options'[i], filterMaps', condArrays')
             /\ Window(options'[i], wanted'[i])
             /\ Alone(i)' => Right(options'[i], wanted'[i], filterMaps'[options'[i].filters],
                                   Content(condArrays', options'[i].conds))
  <2>1. options'[i] = p /\ wanted'[i] = w
    BY <1>2, <1>3, <1>9
  <2>2. Alone(i)' => /\ p.filters # 1
                     /\ \A q \in 1..Len(options) : p.filters # options[q].filters
    BY <1>2, <1>5, <1>9, <2>1 DEF Alone
  <2> QED
    BY <2>1, <2>2
<1>10. ASSUME NEW i \in 1..Len(options'), NEW q \in 1..Len(options'),
              options'[i].conds.array = options'[q].conds.array
       PROVE  options'[i].filters = options'[q].filters
  <2>1. \A n \in 1..Len(options) : options[n].conds.array <= Len(condArrays)
                                   /\ options[n].conds.array \in Nat
    BY <1>1, OptionFacts DEF Views
  <2>2. p.conds.array \in Nat
    BY DEF Holds, Views
  <2>3. \A n, m \in 1..Len(options) :
          options[n].conds.array = options[m].conds.array => options[n].filters = options[m].filters
    BY DEF QueryInvariant
  <2>4. \A n \in 1..Len(options) :
          options[n].conds.array = p.conds.array => options[n].filters = p.filters
    <3>1. CASE p.conds.array > Len(condArrays)
      <4>1. \A n \in 1..Len(options) : options[n].conds.array # p.conds.array
        BY <1>1, <2>1, <2>2, <3>1
      <4> QED
        BY <4>1
    <3>2. CASE \E n \in 1..Len(options) :
                 p.filters = options[n].filters /\ p.conds.array = options[n].conds.array
      BY <2>3, <3>2
    <3> QED
      BY <3>1, <3>2
  <2> QED
    BY <1>2, <1>5, <1>10, <2>3, <2>4
<1> QED
  BY <1>4, <1>5, <1>8, <1>9, <1>10 DEF QueryInvariant

\* What the actions on one Options value say of its record.
LEMMA FieldsOf ==
  ASSUME NEW p \in Option
  PROVE  /\ p.filters \in Nat /\ p.conds \in Buffer /\ p.shown \in BOOLEAN /\ p.offset \in Int
         /\ p.limit \in Int /\ p.looking \in Looked \cup {Absent} /\ p.usable \in BOOLEAN
  BY DEF Option, Buffer

\* Where an action leaves the map and the list alone.
LEMMA NothingWritten ==
  ASSUME QueryInvariant, filterMaps' = filterMaps, condArrays' = condArrays,
         NEW o \in 1..Len(options)
  PROVE  /\ filterMaps' \in Seq(Filters) /\ Len(filterMaps') = Len(filterMaps)
         /\ \A m \in 1..Len(filterMaps) : filterMaps'[m] = filterMaps[m]
         /\ condArrays' \in HeapOf(Conds)
         /\ \A at, low : Written(condArrays, condArrays', at, low)
         /\ options[o].conds \in Views(condArrays')
         /\ Len(condArrays) \in Nat /\ Len(filterMaps) \in Nat
  BY OptionFacts DEF QueryTypeOK, Written

\* Where it writes to the map only.
LEMMA MapWritten ==
  ASSUME QueryInvariant, condArrays' = condArrays, NEW o \in 1..Len(options),
         NEW c \in Columns, NEW x \in Values \cup {Absent} \cup (Tenants \X Contexts),
         Put(o, c, x)
  PROVE  /\ filterMaps' \in Seq(Filters) /\ Len(filterMaps') = Len(filterMaps)
         /\ \A m \in 1..Len(filterMaps) : m # options[o].filters => filterMaps'[m] = filterMaps[m]
         /\ filterMaps'[options[o].filters] = [filterMaps[options[o].filters] EXCEPT ![c] = x]
         /\ condArrays' \in HeapOf(Conds)
         /\ \A at, low : Written(condArrays, condArrays', at, low)
         /\ options[o].conds \in Views(condArrays')
<1> DEFINE f == options[o].filters
           map == [filterMaps[f] EXCEPT ![c] = x]
<1>1. /\ filterMaps \in Seq(Filters) /\ f \in 1..Len(filterMaps) /\ filterMaps[f] \in Filters
      /\ Len(filterMaps) \in Nat /\ condArrays \in HeapOf(Conds) /\ Len(condArrays) \in Nat
      /\ options[o].conds \in Views(condArrays)
  BY OptionFacts DEF QueryTypeOK
<1>2. map \in Filters
  BY <1>1 DEF Filters
<1>3. filterMaps' = [filterMaps EXCEPT ![f] = map]
  BY DEF Put
<1> HIDE DEF map, f
<1>4. /\ filterMaps' \in Seq(Filters) /\ Len(filterMaps') = Len(filterMaps)
      /\ \A m \in 1..Len(filterMaps) : filterMaps'[m] = IF m = f THEN map ELSE filterMaps[m]
  BY <1>1, <1>2, <1>3, ExceptSeq
<1>5. \A at, low : Written(condArrays, condArrays', at, low)
  BY <1>1 DEF Written
<1> QED
  BY <1>1, <1>4, <1>5 DEF map, f

LEMMA FilterKeeps ==
  ASSUME QueryInvariant, NEW o \in 1..Len(options), NEW c \in Columns, NEW x \in Values,
         Filter(o, c, x)
  PROVE  QueryInvariant'
<1> DEFINE p == options[o]
           w == [wanted[o] EXCEPT !.filters[c] = x]
<1>1. /\ p \in Option /\ wanted[o] \in Wanted /\ options \in Seq(Option)
      /\ wanted \in Seq(Wanted) /\ Window(p, wanted[o])
      /\ Len(wanted) = Len(options)
      /\ Alone(o) => Right(p, wanted[o], filterMaps[p.filters], Content(condArrays, p.conds))
  BY OptionFacts DEF QueryInvariant, QueryTypeOK
<1>2. /\ Free(o) /\ Put(o, c, x) /\ condArrays' = condArrays /\ options' = options
      /\ tenant' = tenant
      /\ wanted' = [wanted EXCEPT ![o] = w]
  BY DEF Filter
<1>3. options' = [options EXCEPT ![o] = p]
  BY <1>1, <1>2
<1>4. /\ w \in Wanted /\ w.filters = [wanted[o].filters EXCEPT ![c] = x]
      /\ w.conds = wanted[o].conds /\ w.shown = wanted[o].shown
      /\ w.offset = wanted[o].offset /\ w.limit = wanted[o].limit
  BY <1>1 DEF Wanted, Filters
<1>5. /\ filterMaps' \in Seq(Filters) /\ Len(filterMaps') = Len(filterMaps)
      /\ \A m \in 1..Len(filterMaps) : m # p.filters => filterMaps'[m] = filterMaps[m]
      /\ filterMaps'[p.filters] = [filterMaps[p.filters] EXCEPT ![c] = x]
      /\ condArrays' \in HeapOf(Conds)
      /\ \A at, low : Written(condArrays, condArrays', at, low)
      /\ p.conds \in Views(condArrays')
  BY <1>2, MapWritten
<1> HIDE DEF p, w
<1>6. Window(p, w)
  BY <1>1, <1>4 DEF Window
<1>7. Alone(o) => Right(p, w, filterMaps'[p.filters], Content(condArrays', p.conds))
  BY <1>1, <1>2, <1>4, <1>5 DEF Right, Free, p
<1>8. p.filters = options[o].filters /\ p.conds.array = options[o].conds.array
  BY DEF p
<1>9. Written(condArrays, condArrays', options[o].conds.array, options[o].conds.len)
  BY <1>5
<1> QED
  BY <1>1, <1>2, <1>3, <1>4, <1>5, <1>6, <1>7, <1>8, <1>9, OneChanges

LEMMA OneFacts ==
  ASSUME QueryInvariant, NEW o \in 1..Len(options)
  PROVE  /\ options[o] \in Option /\ wanted[o] \in Wanted /\ options \in Seq(Option)
         /\ wanted \in Seq(Wanted) /\ Window(options[o], wanted[o])
         /\ Len(wanted) = Len(options)
         /\ Alone(o) => Right(options[o], wanted[o], filterMaps[options[o].filters],
                              Content(condArrays, options[o].conds))
         /\ filterMaps[options[o].filters] \in Filters
         /\ wanted[o].filters \in Filters /\ wanted[o].conds \in Seq(Conds)
         /\ tenant \in [key : Columns \cup {Absent}, fn : Tenants \cup {Absent}]
         /\ condArrays \in HeapOf(Conds) /\ options[o].conds \in Views(condArrays)
  BY OptionFacts DEF QueryInvariant, QueryTypeOK, Wanted

LEMMA FilterPanicsKeeps ==
  ASSUME QueryInvariant, NEW o \in 1..Len(options), NEW c \in Columns, NEW x \in Values,
         FilterPanics(o, c, x)
  PROVE  QueryInvariant'
<1> DEFINE old == options[o]
           p == [old EXCEPT !.usable = FALSE]
           w == wanted[o]
<1>1. /\ old \in Option /\ w \in Wanted /\ wanted \in Seq(Wanted) /\ Window(old, w)
      /\ Len(wanted) = Len(options)
      /\ Alone(o) => Right(old, w, filterMaps[old.filters], Content(condArrays, old.conds))
  BY OneFacts
<1>2. /\ Put(o, c, x) /\ condArrays' = condArrays /\ options' = [options EXCEPT ![o] = p]
      /\ tenant' = tenant /\ wanted' = wanted
  BY DEF FilterPanics
<1>3. wanted' = [wanted EXCEPT ![o] = w]
  BY <1>1, <1>2
<1>4. /\ p \in Option /\ p.filters = old.filters /\ p.conds = old.conds /\ p.shown = old.shown
      /\ p.offset = old.offset /\ p.limit = old.limit /\ p.usable = FALSE
  BY <1>1 DEF Option
<1>5. /\ filterMaps' \in Seq(Filters) /\ Len(filterMaps') = Len(filterMaps)
      /\ \A m \in 1..Len(filterMaps) : m # old.filters => filterMaps'[m] = filterMaps[m]
      /\ condArrays' \in HeapOf(Conds)
      /\ \A at, low : Written(condArrays, condArrays', at, low)
      /\ old.conds \in Views(condArrays')
  BY <1>2, MapWritten
<1> HIDE DEF p, w, old
<1>6. Window(p, w)
  BY <1>1, <1>4 DEF Window
<1>7. Alone(o) => Right(p, w, filterMaps'[p.filters], Content(condArrays', p.conds))
  BY <1>1, <1>2, <1>4 DEF Right
<1>8. /\ p.filters = options[o].filters /\ p.conds.array = options[o].conds.array
      /\ p.conds \in Views(condArrays')
      /\ \A m \in 1..Len(filterMaps) : m # p.filters => filterMaps'[m] = filterMaps[m]
  BY <1>4, <1>5 DEF old
<1>9. Written(condArrays, condArrays', options[o].conds.array, options[o].conds.len)
  BY <1>5
<1> QED
  BY <1>1, <1>2, <1>3, <1>4, <1>5, <1>6, <1>7, <1>8, <1>9, OneChanges

LEMMA CondsAreNumbered == \A i, n \in Nat : <<"cond", i, n>> \in Conds
BY DEF Conds

LEMMA AddCondKeeps ==
  ASSUME QueryInvariant, NEW o \in 1..Len(options), NEW slack \in 0..GrowSlack, AddCond(o, slack)
  PROVE  QueryInvariant'
<1> DEFINE old == options[o]
           e == Cond(o)
           new == Appended(condArrays, old.conds, <<e>>, slack)
           p == [old EXCEPT !.conds = new.slice]
           w == [wanted[o] EXCEPT !.conds = Append(@, e)]
<1>1. /\ old \in Option /\ wanted[o] \in Wanted /\ Window(old, wanted[o])
      /\ wanted[o].conds \in Seq(Conds)
      /\ Alone(o) => Right(old, wanted[o], filterMaps[old.filters], Content(condArrays, old.conds))
      /\ condArrays \in HeapOf(Conds) /\ old.conds \in Views(condArrays)
      /\ filterMaps \in Seq(Filters) /\ Len(condArrays) \in Nat
  BY OneFacts, OptionFacts DEF QueryTypeOK
<1>2. /\ Free(o) /\ condArrays' = new.heap /\ options' = [options EXCEPT ![o] = p]
      /\ wanted' = [wanted EXCEPT ![o] = w] /\ filterMaps' = filterMaps /\ tenant' = tenant
  BY DEF AddCond
<1>3. e \in Conds /\ <<e>> \in Seq(Conds) /\ Unset \in Conds /\ slack \in Nat
  <2>1. options[o].conds.len \in Nat /\ o \in Nat
    BY <1>1, OptionFacts DEF Views
  <2>2. Cond(o) \in Conds
    BY <2>1, CondsAreNumbered DEF Cond
  <2>3. e \in Conds
    BY <2>2
  <2> HIDE DEF e
  <2>4. Unset \in Conds /\ slack \in Nat
    BY ConditionsAssumption DEF Conds
  <2> QED
    BY <2>3, <2>4
<1> HIDE DEF e
<1>4. Appending(Conds, condArrays, old.conds, <<e>>, new)
  BY <1>1, <1>3, AppendedIs
<1> HIDE DEF new
<1>5. /\ new.heap \in HeapOf(Conds) /\ new.slice \in Views(new.heap)
      /\ Content(new.heap, new.slice) = Content(condArrays, old.conds) \o <<e>>
      /\ Written(condArrays, new.heap, old.conds.array, old.conds.len)
      /\ new.slice.array = old.conds.array \/ new.slice.array > Len(condArrays)
  <2>1. Len(condArrays) + 1 > Len(condArrays)
    BY <1>1
  <2> QED
    BY <1>4, <2>1 DEF Appending
<1>6. new.slice \in [array : Nat, len : Nat]
  BY <1>5 DEF Views
<1>7. /\ p \in Option /\ p.filters = old.filters /\ p.conds = new.slice /\ p.shown = old.shown
      /\ p.offset = old.offset /\ p.limit = old.limit /\ p.usable = old.usable
      /\ p.looking = old.looking
  BY <1>1, <1>6 DEF Option
<1> DEFINE list == Append(wanted[o].conds, e)
<1>8. list \in Seq(Conds) /\ wanted[o].conds \o <<e>> = list
  BY <1>1, <1>3, AppendIsConcat
<1>9. w = [wanted[o] EXCEPT !.conds = list]
  OBVIOUS
<1> HIDE DEF list, w
<1>10. /\ w \in Wanted /\ w.filters = wanted[o].filters /\ w.conds = list
       /\ w.shown = wanted[o].shown /\ w.offset = wanted[o].offset /\ w.limit = wanted[o].limit
  BY <1>1, <1>8, <1>9 DEF Wanted
<1> HIDE DEF p, old
<1>11. Window(p, w)
  BY <1>1, <1>7, <1>10 DEF Window
<1>12. Alone(o) => Right(p, w, filterMaps'[p.filters], Content(condArrays', p.conds))
  BY <1>1, <1>2, <1>5, <1>7, <1>8, <1>10 DEF Right
<1>13. /\ p.filters = options[o].filters
       /\ p.conds.array = options[o].conds.array \/ p.conds.array > Len(condArrays)
       /\ p.conds \in Views(condArrays')
       /\ \A m \in 1..Len(filterMaps) : m # p.filters => filterMaps'[m] = filterMaps[m]
       /\ Written(condArrays, condArrays', options[o].conds.array, options[o].conds.len)
       /\ filterMaps' \in Seq(Filters) /\ Len(filterMaps') = Len(filterMaps)
       /\ condArrays' \in HeapOf(Conds)
  BY <1>1, <1>2, <1>5, <1>7 DEF old
<1> QED
  BY <1>2, <1>7, <1>10, <1>11, <1>12, <1>13, OneChanges

\* A step that writes neither a map nor a list.
LEMMA PlainKeeps ==
  ASSUME QueryInvariant, NEW o \in 1..Len(options), NEW p, NEW w,
         options' = [options EXCEPT ![o] = p], wanted' = [wanted EXCEPT ![o] = w],
         filterMaps' = filterMaps, condArrays' = condArrays, tenant' = tenant,
         p \in Option, w \in Wanted, p.filters = options[o].filters, p.conds = options[o].conds,
         w.conds = wanted[o].conds,
         Window(p, w),
         Right(options[o], wanted[o], filterMaps[p.filters], Content(condArrays, p.conds)) =>
           Right(p, w, filterMaps[p.filters], Content(condArrays, p.conds))
  PROVE  QueryInvariant'
<1>1. /\ filterMaps' \in Seq(Filters) /\ Len(filterMaps') = Len(filterMaps)
      /\ \A m \in 1..Len(filterMaps) : m # p.filters => filterMaps'[m] = filterMaps[m]
      /\ condArrays' \in HeapOf(Conds)
      /\ Written(condArrays, condArrays', options[o].conds.array, options[o].conds.len)
      /\ p.conds \in Views(condArrays')
  BY NothingWritten
<1>2. Alone(o) => Right(p, w, filterMaps'[p.filters], Content(condArrays', p.conds))
  BY OneFacts
<1> QED
  BY <1>1, <1>2, OneChanges

LEMMA ShowKeeps ==
  ASSUME QueryInvariant, NEW o \in 1..Len(options), Show(o)
  PROVE  QueryInvariant'
<1> DEFINE old == options[o]
           p == [old EXCEPT !.shown = TRUE]
           w == [wanted[o] EXCEPT !.shown = TRUE]
<1>1. old \in Option /\ wanted[o] \in Wanted /\ Window(old, wanted[o])
  BY OneFacts
<1>2. /\ options' = [options EXCEPT ![o] = p] /\ wanted' = [wanted EXCEPT ![o] = w]
      /\ filterMaps' = filterMaps /\ condArrays' = condArrays /\ tenant' = tenant
  BY DEF Show
<1>3. /\ p \in Option /\ p.filters = old.filters /\ p.conds = old.conds /\ p.shown = TRUE
      /\ p.offset = old.offset /\ p.limit = old.limit /\ p.usable = old.usable
      /\ p.looking = old.looking
  BY <1>1 DEF Option
<1>4. /\ w \in Wanted /\ w.filters = wanted[o].filters /\ w.conds = wanted[o].conds
      /\ w.shown = TRUE /\ w.offset = wanted[o].offset /\ w.limit = wanted[o].limit
  BY <1>1 DEF Wanted
<1> HIDE DEF p, w
<1>5. Window(p, w)
  BY <1>1, <1>3, <1>4 DEF Window
<1>6. Right(old, wanted[o], filterMaps[p.filters], Content(condArrays, p.conds)) =>
        Right(p, w, filterMaps[p.filters], Content(condArrays, p.conds))
  BY <1>3, <1>4 DEF Right
<1> QED
  BY <1>2, <1>3, <1>4, <1>5, <1>6, PlainKeeps

\* O, L and Page set a window that is the one meant, when that one exists.
LEMMA SetWindowKeeps ==
  ASSUME QueryInvariant, NEW o \in 1..Len(options),
         NEW offset \in Int, NEW limit \in Int, NEW meant \in Int,
         limit > 0 \/ limit = Unlimited,
         meant <= TopInt => (IF offset > 0 THEN offset ELSE 0) = meant,
         SetWindow(o, offset, limit, meant, limit)
  PROVE  QueryInvariant'
<1> DEFINE old == options[o]
           p == [old EXCEPT !.offset = offset, !.limit = limit]
           w == [wanted[o] EXCEPT !.offset = meant, !.limit = limit]
<1>1. old \in Option /\ wanted[o] \in Wanted /\ Window(old, wanted[o])
  BY OneFacts
<1>2. /\ options' = [options EXCEPT ![o].offset = offset, ![o].limit = limit]
      /\ wanted' = [wanted EXCEPT ![o].offset = meant, ![o].limit = limit]
      /\ filterMaps' = filterMaps /\ condArrays' = condArrays /\ tenant' = tenant
  BY DEF SetWindow
<1>3. options' = [options EXCEPT ![o] = p] /\ wanted' = [wanted EXCEPT ![o] = w]
  <2>1. DOMAIN options = 1..Len(options) /\ DOMAIN wanted = 1..Len(options)
    BY OneFacts, LenProperties
  <2> QED
    BY <1>2, <2>1
<1>4. /\ p \in Option /\ p.filters = old.filters /\ p.conds = old.conds /\ p.shown = old.shown
      /\ p.offset = offset /\ p.limit = limit /\ p.usable = old.usable
      /\ p.looking = old.looking
  BY <1>1 DEF Option
<1>5. /\ w \in Wanted /\ w.filters = wanted[o].filters /\ w.conds = wanted[o].conds
      /\ w.shown = wanted[o].shown /\ w.offset = meant /\ w.limit = limit
  BY <1>1 DEF Wanted
<1> HIDE DEF p, w
<1>6. Window(p, w)
  BY <1>1, <1>4, <1>5 DEF Window
<1>7. Right(old, wanted[o], filterMaps[p.filters], Content(condArrays, p.conds)) =>
        Right(p, w, filterMaps[p.filters], Content(condArrays, p.conds))
  BY <1>4, <1>5 DEF Right
<1> QED
  BY <1>2, <1>3, <1>4, <1>5, <1>6, <1>7, PlainKeeps

LEMMA WindowsKeep ==
  ASSUME QueryInvariant, NEW o \in 1..Len(options), NEW n \in PageArgs, NEW m \in PageArgs
  PROVE  /\ SetOffset(o, n) => QueryInvariant'
         /\ SetLimit(o, n) => QueryInvariant'
         /\ Page(o, n, m) => QueryInvariant'
<1>1. /\ n \in Int /\ m \in Int /\ n <= TopInt /\ -(TopInt + 1) <= n /\ TopInt \in Nat
      /\ m <= TopInt /\ -(TopInt + 1) <= m
  BY ConditionsAssumption
<1>2. /\ options[o].offset \in Int /\ options[o].limit \in Int
      /\ wanted[o].offset \in Int /\ wanted[o].limit = options[o].limit
      /\ options[o].limit > 0 \/ options[o].limit = Unlimited
      /\ wanted[o].offset <= TopInt =>
           (IF options[o].offset > 0 THEN options[o].offset ELSE 0) = wanted[o].offset
  BY OneFacts DEF Window, Option, Wanted
<1>3. AtLeast(n, 0) \in Int /\ (IF AtLeast(n, 0) > 0 THEN AtLeast(n, 0) ELSE 0) = AtLeast(n, 0)
  BY <1>1 DEF AtLeast
<1>4. \A i \in Int : LimitOf(i) \in Int /\ (LimitOf(i) > 0 \/ LimitOf(i) = Unlimited)
  BY DEF LimitOf, Unlimited
<1>5. ASSUME SetOffset(o, n)
      PROVE  QueryInvariant'
  <2>1. SetWindow(o, AtLeast(n, 0), options[o].limit, AtLeast(n, 0), options[o].limit)
    BY <1>2, <1>5 DEF SetOffset
  <2> QED
    BY <1>2, <1>3, <2>1, SetWindowKeeps
<1>6. ASSUME SetLimit(o, n)
      PROVE  QueryInvariant'
  <2>1. SetWindow(o, options[o].offset, LimitOf(n), wanted[o].offset, LimitOf(n))
    BY <1>6 DEF SetLimit
  <2> QED
    BY <1>1, <1>2, <1>4, <2>1, SetWindowKeeps
<1>7. ASSUME Page(o, n, m)
      PROVE  QueryInvariant'
  <2> DEFINE before == AtLeast(n, 1) - 1
             meant == IF m <= 0 THEN 0 ELSE before * m
             offset == PageOffset(n, m)
  <2>1. before \in Nat /\ before <= TopInt
    BY <1>1 DEF AtLeast
  <2>2. SetWindow(o, offset, LimitOf(m), meant, LimitOf(m))
    BY <1>7 DEF Page
  <2>3. offset = Wrapped(before * LimitOf(m))
    BY DEF PageOffset
  <2> HIDE DEF before, offset
  <2>4. meant \in Int /\ meant >= 0
    BY <1>1, <2>1
  <2>5. offset \in Int
    <3>1. before * LimitOf(m) \in Int
      BY <1>1, <1>4, <2>1
    <3>2. TopInt + 1 \in Int /\ 2 * (TopInt + 1) \in Int /\ 2 * (TopInt + 1) > 0
      BY <1>1
    <3> QED
      BY <1>1, <2>3, <3>1, <3>2 DEF Wrapped
  <2>6. meant <= TopInt => (IF offset > 0 THEN offset ELSE 0) = meant
    <3>1. CASE m <= 0
      <4>1. before * LimitOf(m) = -before
        BY <2>1, <3>1 DEF LimitOf, Unlimited
      <4>2. Wrapped(-before) = -before
        BY <1>1, <2>1, WrappedIs
      <4> QED
        BY <2>1, <2>3, <3>1, <4>1, <4>2
    <3>2. CASE ~(m <= 0)
      <4>1. LimitOf(m) = m /\ meant = before * m
        BY <3>2 DEF LimitOf
      <4>2. SUFFICES ASSUME meant <= TopInt
                     PROVE  (IF offset > 0 THEN offset ELSE 0) = meant
        OBVIOUS
      <4> HIDE DEF meant
      <4>3. Wrapped(meant) = meant
        BY <1>1, <2>4, <4>2, WrappedIs
      <4>4. offset = meant
        BY <2>3, <4>1, <4>3
      <4> QED
        BY <2>4, <4>4
    <3> QED
      BY <3>1, <3>2
  <2> QED
    BY <1>1, <1>4, <2>2, <2>4, <2>5, <2>6, SetWindowKeeps
<1> QED
  BY <1>5, <1>6, <1>7

LEMMA TenantLoadKeeps ==
  ASSUME QueryInvariant, NEW o \in 1..Len(options), NEW ctx \in Contexts, TenantLoad(o, ctx)
  PROVE  QueryInvariant'
<1> DEFINE old == options[o]
           look == [key |-> tenant.key, fn |-> tenant.fn, ctx |-> ctx]
           v == <<tenant.fn, ctx>>
           p == [old EXCEPT !.looking = look]
           w == [wanted[o] EXCEPT !.filters[tenant.key] = v]
<1>1. /\ old \in Option /\ wanted[o] \in Wanted /\ Window(old, wanted[o])
      /\ wanted[o].filters \in Filters
      /\ tenant \in [key : Columns \cup {Absent}, fn : Tenants \cup {Absent}]
  BY OneFacts
<1>2. /\ Free(o) /\ tenant.key # Absent /\ tenant.fn # Absent
      /\ options' = [options EXCEPT ![o] = p] /\ wanted' = [wanted EXCEPT ![o] = w]
      /\ filterMaps' = filterMaps /\ condArrays' = condArrays /\ tenant' = tenant
  BY DEF TenantLoad
<1>3. tenant.key \in Columns /\ tenant.fn \in Tenants
  BY <1>1, <1>2
<1>4. /\ look \in Looked /\ look # Absent /\ look.key = tenant.key /\ <<look.fn, look.ctx>> = v
  BY <1>3, ConditionsAssumption DEF Looked
<1>5. v \in Values \cup {Absent} \cup (Tenants \X Contexts)
  BY <1>3
<1> DEFINE map == [wanted[o].filters EXCEPT ![tenant.key] = v]
<1>6. map \in Filters
  BY <1>1, <1>5 DEF Filters
<1>7. w = [wanted[o] EXCEPT !.filters = map]
  OBVIOUS
<1> HIDE DEF look, v, map, w
<1>8. /\ p \in Option /\ p.filters = old.filters /\ p.conds = old.conds /\ p.shown = old.shown
      /\ p.offset = old.offset /\ p.limit = old.limit /\ p.usable = old.usable
      /\ p.looking = look
  BY <1>1, <1>4 DEF Option
<1>9. /\ w \in Wanted /\ w.filters = map /\ w.conds = wanted[o].conds
      /\ w.shown = wanted[o].shown /\ w.offset = wanted[o].offset /\ w.limit = wanted[o].limit
  BY <1>1, <1>6, <1>7 DEF Wanted
<1> HIDE DEF p
<1>10. Window(p, w)
  BY <1>1, <1>8, <1>9 DEF Window
<1>11. Right(old, wanted[o], filterMaps[p.filters], Content(condArrays, p.conds)) =>
         Right(p, w, filterMaps[p.filters], Content(condArrays, p.conds))
  BY <1>2, <1>4, <1>8, <1>9 DEF Right, Free, map
<1> QED
  BY <1>2, <1>8, <1>9, <1>10, <1>11, PlainKeeps

LEMMA TenantApplyKeeps ==
  ASSUME QueryInvariant, NEW o \in 1..Len(options), TenantApply(o)
  PROVE  QueryInvariant'
<1> DEFINE old == options[o]
           p == [old EXCEPT !.looking = Absent]
           w == wanted[o]
           c == old.looking.key
           v == <<old.looking.fn, old.looking.ctx>>
<1>1. /\ old \in Option /\ w \in Wanted /\ wanted \in Seq(Wanted) /\ Window(old, w)
      /\ Len(wanted) = Len(options)
      /\ Alone(o) => Right(old, w, filterMaps[old.filters], Content(condArrays, old.conds))
  BY OneFacts
<1>2. /\ old.looking # Absent /\ Put(o, c, v) /\ condArrays' = condArrays
      /\ options' = [options EXCEPT ![o] = p] /\ tenant' = tenant /\ wanted' = wanted
  BY DEF TenantApply, TenantFilter
<1>3. wanted' = [wanted EXCEPT ![o] = w]
  BY <1>1, <1>2
<1>4. /\ p \in Option /\ p.filters = old.filters /\ p.conds = old.conds /\ p.shown = old.shown
      /\ p.offset = old.offset /\ p.limit = old.limit /\ p.usable = old.usable
      /\ p.looking = Absent
  BY <1>1 DEF Option
<1>5. c \in Columns /\ v \in Values \cup {Absent} \cup (Tenants \X Contexts)
  BY <1>1, <1>2 DEF Option, Looked
<1>6. /\ filterMaps' \in Seq(Filters) /\ Len(filterMaps') = Len(filterMaps)
      /\ \A m \in 1..Len(filterMaps) : m # old.filters => filterMaps'[m] = filterMaps[m]
      /\ filterMaps'[old.filters] = [filterMaps[old.filters] EXCEPT ![c] = v]
      /\ condArrays' \in HeapOf(Conds)
      /\ \A at, low : Written(condArrays, condArrays', at, low)
      /\ old.conds \in Views(condArrays')
  <2> HIDE DEF c, v
  <2> QED
    BY <1>2, <1>5, MapWritten
<1>7. Alone(o) => Right(p, w, filterMaps'[p.filters], Content(condArrays', p.conds))
  <2> HIDE DEF p, w, old
  <2> QED
    BY <1>1, <1>2, <1>4, <1>6 DEF Right
<1> HIDE DEF p, w, old
<1>8. Window(p, w)
  BY <1>1, <1>4 DEF Window
<1>9. /\ p.filters = options[o].filters /\ p.conds.array = options[o].conds.array
      /\ p.conds \in Views(condArrays')
      /\ \A m \in 1..Len(filterMaps) : m # p.filters => filterMaps'[m] = filterMaps[m]
      /\ Written(condArrays, condArrays', options[o].conds.array, options[o].conds.len)
  BY <1>4, <1>6 DEF old
<1> QED
  BY <1>1, <1>2, <1>3, <1>4, <1>6, <1>7, <1>8, <1>9, OneChanges

LEMMA BlankIs ==
  ASSUME NEW map \in Nat, NEW slice \in Buffer
  PROVE  /\ Blank(map, slice) \in Option
         /\ Blank(map, slice).filters = map /\ Blank(map, slice).conds = slice
         /\ Blank(map, slice).looking = Absent /\ Blank(map, slice).shown = FALSE
         /\ Blank(map, slice).offset = 0 /\ Blank(map, slice).limit = Unlimited
  BY DEF Blank, Option, Buffer, Unlimited

LEMMA AskedIs ==
  ASSUME NEW filters \in Filters
  PROVE  /\ AskedNothing(filters) \in Wanted
         /\ AskedNothing(filters).filters = filters /\ AskedNothing(filters).conds = <<>>
         /\ AskedNothing(filters).shown = FALSE
         /\ AskedNothing(filters).offset = 0 /\ AskedNothing(filters).limit = Unlimited
  BY DEF AskedNothing, Wanted, Unlimited

LEMMA FirstWindow ==
  ASSUME NEW p, NEW w, p.shown = FALSE, p.offset = 0, p.limit = Unlimited,
         w.shown = FALSE, w.offset = 0, w.limit = Unlimited
  PROVE  Window(p, w)
  BY DEF Window

LEMMA NewWhereKeeps ==
  ASSUME QueryInvariant, NEW map \in {0, 1}, NewWhere(map)
  PROVE  QueryInvariant'
<1> DEFINE empty == Made(condArrays, 0)
           mine == IF map = 0 THEN Len(filterMaps) + 1 ELSE map
           filters == IF map = 0 THEN NoFilter ELSE filterMaps[map]
           p == Blank(mine, empty.slice)
           w == AskedNothing(filters)
<1>1. /\ filterMaps' = IF map = 0 THEN Append(filterMaps, NoFilter) ELSE filterMaps
      /\ condArrays' = empty.heap /\ tenant' = tenant
      /\ options' = Append(options, p) /\ wanted' = Append(wanted, w)
  BY DEF NewWhere
<1>2. /\ filterMaps \in Seq(Filters) /\ Len(filterMaps) \in Nat /\ Len(filterMaps) >= 1
      /\ condArrays \in HeapOf(Conds) /\ Len(condArrays) \in Nat /\ filterMaps[1] \in Filters
  <2>1. filterMaps \in Seq(Filters) /\ Len(filterMaps) \in Nat /\ Len(filterMaps) >= 1
        /\ condArrays \in HeapOf(Conds) /\ Len(condArrays) \in Nat
    BY OptionFacts DEF QueryTypeOK
  <2> QED
    BY <2>1, ElementOfSeq
<1>3. NoFilter \in Filters /\ Unset \in Conds
  BY DEF NoFilter, Filters, Conds
<1>4. /\ filterMaps' \in Seq(Filters) /\ Len(filterMaps') >= Len(filterMaps)
      /\ \A m \in 1..Len(filterMaps) : filterMaps'[m] = filterMaps[m]
      /\ mine \in 1..Len(filterMaps') /\ mine \in Nat
      /\ filters \in Filters
      /\ mine = 1 \/ filterMaps'[mine] = filters
  <2>1. CASE map = 0
    <3>1. /\ filterMaps' \in Seq(Filters) /\ Len(filterMaps') = Len(filterMaps) + 1
          /\ \A m \in 1..Len(filterMaps) : filterMaps'[m] = filterMaps[m]
          /\ filterMaps'[Len(filterMaps) + 1] = NoFilter
      BY <1>1, <1>2, <1>3, <2>1, AppendProperties
    <3> QED
      BY <1>2, <1>3, <2>1, <3>1
  <2>2. CASE map = 1
    BY <1>1, <1>2, <2>2
  <2> QED
    BY <2>1, <2>2
<1> HIDE DEF filters, mine
<1>5. /\ empty.heap \in HeapOf(Conds) /\ empty.slice \in Views(empty.heap)
      /\ empty.slice = [array |-> Len(condArrays) + 1, len |-> 0]
      /\ \A at, low : Written(condArrays, empty.heap, at, low)
  BY <1>2, <1>3, MadeIs
<1> HIDE DEF empty
<1>6. empty.slice.array > Len(condArrays) /\ empty.slice.len = 0 /\ empty.slice \in Buffer
      /\ empty.slice # Nil
  BY <1>2, <1>5 DEF Buffer, Nil
<1>7. Content(empty.heap, empty.slice) = <<>>
  <2>1. Content(empty.heap, empty.slice) \in Seq(Conds) /\ Len(Content(empty.heap, empty.slice)) = 0
    BY <1>5, <1>6, ContentIs
  <2> QED
    BY <2>1, EmptySeq
<1>8. /\ p \in Option /\ p.filters = mine /\ p.conds = empty.slice /\ p.looking = Absent
      /\ p.shown = FALSE /\ p.offset = 0 /\ p.limit = Unlimited
      /\ w \in Wanted /\ w.filters = filters /\ w.conds = <<>>
      /\ w.shown = FALSE /\ w.offset = 0 /\ w.limit = Unlimited
  BY <1>4, <1>6, BlankIs, AskedIs
<1> HIDE DEF p, w
<1>9. Window(p, w)
  BY <1>8, FirstWindow
<1>10. Holds(p, filterMaps', condArrays')
  BY <1>1, <1>4, <1>5, <1>8 DEF Holds
<1>11. p.filters = 1 \/ Right(p, w, filterMaps'[p.filters], Content(condArrays', p.conds))
  BY <1>1, <1>4, <1>7, <1>8 DEF Right
<1> QED
  BY <1>1, <1>4, <1>5, <1>6, <1>8, <1>9, <1>10, <1>11, OneMore

LEMMA CountOptionsKeeps ==
  ASSUME QueryInvariant, NEW o \in 1..Len(options), CountOptions(o)
  PROVE  QueryInvariant'
<1> DEFINE old == options[o]
           blank == Blank(old.filters, old.conds)
           asks == AskedNothing(wanted[o].filters)
           zero == 0
           p == [blank EXCEPT !.offset = zero, !.limit = Unlimited]
           w == [asks EXCEPT !.conds = wanted[o].conds]
<1>1. /\ old.filters \in Nat /\ old.conds \in Buffer /\ old.conds \in Views(condArrays)
      /\ wanted[o].filters \in Filters /\ wanted[o].conds \in Seq(Conds)
      /\ old.filters \in 1..Len(filterMaps)
  BY OneFacts, OptionFacts, FieldsOf
<1>2. /\ options' = Append(options, p) /\ wanted' = Append(wanted, w)
      /\ filterMaps' = filterMaps /\ condArrays' = condArrays /\ tenant' = tenant
  BY DEF CountOptions
<1>3. /\ filterMaps' \in Seq(Filters) /\ Len(filterMaps') >= Len(filterMaps)
      /\ \A m \in 1..Len(filterMaps) : filterMaps'[m] = filterMaps[m]
      /\ condArrays' \in HeapOf(Conds) /\ Written(condArrays, condArrays', 0, 0)
  BY <1>2, NothingWritten
<1>4. /\ blank \in Option /\ blank.filters = old.filters /\ blank.conds = old.conds
      /\ blank.shown = FALSE /\ asks \in Wanted /\ asks.filters = wanted[o].filters
      /\ asks.shown = FALSE /\ asks.offset = 0 /\ asks.limit = Unlimited
  BY <1>1, BlankIs, AskedIs
<1> HIDE DEF blank, asks
<1>5. /\ p \in Option /\ p.filters = old.filters /\ p.conds = old.conds
      /\ w \in Wanted /\ Window(p, w)
  <2>1. /\ p \in Option /\ p.filters = old.filters /\ p.conds = old.conds
        /\ p.shown = FALSE /\ p.offset = 0 /\ p.limit = Unlimited
    <3>1. Unlimited \in Int
      BY DEF Unlimited
    <3>2. zero \in Int
      OBVIOUS
    <3> HIDE DEF zero
    <3>3. /\ p \in Option /\ p.filters = blank.filters /\ p.conds = blank.conds
          /\ p.shown = blank.shown /\ p.offset = zero /\ p.limit = Unlimited
      BY ONLY <1>4, <3>1, <3>2 DEF Option, p
    <3> QED
      BY <1>4, <3>3 DEF zero
  <2>2. /\ w \in Wanted /\ w.shown = FALSE /\ w.offset = 0 /\ w.limit = Unlimited
    BY <1>1, <1>4 DEF Wanted
  <2> HIDE DEF p, w
  <2> QED
    BY <2>1, <2>2, FirstWindow
<1> HIDE DEF p, w, old
<1>6. Holds(p, filterMaps', condArrays')
  BY <1>1, <1>2, <1>5 DEF Holds
<1>7. \E q \in 1..Len(options) :
        p.filters = options[q].filters /\ p.conds.array = options[q].conds.array
  BY <1>5 DEF old
<1> QED
  BY <1>2, <1>3, <1>5, <1>6, <1>7, OneMore

\* Where no Options value, map or list changes.
LEMMA OptionsUnchanged ==
  ASSUME QueryInvariant, options' = options, wanted' = wanted, filterMaps' = filterMaps,
         condArrays' = condArrays,
         tenant' \in [key : Columns \cup {Absent}, fn : Tenants \cup {Absent}]
  PROVE  QueryInvariant'
  BY DEF QueryInvariant, QueryTypeOK, Alone

LEMMA QueryHolds == QuerySpec => []QueryInvariant
<1>1. QueryInit => QueryInvariant
  <2> SUFFICES ASSUME QueryInit
               PROVE  QueryInvariant
    OBVIOUS
  <2>1. /\ filterMaps = <<CallerFilters>> /\ condArrays = <<>> /\ options = <<>> /\ wanted = <<>>
        /\ tenant \in [key : Columns \cup {Absent}, fn : Tenants \cup {Absent}]
    BY DEF QueryInit
  <2>2. CallerFilters \in Filters
    BY ConditionsAssumption DEF Filters
  <2>3. filterMaps \in Seq(Filters) /\ Len(filterMaps) = 1
    BY <2>1, <2>2
  <2>4. condArrays \in HeapOf(Conds) /\ options \in Seq(Option) /\ wanted \in Seq(Wanted)
        /\ Len(wanted) = Len(options) /\ 1..Len(options) = {}
    BY <2>1 DEF HeapOf
  <2> QED
    BY <2>1, <2>3, <2>4 DEF QueryInvariant, QueryTypeOK
<1>2. QueryInvariant /\ [QueryNext]_queryVars => QueryInvariant'
  <2> SUFFICES ASSUME QueryInvariant, [QueryNext]_queryVars
               PROVE  QueryInvariant'
    OBVIOUS
  <2>1. DOMAIN options = 1..Len(options)
        /\ tenant \in [key : Columns \cup {Absent}, fn : Tenants \cup {Absent}]
    BY OptionFacts DEF QueryTypeOK
  <2>2. ASSUME NEW key \in Columns \cup {Absent}, NEW fn \in Tenants \cup {Absent},
               RegisterTenant(key, fn)
        PROVE  QueryInvariant'
    BY <2>2, OptionsUnchanged DEF RegisterTenant
  <2>3. CASE UNCHANGED queryVars
    BY <2>1, <2>3, OptionsUnchanged DEF queryVars
  <2>4. ASSUME NEW o \in 1..Len(options), NEW page \in PageArgs, NEW size \in PageArgs,
               Page(o, page, size)
        PROVE  QueryInvariant'
    BY <2>4, WindowsKeep
  <2>5. ASSUME NEW o \in 1..Len(options), NEW n \in PageArgs,
               SetOffset(o, n) \/ SetLimit(o, n)
        PROVE  QueryInvariant'
    BY <2>5, WindowsKeep
  <2> QED
    BY <2>1, <2>2, <2>3, <2>4, <2>5, NewWhereKeeps, FilterKeeps, FilterPanicsKeeps, AddCondKeeps,
       ShowKeeps, CountOptionsKeeps, TenantLoadKeeps, TenantApplyKeeps
       DEF QueryNext
<1> QED
  BY <1>1, <1>2, PTL DEF QuerySpec

\* What Where pushes down (where.go:456-494) is what the Options were asked for:
\* no other query, registration of a tenant or panic gets in between, unless the
\* filters map is shared.
THEOREM QueriesIndependent == QuerySpec => []QueriesAreIndependent
<1>1. QueryInvariant => QueriesAreIndependent
  <2> SUFFICES ASSUME QueryInvariant, NEW o \in DOMAIN options, Free(o), InRange(o), ~Shares(o)
               PROVE  Pushed(o) = wanted[o]
    BY DEF QueriesAreIndependent
  <2> DEFINE p == options[o]
             w == wanted[o]
  <2>1. o \in 1..Len(options) /\ DOMAIN options = 1..Len(options)
    BY OptionFacts
  <2>2. Alone(o)
    BY <2>1 DEF Alone, Shares
  <2>3. /\ w \in Wanted /\ Window(p, w)
        /\ Right(p, w, filterMaps[p.filters], Content(condArrays, p.conds))
    BY <2>1, <2>2, OneFacts
  <2>4. /\ filterMaps[p.filters] = w.filters /\ Content(condArrays, p.conds) = w.conds
        /\ p.shown = w.shown
        /\ (IF p.offset > 0 THEN p.offset ELSE 0) = w.offset
        /\ (IF p.limit > 0 THEN p.limit ELSE Unlimited) = w.limit
    BY <2>3 DEF Right, Window, Free, InRange
  <2>5. Pushed(o) = [filters |-> w.filters, conds |-> w.conds, shown |-> w.shown,
                     offset |-> w.offset, limit |-> w.limit]
    BY <2>4 DEF Pushed
  <2>6. w = [filters |-> w.filters, conds |-> w.conds, shown |-> w.shown,
             offset |-> w.offset, limit |-> w.limit]
    BY <2>3 DEF Wanted
  <2> QED
    BY <2>5, <2>6
<1> QED
  BY <1>1, QueryHolds, PTL

-----------------------------------------------------------------------------
(* Migrations                                                              *)

Elements(s) == {s[i] : i \in 1..Len(s)}

\* Models whose Register returned without meeting another one.
Safe == {m \in Models : stage[m] = "done"} \ overlapped

RegistryTypeOK ==
  /\ made \in BOOLEAN
  /\ models \in Seq(Models)
  /\ read \in [Models -> Seq(Models)]
  /\ stage \in [Models -> {"out", "in", "read", "done"}]
  /\ overlapped \subseteq Models
  /\ due \subseteq Models
  /\ range \in Seq(Models)
  /\ next \in Nat

\* Two models that are being registered know of each other, and no slice that
\* is there or will be written lacks a safe model.
Kept ==
  /\ \A m, n \in Inside : m # n => m \in overlapped
  /\ (\E m \in Models : stage[m] # "out") => made
  /\ Safe \subseteq Elements(models)
  /\ \A m \in Models : stage[m] = "read" => Safe \subseteq Elements(read[m])

\* What Migrate's loop has behind it is in tables, and what is due is ahead of
\* it or behind it.
Loop ==
  /\ next > 0 => due \ overlapped \subseteq Elements(range)
  /\ \A i \in 1..Len(range) : i < next => range[i] \in tables

RegistryInvariant == RegistryTypeOK /\ Kept /\ Loop /\ NoModelSkipped

LEMMA ElementsOfAppend ==
  ASSUME NEW S, NEW s \in Seq(S), NEW x \in S
  PROVE  Elements(Append(s, x)) = Elements(s) \cup {x}
<1>1. Len(Append(s, x)) = Len(s) + 1 /\ Len(s) \in Nat
  OBVIOUS
<1>2. \A i \in 1..Len(s) : Append(s, x)[i] = s[i]
  OBVIOUS
<1>3. Append(s, x)[Len(s) + 1] = x
  OBVIOUS
<1>4. 1..(Len(s) + 1) = 1..Len(s) \cup {Len(s) + 1}
  BY <1>1
<1>5. ASSUME NEW y \in Elements(Append(s, x))
      PROVE  y \in Elements(s) \cup {x}
  BY <1>1, <1>2, <1>3, <1>4, <1>5 DEF Elements
<1>6. ASSUME NEW y \in Elements(s) \cup {x}
      PROVE  y \in Elements(Append(s, x))
  BY <1>1, <1>2, <1>3, <1>4, <1>6 DEF Elements
<1> QED
  BY <1>5, <1>6

\* A Register that meets another one marks both, so the safe models stay safe
\* or become fewer.
LEMMA RegisterKeeps ==
  ASSUME RegistryInvariant, NEW m \in Models, Register(m)
  PROVE  RegistryInvariant'
<1> USE DEF RegistryInvariant
<1>1. /\ stage[m] = "out" /\ stage' = [stage EXCEPT ![m] = "in"]
      /\ UNCHANGED <<models, read, due, range, next, tables, result>>
      /\ made' = TRUE
      /\ overlapped' = overlapped \cup (IF Inside # {} THEN Inside \cup {m} ELSE {})
  BY DEF Register, Migrating
<1>2. RegistryTypeOK'
  BY <1>1 DEF RegistryTypeOK, Inside
<1>3. Inside' = Inside \cup {m} /\ overlapped \subseteq overlapped'
  BY <1>1 DEF RegistryTypeOK, Inside
<1>4. Safe' \subseteq Safe
  BY <1>1, <1>3 DEF RegistryTypeOK, Safe
<1>5. Kept'
  <2>1. \A k, n \in Inside' : k # n => k \in overlapped'
    BY <1>1, <1>3 DEF Kept
  <2> QED
    BY <2>1, <1>1, <1>4 DEF Kept, RegistryTypeOK
<1>6. Loop' /\ NoModelSkipped'
  BY <1>1, <1>3 DEF Loop, NoModelSkipped
<1> QED
  BY <1>2, <1>5, <1>6

LEMMA AppendReadsKeeps ==
  ASSUME RegistryInvariant, NEW m \in Models, AppendReads(m)
  PROVE  RegistryInvariant'
<1> USE DEF RegistryInvariant
<1>1. /\ stage[m] = "in" /\ stage' = [stage EXCEPT ![m] = "read"]
      /\ read' = [read EXCEPT ![m] = models]
      /\ UNCHANGED <<made, models, overlapped, due, range, next, tables, result>>
  BY DEF AppendReads, Migrating
<1>2. RegistryTypeOK'
  BY <1>1 DEF RegistryTypeOK
<1>3. Safe' = Safe /\ Inside' = Inside
  BY <1>1 DEF RegistryTypeOK, Safe, Inside
<1>4. Kept'
  BY <1>1, <1>3 DEF RegistryTypeOK, Kept
<1>5. Loop' /\ NoModelSkipped'
  BY <1>1 DEF Loop, NoModelSkipped
<1> QED
  BY <1>2, <1>4, <1>5

\* The slice written back has the safe models and the new one; somebody who
\* holds an older slice has met the new one.
LEMMA AppendWritesKeeps ==
  ASSUME RegistryInvariant, NEW m \in Models, AppendWrites(m)
  PROVE  RegistryInvariant'
<1> USE DEF RegistryInvariant
<1>1. /\ stage[m] = "read" /\ stage' = [stage EXCEPT ![m] = "done"]
      /\ models' = Append(read[m], m)
      /\ read' = [read EXCEPT ![m] = <<>>]
      /\ UNCHANGED <<made, overlapped, due, range, next, tables, result>>
  BY DEF AppendWrites, Migrating
<1>2. RegistryTypeOK'
  BY <1>1 DEF RegistryTypeOK
<1>3. Safe' \subseteq Safe \cup {m} /\ Inside' = Inside \ {m}
  BY <1>1 DEF RegistryTypeOK, Safe, Inside
<1>4. Safe' \subseteq Elements(models)'
  <2>1. read[m] \in Seq(Models)
    BY DEF RegistryTypeOK
  <2>2. Elements(models)' = Elements(Append(read[m], m))
    BY <1>1 DEF Elements
  <2>3. Elements(Append(read[m], m)) = Elements(read[m]) \cup {m}
    BY ONLY <2>1, m \in Models, ElementsOfAppend
  <2>4. Safe \subseteq Elements(read[m])
    BY <1>1 DEF Kept
  <2> QED
    BY ONLY <2>2, <2>3, <2>4, <1>3
<1>5. ASSUME NEW n \in Models, stage'[n] = "read"
      PROVE  Safe' \subseteq Elements(read'[n])
  <2>1. n # m /\ stage[n] = "read" /\ read'[n] = read[n]
    BY <1>1, <1>5 DEF RegistryTypeOK
  <2>2. m \in overlapped
    BY <1>1, <2>1 DEF Kept, Inside
  <2> QED
    BY <1>1, <1>3, <2>1, <2>2 DEF Kept, Safe
<1>6. Kept'
  BY <1>1, <1>3, <1>4, <1>5 DEF Kept, RegistryTypeOK
<1>7. Loop' /\ NoModelSkipped'
  BY <1>1 DEF Loop, NoModelSkipped
<1> QED
  BY <1>2, <1>6, <1>7

\* The loop ranges over a slice with all that is due; without a registry
\* nothing is.
LEMMA MigrateKeeps ==
  ASSUME RegistryInvariant, Migrate
  PROVE  RegistryInvariant'
<1> USE DEF RegistryInvariant
<1>1. /\ due' = {m \in Models : stage[m] = "done"}
      /\ tables' = {} /\ range' = models
      /\ IF made THEN next' = 1 /\ result' = "running" ELSE next' = 0 /\ result' = "nil"
      /\ UNCHANGED <<made, models, read, stage, overlapped>>
  BY DEF Migrate
<1>2. RegistryTypeOK'
  BY <1>1 DEF RegistryTypeOK
<1>3. Kept'
  BY <1>1 DEF Kept, Safe, Inside
<1>4. Loop'
  <2>1. next' \in {0, 1} /\ range' = models /\ Elements(range)' = Elements(models)
    BY <1>1 DEF Elements
  <2>2. next' > 0 => due' \ overlapped' \subseteq Elements(models)
    BY <1>1 DEF Kept, Safe
  <2>3. \A i \in 1..Len(models) : ~(i < next')
    BY <2>1
  <2> QED
    BY <2>1, <2>2, <2>3 DEF Loop
<1>5. NoModelSkipped'
  BY <1>1 DEF RegistryTypeOK, Kept, NoModelSkipped
<1> QED
  BY <1>2, <1>3, <1>4, <1>5

LEMMA LoopKeeps ==
  ASSUME RegistryInvariant, MigrateModel \/ MigrateFails \/ MigrateReturns
  PROVE  RegistryInvariant'
<1> USE DEF RegistryInvariant
<1>1. UNCHANGED <<made, models, read, stage, overlapped, due, range>>
  BY DEF MigrateModel, MigrateFails, MigrateReturns
<1>2. RegistryTypeOK' /\ Kept'
  BY <1>1 DEF RegistryTypeOK, Kept, Safe, Inside, MigrateModel, MigrateFails, MigrateReturns
<1>3. CASE MigrateModel
  BY <1>1, <1>2, <1>3 DEF RegistryTypeOK, Loop, NoModelSkipped, MigrateModel
<1>4. CASE MigrateFails
  BY <1>1, <1>2, <1>4 DEF RegistryTypeOK, Loop, NoModelSkipped, MigrateFails
<1>5. CASE MigrateReturns
  <2>1. next > 0 /\ \A i \in 1..Len(range) : range[i] \in tables
    BY <1>5 DEF RegistryTypeOK, Loop, MigrateReturns
  <2>2. due \ overlapped \subseteq tables
    BY <2>1 DEF Loop, Elements
  <2> QED
    BY <1>1, <1>2, <1>5, <2>2 DEF RegistryTypeOK, Loop, NoModelSkipped, MigrateReturns
<1> QED
  BY <1>3, <1>4, <1>5

\* A Migrate that returns nil skips no model, unless its Register overlapped
\* with another one (registry.go, Register and Migrate).
THEOREM MigrateSkipsNoModel == RegistrySpecification => []NoModelSkipped
<1>1. RegistryInit => RegistryInvariant
  <2> SUFFICES ASSUME RegistryInit
               PROVE  RegistryInvariant
    OBVIOUS
  <2>1. RegistryTypeOK
    <3>1. <<>> \in Seq(Models)
      OBVIOUS
    <3> QED
      BY <3>1 DEF RegistryInit, RegistryTypeOK
  <2>2. \A m \in Models : stage[m] = "out"
    BY DEF RegistryInit
  <2>3. Kept
    BY <2>2 DEF RegistryInit, Kept, Safe, Inside
  <2>4. Loop
    BY DEF RegistryInit, Loop
  <2>5. NoModelSkipped
    BY DEF RegistryInit, NoModelSkipped
  <2> QED
    BY <2>1, <2>3, <2>4, <2>5 DEF RegistryInvariant
<1>2. RegistryInvariant /\ [RegistryNext]_registryVars => RegistryInvariant'
  <2> SUFFICES ASSUME RegistryInvariant, [RegistryNext]_registryVars
               PROVE  RegistryInvariant'
    OBVIOUS
  <2>1. CASE \E m \in Models : Register(m) \/ AppendReads(m) \/ AppendWrites(m)
    BY <2>1, RegisterKeeps, AppendReadsKeeps, AppendWritesKeeps
  <2>2. CASE Migrate
    BY <2>2, MigrateKeeps
  <2>3. CASE MigrateModel \/ MigrateFails \/ MigrateReturns
    BY <2>3, LoopKeeps
  <2>4. CASE UNCHANGED registryVars
    BY <2>4 DEF registryVars, RegistryInvariant, RegistryTypeOK, Kept, Loop,
                NoModelSkipped, Safe, Inside
  <2> QED
    BY <2>1, <2>2, <2>3, <2>4 DEF RegistryNext
<1>3. RegistryInvariant => NoModelSkipped
  BY DEF RegistryInvariant
<1> QED
  BY <1>1, <1>2, <1>3, PTL DEF RegistrySpecification

=============================================================================
