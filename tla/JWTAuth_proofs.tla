---------------------------- MODULE JWTAuth_proofs ----------------------------
(***************************************************************************)
(* For every set of goroutines, instances, users and tokens and for every  *)
(* token lifetime: a destroyed token stays on the blacklist until it       *)
(* expires, ParseClaims refuses it until then, and the blacklist drains.   *)
(***************************************************************************)
EXTENDS JWTAuth, TLAPS

\* The numeric date of an instant is that instant less a part of a second.
LEMMA NumericDateBound ==
  ASSUME NEW t \in Int
  PROVE  /\ NumericDate(t) \in Int
         /\ NumericDate(t) <= t
         /\ t < NumericDate(t) + Sec
  BY ConfigAssumption DEF NumericDate

\* Two tokens have one redis key only if they are the same token.
LEMMA KeyOfInjective ==
  ASSUME NEW s, NEW t, KeyOf(s) = KeyOf(t)
  PROVE  s = t
  BY DEF KeyOf, wrapperKey, hashToken

\* The claims of a new token are well typed and bounded by the clock.
LEMMA ClaimsType ==
  ASSUME NEW u \in Users, NEW n \in Int
  PROVE  /\ Claims(u, n) \in Token
         /\ Claims(u, n).class = "own"
         /\ Claims(u, n).exp <= n + Lifetime
  <1>1. n + Lifetime \in Int
    BY ConfigAssumption
  <1>2. /\ NumericDate(n) \in Int
        /\ NumericDate(n + Lifetime) \in Int
        /\ NumericDate(n + Lifetime) <= n + Lifetime
    BY <1>1, NumericDateBound
  <1> QED
    BY <1>2 DEF Claims, Token, Classes

-----------------------------------------------------------------------------
(* Type correctness *)

\* Growing the set of issued tokens keeps calls and replies well typed.
LEMMA TypesGrow ==
  ASSUME issued \subseteq issued'
  PROVE  /\ Presentable \subseteq Presentable'
         /\ Operation \subseteq Operation'
         /\ Reply \subseteq Reply'
  <1>1. Presentable \subseteq Presentable'
    BY DEF Presentable
  <1>2. Operation \subseteq Operation'
    BY DEF Operation, Idle
  <1>3. Reply \subseteq Reply'
    BY <1>1 DEF Reply, NoReply, Results
  <1> QED
    BY <1>1, <1>2, <1>3

\* parseToken names one of the errors of jwt.go, or none; only tokens that
\* carry the shared key and method get through.
LEMMA ParseTokenResult ==
  ASSUME NEW t \in Token, now \in Int
  PROVE  /\ parseToken(t) \in Results
         /\ parseToken(t) = "ok" => /\ t.class = "own"
                                    /\ t.iat <= now /\ now < t.exp
  BY DEF parseToken, Results, Token, Classes

\* Ending a call with a well-typed reply keeps calls and replies well typed.
LEMMA ReturnType ==
  ASSUME TypeOK, issued \subseteq issued', NEW p \in Procs, NEW r \in Reply',
         Return(p, r)
  PROVE  /\ op' \in [Procs -> Operation']
         /\ reply' \in [Procs -> Reply']
  BY TypesGrow DEF TypeOK, Return, Operation, Idle

\* A step that issues no token leaves the sets of calls and replies as they were.
LEMMA TypesStay ==
  ASSUME UNCHANGED issued
  PROVE  /\ Presentable' = Presentable
         /\ Operation' = Operation
         /\ Reply' = Reply
  BY DEF Presentable, Operation, Reply, NoReply, Idle

\* Every step of a Destroy keeps the types.
LEMMA DestroyType ==
  ASSUME TypeOK, NEW p \in Procs, Destroy(p)
  PROVE  TypeOK'
  <1> USE DEF TypeOK
  <1>1. UNCHANGED <<now, issued, closed, wipes>>
    BY DEF Destroy, DestroyRefused, DestroyWithoutStore, DestroyParsed,
           DestroyTooLate, DestroyClosed, DestroySend, RedisSet, DestroyAcked,
           DestroyFailed, LateSetGone
  <1>2. Operation' = Operation /\ Reply' = Reply /\ Presentable' = Presentable
    BY <1>1, TypesStay
  <1>3. \A t \in Presentable : t \in Token /\ (parseToken(t) = "ok" => t \in issued)
    BY ParseTokenResult, ConfigAssumption DEF Presentable
  <1>4. op[p] \in Operation
    OBVIOUS
  <1>5. ASSUME NEW a \in Instances, NEW t \in Presentable, DestroyRefused(p, a, t)
        PROVE  TypeOK'
    <2>1. Answer("Destroy", a, t, parseToken(t)) \in Reply
      BY <1>3, ParseTokenResult DEF Answer, Reply
    <2> QED
      BY <1>2, <1>5, <2>1, ReturnType DEF DestroyRefused, history
  <1>6. ASSUME NEW a \in Instances, NEW t \in Presentable,
               DestroyWithoutStore(p, a, t)
        PROVE  TypeOK'
    <2>1. Answer("Destroy", a, t, "ok") \in Reply /\ t \in issued
      BY <1>3, <1>6 DEF DestroyWithoutStore, Answer, Reply, Results
    <2> QED
      BY <1>2, <1>6, <2>1, ReturnType DEF DestroyWithoutStore
  <1>7. ASSUME NEW a \in Instances, NEW t \in Presentable, DestroyParsed(p, a, t)
        PROVE  TypeOK'
    <2>1. [pc |-> "destroying", inst |-> a, tok |-> t] \in Operation
      BY <1>3, <1>7 DEF DestroyParsed, Operation
    <2> QED
      BY <1>2, <1>7, <2>1 DEF DestroyParsed, Begin, history, Reply
  <1>8. CASE DestroyTooLate(p) \/ DestroyAcked(p)
    <2>1. op[p].inst \in Instances /\ op[p].tok \in issued
      BY <1>4, <1>8 DEF DestroyTooLate, DestroyAcked, Operation, Idle
    <2>2. Answer("Destroy", op[p].inst, op[p].tok, "ok") \in Reply
      BY <2>1 DEF Answer, Reply, Results, Presentable
    <2> QED
      BY <1>2, <1>8, <2>1, <2>2, ReturnType DEF DestroyTooLate, DestroyAcked
  <1>9. CASE DestroyClosed(p)
    <2>1. Answer("Destroy", op[p].inst, op[p].tok, "StoreError") \in Reply
      BY <1>4, <1>9
         DEF DestroyClosed, Operation, Idle, Answer, Reply, Results, Presentable
    <2> QED
      BY <1>2, <1>9, <2>1, ReturnType DEF DestroyClosed, history
  <1>10. CASE DestroySend(p)
    <2> DEFINE t == op[p].tok
    <2>1. op[p].inst \in Instances \ Storeless /\ t \in issued
      BY <1>4, <1>10 DEF DestroySend, Operation, Idle
    <2>2. \A d \in Expirations(t.exp - now) : d \in Int
      BY <2>1 DEF Expirations, Token
    <2> QED
      BY <1>2, <1>10, <2>1, <2>2 DEF DestroySend, Operation
  <1>11. CASE RedisSet(p)
    <2> DEFINE t == op[p].tok
    <2>1. /\ op[p] \in [pc: {"setting", "late"}, inst: Instances \ Storeless,
                        tok: issued, expired: Int, applied: BOOLEAN]
      BY <1>4, <1>11 DEF RedisSet, Operation, Idle
    <2>2. op' \in [Procs -> Operation]
      BY <1>11, <2>1 DEF RedisSet, Operation
    <2>3. [key |-> KeyOf(t), deadline |-> now + op[p].expired]
             \in [key: {KeyOf(x) : x \in issued}, deadline: Int]
      BY <2>1
    <2> QED
      BY <1>1, <1>2, <1>11, <2>2, <2>3 DEF RedisSet
  <1>12. CASE DestroyFailed(p)
    <2>1. op[p] \in [pc: {"setting", "late"}, inst: Instances \ Storeless,
                     tok: issued, expired: Int, applied: BOOLEAN]
      BY <1>4, <1>12 DEF DestroyFailed, Operation, Idle
    <2>2. Answer("Destroy", op[p].inst, op[p].tok, "StoreError") \in Reply
      BY <2>1 DEF Answer, Reply, Results, Presentable
    <2>3. op' \in [Procs -> Operation]
      BY <1>12, <2>1 DEF DestroyFailed, Operation
    <2> QED
      BY <1>2, <1>12, <2>2, <2>3 DEF DestroyFailed, history
  <1>13. CASE LateSetGone(p)
    BY <1>2, <1>13 DEF LateSetGone, history, Operation
  <1> QED
    BY <1>5, <1>6, <1>7, <1>8, <1>9, <1>10, <1>11, <1>12, <1>13 DEF Destroy

\* Every step of a ParseClaims keeps the types.
LEMMA ParseClaimsType ==
  ASSUME TypeOK, NEW p \in Procs, ParseClaims(p)
  PROVE  TypeOK'
  <1> USE DEF TypeOK
  <1>1. UNCHANGED <<now, issued, store, closed, wipes, history>>
    BY DEF ParseClaims, ParseRefused, ParseWithoutStore, Parsed, RedisExists,
           CheckFails, CheckFinds, CheckPasses
  <1>2. Operation' = Operation /\ Reply' = Reply /\ Presentable' = Presentable
    BY <1>1, TypesStay
  <1>3. \A t \in Presentable : t \in Token /\ (parseToken(t) = "ok" => t \in issued)
    BY ParseTokenResult, ConfigAssumption DEF Presentable
  <1>4. op[p] \in Operation
    OBVIOUS
  <1>5. SUFFICES op' \in [Procs -> Operation'] /\ reply' \in [Procs -> Reply']
    BY <1>1 DEF history
  <1>6. ASSUME NEW a \in Instances, NEW t \in Presentable,
               ParseRefused(p, a, t) \/ ParseWithoutStore(p, a, t)
        PROVE  op' \in [Procs -> Operation'] /\ reply' \in [Procs -> Reply']
    <2>1. \A r \in Results : Answer("ParseClaims", a, t, r) \in Reply
      BY DEF Answer, Reply
    <2>2. parseToken(t) \in Results /\ "ok" \in Results
      BY <1>3, ParseTokenResult DEF Results
    <2> QED
      BY <1>1, <1>2, <1>6, <2>1, <2>2, ReturnType DEF ParseRefused, ParseWithoutStore
  <1>7. ASSUME NEW a \in Instances, NEW t \in Presentable, Parsed(p, a, t)
        PROVE  op' \in [Procs -> Operation'] /\ reply' \in [Procs -> Reply']
    <2>1. [pc |-> "checking", inst |-> a, tok |-> t, knew |-> Destroyed(t)]
            \in Operation
      BY <1>3, <1>7 DEF Parsed, Operation, Destroyed
    <2> QED
      BY <1>2, <1>7, <2>1 DEF Parsed, Begin, Reply
  <1>8. CASE CheckFails(p) \/ CheckFinds(p) \/ CheckPasses(p)
    <2>1. op[p].inst \in Instances /\ op[p].tok \in issued
      BY <1>4, <1>8 DEF CheckFails, CheckFinds, CheckPasses, Operation, Idle
    <2>2. \A r \in Results :
            Answer("ParseClaims", op[p].inst, op[p].tok, r) \in Reply
      BY <2>1 DEF Answer, Reply, Presentable
    <2> QED
      BY <1>1, <1>2, <1>8, <2>2, ReturnType
         DEF CheckFails, CheckFinds, CheckPasses, Results
  <1>9. CASE RedisExists(p)
    <2>1. op[p].inst \in Instances \ Storeless /\ op[p].tok \in issued /\ op[p].knew \in BOOLEAN
      BY <1>4, <1>9 DEF RedisExists, Operation, Idle
    <2>2. Exists(op[p].tok) \in BOOLEAN /\ (op[p].tok \in erased) \in BOOLEAN
      BY DEF Exists
    <2>3. [pc |-> "answered", inst |-> op[p].inst, tok |-> op[p].tok, knew |-> op[p].knew,
           found |-> Exists(op[p].tok), taken |-> op[p].tok \in erased] \in Operation
      BY <2>1, <2>2 DEF Operation
    <2> QED
      BY <1>2, <1>9, <2>3 DEF RedisExists
  <1> QED
    BY <1>6, <1>7, <1>8, <1>9 DEF ParseClaims

\* Type correctness: calls, replies and the blacklist only ever hold tokens
\* that Sign issued or a caller presented.
THEOREM TypeCorrect == Spec => []TypeOK
<1>1. Init => TypeOK
  BY ConfigAssumption DEF Init, TypeOK, Operation, Reply, Idle, NoReply
<1>2. TypeOK /\ [Next]_vars => TypeOK'
  <2> SUFFICES ASSUME TypeOK, [Next]_vars PROVE TypeOK'
    OBVIOUS
  <2> USE DEF TypeOK
  <2>1. ASSUME NEW p \in Procs, NEW a \in Instances, NEW u \in Users, Sign(p, a, u)
        PROVE  TypeOK'
    <3> DEFINE t == Claims(u, now)
    <3>1. t \in {x \in Token : x.class = "own"} /\ issued \subseteq issued'
      BY <2>1, ClaimsType DEF Sign
    <3>2. Answer("Sign", a, t, "ok") \in Reply'
      BY <2>1 DEF Sign, Answer, Reply, Presentable, Results
    <3>3. /\ op' \in [Procs -> Operation']
          /\ reply' \in [Procs -> Reply']
      BY <2>1, <3>1, <3>2, ReturnType DEF Sign
    <3> QED
      BY <2>1, <3>1, <3>3 DEF Sign, history
  <2>9. ASSUME NEW p \in Procs, NEW a \in Instances, SignFailed(p, a)
        PROVE  TypeOK'
    <3>1. [call |-> "Sign", inst |-> a, res |-> "SignTokenFailed"] \in Reply'
      BY DEF Reply
    <3>2. /\ op' \in [Procs -> Operation']
          /\ reply' \in [Procs -> Reply']
      BY <2>9, <3>1, ReturnType DEF SignFailed
    <3> QED
      BY <2>9, <3>2 DEF SignFailed, history
  <2>2. ASSUME NEW p \in Procs, Destroy(p)
        PROVE  TypeOK'
    BY <2>2, DestroyType
  <2>3. ASSUME NEW p \in Procs, ParseClaims(p)
        PROVE  TypeOK'
    BY <2>3, ParseClaimsType
  <2>4. ASSUME NEW a \in Instances, Release(a)
        PROVE  TypeOK'
    BY <2>4 DEF Release, calls, history, Operation, Reply, Presentable
  <2>5. ASSUME NEW a \in Instances, NEW t \in issued, Delete(a, t)
        PROVE  TypeOK'
    BY <2>5 DEF Delete, calls, Operation, Reply, Presentable
  <2>6. CASE Tick
    BY <2>6, ConfigAssumption DEF Tick, calls, history, Operation, Reply, Presentable
  <2>7. CASE RedisRestart
    BY <2>7, ConfigAssumption DEF RedisRestart, calls, Operation, Reply, Presentable
  <2>8. CASE UNCHANGED vars
    BY <2>8 DEF vars, Operation, Reply, Presentable
  <2> QED
    BY <2>1, <2>2, <2>3, <2>4, <2>5, <2>6, <2>7, <2>8, <2>9 DEF Next
<1> QED
  BY <1>1, <1>2, PTL DEF Spec

-----------------------------------------------------------------------------
(* The blacklist covers the life of every destroyed token *)

\* A step of a call that leaves the clock, the tokens and the blacklist alone,
\* starts no command and acknowledges only what is visible.
Quiet ==
  /\ UNCHANGED <<now, issued, store, sent, erased>>
  /\ \A t \in issued : Destroyed(t)' /\ now < t.exp /\ t \notin erased
                          => Destroyed(t) \/ Exists(t)
  /\ \A q \in Procs :
       \/ op'[q] = op[q]
       \/ op'[q].pc \notin {"setting", "late"}
       \/ op'[q] = [op[q] EXCEPT !.pc = "late"] /\ op[q].pc = "setting"

\* Quiet steps keep the invariant.
LEMMA QuietStep ==
  ASSUME TypeOK, BlacklistInvariant, Quiet
  PROVE  BlacklistInvariant'
  <1> USE DEF Quiet
  <1> USE DEF TypeOK, BlacklistInvariant
  <1>1. \A t : Exists(t)' = Exists(t)
    BY DEF Exists, Live
  <1>2. LifetimeBound' /\ EntryCovers' /\ BlacklistDrains'
    BY DEF LifetimeBound, EntryCovers, BlacklistDrains
  <1>3. CommandCovers' /\ AppliedCovers'
    <2> SUFFICES ASSUME NEW q \in Procs, NEW x, x = op'[q].tok,
                        op'[q].pc \in {"setting", "late"}
                 PROVE  /\ x \in sent'
                        /\ x.exp - 1 <= now' + op'[q].expired
                        /\ op'[q].expired <= Lifetime
                        /\ op'[q].pc = "setting" /\ op'[q].applied
                             => (now' < x.exp /\ x \notin erased' => Exists(x)')
      BY DEF CommandCovers, AppliedCovers
    <2>1. op[q] \in Operation
      OBVIOUS
    <2>2. CASE op'[q] = op[q]
      BY <1>1, <2>2 DEF CommandCovers, AppliedCovers
    <2>3. CASE op'[q] = [op[q] EXCEPT !.pc = "late"] /\ op[q].pc = "setting"
      BY <2>1, <2>3 DEF CommandCovers, Operation, Idle
    <2> QED
      BY <2>2, <2>3
  <1>4. RevocationCoversLife'
    BY <1>1 DEF RevocationCoversLife, Token
  <1> QED
    BY <1>2, <1>3, <1>4

\* RedisSet puts down an entry that lasts as long as the token.
LEMMA SetStep ==
  ASSUME TypeOK, BlacklistInvariant, NEW p \in Procs, RedisSet(p)
  PROVE  BlacklistInvariant'
  <1> PICK t : t = op[p].tok
    OBVIOUS
  <1> DEFINE e == [key |-> KeyOf(t), deadline |-> now + op[p].expired]
  <1> USE DEF TypeOK, BlacklistInvariant
  <1>1. /\ op[p].pc \in {"setting", "late"}
        /\ op[p] \in [pc: {"setting", "late"}, inst: Instances \ Storeless,
                      tok: issued, expired: Int, applied: BOOLEAN]
    BY DEF RedisSet, Operation, Idle
  <1>2. /\ t \in issued /\ t \in sent /\ t \in Token
        /\ op[p].expired \in Int
        /\ t.exp - 1 <= now + op[p].expired
        /\ op[p].expired <= Lifetime
    BY <1>1 DEF CommandCovers
  <1>3. /\ UNCHANGED <<now, issued, sent, revoked>>
        /\ erased' = erased \ {t}
        /\ store' = {x \in store : x.key # KeyOf(t)} \cup {e}
        /\ op' = [op EXCEPT ![p].applied = TRUE]
    BY DEF RedisSet
  <1>4. now < t.exp => Exists(t)'
    <2> SUFFICES ASSUME now < t.exp PROVE Exists(t)'
      OBVIOUS
    <2>1. now <= now + op[p].expired
      BY <1>2 DEF Token
    <2>2. e \in store' /\ e.key = KeyOf(t) /\ now' <= e.deadline
      BY <1>3, <2>1
    <2> QED
      BY <2>2 DEF Exists, Live
  <1>5. ASSUME NEW x \in issued, x # t, Exists(x)
        PROVE  Exists(x)'
    <2>1. PICK y \in store : y.key = KeyOf(x) /\ now <= y.deadline
      BY <1>5 DEF Exists, Live
    <2>2. y.key # KeyOf(t)
      BY <1>5, <2>1, KeyOfInjective
    <2> QED
      BY <1>3, <2>1, <2>2 DEF Exists, Live
  <1>6. \A x \in issued : x \notin erased' /\ x # t => x \notin erased
    BY <1>3
  <1>7. LifetimeBound' /\ BlacklistDrains'
    BY <1>2, <1>3, ConfigAssumption DEF LifetimeBound, BlacklistDrains
  <1>8. EntryCovers'
    <2> SUFFICES ASSUME NEW y \in store', NEW x \in issued, y.key = KeyOf(x)
                 PROVE  x \in sent /\ x.exp - 1 <= y.deadline
      BY <1>3 DEF EntryCovers
    <2>1. CASE y = e
      BY <1>2, <2>1, KeyOfInjective
    <2>2. CASE y \in store
      BY <2>2 DEF EntryCovers
    <2> QED
      BY <1>3, <2>1, <2>2
  <1>9. CommandCovers'
    BY <1>1, <1>3 DEF CommandCovers
  <1>10. AppliedCovers'
    <2> SUFFICES ASSUME NEW q \in Procs, NEW x, x = op'[q].tok,
                        op'[q].pc = "setting", op'[q].applied,
                        now' < x.exp, x \notin erased'
                 PROVE  Exists(x)'
      BY DEF AppliedCovers
    <2>1. CASE x = t
      BY <1>3, <1>4, <2>1
    <2>2. CASE x # t
      <3>1. q # p /\ op'[q] = op[q]
        BY <1>3, <2>2, <1>1
      <3>2. op[q] \in Operation /\ op[q].pc = "setting" /\ x = op[q].tok
        BY <3>1
      <3>3. x \in issued
        BY <3>2 DEF Operation, Idle
      <3> QED
        BY <1>3, <1>5, <1>6, <2>2, <3>2, <3>3 DEF AppliedCovers
    <2> QED
      BY <2>1, <2>2
  <1>11. RevocationCoversLife'
    BY <1>3, <1>4, <1>5, <1>6 DEF RevocationCoversLife, Destroyed
  <1> QED
    BY <1>7, <1>8, <1>9, <1>10, <1>11

\* The command time.Until's answer is sent with covers the token.
LEMMA SendStep ==
  ASSUME TypeOK, BlacklistInvariant, NEW p \in Procs, DestroySend(p)
  PROVE  BlacklistInvariant'
  <1> PICK t : t = op[p].tok
    OBVIOUS
  <1> USE DEF TypeOK, BlacklistInvariant
  <1>1. t \in issued /\ t \in Token
    BY DEF DestroySend, Operation, Idle
  <1>2. PICK d \in Expirations(t.exp - now) :
          op' = [op EXCEPT ![p] = [pc |-> "setting", inst |-> op[p].inst,
                                   tok |-> t, expired |-> d, applied |-> FALSE]]
    BY DEF DestroySend
  <1>3. d \in Int /\ t.exp - 1 <= now + d /\ d <= Lifetime
    BY <1>1, ConfigAssumption DEF LifetimeBound, Expirations, Token
  <1>4. /\ UNCHANGED <<now, issued, store, revoked, erased>>
        /\ sent' = sent \cup {t}
    BY DEF DestroySend
  <1>5. \A x : Exists(x)' = Exists(x)
    BY <1>4 DEF Exists, Live
  <1>6. LifetimeBound' /\ EntryCovers' /\ BlacklistDrains'
    BY <1>4 DEF LifetimeBound, EntryCovers, BlacklistDrains
  <1>7. CommandCovers'
    BY <1>2, <1>3, <1>4 DEF CommandCovers
  <1>8. AppliedCovers'
    <2> SUFFICES ASSUME NEW q \in Procs, NEW x, x = op'[q].tok,
                        op'[q].pc = "setting", op'[q].applied,
                        now < x.exp, x \notin erased
                 PROVE  Exists(x)
      BY <1>4, <1>5 DEF AppliedCovers
    <2>1. q # p /\ op'[q] = op[q]
      BY <1>2
    <2> QED
      BY <2>1 DEF AppliedCovers
  <1>9. RevocationCoversLife'
    BY <1>4, <1>5 DEF RevocationCoversLife, Destroyed
  <1> QED
    BY <1>6, <1>7, <1>8, <1>9

\* Time runs out for an entry no sooner than for its token.
LEMMA TickStep ==
  ASSUME TypeOK, BlacklistInvariant, Tick
  PROVE  BlacklistInvariant'
  <1> USE DEF TypeOK, BlacklistInvariant
  <1>1. /\ now' = now + 1 /\ now \in Int
        /\ store' = {e \in store : now + 1 <= e.deadline}
        /\ UNCHANGED <<issued, op, sent, revoked, erased>>
    BY DEF Tick, calls, history
  <1>2. ASSUME NEW t \in issued, Exists(t), now' < t.exp
        PROVE  Exists(t)'
    <2>1. PICK e \in store : e.key = KeyOf(t) /\ now <= e.deadline
      BY <1>2 DEF Exists, Live
    <2>2. t.exp - 1 <= e.deadline /\ t.exp \in Int /\ e.deadline \in Int
      BY <2>1 DEF EntryCovers, Token
    <2>3. now + 1 <= e.deadline
      BY <1>1, <1>2, <2>2
    <2> QED
      BY <1>1, <2>1, <2>3 DEF Exists, Live
  <1>3. LifetimeBound' /\ BlacklistDrains'
    BY <1>1, ConfigAssumption DEF LifetimeBound, BlacklistDrains, Token
  <1>4. EntryCovers'
    BY <1>1 DEF EntryCovers
  <1>5. CommandCovers' /\ AppliedCovers'
    <2> SUFFICES ASSUME NEW q \in Procs, NEW x, x = op[q].tok,
                        op[q].pc \in {"setting", "late"}
                 PROVE  /\ x \in sent
                        /\ x.exp - 1 <= now' + op[q].expired
                        /\ op[q].expired <= Lifetime
                        /\ op[q].pc = "setting" /\ op[q].applied
                             => (now' < x.exp /\ x \notin erased => Exists(x)')
      BY <1>1 DEF CommandCovers, AppliedCovers
    <2>1. /\ op[q] \in [pc: {"setting", "late"}, inst: Instances \ Storeless,
                        tok: issued, expired: Int, applied: BOOLEAN]
          /\ x \in issued /\ x.exp \in Int
      BY DEF Operation, Idle, Token
    <2>2. /\ x \in sent /\ x.exp - 1 <= now + op[q].expired
          /\ op[q].expired <= Lifetime
      BY DEF CommandCovers
    <2>3. ASSUME op[q].pc = "setting", op[q].applied, now' < x.exp, x \notin erased
          PROVE  Exists(x)'
      BY <1>1, <1>2, <2>1, <2>3 DEF AppliedCovers
    <2> QED
      BY <1>1, <2>1, <2>2, <2>3
  <1>6. RevocationCoversLife'
    BY <1>1, <1>2 DEF RevocationCoversLife, Destroyed, Token
  <1> QED
    BY <1>3, <1>4, <1>5, <1>6

\* What a Delete or a restart of redis takes away is on record in erased.
LEMMA ErasureStep ==
  ASSUME TypeOK, BlacklistInvariant,
         UNCHANGED <<now, issued, op, sent, revoked>>,
         store' \subseteq store, erased \subseteq erased',
         \A e \in store \ store', t \in issued : e.key = KeyOf(t) => t \in erased'
  PROVE  BlacklistInvariant'
  <1> USE DEF TypeOK, BlacklistInvariant
  <1>1. \A t \in issued : Exists(t) /\ t \notin erased' => Exists(t)'
    BY DEF Exists, Live
  <1>2. LifetimeBound' /\ EntryCovers' /\ BlacklistDrains' /\ CommandCovers'
    BY DEF LifetimeBound, EntryCovers, BlacklistDrains, CommandCovers
  <1>3. AppliedCovers'
    <2> SUFFICES ASSUME NEW q \in Procs, NEW x, x = op[q].tok,
                        op[q].pc = "setting", op[q].applied,
                        now < x.exp, x \notin erased'
                 PROVE  Exists(x)'
      BY DEF AppliedCovers
    <2>1. x \in issued
      BY DEF Operation, Idle
    <2> QED
      BY <1>1, <2>1 DEF AppliedCovers
  <1>4. RevocationCoversLife'
    BY <1>1 DEF RevocationCoversLife, Destroyed
  <1> QED
    BY <1>2, <1>3, <1>4

\* A new token has no entry yet, and one that was issued before keeps its own.
LEMMA SignStep ==
  ASSUME TypeOK, BlacklistInvariant, NEW p \in Procs, NEW a \in Instances,
         NEW u \in Users, Sign(p, a, u)
  PROVE  BlacklistInvariant'
  <1> USE DEF TypeOK, BlacklistInvariant
  <1> PICK t : t = Claims(u, now)
    OBVIOUS
  <1>1. /\ issued' = issued \cup {t}
        /\ op' = op
        /\ UNCHANGED <<now, store, sent, revoked, erased>>
    BY DEF Sign, Return, history
  <1>2. t.exp <= now + Lifetime
    BY ClaimsType
  <1>3. \A x : Exists(x)' = Exists(x)
    BY <1>1 DEF Exists, Live
  <1>4. EntryCovers'
    <2> SUFFICES ASSUME NEW e \in store, NEW x \in issued', e.key = KeyOf(x)
                 PROVE  x \in sent /\ x.exp - 1 <= e.deadline
      BY <1>1 DEF EntryCovers
    <2>1. PICK y \in issued : e.key = KeyOf(y)
      OBVIOUS
    <2>2. x = y
      BY <2>1, KeyOfInjective
    <2> QED
      BY <2>1, <2>2 DEF EntryCovers
  <1>5. LifetimeBound' /\ BlacklistDrains' /\ CommandCovers'
    BY <1>1, <1>2 DEF LifetimeBound, BlacklistDrains, CommandCovers
  <1>6. AppliedCovers'
    BY <1>1, <1>3 DEF AppliedCovers
  <1>7. RevocationCoversLife'
    BY <1>1, <1>3 DEF RevocationCoversLife, Destroyed
  <1> QED
    BY <1>4, <1>5, <1>6, <1>7

\* The other steps of a Destroy start nothing; the one that reports success
\* reports a Set that redis has executed.
LEMMA DestroyStep ==
  ASSUME TypeOK, BlacklistInvariant, NEW p \in Procs, Destroy(p)
  PROVE  BlacklistInvariant'
  <1> USE DEF TypeOK
  <1>1. ASSUME NEW a \in Instances, NEW t \in Presentable,
               \/ DestroyRefused(p, a, t)
               \/ DestroyWithoutStore(p, a, t)
               \/ DestroyParsed(p, a, t)
        PROVE  BlacklistInvariant'
    <2>1. \A q \in Procs : op'[q] = op[q] \/ op'[q].pc \notin {"setting", "late"}
      BY <1>1 DEF DestroyRefused, DestroyWithoutStore, DestroyParsed, Return, Begin, Idle
    <2>2. \A x : Destroyed(x)' => Destroyed(x)
      BY <1>1 DEF DestroyRefused, DestroyWithoutStore, DestroyParsed, Destroyed, history
    <2>3. UNCHANGED <<now, issued, store, sent, erased>>
      BY <1>1 DEF DestroyRefused, DestroyWithoutStore, DestroyParsed, history
    <2>4. Quiet
      BY <2>1, <2>2, <2>3 DEF Quiet
    <2> QED
      BY <2>4, QuietStep
  <1>2. CASE DestroyTooLate(p) \/ DestroyAcked(p)
    <2>1. PICK t : t = op[p].tok
      OBVIOUS
    <2>2. /\ op' = [op EXCEPT ![p] = Idle]
          /\ UNCHANGED <<now, issued, store, sent, erased>>
          /\ revoked' = revoked \cup {<<op[p].inst, t>>}
      BY <1>2, <2>1 DEF DestroyTooLate, DestroyAcked, Return
    <2>3. t \in issued /\ t.exp \in Int
      BY <1>2, <2>1 DEF DestroyTooLate, DestroyAcked, Operation, Idle, Token
    <2>4. now < t.exp /\ t \notin erased => Exists(t)
      BY <1>2, <2>1, <2>3
         DEF DestroyTooLate, DestroyAcked, BlacklistInvariant, AppliedCovers
    <2>5. \A x : Destroyed(x)' => Destroyed(x) \/ x = t
      BY <2>2 DEF Destroyed
    <2>6. \A q \in Procs : op'[q] = op[q] \/ op'[q].pc \notin {"setting", "late"}
      BY <2>2 DEF Idle
    <2>7. Quiet
      BY <2>2, <2>4, <2>5, <2>6 DEF Quiet
    <2> QED
      BY <2>7, QuietStep
  <1>3. CASE DestroyClosed(p) \/ LateSetGone(p) \/ DestroyFailed(p)
    <2>1. /\ UNCHANGED <<now, issued, store, sent, revoked, erased>>
          /\ \/ op' = [op EXCEPT ![p] = Idle]
             \/ op' = [op EXCEPT ![p].pc = "late"] /\ op[p].pc = "setting"
      BY <1>3 DEF DestroyClosed, LateSetGone, DestroyFailed, Return, history
    <2>2. \A q \in Procs :
            \/ op'[q] = op[q]
            \/ op'[q].pc \notin {"setting", "late"}
            \/ op'[q] = [op[q] EXCEPT !.pc = "late"] /\ op[q].pc = "setting"
      BY <2>1 DEF Idle
    <2>3. Quiet
      BY <2>1, <2>2 DEF Quiet, Destroyed
    <2> QED
      BY <2>3, QuietStep
  <1>4. CASE DestroySend(p)
    BY <1>4, SendStep
  <1>5. CASE RedisSet(p)
    BY <1>5, SetStep
  <1> QED
    BY <1>1, <1>2, <1>3, <1>4, <1>5 DEF Destroy

\* ParseClaims only reads the blacklist.
LEMMA ParseClaimsStep ==
  ASSUME TypeOK, BlacklistInvariant, NEW p \in Procs, ParseClaims(p)
  PROVE  BlacklistInvariant'
  <1>1. UNCHANGED <<now, issued, store, sent, revoked, erased>>
    BY DEF ParseClaims, ParseRefused, ParseWithoutStore, Parsed, RedisExists,
           CheckFails, CheckFinds, CheckPasses, history
  <1>2. \A q \in Procs : op'[q] = op[q] \/ op'[q].pc \notin {"setting", "late"}
    BY DEF TypeOK, ParseClaims, ParseRefused, ParseWithoutStore, Parsed, RedisExists,
           CheckFails, CheckFinds, CheckPasses, Return, Begin, Idle
  <1>3. Quiet
    BY <1>1, <1>2 DEF Quiet, Destroyed
  <1> QED
    BY <1>3, QuietStep

\* Every reachable state satisfies the inductive invariant.
THEOREM BlacklistInvariance == Spec => []BlacklistInvariant
<1>1. Init => BlacklistInvariant
  BY DEF Init, BlacklistInvariant, LifetimeBound, CommandCovers, EntryCovers,
         AppliedCovers, RevocationCoversLife, BlacklistDrains, Idle
<1>2. TypeOK /\ BlacklistInvariant /\ [Next]_vars => BlacklistInvariant'
  <2> SUFFICES ASSUME TypeOK, BlacklistInvariant, [Next]_vars
               PROVE  BlacklistInvariant'
    OBVIOUS
  <2>1. ASSUME NEW p \in Procs, NEW a \in Instances, NEW u \in Users, Sign(p, a, u)
        PROVE  BlacklistInvariant'
    BY <2>1, SignStep
  <2>2. ASSUME NEW p \in Procs, Destroy(p)
        PROVE  BlacklistInvariant'
    BY <2>2, DestroyStep
  <2>3. ASSUME NEW p \in Procs, ParseClaims(p)
        PROVE  BlacklistInvariant'
    BY <2>3, ParseClaimsStep
  <2>4. CASE \/ \E a \in Instances : Release(a)
             \/ \E p \in Procs, a \in Instances : SignFailed(p, a)
             \/ UNCHANGED vars
    <3>1. Quiet
      BY <2>4 DEF Quiet, Release, SignFailed, Return, Idle, TypeOK, vars, calls, history,
                  Destroyed
    <3> QED
      BY <3>1, QuietStep
  <2>5. ASSUME NEW a \in Instances, NEW t \in issued, Delete(a, t)
        PROVE  BlacklistInvariant'
    <3>1. /\ UNCHANGED <<now, issued, op, sent, revoked>>
          /\ store' = {e \in store : e.key # KeyOf(t)}
          /\ erased' = erased \cup {t}
      BY <2>5 DEF Delete, calls
    <3>2. \A e \in store \ store', x \in issued : e.key = KeyOf(x) => x \in erased'
      BY <3>1, KeyOfInjective
    <3> QED
      BY <3>1, <3>2, ErasureStep
  <2>6. CASE Tick
    BY <2>6, TickStep
  <2>7. CASE RedisRestart
    <3>1. /\ UNCHANGED <<now, issued, op, sent, revoked>>
          /\ store' \subseteq store
          /\ erased \subseteq erased'
          /\ \A e \in store \ store', x \in issued :
               e.key = KeyOf(x) => x \in erased'
      BY <2>7 DEF RedisRestart, calls
    <3> QED
      BY <3>1, ErasureStep
  <2> QED
    BY <2>1, <2>2, <2>3, <2>4, <2>5, <2>6, <2>7 DEF Next
<1> QED
  BY <1>1, <1>2, TypeCorrect, PTL DEF Spec

\* A step of another goroutine, or of the world, leaves what redis answered a
\* call as it was: destructions, sent commands and time only grow.
LEMMA AnswersGrow ==
  ASSUME TypeOK, AnswersHold, now' \in Int, now <= now',
         sent \subseteq sent', revoked \subseteq revoked',
         \A q \in Procs :
           \/ op'[q] = op[q]
           \/ op'[q].pc \notin {"checking", "answered"}
           \/ /\ op'[q].pc = "checking"
              /\ op'[q].knew => Destroyed(op'[q].tok)
  PROVE  AnswersHold'
  <1>1. \A t : Destroyed(t) => Destroyed(t)'
    BY DEF Destroyed
  <1> SUFFICES ASSUME NEW q \in Procs, NEW t, t = op'[q].tok
               PROVE  /\ op'[q].pc \in {"checking", "answered"} /\ op'[q].knew
                            => Destroyed(t)'
                      /\ op'[q].pc = "answered" /\ op'[q].found => t \in sent'
                      /\ op'[q].pc = "answered" /\ op'[q].knew /\ ~op'[q].found
                            => op'[q].taken \/ now' >= t.exp
    BY DEF AnswersHold
  <1>2. CASE op'[q] = op[q]
    <2>1. op[q].pc = "answered" => t \in issued /\ t.exp \in Int /\ now \in Int
      BY <1>2 DEF TypeOK, Operation, Idle, Token
    <2> QED
      BY <1>1, <1>2, <2>1 DEF AnswersHold
  <1>3. CASE op'[q].pc \notin {"checking", "answered"}
    BY <1>3
  <1>4. CASE op'[q].pc = "checking" /\ (op'[q].knew => Destroyed(t))
    BY <1>1, <1>4
  <1> QED
    BY <1>2, <1>3, <1>4

\* Redis answers what RevocationCoversLife says.
LEMMA RedisExistsStep ==
  ASSUME TypeOK, BlacklistInvariant, AnswersHold, NEW p \in Procs, RedisExists(p)
  PROVE  AnswersHold'
  <1> PICK t : t = op[p].tok
    OBVIOUS
  <1>1. /\ op[p].pc \in {"checking", "answered"}
        /\ op' = [op EXCEPT ![p] =
                     [pc |-> "answered", inst |-> op[p].inst, tok |-> t, knew |-> op[p].knew,
                      found |-> Exists(t), taken |-> t \in erased]]
        /\ UNCHANGED <<now, sent, revoked>>
    BY DEF RedisExists, history
  <1>2. t \in issued /\ t.exp \in Int /\ now \in Int
    BY <1>1 DEF TypeOK, Operation, Idle, Token
  <1>3. op[p].knew => Destroyed(t)
    BY <1>1 DEF AnswersHold
  <1>4. Destroyed(t) /\ ~Exists(t) => t \in erased \/ now >= t.exp
    BY <1>2 DEF BlacklistInvariant, RevocationCoversLife
  <1>5. Exists(t) => t \in sent
    BY <1>2 DEF BlacklistInvariant, EntryCovers, Exists
  <1>6. \A x : Destroyed(x)' <=> Destroyed(x)
    BY <1>1 DEF Destroyed
  <1>7. op'[p] = [pc |-> "answered", inst |-> op[p].inst, tok |-> t, knew |-> op[p].knew,
                  found |-> Exists(t), taken |-> t \in erased]
    BY <1>1 DEF TypeOK
  <1>8. \A q \in Procs \ {p} : op'[q] = op[q]
    BY <1>1
  <1> SUFFICES ASSUME NEW q \in Procs
               PROVE  /\ op'[q].pc \in {"checking", "answered"} /\ op'[q].knew
                            => Destroyed(op'[q].tok)
                      /\ op'[q].pc = "answered" /\ op'[q].found => op'[q].tok \in sent
                      /\ op'[q].pc = "answered" /\ op'[q].knew /\ ~op'[q].found
                            => op'[q].taken \/ now >= op'[q].tok.exp
    BY <1>1, <1>6 DEF AnswersHold
  <1>9. CASE q = p
    <2>1. /\ op'[q].tok = t /\ op'[q].knew = op[p].knew
          /\ op'[q].found = Exists(t) /\ op'[q].taken = (t \in erased)
      BY <1>7, <1>9
    <2>2. /\ op'[q].knew => Destroyed(t)
          /\ op'[q].found => t \in sent
      BY <1>3, <1>5, <2>1
    <2>3. op'[q].knew /\ ~op'[q].found => op'[q].taken \/ now >= t.exp
      BY <1>3, <1>4, <2>1
    <2> QED
      BY <2>1, <2>2, <2>3
  <1>10. CASE q # p
    BY <1>8, <1>10 DEF AnswersHold
  <1> QED
    BY <1>9, <1>10

\* What redis answered a call stays true of it until the call returns.
THEOREM AnswersStand == Spec => []AnswersHold
<1>1. Init => AnswersHold
  <2> SUFFICES ASSUME Init, NEW p \in Procs
               PROVE  op[p].pc \notin {"checking", "answered"}
    BY DEF AnswersHold
  <2> QED
    BY DEF Init, Idle
<1>2. TypeOK /\ BlacklistInvariant /\ AnswersHold /\ [Next]_vars => AnswersHold'
  <2> SUFFICES ASSUME TypeOK, BlacklistInvariant, AnswersHold, [Next]_vars
               PROVE  AnswersHold'
    OBVIOUS
  <2>1. now \in Int /\ op \in [Procs -> Operation]
    BY DEF TypeOK
  <2>2. ASSUME NEW p \in Procs, NEW a \in Instances,
               (\E u \in Users : Sign(p, a, u)) \/ SignFailed(p, a)
        PROVE  AnswersHold'
    <3>1. op' = [op EXCEPT ![p] = Idle] /\ UNCHANGED <<now, sent, revoked>>
      BY <2>2 DEF Sign, SignFailed, Return, history
    <3> QED
      BY <2>1, <3>1, AnswersGrow DEF Idle
  <2>3. ASSUME NEW p \in Procs, Destroy(p)
        PROVE  AnswersHold'
    <3>1. UNCHANGED now /\ sent \subseteq sent' /\ revoked \subseteq revoked'
      BY <2>3
         DEF Destroy, DestroyRefused, DestroyWithoutStore, DestroyParsed,
             DestroyTooLate, DestroyClosed, DestroySend, RedisSet, DestroyAcked,
             DestroyFailed, LateSetGone, history
    <3>2. \/ \E o : op' = [op EXCEPT ![p] = o] /\ o.pc \notin {"checking", "answered"}
          \/ RedisSet(p) \/ DestroyFailed(p)
      BY <2>3
         DEF Destroy, DestroyRefused, DestroyWithoutStore, DestroyParsed,
             DestroyTooLate, DestroyClosed, DestroySend, DestroyAcked,
             LateSetGone, Return, Begin, Idle
    <3>3. CASE RedisSet(p) \/ DestroyFailed(p)
      <4>1. op[p] \in [pc: {"setting", "late"}, inst: Instances \ Storeless, tok: issued,
                       expired: Int, applied: BOOLEAN]
        BY <2>1, <3>3 DEF RedisSet, DestroyFailed, Operation, Idle
      <4>2. op'[p].pc \in {"setting", "late"} /\ \A q \in Procs \ {p} : op'[q] = op[q]
        BY <2>1, <3>3, <4>1 DEF RedisSet, DestroyFailed
      <4> QED
        BY <2>1, <3>1, <4>2, AnswersGrow
    <3> QED
      BY <2>1, <3>1, <3>2, <3>3, AnswersGrow
  <2>4. ASSUME NEW p \in Procs, ParseClaims(p), ~RedisExists(p)
        PROVE  AnswersHold'
    <3>1. UNCHANGED <<now, sent, revoked>>
      BY <2>4 DEF ParseClaims, ParseRefused, ParseWithoutStore, Parsed, CheckFails,
                  CheckFinds, CheckPasses, history
    <3>2. \E o : /\ op' = [op EXCEPT ![p] = o]
                 /\ \/ o.pc \notin {"checking", "answered"}
                    \/ o.pc = "checking" /\ o.knew = Destroyed(o.tok)
      BY <2>4 DEF ParseClaims, ParseRefused, ParseWithoutStore, Parsed, CheckFails,
                  CheckFinds, CheckPasses, Return, Begin, Idle
    <3> QED
      BY <2>1, <3>1, <3>2, AnswersGrow
  <2>5. ASSUME NEW p \in Procs, RedisExists(p)
        PROVE  AnswersHold'
    BY <2>5, RedisExistsStep
  <2>6. CASE \/ \E a \in Instances : Release(a)
             \/ \E a \in Instances, t \in issued : Delete(a, t)
             \/ Tick \/ RedisRestart \/ UNCHANGED vars
    <3>1. UNCHANGED <<op, sent, revoked>> /\ now' \in Int /\ now <= now'
      BY <2>1, <2>6 DEF Release, Delete, Tick, RedisRestart, vars, calls, history
    <3> QED
      BY <2>1, <3>1, AnswersGrow
  <2> QED
    BY <2>2, <2>3, <2>4, <2>5, <2>6 DEF Next
<1> QED
  BY <1>1, <1>2, TypeCorrect, BlacklistInvariance, PTL DEF Spec

\* The inductive invariant with the types.
THEOREM AuthCorrect == Spec => []AuthInvariant
<1>1. TypeOK /\ BlacklistInvariant /\ AnswersHold => AuthInvariant
  BY DEF AuthInvariant
<1> QED
  BY <1>1, TypeCorrect, BlacklistInvariance, AnswersStand, PTL

\* Until a destroyed token expires redis answers for its key.
THEOREM RevocationCorrect == Spec => []RevocationCoversLife
<1>1. BlacklistInvariant => RevocationCoversLife
  BY DEF BlacklistInvariant
<1> QED
  BY <1>1, BlacklistInvariance, PTL

\* The blacklist holds no entry for longer than a token can live.
THEOREM BlacklistBounded == Spec => []BlacklistDrains
<1>1. BlacklistInvariant => BlacklistDrains
  BY DEF BlacklistInvariant
<1> QED
  BY <1>1, BlacklistInvariance, PTL

-----------------------------------------------------------------------------
(* What callers of ParseClaims observe *)

\* A call that waits for the store has returned nothing yet.
PendingSilent ==
  \A p \in Procs :
    op[p].pc \in {"checking", "answered", "destroying", "setting"} => reply[p] = NoReply

\* A step changes the call and the reply of no more than one goroutine, and a
\* call in progress has no reply.
LEMMA PendingSilentStep ==
  ASSUME TypeOK, PendingSilent, [Next]_vars
  PROVE  PendingSilent'
  <1> USE DEF TypeOK, PendingSilent
  <1>1. ASSUME NEW p \in Procs, NEW a \in Instances, NEW u \in Users, Sign(p, a, u)
        PROVE  PendingSilent'
    BY <1>1 DEF Sign, Return, Idle
  <1>5. ASSUME NEW p \in Procs, NEW a \in Instances, SignFailed(p, a)
        PROVE  PendingSilent'
    BY <1>5 DEF SignFailed, Return, Idle
  <1>2. ASSUME NEW p \in Procs, Destroy(p)
        PROVE  PendingSilent'
    <2>1. \/ op' = [op EXCEPT ![p] = Idle]
             /\ \A q \in Procs \ {p} : reply'[q] = reply[q]
          \/ /\ \E o : op' = [op EXCEPT ![p] = o]
             /\ reply' = [reply EXCEPT ![p] = NoReply]
          \/ /\ op[p].pc = "destroying"
             /\ \E o : op' = [op EXCEPT ![p] = o]
             /\ reply' = reply
          \/ /\ op' = [op EXCEPT ![p].applied = TRUE]
             /\ op[p] \in [pc: {"setting", "late"}, inst: Instances \ Storeless,
                           tok: issued, expired: Int, applied: BOOLEAN]
             /\ reply' = reply
          \/ /\ op' = [op EXCEPT ![p].pc = "late"]
             /\ op[p] \in [pc: {"setting", "late"}, inst: Instances \ Storeless,
                           tok: issued, expired: Int, applied: BOOLEAN]
             /\ \A q \in Procs \ {p} : reply'[q] = reply[q]
      BY <1>2
         DEF Destroy, DestroyRefused, DestroyWithoutStore, DestroyParsed,
             DestroyTooLate, DestroyClosed, DestroySend, RedisSet, DestroyAcked,
             DestroyFailed, LateSetGone, Return, Begin, Operation, Idle
    <2> QED
      BY <2>1 DEF Idle
  <1>3. ASSUME NEW p \in Procs, ParseClaims(p)
        PROVE  PendingSilent'
    BY <1>3 DEF ParseClaims, ParseRefused, ParseWithoutStore, Parsed, RedisExists,
                CheckFails, CheckFinds, CheckPasses, Return, Begin, Idle
  <1>4. CASE UNCHANGED calls
    BY <1>4 DEF calls
  <1> QED
    BY <1>1, <1>2, <1>3, <1>4, <1>5
       DEF Next, Release, Delete, Tick, RedisRestart, vars, calls

\* Whatever else happens, a goroutine whose call waits for the store accepts a
\* token only on the answer that redis does not know its key.
LEMMA AcceptsByCheck ==
  ASSUME TypeOK, PendingSilent, [Next]_vars, NEW p \in Procs, Accepts(p)
  PROVE  CheckPasses(p)
  <1> USE DEF TypeOK, PendingSilent
  <1>1. /\ op[p].pc \in {"checking", "answered"}
        /\ reply[p] = NoReply /\ reply'[p] # NoReply
    BY DEF Accepts, NoReply
  <1>2. op[p] # Idle
    BY <1>1 DEF Idle
  <1>3. ASSUME NEW q \in Procs, NEW a \in Instances, NEW u \in Users, Sign(q, a, u)
        PROVE  FALSE
    BY <1>1, <1>3 DEF Sign, Return, Idle
  <1>7. ASSUME NEW q \in Procs, NEW a \in Instances, SignFailed(q, a)
        PROVE  FALSE
    BY <1>1, <1>7 DEF SignFailed, Return, Idle
  <1>4. ASSUME NEW q \in Procs, Destroy(q)
        PROVE  FALSE
    <2>1. q = p
      BY <1>1, <1>4
         DEF Destroy, DestroyRefused, DestroyWithoutStore, DestroyParsed,
             DestroyTooLate, DestroyClosed, DestroySend, RedisSet, DestroyAcked,
             DestroyFailed, LateSetGone, Return, Begin
    <2> QED
      BY <1>1, <1>4, <1>2, <2>1
         DEF Destroy, DestroyRefused, DestroyWithoutStore, DestroyParsed,
             DestroyTooLate, DestroyClosed, DestroySend, RedisSet, DestroyAcked,
             DestroyFailed, LateSetGone
  <1>5. ASSUME NEW q \in Procs, ParseClaims(q)
        PROVE  CheckPasses(p)
    <2>1. q = p
      BY <1>1, <1>5 DEF ParseClaims, ParseRefused, ParseWithoutStore, Parsed, RedisExists,
                        CheckFails, CheckFinds, CheckPasses, Return, Begin
    <2>2. CheckFails(p) \/ CheckFinds(p) \/ CheckPasses(p)
      BY <1>1, <1>5, <1>2, <2>1 DEF ParseClaims, ParseRefused, ParseWithoutStore, Parsed,
                                    RedisExists
    <2> QED
      BY <2>2 DEF Accepts, CheckFails, CheckFinds, Return, Answer
  <1>6. CASE UNCHANGED calls
    BY <1>1, <1>6 DEF calls
  <1> QED
    BY <1>3, <1>4, <1>5, <1>6, <1>7
       DEF Next, Release, Delete, Tick, RedisRestart, vars, calls

\* No goroutine waits for the store with an answer in hand.
THEOREM Pending == Spec => []PendingSilent
<1>1. Init => PendingSilent
  BY DEF Init, PendingSilent, Idle
<1> QED
  BY <1>1, PendingSilentStep, TypeCorrect, PTL DEF Spec

\* A ParseClaims that begins after a Destroy has returned nil does not return
\* the claims while the token lives, unless redis had lost the entry when it was
\* asked (jwt.go, ParseClaims).
THEOREM RevocationEffective == Spec => RevokedStaysRejected
<1>1. TypeOK /\ AnswersHold /\ PendingSilent /\ [Next]_vars
        => [\A p \in Procs :
              Accepts(p) /\ op[p].knew /\ now < op[p].tok.exp => TakenOff(p)]_vars
  <2> SUFFICES ASSUME TypeOK, AnswersHold, PendingSilent, [Next]_vars,
                      NEW p \in Procs, Accepts(p), op[p].knew, now < op[p].tok.exp
               PROVE  TakenOff(p)
    OBVIOUS
  <2>1. op[p].pc = "answered" /\ ~op[p].found
    BY AcceptsByCheck DEF CheckPasses
  <2>2. now \in Int /\ op[p].tok.exp \in Int
    BY <2>1 DEF TypeOK, Operation, Idle, Token
  <2> QED
    BY <2>1, <2>2 DEF AnswersHold, TakenOff
<1> QED
  BY <1>1, TypeCorrect, AnswersStand, Pending, PTL DEF Spec, RevokedStaysRejected

-----------------------------------------------------------------------------
(* What each call answers *)

\* A Destroy answers its caller, for itself, or nobody yet.
LEMMA DestroyAnswers ==
  ASSUME NEW p \in Procs, Destroy(p)
  PROVE  \/ reply' = reply
         \/ \E r : reply' = [reply EXCEPT ![p] = r] /\ r.call \in {"none", "Destroy"}
  <1>1. NoReply.call = "none"
    BY DEF NoReply
  <1>2. \A a, t, res : Answer("Destroy", a, t, res).call = "Destroy"
    BY DEF Answer
  <1>3. CASE DestroySend(p) \/ RedisSet(p) \/ LateSetGone(p)
    BY <1>3 DEF DestroySend, RedisSet, LateSetGone
  <1>4. ASSUME NEW a \in Instances, NEW t \in Presentable,
               DestroyRefused(p, a, t) \/ DestroyWithoutStore(p, a, t) \/ DestroyParsed(p, a, t)
        PROVE  \E r : reply' = [reply EXCEPT ![p] = r] /\ r.call \in {"none", "Destroy"}
    BY <1>1, <1>2, <1>4 DEF DestroyRefused, DestroyWithoutStore, DestroyParsed, Return, Begin
  <1>5. CASE DestroyTooLate(p) \/ DestroyClosed(p) \/ DestroyAcked(p) \/ DestroyFailed(p)
    BY <1>2, <1>5 DEF DestroyTooLate, DestroyClosed, DestroyAcked, DestroyFailed, Return
  <1> QED
    BY <1>3, <1>4, <1>5 DEF Destroy

\* A ParseClaims that redis does not answer in this step answers its caller. It
\* calls a token invalid that is none of this key or that redis knew, and
\* accepts it without redis' answer only when there is no store.
LEMMA ParseClaimsAnswers ==
  ASSUME TypeOK, NEW p \in Procs, ParseClaims(p), ~RedisExists(p)
  PROVE  \E r, o :
           /\ reply' = [reply EXCEPT ![p] = r]
           /\ op' = [op EXCEPT ![p] = o] /\ o.pc \in {"idle", "checking"}
           /\ r.call \in {"none", "ParseClaims"}
           /\ r.call = "ParseClaims" /\ r.res = "TokenInvalid" =>
                \/ r.tok \in ForeignTokens
                \/ op[p].pc = "answered" /\ op[p].found /\ r.tok = op[p].tok
           /\ r.call = "ParseClaims" /\ r.res = "ok" /\ r.inst \notin Storeless =>
                op[p].pc = "answered" /\ ~op[p].found /\ r.tok = op[p].tok
  <1> USE DEF TypeOK
  <1>1. NoReply.call = "none" /\ Idle.pc = "idle"
    BY DEF NoReply, Idle
  <1>2. \A a, t, res : /\ Answer("ParseClaims", a, t, res).call = "ParseClaims"
                       /\ Answer("ParseClaims", a, t, res).inst = a
                       /\ Answer("ParseClaims", a, t, res).tok = t
                       /\ Answer("ParseClaims", a, t, res).res = res
    BY DEF Answer
  <1>3. ASSUME NEW a \in Instances, NEW t \in Presentable, ParseRefused(p, a, t)
        PROVE  /\ reply' = [reply EXCEPT ![p] = Answer("ParseClaims", a, t, parseToken(t))]
               /\ op' = [op EXCEPT ![p] = Idle]
               /\ parseToken(t) # "ok"
               /\ parseToken(t) = "TokenInvalid" => t \in ForeignTokens
    <2>1. parseToken(t) = "TokenInvalid" => t.class # "own"
      BY DEF parseToken
    <2> QED
      BY <1>3, <2>1 DEF ParseRefused, Return, Presentable
  <1>4. ASSUME NEW a \in Instances, NEW t \in Presentable, ParseWithoutStore(p, a, t)
        PROVE  /\ reply' = [reply EXCEPT ![p] = Answer("ParseClaims", a, t, "ok")]
               /\ op' = [op EXCEPT ![p] = Idle]
               /\ a \in Storeless
    BY <1>4 DEF ParseWithoutStore, Return
  <1>5. ASSUME NEW a \in Instances, NEW t \in Presentable, Parsed(p, a, t)
        PROVE  /\ reply' = [reply EXCEPT ![p] = NoReply]
               /\ \E o : op' = [op EXCEPT ![p] = o] /\ o.pc = "checking"
    <2> DEFINE o == [pc |-> "checking", inst |-> a, tok |-> t, knew |-> Destroyed(t)]
    <2>1. reply' = [reply EXCEPT ![p] = NoReply] /\ op' = [op EXCEPT ![p] = o]
      BY <1>5 DEF Parsed, Begin
    <2>2. o.pc = "checking"
      OBVIOUS
    <2> HIDE DEF o
    <2> QED
      BY <2>1, <2>2
  <1>6. ASSUME CheckFails(p) \/ CheckFinds(p) \/ CheckPasses(p)
        PROVE  /\ op' = [op EXCEPT ![p] = Idle]
               /\ \E res :
                    /\ reply' = [reply EXCEPT ![p] =
                                   Answer("ParseClaims", op[p].inst, op[p].tok, res)]
                    /\ res = "TokenInvalid" => op[p].pc = "answered" /\ op[p].found
                    /\ res = "ok" => op[p].pc = "answered" /\ ~op[p].found
    BY <1>6 DEF CheckFails, CheckFinds, CheckPasses, Return
  <1>7. CASE CheckFails(p) \/ CheckFinds(p) \/ CheckPasses(p)
    BY <1>1, <1>2, <1>6, <1>7
  <1> QED
    BY <1>1, <1>2, <1>3, <1>4, <1>5, <1>7 DEF ParseClaims

\* ParseClaims calls a token of its own invalid only when its Destroy was sent
\* to redis (jwt.go, ParseClaims).
THEOREM RejectionsJustified == Spec => []RejectionJustified
<1>1. Init => RejectionJustified
  BY DEF Init, RejectionJustified, NoReply
<1>2. TypeOK /\ AnswersHold /\ RejectionJustified /\ [Next]_vars => RejectionJustified'
  <2> SUFFICES ASSUME TypeOK, AnswersHold, RejectionJustified, [Next]_vars
               PROVE  RejectionJustified'
    OBVIOUS
  <2>1. reply \in [Procs -> Reply]
    BY DEF TypeOK
  <2>2. sent \subseteq sent'
    <3>1. \A p \in Procs : Destroy(p) => sent \subseteq sent'
      BY DEF Destroy, DestroyRefused, DestroyWithoutStore, DestroyParsed, DestroyTooLate,
             DestroyClosed, DestroySend, RedisSet, DestroyAcked, DestroyFailed,
             LateSetGone, history
    <3>2. \A p \in Procs : ParseClaims(p) => sent \subseteq sent'
      BY DEF ParseClaims, ParseRefused, ParseWithoutStore, Parsed, RedisExists,
             CheckFails, CheckFinds, CheckPasses, history
    <3> QED
      BY <3>1, <3>2 DEF Next, Sign, SignFailed, Release, Delete, Tick, RedisRestart,
                        history, vars
  <2>3. ASSUME NEW p \in Procs, NEW r, reply' = [reply EXCEPT ![p] = r],
               r.call = "ParseClaims" /\ r.res = "TokenInvalid" =>
                 r.tok \in sent \/ r.tok \in ForeignTokens
        PROVE  RejectionJustified'
    BY <2>1, <2>2, <2>3 DEF RejectionJustified
  <2>4. ASSUME UNCHANGED reply
        PROVE  RejectionJustified'
    BY <2>2, <2>4 DEF RejectionJustified
  <2>5. ASSUME NEW p \in Procs, NEW a \in Instances, NEW u \in Users, Sign(p, a, u)
        PROVE  RejectionJustified'
    <3>1. Answer("Sign", a, Claims(u, now), "ok").call = "Sign"
      BY DEF Answer
    <3> QED
      BY <2>3, <2>5, <3>1 DEF Sign, Return
  <2>6. ASSUME NEW p \in Procs, Destroy(p)
        PROVE  RejectionJustified'
    BY <2>3, <2>4, <2>6, DestroyAnswers
  <2>7. ASSUME NEW p \in Procs, ParseClaims(p)
        PROVE  RejectionJustified'
    <3>1. CASE RedisExists(p)
      BY <2>4, <3>1 DEF RedisExists
    <3>2. CASE ~RedisExists(p)
      <4>1. PICK r :
              /\ reply' = [reply EXCEPT ![p] = r]
              /\ r.call = "ParseClaims" /\ r.res = "TokenInvalid" =>
                   \/ r.tok \in ForeignTokens
                   \/ op[p].pc = "answered" /\ op[p].found /\ r.tok = op[p].tok
        BY <2>7, <3>2, ParseClaimsAnswers
      <4> QED
        BY <2>3, <4>1 DEF AnswersHold
    <3> QED
      BY <3>1, <3>2
  <2>9. ASSUME NEW p \in Procs, NEW a \in Instances, SignFailed(p, a)
        PROVE  RejectionJustified'
    BY <2>3, <2>9 DEF SignFailed, Return
  <2>8. CASE \/ \E a \in Instances : Release(a)
             \/ \E a \in Instances, t \in issued : Delete(a, t)
             \/ Tick \/ RedisRestart \/ UNCHANGED vars
    BY <2>4, <2>8 DEF Release, Delete, Tick, RedisRestart, vars, calls
  <2> QED
    BY <2>5, <2>6, <2>7, <2>8, <2>9 DEF Next
<1> QED
  BY <1>1, <1>2, TypeCorrect, AnswersStand, PTL DEF Spec

\* A token is usable when Sign returns it and lives no longer than
\* options.expired, if that is a second at least (jwt.go, Sign).
THEOREM SignedTokensUsable ==
  ASSUME Lifetime >= Sec
  PROVE  Spec => SignedTokenValid
<1>1. ASSUME TypeOK, [Next]_vars, NEW p \in Procs, NEW t \in issued',
             reply'[p] # reply[p], reply'[p].call = "Sign", reply'[p].res = "ok",
             reply'[p].tok = t
      PROVE  /\ t.iat <= now /\ now < t.exp
             /\ now + Lifetime - t.exp \in 0..(Sec - 1)
  <2>1. reply \in [Procs -> Reply] /\ now \in Int
    BY <1>1 DEF TypeOK
  <2>2. PICK u \in Users : t = Claims(u, now)
    <3>1. ASSUME NEW q \in Procs, Destroy(q) \/ ParseClaims(q)
          PROVE  FALSE
      <4>1. PICK r : \/ reply' = reply
                     \/ /\ reply' = [reply EXCEPT ![q] = r]
                        /\ r.call \in {"none", "Destroy", "ParseClaims"}
        BY <1>1, <3>1, DestroyAnswers, ParseClaimsAnswers DEF RedisExists
      <4> QED
        BY <1>1, <2>1, <4>1
    <3>2. ASSUME NEW q \in Procs, NEW a \in Instances, NEW u \in Users, Sign(q, a, u)
          PROVE  t = Claims(u, now)
      <4>1. reply' = [reply EXCEPT ![q] = Answer("Sign", a, Claims(u, now), "ok")]
        BY <3>2 DEF Sign, Return
      <4> QED
        BY <1>1, <2>1, <4>1 DEF Answer
    <3>4. ASSUME NEW q \in Procs, NEW a \in Instances, SignFailed(q, a)
          PROVE  FALSE
      BY <1>1, <2>1, <3>4 DEF SignFailed, Return
    <3>3. \/ \E q \in Procs, a \in Instances, u \in Users : Sign(q, a, u)
          \/ \E q \in Procs, a \in Instances : SignFailed(q, a)
          \/ \E q \in Procs : Destroy(q) \/ ParseClaims(q)
          \/ UNCHANGED reply
      BY <1>1 DEF Next, Release, Delete, Tick, RedisRestart, vars, calls
    <3> QED
      BY <1>1, <3>1, <3>2, <3>3, <3>4
  <2>3. t.iat = NumericDate(now) /\ t.exp = NumericDate(now + Lifetime)
    BY <2>2 DEF Claims
  <2>4. Sec \in Int /\ Lifetime \in Int /\ now + Lifetime \in Int
    BY <2>1, ConfigAssumption
  <2>5. /\ NumericDate(now) \in Int /\ NumericDate(now) <= now
        /\ NumericDate(now + Lifetime) \in Int
        /\ NumericDate(now + Lifetime) <= now + Lifetime
        /\ now + Lifetime < NumericDate(now + Lifetime) + Sec
    BY <2>1, <2>4, NumericDateBound
  <2> QED
    BY <2>1, <2>3, <2>4, <2>5
<1>2. TypeOK /\ [Next]_vars =>
        [\A p \in Procs, t \in issued' :
           (/\ reply'[p] # reply[p] /\ reply'[p].call = "Sign"
            /\ reply'[p].res = "ok" /\ reply'[p].tok = t)
             => /\ t.iat <= now /\ now < t.exp
                /\ now + Lifetime - t.exp \in 0..(Sec - 1)]_vars
  BY <1>1
<1> QED
  BY <1>2, TypeCorrect, PTL DEF Spec, SignedTokenValid

-----------------------------------------------------------------------------
(* The authenticator implements the registry of revocable tokens *)

\* A command gives its entry some life, and redis keeps no entry beyond it.
EntriesLive ==
  /\ \A p \in Procs : op[p].pc \in {"setting", "late"} => op[p].expired >= 1
  /\ \A e \in store : now <= e.deadline

LEMMA EntriesLiveStep ==
  ASSUME TypeOK, EntriesLive, [Next]_vars
  PROVE  EntriesLive'
  <1> USE DEF TypeOK
  <1>1. ASSUME UNCHANGED now, store' \subseteq store,
               \A q \in Procs : \/ op'[q] = op[q]
                                \/ op'[q].pc \notin {"setting", "late"}
                                \/ op'[q].expired >= 1
        PROVE  EntriesLive'
    BY <1>1 DEF EntriesLive
  <1>2. ASSUME NEW p \in Procs, NEW a \in Instances, NEW u \in Users, Sign(p, a, u)
        PROVE  EntriesLive'
    BY <1>1, <1>2 DEF Sign, Return, Idle
  <1>3. ASSUME NEW p \in Procs, DestroySend(p)
        PROVE  EntriesLive'
    <2>1. op[p].tok \in issued
      BY <1>3 DEF DestroySend, Operation, Idle
    <2>2. op[p].tok.exp \in Int /\ now < op[p].tok.exp /\ now \in Int
      BY <1>3, <2>1 DEF DestroySend, Token
    <2>3. \A d \in Expirations(op[p].tok.exp - now) : d >= 1
      BY <2>2 DEF Expirations
    <2>4. PICK d : d >= 1 /\ op' = [op EXCEPT ![p] =
                     [pc |-> "setting", inst |-> op[p].inst, tok |-> op[p].tok,
                      expired |-> d, applied |-> FALSE]]
      BY <1>3, <2>3 DEF DestroySend
    <2>5. UNCHANGED <<now, store>>
      BY <1>3 DEF DestroySend
    <2> QED
      BY <1>1, <2>4, <2>5
  <1>4. ASSUME NEW p \in Procs, RedisSet(p)
        PROVE  EntriesLive'
    <2>1. op[p] \in [pc: {"setting", "late"}, inst: Instances \ Storeless, tok: issued,
                     expired: Int, applied: BOOLEAN]
      BY <1>4 DEF RedisSet, Operation, Idle
    <2>2. op[p].expired \in Int /\ op[p].expired >= 1
      BY <2>1 DEF EntriesLive
    <2>3. \A e \in store' : now <= e.deadline
      BY <1>4, <2>2 DEF RedisSet, EntriesLive
    <2>4. \A q \in Procs : op'[q].pc = op[q].pc /\ op'[q].expired = op[q].expired
      BY <1>4, <2>1 DEF RedisSet
    <2> QED
      BY <1>4, <2>3, <2>4 DEF RedisSet, EntriesLive
  <1>5. ASSUME NEW p \in Procs, Destroy(p), ~DestroySend(p), ~RedisSet(p)
        PROVE  EntriesLive'
    <2>1. UNCHANGED <<now, store>>
      BY <1>5 DEF Destroy, DestroyRefused, DestroyWithoutStore, DestroyParsed, DestroyTooLate,
                  DestroyClosed, DestroyAcked, DestroyFailed, LateSetGone
    <2>2. \/ \E o : op' = [op EXCEPT ![p] = o] /\ o.pc \notin {"setting", "late"}
          \/ DestroyFailed(p)
      BY <1>5 DEF Destroy, DestroyRefused, DestroyWithoutStore, DestroyParsed, DestroyTooLate,
                  DestroyClosed, DestroyAcked, LateSetGone, Return, Begin, Idle
    <2>3. CASE DestroyFailed(p)
      <3>1. op[p] \in [pc: {"setting", "late"}, inst: Instances \ Storeless, tok: issued,
                       expired: Int, applied: BOOLEAN]
        BY <2>3 DEF DestroyFailed, Operation, Idle
      <3>2. op'[p].expired = op[p].expired /\ \A q \in Procs \ {p} : op'[q] = op[q]
        BY <2>3, <3>1 DEF DestroyFailed
      <3> QED
        BY <1>1, <2>1, <3>1, <3>2 DEF EntriesLive
    <2> QED
      BY <1>1, <2>1, <2>2, <2>3
  <1>9. ASSUME NEW p \in Procs, NEW a \in Instances, SignFailed(p, a)
        PROVE  EntriesLive'
    BY <1>1, <1>9 DEF SignFailed, Return, Idle
  <1>6. ASSUME NEW p \in Procs, ParseClaims(p)
        PROVE  EntriesLive'
    <2>1. UNCHANGED <<now, store>>
      BY <1>6 DEF ParseClaims, ParseRefused, ParseWithoutStore, Parsed, RedisExists, CheckFails,
                  CheckFinds, CheckPasses
    <2>2. \E o : op' = [op EXCEPT ![p] = o] /\ o.pc \notin {"setting", "late"}
      BY <1>6 DEF ParseClaims, ParseRefused, ParseWithoutStore, Parsed, RedisExists, CheckFails,
                  CheckFinds, CheckPasses, Return, Begin, Idle
    <2> QED
      BY <1>1, <2>1, <2>2
  <1>7. CASE Tick
    BY <1>7 DEF Tick, calls, EntriesLive
  <1>8. CASE \/ \E a \in Instances : Release(a)
             \/ \E a \in Instances, t \in issued : Delete(a, t)
             \/ RedisRestart \/ UNCHANGED vars
    BY <1>1, <1>8 DEF Release, Delete, RedisRestart, vars, calls
  <1> QED
    BY <1>2, <1>3, <1>4, <1>5, <1>6, <1>7, <1>8, <1>9 DEF Next

\* A step of p that takes no token back is none of the registry, or a decision
\* of the registry about a token, or the end of p's call without one.
LEMMA DecisionRefines ==
  ASSUME TypeOK, NEW p \in Procs,
         UNCHANGED <<now, issued, store, erased>>,
         \A q \in Procs \ {p} : op'[q] = op[q] /\ reply'[q] = reply[q],
         NEW v, v = Verdict(p)',
         v = Verdict(p) \/ v = NoReply \/ (v \in issued /\ ~Exists(v))
  PROVE  [Registry!Next]_(Registry!vars)
  <1> DEFINE seen == [q \in Procs |-> Verdict(q)]
  <1>1. \A t : Exists(t)' <=> Exists(t)
    BY DEF Exists, Live
  <1>2. \A q \in Procs \ {p} : Verdict(q)' = Verdict(q)
    BY DEF Verdict
  <1>3. seen' = [seen EXCEPT ![p] = v]
    BY <1>2
  <1>4. /\ {t \in issued : Exists(t)}' = {t \in issued : Exists(t)}
        /\ {t \in issued : now >= t.exp}' = {t \in issued : now >= t.exp}
    BY <1>1
  <1>5. CASE v = Verdict(p)
    <2>1. seen' = seen
      BY <1>3, <1>5
    <2> QED
      BY <1>4, <2>1 DEF Registry!vars
  <1>6. CASE v = NoReply
    <2>1. Registry!Refuse(p)
      BY <1>3, <1>4, <1>6 DEF Registry!Refuse
    <2> QED
      BY <2>1 DEF Registry!Next
  <1>7. CASE v \in issued /\ ~Exists(v)
    <2>1. Registry!Accept(p, v)
      BY <1>3, <1>4, <1>7 DEF Registry!Accept
    <2> QED
      BY <1>7, <2>1 DEF Registry!Next
  <1> QED
    BY <1>5, <1>6, <1>7

\* A step that touches none of this is none of the registry.
LEMMA SilentRefines ==
  ASSUME UNCHANGED <<now, issued, store, op, reply, erased>>
  PROVE  UNCHANGED Registry!vars
  <1>1. \A q \in Procs : Verdict(q)' = Verdict(q)
    BY DEF Verdict
  <1> QED
    BY <1>1 DEF Registry!vars, Exists, Live

\* The commands of a Destroy change the list only when redis executes one.
LEMMA DestroyRefines ==
  ASSUME TypeOK, NEW p \in Procs, Destroy(p), ~RedisSet(p)
  PROVE  [Registry!Next]_(Registry!vars)
  <1> USE DEF TypeOK
  <1>1. UNCHANGED <<now, issued, store, erased>>
    BY DEF Destroy, DestroyRefused, DestroyWithoutStore, DestroyParsed, DestroyTooLate,
           DestroyClosed, DestroySend, DestroyAcked, DestroyFailed, LateSetGone, history
  <1>2. /\ op[p].pc # "answered" /\ op'[p].pc # "answered"
        /\ \A q \in Procs \ {p} : op'[q] = op[q]
    <2>1. CASE DestroyFailed(p)
      <3>1. op[p] \in [pc: {"setting", "late"}, inst: Instances \ Storeless, tok: issued,
                       expired: Int, applied: BOOLEAN]
        BY <2>1 DEF DestroyFailed, Operation, Idle
      <3> QED
        BY <2>1, <3>1 DEF DestroyFailed
    <2>2. CASE ~DestroyFailed(p)
      <3>1. op[p] = Idle \/ op[p].pc \in {"destroying", "setting", "late"}
        BY <2>2 DEF Destroy, DestroyRefused, DestroyWithoutStore, DestroyParsed,
                    DestroyTooLate, DestroyClosed, DestroySend, DestroyAcked,
                    LateSetGone
      <3>2. \E o : op' = [op EXCEPT ![p] = o] /\ o.pc # "answered"
        BY <2>2 DEF Destroy, DestroyRefused, DestroyWithoutStore, DestroyParsed,
                    DestroyTooLate, DestroyClosed, DestroySend, DestroyAcked,
                    LateSetGone, Return, Begin, Idle
      <3> QED
        BY <3>1, <3>2 DEF Idle
    <2> QED
      BY <2>1, <2>2
  <1>3. PICK r : \/ reply' = reply
                 \/ reply' = [reply EXCEPT ![p] = r] /\ r.call \in {"none", "Destroy"}
    BY DestroyAnswers
  <1>4. \A q \in Procs \ {p} : reply'[q] = reply[q]
    BY <1>3
  <1>5. Verdict(p)' = Verdict(p) \/ Verdict(p)' = NoReply
    BY <1>2, <1>3 DEF Verdict
  <1> QED
    BY <1>1, <1>2, <1>4, <1>5, DecisionRefines

\* Redis' answer is the moment at which the registry decides; the return of the
\* call tells the decision, and a failure forgets it.
LEMMA ParseClaimsRefines ==
  ASSUME TypeOK, PendingSilent, NEW p \in Procs, ParseClaims(p)
  PROVE  [Registry!Next]_(Registry!vars)
  <1> USE DEF TypeOK
  <1>1. UNCHANGED <<now, issued, store, erased>>
    BY DEF ParseClaims, ParseRefused, ParseWithoutStore, Parsed, RedisExists,
           CheckFails, CheckFinds, CheckPasses, history
  <1>2. CASE RedisExists(p)
    <2>1. /\ op[p].pc \in {"checking", "answered"} /\ reply' = reply
          /\ op' = [op EXCEPT ![p] =
                       [pc |-> "answered", inst |-> op[p].inst, tok |-> op[p].tok,
                        knew |-> op[p].knew, found |-> Exists(op[p].tok),
                        taken |-> op[p].tok \in erased]]
      BY <1>2 DEF RedisExists
    <2>2. op[p].tok \in issued /\ reply[p] = NoReply
      BY <2>1 DEF Operation, Idle, PendingSilent
    <2>3. Verdict(p)' = IF Exists(op[p].tok) THEN NoReply ELSE op[p].tok
      BY <2>1, <2>2 DEF Verdict, NoReply
    <2>4. \A q \in Procs \ {p} : op'[q] = op[q] /\ reply'[q] = reply[q]
      BY <2>1
    <2>5. PICK v : v = Verdict(p)'
      OBVIOUS
    <2> QED
      BY <1>1, <2>2, <2>3, <2>4, <2>5, DecisionRefines
  <1>3. CASE ~RedisExists(p)
    <2>1. PICK r, o :
            /\ reply' = [reply EXCEPT ![p] = r]
            /\ op' = [op EXCEPT ![p] = o] /\ o.pc \in {"idle", "checking"}
            /\ r.call = "ParseClaims" /\ r.res = "ok" /\ r.inst \notin Storeless =>
                 op[p].pc = "answered" /\ ~op[p].found /\ r.tok = op[p].tok
      BY <1>3, ParseClaimsAnswers
    <2>2. op'[p] = o /\ reply'[p] = r
      BY <2>1
    <2>3. Verdict(p)' = Verdict(p) \/ Verdict(p)' = NoReply
      BY <2>1, <2>2 DEF Verdict
    <2>4. \A q \in Procs \ {p} : op'[q] = op[q] /\ reply'[q] = reply[q]
      BY <2>1
    <2> QED
      BY <1>1, <2>3, <2>4, DecisionRefines
  <1> QED
    BY <1>2, <1>3

LEMMA SignRefines ==
  ASSUME TypeOK, NEW p \in Procs, NEW a \in Instances, NEW u \in Users, Sign(p, a, u)
  PROVE  Registry!Next
  <1> USE DEF TypeOK
  <1> PICK t : t = Claims(u, now)
    OBVIOUS
  <1>1. /\ issued' = issued \cup {t}
        /\ reply' = [reply EXCEPT ![p] = Answer("Sign", a, t, "ok")]
        /\ UNCHANGED <<now, store, erased>>
    BY DEF Sign, Return, history
  <1>2. \A x : Exists(x)' <=> Exists(x)
    BY <1>1 DEF Exists, Live
  <1>3. Exists(t) => t \in issued
    BY KeyOfInjective DEF Exists
  <1>4. Answer("Sign", a, t, "ok").call = "Sign"
    BY DEF Answer
  <1>5. {x \in issued : Exists(x)}' = {x \in issued : Exists(x)}
    BY <1>1, <1>2, <1>3
  <1>6. {x \in issued : now >= x.exp}' \in
          {{x \in issued : now >= x.exp}, {x \in issued : now >= x.exp} \cup {t}}
    BY <1>1
  <1>8. op[p] = Idle /\ op' = [op EXCEPT ![p] = Idle]
    BY DEF Sign, Return
  <1>9. \A q \in Procs : Verdict(q)' = IF q = p THEN NoReply ELSE Verdict(q)
    BY <1>1, <1>4, <1>8 DEF Verdict, Idle
  <1>10. [q \in Procs |-> Verdict(q)]' = [[q \in Procs |-> Verdict(q)] EXCEPT ![p] = NoReply]
    BY <1>9
  <1>7. Registry!Issue(p, t)
    BY <1>1, <1>5, <1>6, <1>10 DEF Registry!Issue
  <1> QED
    BY <1>1, <1>7 DEF Registry!Next

LEMMA SetRefines ==
  ASSUME TypeOK, EntriesLive, NEW p \in Procs, RedisSet(p)
  PROVE  Registry!Next
  <1> USE DEF TypeOK
  <1> PICK t : t = op[p].tok
    OBVIOUS
  <1> DEFINE e == [key |-> KeyOf(t), deadline |-> now + op[p].expired]
  <1>1. op[p] \in [pc: {"setting", "late"}, inst: Instances \ Storeless, tok: issued,
                   expired: Int, applied: BOOLEAN]
    BY DEF RedisSet, Operation, Idle
  <1>2. t \in issued /\ op[p].expired \in Int /\ op[p].expired >= 1
    BY <1>1 DEF EntriesLive
  <1>3. /\ store' = {x \in store : x.key # KeyOf(t)} \cup {e}
        /\ erased' = erased \ {t}
        /\ UNCHANGED <<now, issued, reply>>
    BY DEF RedisSet
  <1>4. Exists(t)'
    <2>1. e \in store' /\ e.key = KeyOf(t) /\ now' <= e.deadline
      BY <1>2, <1>3
    <2> QED
      BY <2>1 DEF Exists, Live
  <1>5. \A x \in issued : x # t => (Exists(x)' <=> Exists(x))
    <2> SUFFICES ASSUME NEW x \in issued, x # t
                 PROVE  Exists(x)' <=> Exists(x)
      OBVIOUS
    <2>1. KeyOf(x) # KeyOf(t)
      BY KeyOfInjective
    <2> QED
      BY <1>3, <2>1 DEF Exists, Live
  <1>6. {x \in issued : Exists(x)}' = {x \in issued : Exists(x)} \cup {t}
    BY <1>2, <1>3, <1>4, <1>5
  <1>8. \A q \in Procs : (op'[q].pc # "answered" /\ op[q].pc # "answered") \/ op'[q] = op[q]
    BY <1>1 DEF RedisSet
  <1>9. \A q \in Procs : Verdict(q)' = Verdict(q)
    BY <1>3, <1>8 DEF Verdict
  <1>7. Registry!Revoke(t)
    BY <1>3, <1>6, <1>9 DEF Registry!Revoke
  <1> QED
    BY <1>2, <1>7 DEF Registry!Next

\* The entries a Delete or a restart takes away were on the list.
LEMMA ErasureRefines ==
  ASSUME TypeOK, EntriesLive, UNCHANGED <<now, issued, op, reply>>,
         store' \subseteq store,
         erased' = erased \cup {t \in issued : \E e \in store \ store' : e.key = KeyOf(t)},
         \A e \in store \ store', x \in store' : e.key # x.key
  PROVE  Registry!Next
  <1>1. \A t : Exists(t) <=> \E e \in store : e.key = KeyOf(t)
    BY DEF Exists, Live, EntriesLive
  <1>2. \A t : Exists(t)' <=> \E e \in store' : e.key = KeyOf(t)
    BY DEF Exists, Live, EntriesLive
  <1>3. \A t \in issued : Exists(t) /\ ~Exists(t)' <=> \E e \in store \ store' : e.key = KeyOf(t)
    BY <1>1, <1>2
  <1>4. {t \in issued : Exists(t)}' \subseteq {t \in issued : Exists(t)}
    BY <1>1, <1>2
  <1>5. {t \in issued : \E e \in store \ store' : e.key = KeyOf(t)} =
          {t \in issued : Exists(t)} \ {t \in issued : Exists(t)}'
    BY <1>3
  <1>7. \A q \in Procs : Verdict(q)' = Verdict(q)
    BY DEF Verdict
  <1>6. Registry!Restore
    BY <1>4, <1>5, <1>7 DEF Registry!Restore
  <1> QED
    BY <1>6 DEF Registry!Next

\* Time takes a token off the list only when it has expired.
LEMMA TickRefines ==
  ASSUME TypeOK, BlacklistInvariant, Tick
  PROVE  Registry!Next
  <1> USE DEF TypeOK
  <1>1. /\ now' = now + 1 /\ now \in Int
        /\ store' = {e \in store : now + 1 <= e.deadline}
        /\ UNCHANGED <<issued, op, reply, erased>>
    BY DEF Tick, calls, history
  <1>2. \A t \in issued : t.exp \in Int
    BY DEF Token
  <1>3. {t \in issued : now >= t.exp} \subseteq {t \in issued : now >= t.exp}'
    BY <1>1, <1>2
  <1>4. \A t \in issued : Exists(t)' => Exists(t)
    BY <1>1 DEF Exists, Live
  <1>5. ASSUME NEW t \in issued, Exists(t), ~Exists(t)'
        PROVE  now' >= t.exp
    <2>1. PICK e \in store : e.key = KeyOf(t) /\ now <= e.deadline
      BY <1>5 DEF Exists, Live
    <2>2. e.deadline \in Int /\ t.exp - 1 <= e.deadline
      BY <2>1 DEF BlacklistInvariant, EntryCovers
    <2>3. ~(now + 1 <= e.deadline)
      BY <1>1, <1>5, <2>1 DEF Exists, Live
    <2> QED
      BY <1>1, <1>2, <2>2, <2>3
  <1>7. \A q \in Procs : Verdict(q)' = Verdict(q)
    BY <1>1 DEF Verdict
  <1>6. Registry!Expire
    BY <1>1, <1>3, <1>4, <1>5, <1>7 DEF Registry!Expire
  <1> QED
    BY <1>6 DEF Registry!Next

\* To its callers the authenticator is a registry in which a token is issued,
\* revoked and accepted in one step of the call each (jwt.go; redis.go).
THEOREM ImplementsRegistry == Spec => RegistrySpec
<1>1. Init => Registry!Init
  BY DEF Init, Registry!Init, Verdict, NoReply, Idle
<1>2. Init => EntriesLive
  BY DEF Init, EntriesLive, Idle
<1>3. TypeOK /\ BlacklistInvariant /\ PendingSilent /\ EntriesLive /\ [Next]_vars
        => [Registry!Next]_(Registry!vars)
  <2> SUFFICES ASSUME TypeOK, BlacklistInvariant, PendingSilent, EntriesLive, [Next]_vars
               PROVE  [Registry!Next]_(Registry!vars)
    OBVIOUS
  <2>1. ASSUME NEW p \in Procs, NEW a \in Instances, NEW u \in Users, Sign(p, a, u)
        PROVE  Registry!Next
    BY <2>1, SignRefines
  <2>2. ASSUME NEW p \in Procs, NEW a \in Instances, SignFailed(p, a)
        PROVE  [Registry!Next]_(Registry!vars)
    <3>1. /\ UNCHANGED <<now, issued, store, erased>>
          /\ op' = [op EXCEPT ![p] = Idle]
          /\ reply' = [reply EXCEPT ![p] =
                          [call |-> "Sign", inst |-> a, res |-> "SignTokenFailed"]]
      BY <2>2 DEF SignFailed, Return, history
    <3>2. Verdict(p)' = NoReply
      BY <3>1 DEF TypeOK, Verdict, Idle
    <3>3. \A q \in Procs \ {p} : op'[q] = op[q] /\ reply'[q] = reply[q]
      BY <3>1
    <3> QED
      BY <3>1, <3>2, <3>3, DecisionRefines
  <2>3. ASSUME NEW p \in Procs, RedisSet(p)
        PROVE  Registry!Next
    BY <2>3, SetRefines
  <2>4. ASSUME NEW p \in Procs, Destroy(p), ~RedisSet(p)
        PROVE  [Registry!Next]_(Registry!vars)
    BY <2>4, DestroyRefines
  <2>5. ASSUME NEW p \in Procs, ParseClaims(p)
        PROVE  [Registry!Next]_(Registry!vars)
    BY <2>5, ParseClaimsRefines
  <2>6. ASSUME NEW a \in Instances, NEW t \in issued, Delete(a, t)
        PROVE  Registry!Next
    <3>1. /\ UNCHANGED <<now, issued, op, reply>>
          /\ store' = {e \in store : e.key # KeyOf(t)}
          /\ erased' = erased \cup {t}
          /\ \E e \in store : e.key = KeyOf(t)
      BY <2>6 DEF Delete, calls
    <3>2. {x \in issued : \E e \in store \ store' : e.key = KeyOf(x)} = {t}
      BY <3>1, KeyOfInjective
    <3> QED
      BY <3>1, <3>2, ErasureRefines
  <2>7. CASE RedisRestart
    <3>1. /\ UNCHANGED <<now, issued, op, reply>>
          /\ store' = {}
          /\ erased' = erased \cup {t \in issued : \E e \in store : e.key = KeyOf(t)}
      BY <2>7 DEF RedisRestart, calls
    <3>2. store \ store' = store
      BY <3>1
    <3> QED
      BY <3>1, <3>2, ErasureRefines
  <2>8. CASE Tick
    BY <2>8, TickRefines
  <2>9. CASE (\E a \in Instances : Release(a)) \/ UNCHANGED vars
    BY <2>9, SilentRefines DEF Release, vars, calls, history
  <2> QED
    BY <2>1, <2>2, <2>3, <2>4, <2>5, <2>6, <2>7, <2>8, <2>9 DEF Next
<1> QED
  BY <1>1, <1>2, <1>3, EntriesLiveStep, TypeCorrect, BlacklistInvariance, Pending, PTL
  DEF Spec, RegistrySpec, Registry!Spec

=============================================================================
