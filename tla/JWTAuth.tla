------------------------------- MODULE JWTAuth -------------------------------
(***************************************************************************)
(* The JWT authenticator of authn/jwt/jwt.go and the redis blacklist of    *)
(* authn/jwt/store/redis/redis.go.  Goroutines call Sign, Destroy,         *)
(* ParseClaims and Release on authenticators that share one signing key    *)
(* and one redis.  A call that reaches redis takes several steps, and the  *)
(* clock, other calls, lost replies, retried commands and a restart of     *)
(* redis may come between any two of them.                                 *)
(*                                                                         *)
(* One unit of time is one millisecond, the resolution redis keeps.        *)
(*                                                                         *)
(* A definition Name_Mistake is a mistake one could make in Name.  Nothing *)
(* uses it: it is there to be put in Name's place, to see which property   *)
(* notices.                                                                *)
(***************************************************************************)
EXTENDS Integers

CONSTANTS
  Procs,          \* goroutines that call the authenticators
  Instances,      \* the *JWTAuth values; all share the signing key
  Storeless,      \* the instances built with New(nil, ...)
  Users,          \* the userID arguments of Sign
  ForeignTokens,  \* token strings that Sign of these instances never returned
  Sec,            \* milliseconds in a second (1000 in the code)
  Lifetime,       \* options.expired
  MaxTime,        \* bound: the clock stops here
  MaxWipes        \* bound: how often redis restarts without its data

(* A token string is its class and its claims: "own" is signed with the    *)
(* shared key and method, "otherMethod" with the key and another HMAC      *)
(* method, "otherKey" with another key, "malformed" is no JWT at all and   *)
(* "empty" is the empty string.                                            *)
Classes == {"own", "otherMethod", "otherKey", "malformed", "empty"}
Token == [class: Classes, sub: Users, iat: Int, exp: Int]

ASSUME ConfigAssumption ==
  /\ Sec \in Nat \ {0}
  /\ Lifetime \in Nat
  /\ MaxTime \in Nat
  /\ MaxWipes \in Nat
  /\ Storeless \subseteq Instances
  /\ ForeignTokens \subseteq {t \in Token : t.class # "own"}

VARIABLES
  now,        \* the clock, which the callers and redis share
  issued,     \* tokens Sign has returned
  store,      \* what redis holds: records of a key and its expiry time
  closed,     \* instances whose redis client Close has been called
  op,         \* op[p]: the call goroutine p is in
  reply,      \* reply[p]: what its last call returned
  wipes,      \* restarts of redis so far
  \* history, read by no action
  sent,       \* tokens some Destroy has sent a Set for
  revoked,    \* <<instance, token>>: that instance's Destroy returned nil
  erased      \* tokens whose blacklist entry a restart or a Delete removed

calls == <<op, reply>>
history == <<sent, revoked, erased>>
vars == <<now, issued, store, closed, op, reply, wipes, sent, revoked, erased>>

-----------------------------------------------------------------------------
(* Claims and keys *)

NumericDate_RoundUp(t) == t + ((-t) % Sec)

\* jwt.NewNumericDate drops the fraction of a second.
NumericDate(t) == t - (t % Sec)

\* The claims Sign writes; nothing in them tells two calls of a second apart.
Claims(u, t) ==
  [class |-> "own", sub |-> u,
   iat |-> NumericDate(t), exp |-> NumericDate(t + Lifetime)]

hashToken_Subject(t) == <<"sha256", t.sub>>

\* SHA-256 of the token string, taken to be free of collisions.
hashToken(t) == <<"sha256", t>>

\* The redis key of a token: the prefix and the hash.
wrapperKey(h) == <<"prefix", h>>

KeyOf(t) == wrapperKey(hashToken(t))

parseToken_AnyMethod(t) ==
  IF t.class \in {"malformed", "empty"} THEN "TokenInvalid"
  ELSE IF t.class = "otherKey" THEN "TokenParseFail"
  ELSE IF now >= t.exp \/ now < t.iat THEN "TokenExpired"
  ELSE "ok"

\* The error of parseToken, or "ok".  A signature that does not verify is
\* reported before the claims are looked at, a foreign method after them.
parseToken(t) ==
  IF t.class \in {"malformed", "empty"} THEN "TokenInvalid"
  ELSE IF t.class = "otherKey" THEN "TokenParseFail"
  ELSE IF now >= t.exp \/ now < t.iat THEN "TokenExpired"
  ELSE IF t.class = "otherMethod" THEN "UnSupportSigningMethod"
  ELSE "ok"

\* The milliseconds go-redis sends for a remaining life of r milliseconds:
\* the fraction below a millisecond that the clock had advanced is cut off,
\* and a positive duration is never sent as less than one.
Expirations(r) == {r} \cup {d \in {r - 1} : d >= 1}

\* Redis answers for a key until its clock has passed the expiry time.
Live(e) == now <= e.deadline
Exists(t) == \E e \in store : e.key = KeyOf(t) /\ Live(e)

-----------------------------------------------------------------------------
\* Some instance with a store has answered nil to a Destroy of the token.
Destroyed(t) == \E a \in Instances \ Storeless : <<a, t>> \in revoked

Presentable == issued \cup ForeignTokens

NoReply == [call |-> "none"]
Idle == [pc |-> "idle"]

Return(p, r) ==
  /\ op' = [op EXCEPT ![p] = Idle]
  /\ reply' = [reply EXCEPT ![p] = r]

Answer(name, a, t, res) == [call |-> name, inst |-> a, tok |-> t, res |-> res]

Begin(p, o) ==
  /\ op' = [op EXCEPT ![p] = o]
  /\ reply' = [reply EXCEPT ![p] = NoReply]

Init ==
  /\ now = 0
  /\ issued = {}
  /\ store = {}
  /\ closed = {}
  /\ op = [p \in Procs |-> Idle]
  /\ reply = [p \in Procs |-> NoReply]
  /\ wipes = 0
  /\ sent = {}
  /\ revoked = {}
  /\ erased = {}

\* Sign reads the clock once and touches no store.
Sign(p, a, u) ==
  LET t == Claims(u, now) IN
  /\ op[p] = Idle
  /\ issued' = issued \cup {t}
  /\ Return(p, Answer("Sign", a, t, "ok"))
  /\ UNCHANGED <<now, store, closed, wipes, history>>

\* SignedString refuses a key that does not suit the method.
SignFailed(p, a) ==
  /\ op[p] = Idle
  /\ Return(p, [call |-> "Sign", inst |-> a, res |-> "SignTokenFailed"])
  /\ UNCHANGED <<now, issued, store, closed, wipes, history>>

-----------------------------------------------------------------------------
(* Destroy *)

DestroyRefused(p, a, t) ==
  /\ op[p] = Idle
  /\ parseToken(t) # "ok"
  /\ Return(p, Answer("Destroy", a, t, parseToken(t)))
  /\ UNCHANGED <<now, issued, store, closed, wipes, history>>

\* callStore: without a store there is nothing to do and nil is returned.
DestroyWithoutStore(p, a, t) ==
  /\ op[p] = Idle
  /\ parseToken(t) = "ok"
  /\ a \in Storeless
  /\ Return(p, Answer("Destroy", a, t, "ok"))
  /\ revoked' = revoked \cup {<<a, t>>}
  /\ UNCHANGED <<now, issued, store, closed, wipes, sent, erased>>

DestroyParsed(p, a, t) ==
  /\ op[p] = Idle
  /\ parseToken(t) = "ok"
  /\ a \notin Storeless
  /\ Begin(p, [pc |-> "destroying", inst |-> a, tok |-> t])
  /\ UNCHANGED <<now, issued, store, closed, wipes, history>>

\* time.Until found the token expired between its parsing and this point.
DestroyTooLate(p) ==
  /\ op[p].pc = "destroying"
  /\ now >= op[p].tok.exp
  /\ Return(p, Answer("Destroy", op[p].inst, op[p].tok, "ok"))
  /\ revoked' = revoked \cup {<<op[p].inst, op[p].tok>>}
  /\ UNCHANGED <<now, issued, store, closed, wipes, sent, erased>>

\* A closed client refuses the command.
DestroyClosed(p) ==
  /\ op[p].pc = "destroying"
  /\ now < op[p].tok.exp
  /\ op[p].inst \in closed
  /\ Return(p, Answer("Destroy", op[p].inst, op[p].tok, "StoreError"))
  /\ UNCHANGED <<now, issued, store, closed, wipes, history>>

DestroySend_AbsoluteTime(p) ==
  LET t == op[p].tok IN
  /\ op[p].pc = "destroying"
  /\ now < t.exp
  /\ op[p].inst \notin closed
  /\ \E d \in Expirations(t.exp) :
       op' = [op EXCEPT ![p] = [pc |-> "setting", inst |-> op[p].inst,
                                tok |-> t, expired |-> d, applied |-> FALSE]]
  /\ sent' = sent \cup {t}
  /\ UNCHANGED <<now, issued, store, closed, reply, wipes, revoked, erased>>

DestroySend(p) ==
  LET t == op[p].tok IN
  /\ op[p].pc = "destroying"
  /\ now < t.exp
  /\ op[p].inst \notin closed
  /\ \E d \in Expirations(t.exp - now) :
       op' = [op EXCEPT ![p] = [pc |-> "setting", inst |-> op[p].inst,
                                tok |-> t, expired |-> d, applied |-> FALSE]]
  /\ sent' = sent \cup {t}
  /\ UNCHANGED <<now, issued, store, closed, reply, wipes, revoked, erased>>

RedisSet_PlainToken(p) ==
  LET t == op[p].tok IN
  /\ op[p].pc \in {"setting", "late"}
  /\ store' = store \cup {[key |-> wrapperKey(t), deadline |-> now + op[p].expired]}
  /\ op' = [op EXCEPT ![p].applied = TRUE]
  /\ erased' = erased \ {t}
  /\ UNCHANGED <<now, issued, closed, reply, wipes, sent, revoked>>

\* Redis executes the Set: at any time after it was sent, again when the
\* client retries, and also after the caller was told that it had failed.
RedisSet(p) ==
  LET t == op[p].tok IN
  /\ op[p].pc \in {"setting", "late"}
  /\ store' = {e \in store : e.key # KeyOf(t)}
                \cup {[key |-> KeyOf(t), deadline |-> now + op[p].expired]}
  /\ op' = [op EXCEPT ![p].applied = TRUE]
  /\ erased' = erased \ {t}
  /\ UNCHANGED <<now, issued, closed, reply, wipes, sent, revoked>>

DestroyAcked_NoWait(p) ==
  /\ op[p].pc = "setting"
  /\ Return(p, Answer("Destroy", op[p].inst, op[p].tok, "ok"))
  /\ revoked' = revoked \cup {<<op[p].inst, op[p].tok>>}
  /\ UNCHANGED <<now, issued, store, closed, wipes, sent, erased>>

DestroyAcked(p) ==
  /\ op[p].pc = "setting"
  /\ op[p].applied
  /\ Return(p, Answer("Destroy", op[p].inst, op[p].tok, "ok"))
  /\ revoked' = revoked \cup {<<op[p].inst, op[p].tok>>}
  /\ UNCHANGED <<now, issued, store, closed, wipes, sent, erased>>

\* The command or its reply is lost; the command may still be on its way.
DestroyFailed(p) ==
  /\ op[p].pc = "setting"
  /\ op' = [op EXCEPT ![p].pc = "late"]
  /\ reply' = [reply EXCEPT ![p] =
                 Answer("Destroy", op[p].inst, op[p].tok, "StoreError")]
  /\ UNCHANGED <<now, issued, store, closed, wipes, history>>

\* Nothing of the failed command is left.
LateSetGone(p) ==
  /\ op[p].pc = "late"
  /\ op' = [op EXCEPT ![p] = Idle]
  /\ UNCHANGED <<now, issued, store, closed, reply, wipes, history>>

-----------------------------------------------------------------------------
(* ParseClaims *)

ParseRefused(p, a, t) ==
  /\ op[p] = Idle
  /\ parseToken(t) # "ok"
  /\ Return(p, Answer("ParseClaims", a, t, parseToken(t)))
  /\ UNCHANGED <<now, issued, store, closed, wipes, history>>

ParseWithoutStore(p, a, t) ==
  /\ op[p] = Idle
  /\ parseToken(t) = "ok"
  /\ a \in Storeless
  /\ Return(p, Answer("ParseClaims", a, t, "ok"))
  /\ UNCHANGED <<now, issued, store, closed, wipes, history>>

Parsed(p, a, t) ==
  /\ op[p] = Idle
  /\ parseToken(t) = "ok"
  /\ a \notin Storeless
  \* knew is history: the token had been destroyed before this call began
  /\ Begin(p, [pc |-> "checking", inst |-> a, tok |-> t,
               knew |-> Destroyed(t)])
  /\ UNCHANGED <<now, issued, store, closed, wipes, history>>

\* Redis executes EXISTS, again when its reply was lost and the client repeats
\* the command; the answer then travels to the caller while others go on.
\* taken is history: the token was off the list by a Delete or a loss of data.
RedisExists(p) ==
  /\ op[p].pc \in {"checking", "answered"}
  /\ op[p].inst \notin closed
  /\ op' = [op EXCEPT ![p] =
               [pc |-> "answered", inst |-> op[p].inst, tok |-> op[p].tok,
                knew |-> op[p].knew, found |-> Exists(op[p].tok),
                taken |-> op[p].tok \in erased]]
  /\ UNCHANGED <<now, issued, store, closed, reply, wipes, history>>

CheckFails_Open(p) ==
  /\ op[p].pc \in {"checking", "answered"}
  /\ Return(p, Answer("ParseClaims", op[p].inst, op[p].tok, "ok"))
  /\ UNCHANGED <<now, issued, store, closed, wipes, history>>

\* The client is closed, or the command or its reply is lost.
CheckFails(p) ==
  /\ op[p].pc \in {"checking", "answered"}
  /\ Return(p, Answer("ParseClaims", op[p].inst, op[p].tok, "StoreError"))
  /\ UNCHANGED <<now, issued, store, closed, wipes, history>>

CheckFinds(p) ==
  /\ op[p].pc = "answered"
  /\ op[p].found
  /\ Return(p, Answer("ParseClaims", op[p].inst, op[p].tok, "TokenInvalid"))
  /\ UNCHANGED <<now, issued, store, closed, wipes, history>>

CheckPasses_Unasked(p) ==
  /\ op[p].pc = "checking"
  /\ Return(p, Answer("ParseClaims", op[p].inst, op[p].tok, "ok"))
  /\ UNCHANGED <<now, issued, store, closed, wipes, history>>

CheckPasses(p) ==
  /\ op[p].pc = "answered"
  /\ ~op[p].found
  /\ Return(p, Answer("ParseClaims", op[p].inst, op[p].tok, "ok"))
  /\ UNCHANGED <<now, issued, store, closed, wipes, history>>

-----------------------------------------------------------------------------
(* The rest of the store, and the world *)

\* Release closes the client; without a store it does nothing.
Release(a) ==
  /\ a \notin Storeless
  /\ closed' = closed \cup {a}
  /\ UNCHANGED <<now, issued, store, calls, wipes, history>>

\* Store.Delete, which takes a token off the blacklist.
Delete(a, t) ==
  /\ a \notin Storeless \cup closed
  /\ \E e \in store : e.key = KeyOf(t)
  /\ store' = {e \in store : e.key # KeyOf(t)}
  /\ erased' = erased \cup {t}
  /\ UNCHANGED <<now, issued, closed, calls, wipes, sent, revoked>>

\* Time passes, and redis drops what has expired.
Tick ==
  /\ now < MaxTime
  /\ now' = now + 1
  /\ store' = {e \in store : now + 1 <= e.deadline}
  /\ UNCHANGED <<issued, closed, calls, wipes, history>>

\* Redis restarts without its data.
RedisRestart ==
  /\ wipes < MaxWipes
  /\ wipes' = wipes + 1
  /\ store' = {}
  /\ erased' = erased \cup {t \in issued : \E e \in store : e.key = KeyOf(t)}
  /\ UNCHANGED <<now, issued, closed, calls, sent, revoked>>

Destroy(p) ==
  \/ \E a \in Instances, t \in Presentable :
       \/ DestroyRefused(p, a, t)
       \/ DestroyWithoutStore(p, a, t)
       \/ DestroyParsed(p, a, t)
  \/ DestroyTooLate(p)
  \/ DestroyClosed(p)
  \/ DestroySend(p)
  \/ RedisSet(p)
  \/ DestroyAcked(p)
  \/ DestroyFailed(p)
  \/ LateSetGone(p)

ParseClaims(p) ==
  \/ \E a \in Instances, t \in Presentable :
       \/ ParseRefused(p, a, t)
       \/ ParseWithoutStore(p, a, t)
       \/ Parsed(p, a, t)
  \/ RedisExists(p)
  \/ CheckFails(p)
  \/ CheckFinds(p)
  \/ CheckPasses(p)

Next ==
  \/ \E p \in Procs :
       \/ \E a \in Instances, u \in Users : Sign(p, a, u)
       \/ \E a \in Instances : SignFailed(p, a)
       \/ Destroy(p)
       \/ ParseClaims(p)
  \/ \E a \in Instances : Release(a)
  \/ \E a \in Instances, t \in issued : Delete(a, t)
  \/ Tick
  \/ RedisRestart

Spec == Init /\ [][Next]_vars

-----------------------------------------------------------------------------
(* Properties *)

Results == {"ok", "TokenInvalid", "TokenParseFail", "TokenExpired",
            "UnSupportSigningMethod", "StoreError"}

Operation ==
  {Idle}
    \cup [pc: {"destroying"}, inst: Instances \ Storeless, tok: issued]
    \cup [pc: {"setting", "late"}, inst: Instances \ Storeless, tok: issued,
          expired: Int, applied: BOOLEAN]
    \cup [pc: {"checking"}, inst: Instances \ Storeless, tok: issued,
          knew: BOOLEAN]
    \cup [pc: {"answered"}, inst: Instances \ Storeless, tok: issued,
          knew: BOOLEAN, found: BOOLEAN, taken: BOOLEAN]

Reply ==
  {NoReply}
    \cup [call: {"Sign"}, inst: Instances, res: {"SignTokenFailed"}]
    \cup [call: {"Sign", "Destroy", "ParseClaims"}, inst: Instances,
          tok: Presentable, res: Results]

TypeOK ==
  /\ now \in 0..MaxTime
  /\ issued \subseteq {t \in Token : t.class = "own"}
  /\ store \subseteq [key: {KeyOf(t) : t \in issued}, deadline: Int]
  /\ closed \subseteq Instances \ Storeless
  /\ op \in [Procs -> Operation]
  /\ reply \in [Procs -> Reply]
  /\ wipes \in 0..MaxWipes
  /\ sent \subseteq issued
  /\ revoked \subseteq Instances \X issued
  /\ erased \subseteq issued

\* Until a destroyed token expires redis answers for its key, whatever delays
\* separate time.Until, the Set and its retries from each other: the entry
\* never runs out before the token does (jwt.go, Destroy; redis.go, Set).
RevocationCoversLife ==
  \A t \in issued :
    Destroyed(t) /\ now < t.exp /\ t \notin erased => Exists(t)

\* No entry has longer to live than a token can: the blacklist drains.
BlacklistDrains == \A e \in store : e.deadline <= now + Lifetime

\* ParseClaims calls a well-formed token of its own invalid only when a
\* Destroy of that very token was sent to redis, however many tokens, users
\* and concurrent calls share the blacklist.
RejectionJustified ==
  \A p \in Procs :
    reply[p].call = "ParseClaims" /\ reply[p].res = "TokenInvalid"
      => reply[p].tok \in sent \/ reply[p].tok \in ForeignTokens

\* p's ParseClaims, on an instance with a store, returns claims in this step.
Accepts(p) ==
  /\ op[p].pc \in {"checking", "answered"}
  /\ reply'[p].call = "ParseClaims"
  /\ reply'[p].res = "ok"

\* When redis was asked the token was off the list for a reason on record.
TakenOff(p) == op[p].pc = "answered" /\ op[p].taken

\* A ParseClaims that begins after a Destroy of the token has returned nil does
\* not return its claims while the token lives, whatever happens between the
\* parsing, redis' answer and the return: other calls, a failing or a closed
\* store.  Only a Delete or a loss of redis' data before the answer excuses it.
\* (A Destroy that returns while the call is under way may come too late.)
RevokedStaysRejected ==
  [][\A p \in Procs :
       Accepts(p) /\ op[p].knew /\ now < op[p].tok.exp => TakenOff(p)]_vars

\* A token is usable at the moment Sign returns it and never lives longer than
\* options.expired, although the claims drop the fraction of a second.
SignedTokenValid ==
  [][\A p \in Procs, t \in issued' :
       (/\ reply'[p] # reply[p] /\ reply'[p].call = "Sign"
        /\ reply'[p].res = "ok" /\ reply'[p].tok = t)
         => /\ t.iat <= now /\ now < t.exp
            /\ now + Lifetime - t.exp \in 0..(Sec - 1)]_vars

-----------------------------------------------------------------------------
(* The inductive invariant *)

\* The life of a token is measured from a clock reading of the past.
LifetimeBound == \A t \in issued : t.exp <= now + Lifetime

\* A Set on its way carries enough life: applied now or later, the entry
\* reaches the last millisecond before the token expires.
CommandCovers ==
  \A p \in Procs :
    op[p].pc \in {"setting", "late"}
      => /\ op[p].tok \in sent
         /\ op[p].tok.exp - 1 <= now + op[p].expired
         /\ op[p].expired <= Lifetime

EntryCovers ==
  \A e \in store, t \in issued :
    e.key = KeyOf(t) => t \in sent /\ t.exp - 1 <= e.deadline

\* A Set that redis has executed is visible before Destroy returns.
AppliedCovers ==
  \A p \in Procs :
    op[p].pc = "setting" /\ op[p].applied
      => (now < op[p].tok.exp /\ op[p].tok \notin erased => Exists(op[p].tok))

\* RevocationCoversLife is not inductive by itself: between time.Until and
\* the Set, and between the Set and its reply, the promise is carried by the
\* command and by the entry.
BlacklistInvariant ==
  /\ LifetimeBound
  /\ CommandCovers
  /\ EntryCovers
  /\ AppliedCovers
  /\ RevocationCoversLife
  /\ BlacklistDrains

\* What redis answered stays true of the call although the blacklist moves on:
\* a found token had its Destroy sent, and one that a Destroy had answered for
\* when the call began is missing only if it was taken off or has expired.
AnswersHold ==
  \A p \in Procs :
    /\ op[p].pc \in {"checking", "answered"} /\ op[p].knew => Destroyed(op[p].tok)
    /\ op[p].pc = "answered" /\ op[p].found => op[p].tok \in sent
    /\ op[p].pc = "answered" /\ op[p].knew /\ ~op[p].found
         => op[p].taken \/ now >= op[p].tok.exp

\* The whole of the inductive invariant, the types included (jwt.go, Destroy and
\* ParseClaims; redis.go, Set and Check).
AuthInvariant == TypeOK /\ BlacklistInvariant /\ AnswersHold

-----------------------------------------------------------------------------
(* A statement of the documentation the code does not keep *)

\* "Destroy 用于销毁一个 token": a call of ParseClaims that begins after the
\* Destroy returned nil is refused.
DestroyedNeverAccepted ==
  [][\A p \in Procs : Accepts(p) /\ op[p].knew => TakenOff(p)]_vars

-----------------------------------------------------------------------------
(* The authenticator implements the registry of revocable tokens *)

\* The token p's call has found good: redis' answer decides, the return tells.
Verdict(p) ==
  IF op[p].pc = "answered" /\ ~op[p].found THEN op[p].tok
  ELSE IF /\ reply[p].call = "ParseClaims" /\ reply[p].res = "ok"
          /\ reply[p].inst \notin Storeless
  THEN reply[p].tok
  ELSE NoReply

Registry ==
  INSTANCE TokenRegistry WITH
    Tokens <- Token,
    None <- NoReply,
    revoked <- {t \in issued : Exists(t)},
    expired <- {t \in issued : now >= t.exp},
    restored <- erased,
    verdict <- [p \in Procs |-> Verdict(p)]

RegistrySpec == Registry!Spec

=============================================================================
