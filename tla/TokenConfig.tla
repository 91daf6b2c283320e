----------------------------- MODULE TokenConfig -----------------------------
(***************************************************************************)
(* The process-wide configuration of token/token.go, which Init may change *)
(* at any time (a hot reload), and the calls that sign and parse tokens    *)
(* meanwhile.                                                              *)
(*                                                                         *)
(* Init and Reset hold configMu; Sign, SignWithClaims and the reading of   *)
(* the key in ParseRequest take it for reading; Parse, GetClaims,          *)
(* shouldSkipPath and extractIdentity read the configuration without it.   *)
(* A field is the header of a string or slice, data and len, which are     *)
(* written one after the other: who reads between them gets the empty      *)
(* value, a wrong one, or a fault.                                         *)
(*                                                                         *)
(* Of a token we keep the key it is signed with, the names of its claims   *)
(* that hold an identity (a string that is not empty), and which function  *)
(* signed it: Sign puts the identity under the configured name,            *)
(* SignWithClaims takes any claims of its caller.                          *)
(*                                                                         *)
(* A definition Name_Mistake is a mistake one could make in Name; nothing  *)
(* uses it but the experiments that put it in Name's place.                *)
(***************************************************************************)
EXTENDS Naturals, FiniteSets

CONSTANTS
  Callers,    \* goroutines
  SecretKeys, \* the keys programs configure
  Names,      \* the names of the claim that holds the identity
  DefaultName,\* "identityKey", the name Reset configures
  Empty,      \* the empty string, the empty list of paths
  Garbled,    \* what a reader makes of the halves of two values
  MaxWrites,  \* bound: calls of Init and Reset
  MaxTokens   \* bound: of the tokens signed those that are kept

ASSUME TokenAssumption ==
  /\ DefaultName \in Names
  /\ {Empty, Garbled} \cap (SecretKeys \cup Names) = {}
  /\ Garbled \notin {Empty, "foreign"}
  /\ Garbled \notin Callers
  /\ MaxWrites \in Nat
  /\ MaxTokens \in Nat

VARIABLES
  config,  \* config[f]: the words of field f
  writer,  \* who holds configMu for writing
  todo,    \* todo[c]: the words Init or Reset has yet to write, and their values
  call,    \* call[c]: the call c is in, and how far
  seen,    \* seen[c]: what c has read of the configuration
  reply,   \* what the last step has returned to its caller
  tokens,  \* the tokens signed so far, up to MaxTokens
  writes,  \* calls of Init and Reset so far
  \* history, read by no action
  released,\* the pairs of key and identity key configMu has been released with
  inForce  \* inForce[c]: the fields and values that were configured during c's call

tokenVars == <<config, writer, todo, call, seen, reply, tokens, writes, released, inForce>>

Fields == {"key", "identityKey", "skipPaths"}
HeaderWords == {"data", "len"}
Values ==
  [key |-> SecretKeys \cup {Empty}, identityKey |-> Names \cup {Empty},
   skipPaths |-> {"listed", Empty}]
Nobody == Garbled

Whole(f) == config[f].data = config[f].len

\* The value of a field for a reader without the lock.
Glimpse(f) ==
  IF Whole(f) THEN {config[f].data}
  ELSE IF config[f].len = Empty THEN {Empty} ELSE {Garbled, "fault"}

\* The value of a field for a reader with the lock.
Held(f) == config[f].data

\* A token this package has not signed.
Foreign == [key |-> "foreign", claims |-> {}, by |-> "others"]
Idle == [kind |-> "none", at |-> "idle", token |-> Foreign]
NoReply == "none"
Nothing == [key |-> Empty, claim |-> Empty]

TokenInit ==
  /\ config = [f \in Fields |-> [w \in HeaderWords |-> Empty]]
  /\ writer = Nobody
  /\ todo = [c \in Callers |-> {}]
  /\ call = [c \in Callers |-> Idle]
  /\ seen = [c \in Callers |-> Nothing]
  /\ reply = NoReply
  /\ tokens = {}
  /\ writes = 0
  /\ released = {[key |-> Empty, claim |-> Empty]}
  /\ inForce = [c \in Callers |-> {}]

\* c's call goes on at step to.
Proceed(c, kind, from, to) ==
  /\ call[c].kind = kind
  /\ call[c].at = from
  /\ call' = [call EXCEPT ![c].at = to]
  /\ reply' = NoReply

Returns(c, res) ==
  /\ reply' = res
  /\ inForce' = [inForce EXCEPT ![c] = {}]
  /\ call' = [call EXCEPT ![c] = Idle]
  /\ seen' = [seen EXCEPT ![c] = Nothing]

\* What config holds for somebody who reads it now, with the lock or without.
Configured == {<<f, config[f][w]>> : f \in {"key", "identityKey"}, w \in HeaderWords}

\* A call of kind begins, about token t.
Starts(c, kind, t) ==
  /\ call[c].at = "idle"
  /\ call' = [call EXCEPT ![c] = [kind |-> kind, at |-> "begun", token |-> t]]
  /\ inForce' = [inForce EXCEPT ![c] = IF kind \in {"Parse", "ParseRequest"}
                                       THEN Configured ELSE {}]
  /\ reply' = NoReply
  /\ UNCHANGED <<config, writer, todo, seen, tokens, released>>

-----------------------------------------------------------------------------
(* Init and Reset *)

Defaults == [key |-> Empty, identityKey |-> DefaultName, skipPaths |-> Empty]

Words(n) == {<<f, w, n[f]>> : f \in DOMAIN n, w \in HeaderWords}

Write(c, kind) ==
  /\ writes < MaxWrites
  /\ writes' = writes + 1
  /\ Starts(c, kind, Foreign)

\* Reset has the whole structure to write, in an order of its own.
Lock(c) ==
  /\ writer = Nobody
  /\ writer' = c
  /\ \/ /\ Proceed(c, "Init", "begun", "locked")
        /\ UNCHANGED todo
     \/ /\ Proceed(c, "Reset", "begun", "locked")
        /\ todo' = [todo EXCEPT ![c] = Words(Defaults)]
  /\ UNCHANGED <<config, seen, tokens, writes, released, inForce>>

\* Init's own key, then one option after the other, in any order and as often
\* as the caller lists it; only WithIdentityKey writes the empty value too.
ApplyOption(c) ==
  /\ call[c].kind = "Init" /\ call[c].at = "locked"
  /\ todo[c] = {}
  /\ \E f \in Fields : \E v \in Values[f] :
       /\ f # "identityKey" => v # Empty
       /\ todo' = [todo EXCEPT ![c] = {<<f, w, v>> : w \in HeaderWords}]
  /\ reply' = NoReply
  /\ UNCHANGED <<config, writer, call, seen, tokens, writes, released, inForce>>

Assign(c) ==
  /\ call[c].at = "locked"
  /\ \E x \in todo[c] :
       /\ config' = [config EXCEPT ![x[1]][x[2]] = x[3]]
       /\ todo' = [todo EXCEPT ![c] = @ \ {x}]
       /\ inForce' = [d \in Callers |->
                         IF x[1] = "skipPaths" \/ inForce[d] = {} THEN inForce[d]
                         ELSE inForce[d] \cup {<<x[1], x[3]>>}]
  /\ reply' = NoReply
  /\ UNCHANGED <<writer, call, seen, tokens, writes, released>>

Released ==
  /\ writer' = Nobody
  /\ released' = released \cup {[key |-> Held("key"), claim |-> Held("identityKey")]}
  /\ UNCHANGED <<config, tokens, writes>>

Unlock_Early(c) ==
  /\ call[c].at = "locked"
  /\ writer = c
  /\ Released
  /\ reply' = NoReply
  /\ UNCHANGED <<todo, call, seen, inForce>>

Unlock(c) ==
  /\ call[c].at = "locked"
  /\ todo[c] = {}
  /\ Returns(c, "done")
  /\ Released
  /\ UNCHANGED todo

InitPanics_KeepsLock(c) ==
  /\ call[c].kind = "Init" /\ call[c].at = "locked"
  /\ todo[c] = {}
  /\ Returns(c, "fault")
  /\ UNCHANGED <<config, writer, todo, tokens, writes, released>>

\* An option panics: what came before it stays, and the lock is released.
InitPanics(c) ==
  /\ call[c].kind = "Init" /\ call[c].at = "locked"
  /\ todo[c] = {}
  /\ Returns(c, "fault")
  /\ Released
  /\ UNCHANGED todo

-----------------------------------------------------------------------------
(* Sign, SignWithClaims *)

Signs(c) == call[c].kind \in {"Sign", "SignWithClaims"} /\ call[c].at = "taken"

Signed(c, claims) ==
  /\ seen[c].key # Empty
  /\ tokens' = tokens \cup
       IF Cardinality(tokens) < MaxTokens
       THEN {[key |-> seen[c].key, claims |-> claims, by |-> call[c].kind]} ELSE {}
  /\ Returns(c, "signed")
  /\ UNCHANGED <<config, writer, todo, writes, released>>

TakeConfig_Unlocked(c) ==
  /\ Proceed(c, "Sign", "begun", "taken")
  /\ \E k \in Glimpse("key"), n \in Glimpse("identityKey") :
       seen' = [seen EXCEPT ![c] = [key |-> k, claim |-> n]]
  /\ UNCHANGED <<config, writer, todo, tokens, writes, released, inForce>>

\* Sign reads everything it needs under one read lock.
TakeConfig(c) ==
  /\ writer = Nobody
  /\ Proceed(c, "Sign", "begun", "taken")
  /\ seen' = [seen EXCEPT ![c] = [key |-> Held("key"), claim |-> Held("identityKey")]]
  /\ UNCHANGED <<config, writer, todo, tokens, writes, released, inForce>>

\* SignWithClaims does not ask for the name.
TakeSigningKey(c) ==
  /\ writer = Nobody
  /\ Proceed(c, "SignWithClaims", "begun", "taken")
  /\ seen' = [seen EXCEPT ![c].key = Held("key")]
  /\ UNCHANGED <<config, writer, todo, tokens, writes, released, inForce>>

NoSigningKey(c) ==
  /\ Signs(c)
  /\ seen[c].key = Empty
  /\ Returns(c, "keyless")
  /\ UNCHANGED <<config, writer, todo, tokens, writes, released>>

\* Claims of the caller that JSON cannot express.
SigningFails(c) ==
  /\ Signs(c) /\ call[c].kind = "SignWithClaims"
  /\ seen[c].key # Empty
  /\ Returns(c, "unsigned")
  /\ UNCHANGED <<config, writer, todo, tokens, writes, released>>

Sign_RereadsName(c) ==
  /\ Signs(c) /\ call[c].kind = "Sign"
  /\ \E n \in Glimpse("identityKey") : Signed(c, {n} \ {Empty})

\* The identity is in the token if the claim has a name and the caller gives one.
Sign(c) ==
  /\ Signs(c) /\ call[c].kind = "Sign"
  /\ \E claims \in {{seen[c].claim} \ {Empty}, {}} : Signed(c, claims)

\* The caller's claims, whatever their names.
SignWithClaims(c) ==
  /\ Signs(c) /\ call[c].kind = "SignWithClaims"
  /\ \E claims \in SUBSET Names : Signed(c, claims)

-----------------------------------------------------------------------------
(* ParseRequest, ParseIdentity *)

\* shouldSkipPath ranges over skipPaths without the lock; the path may or may
\* not be the one that is listed.
SkipCheck(c) ==
  /\ \E p \in Glimpse("skipPaths") :
       \/ /\ p \in {"listed", Garbled}
          /\ call[c].kind = "ParseRequest" /\ call[c].at = "begun"
          /\ Returns(c, "skipped")
       \/ /\ p = "fault"
          /\ call[c].kind = "ParseRequest" /\ call[c].at = "begun"
          /\ Returns(c, "fault")
       \/ /\ p # "fault"
          /\ Proceed(c, "ParseRequest", "begun", "unskipped")
          /\ UNCHANGED <<seen, inForce>>
  /\ UNCHANGED <<config, writer, todo, tokens, writes, released>>

TakeKey(c) ==
  /\ writer = Nobody
  /\ Proceed(c, "ParseRequest", "unskipped", "taken")
  /\ seen' = [seen EXCEPT ![c].key = Held("key")]
  /\ UNCHANGED <<config, writer, todo, tokens, writes, released, inForce>>

\* jwt.Parse refuses an empty key, another key's signature and what is expired.
Refuse(c) ==
  /\ call[c].kind = "ParseRequest" /\ call[c].at = "taken"
  /\ Returns(c, "refused")
  /\ UNCHANGED <<config, writer, todo, tokens, writes, released>>

ParseIdentity_AnyKey(c) ==
  /\ Proceed(c, "ParseRequest", "taken", "verified")
  /\ seen[c].key # Empty
  /\ UNCHANGED <<config, writer, todo, seen, tokens, writes, released, inForce>>

ParseIdentity(c) ==
  /\ Proceed(c, "ParseRequest", "taken", "verified")
  /\ seen[c].key # Empty
  /\ call[c].token.key = seen[c].key
  /\ UNCHANGED <<config, writer, todo, seen, tokens, writes, released, inForce>>

\* extractIdentity: the comparison with "" looks at the length only.
ExtractIdentity(c) ==
  /\ \/ /\ config["identityKey"].len # Empty
        /\ Proceed(c, "ParseRequest", "verified", "named")
        /\ UNCHANGED <<seen, inForce>>
     \/ /\ call[c].kind = "ParseRequest" /\ call[c].at = "verified"
        /\ config["identityKey"].len = Empty
        /\ Returns(c, "anonymous")
  /\ UNCHANGED <<config, writer, todo, tokens, writes, released>>

\* It reads the name again to look the claim up.
LookupIdentity(c) ==
  /\ call[c].kind = "ParseRequest" /\ call[c].at = "named"
  /\ \E n \in Glimpse("identityKey") :
       Returns(c, IF n = "fault" THEN "fault"
                  ELSE IF n \in call[c].token.claims THEN "identity"
                  ELSE "missing")
  /\ UNCHANGED <<config, writer, todo, tokens, writes, released>>

-----------------------------------------------------------------------------
(* Parse, GetClaims *)

ParseKeySet(c) ==
  /\ \/ /\ config["key"].len # Empty
        /\ Proceed(c, "Parse", "begun", "keyed")
        /\ UNCHANGED <<seen, inForce>>
     \/ /\ call[c].kind = "Parse" /\ call[c].at = "begun"
        /\ config["key"].len = Empty
        /\ Returns(c, "refused")
  /\ UNCHANGED <<config, writer, todo, tokens, writes, released>>

\* The key function reads the key again, which may be another one by now.
ParseVerifies(c) ==
  /\ call[c].kind = "Parse" /\ call[c].at = "keyed"
  /\ \E k \in Glimpse("key"), expired \in BOOLEAN :
       Returns(c, IF k = "fault" THEN "fault"
                  ELSE IF k = call[c].token.key /\ ~expired THEN "valid" ELSE "refused")
  /\ UNCHANGED <<config, writer, todo, tokens, writes, released>>

-----------------------------------------------------------------------------

Begin(c) ==
  \/ \E kind \in {"Init", "Reset"} : Write(c, kind)
  \/ \E kind \in {"Sign", "SignWithClaims"} : Starts(c, kind, Foreign) /\ UNCHANGED writes
  \/ \E kind \in {"ParseRequest", "Parse"}, t \in tokens \cup {Foreign} :
       Starts(c, kind, t) /\ UNCHANGED writes

Continue(c) ==
  \/ Lock(c) \/ ApplyOption(c) \/ Assign(c) \/ Unlock(c) \/ InitPanics(c)
  \/ TakeConfig(c) \/ TakeSigningKey(c) \/ NoSigningKey(c) \/ SigningFails(c)
  \/ Sign(c) \/ SignWithClaims(c)
  \/ SkipCheck(c) \/ TakeKey(c) \/ Refuse(c) \/ ParseIdentity(c)
  \/ ExtractIdentity(c) \/ LookupIdentity(c)
  \/ ParseKeySet(c) \/ ParseVerifies(c)

TokenNext == \E c \in Callers : Begin(c) \/ Continue(c)

TokenSpec == TokenInit /\ [][TokenNext]_tokenVars

-----------------------------------------------------------------------------
(* Properties *)

TokenTypeOK ==
  /\ \A f \in Fields, w \in HeaderWords : config[f][w] \in Values[f]
  /\ writer \in Callers \cup {Nobody}
  /\ \A c \in Callers :
       /\ \A x \in todo[c] : x[1] \in Fields /\ x[2] \in HeaderWords /\ x[3] \in Values[x[1]]
       /\ call[c].token \in tokens \cup {Foreign}
       /\ seen[c].key \in Values.key /\ seen[c].claim \in Values.identityKey
  /\ writes \in 0..MaxWrites

\* Whoever holds configMu for reading finds the configuration whole, also when
\* an option has panicked in Init (token.go, Init, Sign).
ConfigWhole == writer = Nobody => \A f \in Fields : Whole(f)

\* configMu is held by the one call of Init or Reset that is still writing, and
\* by no call that has returned, whatever panicked in it (token.go, Init, Reset).
LockOfAWriter ==
  \A c \in Callers : call[c].at = "locked" \/ todo[c] # {} <=> writer = c

\* What the lock promises, whoever reads: the parts above are inductive together.
TokenInvariant == TokenTypeOK /\ ConfigWhole /\ LockOfAWriter

\* Every token is signed with a key that was configured, and one of Sign carries
\* no name but the one configured together with that key, whatever Init does
\* meanwhile; SignWithClaims promises no name (Sign, SignWithClaims).
SignedTogether ==
  \A t \in tokens :
    /\ t.key # Empty
    /\ \E p \in released :
         /\ t.key = p.key
         /\ t.by = "Sign" => t.claims \subseteq {p.claim}

\* A verdict rests on what was configured during the call: a token is accepted
\* with a key of that time, an identity is taken from a claim with a name of
\* that time, and none is asked for only if none was configured (ParseIdentity,
\* extractIdentity, Parse, which read parts of the configuration unlocked).
VerdictInForce ==
  [][\A c \in Callers :
       LET t == call[c].token IN
       call[c].at # "idle" /\ call'[c].at = "idle" =>
         /\ reply' \in {"valid", "identity", "anonymous"} => <<"key", t.key>> \in inForce[c]
         /\ reply' = "identity" => \E n \in t.claims : <<"identityKey", n>> \in inForce[c]
         /\ reply' = "anonymous" => <<"identityKey", Empty>> \in inForce[c]]_tokenVars

=============================================================================
