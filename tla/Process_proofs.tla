-------------------------- MODULE Process_proofs ----------------------------
(***************************************************************************)
(* Proofs about what a process keeps for itself: TokenConfig, for any      *)
(* goroutines, keys and names and any number of calls of Init and Reset;   *)
(* Settings, for any options; Versions, for any version and pre-release    *)
(* identifiers; Identifiers, for any characters, lengths and multipliers.  *)
(*                                                                         *)
(* That the token's configuration is whole when nobody writes is not       *)
(* inductive: a field is written word by word, so it must be known, of     *)
(* each field, what the writer has still to write.                         *)
(*                                                                         *)
(* Versions are compared place by place, so they are ordered like the rows *)
(* of their numbers padded with zeros; the search keeps the best of those  *)
(* it has seen.                                                            *)
(***************************************************************************)
EXTENDS TokenConfig, Settings, Versions, Identifiers, Foundations, FiniteSetTheorems

-----------------------------------------------------------------------------
(* The token package                                                       *)

AnyValue == SecretKeys \cup Names \cup {Empty, "listed"}

Kinds == {"none", "Init", "Reset", "Sign", "SignWithClaims", "ParseRequest", "Parse"}
Stages == {"idle", "begun", "locked", "taken", "unskipped", "verified", "named", "keyed"}
Calls == [kind : Kinds, at : Stages, token : tokens \cup {Foreign}]

\* The types the actions rely on; TokenTypeOK says what is in the fields.
WellFormed ==
  /\ config \in [Fields -> [HeaderWords -> AnyValue]]
  /\ todo \in [Callers -> SUBSET (Fields \X HeaderWords \X AnyValue)]
  /\ call \in [Callers -> Calls]
  /\ seen \in [Callers -> [key : Values.key, claim : Values.identityKey]]

\* What c has still to write of field f.
Left(c, f) == {x \in todo[c] : x[1] = f}

\* A field is written in two steps and is whole before the first, and after the
\* second.
Half(c, f) ==
  \/ Whole(f) /\ Left(c, f) = {}
  \/ Whole(f) /\ \E v \in Values[f] : Left(c, f) = {<<f, "data", v>>, <<f, "len", v>>}
  \/ \E v \in Values[f] : Left(c, f) = {<<f, "data", v>>} /\ config[f]["len"] = v
  \/ \E v \in Values[f] : Left(c, f) = {<<f, "len", v>>} /\ config[f]["data"] = v

Writing ==
  /\ \A c \in Callers : todo[c] # {} => call[c].at = "locked"
  /\ \A c \in Callers : writer = c => \A f \in Fields : Half(c, f)

\* The configuration that may be read has been released, and who is about to
\* sign has read one that was.
Signing ==
  /\ writer = Nobody =>
       [key |-> Held("key"), claim |-> Held("identityKey")] \in released
  /\ \A c \in Callers :
       /\ call[c].kind = "Sign" /\ call[c].at = "taken" => seen[c] \in released
       /\ call[c].kind = "SignWithClaims" /\ call[c].at = "taken" =>
            \E p \in released : p.key = seen[c].key

Inductive == WellFormed /\ TokenInvariant /\ Writing /\ Signing /\ SignedTogether

LEMMA FieldValues ==
  /\ \A f \in Fields : Values[f] \subseteq AnyValue
  /\ \A f \in Fields : Empty \in Values[f]
BY DEF Fields, Values, AnyValue

LEMMA HalfStays ==
  ASSUME NEW c, NEW f, Half(c, f), config' = config, todo'[c] = todo[c]
  PROVE  Half(c, f)'
<1>1. Left(c, f)' = Left(c, f) /\ Whole(f)' = Whole(f)
  BY DEF Left, Whole
<1> QED
  BY <1>1 DEF Half

\* A call goes on to another place, or it begins or ends.
LEMMA CallMoves ==
  ASSUME WellFormed, NEW c \in Callers, NEW a \in Stages, call' = [call EXCEPT ![c].at = a]
  PROVE  /\ call' \in [Callers -> Calls]
         /\ call'[c].at = a /\ call'[c].kind = call[c].kind
         /\ \A d \in Callers : d # c => call'[d] = call[d]
<1>1. call' = [call EXCEPT ![c] = [call[c] EXCEPT !.at = a]]
  OBVIOUS
<1>2. call[c] \in Calls /\ call \in [Callers -> Calls]
  BY DEF WellFormed
<1>3. [call[c] EXCEPT !.at = a] \in Calls
  BY <1>2 DEF Calls
<1>4. [call[c] EXCEPT !.at = a].at = a /\ [call[c] EXCEPT !.at = a].kind = call[c].kind
  BY <1>2 DEF Calls
<1> QED
  BY <1>1, <1>2, <1>3, <1>4

LEMMA CallBecomes ==
  ASSUME WellFormed, NEW c \in Callers, NEW x \in Calls, call' = [call EXCEPT ![c] = x]
  PROVE  /\ call' \in [Callers -> Calls]
         /\ call'[c] = x
         /\ \A d \in Callers : d # c => call'[d] = call[d]
BY DEF WellFormed

LEMMA IdleIsCall == Idle \in Calls /\ Idle.at = "idle"
BY DEF Idle, Calls, Kinds, Stages

\* The next state is typed if it is well formed and what is written or left to
\* write is a value of its field.
LEMMA TypesNext ==
  ASSUME WellFormed', writes' \in 0..MaxWrites, writer' \in Callers \cup {Nobody},
         \A f \in Fields, w \in HeaderWords : config'[f][w] \in Values[f],
         \A c \in Callers : \A x \in todo'[c] :
           x[1] \in Fields /\ x[2] \in HeaderWords /\ x[3] \in Values[x[1]]
  PROVE  TokenTypeOK'
<1>1. \A c \in Callers : call'[c].token \in tokens' \cup {Foreign}
  BY DEF WellFormed, Calls
<1>2. \A c \in Callers : seen'[c].key \in Values.key /\ seen'[c].claim \in Values.identityKey
  BY DEF WellFormed
<1> QED
  BY <1>1, <1>2 DEF TokenTypeOK

-----------------------------------------------------------------------------
(* Those who read *)

Reader(c) ==
  \/ NoSigningKey(c) \/ SigningFails(c) \/ SkipCheck(c) \/ Refuse(c) \/ ParseIdentity(c)
  \/ ExtractIdentity(c) \/ LookupIdentity(c) \/ ParseKeySet(c) \/ ParseVerifies(c)

\* A call that only reads changes where it is and forgets what it has seen.
LEMMA ReaderStep ==
  ASSUME WellFormed, NEW c \in Callers, Reader(c)
  PROVE  /\ UNCHANGED <<config, writer, todo, tokens, writes, released>>
         /\ call[c].at # "locked"
         /\ seen' = seen \/ seen' = [seen EXCEPT ![c] = Nothing]
         /\ \/ call' = [call EXCEPT ![c] = Idle]
            \/ \E a \in {"unskipped", "verified", "named", "keyed"} :
                 call' = [call EXCEPT ![c].at = a]
<1> USE DEF Proceed, Returns
<1>1. CASE NoSigningKey(c)
  BY <1>1 DEF NoSigningKey, Signs
<1>9. CASE SigningFails(c)
  BY <1>9 DEF SigningFails, Signs
<1>2. CASE SkipCheck(c)
  BY <1>2 DEF SkipCheck
<1>3. CASE Refuse(c)
  BY <1>3 DEF Refuse
<1>4. CASE ParseIdentity(c)
  BY <1>4 DEF ParseIdentity
<1>5. CASE ExtractIdentity(c)
  BY <1>5 DEF ExtractIdentity
<1>6. CASE LookupIdentity(c)
  BY <1>6 DEF LookupIdentity
<1>7. CASE ParseKeySet(c)
  BY <1>7 DEF ParseKeySet
<1>8. CASE ParseVerifies(c)
  BY <1>8 DEF ParseVerifies
<1> QED
  BY <1>1, <1>2, <1>3, <1>4, <1>5, <1>6, <1>7, <1>8, <1>9 DEF Reader

\* What a step that leaves the configuration, the lock and the tokens alone must
\* keep: the types of the caller's own, no lock held, and what it may sign with.
LEMMA QuietStep ==
  ASSUME Inductive, NEW c \in Callers,
         UNCHANGED <<config, writer, todo, tokens, released>>,
         writes' \in 0..MaxWrites,
         call' \in [Callers -> Calls],
         seen' \in [Callers -> [key : Values.key, claim : Values.identityKey]],
         call[c].at # "locked", call'[c].at # "locked",
         call'[c].kind = "Sign" /\ call'[c].at = "taken" => seen'[c] \in released,
         call'[c].kind = "SignWithClaims" /\ call'[c].at = "taken" =>
           \E p \in released : p.key = seen'[c].key,
         \A d \in Callers : d # c => call'[d] = call[d] /\ seen'[d] = seen[d]
  PROVE  Inductive'
<1>1. WellFormed'
  BY DEF Inductive, WellFormed, Calls
<1>2. TokenTypeOK'
  <2>1. \A d \in Callers : call'[d].token \in tokens' \cup {Foreign}
    BY DEF Calls
  <2>2. \A d \in Callers : seen'[d].key \in Values.key /\ seen'[d].claim \in Values.identityKey
    OBVIOUS
  <2> QED
    BY <2>1, <2>2 DEF Inductive, TokenInvariant, TokenTypeOK
<1>3. ConfigWhole' /\ SignedTogether'
  BY DEF Inductive, TokenInvariant, ConfigWhole, Whole, SignedTogether
<1>4. LockOfAWriter'
  BY DEF Inductive, TokenInvariant, LockOfAWriter
<1>5. Writing'
  BY HalfStays DEF Inductive, Writing
<1>6. Signing'
  BY DEF Inductive, Signing, Held
<1> QED
  BY <1>1, <1>2, <1>3, <1>4, <1>5, <1>6 DEF Inductive, TokenInvariant

LEMMA ReaderKeeps ==
  ASSUME Inductive, NEW c \in Callers, Reader(c)
  PROVE  Inductive'
<1>1. WellFormed /\ writes \in 0..MaxWrites
  BY DEF Inductive, TokenInvariant, TokenTypeOK
<1>2. /\ UNCHANGED <<config, writer, todo, tokens, writes, released>>
      /\ call[c].at # "locked"
      /\ seen' = seen \/ seen' = [seen EXCEPT ![c] = Nothing]
      /\ \/ call' = [call EXCEPT ![c] = Idle]
         \/ \E a \in {"unskipped", "verified", "named", "keyed"} :
              call' = [call EXCEPT ![c].at = a]
  BY <1>1, ReaderStep
<1>3. /\ call' \in [Callers -> Calls]
      /\ call'[c].at \notin {"locked", "taken"}
      /\ \A d \in Callers : d # c => call'[d] = call[d]
  BY <1>1, <1>2, CallMoves, CallBecomes, IdleIsCall DEF Stages
<1>4. seen' \in [Callers -> [key : Values.key, claim : Values.identityKey]]
  BY <1>1, <1>2, FieldValues DEF WellFormed, Nothing, Values, Fields
<1>5. \A d \in Callers : d # c => call'[d] = call[d] /\ seen'[d] = seen[d]
  BY <1>1, <1>2 DEF WellFormed
<1> QED
  BY <1>1, <1>2, <1>3, <1>4, <1>5, QuietStep

LEMMA BeginKeeps ==
  ASSUME Inductive, NEW c \in Callers, Begin(c)
  PROVE  Inductive'
<1>1. WellFormed /\ writes \in 0..MaxWrites
  BY DEF Inductive, TokenInvariant, TokenTypeOK
<1>0. Foreign \in tokens \cup {Foreign} /\ MaxWrites \in Nat
  BY TokenAssumption
<1>2. /\ writes' \in 0..MaxWrites
      /\ UNCHANGED <<config, writer, todo, seen, tokens, released>>
      /\ call[c].at = "idle"
      /\ \E kind \in {"Init", "Reset", "Sign", "SignWithClaims", "ParseRequest", "Parse"},
            t \in tokens \cup {Foreign} :
           call' = [call EXCEPT ![c] = [kind |-> kind, at |-> "begun", token |-> t]]
  <2>1. CASE \E kind \in {"Init", "Reset"} : Write(c, kind)
    <3>1. PICK kind \in {"Init", "Reset"} : Write(c, kind)
      BY <2>1
    <3>2. writes' \in 0..MaxWrites
      BY <1>1, <1>0, <3>1 DEF Write
    <3> QED
      BY <1>0, <3>1, <3>2 DEF Write, Starts
  <2>2. CASE \E kind \in {"Sign", "SignWithClaims"} :
               Starts(c, kind, Foreign) /\ UNCHANGED writes
    BY <1>1, <1>0, <2>2 DEF Starts
  <2>3. CASE \E kind \in {"ParseRequest", "Parse"}, t \in tokens \cup {Foreign} :
               Starts(c, kind, t) /\ UNCHANGED writes
    BY <1>1, <2>3 DEF Starts
  <2> QED
    BY <2>1, <2>2, <2>3 DEF Begin
<1>3. /\ call' \in [Callers -> Calls]
      /\ call'[c].at = "begun"
      /\ \A d \in Callers : d # c => call'[d] = call[d] /\ seen'[d] = seen[d]
  <2>1. PICK kind \in {"Init", "Reset", "Sign", "SignWithClaims", "ParseRequest", "Parse"},
             t \in tokens \cup {Foreign} :
          call' = [call EXCEPT ![c] = [kind |-> kind, at |-> "begun", token |-> t]]
    BY <1>2
  <2>2. [kind |-> kind, at |-> "begun", token |-> t] \in Calls
    BY DEF Calls, Kinds, Stages
  <2> QED
    BY <1>1, <1>2, <2>1, <2>2, CallBecomes
<1>4. seen' \in [Callers -> [key : Values.key, claim : Values.identityKey]]
  BY <1>1, <1>2 DEF WellFormed
<1> QED
  BY <1>2, <1>3, <1>4, QuietStep

\* The key and the name are taken together, while nobody writes.
LEMMA TakesKeep ==
  ASSUME Inductive, NEW c \in Callers, TakeConfig(c) \/ TakeSigningKey(c) \/ TakeKey(c)
  PROVE  Inductive'
<1>1. /\ WellFormed /\ writes \in 0..MaxWrites
      /\ Held("key") \in Values.key /\ Held("identityKey") \in Values.identityKey
  BY DEF Inductive, TokenInvariant, TokenTypeOK, Held, Fields, HeaderWords, Values
<1>2. /\ UNCHANGED <<config, writer, todo, tokens, writes, released>>
      /\ writer = Nobody /\ call[c].at # "locked"
      /\ call' = [call EXCEPT ![c].at = "taken"]
  BY DEF TakeConfig, TakeSigningKey, TakeKey, Proceed
<1>3. /\ call' \in [Callers -> Calls]
      /\ call'[c].at = "taken" /\ call'[c].kind = call[c].kind
      /\ \A d \in Callers : d # c => call'[d] = call[d]
  BY <1>1, <1>2, CallMoves DEF Stages
<1>4. CASE TakeConfig(c)
  <2>1. seen' = [seen EXCEPT ![c] = [key |-> Held("key"), claim |-> Held("identityKey")]]
    BY <1>4 DEF TakeConfig
  <2>2. /\ seen' \in [Callers -> [key : Values.key, claim : Values.identityKey]]
        /\ \A d \in Callers : d # c => seen'[d] = seen[d]
    BY <1>1, <2>1 DEF WellFormed
  <2>3. seen'[c] \in released
    BY <1>1, <1>2, <2>1 DEF WellFormed, Inductive, Signing
  <2> QED
    BY <1>1, <1>2, <1>3, <1>4, <2>2, <2>3, QuietStep DEF TakeConfig, Proceed
<1>5. CASE TakeKey(c)
  <2>1. seen' = [seen EXCEPT ![c].key = Held("key")] /\ call[c].kind = "ParseRequest"
    BY <1>5 DEF TakeKey, Proceed
  <2>2. /\ seen' \in [Callers -> [key : Values.key, claim : Values.identityKey]]
        /\ \A d \in Callers : d # c => seen'[d] = seen[d]
    BY <1>1, <2>1 DEF WellFormed
  <2> QED
    BY <1>1, <1>2, <1>3, <2>1, <2>2, QuietStep
<1>6. CASE TakeSigningKey(c)
  <2>1. seen' = [seen EXCEPT ![c].key = Held("key")] /\ call[c].kind = "SignWithClaims"
    BY <1>6 DEF TakeSigningKey, Proceed
  <2>2. /\ seen' \in [Callers -> [key : Values.key, claim : Values.identityKey]]
        /\ seen'[c].key = Held("key")
        /\ \A d \in Callers : d # c => seen'[d] = seen[d]
    BY <1>1, <2>1 DEF WellFormed
  <2>3. \E p \in released : p.key = seen'[c].key
    BY <1>2, <2>2 DEF Inductive, Signing
  <2> QED
    BY <1>1, <1>2, <1>3, <2>1, <2>2, <2>3, QuietStep
<1> QED
  BY <1>4, <1>5, <1>6

\* A token is signed with what was read together.
LEMMA SignKeeps ==
  ASSUME Inductive, NEW c \in Callers, Sign(c) \/ SignWithClaims(c)
  PROVE  Inductive'
<1>1. /\ UNCHANGED <<config, writer, todo, writes, released>>
      /\ call[c].kind \in {"Sign", "SignWithClaims"} /\ call[c].at = "taken"
      /\ seen[c].key # Empty
      /\ call' = [call EXCEPT ![c] = Idle] /\ seen' = [seen EXCEPT ![c] = Nothing]
  BY DEF Sign, SignWithClaims, Signs, Signed, Returns
<1>2. PICK claims :
        /\ tokens \subseteq tokens'
        /\ tokens' \subseteq tokens \cup {[key |-> seen[c].key, claims |-> claims, by |-> call[c].kind]}
        /\ call[c].kind = "Sign" => claims \subseteq {seen[c].claim}
  BY DEF Sign, SignWithClaims, Signs, Signed
<1>3. \E p \in released :
        p.key = seen[c].key /\ (call[c].kind = "Sign" => p.claim = seen[c].claim)
  BY <1>1 DEF Inductive, Signing
<1>4. SignedTogether'
  BY <1>1, <1>2, <1>3 DEF Inductive, SignedTogether
<1>5. WellFormed'
  <2>1. tokens \subseteq tokens'
    BY <1>2
  <2>2. call' \in [Callers -> Calls']
    BY <1>1, <2>1 DEF Inductive, WellFormed, Calls, Kinds, Stages, Idle
  <2>3. seen' \in [Callers -> [key : Values.key, claim : Values.identityKey]]
    BY <1>1, FieldValues DEF Inductive, WellFormed, Nothing, Values, Fields
  <2> QED
    BY <1>1, <2>2, <2>3 DEF Inductive, WellFormed
<1>6. TokenTypeOK'
  BY <1>1, <1>5, TypesNext DEF Inductive, TokenInvariant, TokenTypeOK
<1>7. ConfigWhole'
  BY <1>1 DEF Inductive, TokenInvariant, ConfigWhole, Whole
<1>8. call'[c].at = "idle" /\ \A d \in Callers : d # c => call'[d] = call[d] /\ seen'[d] = seen[d]
  BY <1>1 DEF Inductive, WellFormed, Calls, Kinds, Stages, Idle
<1>9. LockOfAWriter' /\ Writing' /\ Signing'
  BY <1>1, <1>8, HalfStays DEF Inductive, TokenInvariant, LockOfAWriter, Writing, Signing, Held
<1> QED
  BY <1>4, <1>5, <1>6, <1>7, <1>9 DEF Inductive, TokenInvariant

-----------------------------------------------------------------------------
(* Those who write *)

\* Who takes the lock finds every field whole; Reset has all of them to write,
\* Init has not begun to.
LEMMA LockKeeps ==
  ASSUME Inductive, NEW c \in Callers, Lock(c)
  PROVE  Inductive'
<1>1. /\ writer = Nobody /\ writer' = c
      /\ call' = [call EXCEPT ![c].at = "locked"] /\ call[c].at = "begun"
      /\ UNCHANGED <<config, seen, tokens, writes, released>>
  BY DEF Lock, Proceed
<1>2. c # Nobody /\ \A d \in Callers : call[d].at # "locked" /\ todo[d] = {}
  BY <1>1, TokenAssumption DEF Inductive, TokenInvariant, LockOfAWriter, Nobody
<1>3. /\ todo'[c] = {} \/ todo'[c] = Words(Defaults)
      /\ \A d \in Callers : d # c => todo'[d] = todo[d] /\ call'[d] = call[d]
      /\ todo' \in [Callers -> UNION {{todo[c]}, {Words(Defaults)}, {todo[d] : d \in Callers}}]
  BY <1>1, <1>2 DEF Lock, Inductive, WellFormed
<1>4. DOMAIN Defaults = Fields /\ \A f \in Fields : Defaults[f] \in Values[f]
  BY TokenAssumption DEF Defaults, Fields, Values
<1>5. \A x \in todo'[c] : \E f \in Fields : \E w \in HeaderWords : x = <<f, w, Defaults[f]>>
  BY <1>3, <1>4 DEF Words
<1>6. call'[c].at = "locked" /\ call'[c].token = call[c].token
  BY <1>1 DEF Inductive, WellFormed
<1>7. \A x \in todo'[c] : \E f \in Fields : \E w \in HeaderWords, v \in Values[f] :
        x = <<f, w, v>>
  BY <1>4, <1>5
<1>8. WellFormed'
  <2>1. todo'[c] \in SUBSET (Fields \X HeaderWords \X AnyValue)
    BY <1>7, FieldValues
  <2>2. todo' \in [Callers -> SUBSET (Fields \X HeaderWords \X AnyValue)]
    BY <1>2, <1>3, <2>1
  <2>3. call' \in [Callers -> Calls] /\ Calls' = Calls
    BY <1>1, CallMoves DEF Inductive, Stages, Calls
  <2> QED
    BY <1>1, <2>2, <2>3 DEF Inductive, WellFormed
<1>9. TokenTypeOK'
  <2>1. \A d \in Callers : \A x \in todo'[d] :
          x[1] \in Fields /\ x[2] \in HeaderWords /\ x[3] \in Values[x[1]]
    BY <1>2, <1>3, <1>7
  <2> QED
    BY <1>1, <1>8, <2>1, TypesNext DEF Inductive, TokenInvariant, TokenTypeOK
<1>10. ConfigWhole' /\ LockOfAWriter'
  BY <1>1, <1>2, <1>3, <1>6 DEF ConfigWhole, LockOfAWriter
<1>11. ASSUME NEW f \in Fields
       PROVE  Half(c, f)'
  <2>1. Whole(f)'
    BY <1>1 DEF Inductive, TokenInvariant, ConfigWhole, Whole
  <2>2. CASE todo'[c] = Words(Defaults)
    <3>1. Left(c, f)' = {<<f, "data", Defaults[f]>>, <<f, "len", Defaults[f]>>}
      BY <1>4, <2>2 DEF Left, Words, HeaderWords
    <3> QED
      BY <1>4, <2>1, <3>1 DEF Half
  <2>3. CASE todo'[c] = {}
    <3>1. Left(c, f)' = {}
      BY <2>3 DEF Left
    <3> QED
      BY <2>1, <3>1 DEF Half
  <2> QED
    BY <1>3, <2>2, <2>3
<1>12. Writing'
  BY <1>1, <1>2, <1>3, <1>6, <1>11 DEF Writing
<1>13. Signing' /\ SignedTogether'
  BY <1>1, <1>2, <1>3, <1>6 DEF Inductive, Signing, SignedTogether, Held
<1> QED
  BY <1>8, <1>9, <1>10, <1>12, <1>13 DEF Inductive, TokenInvariant

\* Between two options every field is whole; the next has one to write.
LEMMA OptionKeeps ==
  ASSUME Inductive, NEW c \in Callers, ApplyOption(c)
  PROVE  Inductive'
<1>1. /\ call[c].at = "locked" /\ todo[c] = {}
      /\ UNCHANGED <<config, writer, call, seen, tokens, writes, released>>
  BY DEF ApplyOption
<1>0. PICK g \in Fields : \E v \in Values[g] :
        todo' = [todo EXCEPT ![c] = {<<g, w, v>> : w \in HeaderWords}]
  BY DEF ApplyOption
<1>2. PICK v \in Values[g] : todo' = [todo EXCEPT ![c] = {<<g, w, v>> : w \in HeaderWords}]
  BY <1>0
<1>3. writer = c /\ c # Nobody
  BY <1>1, TokenAssumption DEF Inductive, TokenInvariant, LockOfAWriter, Nobody
<1>4. /\ todo'[c] = {<<g, "data", v>>, <<g, "len", v>>}
      /\ \A d \in Callers : d # c => todo'[d] = todo[d]
  BY <1>2 DEF Inductive, WellFormed, HeaderWords
<1>5. WellFormed'
  <2>1. todo'[c] \in SUBSET (Fields \X HeaderWords \X AnyValue)
    BY <1>4, FieldValues DEF HeaderWords
  <2>2. todo' \in [Callers -> SUBSET (Fields \X HeaderWords \X AnyValue)]
    BY <1>2, <1>4, <2>1 DEF Inductive, WellFormed
  <2> QED
    BY <1>1, <2>2 DEF Inductive, WellFormed, Calls
<1>6. TokenTypeOK'
  <2>1. \A d \in Callers : \A x \in todo'[d] :
          x[1] \in Fields /\ x[2] \in HeaderWords /\ x[3] \in Values[x[1]]
    BY <1>4 DEF Inductive, TokenInvariant, TokenTypeOK, HeaderWords
  <2> QED
    BY <1>1, <1>5, <2>1, TypesNext DEF Inductive, TokenInvariant, TokenTypeOK
<1>7. ConfigWhole' /\ LockOfAWriter'
  BY <1>1, <1>3, <1>4 DEF Inductive, TokenInvariant, ConfigWhole, LockOfAWriter
<1>8. ASSUME NEW f \in Fields
      PROVE  Half(c, f)'
  <2>1. Whole(f)'
    BY <1>1, <1>3 DEF Inductive, Writing, Half, Left, Whole
  <2>2. CASE f = g
    BY <1>4, <2>1, <2>2 DEF Half, Left
  <2>3. CASE f # g
    <3>1. Left(c, f)' = {}
      BY <1>4, <2>3 DEF Left
    <3> QED
      BY <2>1, <3>1 DEF Half
  <2> QED
    BY <2>2, <2>3
<1>9. Writing'
  BY <1>1, <1>3, <1>4, <1>8 DEF Inductive, Writing
<1>10. Signing' /\ SignedTogether'
  BY <1>1 DEF Inductive, Signing, SignedTogether, Held
<1> QED
  BY <1>5, <1>6, <1>7, <1>9, <1>10 DEF Inductive, TokenInvariant

\* One word of one field is written.
LEMMA AssignKeeps ==
  ASSUME Inductive, NEW c \in Callers, Assign(c)
  PROVE  Inductive'
<1>1. call[c].at = "locked" /\ UNCHANGED <<writer, call, seen, tokens, writes, released>>
  BY DEF Assign
<1>2. PICK x \in todo[c] : /\ config' = [config EXCEPT ![x[1]][x[2]] = x[3]]
                           /\ todo' = [todo EXCEPT ![c] = @ \ {x}]
  BY DEF Assign
<1>3. PICK g \in Fields, w \in HeaderWords, v \in AnyValue : x = <<g, w, v>>
  BY DEF Inductive, WellFormed
<1>4. v \in Values[g]
  BY <1>3 DEF Inductive, TokenInvariant, TokenTypeOK
<1>5. writer = c /\ c # Nobody
  BY <1>1, TokenAssumption DEF Inductive, TokenInvariant, LockOfAWriter, Nobody
<1>6. /\ todo'[c] = todo[c] \ {x}
      /\ \A d \in Callers : d # c => todo'[d] = todo[d]
  BY <1>2 DEF Inductive, WellFormed
<1>7. /\ config'[g][w] = v
      /\ \A u \in HeaderWords : u # w => config'[g][u] = config[g][u]
      /\ \A f \in Fields : f # g => config'[f] = config[f]
  BY <1>2, <1>3, <1>4 DEF Inductive, WellFormed
<1>8. WellFormed'
  <2>1. config' \in [Fields -> [HeaderWords -> AnyValue]]
    <3>1. config' = [config EXCEPT ![g] = [config[g] EXCEPT ![w] = v]]
      BY <1>2, <1>3
    <3>2. [config[g] EXCEPT ![w] = v] \in [HeaderWords -> AnyValue]
      BY <1>3 DEF Inductive, WellFormed
    <3> QED
      BY <3>1, <3>2 DEF Inductive, WellFormed
  <2>2. todo' \in [Callers -> SUBSET (Fields \X HeaderWords \X AnyValue)]
    BY <1>2 DEF Inductive, WellFormed
  <2>3. Calls' = Calls
    BY <1>1 DEF Calls
  <2> QED
    BY <1>1, <2>1, <2>2, <2>3 DEF Inductive, WellFormed
<1>9. TokenTypeOK'
  <2>1. \A d \in Callers : todo'[d] \subseteq todo[d]
    BY <1>6
  <2>2. \A f \in Fields, u \in HeaderWords : config'[f][u] \in Values[f]
    BY <1>4, <1>7 DEF Inductive, TokenInvariant, TokenTypeOK
  <2> QED
    BY <1>1, <1>8, <2>1, <2>2, TypesNext DEF Inductive, TokenInvariant, TokenTypeOK
<1>10. ConfigWhole' /\ LockOfAWriter'
  BY <1>1, <1>5, <1>6 DEF Inductive, TokenInvariant, ConfigWhole, LockOfAWriter, Writing
<1>11. ASSUME NEW f \in Fields
       PROVE  Half(c, f)'
  <2>1. Half(c, f)
    BY <1>5 DEF Inductive, Writing
  <2>2. CASE f # g
    <3>1. Left(c, f)' = Left(c, f) /\ config'[f] = config[f]
      BY <1>3, <1>6, <1>7, <2>2 DEF Left
    <3> QED
      BY <2>1, <3>1 DEF Half, Whole
  <2>3. CASE f = g
    <3>1. x \in Left(c, f) /\ Left(c, f)' = Left(c, f) \ {x}
      BY <1>3, <1>6, <2>3 DEF Left
    <3>2. ASSUME NEW u \in Values[f], Left(c, f) = {<<f, "data", u>>, <<f, "len", u>>}
          PROVE  Half(c, f)'
      <4>1. v = u
        BY <1>3, <2>3, <3>1, <3>2
      <4>2. CASE w = "data"
        BY <1>3, <1>7, <2>3, <3>1, <3>2, <4>1, <4>2 DEF Half
      <4>3. CASE w = "len"
        BY <1>3, <1>7, <2>3, <3>1, <3>2, <4>1, <4>3 DEF Half
      <4> QED
        BY <4>2, <4>3 DEF HeaderWords
    <3>3. ASSUME NEW u \in Values[f],
                 \/ Left(c, f) = {<<f, "data", u>>} /\ config[f]["len"] = u
                 \/ Left(c, f) = {<<f, "len", u>>} /\ config[f]["data"] = u
          PROVE  Half(c, f)'
      <4>1. v = u /\ Left(c, f)' = {}
        BY <1>3, <2>3, <3>1, <3>3
      <4>2. Whole(f)'
        BY <1>3, <1>7, <2>3, <3>1, <3>3, <4>1 DEF Whole, HeaderWords
      <4> QED
        BY <4>1, <4>2 DEF Half
    <3> QED
      BY <2>1, <3>1, <3>2, <3>3 DEF Half
  <2> QED
    BY <2>2, <2>3
<1>12. Writing'
  BY <1>1, <1>5, <1>6, <1>11 DEF Inductive, Writing
<1>13. Signing' /\ SignedTogether'
  BY <1>1, <1>5 DEF Inductive, Signing, SignedTogether
<1> QED
  BY <1>8, <1>9, <1>10, <1>12, <1>13 DEF Inductive, TokenInvariant

\* The lock is released with every field whole: when all is written, or when an
\* option panics between two fields.
LEMMA ReleaseKeeps ==
  ASSUME Inductive, NEW c \in Callers, Unlock(c) \/ InitPanics(c)
  PROVE  Inductive'
<1>1. /\ call[c].at = "locked" /\ writer' = Nobody
      /\ call' = [call EXCEPT ![c] = Idle] /\ seen' = [seen EXCEPT ![c] = Nothing]
      /\ released' = released \cup {[key |-> Held("key"), claim |-> Held("identityKey")]}
      /\ UNCHANGED <<config, tokens, writes>>
  BY DEF Unlock, InitPanics, Returns, Released
<1>2. todo[c] = {} /\ todo' = todo
  BY DEF Unlock, InitPanics
<1>3. writer = c /\ c # Nobody
  BY <1>1, TokenAssumption DEF Inductive, TokenInvariant, LockOfAWriter, Nobody
<1>5. \A f \in Fields : Whole(f)
  BY <1>2, <1>3 DEF Inductive, Writing, Half, Left
<1>6. /\ call'[c] = Idle /\ todo'[c] = {} /\ seen'[c] = Nothing
      /\ \A d \in Callers : d # c => call'[d] = call[d] /\ todo'[d] = todo[d] /\ seen'[d] = seen[d]
  BY <1>1, <1>2 DEF Inductive, WellFormed
<1>7. WellFormed'
  <2>1. seen' \in [Callers -> [key : Values.key, claim : Values.identityKey]]
    BY <1>1, FieldValues DEF Inductive, WellFormed, Nothing, Values, Fields
  <2>2. call' \in [Callers -> Calls']
    BY <1>1 DEF Inductive, WellFormed, Calls, Kinds, Stages, Idle
  <2>3. todo' \in [Callers -> SUBSET (Fields \X HeaderWords \X AnyValue)]
    BY <1>2 DEF Inductive, WellFormed
  <2> QED
    BY <1>1, <2>1, <2>2, <2>3 DEF Inductive, WellFormed
<1>8. TokenTypeOK'
  <2>1. \A d \in Callers : todo'[d] \subseteq todo[d]
    BY <1>6
  <2> QED
    BY <1>1, <1>7, <2>1, TypesNext DEF Inductive, TokenInvariant, TokenTypeOK
<1>9. ConfigWhole'
  BY <1>1, <1>5 DEF ConfigWhole, Whole
<1>10. \A d \in Callers : d # c => call[d].at # "locked" /\ todo[d] = {}
  BY <1>3 DEF Inductive, TokenInvariant, LockOfAWriter
<1>11. LockOfAWriter' /\ Writing'
  BY <1>1, <1>6, <1>10, TokenAssumption DEF LockOfAWriter, Writing, Idle, Nobody
<1>12. Signing'
  BY <1>1, <1>6 DEF Inductive, Signing, Held, Idle
<1>13. SignedTogether'
  BY <1>1 DEF Inductive, SignedTogether
<1> QED
  BY <1>7, <1>8, <1>9, <1>11, <1>12, <1>13 DEF Inductive, TokenInvariant

-----------------------------------------------------------------------------
(* The results *)

LEMMA FirstConfiguration ==
  ASSUME TokenInit
  PROVE  Inductive
<1> USE TokenAssumption, FieldValues DEF TokenInit
<1>1. WellFormed
  <2>1. config \in [Fields -> [HeaderWords -> AnyValue]]
    BY DEF AnyValue
  <2>2. call \in [Callers -> Calls]
    BY IdleIsCall
  <2>3. seen \in [Callers -> [key : Values.key, claim : Values.identityKey]]
    BY DEF Nothing, Values
  <2>4. todo \in [Callers -> SUBSET (Fields \X HeaderWords \X AnyValue)]
    OBVIOUS
  <2> QED
    BY <2>1, <2>2, <2>3, <2>4 DEF WellFormed
<1>2. TokenTypeOK
  BY DEF TokenTypeOK, Idle, Nothing, Values, Fields
<1>3. ConfigWhole /\ LockOfAWriter
  BY DEF ConfigWhole, Whole, LockOfAWriter, Idle, Nobody, HeaderWords
<1>4. Writing
  BY DEF Writing, Nobody
<1>5. Signing /\ SignedTogether
  BY DEF Signing, SignedTogether, Held, Idle, Fields, HeaderWords
<1> QED
  BY <1>1, <1>2, <1>3, <1>4, <1>5 DEF Inductive, TokenInvariant

LEMMA TokenCorrect == TokenSpec => []Inductive
<1>1. TokenInit => Inductive
  BY FirstConfiguration
<1>2. Inductive /\ [TokenNext]_tokenVars => Inductive'
  <2> SUFFICES ASSUME Inductive, [TokenNext]_tokenVars
               PROVE  Inductive'
    OBVIOUS
  <2>1. ASSUME NEW c \in Callers, Begin(c)
        PROVE  Inductive'
    BY <2>1, BeginKeeps
  <2>2. ASSUME NEW c \in Callers, Continue(c)
        PROVE  Inductive'
    BY <2>2, LockKeeps, OptionKeeps, AssignKeeps, ReleaseKeeps, TakesKeep, SignKeeps, ReaderKeeps
       DEF Continue, Reader
  <2>3. CASE UNCHANGED tokenVars
    <3>1. WellFormed' /\ TokenInvariant'
      BY <2>3 DEF tokenVars, Inductive, WellFormed, Calls, TokenInvariant, TokenTypeOK,
                  ConfigWhole, Whole, LockOfAWriter
    <3>2. Writing'
      BY <2>3, HalfStays DEF tokenVars, Inductive, Writing
    <3>3. Signing' /\ SignedTogether'
      BY <2>3 DEF tokenVars, Inductive, Signing, SignedTogether, Held
    <3> QED
      BY <3>1, <3>2, <3>3 DEF Inductive
  <2> QED
    BY <2>1, <2>2, <2>3 DEF TokenNext
<1> QED
  BY <1>1, <1>2, PTL DEF TokenSpec

\* configMu is held by the one call that writes, and who takes it finds the
\* configuration whole, also after an option has panicked (token.go, Init).
THEOREM LockKeepsConfigurationWhole == TokenSpec => []TokenInvariant
<1>1. Inductive => TokenInvariant
  BY DEF Inductive
<1> QED
  BY <1>1, TokenCorrect, PTL

\* Every token is signed with a key that was configured, and what Sign signed
\* carries no name but the one configured together with the key (token.go, Sign,
\* SignWithClaims).
THEOREM TokensSignedTogether == TokenSpec => []SignedTogether
<1>1. Inductive => SignedTogether
  BY DEF Inductive
<1> QED
  BY <1>1, TokenCorrect, PTL

-----------------------------------------------------------------------------
(* Verdicts of those who read without the lock *)

AnyToken == [key : Values.key, claims : SUBSET Names, by : Kinds]
ValueHistory == SUBSET ({"key", "identityKey"} \X AnyValue)

\* What c's call is about to rest its verdict on was configured during the call.
Informs(c) ==
  /\ call[c].at # "idle" /\ call[c].kind \in {"Parse", "ParseRequest"} =>
       Configured \subseteq inForce[c]
  /\ call[c].kind = "ParseRequest" /\ call[c].at \in {"taken", "verified", "named"} =>
       <<"key", seen[c].key>> \in inForce[c]
  /\ call[c].kind = "ParseRequest" /\ call[c].at \in {"verified", "named"} =>
       call[c].token.key = seen[c].key

Informed ==
  /\ tokens \subseteq AnyToken
  /\ inForce \in [Callers -> ValueHistory]
  /\ \A c \in Callers : Informs(c)

LEMMA ConfiguredTyped ==
  ASSUME WellFormed
  PROVE  /\ Configured \in ValueHistory
         /\ \A f \in {"key", "identityKey"}, w \in HeaderWords :
              <<f, config[f][w]>> \in Configured
<1>1. \A f \in {"key", "identityKey"}, w \in HeaderWords : config[f][w] \in AnyValue
  BY DEF WellFormed, Fields
<1> QED
  BY <1>1 DEF Configured, ValueHistory

\* A step of c that leaves the configuration and the other calls alone.
LEMMA OwnStepInforms ==
  ASSUME WellFormed, Informed, NEW c \in Callers, UNCHANGED config,
         \A d \in Callers \ {c} :
           call'[d] = call[d] /\ seen'[d] = seen[d] /\ inForce'[d] = inForce[d],
         tokens' \subseteq AnyToken,
         inForce' \in [Callers -> ValueHistory],
         Informs(c)'
  PROVE  Informed'
<1>1. Configured' = Configured
  BY DEF Configured
<1>2. \A d \in Callers \ {c} : Informs(d)'
  BY <1>1 DEF Informs, Informed
<1> QED
  BY <1>2 DEF Informed

\* A call that has returned owes nothing.
LEMMA ReturnInforms ==
  ASSUME WellFormed, Informed, NEW c \in Callers, NEW res, Returns(c, res), UNCHANGED config,
         tokens' \subseteq AnyToken
  PROVE  Informed'
<1>1. /\ call' = [call EXCEPT ![c] = Idle] /\ seen' = [seen EXCEPT ![c] = Nothing]
      /\ inForce' = [inForce EXCEPT ![c] = {}]
  BY DEF Returns
<1>2. call \in [Callers -> Calls] /\ inForce \in [Callers -> ValueHistory]
  BY DEF WellFormed, Informed
<1>3. \A d \in Callers \ {c} :
        call'[d] = call[d] /\ seen'[d] = seen[d] /\ inForce'[d] = inForce[d]
  BY <1>1, <1>2 DEF WellFormed
<1>4. inForce' \in [Callers -> ValueHistory]
  BY <1>1, <1>2 DEF ValueHistory
<1>5. call'[c] = Idle
  BY <1>1, <1>2
<1>6. Informs(c)'
  BY <1>5 DEF Informs, Idle
<1> QED
  BY <1>3, <1>4, <1>6, OwnStepInforms

\* A call that goes on, having read nothing.
LEMMA ProceedInforms ==
  ASSUME WellFormed, Informed, NEW c \in Callers, NEW kind, NEW from, NEW to \in Stages,
         Proceed(c, kind, from, to), from # "idle", UNCHANGED <<config, seen, tokens, inForce>>,
         kind = "ParseRequest" /\ to \in {"taken", "verified", "named"} =>
           from \in {"taken", "verified", "named"},
         kind = "ParseRequest" /\ to \in {"verified", "named"} =>
           call[c].token.key = seen[c].key
  PROVE  Informed'
<1>1. call' = [call EXCEPT ![c].at = to] /\ call[c].kind = kind /\ call[c].at = from
  BY DEF Proceed
<1>2. /\ call'[c].at = to /\ call'[c].kind = kind
      /\ \A d \in Callers : d # c => call'[d] = call[d]
  BY <1>1, CallMoves
<1>3. call'[c].token = call[c].token
  BY <1>1 DEF WellFormed, Calls
<1>4. Configured' = Configured
  BY DEF Configured
<1>5. Informs(c)
  BY DEF Informed
<1>6. Informs(c)'
  BY <1>1, <1>2, <1>3, <1>4, <1>5 DEF Informs
<1> QED
  BY <1>2, <1>6, OwnStepInforms DEF Informed

LEMMA ReaderInforms ==
  ASSUME Inductive, Informed, NEW c \in Callers, Reader(c)
  PROVE  Informed'
<1> USE DEF Stages
<1>1. WellFormed /\ UNCHANGED <<config, tokens>>
  BY ReaderStep DEF Inductive
<1>2. tokens' \subseteq AnyToken
  BY <1>1 DEF Informed
<1>3. ASSUME NEW res, Returns(c, res)
      PROVE  Informed'
  BY <1>1, <1>2, <1>3, ReturnInforms
<1>4. CASE NoSigningKey(c) \/ SigningFails(c) \/ Refuse(c) \/ LookupIdentity(c) \/ ParseVerifies(c)
  BY <1>3, <1>4 DEF NoSigningKey, SigningFails, Refuse, LookupIdentity, ParseVerifies
<1>5. CASE SkipCheck(c)
  <2>1. \/ \E res : Returns(c, res)
        \/ Proceed(c, "ParseRequest", "begun", "unskipped") /\ UNCHANGED <<seen, inForce>>
    BY <1>5 DEF SkipCheck
  <2> QED
    BY <1>1, <1>3, <2>1, ProceedInforms
<1>6. CASE ParseIdentity(c)
  BY <1>1, <1>6, ProceedInforms DEF ParseIdentity
<1>7. CASE ExtractIdentity(c)
  <2>1. \/ \E res : Returns(c, res)
        \/ Proceed(c, "ParseRequest", "verified", "named") /\ UNCHANGED <<seen, inForce>>
    BY <1>7 DEF ExtractIdentity
  <2>2. Proceed(c, "ParseRequest", "verified", "named") => call[c].token.key = seen[c].key
    BY DEF Proceed, Informed, Informs
  <2> QED
    BY <1>1, <1>3, <2>1, <2>2, ProceedInforms
<1>8. CASE ParseKeySet(c)
  <2>1. \/ \E res : Returns(c, res)
        \/ Proceed(c, "Parse", "begun", "keyed") /\ UNCHANGED <<seen, inForce>>
    BY <1>8 DEF ParseKeySet
  <2> QED
    BY <1>1, <1>3, <2>1, ProceedInforms
<1> QED
  BY <1>4, <1>5, <1>6, <1>7, <1>8 DEF Reader

LEMMA BeginInforms ==
  ASSUME Inductive, Informed, NEW c \in Callers, Begin(c)
  PROVE  Informed'
<1>1. WellFormed
  BY DEF Inductive
<1>2. PICK kind, t : Starts(c, kind, t)
  BY DEF Begin, Write
<1>3. /\ call' = [call EXCEPT ![c] = [kind |-> kind, at |-> "begun", token |-> t]]
      /\ inForce' = [inForce EXCEPT ![c] = IF kind \in {"Parse", "ParseRequest"}
                                           THEN Configured ELSE {}]
      /\ UNCHANGED <<config, seen, tokens>>
  BY <1>2 DEF Starts
<1>4. call \in [Callers -> Calls] /\ inForce \in [Callers -> ValueHistory]
  BY <1>1 DEF WellFormed, Informed
<1>5. Configured \in ValueHistory /\ {} \in ValueHistory
  BY <1>1, ConfiguredTyped DEF ValueHistory
<1>6. inForce' \in [Callers -> ValueHistory]
  BY <1>3, <1>4, <1>5
<1>7. /\ call'[c].kind = kind /\ call'[c].at = "begun"
      /\ kind \in {"Parse", "ParseRequest"} => inForce'[c] = Configured
      /\ \A d \in Callers \ {c} : call'[d] = call[d] /\ inForce'[d] = inForce[d]
  BY <1>3, <1>4
<1>8. Configured' = Configured
  BY <1>3 DEF Configured
<1>9. Informs(c)'
  BY <1>7, <1>8 DEF Informs
<1> QED
  BY <1>1, <1>3, <1>6, <1>7, <1>9, OwnStepInforms DEF Informed

\* The key is read under the lock.
LEMMA TakesInform ==
  ASSUME Inductive, Informed, NEW c \in Callers, TakeConfig(c) \/ TakeSigningKey(c) \/ TakeKey(c)
  PROVE  Informed'
<1>1. WellFormed /\ UNCHANGED <<config, tokens, inForce>>
  BY DEF Inductive, TakeConfig, TakeSigningKey, TakeKey
<1>2. "taken" \in Stages
  BY DEF Stages
<1>3. \A d \in Callers \ {c} : seen'[d] = seen[d]
  BY <1>1 DEF WellFormed, TakeConfig, TakeSigningKey, TakeKey
<1>4. call' = [call EXCEPT ![c].at = "taken"]
  BY DEF TakeConfig, TakeSigningKey, TakeKey, Proceed
<1>5. /\ call'[c].at = "taken" /\ call'[c].kind = call[c].kind
      /\ \A d \in Callers : d # c => call'[d] = call[d]
  BY <1>1, <1>2, <1>4, CallMoves
<1>6. Configured' = Configured
  BY <1>1 DEF Configured
<1>7. Informs(c)'
  <2>1. CASE TakeConfig(c) \/ TakeSigningKey(c)
    <3>1. call'[c].kind \in {"Sign", "SignWithClaims"}
      BY <1>5, <2>1 DEF TakeConfig, TakeSigningKey, Proceed
    <3> QED
      BY <3>1 DEF Informs
  <2>2. CASE TakeKey(c)
    <3>1. call[c].kind = "ParseRequest" /\ call[c].at = "unskipped"
      BY <2>2 DEF TakeKey, Proceed
    <3>2. Configured \subseteq inForce[c]
      BY <3>1 DEF Informed, Informs
    <3>3. seen'[c].key = Held("key")
      BY <1>1, <2>2 DEF TakeKey, WellFormed
    <3>4. <<"key", Held("key")>> \in Configured
      BY <1>1, ConfiguredTyped DEF Held, HeaderWords
    <3> QED
      BY <1>1, <1>5, <1>6, <3>2, <3>3, <3>4 DEF Informs
  <2> QED
    BY <2>1, <2>2
<1> QED
  BY <1>1, <1>3, <1>5, <1>7, OwnStepInforms DEF Informed

LEMMA SignInforms ==
  ASSUME Inductive, Informed, NEW c \in Callers, Sign(c) \/ SignWithClaims(c)
  PROVE  Informed'
<1>1. WellFormed /\ UNCHANGED config
  BY DEF Inductive, Sign, SignWithClaims, Signed
<1>2. PICK claims :
        /\ claims \in SUBSET Names
        /\ tokens \subseteq tokens'
        /\ tokens' \subseteq tokens \cup {[key |-> seen[c].key, claims |-> claims, by |-> call[c].kind]}
  BY <1>1 DEF Sign, SignWithClaims, Signed, WellFormed, Values
<1>3. seen[c].key \in Values.key /\ call[c].kind \in Kinds
  BY <1>1 DEF WellFormed, Calls
<1>4. tokens' \subseteq AnyToken
  BY <1>2, <1>3 DEF Informed, AnyToken
<1> QED
  BY <1>1, <1>4, ReturnInforms DEF Sign, SignWithClaims, Signed

LEMMA WriterInforms ==
  ASSUME Inductive, Informed, NEW c \in Callers, Lock(c) \/ Unlock(c) \/ InitPanics(c)
  PROVE  Informed'
<1>1. WellFormed /\ UNCHANGED <<config, tokens>>
  BY DEF Inductive, Lock, Unlock, InitPanics, Released
<1>2. CASE Lock(c)
  <2>1. "locked" \in Stages
    BY DEF Stages
  <2>2. \E kind : Proceed(c, kind, "begun", "locked")
    BY <1>2 DEF Lock
  <2> QED
    BY <1>1, <1>2, <2>1, <2>2, ProceedInforms DEF Lock
<1>3. CASE Unlock(c) \/ InitPanics(c)
  <2>1. tokens' \subseteq AnyToken
    BY <1>1 DEF Informed
  <2> QED
    BY <1>1, <1>3, <2>1, ReturnInforms DEF Unlock, InitPanics
<1> QED
  BY <1>2, <1>3

LEMMA OptionInforms ==
  ASSUME Informed, NEW c \in Callers, ApplyOption(c)
  PROVE  Informed'
BY DEF ApplyOption, Informed, Informs, Configured

\* What Init or Reset writes is noted for every call that is in progress.
LEMMA AssignInforms ==
  ASSUME Inductive, Informed, NEW c \in Callers, Assign(c)
  PROVE  Informed'
<1>1. WellFormed /\ UNCHANGED <<call, seen, tokens>>
  BY DEF Inductive, Assign
<1>2. PICK x \in todo[c] :
        /\ config' = [config EXCEPT ![x[1]][x[2]] = x[3]]
        /\ inForce' = [d \in Callers |->
                         IF x[1] = "skipPaths" \/ inForce[d] = {} THEN inForce[d]
                         ELSE inForce[d] \cup {<<x[1], x[3]>>}]
  BY DEF Assign
<1>3. x \in Fields \X HeaderWords \X AnyValue /\ config \in [Fields -> [HeaderWords -> AnyValue]]
  BY <1>1 DEF WellFormed
<1>4. x[1] \in Fields /\ x[3] \in AnyValue
  BY <1>3
<1>5. inForce' \in [Callers -> ValueHistory]
  <2> SUFFICES ASSUME NEW d \in Callers
               PROVE  inForce'[d] \in ValueHistory
    BY <1>2
  <2>1. inForce[d] \in ValueHistory
    BY DEF Informed
  <2>2. x[1] # "skipPaths" => <<x[1], x[3]>> \in {"key", "identityKey"} \X AnyValue
    BY <1>4 DEF Fields
  <2> QED
    BY <1>2, <2>1, <2>2 DEF ValueHistory
<1>6. Configured' \subseteq IF x[1] = "skipPaths" THEN Configured
                            ELSE Configured \cup {<<x[1], x[3]>>}
  <2>1. \A f \in {"key", "identityKey"}, w \in HeaderWords :
          \/ config'[f][w] = config[f][w]
          \/ f = x[1] /\ config'[f][w] = x[3]
    BY <1>2, <1>3 DEF Fields
  <2> QED
    BY <2>1 DEF Configured
<1>7. \A d \in Callers : inForce[d] \subseteq inForce'[d]
  BY <1>2
<1>8. ASSUME NEW d \in Callers
      PROVE  Informs(d)'
  <2>1. call[d].at # "idle" /\ call[d].kind \in {"Parse", "ParseRequest"} =>
          Configured \subseteq inForce[d]
    BY DEF Informed, Informs
  <2>2. Configured # {}
    BY <1>1, ConfiguredTyped DEF HeaderWords
  <2>3. Configured \subseteq inForce[d] => Configured' \subseteq inForce'[d]
    BY <1>2, <1>6, <2>2
  <2> QED
    BY <1>1, <1>7, <2>1, <2>3 DEF Informed, Informs
<1> QED
  BY <1>1, <1>5, <1>8 DEF Informed

LEMMA AllInformed == TokenSpec => []Informed
<1>1. TokenInit => Informed
  BY DEF TokenInit, Informed, Informs, Idle, ValueHistory
<1>2. Inductive /\ Informed /\ [TokenNext]_tokenVars => Informed'
  <2> SUFFICES ASSUME Inductive, Informed, [TokenNext]_tokenVars
               PROVE  Informed'
    OBVIOUS
  <2>1. ASSUME NEW c \in Callers, Begin(c) \/ Continue(c)
        PROVE  Informed'
    BY <2>1, BeginInforms, ReaderInforms, TakesInform, SignInforms, WriterInforms, OptionInforms,
       AssignInforms
       DEF Continue, Reader
  <2>2. CASE UNCHANGED tokenVars
    BY <2>2 DEF tokenVars, Informed, Informs, Configured
  <2> QED
    BY <2>1, <2>2 DEF TokenNext
<1> QED
  BY <1>1, <1>2, TokenCorrect, PTL DEF TokenSpec

\* What a reader without the lock compares a key or a name with is a value that
\* is configured, unless it is garbled.
LEMMA GlimpseConfigured ==
  ASSUME WellFormed, NEW f \in {"key", "identityKey"}, NEW v \in Glimpse(f),
         v \notin {Garbled, "fault"}
  PROVE  <<f, v>> \in Configured
<1>1. \/ v = config[f]["data"]
      \/ v = config[f]["len"]
  BY DEF Glimpse, Whole
<1> QED
  BY <1>1, ConfiguredTyped DEF HeaderWords

\* Whoever accepts a token or takes an identity from it does so by a key and a
\* name that were configured during the call (token.go, ParseRequest, Parse).
THEOREM VerdictsRestOnConfiguration == TokenSpec => VerdictInForce
<1> DEFINE Justified(c, r) ==
      LET t == call[c].token IN
      /\ r \in {"valid", "identity", "anonymous"} => <<"key", t.key>> \in inForce[c]
      /\ r = "identity" => \E n \in t.claims : <<"identityKey", n>> \in inForce[c]
      /\ r = "anonymous" => <<"identityKey", Empty>> \in inForce[c]
<1>1. ASSUME Inductive, Informed, NEW c \in Callers, ExtractIdentity(c),
             reply' = "anonymous"
      PROVE  Justified(c, reply')
  <2>1. call[c].kind = "ParseRequest" /\ call[c].at = "verified" /\ WellFormed
    BY <1>1 DEF ExtractIdentity, Proceed, Inductive
  <2>2. config["identityKey"].len = Empty
    BY <1>1 DEF ExtractIdentity, Proceed, NoReply
  <2>3. <<"identityKey", Empty>> \in Configured
    BY <2>1, <2>2, ConfiguredTyped DEF HeaderWords
  <2> QED
    BY <1>1, <2>1, <2>3 DEF Informed, Informs
<1>2. ASSUME Inductive, Informed, NEW c \in Callers, LookupIdentity(c)
      PROVE  Justified(c, reply')
  <2>1. call[c].kind = "ParseRequest" /\ call[c].at = "named" /\ WellFormed
    BY <1>2 DEF LookupIdentity, Inductive
  <2>2. PICK n \in Glimpse("identityKey") :
          reply' = IF n = "fault" THEN "fault"
                   ELSE IF n \in call[c].token.claims THEN "identity" ELSE "missing"
    BY <1>2 DEF LookupIdentity, Returns
  <2>3. CASE n # "fault" /\ n \in call[c].token.claims
    <3>1. call[c].token \in tokens \/ call[c].token = Foreign
      BY <2>1 DEF WellFormed, Calls
    <3>2. call[c].token.claims \subseteq Names
      BY <1>2, <3>1 DEF Informed, AnyToken, Foreign
    <3>3. n # Garbled
      BY <2>3, <3>2, TokenAssumption
    <3>4. <<"identityKey", n>> \in Configured
      BY <2>1, <2>3, <3>3, GlimpseConfigured
    <3> QED
      BY <1>2, <2>1, <2>2, <2>3, <3>4 DEF Informed, Informs
  <2>4. CASE ~(n # "fault" /\ n \in call[c].token.claims)
    BY <2>2, <2>4
  <2> QED
    BY <2>3, <2>4
<1>3. ASSUME Inductive, Informed, NEW c \in Callers, ParseVerifies(c)
      PROVE  Justified(c, reply')
  <2>1. call[c].kind = "Parse" /\ call[c].at = "keyed" /\ WellFormed
    BY <1>3 DEF ParseVerifies, Inductive
  <2>2. PICK k \in Glimpse("key"), expired \in BOOLEAN :
          reply' = IF k = "fault" THEN "fault"
                   ELSE IF k = call[c].token.key /\ ~expired THEN "valid" ELSE "refused"
    BY <1>3 DEF ParseVerifies, Returns
  <2>3. CASE k # "fault" /\ k = call[c].token.key
    <3>1. call[c].token \in tokens \/ call[c].token = Foreign
      BY <2>1 DEF WellFormed, Calls
    <3>2. call[c].token.key \in SecretKeys \cup {Empty, "foreign"}
      BY <1>3, <3>1 DEF Informed, AnyToken, Values, Foreign
    <3>3. k # Garbled
      BY <2>3, <3>2, TokenAssumption
    <3>4. <<"key", k>> \in Configured
      BY <2>1, <2>3, <3>3, GlimpseConfigured
    <3> QED
      BY <1>3, <2>1, <2>2, <2>3, <3>4 DEF Informed, Informs
  <2>4. CASE ~(k # "fault" /\ k = call[c].token.key)
    BY <2>2, <2>4
  <2> QED
    BY <2>3, <2>4
<1>4. ASSUME Inductive, Informed, [TokenNext]_tokenVars, NEW c \in Callers,
             call[c].at # "idle", call'[c].at = "idle"
      PROVE  Justified(c, reply')
  <2>1. WellFormed
    BY <1>4 DEF Inductive
  <2>2. ASSUME NEW d \in Callers, Begin(d) \/ Continue(d), d # c
        PROVE  FALSE
    <3>1. \/ \E y : call' = [call EXCEPT ![d] = y]
          \/ \E a : call' = [call EXCEPT ![d].at = a]
          \/ call' = call
      BY <2>2 DEF Begin, Write, Starts, Continue, Lock, ApplyOption, Assign, Unlock, InitPanics,
                  TakeConfig, TakeSigningKey, NoSigningKey, SigningFails, Sign, SignWithClaims,
                  Signs, Signed, SkipCheck, TakeKey, Refuse, ParseIdentity, ExtractIdentity,
                  LookupIdentity, ParseKeySet, ParseVerifies, Proceed, Returns
    <3>2. call'[c] = call[c]
      BY <2>1, <2>2, <3>1 DEF WellFormed
    <3> QED
      BY <1>4, <3>2
  <2>3. Continue(c)
    BY <1>4, <2>2 DEF TokenNext, tokenVars, Begin, Write, Starts
  <2>4. CASE ExtractIdentity(c) \/ LookupIdentity(c) \/ ParseVerifies(c)
    <3>1. CASE ExtractIdentity(c) /\ reply' # "anonymous"
      BY <3>1 DEF ExtractIdentity, Proceed, Returns, NoReply
    <3> QED
      BY <1>1, <1>2, <1>3, <1>4, <2>4, <3>1
  <2>5. CASE ~(ExtractIdentity(c) \/ LookupIdentity(c) \/ ParseVerifies(c))
    <3>1. reply' \notin {"valid", "identity", "anonymous"}
      BY <2>3, <2>5
      DEF Continue, Lock, ApplyOption, Assign, Unlock, InitPanics, TakeConfig, TakeSigningKey,
          NoSigningKey, SigningFails, Sign, SignWithClaims, Signs, Signed, SkipCheck, TakeKey, Refuse, ParseIdentity, ParseKeySet, Proceed, Returns, NoReply
    <3> QED
      BY <3>1
  <2> QED
    BY <2>4, <2>5
<1>5. Inductive /\ Informed /\ [TokenNext]_tokenVars =>
        [\A c \in Callers :
           LET t == call[c].token IN
           call[c].at # "idle" /\ call'[c].at = "idle" =>
             /\ reply' \in {"valid", "identity", "anonymous"} => <<"key", t.key>> \in inForce[c]
             /\ reply' = "identity" => \E n \in t.claims : <<"identityKey", n>> \in inForce[c]
             /\ reply' = "anonymous" => <<"identityKey", Empty>> \in inForce[c]]_tokenVars
  BY <1>4
<1> QED
  BY <1>5, TokenCorrect, AllInformed, PTL DEF TokenSpec, VerdictInForce

-----------------------------------------------------------------------------
(* Options                                                                 *)

PoolOptions == [idle : Int, open : Int, life : Int]

\* A pool's numbers are numbers, and what is to be connected has been accepted as
\* it is: nothing changes it between Validate and the client.
SettingsInvariant ==
  /\ kindOf \in DOMAIN OptionFields
  /\ kindOf \in Pools => fields \in PoolOptions
  /\ step \in {"validated", "built"} /\ kindOf \in {"kafka", "mongo"} =>
       Accepted(kindOf, fields)
  /\ step = "built" => client = Built(kindOf, fields)

LEMMA GiveKeeps ==
  ASSUME SettingsInvariant, Give
  PROVE  SettingsInvariant'
<1>1. PICK f \in DOMAIN OptionFields[kindOf] :
        \E v \in OptionFields[kindOf][f] : fields' = [fields EXCEPT ![f] = v]
  BY DEF Give
<1>2. PICK v \in OptionFields[kindOf][f] : fields' = [fields EXCEPT ![f] = v]
  BY <1>1
<1>3. step \in {"new", "given"} /\ UNCHANGED <<kindOf, step, client>>
  BY DEF Give
<1>4. kindOf \in Pools => fields' \in PoolOptions
  <2> SUFFICES ASSUME kindOf \in Pools
               PROVE  fields' \in PoolOptions
    OBVIOUS
  <2>1. OptionFields[kindOf] \in [{"idle", "open", "life"} -> SUBSET Int]
    BY SettingsAssumption DEF SettingsInvariant
  <2>2. fields \in PoolOptions /\ f \in {"idle", "open", "life"} /\ v \in Int
    BY <2>1 DEF SettingsInvariant
  <2> QED
    BY <1>2, <2>2 DEF PoolOptions
<1> QED
  BY <1>3, <1>4 DEF SettingsInvariant

LEMMA SettingsInvariance == SettingsSpec => []SettingsInvariant
<1>1. SettingsInit => SettingsInvariant
  <2> SUFFICES ASSUME SettingsInit
               PROVE  SettingsInvariant
    OBVIOUS
  <2>1. ASSUME kindOf \in Pools
        PROVE  fields \in PoolOptions
    <3>1. /\ NewMySQLOptions \in PoolOptions /\ NewPostgreSQLOptions \in PoolOptions
          /\ NewSQLiteOptions \in PoolOptions
      BY DEF NewMySQLOptions, NewPostgreSQLOptions, NewSQLiteOptions, PoolOptions
    <3>2. fields = DefaultsOf(kindOf)
      BY DEF SettingsInit
    <3>3. DefaultsOf(kindOf) \in {NewMySQLOptions, NewPostgreSQLOptions, NewSQLiteOptions}
      BY <2>1 DEF Pools, DefaultsOf
    <3> QED
      BY <3>1, <3>2, <3>3
  <2> QED
    BY <2>1 DEF SettingsInit, SettingsInvariant
<1>2. SettingsInvariant /\ [SettingsNext]_settingsVars => SettingsInvariant'
  <2> SUFFICES ASSUME SettingsInvariant, [SettingsNext]_settingsVars
               PROVE  SettingsInvariant'
    OBVIOUS
  <2>1. CASE Give
    BY <2>1, GiveKeeps
  <2>7. CASE AddFlags
    <3>1. kindOf \in Pools => fields' \in PoolOptions
      BY <2>7 DEF AddFlags, SettingsInvariant, PoolOptions
    <3> QED
      BY <2>7, <3>1 DEF AddFlags, SettingsInvariant
  <2>2. CASE Complete
    BY <2>2 DEF Complete, SettingsInvariant, Pools
  <2>3. CASE ValidateOptions
    BY <2>3 DEF ValidateOptions, SettingsInvariant, Pools
  <2>4. CASE CompleteFails \/ ValidateRefuses \/ BuildFails \/ LoadCA
    BY <2>4 DEF CompleteFails, ValidateRefuses, BuildFails, LoadCA, SettingsInvariant
  <2>5. CASE Build
    BY <2>5 DEF Build, SettingsInvariant
  <2>6. CASE AddCert \/ UNCHANGED settingsVars
    BY <2>6 DEF AddCert, settingsVars, SettingsInvariant
  <2> QED
    BY <2>1, <2>2, <2>3, <2>4, <2>5, <2>6, <2>7 DEF SettingsNext
<1> QED
  BY <1>1, <1>2, PTL DEF SettingsSpec

\* Whatever a pool's options, those left at zero get a limit and what is idle fits.
LEMMA PoolFits ==
  ASSUME NEW o \in PoolOptions, NEW idle \in Nat \ {0}, NEW open \in Nat \ {0}, NEW p,
         p.idle = Or(o.idle, idle), p.open = Or(o.open, open)
  PROVE  /\ Pool(p).open > 0 \/ o.open < 0
         /\ Pool(p).open > 0 => Pool(p).idle <= Pool(p).open
<1>1. o.idle \in Int /\ o.open \in Int
  BY DEF PoolOptions
<1>2. p.idle \in Int /\ p.open \in Int /\ (p.open > 0 \/ o.open < 0)
  BY <1>1 DEF Or
<1> QED
  BY <1>1, <1>2 DEF Pool

\* A client that is built sends its secret over TLS, presents the certificate that
\* is named, trusts the authority that is named, and a pool has the limits its
\* options ask for (options/*_options.go, db/*.go).
THEOREM ClientsAreAsAsked == SettingsSpec => []ClientsAsAsked
<1>1. SettingsInvariant => TLSAsAsked
  <2> SUFFICES ASSUME SettingsInvariant, step = "built", Connects
               PROVE  /\ kindOf = "kafka" /\ client.secret => client.tls.on
                      /\ fields.tls.useTLS =>
                           /\ fields.tls.cert \/ fields.tls.key => client.tls.certificate
                           /\ fields.tls.ca # "none" => client.tls.roots
    BY DEF TLSAsAsked
  <2>1. CASE kindOf = "kafka"
    <3>1. KafkaAccepted(fields) /\ client = Dialer(fields)
      BY <2>1 DEF SettingsInvariant, Connects, Accepted, Built
    <3> QED
      BY <3>1 DEF KafkaAccepted, TLSAccepted, Dialer, TLSConfig, GetMechanism
  <2>2. CASE kindOf = "mongo"
    <3>1. MongoAccepted(fields) /\ client = MongoClient(fields)
      BY <2>2 DEF SettingsInvariant, Connects, Accepted, Built
    <3> QED
      BY <2>2, <3>1 DEF MongoAccepted, TLSAccepted, MongoClient, TLSConfig
  <2> QED
    BY <2>1, <2>2 DEF Connects
<1>2. SettingsInvariant => PoolIsBounded
  <2> SUFFICES ASSUME SettingsInvariant, step = "built", kindOf \in Pools
               PROVE  /\ client.open > 0 \/ fields.open < 0
                      /\ client.open > 0 => client.idle <= client.open
    BY DEF PoolIsBounded
  <2>1. fields \in PoolOptions
    BY DEF SettingsInvariant
  <2>2. \/ client = Pool(setMySQLDefaults(fields))
        \/ client = Pool(setPostgreSQLDefaults(fields))
        \/ client = Pool(setSQLiteDefaults(fields))
    BY DEF SettingsInvariant, Pools, Built, NewMySQL, NewPostgreSQL, NewSQLite
  <2>3. CASE client = Pool(setMySQLDefaults(fields))
    <3>1. /\ setMySQLDefaults(fields).idle = Or(fields.idle, 10)
          /\ setMySQLDefaults(fields).open = Or(fields.open, 20)
      BY <2>1 DEF setMySQLDefaults, PoolOptions
    <3> QED
      BY <2>1, <2>3, <3>1, PoolFits
  <2>4. CASE client = Pool(setPostgreSQLDefaults(fields))
    <3>1. /\ setPostgreSQLDefaults(fields).idle = Or(fields.idle, 10)
          /\ setPostgreSQLDefaults(fields).open = Or(fields.open, 20)
      BY <2>1 DEF setPostgreSQLDefaults, PoolOptions
    <3> QED
      BY <2>1, <2>4, <3>1, PoolFits
  <2>5. CASE client = Pool(setSQLiteDefaults(fields))
    <3>1. /\ setSQLiteDefaults(fields).idle = Or(fields.idle, 2)
          /\ setSQLiteDefaults(fields).open = Or(fields.open, 5)
      BY <2>1 DEF setSQLiteDefaults, PoolOptions
    <3> QED
      BY <2>1, <2>5, <3>1, PoolFits
  <2> QED
    BY <2>2, <2>3, <2>4, <2>5
<1> QED
  BY <1>1, <1>2, SettingsInvariance, PTL DEF ClientsAsAsked

-----------------------------------------------------------------------------
(* Versions                                                                *)

-----------------------------------------------------------------------------
(* Lexicographic order *)

Places == Nat \ {0}

\* One row of numbers comes before another: it is smaller where they first differ.
Before(f, g) ==
  \E i \in Places : f[i] < g[i] /\ \A j \in Places : j < i => f[j] = g[j]

LEMMA BeforeTotal ==
  ASSUME NEW f \in [Places -> Int], NEW g \in [Places -> Int], f # g
  PROVE  Before(f, g) \/ Before(g, f)
<1> DEFINE T == {i \in Places : f[i] # g[i]}
<1>1. T \in SUBSET Nat /\ T # {}
  BY DEF Places
<1>2. PICK i \in T : \A j \in T : i <= j
  BY <1>1, LeastElement
<1>3. \A j \in Places : j < i => f[j] = g[j]
  BY <1>2 DEF Places
<1>4. f[i] < g[i] \/ g[i] < f[i]
  BY <1>2
<1> QED
  BY <1>2, <1>3, <1>4 DEF Before

LEMMA BeforeStrict ==
  ASSUME NEW f \in [Places -> Int], NEW g \in [Places -> Int], Before(f, g)
  PROVE  f # g /\ ~Before(g, f)
<1>1. PICK i \in Places : f[i] < g[i] /\ \A j \in Places : j < i => f[j] = g[j]
  BY DEF Before
<1>2. ASSUME NEW k \in Places, g[k] < f[k], \A j \in Places : j < k => g[j] = f[j]
      PROVE  FALSE
  <2>1. i < k \/ k < i \/ i = k
    BY DEF Places
  <2> QED
    BY <1>1, <1>2, <2>1
<1> QED
  BY <1>1, <1>2 DEF Before

LEMMA BeforeTransitive ==
  ASSUME NEW f \in [Places -> Int], NEW g \in [Places -> Int], NEW h \in [Places -> Int],
         Before(f, g), Before(g, h)
  PROVE  Before(f, h)
<1>1. PICK i \in Places : f[i] < g[i] /\ \A j \in Places : j < i => f[j] = g[j]
  BY DEF Before
<1>2. PICK k \in Places : g[k] < h[k] /\ \A j \in Places : j < k => g[j] = h[j]
  BY DEF Before
<1>3. i \in Nat /\ k \in Nat
  BY DEF Places
<1>4. CASE i <= k
  <2>1. f[i] < h[i]
    <3>1. g[i] <= h[i]
      BY <1>2, <1>3, <1>4
    <3> QED
      BY <1>1, <3>1
  <2>2. \A j \in Places : j < i => f[j] = h[j]
    BY <1>1, <1>2, <1>3, <1>4 DEF Places
  <2> QED
    BY <2>1, <2>2 DEF Before
<1>5. CASE k < i
  <2>1. f[k] < h[k]
    BY <1>1, <1>2, <1>5
  <2>2. \A j \in Places : j < k => f[j] = h[j]
    BY <1>1, <1>2, <1>3, <1>5 DEF Places
  <2> QED
    BY <2>1, <2>2 DEF Before
<1> QED
  BY <1>3, <1>4, <1>5

\* Not coming before is an order that any two are in.
LEMMA NotBeforeTransitive ==
  ASSUME NEW f \in [Places -> Int], NEW g \in [Places -> Int], NEW h \in [Places -> Int],
         ~Before(f, g), ~Before(g, h)
  PROVE  ~Before(f, h) /\ (f = h => f = g /\ g = h)
<1>1. f = g \/ Before(g, f)
  BY BeforeTotal
<1>2. g = h \/ Before(h, g)
  BY BeforeTotal
<1>3. f = h \/ Before(h, f)
  BY <1>1, <1>2, BeforeTransitive
<1> QED
  BY <1>1, <1>2, <1>3, BeforeStrict, BeforeTransitive

-----------------------------------------------------------------------------
(* The first difference *)

\* How two rows of length n, compared place by place in d, compare: as at the
\* first place where they differ.
LeastOf(T) == CHOOSE j \in T : \A k \in T : j <= k
FirstNonzero(d) ==
  LET at == {i \in DOMAIN d : d[i] # 0}
  IN IF at = {} THEN 0 ELSE d[LeastOf(at)]

LEMMA FirstNonzeroIs ==
  ASSUME NEW n \in Nat, NEW d \in [1..n -> Int]
  PROVE  \/ FirstNonzero(d) = 0 /\ \A i \in 1..n : d[i] = 0
         \/ \E i \in 1..n : /\ FirstNonzero(d) = d[i] /\ d[i] # 0
                            /\ \A j \in 1..n : j < i => d[j] = 0
<1> DEFINE at == {i \in DOMAIN d : d[i] # 0}
<1>1. CASE at = {}
  BY <1>1 DEF FirstNonzero
<1>2. CASE at # {}
  <2> DEFINE i == LeastOf(at)
  <2>1. at \in SUBSET Nat
    OBVIOUS
  <2>2. \E j \in at : \A k \in at : j <= k
    BY <1>2, <2>1, LeastElement
  <2>3. i \in at /\ \A k \in at : i <= k
    BY <2>2 DEF LeastOf
  <2>4. FirstNonzero(d) = d[i]
    BY <1>2 DEF FirstNonzero
  <2>5. \A j \in 1..n : j < i => d[j] = 0
    BY <2>3
  <2> HIDE DEF i
  <2> QED
    BY <2>3, <2>4, <2>5
<1> QED
  BY <1>1, <1>2

\* Compared the other way round the first difference is the opposite.
LEMMA FirstNonzeroOpposite ==
  ASSUME NEW n \in Nat, NEW d \in [1..n -> Int], NEW e \in [1..n -> Int],
         \A i \in 1..n : d[i] = -e[i]
  PROVE  FirstNonzero(d) = -FirstNonzero(e)
<1>1. \/ FirstNonzero(d) = 0 /\ \A i \in 1..n : d[i] = 0
      \/ \E i \in 1..n : /\ FirstNonzero(d) = d[i] /\ d[i] # 0
                         /\ \A j \in 1..n : j < i => d[j] = 0
  BY FirstNonzeroIs
<1>2. \/ FirstNonzero(e) = 0 /\ \A i \in 1..n : e[i] = 0
      \/ \E i \in 1..n : /\ FirstNonzero(e) = e[i] /\ e[i] # 0
                         /\ \A j \in 1..n : j < i => e[j] = 0
  BY FirstNonzeroIs
<1>3. CASE FirstNonzero(d) = 0 /\ \A i \in 1..n : d[i] = 0
  BY <1>2, <1>3
<1>4. ASSUME NEW i \in 1..n, FirstNonzero(d) = d[i], d[i] # 0, \A j \in 1..n : j < i => d[j] = 0
      PROVE  FirstNonzero(d) = -FirstNonzero(e)
  <2>1. PICK k \in 1..n : /\ FirstNonzero(e) = e[k] /\ e[k] # 0
                          /\ \A j \in 1..n : j < k => e[j] = 0
    BY <1>2, <1>4
  <2>2. i = k
    <3>1. ~(i < k) /\ ~(k < i)
      BY <1>4, <2>1
    <3> QED
      BY <3>1
  <2> QED
    BY <1>4, <2>1, <2>2
<1> QED
  BY <1>1, <1>3, <1>4
-----------------------------------------------------------------------------
(* Numbers *)

Common(a, b) == Lesser(Len(a), Len(b))

LEMMA CommonIs ==
  ASSUME NEW a, NEW b, Len(a) \in Nat, Len(b) \in Nat
  PROVE  /\ Common(a, b) \in Nat /\ Common(a, b) = Common(b, a)
         /\ Common(a, b) <= Len(a) /\ Common(a, b) <= Len(b)
         /\ Common(a, b) = Len(a) \/ Common(a, b) = Len(b)
  BY DEF Common, Lesser

LEMMA SignumIs ==
  ASSUME NEW x \in Int, NEW y \in Int
  PROVE  /\ \/ Signum(x - y) = 0 /\ x = y
            \/ Signum(x - y) = 1 /\ y < x
            \/ Signum(x - y) = -1 /\ x < y
         /\ Signum(x - y) = -Signum(y - x)
  BY DEF Signum

\* Rows that are compared place by place up to n.
LEMMA FirstPlace ==
  ASSUME NEW n \in Nat, NEW d \in [1..n -> Int],
         NEW f \in [Places -> Int], NEW g \in [Places -> Int],
         \A i \in 1..n : d[i] = Signum(f[i] - g[i])
  PROVE  \/ FirstNonzero(d) = 0 /\ \A i \in 1..n : f[i] = g[i]
         \/ FirstNonzero(d) = 1 /\ Before(g, f)
         \/ FirstNonzero(d) = -1 /\ Before(f, g)
<1>1. \A i \in 1..n : i \in Places /\ f[i] \in Int /\ g[i] \in Int
  BY DEF Places
<1>2. \A i \in 1..n :
        \/ d[i] = 0 /\ f[i] = g[i]
        \/ d[i] = 1 /\ g[i] < f[i]
        \/ d[i] = -1 /\ f[i] < g[i]
  BY <1>1, SignumIs
<1>3. ASSUME NEW i \in 1..n, FirstNonzero(d) = d[i], d[i] # 0, \A j \in 1..n : j < i => d[j] = 0
      PROVE  \/ FirstNonzero(d) = 1 /\ Before(g, f)
             \/ FirstNonzero(d) = -1 /\ Before(f, g)
  <2>1. \A j \in Places : j < i => j \in 1..n
    BY DEF Places
  <2>2. \A j \in Places : j < i => f[j] = g[j]
    BY <1>2, <1>3, <2>1
  <2>3. i \in Places
    BY <1>1
  <2> QED
    BY <1>2, <1>3, <2>2, <2>3 DEF Before
<1>4. \/ FirstNonzero(d) = 0 /\ \A i \in 1..n : d[i] = 0
      \/ \E i \in 1..n : /\ FirstNonzero(d) = d[i] /\ d[i] # 0
                         /\ \A j \in 1..n : j < i => d[j] = 0
  BY FirstNonzeroIs
<1>5. CASE FirstNonzero(d) = 0 /\ \A i \in 1..n : d[i] = 0
  BY <1>2, <1>5
<1> QED
  BY <1>3, <1>4, <1>5

\* Rows that are alike up to n, the one never smaller behind.
LEMMA LargerBehind ==
  ASSUME NEW n \in Nat, NEW f \in [Places -> Int], NEW g \in [Places -> Int],
         \A i \in 1..n : f[i] = g[i],
         \A i \in Places : i > n => f[i] >= g[i],
         NEW k \in Places, f[k] # g[k]
  PROVE  Before(g, f)
<1>1. ~Before(f, g)
  <2> SUFFICES ASSUME NEW i \in Places
               PROVE  ~(f[i] < g[i])
    BY DEF Before
  <2>1. i \in 1..n \/ i > n
    BY DEF Places
  <2> QED
    BY <2>1
<1> QED
  BY <1>1, BeforeTotal

\* The numbers of a version with zeros behind.
Digits(nums) == [i \in Places |-> IF i \in DOMAIN nums THEN nums[i] ELSE 0]

LEMMA DigitsAre ==
  ASSUME NEW a \in Seq(Nat)
  PROVE  /\ Digits(a) \in [Places -> Int] /\ Len(a) \in Nat
         /\ \A i \in 1..Len(a) : i \in Places /\ a[i] \in Nat /\ Digits(a)[i] = a[i]
         /\ \A i \in Places : Digits(a)[i] >= 0 /\ (i > Len(a) => Digits(a)[i] = 0)
<1>1. Len(a) \in Nat /\ DOMAIN a = 1..Len(a) /\ \A i \in 1..Len(a) : a[i] \in Nat
  BY ElementOfSeq
<1>2. \A i \in 1..Len(a) : i \in Places
  BY <1>1 DEF Places
<1>3. \A i \in Places : Digits(a)[i] = IF i \in 1..Len(a) THEN a[i] ELSE 0
  BY <1>1 DEF Digits
<1>4. \A i \in Places : Digits(a)[i] \in Nat
  BY <1>1, <1>3
<1>5. Digits(a) \in [Places -> Int]
  BY <1>4 DEF Digits
<1> QED
  BY <1>1, <1>2, <1>3, <1>4, <1>5 DEF Places

\* What is behind place m is zeros.
LEMMA ZerosBehind ==
  ASSUME NEW a \in Seq(Nat), NEW m \in Nat
  PROVE  OnlyZeros(SubSeq(a, m + 1, Len(a))) <=> \A i \in Places : i > m => Digits(a)[i] = 0
<1> DEFINE rest == SubSeq(a, m + 1, Len(a))
           f == Digits(a)
<1>1. /\ Len(a) \in Nat
      /\ \A i \in 1..Len(a) : i \in Places /\ f[i] = a[i]
      /\ \A i \in Places : i > Len(a) => f[i] = 0
  BY DigitsAre
<1>2. /\ \A i \in DOMAIN rest : i \in Nat /\ i > 0 /\ i + m <= Len(a) /\ rest[i] = a[i + m]
      /\ \A i \in 1..Len(a) : i > m => (i - m) \in DOMAIN rest
  BY <1>1
<1> HIDE DEF rest, f
<1>3. ASSUME OnlyZeros(rest), NEW i \in Places, i > m
      PROVE  f[i] = 0
  <2>1. CASE i > Len(a)
    BY <1>1, <2>1
  <2>2. CASE ~(i > Len(a))
    <3>1. i \in 1..Len(a) /\ (i - m) + m = i
      BY <1>1, <2>2 DEF Places
    <3>2. (i - m) \in DOMAIN rest
      BY <1>2, <1>3, <3>1
    <3>3. rest[i - m] = a[i]
      BY <1>2, <3>1, <3>2
    <3> QED
      BY <1>1, <1>3, <3>1, <3>2, <3>3 DEF OnlyZeros
  <2> QED
    BY <2>1, <2>2
<1>4. ASSUME \A i \in Places : i > m => f[i] = 0, NEW i \in DOMAIN rest
      PROVE  rest[i] = 0
  <2>1. i + m \in 1..Len(a) /\ i + m > m /\ rest[i] = a[i + m]
    BY <1>1, <1>2
  <2> QED
    BY <1>1, <1>4, <2>1
<1> QED
  BY <1>3, <1>4 DEF OnlyZeros, rest, f

NumberSigns(a, b) == [i \in 1..Common(a, b) |-> Signum(a[i] - b[i])]
FirstOfNumbers(a, b) == FirstDifference(a, b, LAMBDA m, n : Signum(m - n))

LEMMA NumbersByPlace ==
  ASSUME NEW a \in Seq(Nat), NEW b \in Seq(Nat)
  PROVE  /\ Common(a, b) \in Nat
         /\ NumberSigns(a, b) \in [1..Common(a, b) -> Int]
         /\ \A i \in 1..Common(a, b) :
              NumberSigns(a, b)[i] = Signum(Digits(a)[i] - Digits(b)[i])
         /\ FirstOfNumbers(a, b) = FirstNonzero(NumberSigns(a, b))
<1> DEFINE n == Common(a, b)
           d == NumberSigns(a, b)
           at == {i \in 1..n : Signum(a[i] - b[i]) # 0}
           least == LeastOf(at)
<1>1. n \in Nat /\ n <= Len(a) /\ n <= Len(b) /\ Len(a) \in Nat /\ Len(b) \in Nat
  BY DigitsAre, CommonIs
<1> HIDE DEF n
<1>2. \A i \in 1..n : i \in 1..Len(a) /\ i \in 1..Len(b)
  BY <1>1
<1>3. \A i \in 1..n : a[i] \in Nat /\ b[i] \in Nat /\ Digits(a)[i] = a[i] /\ Digits(b)[i] = b[i]
  BY <1>2, DigitsAre
<1>4. d = [i \in 1..n |-> Signum(a[i] - b[i])]
  BY DEF NumberSigns, n
<1>5. d \in [1..n -> Int]
  BY <1>3, <1>4 DEF Signum
<1>6. FirstOfNumbers(a, b) = IF at = {} THEN 0 ELSE Signum(a[least] - b[least])
  BY DEF FirstOfNumbers, FirstDifference, Common, LeastOf, n
<1>7. FirstNonzero(d) = IF at = {} THEN 0 ELSE d[least]
  <2>1. at = {i \in DOMAIN d : d[i] # 0}
    BY <1>4
  <2> HIDE DEF d
  <2> QED
    BY <2>1 DEF FirstNonzero
<1>8. CASE at # {}
  <2>1. at \in SUBSET Nat
    BY <1>1
  <2>2. \E j \in at : \A k \in at : j <= k
    BY <1>8, <2>1, LeastElement
  <2>3. least \in at
    BY <2>2 DEF LeastOf
  <2> HIDE DEF least
  <2>4. d[least] = Signum(a[least] - b[least])
    BY <1>4, <2>3
  <2> QED
    BY <1>1, <1>3, <1>4, <1>5, <1>6, <1>7, <1>8, <2>4 DEF n
<1> QED
  BY <1>1, <1>3, <1>4, <1>5, <1>6, <1>7, <1>8 DEF n

\* CompareNumbers compares the numbers one by one, with zeros behind the shorter.
LEMMA NumbersByDigits ==
  ASSUME NEW a \in Seq(Nat), NEW b \in Seq(Nat)
  PROVE  \/ CompareNumbers(a, b) = 0 /\ Digits(a) = Digits(b)
         \/ CompareNumbers(a, b) = 1 /\ Before(Digits(b), Digits(a))
         \/ CompareNumbers(a, b) = -1 /\ Before(Digits(a), Digits(b))
<1> DEFINE n == Common(a, b)
           f == Digits(a)
           g == Digits(b)
           zerosA == OnlyZeros(SubSeq(a, Len(b) + 1, Len(a)))
           zerosB == OnlyZeros(SubSeq(b, Len(a) + 1, Len(b)))
           first == FirstOfNumbers(a, b)
<1>1. /\ Len(a) \in Nat /\ Len(b) \in Nat
      /\ f \in [Places -> Int] /\ g \in [Places -> Int]
      /\ \A i \in Places : f[i] >= 0 /\ (i > Len(a) => f[i] = 0)
      /\ \A i \in Places : g[i] >= 0 /\ (i > Len(b) => g[i] = 0)
  BY DigitsAre
<1>2. n \in Nat /\ n <= Len(a) /\ n <= Len(b) /\ (n = Len(a) \/ n = Len(b))
  BY <1>1, CommonIs
<1>3. \/ first = 0 /\ \A i \in 1..n : f[i] = g[i]
      \/ first = 1 /\ Before(g, f)
      \/ first = -1 /\ Before(f, g)
  <2>1. /\ NumberSigns(a, b) \in [1..n -> Int] /\ first = FirstNonzero(NumberSigns(a, b))
        /\ \A i \in 1..n : NumberSigns(a, b)[i] = Signum(f[i] - g[i])
    BY NumbersByPlace
  <2> HIDE DEF n, f, g, first
  <2> QED
    BY <1>1, <1>2, <2>1, FirstPlace
<1>4. zerosA <=> \A i \in Places : i > Len(b) => f[i] = 0
  BY <1>1, ZerosBehind
<1>5. zerosB <=> \A i \in Places : i > Len(a) => g[i] = 0
  BY <1>1, ZerosBehind
<1>6. /\ first # 0 => CompareNumbers(a, b) = first
      /\ first = 0 /\ ~zerosA => CompareNumbers(a, b) = 1
      /\ first = 0 /\ zerosA /\ ~zerosB => CompareNumbers(a, b) = -1
      /\ first = 0 /\ zerosA /\ zerosB => CompareNumbers(a, b) = 0
  <2>1. CompareNumbers(a, b) =
          IF first # 0 THEN first ELSE IF ~zerosA THEN 1 ELSE IF ~zerosB THEN -1 ELSE 0
    BY DEF CompareNumbers, FirstOfNumbers
  <2>2. zerosA \in BOOLEAN /\ zerosB \in BOOLEAN
    BY DEF OnlyZeros
  <2> HIDE DEF zerosA, zerosB, first
  <2> QED
    BY <2>1, <2>2
<1> HIDE DEF n, f, g, zerosA, zerosB, first
<1>7. CASE first # 0
  BY <1>3, <1>6, <1>7 DEF f, g
<1>8. CASE first = 0
  <2>1. \A i \in 1..n : f[i] = g[i]
    BY <1>3, <1>8
  <2>2. CASE ~zerosA
    <3>1. PICK k \in Places : k > Len(b) /\ f[k] # 0
      BY <1>4, <2>2
    <3>2. n = Len(b)
      BY <1>1, <1>2, <3>1 DEF Places
    <3>3. Before(g, f)
      BY <1>1, <1>2, <2>1, <3>1, <3>2, LargerBehind
    <3> QED
      BY <1>6, <1>8, <2>2, <3>3 DEF f, g
  <2>3. CASE zerosA /\ ~zerosB
    <3>1. PICK k \in Places : k > Len(a) /\ g[k] # 0
      BY <1>5, <2>3
    <3>2. n = Len(a)
      BY <1>1, <1>2, <3>1 DEF Places
    <3>3. Before(f, g)
      BY <1>1, <1>2, <2>1, <3>1, <3>2, LargerBehind
    <3> QED
      BY <1>6, <1>8, <2>3, <3>3 DEF f, g
  <2>4. CASE zerosA /\ zerosB
    <3>1. \A i \in Places : i > n => f[i] = g[i]
      BY <1>1, <1>2, <1>4, <1>5, <2>4
    <3>2. \A i \in Places : f[i] = g[i]
      BY <1>2, <2>1, <3>1 DEF Places
    <3> QED
      BY <1>1, <1>6, <1>8, <2>4, <3>2 DEF f, g
  <2> QED
    BY <2>2, <2>3, <2>4
<1> QED
  BY <1>7, <1>8
-----------------------------------------------------------------------------
(* Pre-releases *)

\* Where an identifier is among those of its kind.
Rank(x) == IF x.value # NotANumber THEN x.value ELSE x.text

\* The ranks of the identifiers, with something below all of them behind.
Ranks(pre) == [i \in Places |-> IF i \in DOMAIN pre THEN Rank(pre[i]) ELSE -1]

IdentifierSigns(a, b) == [i \in 1..Common(a, b) |-> CompareIdentifiers(a[i], b[i])]
FirstOfIdentifiers(a, b) == FirstDifference(a, b, CompareIdentifiers)

\* Of two identifiers at one place both are numbers or none is.
SameKinds(a, b) ==
  \A i \in 1..Common(a, b) : (a[i].value = NotANumber) = (b[i].value = NotANumber)

\* A release comes after its pre-releases.
PreBefore(a, b) == a # <<>> /\ (b = <<>> \/ Before(Ranks(a), Ranks(b)))

LEMMA IdentifiersCompare ==
  ASSUME NEW x \in PreReleases, NEW y \in PreReleases
  PROVE  /\ Rank(x) \in Nat
         /\ CompareIdentifiers(x, y) \in Int
         /\ CompareIdentifiers(x, y) = -CompareIdentifiers(y, x)
         /\ (x.value = NotANumber) = (y.value = NotANumber) =>
              CompareIdentifiers(x, y) = Signum(Rank(x) - Rank(y))
<1>1. /\ x.text \in Nat /\ y.text \in Nat
      /\ x.value \in Nat \cup {-1} /\ y.value \in Nat \cup {-1} /\ NotANumber = -1
  BY VersionsAssumption DEF NotANumber
<1>2. Rank(x) \in Nat
  BY <1>1 DEF Rank
<1>3. CASE x.value # NotANumber /\ y.value # NotANumber
  <2>1. /\ CompareIdentifiers(x, y) = Signum(x.value - y.value)
        /\ CompareIdentifiers(y, x) = Signum(y.value - x.value)
        /\ Rank(x) = x.value /\ Rank(y) = y.value
    BY <1>3 DEF CompareIdentifiers, Rank
  <2> QED
    BY <1>1, <1>2, <2>1, SignumIs
<1>4. CASE ~(x.value # NotANumber /\ y.value # NotANumber)
  <2>1. /\ CompareIdentifiers(x, y) = Signum(x.text - y.text)
        /\ CompareIdentifiers(y, x) = Signum(y.text - x.text)
        /\ (x.value = NotANumber) = (y.value = NotANumber) => Rank(x) = x.text /\ Rank(y) = y.text
    BY <1>4 DEF CompareIdentifiers, Rank
  <2> QED
    BY <1>1, <1>2, <2>1, SignumIs
<1> QED
  BY <1>3, <1>4

LEMMA RanksAre ==
  ASSUME NEW a \in Seq(PreReleases)
  PROVE  /\ Ranks(a) \in [Places -> Int] /\ Len(a) \in Nat
         /\ \A i \in 1..Len(a) : i \in Places /\ a[i] \in PreReleases /\ Ranks(a)[i] = Rank(a[i])
         /\ \A i \in Places : Ranks(a)[i] >= -1 /\ (i > Len(a) => Ranks(a)[i] = -1)
         /\ a = <<>> <=> Len(a) = 0
<1>1. Len(a) \in Nat /\ DOMAIN a = 1..Len(a) /\ \A i \in 1..Len(a) : a[i] \in PreReleases
  BY ElementOfSeq
<1>2. \A i \in 1..Len(a) : i \in Places
  BY <1>1 DEF Places
<1>3. \A i \in Places : Ranks(a)[i] = IF i \in 1..Len(a) THEN Rank(a[i]) ELSE -1
  BY <1>1 DEF Ranks
<1>4. \A i \in Places : Ranks(a)[i] \in Int /\ Ranks(a)[i] >= -1
  BY <1>1, <1>3, IdentifiersCompare
<1>5. Ranks(a) \in [Places -> Int]
  BY <1>4 DEF Ranks
<1>6. a = <<>> <=> Len(a) = 0
  BY EmptySeq
<1> QED
  BY <1>1, <1>2, <1>3, <1>4, <1>5, <1>6 DEF Places

LEMMA IdentifiersByPlace ==
  ASSUME NEW a \in Seq(PreReleases), NEW b \in Seq(PreReleases)
  PROVE  /\ Common(a, b) \in Nat
         /\ IdentifierSigns(a, b) \in [1..Common(a, b) -> Int]
         /\ \A i \in 1..Common(a, b) : i \in 1..Len(a) /\ i \in 1..Len(b)
         /\ FirstOfIdentifiers(a, b) = FirstNonzero(IdentifierSigns(a, b))
<1> DEFINE n == Common(a, b)
           d == IdentifierSigns(a, b)
           at == {i \in 1..n : CompareIdentifiers(a[i], b[i]) # 0}
           least == LeastOf(at)
<1>1. n \in Nat /\ n <= Len(a) /\ n <= Len(b) /\ Len(a) \in Nat /\ Len(b) \in Nat
  BY RanksAre, CommonIs
<1> HIDE DEF n
<1>2. \A i \in 1..n : i \in 1..Len(a) /\ i \in 1..Len(b)
  BY <1>1
<1>3. \A i \in 1..n : a[i] \in PreReleases /\ b[i] \in PreReleases
  BY <1>2, RanksAre
<1>4. d = [i \in 1..n |-> CompareIdentifiers(a[i], b[i])]
  BY DEF IdentifierSigns, n
<1>5. d \in [1..n -> Int]
  BY <1>3, <1>4, IdentifiersCompare
<1>6. FirstOfIdentifiers(a, b) = IF at = {} THEN 0 ELSE CompareIdentifiers(a[least], b[least])
  BY DEF FirstOfIdentifiers, FirstDifference, Common, LeastOf, n
<1>7. FirstNonzero(d) = IF at = {} THEN 0 ELSE d[least]
  <2>1. at = {i \in DOMAIN d : d[i] # 0}
    BY <1>4
  <2> HIDE DEF d
  <2> QED
    BY <2>1 DEF FirstNonzero
<1>8. CASE at # {}
  <2>1. at \in SUBSET Nat
    BY <1>1
  <2>2. \E j \in at : \A k \in at : j <= k
    BY <1>8, <2>1, LeastElement
  <2>3. least \in at
    BY <2>2 DEF LeastOf
  <2> HIDE DEF least
  <2>4. d[least] = CompareIdentifiers(a[least], b[least])
    BY <1>4, <2>3
  <2> QED
    BY <1>1, <1>2, <1>5, <1>6, <1>7, <1>8, <2>4 DEF n
<1> QED
  BY <1>1, <1>2, <1>5, <1>6, <1>7, <1>8 DEF n

\* Pre-releases of the same kinds compare by the ranks of their identifiers.
LEMMA PreReleasesByRanks ==
  ASSUME NEW a \in Seq(PreReleases), NEW b \in Seq(PreReleases), SameKinds(a, b)
  PROVE  \/ ComparePreReleases(a, b) = 0 /\ Ranks(a) = Ranks(b) /\ (a = <<>> <=> b = <<>>)
         \/ ComparePreReleases(a, b) = 1 /\ PreBefore(b, a)
         \/ ComparePreReleases(a, b) = -1 /\ PreBefore(a, b)
<1> DEFINE n == Common(a, b)
           f == Ranks(a)
           g == Ranks(b)
           first == FirstOfIdentifiers(a, b)
<1>1. CASE a = b \/ a = <<>> \/ b = <<>>
  BY <1>1 DEF ComparePreReleases, PreBefore
<1>2. CASE a # b /\ a # <<>> /\ b # <<>>
  <2>1. ComparePreReleases(a, b) = IF first # 0 THEN first ELSE Signum(Len(a) - Len(b))
    BY <1>2 DEF ComparePreReleases, FirstOfIdentifiers
  <2>2. /\ Len(a) \in Nat /\ Len(b) \in Nat
        /\ f \in [Places -> Int] /\ g \in [Places -> Int]
        /\ \A i \in Places : f[i] >= -1 /\ (i > Len(a) => f[i] = -1)
        /\ \A i \in Places : g[i] >= -1 /\ (i > Len(b) => g[i] = -1)
    BY RanksAre
  <2>3. n \in Nat /\ n <= Len(a) /\ n <= Len(b) /\ (n = Len(a) \/ n = Len(b))
    BY <2>2, CommonIs
  <2>4. \A i \in 1..n : IdentifierSigns(a, b)[i] = Signum(f[i] - g[i])
    <3> TAKE i \in 1..n
    <3>1. i \in 1..Len(a) /\ i \in 1..Len(b)
      BY IdentifiersByPlace
    <3>2. a[i] \in PreReleases /\ b[i] \in PreReleases /\ f[i] = Rank(a[i]) /\ g[i] = Rank(b[i])
      BY <3>1, RanksAre
    <3>3. IdentifierSigns(a, b)[i] = CompareIdentifiers(a[i], b[i])
      BY DEF IdentifierSigns
    <3>4. (a[i].value = NotANumber) = (b[i].value = NotANumber)
      BY DEF SameKinds
    <3> QED
      BY <3>2, <3>3, <3>4, IdentifiersCompare
  <2>5. \/ first = 0 /\ \A i \in 1..n : f[i] = g[i]
        \/ first = 1 /\ Before(g, f)
        \/ first = -1 /\ Before(f, g)
    <3>1. /\ IdentifierSigns(a, b) \in [1..n -> Int]
          /\ first = FirstNonzero(IdentifierSigns(a, b))
      BY IdentifiersByPlace
    <3> HIDE DEF n, f, g, first
    <3> QED
      BY <2>2, <2>3, <2>4, <3>1, FirstPlace
  <2> HIDE DEF n, f, g, first
  <2>6. CASE first # 0
    BY <1>2, <2>1, <2>5, <2>6 DEF PreBefore, f, g
  <2>7. CASE first = 0 /\ Len(a) = Len(b)
    <3>1. \A i \in Places : f[i] = g[i]
      <4> TAKE i \in Places
      <4>1. i \in 1..n \/ i > n
        BY <2>3 DEF Places
      <4> QED
        BY <2>2, <2>3, <2>5, <2>7, <4>1
    <3>2. f = g
      BY <2>2, <3>1
    <3>3. Signum(Len(a) - Len(b)) = 0
      BY <2>2, <2>7, SignumIs
    <3> QED
      BY <1>2, <2>1, <2>7, <3>2, <3>3 DEF f, g
  <2>8. CASE first = 0 /\ Len(a) > Len(b)
    <3>1. Signum(Len(a) - Len(b)) = 1
      BY <2>2, <2>8 DEF Signum
    <3> DEFINE k == Len(b) + 1
    <3>2. k \in 1..Len(a) /\ k > Len(b) /\ n = Len(b)
      BY <2>2, <2>3, <2>8
    <3>3. k \in Places /\ f[k] \in Nat
      <4>1. k \in Places /\ a[k] \in PreReleases /\ f[k] = Rank(a[k])
        BY <3>2, RanksAre DEF f
      <4> QED
        BY <4>1, IdentifiersCompare
    <3> HIDE DEF k
    <3>4. f[k] # g[k]
      BY <2>2, <3>2, <3>3
    <3>5. \A i \in Places : i > n => f[i] >= g[i]
      BY <2>2, <3>2
    <3>6. Before(g, f)
      <4>1. \A i \in 1..n : f[i] = g[i]
        BY <2>5, <2>8
      <4> QED
        BY <2>2, <2>3, <3>3, <3>4, <3>5, <4>1, LargerBehind
    <3> QED
      BY <1>2, <2>1, <2>8, <3>1, <3>6 DEF PreBefore, f, g
  <2>9. CASE first = 0 /\ Len(b) > Len(a)
    <3>1. Signum(Len(a) - Len(b)) = -1
      BY <2>2, <2>9 DEF Signum
    <3> DEFINE k == Len(a) + 1
    <3>2. k \in 1..Len(b) /\ k > Len(a) /\ n = Len(a)
      BY <2>2, <2>3, <2>9
    <3>3. k \in Places /\ g[k] \in Nat
      <4>1. k \in Places /\ b[k] \in PreReleases /\ g[k] = Rank(b[k])
        BY <3>2, RanksAre DEF g
      <4> QED
        BY <4>1, IdentifiersCompare
    <3> HIDE DEF k
    <3>4. f[k] # g[k]
      BY <2>2, <3>2, <3>3
    <3>5. \A i \in Places : i > n => g[i] >= f[i]
      BY <2>2, <3>2
    <3>6. Before(f, g)
      <4>1. \A i \in 1..n : f[i] = g[i]
        BY <2>5, <2>9
      <4> QED
        BY <2>2, <2>3, <3>3, <3>4, <3>5, <4>1, LargerBehind
    <3> QED
      BY <1>2, <2>1, <2>9, <3>1, <3>6 DEF PreBefore, f, g
  <2> QED
    BY <2>2, <2>6, <2>7, <2>8, <2>9
<1> QED
  BY <1>1, <1>2

\* Whatever their kinds, pre-releases compare the opposite the other way round.
LEMMA PreReleasesOpposite ==
  ASSUME NEW a \in Seq(PreReleases), NEW b \in Seq(PreReleases)
  PROVE  /\ ComparePreReleases(a, b) \in Int
         /\ ComparePreReleases(a, b) = -ComparePreReleases(b, a)
<1>1. CASE a = b \/ a = <<>> \/ b = <<>>
  BY <1>1 DEF ComparePreReleases
<1>2. CASE a # b /\ a # <<>> /\ b # <<>>
  <2> DEFINE n == Common(a, b)
             d == IdentifierSigns(a, b)
             e == IdentifierSigns(b, a)
             first == FirstOfIdentifiers(a, b)
             back == FirstOfIdentifiers(b, a)
  <2>1. /\ ComparePreReleases(a, b) = IF first # 0 THEN first ELSE Signum(Len(a) - Len(b))
        /\ ComparePreReleases(b, a) = IF back # 0 THEN back ELSE Signum(Len(b) - Len(a))
    BY <1>2 DEF ComparePreReleases, FirstOfIdentifiers
  <2>2. Len(a) \in Nat /\ Len(b) \in Nat /\ n \in Nat /\ Common(b, a) = n
    BY RanksAre, CommonIs
  <2>3. /\ d \in [1..n -> Int] /\ e \in [1..n -> Int]
        /\ first = FirstNonzero(d) /\ back = FirstNonzero(e)
    BY <2>2, IdentifiersByPlace
  <2>4. \A i \in 1..n : d[i] = -e[i]
    <3> TAKE i \in 1..n
    <3>1. i \in 1..Len(a) /\ i \in 1..Len(b)
      BY IdentifiersByPlace
    <3>2. a[i] \in PreReleases /\ b[i] \in PreReleases
      BY <3>1, RanksAre
    <3>3. d[i] = CompareIdentifiers(a[i], b[i]) /\ e[i] = CompareIdentifiers(b[i], a[i])
      BY <2>2 DEF IdentifierSigns
    <3> QED
      BY <3>2, <3>3, IdentifiersCompare
  <2> HIDE DEF n, d, e, first, back
  <2>5. first = -back
    BY <2>2, <2>3, <2>4, FirstNonzeroOpposite
  <2>6. first \in Int /\ back \in Int
    <3>1. first = 0 \/ \E i \in 1..n : first = d[i]
      BY <2>2, <2>3, FirstNonzeroIs
    <3>2. back = 0 \/ \E i \in 1..n : back = e[i]
      BY <2>2, <2>3, FirstNonzeroIs
    <3> QED
      BY <2>3, <3>1, <3>2
  <2>7. /\ Signum(Len(a) - Len(b)) = -Signum(Len(b) - Len(a))
        /\ Signum(Len(a) - Len(b)) \in Int /\ Signum(Len(b) - Len(a)) \in Int
    BY <2>2 DEF Signum
  <2> QED
    BY <2>1, <2>5, <2>6, <2>7
<1> QED
  BY <1>1, <1>2
-----------------------------------------------------------------------------
(* Comparing versions *)

AnyVersion ==
  {v \in [nums : Seq(Nat), semver : BOOLEAN, pre : Seq(PreReleases)] : Len(v.nums) >= 2}

Key(v) == Digits(v.nums)

LEMMA KeyIs ==
  ASSUME NEW v \in AnyVersion
  PROVE  /\ v.nums \in Seq(Nat) /\ v.pre \in Seq(PreReleases) /\ v.semver \in BOOLEAN
         /\ Key(v) \in [Places -> Int]
         /\ Major(v) \in Nat /\ 1 \in Places /\ Key(v)[1] = Major(v)
<1>1. v.nums \in Seq(Nat) /\ v.pre \in Seq(PreReleases) /\ v.semver \in BOOLEAN /\ Len(v.nums) >= 2
  BY DEF AnyVersion
<1>2. 1 \in 1..Len(v.nums)
  BY <1>1, DigitsAre
<1> QED
  BY <1>1, <1>2, DigitsAre DEF Key, Major

LEMMA CompareOpposite ==
  ASSUME NEW v \in AnyVersion, NEW w \in AnyVersion
  PROVE  Compare(v, w) = -Compare(w, v)
<1> DEFINE there == CompareNumbers(v.nums, w.nums)
           back == CompareNumbers(w.nums, v.nums)
<1>1. /\ v.nums \in Seq(Nat) /\ w.nums \in Seq(Nat)
      /\ Key(v) \in [Places -> Int] /\ Key(w) \in [Places -> Int]
      /\ v.pre \in Seq(PreReleases) /\ w.pre \in Seq(PreReleases)
  BY KeyIs
<1>2. \/ there = 0 /\ Key(v) = Key(w)
      \/ there = 1 /\ Before(Key(w), Key(v))
      \/ there = -1 /\ Before(Key(v), Key(w))
  BY <1>1, NumbersByDigits DEF Key
<1>3. \/ back = 0 /\ Key(w) = Key(v)
      \/ back = 1 /\ Before(Key(v), Key(w))
      \/ back = -1 /\ Before(Key(w), Key(v))
  BY <1>1, NumbersByDigits DEF Key
<1>4. /\ Before(Key(v), Key(w)) => Key(v) # Key(w) /\ ~Before(Key(w), Key(v))
      /\ Before(Key(w), Key(v)) => Key(v) # Key(w) /\ ~Before(Key(v), Key(w))
  BY <1>1, BeforeStrict
<1>5. \/ there = 0 /\ back = 0
      \/ there = 1 /\ back = -1
      \/ there = -1 /\ back = 1
  <2> HIDE DEF there, back
  <2> QED
    BY <1>2, <1>3, <1>4
<1>6. /\ Compare(v, w) = IF there # 0 \/ ~v.semver \/ ~w.semver THEN there
                         ELSE ComparePreReleases(v.pre, w.pre)
      /\ Compare(w, v) = IF back # 0 \/ ~w.semver \/ ~v.semver THEN back
                         ELSE ComparePreReleases(w.pre, v.pre)
  BY DEF Compare
<1>7. /\ ComparePreReleases(v.pre, w.pre) \in Int
      /\ ComparePreReleases(v.pre, w.pre) = -ComparePreReleases(w.pre, v.pre)
  BY <1>1, PreReleasesOpposite
<1>8. ComparePreReleases(w.pre, v.pre) \in Int
  BY <1>1, PreReleasesOpposite
<1> HIDE DEF there, back
<1> QED
  BY <1>5, <1>6, <1>7, <1>8

\* Versions that are not semantic are later when their numbers are.
LEMMA GenericCompare ==
  ASSUME NEW v \in AnyVersion, NEW w \in AnyVersion, ~v.semver
  PROVE  /\ AtLeast(v, w) <=> ~Before(Key(v), Key(w))
         /\ LessThan(v, w) <=> Before(Key(v), Key(w))
<1>1. /\ v.nums \in Seq(Nat) /\ w.nums \in Seq(Nat)
      /\ Key(v) \in [Places -> Int] /\ Key(w) \in [Places -> Int]
  BY KeyIs
<1>2. \/ CompareNumbers(v.nums, w.nums) = 0 /\ Key(v) = Key(w)
      \/ CompareNumbers(v.nums, w.nums) = 1 /\ Before(Key(w), Key(v))
      \/ CompareNumbers(v.nums, w.nums) = -1 /\ Before(Key(v), Key(w))
  BY <1>1, NumbersByDigits DEF Key
<1>3. Compare(v, w) = CompareNumbers(v.nums, w.nums)
  BY DEF Compare
<1>4. Compare(v, w) = -1 <=> Before(Key(v), Key(w))
  BY <1>1, <1>2, <1>3, BeforeStrict
<1> QED
  BY <1>4 DEF AtLeast, LessThan

\* Semantic versions are later when their numbers are, and of one number when
\* their pre-releases are.
LEMMA SemanticCompare ==
  ASSUME NEW v \in AnyVersion, NEW w \in AnyVersion, v.semver, w.semver, SameKinds(v.pre, w.pre)
  PROVE  ~AtLeast(v, w) <=>
           Before(Key(v), Key(w)) \/ (Key(v) = Key(w) /\ PreBefore(v.pre, w.pre))
<1>1. /\ v.nums \in Seq(Nat) /\ w.nums \in Seq(Nat)
      /\ Key(v) \in [Places -> Int] /\ Key(w) \in [Places -> Int]
      /\ v.pre \in Seq(PreReleases) /\ w.pre \in Seq(PreReleases)
  BY KeyIs
<1>2. \/ CompareNumbers(v.nums, w.nums) = 0 /\ Key(v) = Key(w)
      \/ CompareNumbers(v.nums, w.nums) = 1 /\ Before(Key(w), Key(v))
      \/ CompareNumbers(v.nums, w.nums) = -1 /\ Before(Key(v), Key(w))
  BY <1>1, NumbersByDigits DEF Key
<1>3. Compare(v, w) = IF CompareNumbers(v.nums, w.nums) # 0 THEN CompareNumbers(v.nums, w.nums)
                      ELSE ComparePreReleases(v.pre, w.pre)
  BY DEF Compare
<1>4. ComparePreReleases(v.pre, w.pre) = -1 <=> PreBefore(v.pre, w.pre)
  <2>1. \/ /\ ComparePreReleases(v.pre, w.pre) = 0 /\ Ranks(v.pre) = Ranks(w.pre)
           /\ v.pre = <<>> <=> w.pre = <<>>
        \/ ComparePreReleases(v.pre, w.pre) = 1 /\ PreBefore(w.pre, v.pre)
        \/ ComparePreReleases(v.pre, w.pre) = -1 /\ PreBefore(v.pre, w.pre)
    BY <1>1, PreReleasesByRanks
  <2>2. Ranks(v.pre) \in [Places -> Int] /\ Ranks(w.pre) \in [Places -> Int]
    BY <1>1, RanksAre
  <2>3. Before(Ranks(v.pre), Ranks(w.pre)) =>
          Ranks(v.pre) # Ranks(w.pre) /\ ~Before(Ranks(w.pre), Ranks(v.pre))
    BY <2>2, BeforeStrict
  <2> QED
    BY <2>1, <2>3 DEF PreBefore
<1>5. /\ Before(Key(v), Key(w)) => Key(v) # Key(w) /\ ~Before(Key(w), Key(v))
      /\ Before(Key(w), Key(v)) => Key(v) # Key(w) /\ ~Before(Key(v), Key(w))
  BY <1>1, BeforeStrict
<1> QED
  BY <1>2, <1>3, <1>4, <1>5 DEF AtLeast

LEMMA PreNotBeforeTransitive ==
  ASSUME NEW a \in Seq(PreReleases), NEW b \in Seq(PreReleases), NEW c \in Seq(PreReleases),
         ~PreBefore(a, b), ~PreBefore(b, c)
  PROVE  ~PreBefore(a, c)
<1>1. /\ Ranks(a) \in [Places -> Int] /\ Ranks(b) \in [Places -> Int]
      /\ Ranks(c) \in [Places -> Int]
  BY RanksAre
<1>2. CASE a = <<>>
  BY <1>2 DEF PreBefore
<1>3. CASE a # <<>>
  <2>1. b # <<>> /\ c # <<>> /\ ~Before(Ranks(a), Ranks(b)) /\ ~Before(Ranks(b), Ranks(c))
    BY <1>3 DEF PreBefore
  <2>2. ~Before(Ranks(a), Ranks(c))
    BY <1>1, <2>1, NotBeforeTransitive
  <2> QED
    BY <2>1, <2>2 DEF PreBefore
<1> QED
  BY <1>2, <1>3

LEMMA AtLeastTransitive ==
  ASSUME NEW u \in AnyVersion, NEW v \in AnyVersion, NEW w \in AnyVersion,
         Alike({u, v, w}), AtLeast(u, v), AtLeast(v, w)
  PROVE  AtLeast(u, w)
<1>1. /\ Key(u) \in [Places -> Int] /\ Key(v) \in [Places -> Int] /\ Key(w) \in [Places -> Int]
      /\ u.pre \in Seq(PreReleases) /\ v.pre \in Seq(PreReleases) /\ w.pre \in Seq(PreReleases)
  BY KeyIs
<1>2. CASE ~u.semver /\ ~v.semver /\ ~w.semver
  BY <1>1, <1>2, GenericCompare, NotBeforeTransitive
<1>3. CASE /\ u.semver /\ v.semver /\ w.semver
           /\ SameKinds(u.pre, v.pre) /\ SameKinds(v.pre, w.pre) /\ SameKinds(u.pre, w.pre)
  <2>1. /\ ~Before(Key(u), Key(v)) /\ (Key(u) = Key(v) => ~PreBefore(u.pre, v.pre))
        /\ ~Before(Key(v), Key(w)) /\ (Key(v) = Key(w) => ~PreBefore(v.pre, w.pre))
    BY <1>3, SemanticCompare
  <2>2. ~Before(Key(u), Key(w)) /\ (Key(u) = Key(w) => Key(u) = Key(v) /\ Key(v) = Key(w))
    BY <1>1, <2>1, NotBeforeTransitive
  <2>3. Key(u) = Key(w) => ~PreBefore(u.pre, w.pre)
    BY <1>1, <2>1, <2>2, PreNotBeforeTransitive
  <2> QED
    BY <1>3, <2>2, <2>3, SemanticCompare
<1> QED
  BY <1>2, <1>3 DEF Alike, SameKinds, Common
-----------------------------------------------------------------------------
(* The program *)

\* F is among the generic versions from place k + 1 on that are not from 2 on, with
\* none of these later; and there is one, if there is one at all.
Candidates(k) ==
  {v \in {Generic(versions[i]) : i \in (k + 1)..Len(versions)} : ~(Major(v) > 1)}
Best(F, k) ==
  /\ F \subseteq Candidates(k)
  /\ F = {} => Candidates(k) = {}
  /\ \A h \in F, v \in Candidates(k) : AtLeast(h, v)

VersionInvariant ==
  /\ versions \in Seq(AnyVersion)
  /\ search = [at |-> search.at, found |-> search.found, done |-> search.done]
  /\ search.at \in Nat /\ search.at <= Len(versions) /\ search.done \in BOOLEAN
  /\ search.at > 0 => ~search.done /\ Best(search.found, search.at)
  /\ search.done => \E F : Best(F, 0) /\ search.found = {h \in F : Major(h) = 1}

LEMMA ThreeNumbers ==
  ASSUME NEW a \in Nat, NEW b \in Nat, NEW c \in Nat, NEW part \in 1..3, NEW n \in Nat
  PROVE  /\ <<a, b, c>> \in Seq(Nat) /\ Len(<<a, b, c>>) = 3
         /\ [<<a, b, c>> EXCEPT ![part] = n] \in Seq(Nat)
         /\ Len([<<a, b, c>> EXCEPT ![part] = n]) = 3
<1> DEFINE t == <<a, b, c>>
<1>1. t \in Seq(Nat) /\ Len(t) = 3
  OBVIOUS
<1> HIDE DEF t
<1>2. [t EXCEPT ![part] = n] \in Seq(Nat) /\ Len([t EXCEPT ![part] = n]) = 3
  BY <1>1, ExceptSeq
<1> QED
  BY <1>1, <1>2 DEF t

LEMMA MadeVersions ==
  ASSUME NEW v \in AnyVersion
  PROVE  /\ \A part \in 1..3, n \in Components : With(v, part, n) \in AnyVersion
         /\ \A id \in PreReleases : WithPreRelease(v, <<id>>) \in AnyVersion
         /\ Generic(v) \in AnyVersion /\ ~Generic(v).semver /\ Major(Generic(v)) = Major(v)
<1>1. /\ v \in [nums : Seq(Nat), semver : BOOLEAN, pre : Seq(PreReleases)]
      /\ v.nums \in Seq(Nat) /\ Len(v.nums) >= 2
  BY DEF AnyVersion
<1>2. Major(v) \in Nat /\ Minor(v) \in Nat /\ Patch(v) \in Nat
  <2>1. 1 \in 1..Len(v.nums) /\ 2 \in 1..Len(v.nums)
        /\ (~(Len(v.nums) < 3) => 3 \in 1..Len(v.nums))
    BY <1>1
  <2> QED
    BY <1>1, <2>1, ElementOfSeq DEF Major, Minor, Patch
<1>3. ASSUME NEW part \in 1..3, NEW n \in Components
      PROVE  With(v, part, n) \in AnyVersion
  <2> DEFINE nums == [<<Major(v), Minor(v), Patch(v)>> EXCEPT ![part] = n]
  <2>1. n \in Nat
    BY VersionsAssumption
  <2>2. nums \in Seq(Nat) /\ Len(nums) = 3
    BY <1>2, <2>1, ThreeNumbers
  <2>3. With(v, part, n) = [v EXCEPT !.nums = nums]
    BY DEF With
  <2> HIDE DEF nums
  <2>4. /\ [v EXCEPT !.nums = nums].nums = nums
        /\ [v EXCEPT !.nums = nums] \in [nums : Seq(Nat), semver : BOOLEAN, pre : Seq(PreReleases)]
    BY <1>1, <2>2
  <2>5. /\ With(v, part, n).nums = nums
        /\ With(v, part, n) \in [nums : Seq(Nat), semver : BOOLEAN, pre : Seq(PreReleases)]
    BY <2>3, <2>4
  <2>6. Len(nums) >= 2
    BY <2>2
  <2> QED
    BY <2>5, <2>6 DEF AnyVersion
<1>4. ASSUME NEW id \in PreReleases
      PROVE  WithPreRelease(v, <<id>>) \in AnyVersion
  <2> DEFINE nums == <<Major(v), Minor(v), Patch(v)>>
             pre == <<id>>
  <2>1. nums \in Seq(Nat) /\ Len(nums) = 3
    BY <1>2, ThreeNumbers
  <2>2. pre \in Seq(PreReleases)
    OBVIOUS
  <2>3. WithPreRelease(v, pre) = [v EXCEPT !.nums = nums, !.pre = pre]
    BY DEF WithPreRelease
  <2> HIDE DEF nums, pre
  <2>4. /\ [v EXCEPT !.nums = nums, !.pre = pre].nums = nums
        /\ [v EXCEPT !.nums = nums, !.pre = pre]
             \in [nums : Seq(Nat), semver : BOOLEAN, pre : Seq(PreReleases)]
    BY <1>1, <2>1, <2>2
  <2>5. /\ WithPreRelease(v, pre).nums = nums
        /\ WithPreRelease(v, pre) \in [nums : Seq(Nat), semver : BOOLEAN, pre : Seq(PreReleases)]
    BY <2>3, <2>4
  <2>6. Len(nums) >= 2
    BY <2>1
  <2>7. WithPreRelease(v, pre) \in AnyVersion
    BY <2>5, <2>6 DEF AnyVersion
  <2> QED
    BY <2>7 DEF pre
<1>5. Generic(v) \in AnyVersion /\ ~Generic(v).semver /\ Generic(v).nums = v.nums
  <2>1. <<>> \in Seq(PreReleases)
    OBVIOUS
  <2>2. /\ Generic(v).nums = v.nums /\ Generic(v).semver = FALSE
        /\ Generic(v) \in [nums : Seq(Nat), semver : BOOLEAN, pre : Seq(PreReleases)]
    BY <1>1, <2>1 DEF Generic
  <2> QED
    BY <1>1, <2>2 DEF AnyVersion
<1> QED
  BY <1>3, <1>4, <1>5 DEF Major

LEMMA ReadableVersions == Readable \subseteq AnyVersion
<1>1. Components \subseteq Nat /\ MaxLength \in Nat
  BY VersionsAssumption
<1>2. ASSUME NEW low \in {2, 3}, NEW high \in Nat, NEW s \in Sequenced(Components, low, high)
      PROVE  s \in Seq(Nat) /\ Len(s) >= 2
  <2>1. PICK n \in low..high : s \in [1..n -> Components]
    BY DEF Sequenced
  <2>2. n \in Nat /\ n >= 2
    BY <2>1
  <2>3. s \in [1..n -> Nat]
    BY <1>1, <2>1
  <2> QED
    BY <2>2, <2>3, LenProperties, SeqDef
<1>3. ASSUME NEW s \in Sequenced(PreReleases, 0, 2)
      PROVE  s \in Seq(PreReleases)
  <2>1. PICK n \in 0..2 : s \in [1..n -> PreReleases]
    BY DEF Sequenced
  <2> QED
    BY <2>1, SeqDef
<1>4. ASSUME NEW v \in Wellformed
      PROVE  v \in AnyVersion
  <2>1. CASE v \in [nums : Sequenced(Components, 3, 3), semver : {TRUE},
                    pre : Sequenced(PreReleases, 0, 2)]
    BY <1>2, <1>3, <2>1 DEF AnyVersion
  <2>2. CASE v \in [nums : Sequenced(Components, 2, MaxLength), semver : {FALSE}, pre : {<<>>}]
    <3>1. v.nums \in Seq(Nat) /\ Len(v.nums) >= 2
      BY <1>1, <1>2, <2>2
    <3>2. <<>> \in Seq(PreReleases)
      OBVIOUS
    <3> QED
      BY <2>2, <3>1, <3>2 DEF AnyVersion
  <2> QED
    BY <2>1, <2>2 DEF Wellformed
<1> QED
  BY <1>4, GivenAssumption

LEMMA HoldKeeps ==
  ASSUME VersionInvariant, NEW v \in AnyVersion, Hold(v)
  PROVE  VersionInvariant'
<1>1. versions' = Append(versions, v) /\ search' = Nowhere
  BY DEF Hold
<1>2. versions' \in Seq(AnyVersion) /\ Len(versions') \in Nat
  BY <1>1 DEF VersionInvariant
<1> QED
  BY <1>1, <1>2 DEF VersionInvariant, Nowhere

LEMMA StartSearchKeeps ==
  ASSUME VersionInvariant, StartSearch
  PROVE  VersionInvariant'
<1>1. /\ versions' = versions /\ search = Nowhere
      /\ search' = [Nowhere EXCEPT !.at = Len(versions)]
  BY DEF StartSearch
<1>2. versions \in Seq(AnyVersion) /\ Len(versions) \in Nat
  BY DEF VersionInvariant
<1>3. search' = [at |-> Len(versions), found |-> {}, done |-> FALSE]
  BY <1>1 DEF Nowhere
<1>4. search'.at = Len(versions) /\ search'.found = {} /\ search'.done = FALSE
  BY <1>3
<1>5. Best({}, Len(versions))
  BY <1>2 DEF Best, Candidates
<1>6. Best(search.found, search.at)'
  BY <1>1, <1>4, <1>5 DEF Best, Candidates
<1> QED
  BY <1>1, <1>2, <1>3, <1>4, <1>6 DEF VersionInvariant

\* The version at the place is weighed against those found behind it.
LEMMA SearchStepKeeps ==
  ASSUME VersionInvariant, SearchStep
  PROVE  VersionInvariant'
<1> DEFINE k == search.at
           v == Generic(versions[k])
           found == IF Major(v) > 1 THEN search.found ELSE Kept(search.found, v)
<1>1. /\ k \in Nat /\ k > 0 /\ k <= Len(versions) /\ Len(versions) \in Nat
      /\ k \in 1..Len(versions) /\ k - 1 \in Nat
      /\ Best(search.found, k) /\ versions' = versions
  BY DEF SearchStep, VersionInvariant
<1>2. search' = [at |-> k - 1, done |-> k = 1,
                 found |-> {h \in found : (k = 1) => Major(h) = 1}]
  BY DEF SearchStep
<1>3. \A i \in 1..Len(versions) :
        Generic(versions[i]) \in AnyVersion /\ ~Generic(versions[i]).semver
  BY MadeVersions, ElementOfSeq DEF VersionInvariant
<1>4. \A x \in Candidates(k) \cup {v} : x \in AnyVersion /\ ~x.semver /\ Key(x) \in [Places -> Int]
  BY <1>1, <1>3, KeyIs DEF Candidates
<1>5. Candidates(k - 1) = Candidates(k) \cup (IF Major(v) > 1 THEN {} ELSE {v})
  <2>1. ((k - 1) + 1)..Len(versions) = {k} \cup ((k + 1)..Len(versions))
    BY <1>1
  <2> QED
    BY <2>1 DEF Candidates
<1> HIDE DEF v, k
<1>6. Best(found, k - 1)
  <2>1. CASE Major(v) > 1
    BY <1>1, <1>5, <2>1 DEF Best
  <2>2. CASE ~(Major(v) > 1) /\ \A h \in search.found : LessThan(h, v)
    <3>1. found = {v} /\ Candidates(k - 1) = Candidates(k) \cup {v}
      BY <1>5, <2>2 DEF Kept
    <3>2. AtLeast(v, v)
      BY <1>4, GenericCompare, BeforeStrict
    <3>3. ASSUME NEW x \in Candidates(k)
          PROVE  AtLeast(v, x)
      <4>1. PICK h \in search.found : h \in Candidates(k) /\ AtLeast(h, x) /\ LessThan(h, v)
        BY <1>1, <2>2, <3>3 DEF Best
      <4>2. ~Before(Key(h), Key(x)) /\ Before(Key(h), Key(v))
        BY <1>4, <3>3, <4>1, GenericCompare
      <4>3. ~Before(Key(v), Key(h))
        BY <1>4, <4>1, <4>2, BeforeStrict
      <4>4. ~Before(Key(v), Key(x))
        BY <1>4, <3>3, <4>1, <4>2, <4>3, NotBeforeTransitive
      <4> QED
        BY <1>4, <3>3, <4>4, GenericCompare
    <3> QED
      BY <3>1, <3>2, <3>3 DEF Best
  <2>3. CASE ~(Major(v) > 1) /\ \E h \in search.found : ~LessThan(h, v)
    <3>1. found = search.found /\ Candidates(k - 1) = Candidates(k) \cup {v}
      BY <1>5, <2>3 DEF Kept
    <3>2. PICK best \in search.found : ~LessThan(best, v)
      BY <2>3
    <3>3. best \in Candidates(k) /\ ~Before(Key(best), Key(v))
      BY <1>1, <1>4, <3>2, GenericCompare DEF Best
    <3>4. ASSUME NEW h \in search.found
          PROVE  AtLeast(h, v)
      <4>1. h \in Candidates(k) /\ AtLeast(h, best)
        BY <1>1, <3>3, <3>4 DEF Best
      <4>2. ~Before(Key(h), Key(best))
        BY <1>4, <3>3, <4>1, GenericCompare
      <4>3. ~Before(Key(h), Key(v))
        BY <1>4, <3>3, <4>1, <4>2, NotBeforeTransitive
      <4> QED
        BY <1>4, <4>1, <4>3, GenericCompare
    <3> QED
      BY <1>1, <3>1, <3>2, <3>4 DEF Best
  <2> QED
    BY <2>1, <2>2, <2>3
<1> HIDE DEF found
<1>7. \A F, n : Best(F, n)' <=> Best(F, n)
  BY <1>1 DEF Best, Candidates
<1>8. CASE k = 1
  <2>1. Best(found, 0)
    BY <1>1, <1>6, <1>8
  <2>2. /\ search'.at = 0 /\ search'.done = TRUE
        /\ search'.found = {h \in found : Major(h) = 1}
    <3> DEFINE kept == {h \in found : (k = 1) => Major(h) = 1}
    <3>1. kept = {h \in found : Major(h) = 1} /\ k - 1 = 0
      BY <1>8
    <3>2. search' = [at |-> k - 1, done |-> k = 1, found |-> kept]
      BY <1>2
    <3> HIDE DEF kept
    <3>3. search'.at = k - 1 /\ search'.done = (k = 1) /\ search'.found = kept
      BY <3>2
    <3> QED
      BY <3>1, <3>3, <1>8
  <2>3. \E F : Best(F, 0) /\ search'.found = {h \in F : Major(h) = 1}
    BY <2>1, <2>2
  <2>4. (\E F : Best(F, 0) /\ search.found = {h \in F : Major(h) = 1})'
    BY <1>7, <2>3
  <2> QED
    BY <1>1, <1>2, <2>2, <2>4 DEF VersionInvariant
<1>9. CASE k # 1
  <2>1. /\ search'.at = k - 1 /\ search'.done = FALSE /\ search'.found = found
    BY <1>2, <1>9
  <2>2. Best(search'.found, search'.at)
    BY <1>6, <2>1
  <2>3. Best(search.found, search.at)'
    BY <1>1, <2>2 DEF Best, Candidates
  <2> QED
    BY <1>1, <1>2, <2>1, <2>3 DEF VersionInvariant
<1> QED
  BY <1>8, <1>9

LEMMA VersionInvariance == VersionSpec => []VersionInvariant
<1>1. VersionInit => VersionInvariant
  BY DEF VersionInit, VersionInvariant, Nowhere
<1>2. VersionInvariant /\ [VersionNext]_versionVars => VersionInvariant'
  <2> SUFFICES ASSUME VersionInvariant, [VersionNext]_versionVars
               PROVE  VersionInvariant'
    OBVIOUS
  <2>1. CASE Parse
    BY <2>1, ReadableVersions, HoldKeeps DEF Parse
  <2>2. CASE Change
    <3>1. PICK i \in DOMAIN versions :
            \/ \E part \in 1..3, n \in Components : Hold(With(versions[i], part, n))
            \/ versions[i].semver /\ \E id \in PreReleases : Hold(WithPreRelease(versions[i], <<id>>))
      BY <2>2 DEF Change
    <3>2. versions[i] \in AnyVersion
      BY ElementOfSeq DEF VersionInvariant
    <3> QED
      BY <3>1, <3>2, MadeVersions, HoldKeeps
  <2>3. CASE StartSearch
    BY <2>3, StartSearchKeeps
  <2>4. CASE SearchStep
    BY <2>4, SearchStepKeeps
  <2>5. CASE UNCHANGED versionVars
    BY <2>5 DEF versionVars, VersionInvariant, Best, Candidates
  <2> QED
    BY <2>1, <2>2, <2>3, <2>4, <2>5 DEF VersionNext
<1> QED
  BY <1>1, <1>2, PTL DEF VersionSpec

\* Whatever was parsed or made by With..., comparing is opposite the other way
\* round and, among versions that are alike, transitive (version.go,
\* compareInternal).
THEOREM VersionsAreOrdered == VersionSpec => []ComparisonIsOrder
<1>1. VersionInvariant => ComparisonIsOrder
  <2> SUFFICES ASSUME VersionInvariant
               PROVE  ComparisonIsOrder
    OBVIOUS
  <2>1. HeldVersions \subseteq AnyVersion
    BY ElementOfSeq DEF HeldVersions, VersionInvariant
  <2> QED
    BY <2>1, CompareOpposite, AtLeastTransitive DEF ComparisonIsOrder
<1> QED
  BY <1>1, VersionInvariance, PTL

\* The search finds the highest of the versions it supports, in whatever order
\* they come (version.go, HighestSupportedVersion).
THEOREM SearchFindsHighest == VersionSpec => []HighestIsHighest
<1>1. VersionInvariant => HighestIsHighest
  <2> DEFINE supported == {v \in {Generic(w) : w \in HeldVersions} : Major(v) = 1}
  <2> SUFFICES ASSUME VersionInvariant, search.done
               PROVE  /\ search.found \subseteq supported
                      /\ search.found = {} <=> supported = {}
                      /\ \A h \in search.found, v \in supported : AtLeast(h, v)
    BY DEF HighestIsHighest
  <2>1. PICK F : Best(F, 0) /\ search.found = {h \in F : Major(h) = 1}
    BY DEF VersionInvariant
  <2>2. /\ Len(versions) \in Nat /\ DOMAIN versions = 1..Len(versions)
        /\ \A i \in 1..Len(versions) : versions[i] \in AnyVersion
    BY ElementOfSeq DEF VersionInvariant
  <2>3. Candidates(0) = {v \in {Generic(w) : w \in HeldVersions} : ~(Major(v) > 1)}
    BY <2>2 DEF Candidates, HeldVersions
  <2>4. \A v \in Candidates(0) : v \in AnyVersion /\ ~v.semver /\ Major(v) \in Nat
    BY <2>2, <2>3, MadeVersions, KeyIs DEF HeldVersions
  <2>5. supported = {v \in Candidates(0) : Major(v) = 1}
    BY <2>3
  <2> HIDE DEF supported
  <2>6. search.found \subseteq supported
    BY <2>1, <2>5 DEF Best
  <2>7. \A h \in search.found, v \in supported : AtLeast(h, v)
    BY <2>1, <2>5 DEF Best
  <2>8. ASSUME NEW v \in supported
        PROVE  search.found # {}
    <3>1. v \in Candidates(0) /\ Major(v) = 1
      BY <2>5, <2>8
    <3>2. PICK h \in F : h \in Candidates(0) /\ AtLeast(h, v)
      BY <2>1, <3>1 DEF Best
    <3>3. ~Before(Key(h), Key(v))
      BY <2>4, <3>1, <3>2, GenericCompare
    <3>4. /\ 1 \in Places /\ Key(h)[1] = Major(h) /\ Key(v)[1] = 1 /\ Major(h) \in Nat
          /\ ~(Major(h) > 1)
      BY <2>3, <2>4, <3>1, <3>2, KeyIs
    <3>5. Major(h) # 0
      <4> SUFFICES ASSUME Major(h) = 0
                   PROVE  Before(Key(h), Key(v))
        BY <3>3
      <4>1. \A j \in Places : ~(j < 1)
        BY DEF Places
      <4> QED
        BY <3>4, <4>1 DEF Before
    <3> QED
      BY <2>1, <3>2, <3>4, <3>5
  <2> QED
    BY <2>6, <2>7, <2>8
<1> QED
  BY <1>1, VersionInvariance, PTL

-----------------------------------------------------------------------------
(* Identifiers: division of integers                                       *)

Divides(c, x) == \E k \in Int : x = c * k

LEMMA Division ==
  ASSUME NEW c \in Nat \ {0}, NEW x \in Int
  PROVE  /\ x = c * (x \div c) + (x % c)
         /\ x \div c \in Int /\ x % c \in 0..(c - 1)
<1>1. x = c * (x \div c) + (x % c)
  OBVIOUS
<1>2. x % c \in Int /\ 0 <= x % c /\ x % c < c /\ x \div c \in Int
  OBVIOUS
<1> QED
  BY <1>1, <1>2

LEMMA QuotientIsNatural ==
  ASSUME NEW c \in Nat \ {0}, NEW x \in Nat
  PROVE  x \div c \in Nat
OBVIOUS

LEMMA SmallRemainder ==
  ASSUME NEW c \in Nat \ {0}, NEW x \in Nat, x < c
  PROVE  x % c = x
OBVIOUS

LEMMA DivisionIs ==
  ASSUME NEW c \in Nat \ {0}, NEW q \in Int, NEW r \in 0..(c - 1)
  PROVE  (c * q + r) % c = r
OBVIOUS

LEMMA DividesMod ==
  ASSUME NEW c \in Nat \ {0}, NEW x \in Int
  PROVE  x % c = 0 <=> Divides(c, x)
<1>1. ASSUME x % c = 0
      PROVE  Divides(c, x)
  <2>1. x = c * (x \div c) /\ x \div c \in Int
    BY <1>1, Division
  <2> QED
    BY <2>1 DEF Divides
<1>2. ASSUME Divides(c, x)
      PROVE  x % c = 0
  <2>1. PICK k \in Int : x = c * k
    BY <1>2 DEF Divides
  <2>2. c * k = c * k + 0
    OBVIOUS
  <2> QED
    BY <2>1, <2>2, DivisionIs
<1> QED
  BY <1>1, <1>2

\* A multiple of c between -c and c is 0.
LEMMA SmallMultiple ==
  ASSUME NEW c \in Nat \ {0}, NEW x \in Int, Divides(c, x), -c < x, x < c
  PROVE  x = 0
<1>1. CASE x >= 0
  <2>1. x % c = x
    BY <1>1
  <2> QED
    BY <2>1, DividesMod
<1>2. CASE x < 0
  <2>1. PICK k \in Int : x = c * k
    BY DEF Divides
  <2>2. -x = c * (-k) /\ -k \in Int /\ -x \in Int
    BY <2>1
  <2>3. Divides(c, -x)
    BY <2>2 DEF Divides
  <2>4. (-x) % c = -x
    BY <1>2
  <2> QED
    BY <2>2, <2>3, <2>4, DividesMod
<1> QED
  BY <1>1, <1>2

\* A factor without a common divisor may be left out.
LEMMA CoprimeCancels ==
  ASSUME NEW c \in Nat \ {0}, NEW n \in Nat, Coprime(n, c),
         NEW d \in Int, Divides(c, n * d)
  PROVE  Divides(c, d)
<1> DEFINE T == {m \in 1..c : Divides(c, m * d)}
<1>1. c \in T
  <2>1. Divides(c, c * d)
    BY DEF Divides
  <2> QED
    BY <2>1
<1>2. PICK m \in T : \A i \in T : m <= i
  <2>1. T \in SUBSET Nat /\ T # {}
    BY <1>1
  <2> HIDE DEF T
  <2> QED
    BY <2>1, LeastElement
<1>3. ASSUME NEW x \in Nat, Divides(c, x * d)
      PROVE  x % m = 0
  <2> DEFINE r == x % m
             q == x \div m
  <2>1. m \in Nat \ {0} /\ m \in 1..c
    BY <1>2
  <2>2. x = m * q + r /\ q \in Int /\ r \in 0..(m - 1)
    BY <2>1, Division
  <2> HIDE DEF r, q
  <2>3. PICK k \in Int : x * d = c * k
    BY <1>3 DEF Divides
  <2>4. PICK j \in Int : m * d = c * j
    BY <1>2 DEF Divides
  <2>5. r * d = c * (k - j * q)
    <3>1. x * d = (m * q + r) * d
      BY <2>2
    <3>2. (m * q + r) * d = q * (m * d) + r * d
      BY <2>1, <2>2
    <3>3. q * (c * j) = c * (j * q)
      BY <2>2
    <3>4. c * (k - j * q) = c * k - c * (j * q)
      BY <2>2
    <3>5. r * d \in Int /\ c * k \in Int /\ c * (j * q) \in Int
      BY <2>2
    <3> QED
      BY <2>3, <2>4, <3>1, <3>2, <3>3, <3>4, <3>5
  <2>6. Divides(c, r * d)
    <3>1. k - j * q \in Int
      BY <2>2
    <3> QED
      BY <2>5, <3>1 DEF Divides
  <2>7. r \notin T
    BY <1>2, <2>2, <2>1
  <2>8. r = 0
    BY <2>1, <2>2, <2>6, <2>7
  <2> QED
    BY <2>8 DEF r
<1>4. n % m = 0
  BY <1>3
<1>5. c % m = 0
  BY <1>1, <1>3
<1>6. m = 1
  <2>1. m \in 1..c /\ m \notin 2..c
    BY <1>2, <1>4, <1>5 DEF Coprime
  <2> QED
    BY <2>1
<1>7. 1 * d = d
  OBVIOUS
<1> QED
  BY <1>2, <1>6, <1>7

-----------------------------------------------------------------------------
(* Powers and digits *)

\* Powers recur: one is c times the one before.
LEMMA PowerIs ==
  ASSUME NEW c \in Nat \ {0}
  PROVE  /\ \A k \in Nat : Power(c)[k] \in Nat \ {0}
         /\ Power(c)[0] = 1
         /\ \A k \in Nat : Power(c)[k + 1] = c * Power(c)[k]
<1> DEFINE S == Nat \ {0}
           product == [k \in Nat |-> [x \in S |-> c * x]]
<1>1. product \in Steps(S) /\ 1 \in S
  BY DEF Steps
<1>2. \E f : Iterates(f, S, 1, product)
  <2> HIDE DEF S, product
  <2> QED
    BY <1>1, IterationExists
<1>3. PICK f \in [Nat -> S] : f[0] = 1 /\ \A n \in Nat : f[n + 1] = c * f[n]
  BY <1>2 DEF Iterates
<1>4. f = [i \in Nat |-> IF i = 0 THEN 1 ELSE c * f[i - 1]]
  <2>1. \A i \in Nat : f[i] = IF i = 0 THEN 1 ELSE c * f[i - 1]
    <3> TAKE i \in Nat
    <3>1. CASE i = 0
      BY <1>3, <3>1
    <3>2. CASE i # 0
      <4>1. i - 1 \in Nat /\ (i - 1) + 1 = i
        BY <3>2
      <4> QED
        BY <1>3, <3>2, <4>1
    <3> QED
      BY <3>1, <3>2
  <2> QED
    BY <2>1, Zenon
<1>5. Power(c) = [i \in Nat |-> IF i = 0 THEN 1 ELSE c * Power(c)[i - 1]]
  BY ONLY <1>4, Zenon DEF Power
<1> QED
  <2>1. \A i \in Nat : Power(c)[i] = IF i = 0 THEN 1 ELSE c * Power(c)[i - 1]
    BY <1>5, Zenon
  <2> DEFINE T == {k \in Nat : Power(c)[k] \in Nat \ {0}}
  <2>2. Power(c)[0] = 1
    BY <2>1
  <2>3. \A k \in Nat : Power(c)[k + 1] = c * Power(c)[k]
    <3> TAKE k \in Nat
    <3>1. k + 1 \in Nat /\ k + 1 # 0 /\ (k + 1) - 1 = k
      OBVIOUS
    <3> QED
      BY <2>1, <3>1
  <2>4. Nat \subseteq T
    <3>1. 0 \in T
      BY <2>2
    <3>2. ASSUME NEW k \in Nat, k \in T
          PROVE  k + 1 \in T
      BY <2>3, <3>2
    <3> HIDE DEF T
    <3> QED
      BY <3>1, <3>2, SetInduction
  <2> QED
    BY <2>2, <2>3, <2>4

\* Options of NewCode the lemmas speak of: those of the program are among them.
Settled == [chars : Nat \ {0}, n1 : Nat, n2 : Nat, l : Nat \ {0}, salt : Nat]

\* So does what is left of a number after each digit.
LEMMA ShiftedIs ==
  ASSUME NEW o \in Settled, NEW n \in Nat
  PROVE  /\ \A k \in Nat : Shifted(o, n)[k] \in Nat
         /\ Shifted(o, n)[0] = n
         /\ \A k \in Nat : Shifted(o, n)[k + 1] = Shifted(o, n)[k] \div o.chars
<1> DEFINE c == o.chars
           quotient == [k \in Nat |-> [x \in Nat |-> x \div c]]
<1>1. c \in Nat \ {0}
  BY DEF Settled
<1> HIDE DEF c
<1>2. quotient \in Steps(Nat)
  BY <1>1 DEF Steps
<1>3. \E f : Iterates(f, Nat, n, quotient)
  <2> HIDE DEF quotient
  <2> QED
    BY <1>2, IterationExists
<1>4. PICK f \in [Nat -> Nat] : f[0] = n /\ \A k \in Nat : f[k + 1] = f[k] \div c
  BY <1>3 DEF Iterates
<1>5. f = [i \in Nat |-> IF i = 0 THEN n ELSE f[i - 1] \div c]
  <2>1. \A i \in Nat : f[i] = IF i = 0 THEN n ELSE f[i - 1] \div c
    <3> TAKE i \in Nat
    <3>1. CASE i = 0
      BY <1>4, <3>1
    <3>2. CASE i # 0
      <4>1. i - 1 \in Nat /\ (i - 1) + 1 = i
        BY <3>2
      <4> QED
        BY <1>4, <3>2, <4>1
    <3> QED
      BY <3>1, <3>2
  <2> QED
    BY <2>1, Zenon
<1>6. f = [i \in Nat |-> IF i = 0 THEN n ELSE f[i - 1] \div o.chars]
  BY ONLY <1>5, Zenon DEF c
<1>7. Shifted(o, n) = [i \in Nat |-> IF i = 0 THEN n ELSE Shifted(o, n)[i - 1] \div o.chars]
  BY ONLY <1>6, Zenon DEF Shifted
<1>8. \A i \in Nat : Shifted(o, n)[i] = IF i = 0 THEN n ELSE Shifted(o, n)[i - 1] \div o.chars
  BY <1>7, Zenon
<1> QED
  <2> DEFINE T == {k \in Nat : Shifted(o, n)[k] \in Nat}
  <2>1. Shifted(o, n)[0] = n
    BY <1>8
  <2>2. \A k \in Nat : Shifted(o, n)[k + 1] = Shifted(o, n)[k] \div o.chars
    <3> TAKE k \in Nat
    <3>1. k + 1 \in Nat /\ k + 1 # 0 /\ (k + 1) - 1 = k
      OBVIOUS
    <3> QED
      BY <1>8, <3>1
  <2>3. Nat \subseteq T
    <3>1. 0 \in T
      BY <2>1
    <3>2. ASSUME NEW k \in Nat, k \in T
          PROVE  k + 1 \in T
      <4>1. Shifted(o, n)[k] \in Nat /\ o.chars \in Nat \ {0}
        BY <1>1, <3>2 DEF c
      <4>2. Shifted(o, n)[k + 1] = Shifted(o, n)[k] \div o.chars
        BY <2>2, <3>2
      <4>3. Shifted(o, n)[k + 1] \in Nat
        BY ONLY <4>1, <4>2, QuotientIsNatural, Zenon
      <4> QED
        BY <3>2, <4>3
    <3> HIDE DEF T
    <3> QED
      BY <3>1, <3>2, SetInduction
  <2> QED
    BY <2>1, <2>2, <2>3

\* Two numbers whose first k digits agree are a multiple of the k-th power apart.
LEMMA SameDigits ==
  ASSUME NEW o \in Settled, NEW a \in Nat, NEW b \in Nat, NEW k \in Nat,
         \A i \in Nat : i < k => Digit(o, a, i) = Digit(o, b, i)
  PROVE  Divides(Power(o.chars)[k], a - b)
<1> DEFINE c == o.chars
           f == Shifted(o, a)
           g == Shifted(o, b)
           p == Power(c)
           T == {i \in Nat : i <= k => a - b = p[i] * (f[i] - g[i])}
<1>1. c \in Nat \ {0}
  BY DEF Settled
<1>2. /\ f[0] = a /\ g[0] = b
      /\ \A i \in Nat : f[i] \in Nat /\ f[i + 1] = f[i] \div c
      /\ \A i \in Nat : g[i] \in Nat /\ g[i + 1] = g[i] \div c
  BY ShiftedIs
<1>3. \A i \in Nat : i < k => f[i] % c = g[i] % c
  BY DEF Digit
<1> HIDE DEF c, f, g
<1>4. p[0] = 1 /\ \A i \in Nat : p[i] \in Nat \ {0} /\ p[i + 1] = c * p[i]
  BY <1>1, PowerIs
<1> HIDE DEF p
<1>5. 0 \in T
  BY <1>2, <1>4
<1>6. ASSUME NEW i \in Nat, i \in T
      PROVE  i + 1 \in T
  <2> SUFFICES ASSUME i + 1 <= k
               PROVE  a - b = p[i + 1] * (f[i + 1] - g[i + 1])
    OBVIOUS
  <2> DEFINE r == f[i] % c
             u == f[i + 1]
             v == g[i + 1]
             w == p[i]
  <2>1. f[i] = c * u + r /\ u \in Nat /\ r \in Int
    <3>1. f[i] \in Int /\ f[i + 1] = f[i] \div c /\ f[i + 1] \in Nat
      BY <1>2
    <3>2. f[i] = c * (f[i] \div c) + (f[i] % c) /\ f[i] % c \in 0..(c - 1)
      BY ONLY <1>1, <3>1, Division, Zenon
    <3>3. c \in Int
      BY <1>1
    <3> QED
      BY ONLY <3>1, <3>2, <3>3
  <2>2. g[i] = c * v + r /\ v \in Nat
    <3>1. f[i] % c = g[i] % c
      BY <1>3
    <3>2. g[i] \in Int /\ g[i + 1] = g[i] \div c /\ g[i + 1] \in Nat
      BY <1>2
    <3>3. g[i] = c * (g[i] \div c) + (g[i] % c)
      BY ONLY <1>1, <3>2, Division, Zenon
    <3> QED
      BY ONLY <3>1, <3>2, <3>3
  <2>3. a - b = w * (f[i] - g[i]) /\ p[i + 1] = c * w /\ w \in Nat
    BY <1>4, <1>6
  <2> HIDE DEF r, u, v, w
  <2>4. f[i] - g[i] = c * (u - v)
    BY <1>1, <2>1, <2>2
  <2>5. w * (c * (u - v)) = (c * w) * (u - v)
    BY <1>1, <2>1, <2>2, <2>3
  <2>6. a - b = p[i + 1] * (u - v)
    BY ONLY <2>3, <2>4, <2>5
  <2> QED
    BY <2>6 DEF u, v
<1> HIDE DEF T
<1>7. Nat \subseteq T
  BY <1>5, <1>6, SetInduction
<1>8. a - b = p[k] * (f[k] - g[k]) /\ f[k] - g[k] \in Int
  BY <1>2, <1>7 DEF T
<1> QED
  BY <1>8 DEF Divides, p, c

\* A factor without a common divisor may be left out of a multiple of a power.
LEMMA CoprimeCancelsPower ==
  ASSUME NEW c \in Nat \ {0}, NEW n \in Nat, Coprime(n, c), NEW k \in Nat,
         NEW d \in Int, Divides(Power(c)[k], n * d)
  PROVE  Divides(Power(c)[k], d)
<1> DEFINE p == Power(c)
           T == {i \in Nat : \A x \in Int : Divides(p[i], n * x) => Divides(p[i], x)}
<1>1. p[0] = 1 /\ \A i \in Nat : p[i] \in Nat \ {0} /\ p[i + 1] = c * p[i]
  BY PowerIs
<1> HIDE DEF p
<1>2. 0 \in T
  <2>1. ASSUME NEW x \in Int
        PROVE  Divides(p[0], x)
    <3>1. x = 1 * x
      OBVIOUS
    <3> QED
      BY <1>1, <3>1 DEF Divides
  <2> QED
    BY <2>1
<1>3. ASSUME NEW i \in Nat, i \in T
      PROVE  i + 1 \in T
  <2> SUFFICES ASSUME NEW x \in Int, Divides(p[i + 1], n * x)
               PROVE  Divides(p[i + 1], x)
    OBVIOUS
  <2> DEFINE w == p[i]
  <2>1. w \in Nat \ {0} /\ p[i + 1] = c * w
    BY <1>1
  <2>2. PICK y \in Int : n * x = p[i + 1] * y
    BY DEF Divides
  <2>3. n * x = w * (c * y) /\ c * y \in Int
    <3>1. (c * w) * y = w * (c * y)
      BY <2>1
    <3> QED
      BY <2>1, <2>2, <3>1
  <2>4. Divides(w, x)
    BY <1>3, <2>3 DEF Divides
  <2>5. PICK z \in Int : x = w * z
    BY <2>4 DEF Divides
  <2> HIDE DEF w
  <2>6. n * z = c * y
    <3>1. n * (w * z) = w * (n * z) /\ n * z \in Int /\ c * y \in Int
      BY <2>1
    <3>2. w * (n * z) = w * (c * y)
      BY <2>3, <2>5, <3>1
    <3> QED
      BY <2>1, <3>1, <3>2
  <2>7. Divides(c, n * z)
    BY <2>6 DEF Divides
  <2>8. PICK t \in Int : z = c * t
    BY <2>7, CoprimeCancels DEF Divides
  <2>9. x = (c * w) * t
    <3>1. w * (c * t) = (c * w) * t
      BY <2>1
    <3> QED
      BY <2>5, <2>8, <3>1
  <2> QED
    BY <2>1, <2>9 DEF Divides
<1> HIDE DEF T
<1>4. k \in T
  BY <1>2, <1>3, SetInduction
<1> QED
  BY <1>4 DEF T, p

\* The permutation of the characters loses none.
LEMMA PermutedOnto ==
  ASSUME NEW o \in Settled, BytesSuffice(o), Coprime(o.n2, o.l), NEW k \in 0..(o.l - 1)
  PROVE  \E i \in 0..(o.l - 1) : Permuted(o, i) = k
<1> DEFINE l == o.l
           n == o.n2
           S == 0..(l - 1)
           f == [i \in S |-> (n * i) % l]
<1>1. l \in Nat \ {0} /\ n \in Nat /\ (l - 1) * n < Byte /\ Byte \in Nat \ {0} /\ Coprime(n, l)
  BY IdentifiersAssumption DEF Settled, BytesSuffice
<1> HIDE DEF l, n
<1>2. f \in [S -> S]
  <2>1. ASSUME NEW i \in S
        PROVE  (n * i) % l \in S
    <3>1. n * i \in Int
      BY <1>1
    <3> QED
      BY <1>1, <3>1, Division
  <2> QED
    BY <2>1
<1>3. ASSUME NEW i \in S, NEW j \in S, f[i] = f[j]
      PROVE  i = j
  <2>1. n * i \in Int /\ n * j \in Int /\ (n * i) % l = (n * j) % l
    BY <1>1, <1>3
  <2> DEFINE u == (n * i) \div l
             v == (n * j) \div l
             r == (n * i) % l
  <2>2. n * i = l * u + r /\ n * j = l * v + r /\ u \in Int /\ v \in Int /\ r \in Int
    <3>1. n * j = l * v + ((n * j) % l) /\ v \in Int
      BY <1>1, <2>1, Division
    <3>2. n * i = l * u + r /\ u \in Int /\ r \in Int
      BY <1>1, <2>1, Division
    <3> HIDE DEF u, v
    <3> QED
      BY <2>1, <3>1, <3>2
  <2> HIDE DEF u, v, r
  <2>3. n * (i - j) = l * (u - v)
    BY <1>1, <2>2
  <2>4. Divides(l, n * (i - j))
    BY <2>2, <2>3 DEF Divides
  <2>5. Divides(l, i - j)
    BY <1>1, <2>4, CoprimeCancels
  <2>6. i - j = 0
    BY <1>1, <2>5, SmallMultiple
  <2> QED
    BY <2>6
<1>4. f \in Injection(S, S)
  BY <1>2, <1>3 DEF Injection, IsInjective
<1>5. IsFiniteSet(S)
  BY <1>1, FS_Interval
<1>6. f \in Surjection(S, S)
  <2> HIDE DEF S, f
  <2> QED
    BY <1>4, <1>5, FS_Injection
<1>7. PICK i \in S : f[i] = k
  BY <1>6 DEF Surjection, l
<1>8. Permuted(o, i) = (n * i) % l
  <2>1. CASE l = 1
    <3>1. i = 0
      BY <1>1, <2>1
    <3> QED
      BY <1>1, <3>1 DEF Permuted, l, n
  <2>2. CASE l > 1
    <3>1. n < Byte
      <4>1. (l - 1) * n >= n
        BY <1>1, <2>2
      <4> QED
        BY <1>1, <4>1
    <3>2. n % Byte = n
      BY <1>1, <3>1
    <3>3. n * i < Byte /\ n * i \in Nat /\ i * n = n * i
      <4>1. n * i <= (l - 1) * n
        BY <1>1
      <4> QED
        BY <1>1, <4>1
    <3>4. (n * i) % Byte = n * i
      BY <1>1, <3>3
    <3> QED
      BY ONLY <3>2, <3>3, <3>4 DEF Permuted, l, n
  <2> QED
    BY <1>1, <2>1, <2>2
<1> QED
  BY <1>7, <1>8 DEF l

-----------------------------------------------------------------------------
(* Codes *)

\* A digit is one of the characters.
LEMMA DigitIs ==
  ASSUME NEW o \in Settled, NEW n \in Nat, NEW i \in Nat
  PROVE  Digit(o, n, i) \in 0..(o.chars - 1)
<1>1. Shifted(o, n)[i] \in Int /\ o.chars \in Nat \ {0}
  BY ShiftedIs DEF Settled
<1> QED
  BY ONLY <1>1, Division, Zenon DEF Digit

\* Without wrapping the diffusion can be undone.
LEMMA DiffusedTells ==
  ASSUME NEW o \in Settled, BytesSuffice(o), NEW a \in Nat, NEW b \in Nat,
         NEW i \in 0..(o.l - 1), Diffused(o, a, i) = Diffused(o, b, i),
         i = 0 \/ Digit(o, a, 0) = Digit(o, b, 0)
  PROVE  Digit(o, a, i) = Digit(o, b, i)
<1> DEFINE c == o.chars
           x == Digit(o, a, i)
           y == Digit(o, b, i)
           u == Digit(o, a, 0)
           v == Digit(o, b, 0)
<1>1. /\ c \in Nat \ {0} /\ o.l \in Nat \ {0} /\ i \in Nat /\ i <= o.l - 1
      /\ o.l * (c - 1) < Byte /\ Byte \in Nat \ {0}
  BY IdentifiersAssumption DEF Settled, BytesSuffice
<1>2. x \in 0..(c - 1) /\ y \in 0..(c - 1) /\ u \in 0..(c - 1) /\ v \in 0..(c - 1)
  BY <1>1, DigitIs
<1>3. ((x + i * u) % Byte) % c = ((y + i * v) % Byte) % c
  BY DEF Diffused
<1>4. i = 0 \/ u = v
  OBVIOUS
<1>5. i = 0 => x = u /\ y = v
  OBVIOUS
<1> HIDE DEF c, x, y, u, v
<1>6. ASSUME NEW d \in 0..(c - 1), NEW z \in 0..(c - 1)
      PROVE  (d + i * z) % Byte = d + i * z /\ d + i * z \in Nat
  <2>1. i * z <= (o.l - 1) * (c - 1) /\ i * z \in Nat
    <3>1. i * z <= i * (c - 1)
      BY <1>1
    <3>2. i * (c - 1) <= (o.l - 1) * (c - 1)
      BY <1>1
    <3> QED
      BY <1>1, <3>1, <3>2
  <2>2. (c - 1) + (o.l - 1) * (c - 1) = o.l * (c - 1)
    BY <1>1
  <2>3. d + i * z < Byte /\ d + i * z \in Nat
    BY <1>1, <2>1, <2>2
  <2> QED
    BY ONLY <1>1, <2>3, SmallRemainder, Zenon
<1>7. (x + i * u) % c = (y + i * v) % c /\ x + i * u \in Int /\ y + i * v \in Int
  BY <1>2, <1>3, <1>6
<1>8. CASE i = 0
  <2>1. x % c = y % c
    BY <1>2, <1>7, <1>8
  <2>2. x \in Nat /\ x < c /\ y \in Nat /\ y < c
    BY <1>1, <1>2
  <2>3. x % c = x /\ y % c = y
    BY ONLY <1>1, <2>2, SmallRemainder, Zenon
  <2> QED
    BY <2>1, <2>3 DEF x, y
<1>9. CASE u = v
  <2> DEFINE w == i * u
             q == (x + w) \div c
             r == (y + w) \div c
             s == (x + w) % c
  <2>1. w \in Int
    BY <1>1, <1>2
  <2> HIDE DEF w
  <2>2. x + w \in Int /\ y + w \in Int /\ (y + w) % c = s
    BY <1>2, <1>7, <1>9, <2>1 DEF w
  <2>3. x + w = c * q + s /\ q \in Int /\ s \in Int
    <3>1. x + w = c * q + s /\ q \in Int /\ s \in 0..(c - 1)
      BY ONLY <1>1, <2>2, Division, Zenon
    <3> HIDE DEF q, s
    <3> QED
      BY <1>1, <3>1
  <2>4. y + w = c * r + s /\ r \in Int
    <3>1. y + w = c * r + ((y + w) % c) /\ r \in Int
      BY ONLY <1>1, <2>2, Division, Zenon
    <3> HIDE DEF r, s
    <3> QED
      BY <2>2, <3>1
  <2> HIDE DEF q, r, s
  <2>5. x - y = c * (q - r)
    BY <1>1, <1>2, <2>1, <2>3, <2>4
  <2>6. Divides(c, x - y)
    BY <2>3, <2>4, <2>5 DEF Divides
  <2>7. x - y = 0
    BY <1>1, <1>2, <2>6, SmallMultiple
  <2>8. x = y
    BY <1>2, <2>7
  <2> QED
    BY <2>8 DEF x, y
<1> QED
  BY <1>4, <1>8, <1>9

\* Numbers with one code have the same digits.
LEMMA SameCodeSameDigits ==
  ASSUME NEW o \in Settled, BytesSuffice(o), Coprime(o.n2, o.l),
         NEW a \in Nat, NEW b \in Nat,
         \A i \in 0..(o.l - 1) : Diffused(o, a, Permuted(o, i)) = Diffused(o, b, Permuted(o, i))
  PROVE  \A k \in Nat : k < o.l => Digit(o, a, k) = Digit(o, b, k)
<1>1. o.l \in Nat \ {0}
  BY DEF Settled
<1>2. \A k \in 0..(o.l - 1) : Diffused(o, a, k) = Diffused(o, b, k)
  BY PermutedOnto
<1>3. Digit(o, a, 0) = Digit(o, b, 0)
  <2>1. 0 \in 0..(o.l - 1)
    BY <1>1
  <2> QED
    BY <1>2, <2>1, DiffusedTells
<1>4. \A k \in 0..(o.l - 1) : Digit(o, a, k) = Digit(o, b, k)
  BY <1>2, <1>3, DiffusedTells
<1>5. \A k \in Nat : k < o.l => k \in 0..(o.l - 1)
  BY <1>1
<1> QED
  BY <1>4, <1>5

\* The arithmetic of NewCode.
LEMMA NewCodeTellsApart ==
  ASSUME NEW o \in Settled, BytesSuffice(o), NEW a \in Nat, NEW b \in Nat,
         Distinguishable(o, a, b)
  PROVE  NewCode(o, a) # NewCode(o, b)
<1> SUFFICES ASSUME NewCode(o, a) = NewCode(o, b)
             PROVE  FALSE
  OBVIOUS
<1> DEFINE x == Salted(o, a)
           y == Salted(o, b)
           p == Power(o.chars)[o.l]
<1>1. /\ o.chars \in Nat \ {0} /\ o.l \in Nat \ {0} /\ o.n1 \in Nat /\ o.salt \in Nat
      /\ Word \in Nat \ {0} /\ p \in Nat \ {0}
  BY IdentifiersAssumption, PowerIs DEF Settled
<1>2. /\ a # b /\ (a * o.n1 + o.salt) \div Word = (b * o.n1 + o.salt) \div Word
      /\ (IF a < b THEN b - a ELSE a - b) < p
      /\ Coprime(o.n1, o.chars) /\ Coprime(o.n2, o.l)
  BY DEF Distinguishable
<1>3. x \in Nat /\ y \in Nat /\ x - y = o.n1 * (a - b)
  <2> DEFINE u == a * o.n1 + o.salt
             v == b * o.n1 + o.salt
             q == u \div Word
  <2>1. u \in Int /\ v \in Int /\ u - v = o.n1 * (a - b)
    BY <1>1
  <2>2. u = Word * q + x /\ q \in Int /\ x \in Nat
    <3> HIDE DEF u
    <3>1. u = Word * q + (u % Word) /\ q \in Int /\ u % Word \in 0..(Word - 1)
      BY <1>1, <2>1, Division
    <3> QED
      BY <1>1, <3>1 DEF Salted, u
  <2>3. v = Word * q + y /\ y \in Nat
    <3> HIDE DEF v
    <3>1. v = Word * (v \div Word) + (v % Word) /\ v % Word \in 0..(Word - 1)
      BY <1>1, <2>1, Division
    <3>2. v \div Word = q
      BY <1>2 DEF v
    <3> QED
      BY <1>1, <3>1, <3>2 DEF Salted, v
  <2> HIDE DEF u, v, q, x, y
  <2> QED
    BY <1>1, <2>1, <2>2, <2>3
<1> HIDE DEF x, y
<1>4. \A i \in 0..(o.l - 1) : Diffused(o, x, Permuted(o, i)) = Diffused(o, y, Permuted(o, i))
  <2> TAKE i \in 0..(o.l - 1)
  <2>1. NewCode(o, a)[i] = NewCode(o, b)[i]
    OBVIOUS
  <2> QED
    BY <2>1 DEF NewCode, x, y
<1>5. Divides(p, x - y)
  <2>1. \A k \in Nat : k < o.l => Digit(o, x, k) = Digit(o, y, k)
    BY <1>2, <1>3, <1>4, SameCodeSameDigits
  <2> QED
    BY <1>1, <1>3, <2>1, SameDigits
<1>6. Divides(p, a - b)
  BY <1>1, <1>2, <1>3, <1>5, CoprimeCancelsPower
<1>7. a - b = 0
  BY <1>1, <1>2, <1>6, SmallMultiple
<1> QED
  BY <1>2, <1>7

-----------------------------------------------------------------------------
(* Every code *)

\* The history has codes of NewCode with the options there are.
IdInvariant ==
  /\ codeOptions \in Settled
  /\ codes \subseteq {[id |-> n, code |-> NewCode(codeOptions, n)] : n \in Nat}

\* Numbers less than chars^l apart have different codes, whatever the characters,
\* the length, the salt and the multipliers, as long as those have no common
\* divisor with chars and l and no sum of bytes wraps (NewCode, code.go:4-31).
\* The salt and n1 can be undone, the diffusion leaves the last digit and with
\* it all others, the permutation reaches every place; so numbers with one code
\* have the same l digits and are a multiple of chars^l apart.
THEOREM CodesTellNumbersApart == IdSpec => []CodesDistinct
<1>1. IdInit => IdInvariant
  BY IdentifiersAssumption DEF IdInit, IdInvariant, Settled
<1>2. IdInvariant /\ [IdNext]_idVars => IdInvariant'
  <2> SUFFICES ASSUME IdInvariant, [IdNext]_idVars
               PROVE  IdInvariant'
    OBVIOUS
  <2>1. ASSUME NEW o \in Options, Choose(o)
        PROVE  IdInvariant'
    BY <2>1, IdentifiersAssumption DEF Choose, IdInvariant, Options, Settled
  <2>2. ASSUME NEW id \in Nat, MakeCode(id)
        PROVE  IdInvariant'
    BY <2>2 DEF MakeCode, IdInvariant
  <2>3. CASE UNCHANGED <<codeOptions, codes>>
    BY <2>3 DEF IdInvariant
  <2>4. CASE NewSonyflake
    BY <2>3, <2>4 DEF NewSonyflake
  <2>5. CASE Id
    BY <2>2, <2>5, IdentifiersAssumption DEF Id
  <2>6. CASE IdFailed
    BY <2>2, <2>6 DEF IdFailed
  <2>7. CASE Exhausted
    BY <2>3, <2>7 DEF Exhausted
  <2>8. CASE UNCHANGED idVars
    BY <2>3, <2>8 DEF idVars
  <2> QED
    BY <2>1, <2>4, <2>5, <2>6, <2>7, <2>8 DEF IdNext
<1>3. IdInvariant => CodesDistinct
  <2> SUFFICES ASSUME IdInvariant, NEW a \in codes, NEW b \in codes,
                      BytesSuffice(codeOptions), Distinguishable(codeOptions, a.id, b.id)
               PROVE  a.code # b.code
    BY DEF CodesDistinct
  <2>1. /\ a.id \in Nat /\ a.code = NewCode(codeOptions, a.id)
        /\ b.id \in Nat /\ b.code = NewCode(codeOptions, b.id)
    BY DEF IdInvariant
  <2>2. codeOptions \in Settled
    BY DEF IdInvariant
  <2> QED
    BY <2>1, <2>2, NewCodeTellsApart
<1> QED
  BY <1>1, <1>2, <1>3, PTL DEF IdSpec
=============================================================================
