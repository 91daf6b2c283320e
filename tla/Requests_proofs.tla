------------------------- MODULE Requests_proofs ----------------------------
(***************************************************************************)
(* Proofs about the way of a request: RequestPipeline, for any set of      *)
(* requests, any validators, any limit and any size of body; Interceptors, *)
(* for any paths, methods, headers and sizes; Authorisation, for any       *)
(* policies, interval and load time.                                       *)
(*                                                                         *)
(* Requests share the log level and the errors of errx/code.go and nothing *)
(* else, so what a request owns is treated request by request: a step of   *)
(* one leaves what another one owns alone.                                 *)
(***************************************************************************)
EXTENDS RequestPipeline, Interceptors, Authorisation, Foundations

-----------------------------------------------------------------------------
(* Requests                                                                *)

\* The steps of the goroutine of r.
RequestStep(r) ==
  \/ Arrive(r)
  \/ Observe(r) \/ ObserveFails(r)
  \/ Bind(r) \/ BindFails(r)
  \/ Default(r)
  \/ Validate(r) \/ ValidateFails(r) \/ Validated(r)
  \/ HandlerSucceeds(r) \/ HandlerFails(r)
  \/ WithDetails(r)
  \/ WriteResponse(r) \/ RenderFails(r)
  \/ SetResponseHeaders(r)
  \/ Panic(r) \/ Recover(r)

\* Codes, the levels in them and the statuses they become.
LEMMA CodesFail ==
  /\ \A s : FromStatus(s) \in Nat \ {CodeOK}
  /\ \A c : GetHTTPCode(c) \in Nat
  /\ CodeInternalServer \in Nat \ {CodeOK}
BY DEF FromStatus, GetHTTPCode, CodeInternalServer, CodeOK

\* What fails has a code of its own.
LEMMA ErrorsFail ==
  ASSUME RequestTypeOK, NEW r \in Requests, NEW e \in Errors(r)
  PROVE  e \in Error /\ e.code # CodeOK
<1> USE PipelineAssumption DEF RequestTypeOK, Error, Details, Own, Shared, About
<1>1. CASE \E s \in Sentinels : e = Shared(s)
  BY <1>1
<1>2. CASE \E s \in Sentinels : e = Own(SentinelCode[s], details[s])
  BY <1>2
<1>3. CASE \E c \in Codes, d \in {None, r} : e = Own(c, About(d))
  BY <1>3
<1>4. CASE \E c \in Codes : e = Own(FromStatus(GRPCStatus(c)), About(None))
  BY <1>4, CodesFail
<1>5. CASE e = Own(CodeInternalServer, About(None))
  BY <1>5, CodesFail
<1> QED
  BY <1>1, <1>2, <1>3, <1>4, <1>5 DEF Errors

-----------------------------------------------------------------------------
(* Types *)

LEMMA Smaller ==
  ASSUME NEW a \in Nat, NEW b \in Nat
  PROVE  MinOf(a, b) \in 0..a /\ MinOf(a, b) \in 0..b
BY DEF MinOf

LEMMA WayInKeepsTypes ==
  ASSUME RequestTypeOK, NEW r \in Requests,
         Arrive(r) \/ Observe(r) \/ ObserveFails(r)
  PROVE  RequestTypeOK'
<1> USE PipelineAssumption DEF RequestTypeOK, Goto
<1>1. CASE Arrive(r)
  BY <1>1 DEF Arrive
<1>2. CASE Observe(r)
  <2>1. PICK n \in Heads(r) :
          /\ captured' = [captured EXCEPT ![r] = MinOf(n, Limit)]
          /\ reader' = [reader EXCEPT ![r] = n + (reader[r] - n)]
    BY <1>2 DEF Observe
  <2>2. n \in 0..reader[r] /\ MinOf(n, Limit) \in 0..Limit
    <3>1. reader[r] \in Nat /\ Limit + 1 \in Nat
      OBVIOUS
    <3>2. n = 0 \/ n = MinOf(reader[r], Limit + 1)
      BY DEF Heads
    <3>3. MinOf(reader[r], Limit + 1) \in 0..reader[r]
      BY <3>1, Smaller
    <3>4. n \in 0..reader[r]
      BY <3>1, <3>2, <3>3
    <3> QED
      BY <3>4, Smaller
  <2>3. reader' = reader
    BY <2>1, <2>2
  <2>4. captured' \in [Requests -> 0..Limit]
    BY <2>1, <2>2
  <2> QED
    BY <1>2, <2>3, <2>4 DEF Observe
<1>3. CASE ObserveFails(r)
  BY <1>3 DEF ObserveFails
<1> QED
  BY <1>1, <1>2, <1>3

LEMMA BindingKeepsTypes ==
  ASSUME RequestTypeOK, NEW r \in Requests,
         Bind(r) \/ BindFails(r) \/ Default(r)
  PROVE  RequestTypeOK'
<1> USE PipelineAssumption DEF RequestTypeOK, Goto, ForgetBody
<1>1. CASE Bind(r)
  <2>1. input' = [input EXCEPT ![r] = [input[r] EXCEPT !.size = 0]]
    BY <1>1 DEF Bind
  <2>2. [input[r] EXCEPT !.size = 0] \in
          [binder : {"none", "JSON", "Query", "All"}, size : 0..MaxBody, defaults : BOOLEAN]
    <3> DEFINE W == [binder : {"none", "JSON", "Query", "All"}, size : 0..MaxBody,
                     defaults : BOOLEAN]
    <3>1. input[r] \in W /\ 0 \in 0..MaxBody
      OBVIOUS
    <3> QED
      BY <3>1
  <2> QED
    BY <1>1, <2>1, <2>2 DEF Bind
<1>2. CASE BindFails(r)
  BY <1>2 DEF BindFails, ForgetRequest, NoInput, Failed, Shared, About, Error, Details
<1>3. CASE Default(r)
  BY <1>3 DEF Default
<1> QED
  BY <1>1, <1>2, <1>3

\* Whatever a validator or the handler returns is an error of the program.
LEMMA FailsTyped ==
  ASSUME RequestTypeOK, NEW r \in Requests, NEW from, Fails(r, from)
  PROVE  /\ at' \in [Requests -> {"outside", "observing", "binding", "defaulting",
                                  "validating", "handling", "attaching", "writing",
                                  "finishing", "recovering", "done"}]
         /\ err' \in [Requests -> Error]
         /\ unset' \in [Requests -> SUBSET Words]
         /\ failure' \in [Requests -> Nat]
<1> USE PipelineAssumption DEF RequestTypeOK, Goto, Failed
<1>1. CASE \E e \in Errors(r) :
             /\ Goto(r, from, "writing")
             /\ err' = [err EXCEPT ![r] = e]
             /\ Failed(r, e.code)
             /\ UNCHANGED unset
  BY <1>1, ErrorsFail DEF Error
<1>2. CASE \E s \in Sentinels :
             /\ Goto(r, from, "attaching")
             /\ err' = [err EXCEPT ![r] = Shared(s)]
             /\ unset' = [unset EXCEPT ![r] = Words]
             /\ Failed(r, SentinelCode[s])
  BY <1>2 DEF Shared, About, Error, Details
<1> QED
  BY <1>1, <1>2 DEF Fails

LEMMA FinalizingKeepsTypes ==
  ASSUME RequestTypeOK, NEW r \in Requests,
         Validate(r) \/ ValidateFails(r) \/ Validated(r)
           \/ HandlerSucceeds(r) \/ HandlerFails(r)
  PROVE  RequestTypeOK'
<1> USE PipelineAssumption DEF RequestTypeOK, Goto, ForgetRequest, NoInput
<1>1. CASE Validate(r)
  BY <1>1 DEF Validate
<1>2. CASE ValidateFails(r)
  BY <1>2, FailsTyped DEF ValidateFails
<1>3. CASE Validated(r)
  BY <1>3 DEF Validated
<1>4. CASE HandlerSucceeds(r)
  BY <1>4 DEF HandlerSucceeds
<1>5. CASE HandlerFails(r)
  BY <1>5, FailsTyped DEF HandlerFails
<1> QED
  BY <1>1, <1>2, <1>3, <1>4, <1>5

\* A reply has the details of the error at the moment it is written.
LEMMA ReplyTyped ==
  ASSUME RequestTypeOK, NEW e \in Error
  PROVE  FromBizError(e) \in [status : Nat, code : Nat, details : Details]
BY CodesFail DEF RequestTypeOK, FromBizError, Error

LEMMA WayOutKeepsTypes ==
  ASSUME RequestTypeOK, NEW r \in Requests,
         at[r] = "attaching" => err[r].shared \in Sentinels,
         WithDetails(r) \/ WriteResponse(r) \/ RenderFails(r)
           \/ SetResponseHeaders(r) \/ Panic(r) \/ Recover(r)
  PROVE  RequestTypeOK'
<1> USE PipelineAssumption DEF RequestTypeOK, Goto
<1>1. NoError \in Error /\ Own(CodeInternalServer, About(None)) \in Error
  BY CodesFail DEF NoError, Own, About, Error, Details, CodeOK
<1>2. CASE WithDetails(r)
  BY <1>2 DEF WithDetails, Details
<1>3. CASE WriteResponse(r)
  BY <1>3, ReplyTyped DEF WriteResponse
<1>4. CASE RenderFails(r)
  BY <1>4 DEF RenderFails
<1>5. CASE SetResponseHeaders(r)
  BY <1>1, <1>5 DEF SetResponseHeaders, ForgetError
<1>6. CASE Panic(r)
  BY <1>1, <1>6, CodesFail DEF Panic, ForgetBody, ForgetRequest, ForgetError, NoInput, Failed
<1>7. CASE Recover(r)
  BY <1>1, <1>7, ReplyTyped DEF Recover
<1> QED
  BY <1>2, <1>3, <1>4, <1>5, <1>6, <1>7

-----------------------------------------------------------------------------
(* What a request owns *)

\* Up to the handler nothing has failed and nothing is answered.
Before == {"outside", "observing", "binding", "defaulting", "validating", "handling"}

\* From the first failure to the response: the error on its way is the first
\* failure, and a body that is written tells it.
Answering(r) ==
  /\ bodies[r] \in {0, 1}
  /\ at[r] \in Before => bodies[r] = 0 /\ failure[r] = CodeOK /\ err[r] = NoError
  /\ at[r] \in {"attaching", "writing"} => bodies[r] = 0 /\ failure[r] = err[r].code
  /\ at[r] = "attaching" => err[r].shared \in Sentinels /\ err[r].code # CodeOK
  /\ at[r] = "writing" /\ err[r] # NoError => err[r].code # CodeOK
  /\ at[r] \in {"finishing", "done"} /\ failure[r] # CodeOK => bodies[r] = 1
  /\ at[r] = "recovering" /\ bodies[r] = 0 => failure[r] = CodeInternalServer
  /\ bodies[r] = 1 =>
       reply[r].code = failure[r] /\ reply[r].status = GetHTTPCode(failure[r])

\* The body on its way to the binder.
Carrying(r) ==
  /\ at[r] = "observing" => reader[r] = input[r].size
  /\ at[r] = "binding" /\ ~cut[r] => reader[r] = input[r].size
  /\ at[r] = "binding" => captured[r] <= MinOf(input[r].size, Limit)
  /\ at[r] # "binding" => captured[r] = 0

Accepted(t) == (1..t) \ NilValidators

\* The validators have their turn one after the other, with the defaults set.
Finalizing(r) ==
  /\ at[r] \in {"outside", "observing", "binding", "defaulting"}
       => turn[r] = 1 /\ checked[r] = {}
  /\ at[r] = "validating" =>
       /\ default[r] = input[r].defaults
       /\ checked[r] = Accepted(turn[r] - 1) \X {default[r]}
  /\ at[r] = "handling" =>
       checked[r] = Accepted(NumValidators) \X {input[r].defaults}

Owned(r) == Answering(r) /\ Carrying(r) /\ Finalizing(r)

PipelineInvariant == RequestTypeOK /\ \A r \in Requests : Owned(r)

\* What Owned(q) speaks of.
Same(q) ==
  /\ at'[q] = at[q] /\ input'[q] = input[q] /\ reader'[q] = reader[q]
  /\ captured'[q] = captured[q] /\ default'[q] = default[q] /\ turn'[q] = turn[q]
  /\ err'[q] = err[q] /\ bodies'[q] = bodies[q] /\ reply'[q] = reply[q]
  /\ checked'[q] = checked[q] /\ cut'[q] = cut[q] /\ failure'[q] = failure[q]

LEMMA SameIsOwned ==
  ASSUME NEW q \in Requests, Owned(q), Same(q)
  PROVE  Owned(q)'
<1>1. Answering(q)'
  BY DEF Owned, Answering, Same
<1>2. Carrying(q)'
  BY DEF Owned, Carrying, Same
<1>3. Finalizing(q)'
  BY DEF Owned, Finalizing, Same
<1> QED
  BY <1>1, <1>2, <1>3 DEF Owned

\* The goroutine of r touches nothing that q owns.
LEMMA OthersUntouched ==
  ASSUME RequestTypeOK, NEW r \in Requests, RequestStep(r), NEW q \in Requests, q # r
  PROVE  Same(q)
<1> USE DEF RequestTypeOK, Same, Goto
<1>1. CASE Arrive(r)
  BY <1>1 DEF Arrive
<1>2. CASE Observe(r) \/ ObserveFails(r)
  BY <1>2 DEF Observe, ObserveFails
<1>3. CASE Bind(r)
  BY <1>3 DEF Bind, ForgetBody
<1>4. CASE BindFails(r)
  BY <1>4 DEF BindFails, ForgetBody, ForgetRequest, Failed
<1>5. CASE Default(r) \/ Validate(r) \/ Validated(r)
  BY <1>5 DEF Default, Validate, Validated
<1>6. ASSUME NEW from, Fails(r, from)
      PROVE  at'[q] = at[q] /\ err'[q] = err[q] /\ failure'[q] = failure[q]
  BY <1>6 DEF Fails, Failed
<1>7. CASE ValidateFails(r)
  BY <1>6, <1>7 DEF ValidateFails, ForgetRequest
<1>8. CASE HandlerSucceeds(r)
  BY <1>8 DEF HandlerSucceeds, ForgetRequest
<1>9. CASE HandlerFails(r)
  BY <1>6, <1>9 DEF HandlerFails, ForgetRequest
<1>10. CASE WithDetails(r)
  BY <1>10 DEF WithDetails
<1>11. CASE WriteResponse(r) \/ RenderFails(r)
  BY <1>11 DEF WriteResponse, RenderFails
<1>12. CASE SetResponseHeaders(r)
  BY <1>12 DEF SetResponseHeaders, ForgetError
<1>13. CASE Panic(r)
  BY <1>13 DEF Panic, ForgetBody, ForgetRequest, ForgetError, Failed
<1>14. CASE Recover(r)
  BY <1>14 DEF Recover
<1> QED
  BY <1>1, <1>2, <1>3, <1>4, <1>5, <1>7, <1>8, <1>9, <1>10, <1>11, <1>12, <1>13,
     <1>14 DEF RequestStep

-----------------------------------------------------------------------------
(* A step of r and the answer to r *)

\* A failure sends the request to its response, or to WithDetails before it,
\* with an error whose code is the first failure.
LEMMA FailsAnswering ==
  ASSUME RequestTypeOK, NEW r \in Requests, Answering(r), at[r] \in Before,
         NEW from, Fails(r, from), bodies' = bodies, reply' = reply
  PROVE  Answering(r)'
<1> USE PipelineAssumption DEF RequestTypeOK, Goto, Failed, Answering, Before
<1>1. CASE \E e \in Errors(r) :
             /\ Goto(r, from, "writing")
             /\ err' = [err EXCEPT ![r] = e]
             /\ Failed(r, e.code)
             /\ UNCHANGED unset
  <2>1. PICK e \in Errors(r) :
          /\ Goto(r, from, "writing")
          /\ err' = [err EXCEPT ![r] = e]
          /\ Failed(r, e.code)
    BY <1>1
  <2>2. at'[r] = "writing" /\ err'[r] = e /\ failure'[r] = e.code /\ e.code # CodeOK
    BY <2>1, ErrorsFail
  <2> QED
    BY <2>2
<1>2. CASE \E s \in Sentinels :
             /\ Goto(r, from, "attaching")
             /\ err' = [err EXCEPT ![r] = Shared(s)]
             /\ unset' = [unset EXCEPT ![r] = Words]
             /\ Failed(r, SentinelCode[s])
  <2>1. PICK s \in Sentinels :
          /\ Goto(r, from, "attaching")
          /\ err' = [err EXCEPT ![r] = Shared(s)]
          /\ Failed(r, SentinelCode[s])
    BY <1>2
  <2>2. at'[r] = "attaching" /\ err'[r] = Shared(s) /\ failure'[r] = SentinelCode[s]
    BY <2>1
  <2>3. Shared(s).shared = s /\ Shared(s).code = SentinelCode[s] /\ SentinelCode[s] # CodeOK
    BY DEF Shared
  <2> QED
    BY <2>2, <2>3
<1> QED
  BY <1>1, <1>2 DEF Fails

LEMMA StepKeepsAnswering ==
  ASSUME RequestTypeOK, NEW r \in Requests, Answering(r), RequestStep(r)
  PROVE  Answering(r)'
<1> USE PipelineAssumption, CodesFail DEF RequestTypeOK, Goto, Answering, Before
<1>1. CASE Arrive(r) \/ Observe(r) \/ ObserveFails(r) \/ Default(r) \/ Validate(r)
           \/ Validated(r)
  BY <1>1 DEF Arrive, Observe, ObserveFails, Default, Validate, Validated
<1>2. CASE Bind(r)
  BY <1>2 DEF Bind
<1>3. CASE BindFails(r)
  <2>1. /\ at'[r] = "attaching" /\ err'[r] = Shared("ErrBind") /\ bodies' = bodies
        /\ failure'[r] = SentinelCode["ErrBind"] /\ at[r] = "binding" /\ reply' = reply
    BY <1>3 DEF BindFails, Failed
  <2>2. Shared("ErrBind").shared = "ErrBind" /\ Shared("ErrBind").code = SentinelCode["ErrBind"]
    BY DEF Shared
  <2> QED
    BY <2>1, <2>2
<1>4. CASE ValidateFails(r)
  <2>1. Fails(r, "validating") /\ at[r] = "validating" /\ bodies' = bodies /\ reply' = reply
    BY <1>4 DEF ValidateFails, Fails
  <2> QED
    BY <2>1, FailsAnswering
<1>5. CASE HandlerSucceeds(r)
  BY <1>5 DEF HandlerSucceeds, NoError, Own
<1>6. CASE HandlerFails(r)
  <2>1. Fails(r, "handling") /\ at[r] = "handling" /\ bodies' = bodies /\ reply' = reply
    BY <1>6 DEF HandlerFails, Fails
  <2> QED
    BY <2>1, FailsAnswering
<1>7. CASE WithDetails(r)
  BY <1>7 DEF WithDetails
<1>8. CASE WriteResponse(r)
  <2>1. /\ at[r] = "writing" /\ at'[r] = "finishing" /\ bodies'[r] = 1
        /\ reply'[r] = FromBizError(err[r]) /\ failure' = failure
    BY <1>8 DEF WriteResponse
  <2>2. FromBizError(err[r]).code = err[r].code
        /\ FromBizError(err[r]).status = GetHTTPCode(err[r].code)
    BY DEF FromBizError
  <2> QED
    BY <2>1, <2>2
<1>9. CASE RenderFails(r)
  <2>1. err[r].code = CodeOK
    BY <1>9 DEF RenderFails, NoError, Own
  <2> QED
    BY <1>9, <2>1 DEF RenderFails
<1>10. CASE SetResponseHeaders(r)
  BY <1>10 DEF SetResponseHeaders
<1>11. CASE Panic(r)
  <2>1. /\ at'[r] = "recovering" /\ bodies' = bodies /\ reply' = reply
        /\ failure'[r] = IF failure[r] = CodeOK /\ bodies[r] = 0 THEN CodeInternalServer
                         ELSE failure[r]
    BY <1>11 DEF Panic, Failed
  <2>2. bodies[r] = 0 => failure[r] = CodeOK
    BY <1>11 DEF Panic, NoError, Own
  <2> QED
    BY <2>1, <2>2
<1>12. CASE Recover(r)
  <2>1. /\ at[r] = "recovering" /\ at'[r] = "done" /\ bodies'[r] = 1 /\ failure' = failure
        /\ bodies[r] = 0 => reply'[r] = FromBizError(Own(CodeInternalServer, About(None)))
        /\ bodies[r] = 1 => reply'[r] = reply[r]
    BY <1>12 DEF Recover
  <2>2. LET e == FromBizError(Own(CodeInternalServer, About(None)))
        IN e.code = CodeInternalServer /\ e.status = GetHTTPCode(CodeInternalServer)
    BY DEF FromBizError, Own
  <2> QED
    BY <2>1, <2>2
<1> QED
  BY <1>1, <1>2, <1>3, <1>4, <1>5, <1>6, <1>7, <1>8, <1>9, <1>10, <1>11, <1>12
     DEF RequestStep

-----------------------------------------------------------------------------
(* A step of r and the body of r *)

LEMMA StepKeepsCarrying ==
  ASSUME RequestTypeOK, NEW r \in Requests, Carrying(r), RequestStep(r)
  PROVE  Carrying(r)'
<1> USE PipelineAssumption DEF RequestTypeOK, Goto, Carrying
<1>1. CASE Arrive(r)
  BY <1>1 DEF Arrive
<1>2. CASE Observe(r)
  <2>1. PICK n \in Heads(r) :
          /\ captured' = [captured EXCEPT ![r] = MinOf(n, Limit)]
          /\ reader' = [reader EXCEPT ![r] = n + (reader[r] - n)]
    BY <1>2 DEF Observe
  <2>2. n \in 0..reader[r]
    <3>1. reader[r] \in Nat /\ Limit + 1 \in Nat
      OBVIOUS
    <3>2. MinOf(reader[r], Limit + 1) \in 0..reader[r]
      BY <3>1, Smaller
    <3> QED
      BY <3>1, <3>2 DEF Heads
  <2>3. MinOf(n, Limit) <= MinOf(reader[r], Limit)
    BY <2>2 DEF MinOf
  <2>4. /\ at[r] = "observing" /\ at'[r] = "binding" /\ input' = input
        /\ reader'[r] = reader[r] /\ captured'[r] = MinOf(n, Limit)
    BY <1>2, <2>1, <2>2 DEF Observe
  <2> QED
    BY <2>3, <2>4
<1>3. CASE ObserveFails(r)
  BY <1>3, Smaller DEF ObserveFails
<1>4. CASE Bind(r) \/ BindFails(r)
  <2>1. at'[r] \notin {"observing", "binding"} /\ captured'[r] = 0
    BY <1>4 DEF Bind, BindFails, ForgetBody
  <2> QED
    BY <2>1
<1>5. CASE Default(r) \/ Validate(r) \/ Validated(r) \/ HandlerSucceeds(r)
           \/ WithDetails(r) \/ WriteResponse(r) \/ RenderFails(r) \/ SetResponseHeaders(r)
           \/ Recover(r)
  <2>1. at[r] # "binding" /\ at'[r] \notin {"observing", "binding"} /\ captured' = captured
    BY <1>5 DEF Default, Validate, Validated, HandlerSucceeds, WithDetails, WriteResponse,
                RenderFails, SetResponseHeaders, Recover
  <2> QED
    BY <2>1
<1>6. CASE ValidateFails(r) \/ HandlerFails(r)
  <2>1. at[r] # "binding" /\ at'[r] \notin {"observing", "binding"} /\ captured' = captured
    BY <1>6 DEF ValidateFails, HandlerFails, Fails
  <2> QED
    BY <2>1
<1>7. CASE Panic(r)
  <2>1. at'[r] = "recovering" /\ captured'[r] = 0
    BY <1>7 DEF Panic, ForgetBody
  <2> QED
    BY <2>1
<1> QED
  BY <1>1, <1>2, <1>3, <1>4, <1>5, <1>6, <1>7 DEF RequestStep

-----------------------------------------------------------------------------
(* A step of r and the validators of r *)

\* A nil validator adds nobody to those that have accepted, another one itself.
LEMMA NextAccepted ==
  ASSUME NEW t \in 1..NumValidators, NEW d
  PROVE  Accepted(t) \X {d} = IF t \in NilValidators THEN Accepted(t - 1) \X {d}
                              ELSE Accepted(t - 1) \X {d} \cup {<<t, d>>}
<1>1. 1..t = 1..(t - 1) \cup {t}
  BY PipelineAssumption
<1>2. Accepted(t) = IF t \in NilValidators THEN Accepted(t - 1)
                    ELSE Accepted(t - 1) \cup {t}
  BY <1>1 DEF Accepted
<1> QED
  BY <1>2

LEMMA StepKeepsFinalizing ==
  ASSUME RequestTypeOK, NEW r \in Requests, Finalizing(r), RequestStep(r)
  PROVE  Finalizing(r)'
<1> USE PipelineAssumption DEF RequestTypeOK, Goto, Finalizing
<1>1. CASE Arrive(r) \/ Observe(r) \/ ObserveFails(r)
  <2>1. /\ at[r] \in {"outside", "observing"} /\ at'[r] \in {"observing", "binding"}
        /\ turn' = turn /\ checked' = checked
    BY <1>1 DEF Arrive, Observe, ObserveFails
  <2> QED
    BY <2>1
<1>2. CASE Bind(r)
  BY <1>2 DEF Bind
<1>3. CASE Default(r)
  <2>1. /\ at[r] = "defaulting" /\ at'[r] = "validating" /\ default'[r] = input'[r].defaults
        /\ turn' = turn /\ checked' = checked
    BY <1>3 DEF Default
  <2>2. Accepted(0) \X {default'[r]} = {}
    BY DEF Accepted
  <2> QED
    BY <2>1, <2>2
<1>4. CASE Validate(r)
  <2>1. /\ at[r] = "validating" /\ at'[r] = "validating" /\ turn[r] \in 1..NumValidators
        /\ turn'[r] = turn[r] + 1 /\ input' = input /\ default' = default
        /\ checked'[r] = IF turn[r] \in NilValidators THEN checked[r]
                         ELSE checked[r] \cup {<<turn[r], default[r]>>}
    BY <1>4 DEF Validate
  <2>2. checked'[r] = Accepted(turn[r]) \X {default[r]}
    BY <2>1, NextAccepted
  <2>3. turn'[r] - 1 = turn[r]
    BY <2>1
  <2> QED
    BY <2>1, <2>2, <2>3
<1>5. CASE Validated(r)
  <2>1. /\ at[r] = "validating" /\ at'[r] = "handling" /\ turn[r] = NumValidators + 1
        /\ input' = input /\ checked' = checked
    BY <1>5 DEF Validated
  <2>2. turn[r] - 1 = NumValidators
    BY <2>1
  <2> QED
    BY <2>1, <2>2
<1>6. CASE BindFails(r) \/ ValidateFails(r) \/ HandlerFails(r)
  <2>1. at'[r] \in {"attaching", "writing"}
    BY <1>6 DEF BindFails, ValidateFails, HandlerFails, Fails
  <2> QED
    BY <2>1
<1>7. CASE HandlerSucceeds(r) \/ WithDetails(r) \/ WriteResponse(r) \/ RenderFails(r)
           \/ SetResponseHeaders(r) \/ Panic(r) \/ Recover(r)
  <2>1. at'[r] \in {"attaching", "writing", "finishing", "recovering", "done"}
    BY <1>7 DEF HandlerSucceeds, WithDetails, WriteResponse, RenderFails,
                SetResponseHeaders, Panic, Recover
  <2> QED
    BY <2>1
<1> QED
  BY <1>1, <1>2, <1>3, <1>4, <1>5, <1>6, <1>7 DEF RequestStep

-----------------------------------------------------------------------------
(* The results *)

LEMMA FirstRequests ==
  ASSUME RequestInit
  PROVE  PipelineInvariant
<1> USE PipelineAssumption DEF RequestInit
<1>1. NoError \in Error
  BY DEF NoError, Own, About, Error, Details, CodeOK
<1>2. NoReply \in [status : Nat, code : Nat, details : Details]
  BY DEF NoReply, About, Details
<1>3. [s \in Sentinels |-> About(None)] \in [Sentinels -> Details]
  BY DEF About, Details
<1>4. RequestTypeOK
  BY <1>1, <1>2, <1>3 DEF RequestTypeOK, NoInput, CodeOK
<1>5. ASSUME NEW r \in Requests
      PROVE  Owned(r)
  BY DEF Owned, Answering, Carrying, Finalizing, Before
<1> QED
  BY <1>4, <1>5 DEF PipelineInvariant

\* Every request is at every moment where its own steps have brought it.
LEMMA PipelineCorrect == RequestSpec => []PipelineInvariant
<1>1. RequestInit => PipelineInvariant
  BY FirstRequests
<1>2. PipelineInvariant /\ [RequestNext]_requestVars => PipelineInvariant'
  <2> SUFFICES ASSUME PipelineInvariant, [RequestNext]_requestVars
               PROVE  PipelineInvariant'
    OBVIOUS
  <2>1. ASSUME NEW r \in Requests, RequestStep(r)
        PROVE  PipelineInvariant'
    <3>1. RequestTypeOK /\ Owned(r)
      BY DEF PipelineInvariant
    <3>2. at[r] = "attaching" => err[r].shared \in Sentinels
      BY <3>1 DEF Owned, Answering
    <3>3. RequestTypeOK'
      BY <2>1, <3>1, <3>2, WayInKeepsTypes, BindingKeepsTypes, FinalizingKeepsTypes,
         WayOutKeepsTypes DEF RequestStep
    <3>4. Owned(r)'
      BY <2>1, <3>1, StepKeepsAnswering, StepKeepsCarrying, StepKeepsFinalizing DEF Owned
    <3>5. ASSUME NEW q \in Requests, q # r
          PROVE  Owned(q)'
      BY <2>1, <3>1, <3>5, OthersUntouched, SameIsOwned DEF PipelineInvariant
    <3> QED
      BY <3>3, <3>4, <3>5 DEF PipelineInvariant
  <2>2. CASE SetLevel
    <3>1. RequestTypeOK'
      BY <2>2 DEF PipelineInvariant, RequestTypeOK, SetLevel
    <3>2. \A q \in Requests : Same(q)
      BY <2>2 DEF SetLevel, Same
    <3> QED
      BY <3>1, <3>2, SameIsOwned DEF PipelineInvariant
  <2>3. CASE UNCHANGED requestVars
    <3>1. RequestTypeOK'
      BY <2>3 DEF PipelineInvariant, RequestTypeOK, requestVars
    <3>2. \A q \in Requests : Same(q)
      BY <2>3 DEF requestVars, Same
    <3> QED
      BY <3>1, <3>2, SameIsOwned DEF PipelineInvariant
  <2> QED
    BY <2>1, <2>2, <2>3 DEF RequestNext, RequestStep
<1> QED
  BY <1>1, <1>2, PTL DEF RequestSpec

\* A request gets one response body, also when a panic comes after it, and one
\* that has failed is not left without (recovery.go, Recovery; core.go,
\* WriteResponse).
THEOREM OneAnswer == RequestSpec => []RequestInvariant
<1>1. PipelineInvariant => RequestInvariant
  BY DEF PipelineInvariant, Owned, Answering, RequestInvariant, AnsweredOnce
<1> QED
  BY <1>1, PipelineCorrect, PTL

\* The client is told of the first thing that went wrong, by code and by status,
\* whatever is done to the shared errors (core.go, WriteResponse; errx.go).
THEOREM FirstFailureTold == RequestSpec => []FirstFailureAnswered
<1>1. PipelineInvariant => FirstFailureAnswered
  BY DEF PipelineInvariant, Owned, Answering, FirstFailureAnswered
<1> QED
  BY <1>1, PipelineCorrect, PTL

\* The handler runs after every validator that is not nil, and each of those
\* after the defaults (core.go, FinalizeRequest).
THEOREM OnlyValidRequestsHandled == RequestSpec => []HandlerSeesValidRequest
<1>1. PipelineInvariant => HandlerSeesValidRequest
  BY DEF PipelineInvariant, Owned, Answering, Finalizing, Before, Accepted,
         HandlerSeesValidRequest
<1> QED
  BY <1>1, PipelineCorrect, PTL

\* Observability gives the binder the whole body back and holds no more than its
\* limit, whatever the two sizes are (observability.go).
THEOREM BodyKept == RequestSpec => []BodyIntact
<1>1. PipelineInvariant => BodyIntact
  <2> SUFFICES ASSUME PipelineInvariant, NEW r \in Requests
               PROVE  /\ at[r] = "binding" /\ ~cut[r] => reader[r] = input[r].size
                      /\ captured[r] <= MinOf(input[r].size, Limit)
    BY DEF BodyIntact
  <2>1. Carrying(r)
    BY DEF PipelineInvariant, Owned
  <2>2. input[r].size \in Nat /\ Limit \in Nat
    BY PipelineAssumption DEF PipelineInvariant, RequestTypeOK
  <2>3. 0 <= MinOf(input[r].size, Limit)
    BY <2>2, Smaller
  <2> QED
    BY <2>1, <2>3 DEF Carrying
<1> QED
  BY <1>1, PipelineCorrect, PTL

-----------------------------------------------------------------------------
(* Interceptors                                                            *)

Header ==
  [name : CustomHeaders \cup {"X-Trace-Id", "traceparent"}, format : {"id", "w3c"}, trace : 0..1]

Call ==
  [kind : {"none", "HTTP", "gRPC"}, at : {"out", "serving", "logging", "recovered", "done"},
   path : Paths \cup {<<>>}, method : Methods \cup {""}, span : 0..1, debug : BOOLEAN,
   headers : SUBSET Header, body : Nat, aside : Nat, captured : Nat,
   status : {"", "OK", "ERROR", "Internal"},
   skipped : BOOLEAN, quiet : BOOLEAN, relevelled : BOOLEAN]

\* What a call carries: headers of its own trace, and of its body what fits.
Carried(call) ==
  /\ \A h \in call.headers : h.trace = call.span
  /\ call.aside <= call.body
  /\ call.debug => call.captured = Tellable(call)
  /\ call.at = "logging" => ~call.skipped

\* Until somebody changes the level, what the call found on the way in is what
\* the logger does.
AsFound(call) ==
  call.at \in {"serving", "logging"} /\ ~call.relevelled =>
    /\ call.quiet \/ Logs("info")
    /\ call.debug => Logs("debug")

\* The entry of a call.
EntryOf(call) ==
  [told |-> IF call.kind = "gRPC" /\ call.debug THEN {"body"}
            ELSE {"method", "status"} \cup (IF call.debug THEN {"body"} ELSE {}),
   status |-> call.status, body |-> call.captured, trace |-> call.span]

\* The entries of a call are none until it is done, and then at most the one.
Told(call, told) ==
  CASE call.at = "recovered" -> told = {PanicEntry}
    [] call.at = "done" ->
         /\ told \subseteq {EntryOf(call)}
         /\ call.skipped => told = {}
         /\ ~call.skipped /\ ~call.quiet /\ ~call.relevelled => told = {EntryOf(call)}
    [] OTHER -> told = {}

CallInvariant(call, told) ==
  call \in Call /\ Carried(call) /\ AsFound(call) /\ Told(call, told)

InterceptorInvariant ==
  /\ calls = [c \in Calls |-> calls[c]] /\ entries = [c \in Calls |-> entries[c]]
  /\ \A c \in Calls : CallInvariant(calls[c], entries[c])

LEMMA EntryIsNoPanic == \A call : EntryOf(call) # PanicEntry
<1> SUFFICES ASSUME NEW call
             PROVE  EntryOf(call).told # {"panic"} /\ PanicEntry.told = {"panic"}
  OBVIOUS
<1>1. EntryOf(call).told = IF call.kind = "gRPC" /\ call.debug THEN {"body"}
            ELSE {"method", "status"} \cup (IF call.debug THEN {"body"} ELSE {})
  BY DEF EntryOf
<1>2. "panic" \notin EntryOf(call).told
  BY <1>1
<1> QED
  BY <1>2 DEF PanicEntry

\* One call moves, the others and the level do not.
LEMMA OneCallMoves ==
  ASSUME InterceptorInvariant, NEW c \in Calls, NEW call, NEW told, UNCHANGED logLevel,
         calls' = [calls EXCEPT ![c] = call], entries' = [entries EXCEPT ![c] = told],
         CallInvariant(call, told)
  PROVE  InterceptorInvariant'
<1>1. /\ calls' = [x \in Calls |-> calls'[x]] /\ entries' = [x \in Calls |-> entries'[x]]
      /\ calls'[c] = call /\ entries'[c] = told
      /\ \A x \in Calls \ {c} : calls'[x] = calls[x] /\ entries'[x] = entries[x]
  BY DEF InterceptorInvariant
<1>2. \A x, y : CallInvariant(x, y)' <=> CallInvariant(x, y)
  BY DEF CallInvariant, Carried, Tellable, AsFound, Told, Logs
<1> QED
  BY <1>1, <1>2 DEF InterceptorInvariant

\* The headers a call gets are of its own trace.
LEMMA HeadersOfTheTrace ==
  ASSUME NEW mode \in InjectModes, NEW custom \in CustomHeaders, NEW span \in 0..1
  PROVE  TraceHeaders(mode, custom, span) \in SUBSET {h \in Header : h.trace = span}
<1> DEFINE name == IF custom # "" THEN custom ELSE "X-Trace-Id"
           simple == {[name |-> name, format |-> "id", trace |-> span]}
           w3c == {[name |-> "traceparent", format |-> "w3c", trace |-> span]}
<1>1. mode \in {"W3C", "TraceIDOnly", "Both", "None"}
  BY InterceptorsAssumption
<1>2. \/ TraceHeaders(mode, custom, span) = {} \/ TraceHeaders(mode, custom, span) = w3c
      \/ TraceHeaders(mode, custom, span) = simple
      \/ TraceHeaders(mode, custom, span) = w3c \cup simple
  BY <1>1 DEF TraceHeaders
<1>3. name \in CustomHeaders \cup {"X-Trace-Id", "traceparent"}
  OBVIOUS
<1> HIDE DEF name
<1>4. simple \subseteq {h \in Header : h.trace = span} /\ w3c \subseteq {h \in Header : h.trace = span}
  BY <1>3 DEF Header
<1> HIDE DEF simple, w3c
<1> QED
  BY <1>2, <1>4

LEMMA Differences ==
  \A n, lost \in Nat : lost <= n => n - lost \in Nat /\ (n = 0 => n - lost = 0)
OBVIOUS

\* What fits is told.
LEMMA SmallIsTellable ==
  ASSUME NEW call, NEW through \in Nat, call.body - call.aside = through,
         call.kind = "HTTP" => through = 0
  PROVE  Tellable(call) = through
<1>1. ~(CaptureLimit < 0)
  BY InterceptorsAssumption
<1> QED
  BY <1>1 DEF Tellable

\* A call comes with the headers of its trace, the message it brings and no entry.
LEMMA EnterKeeps ==
  ASSUME InterceptorInvariant, NEW c \in Calls, NEW kind \in {"HTTP", "gRPC"},
         NEW path \in Paths \cup {<<>>}, NEW method \in Methods \cup {""}, NEW span \in 0..1,
         NEW mode \in InjectModes, NEW custom \in CustomHeaders,
         NEW n \in Nat, NEW lost \in Nat, lost <= n, kind = "HTTP" => n = 0,
         Enter(c, kind, path, method, span, mode, custom, n, lost)
  PROVE  InterceptorInvariant'
<1> DEFINE skipped == kind = "HTTP" /\ ShouldSkipPath(path, method)
           wordy == ~skipped /\ Logs("debug")
           quiet == ~Logs("info")
           headers == IF skipped THEN {} ELSE TraceHeaders(mode, custom, span)
           copied == IF Logs("debug") THEN n - lost ELSE 0
           call == [NoCall EXCEPT !.kind = kind, !.at = "serving", !.path = path, !.method = method,
                      !.span = span, !.skipped = skipped, !.debug = wordy, !.quiet = quiet,
                      !.headers = headers, !.body = n, !.aside = lost, !.captured = copied]
<1>1. /\ calls[c].at = "out" /\ calls' = [calls EXCEPT ![c] = call]
      /\ UNCHANGED <<logLevel, entries>>
  BY DEF Enter, Become
<1>2. entries[c] = {} /\ entries' = [entries EXCEPT ![c] = {}]
  BY <1>1 DEF InterceptorInvariant, CallInvariant, Told
<1>3. skipped \in BOOLEAN /\ wordy \in BOOLEAN /\ quiet \in BOOLEAN
  BY DEF ShouldSkipPath, Logs
<1>4. headers \in SUBSET Header /\ \A h \in headers : h.trace = span
  BY HeadersOfTheTrace
<1>5. (wordy => Logs("debug")) /\ (quiet \/ Logs("info"))
  OBVIOUS
<1>10. n - lost \in Nat /\ (kind = "HTTP" => n - lost = 0)
  <2>1. lost <= n /\ (kind = "HTTP" => n = 0)
    OBVIOUS
  <2> QED
    BY <2>1, Differences
<1>9. copied \in Nat /\ (wordy => copied = n - lost)
  <2> DEFINE rest == n - lost
  <2>1. rest \in Nat
    BY <1>10
  <2> HIDE DEF rest
  <2>2. (IF Logs("debug") THEN rest ELSE 0) \in Nat
    BY <2>1
  <2>3. wordy => (IF Logs("debug") THEN rest ELSE 0) = rest
    BY <1>5
  <2> QED
    BY <2>2, <2>3 DEF rest
<1> HIDE DEF skipped, wordy, quiet, headers, copied
<1>6. /\ call.at = "serving" /\ call.span = span /\ call.headers = headers /\ call.kind = kind
      /\ call.debug = wordy /\ call.quiet = quiet
      /\ call.skipped = skipped /\ call.relevelled = FALSE
      /\ call.body = n /\ call.aside = lost /\ call.captured = copied
      /\ call \in Call
  <2>1. kind \in {"none", "HTTP", "gRPC"} /\ span \in 0..1 /\ headers \in SUBSET Header
    BY <1>4
  <2>2. call \in Call
    BY <1>3, <1>9, <2>1 DEF NoCall, Call
  <2>3. /\ call.at = "serving" /\ call.span = span /\ call.headers = headers /\ call.kind = kind
        /\ call.debug = wordy /\ call.quiet = quiet
        /\ call.skipped = skipped /\ call.relevelled = FALSE
        /\ call.body = n /\ call.aside = lost /\ call.captured = copied
    BY <1>3 DEF NoCall
  <2> QED
    BY <2>2, <2>3
<1> HIDE DEF call
<1>7. Carried(call)
  <2>1. \A h \in call.headers : h.trace = call.span
    BY <1>4, <1>6
  <2>2. call.body - call.aside = n - lost
    BY <1>6
  <2>3. Tellable(call) = n - lost
    BY <1>6, <1>10, <2>2, SmallIsTellable
  <2>5. call.debug => call.captured = Tellable(call)
    BY <1>6, <1>9, <2>3
  <2>6. call.aside <= call.body
    BY <1>6
  <2> QED
    BY <1>6, <2>1, <2>5, <2>6 DEF Carried
<1>8. AsFound(call) /\ Told(call, {})
  BY <1>5, <1>6 DEF AsFound, Told
<1> QED
  BY <1>1, <1>2, <1>6, <1>7, <1>8, OneCallMoves DEF CallInvariant

\* The capture takes what there is room for, and nothing of a string.
LEMMA WritesKeep ==
  ASSUME InterceptorInvariant, NEW c \in Calls, NEW n \in Nat, WriteBody(c, n) \/ WriteString(c, n)
  PROVE  InterceptorInvariant'
<1> DEFINE old == calls[c]
<1>0. CallInvariant(old, entries[c])
  BY DEF InterceptorInvariant
<1>1. PICK body, aside, copied :
        /\ old.at = "serving" /\ old.kind = "HTTP" /\ UNCHANGED <<logLevel, entries>>
        /\ calls' = [calls EXCEPT ![c] =
                       [old EXCEPT !.body = body, !.aside = aside, !.captured = copied]]
        /\ body = old.body + n
        /\ \/ /\ aside = old.aside
              /\ copied = IF old.debug THEN old.captured + Captured(c, n) ELSE old.captured
           \/ aside = old.aside + n /\ copied = old.captured
  <2>1. CASE WriteBody(c, n)
    <3> DEFINE copied == IF old.debug THEN old.captured + Captured(c, n) ELSE old.captured
    <3>1. [old EXCEPT !.body = @ + n, !.captured = copied]
            = [old EXCEPT !.body = old.body + n, !.aside = old.aside, !.captured = copied]
      BY <1>0 DEF CallInvariant, Call
    <3> QED
      BY <2>1, <3>1 DEF WriteBody, Become
  <2>2. CASE WriteString(c, n)
    <3>1. [old EXCEPT !.body = @ + n, !.aside = @ + n]
            = [old EXCEPT !.body = old.body + n, !.aside = old.aside + n, !.captured = old.captured]
      BY <1>0 DEF CallInvariant, Call
    <3> QED
      BY <2>2, <3>1 DEF WriteString, Become
  <2> QED
    BY <2>1, <2>2
<1> DEFINE call == [old EXCEPT !.body = body, !.aside = aside, !.captured = copied]
<1>2. entries' = [entries EXCEPT ![c] = entries[c]]
  BY <1>1 DEF InterceptorInvariant
<1>3. /\ body \in Nat /\ copied \in Nat /\ aside \in Nat /\ aside <= body
      /\ old.debug => copied = IF CaptureLimit < body - aside THEN CaptureLimit ELSE body - aside
  <2>1. /\ CaptureLimit \in Nat /\ old.body \in Nat /\ old.captured \in Nat /\ old.aside \in Nat
        /\ old.aside <= old.body
    BY <1>0, InterceptorsAssumption DEF CallInvariant, Call, Carried
  <2>2. old.debug => old.captured =
          IF CaptureLimit < old.body - old.aside THEN CaptureLimit ELSE old.body - old.aside
    BY <1>0, <1>1 DEF CallInvariant, Carried, Tellable
  <2> QED
    BY <1>1, <2>1, <2>2 DEF Captured, Room
<1>4. /\ call.body = body /\ call.aside = aside /\ call.captured = copied /\ call.kind = "HTTP"
      /\ call.at = "serving" /\ call.span = old.span /\ call.headers = old.headers
      /\ call.debug = old.debug /\ call.quiet = old.quiet
      /\ call.skipped = old.skipped /\ call.relevelled = old.relevelled
      /\ call \in Call
  BY <1>0, <1>1, <1>3 DEF CallInvariant, Call
<1>7. calls' = [calls EXCEPT ![c] = call] /\ UNCHANGED logLevel
  BY <1>1
<1> HIDE DEF call
<1>5. Carried(call)
  BY <1>0, <1>3, <1>4 DEF CallInvariant, Carried, Tellable
<1>6. AsFound(call) /\ Told(call, entries[c])
  BY <1>0, <1>1, <1>4 DEF CallInvariant, AsFound, Told
<1> QED
  BY <1>2, <1>4, <1>5, <1>6, <1>7, OneCallMoves DEF CallInvariant

LEMMA ReturnKeeps ==
  ASSUME InterceptorInvariant, NEW c \in Calls, NEW status \in {"OK", "ERROR"},
         NEW n \in Nat, NEW lost \in Nat, lost <= n, calls[c].kind = "HTTP" => n = 0,
         Return(c, status, n, lost)
  PROVE  InterceptorInvariant'
<1> DEFINE old == calls[c]
           reached == IF old.skipped THEN "done" ELSE "logging"
           body == old.body + n
           aside == old.aside + lost
           copied == IF old.debug THEN old.captured + (n - lost) ELSE old.captured
           call == [old EXCEPT !.status = status, !.at = reached,
                      !.body = body, !.aside = aside, !.captured = copied]
<1>0. CallInvariant(old, entries[c])
  BY DEF InterceptorInvariant
<1>10. old = [kind |-> old.kind, at |-> old.at, path |-> old.path, method |-> old.method,
              span |-> old.span, debug |-> old.debug, headers |-> old.headers, body |-> old.body,
              aside |-> old.aside, captured |-> old.captured, status |-> old.status,
              skipped |-> old.skipped, quiet |-> old.quiet, relevelled |-> old.relevelled]
  BY <1>0 DEF CallInvariant, Call
<1>1. /\ old.at = "serving" /\ calls' = [calls EXCEPT ![c] = call]
      /\ UNCHANGED <<logLevel, entries>>
  BY <1>10 DEF Return, Become
<1>2. entries' = [entries EXCEPT ![c] = entries[c]]
  BY <1>1 DEF InterceptorInvariant
<1>7. /\ CaptureLimit \in Nat /\ old.body \in Nat /\ old.captured \in Nat /\ old.aside \in Nat
      /\ old.aside <= old.body /\ old.kind \in {"none", "HTTP", "gRPC"}
      /\ (old.debug => old.captured = Tellable(old))
  BY <1>0, InterceptorsAssumption DEF CallInvariant, Call, Carried
<1>11. n \in Nat /\ lost \in Nat /\ lost <= n /\ n - lost \in Nat
       /\ (old.kind = "HTTP" => n = 0 /\ lost = 0)
  <2>1. lost <= n /\ (old.kind = "HTTP" => n = 0)
    OBVIOUS
  <2>2. \A i \in Nat : i <= 0 => i = 0
    OBVIOUS
  <2> QED
    BY <2>1, <2>2, Differences
<1>8. /\ copied \in Nat /\ body \in Nat /\ aside \in Nat /\ aside <= body
      /\ reached \in {"done", "logging"}
  <2>1. \A i, j, k \in Nat : IF old.debug THEN i + j \in Nat ELSE i \in Nat
    OBVIOUS
  <2>2. copied \in Nat
    BY <1>7, <1>11, <2>1
  <2> QED
    BY <1>7, <1>11, <2>2
<1>12. old.debug => copied = old.captured + (n - lost)
  OBVIOUS
<1> DEFINE through == body - aside
<1>13. old.debug => copied = IF old.kind = "HTTP" /\ CaptureLimit < through
                               THEN CaptureLimit ELSE through
  <2> SUFFICES ASSUME old.debug
               PROVE  copied = IF old.kind = "HTTP" /\ CaptureLimit < through
                                 THEN CaptureLimit ELSE through
    OBVIOUS
  <2>1. through = (old.body - old.aside) + (n - lost)
    BY <1>7, <1>11
  <2>2. old.captured = IF old.kind = "HTTP" /\ CaptureLimit < old.body - old.aside
                         THEN CaptureLimit ELSE old.body - old.aside
    BY <1>7 DEF Tellable
  <2>3. CASE old.kind = "HTTP"
    BY <1>7, <1>11, <1>12, <2>1, <2>2, <2>3
  <2>4. CASE old.kind # "HTTP"
    BY <1>7, <1>11, <1>12, <2>1, <2>2, <2>4
  <2> QED
    BY <2>3, <2>4
<1>14. reached = IF old.skipped THEN "done" ELSE "logging"
  OBVIOUS
<1> HIDE DEF copied, body, aside, reached
<1>3. /\ call.at = reached
      /\ call.body = body /\ call.aside = aside /\ call.captured = copied
      /\ call.kind = old.kind
      /\ call.span = old.span /\ call.headers = old.headers
      /\ call.debug = old.debug /\ call.quiet = old.quiet
      /\ call.skipped = old.skipped /\ call.relevelled = old.relevelled
      /\ call \in Call
  BY <1>0, <1>1, <1>8 DEF CallInvariant, Call
<1> HIDE DEF call
<1>4. call \in Call /\ AsFound(call)
  BY <1>0, <1>1, <1>3, <1>8 DEF CallInvariant, AsFound
<1>9. Carried(call)
  <2>1. call.debug => call.captured = Tellable(call)
    BY <1>3, <1>13 DEF Tellable
  <2>2. \A h \in call.headers : h.trace = call.span
    BY <1>0, <1>3 DEF CallInvariant, Carried
  <2> QED
    BY <1>3, <1>8, <1>14, <2>1, <2>2 DEF Carried
<1>5. entries[c] = {}
  BY <1>0, <1>1 DEF CallInvariant, Told
<1>15. call.skipped \/ call.at = "logging"
  BY <1>3, <1>14
<1>6. Told(call, entries[c])
  BY <1>3, <1>5, <1>8, <1>15 DEF Told
<1> QED
  BY <1>1, <1>2, <1>4, <1>6, <1>9, OneCallMoves DEF CallInvariant

LEMMA PanicsKeeps ==
  ASSUME InterceptorInvariant, NEW c \in Calls, Panics(c)
  PROVE  InterceptorInvariant'
<1> DEFINE call == [calls[c] EXCEPT !.status = "Internal", !.at = "recovered"]
<1>1. /\ calls[c].at = "serving" /\ calls' = [calls EXCEPT ![c] = call]
      /\ entries' = [entries EXCEPT ![c] = @ \cup {PanicEntry}] /\ UNCHANGED logLevel
  BY DEF Panics, Become
<1>2. CallInvariant(calls[c], entries[c])
  BY DEF InterceptorInvariant
<1>3. entries[c] = {} /\ entries' = [entries EXCEPT ![c] = {PanicEntry}]
  BY <1>1, <1>2 DEF CallInvariant, Told
<1>4. /\ call.at = "recovered" /\ call.headers = calls[c].headers /\ call.span = calls[c].span
      /\ call.body = calls[c].body /\ call.aside = calls[c].aside /\ call.captured = calls[c].captured
      /\ call.debug = calls[c].debug /\ call.kind = calls[c].kind
      /\ call \in Call
  BY <1>1, <1>2 DEF CallInvariant, Call
<1> HIDE DEF call
<1>5. Carried(call) /\ AsFound(call) /\ Told(call, {PanicEntry})
  BY <1>2, <1>4 DEF CallInvariant, Carried, Tellable, AsFound, Told
<1> QED
  BY <1>1, <1>3, <1>4, <1>5, OneCallMoves DEF CallInvariant

LEMMA LogEntryKeeps ==
  ASSUME InterceptorInvariant, NEW c \in Calls, LogEntry(c)
  PROVE  InterceptorInvariant'
<1> DEFINE call == [calls[c] EXCEPT !.at = "done"]
           level == IF calls[c].debug THEN "debug" ELSE "info"
           told == IF Logs(level) THEN {EntryOf(call)} ELSE {}
<1>1. /\ calls[c].at = "logging" /\ calls' = [calls EXCEPT ![c] = call]
      /\ entries' = [entries EXCEPT ![c] = IF Logs(level) THEN @ \cup {Entry(c)} ELSE @]
      /\ UNCHANGED logLevel
  BY DEF LogEntry, Become
<1>2. CallInvariant(calls[c], entries[c])
  BY DEF InterceptorInvariant
<1>3. /\ call.at = "done" /\ call.headers = calls[c].headers /\ call.span = calls[c].span
      /\ call.body = calls[c].body /\ call.aside = calls[c].aside /\ call.captured = calls[c].captured
      /\ call.kind = calls[c].kind /\ call.status = calls[c].status
      /\ call.debug = calls[c].debug /\ call.quiet = calls[c].quiet
      /\ call.skipped = calls[c].skipped /\ call.relevelled = calls[c].relevelled
      /\ call \in Call
  BY <1>1, <1>2 DEF CallInvariant, Call
<1>4. Entry(c) = EntryOf(call)
  BY <1>3 DEF Entry, EntryOf
<1>5. entries[c] = {}
  BY <1>1, <1>2 DEF CallInvariant, Told
<1>6. entries' = [entries EXCEPT ![c] = told]
  BY <1>1, <1>4, <1>5
<1>7. ~call.quiet /\ ~call.relevelled => Logs(level)
  BY <1>1, <1>2, <1>3 DEF CallInvariant, AsFound
<1>8. ~call.skipped
  BY <1>1, <1>2, <1>3 DEF CallInvariant, Carried, Tellable
<1> HIDE DEF call, level
<1>9. Told(call, told)
  BY <1>3, <1>7, <1>8 DEF Told
<1>10. Carried(call) /\ AsFound(call)
  BY <1>2, <1>3 DEF CallInvariant, Carried, Tellable, AsFound
<1> HIDE DEF told
<1> QED
  BY <1>1, <1>3, <1>6, <1>9, <1>10, OneCallMoves DEF CallInvariant

\* A new level marks the calls that are served under it.
LEMMA RelevelKeeps ==
  ASSUME InterceptorInvariant, Relevel
  PROVE  InterceptorInvariant'
<1>1. /\ calls' = [c \in Calls |-> [calls[c] EXCEPT
                    !.relevelled = @ \/ calls[c].at \in {"serving", "logging"}]]
      /\ UNCHANGED entries
  BY DEF Relevel
<1> SUFFICES ASSUME NEW c \in Calls
             PROVE  CallInvariant(calls[c], entries[c])'
  BY <1>1 DEF InterceptorInvariant
<1> DEFINE marked == calls[c].relevelled \/ calls[c].at \in {"serving", "logging"}
           call == [calls[c] EXCEPT !.relevelled = marked]
<1>2. calls'[c] = call /\ entries'[c] = entries[c]
  BY <1>1
<1>3. CallInvariant(calls[c], entries[c])
  BY DEF InterceptorInvariant
<1>4. /\ call.at = calls[c].at /\ call.headers = calls[c].headers /\ call.span = calls[c].span
      /\ call.body = calls[c].body /\ call.aside = calls[c].aside /\ call.captured = calls[c].captured
      /\ call.kind = calls[c].kind /\ call.status = calls[c].status
      /\ call.debug = calls[c].debug /\ call.quiet = calls[c].quiet
      /\ call.skipped = calls[c].skipped /\ call.relevelled = marked
      /\ call \in Call
  BY <1>3 DEF CallInvariant, Call
<1> HIDE DEF call
<1>5. Carried(call) /\ EntryOf(call) = EntryOf(calls[c])
  BY <1>3, <1>4 DEF CallInvariant, Carried, Tellable, EntryOf
<1>6. Told(call, entries[c])
  BY <1>3, <1>4, <1>5 DEF CallInvariant, Told
<1>7. ~(call.at \in {"serving", "logging"} /\ ~call.relevelled)
  BY <1>4
<1>8. (calls[c] \in Call)' /\ Carried(calls[c])' /\ Told(calls[c], entries[c])'
  BY <1>2, <1>4, <1>5, <1>6 DEF Carried, Tellable, Told
<1>9. AsFound(calls[c])'
  BY <1>2, <1>7 DEF AsFound
<1> QED
  BY <1>8, <1>9 DEF CallInvariant

\* The invariant of each call is kept by every step of any.
LEMMA InterceptorInvariance == InterceptorSpec => []InterceptorInvariant
<1>1. InterceptorInit => InterceptorInvariant
  <2> SUFFICES ASSUME InterceptorInit, NEW c \in Calls
               PROVE  CallInvariant(NoCall, {})
    BY DEF InterceptorInit, InterceptorInvariant
  <2>1. NoCall \in Call
    BY DEF NoCall, Call
  <2>2. Carried(NoCall) /\ AsFound(NoCall) /\ Told(NoCall, {})
    BY InterceptorsAssumption DEF NoCall, Carried, Tellable, AsFound, Told
  <2> QED
    BY <2>1, <2>2 DEF CallInvariant
<1>2. InterceptorInvariant /\ [InterceptorNext]_interceptorVars => InterceptorInvariant'
  <2> SUFFICES ASSUME InterceptorInvariant, [InterceptorNext]_interceptorVars
               PROVE  InterceptorInvariant'
    OBVIOUS
  <2>1. CASE Relevel
    BY <2>1, RelevelKeeps
  <2>2. ASSUME NEW c \in Calls, NEW path \in Paths, NEW method \in Methods, NEW span \in 0..1,
               NEW mode \in InjectModes, NEW custom \in CustomHeaders,
               Enter(c, "HTTP", path, method, span, mode, custom, 0, 0)
        PROVE  InterceptorInvariant'
    <3>1. 0 \in Nat /\ 0 <= 0
      OBVIOUS
    <3> QED
      BY <2>2, <3>1, EnterKeeps
  <2>3. ASSUME NEW c \in Calls, NEW span \in 0..1,
               NEW mode \in InjectModes, NEW custom \in CustomHeaders,
               NEW n \in MessageSizes, NEW lost \in {0, n},
               Enter(c, "gRPC", <<>>, "", span, mode, custom, n, lost)
        PROVE  InterceptorInvariant'
    <3>1. n \in Nat /\ lost \in Nat /\ lost <= n
      BY InterceptorsAssumption
    <3> QED
      BY <2>3, <3>1, EnterKeeps
  <2>4. ASSUME NEW c \in Calls, NEW n \in 1..MaxWrite, WriteBody(c, n) \/ WriteString(c, n)
        PROVE  InterceptorInvariant'
    <3>1. n \in Nat
      BY InterceptorsAssumption
    <3> QED
      BY <2>4, <3>1, WritesKeep
  <2>5. ASSUME NEW c \in Calls, NEW status \in {"OK", "ERROR"}, calls[c].kind = "HTTP",
               Return(c, status, 0, 0)
        PROVE  InterceptorInvariant'
    <3>1. 0 \in Nat /\ 0 <= 0
      OBVIOUS
    <3> QED
      BY <2>5, <3>1, ReturnKeeps
  <2>8. ASSUME NEW c \in Calls, NEW status \in {"OK", "ERROR"}, calls[c].kind = "gRPC",
               NEW n \in MessageSizes \cup {0}, NEW lost \in {0, n}, Return(c, status, n, lost)
        PROVE  InterceptorInvariant'
    <3>1. n \in Nat /\ lost \in Nat /\ lost <= n
      BY InterceptorsAssumption
    <3> QED
      BY <2>8, <3>1, ReturnKeeps
  <2>6. ASSUME NEW c \in Calls, Panics(c) \/ LogEntry(c)
        PROVE  InterceptorInvariant'
    BY <2>6, PanicsKeeps, LogEntryKeeps
  <2>7. CASE UNCHANGED interceptorVars
    BY <2>7 DEF interceptorVars, InterceptorInvariant, CallInvariant, Carried, Tellable, AsFound,
                Told, Logs
  <2> QED
    BY <2>1, <2>2, <2>3, <2>4, <2>5, <2>6, <2>7, <2>8 DEF InterceptorNext
<1> QED
  BY <1>1, <1>2, PTL DEF InterceptorSpec

\* The log tells of every call that it should what became of it, once and with
\* the trace of its headers, whatever the others do and however the level
\* changes (observability.go and recovery.go of the middlewares).
THEOREM LogTellsEveryCall == InterceptorSpec => []LogTellsTheCall
<1>1. InterceptorInvariant => LogTellsTheCall
  <2> SUFFICES ASSUME InterceptorInvariant, NEW c \in Calls
               PROVE  /\ calls[c].skipped \/ calls[c].at = "recovered" => LogEntries(c) = {}
                      /\ calls[c].at = "recovered" <=> PanicEntry \in entries[c]
                      /\ calls[c].at = "done" /\ ~calls[c].skipped /\ ~calls[c].quiet
                           /\ ~calls[c].relevelled =>
                         \E e \in LogEntries(c) :
                           /\ LogEntries(c) = {e}
                           /\ e.status = calls[c].status
                           /\ \A h \in calls[c].headers : h.trace = e.trace
                           /\ \/ {"method", "status"} \subseteq e.told
                              \/ calls[c].kind = "gRPC" /\ calls[c].debug
                           /\ calls[c].debug => e.body = Tellable(calls[c])
    BY DEF LogTellsTheCall
  <2>1. CallInvariant(calls[c], entries[c])
    BY DEF InterceptorInvariant
  <2>2. EntryOf(calls[c]) # PanicEntry
    BY EntryIsNoPanic
  <2>3. calls[c].at = "recovered" <=> PanicEntry \in entries[c]
    BY <2>1, <2>2 DEF CallInvariant, Told
  <2>4. calls[c].skipped \/ calls[c].at = "recovered" => LogEntries(c) = {}
    BY <2>1 DEF CallInvariant, Told, LogEntries
  <2>5. ASSUME calls[c].at = "done", ~calls[c].skipped, ~calls[c].quiet, ~calls[c].relevelled
        PROVE  LogEntries(c) = {EntryOf(calls[c])}
    BY <2>1, <2>2, <2>5 DEF CallInvariant, Told, LogEntries
  <2>6. /\ EntryOf(calls[c]).status = calls[c].status
        /\ EntryOf(calls[c]).trace = calls[c].span
        /\ EntryOf(calls[c]).body = calls[c].captured
        /\ \/ {"method", "status"} \subseteq EntryOf(calls[c]).told
           \/ calls[c].kind = "gRPC" /\ calls[c].debug
    BY DEF EntryOf
  <2> QED
    BY <2>1, <2>3, <2>4, <2>5, <2>6 DEF CallInvariant, Carried
<1> QED
  BY <1>1, InterceptorInvariance, PTL

-----------------------------------------------------------------------------
(* Skipped calls                                                           *)

\* A wildcard of a pattern.
Wild(p, j) == p[j] = Star /\ j \in {1, Len(p)}

\* Reach recurs: what a character adds to what the ones before it reach.
LEMMA ReachIs ==
  ASSUME NEW text \in Seq(Chars), NEW p \in Seq(Chars)
  PROVE  LET R == Reach(text, p) IN
         /\ R[0] = {0}
         /\ \A j \in 1..Len(p) :
              R[j] = IF Wild(p, j) THEN {i \in 0..Len(text) : \E k \in R[j - 1] : k <= i}
                     ELSE {i \in 1..Len(text) : i - 1 \in R[j - 1] /\ text[i] = p[j]}
<1> DEFINE L == Len(text)
           n == Len(p)
           S == SUBSET (0..L)
           Next(j, x) == IF Wild(p, j) THEN {i \in 0..L : \E k \in x : k <= i}
                         ELSE {i \in 1..L : i - 1 \in x /\ text[i] = p[j]}
           step == [j \in Nat |-> [x \in S |-> Next(j + 1, x)]]
<1>1. L \in Nat /\ n \in Nat
  BY LenProperties
<1>2. \A j, x : Next(j, x) \in S
  BY <1>1
<1> HIDE DEF Next
<1>3. step \in Steps(S)
  BY <1>2 DEF Steps
<1>4. {0} \in S
  BY <1>1
<1>5. \E f : Iterates(f, S, {0}, step)
  <2> HIDE DEF step, S
  <2> QED
    BY <1>3, <1>4, IterationExists
<1>6. PICK f \in [Nat -> S] : f[0] = {0} /\ \A j \in Nat : f[j + 1] = Next(j + 1, f[j])
  BY <1>5 DEF Iterates
<1> DEFINE g == [j \in 0..n |-> f[j]]
<1>7. \A j \in 0..n : g[j] = IF j = 0 THEN {0} ELSE Next(j, g[j - 1])
  <2> TAKE j \in 0..n
  <2>1. CASE j = 0
    BY <1>6, <2>1
  <2>2. CASE j # 0
    <3>1. j - 1 \in Nat /\ j - 1 \in 0..n /\ (j - 1) + 1 = j
      BY <1>1, <2>2
    <3>2. g[j - 1] = f[j - 1] /\ g[j] = f[j]
      BY <3>1
    <3>3. f[(j - 1) + 1] = Next((j - 1) + 1, f[j - 1])
      BY <1>6, <3>1
    <3> QED
      BY <2>2, <3>1, <3>2, <3>3
  <2> QED
    BY <2>1, <2>2
<1>8. g = [j \in 0..n |-> g[j]]
  OBVIOUS
<1> HIDE DEF g
<1>9. g = [j \in 0..n |-> IF j = 0 THEN {0} ELSE Next(j, g[j - 1])]
  BY <1>7, <1>8, Zenon
<1>10. g = [j \in 0..Len(p) |->
             IF j = 0 THEN {0}
             ELSE IF p[j] = Star /\ j \in {1, Len(p)}
                    THEN {i \in 0..Len(text) : \E k \in g[j - 1] : k <= i}
                    ELSE {i \in 1..Len(text) : i - 1 \in g[j - 1] /\ text[i] = p[j]}]
  BY ONLY <1>9, Zenon DEF Next, Wild, n, L
<1> DEFINE R == Reach(text, p)
<1>11. R = [j \in 0..Len(p) |->
             IF j = 0 THEN {0}
             ELSE IF p[j] = Star /\ j \in {1, Len(p)}
                    THEN {i \in 0..Len(text) : \E k \in R[j - 1] : k <= i}
                    ELSE {i \in 1..Len(text) : i - 1 \in R[j - 1] /\ text[i] = p[j]}]
  BY ONLY <1>10, Zenon DEF Reach
<1> HIDE DEF R
<1>12. R = [j \in 0..n |-> IF j = 0 THEN {0} ELSE Next(j, R[j - 1])]
  BY ONLY <1>11, Zenon DEF Next, Wild, n, L
<1>13. 0 \in 0..n /\ \A j \in 1..n : j \in 0..n /\ j # 0
  BY <1>1
<1>14. R[0] = {0} /\ \A j \in 1..n : R[j] = Next(j, R[j - 1])
  BY ONLY <1>12, <1>13, Zenon
<1> QED
  BY ONLY <1>14, Zenon DEF Next, n, L, R

\* A part of the text that is the m characters of the pattern behind the first s.
Stands(text, off, p, s, m) == \A k \in 1..m : text[off + k] = p[s + k]

Copied(text, p, s, m) ==
  {i \in 0..Len(text) :
     i >= m /\ i - m \in Reach(text, p)[s] /\ Stands(text, i - m, p, s, m)}

\* m characters without a wildcard stand for themselves.
LEMMA ReachOfLiterals ==
  ASSUME NEW text \in Seq(Chars), NEW p \in Seq(Chars), NEW s \in Nat, NEW m \in Nat,
         s + m <= Len(p), \A j \in (s + 1)..(s + m) : ~Wild(p, j)
  PROVE  Reach(text, p)[s + m] = Copied(text, p, s, m)
<1> DEFINE R == Reach(text, p)
           L == Len(text)
           n == Len(p)
           Run(d) == {i \in 0..L : i >= d /\ i - d \in R[s] /\ Stands(text, i - d, p, s, d)}
           T == {d \in Nat : d <= m => R[s + d] = Run(d)}
<1>1. L \in Nat /\ n \in Nat
  BY LenProperties
<1>2. /\ R[0] = {0}
      /\ \A j \in 1..n : R[j] = IF Wild(p, j) THEN {i \in 0..L : \E k \in R[j - 1] : k <= i}
                                ELSE {i \in 1..L : i - 1 \in R[j - 1] /\ text[i] = p[j]}
  BY ReachIs, Zenon
<1> HIDE DEF R, L, n
<1>3. R[s] \subseteq 0..L
  <2>1. CASE s = 0
    BY <1>1, <1>2, <2>1
  <2>2. CASE s # 0
    <3>1. s \in 1..n
      BY <1>1, <2>2 DEF n
    <3>2. \/ R[s] = {i \in 0..L : \E k \in R[s - 1] : k <= i}
          \/ R[s] = {i \in 1..L : i - 1 \in R[s - 1] /\ text[i] = p[s]}
      BY <1>2, <3>1, Zenon
    <3>3. 1..L \subseteq 0..L
      BY <1>1
    <3> QED
      BY ONLY <3>2, <3>3
  <2> QED
    BY <2>1, <2>2
<1>4. 0 \in T
  <2>1. \A i \in Nat : Stands(text, i, p, s, 0)
    BY DEF Stands
  <2>2. \A i \in 0..L : i \in Nat /\ i >= 0 /\ i - 0 = i
    BY <1>1
  <2>3. s + 0 = s
    OBVIOUS
  <2>4. Run(0) = R[s]
    BY <1>3, <2>1, <2>2
  <2> QED
    BY <2>3, <2>4
<1>5. ASSUME NEW d \in Nat, d \in T
      PROVE  d + 1 \in T
  <2>1. d + 1 \in Nat /\ (d + 1 <= m => d <= m)
    OBVIOUS
  <2>2. ASSUME d + 1 <= m
        PROVE  R[s + (d + 1)] = Run(d + 1)
    <3>2. R[s + d] = Run(d)
      <4> HIDE DEF Run
      <4> QED
        BY ONLY <1>5, <2>1, <2>2
    <3>3. s + (d + 1) \in 1..n /\ ~Wild(p, s + (d + 1)) /\ (s + (d + 1)) - 1 = s + d
      BY <1>1, <2>2 DEF n
    <3>4. R[s + (d + 1)] = {i \in 1..L : i - 1 \in Run(d) /\ text[i] = p[s + (d + 1)]}
      BY <1>2, <3>3, <3>2
    <3>5. ASSUME NEW i \in 1..L
          PROVE  i - 1 \in Run(d) /\ text[i] = p[s + (d + 1)] <=> i \in Run(d + 1)
      <4>1. i - (d + 1) = (i - 1) - d /\ i - 1 \in 0..L /\ i \in 0..L
            /\ (i - 1 >= d <=> i >= d + 1) /\ i - (d + 1) \in Int
            /\ (i - (d + 1)) + (d + 1) = i
        BY <1>1
      <4> DEFINE off == i - (d + 1)
      <4>2. Stands(text, off, p, s, d + 1) <=>
              Stands(text, off, p, s, d) /\ text[i] = p[s + (d + 1)]
        <5>1. 1..(d + 1) = 1..d \cup {d + 1}
          OBVIOUS
        <5>2. off + (d + 1) = i
          BY <4>1
        <5> HIDE DEF off
        <5> QED
          BY <5>1, <5>2 DEF Stands
      <4> QED
        BY <4>1, <4>2
    <3>6. \A i \in Run(d + 1) : i \in 1..L
      BY <1>1
    <3> HIDE DEF Run
    <3> QED
      BY <3>4, <3>5, <3>6
  <2> HIDE DEF Run
  <2> QED
    BY ONLY <2>1, <2>2
<1> HIDE DEF T
<1>6. m \in T
  BY <1>4, <1>5, SetInduction
<1>7. R[s + m] = Run(m)
  BY <1>6 DEF T
<1> QED
  BY ONLY <1>7, Zenon DEF Copied, R, L

-----------------------------------------------------------------------------
(* The matchers of the code *)

\* A part of a sequence, character by character.
LEMMA PartIs ==
  ASSUME NEW s \in Seq(Chars), NEW a \in Int, NEW b \in Int, 1 <= a, b <= Len(s), a <= b + 1
  PROVE  /\ SubSeq(s, a, b) \in Seq(Chars)
         /\ Len(SubSeq(s, a, b)) = b - a + 1
         /\ \A k \in 1..(b - a + 1) : SubSeq(s, a, b)[k] = s[a + k - 1]
<1>1. \A k \in a..b : s[k] \in Chars
  <2>1. Len(s) \in Nat
    BY LenProperties
  <2>2. \A k \in a..b : k \in 1..Len(s)
    BY <2>1
  <2> QED
    BY <2>2, ElementOfSeq
<1>2. /\ SubSeq(s, a, b) \in Seq(Chars)
      /\ Len(SubSeq(s, a, b)) = IF a <= b THEN b - a + 1 ELSE 0
      /\ \A k \in 1..(b - a + 1) : SubSeq(s, a, b)[k] = s[a + k - 1]
  BY ONLY <1>1, a \in Int, b \in Int, SubSeqProperties
<1>3. (IF a <= b THEN b - a + 1 ELSE 0) = b - a + 1
  OBVIOUS
<1> QED
  BY ONLY <1>2, <1>3

\* strings.HasPrefix with a part of the pattern.
LEMMA StartsIs ==
  ASSUME NEW text \in Seq(Chars), NEW p \in Seq(Chars), NEW s \in Nat, NEW m \in Nat,
         s + m <= Len(p)
  PROVE  StartsWith(text, SubSeq(p, s + 1, s + m)) <=>
           m <= Len(text) /\ Stands(text, 0, p, s, m)
<1> DEFINE part == SubSeq(p, s + 1, s + m)
           head == SubSeq(text, 1, m)
<1>1. Len(text) \in Nat /\ Len(p) \in Nat
  BY LenProperties
<1>2. part \in Seq(Chars) /\ Len(part) = m /\ \A k \in 1..m : part[k] = p[s + k]
  <2>1. /\ part \in Seq(Chars) /\ Len(part) = (s + m) - (s + 1) + 1
        /\ \A k \in 1..((s + m) - (s + 1) + 1) : part[k] = p[(s + 1) + k - 1]
    BY <1>1, PartIs
  <2>2. (s + m) - (s + 1) + 1 = m /\ \A k \in 1..m : (s + 1) + k - 1 = s + k
    OBVIOUS
  <2> HIDE DEF part
  <2> QED
    BY <2>1, <2>2
<1> HIDE DEF part
<1>3. ASSUME m <= Len(text)
      PROVE  head = part <=> Stands(text, 0, p, s, m)
  <2>1. head \in Seq(Chars) /\ Len(head) = m /\ \A k \in 1..m : head[k] = text[k]
    <3>1. /\ head \in Seq(Chars) /\ Len(head) = m - 1 + 1
          /\ \A k \in 1..(m - 1 + 1) : head[k] = text[1 + k - 1]
      BY <1>1, <1>3, PartIs
    <3>2. m - 1 + 1 = m /\ \A k \in 1..m : 1 + k - 1 = k
      OBVIOUS
    <3> HIDE DEF head
    <3> QED
      BY <3>1, <3>2
  <2> HIDE DEF head
  <2>2. Stands(text, 0, p, s, m) <=> \A k \in 1..m : head[k] = part[k]
    <3>1. \A k \in 1..m : 0 + k = k
      OBVIOUS
    <3> QED
      BY <1>2, <2>1, <3>1 DEF Stands
  <2>3. (\A k \in 1..m : head[k] = part[k]) <=> head = part
    BY ONLY <1>2, <2>1, SeqEqual, Zenon
  <2> QED
    BY <2>2, <2>3
<1> QED
  BY <1>2, <1>3 DEF StartsWith, part, head

\* strings.HasSuffix with a part of the pattern.
LEMMA EndsIs ==
  ASSUME NEW text \in Seq(Chars), NEW p \in Seq(Chars), NEW s \in Nat, NEW m \in Nat,
         s + m <= Len(p)
  PROVE  Ends(text, SubSeq(p, s + 1, s + m)) <=>
           m <= Len(text) /\ Stands(text, Len(text) - m, p, s, m)
<1> DEFINE L == Len(text)
           part == SubSeq(p, s + 1, s + m)
           tail == SubSeq(text, L - m + 1, L)
<1>1. L \in Nat /\ Len(p) \in Nat
  BY LenProperties
<1>2. part \in Seq(Chars) /\ Len(part) = m /\ \A k \in 1..m : part[k] = p[s + k]
  <2>1. /\ part \in Seq(Chars) /\ Len(part) = (s + m) - (s + 1) + 1
        /\ \A k \in 1..((s + m) - (s + 1) + 1) : part[k] = p[(s + 1) + k - 1]
    BY <1>1, PartIs
  <2>2. (s + m) - (s + 1) + 1 = m /\ \A k \in 1..m : (s + 1) + k - 1 = s + k
    OBVIOUS
  <2> HIDE DEF part
  <2> QED
    BY <2>1, <2>2
<1> HIDE DEF part
<1>3. ASSUME m <= L
      PROVE  tail = part <=> Stands(text, L - m, p, s, m)
  <2>1. tail \in Seq(Chars) /\ Len(tail) = m /\ \A k \in 1..m : tail[k] = text[(L - m) + k]
    <3> DEFINE a == L - m + 1
    <3>1. a \in Int /\ L \in Int /\ 1 <= a /\ L <= Len(text) /\ a <= L + 1
      BY <1>1, <1>3
    <3>2. L - a + 1 = m /\ \A k \in 1..m : a + k - 1 = (L - m) + k
      BY <1>1
    <3> HIDE DEF a, L
    <3>3. /\ SubSeq(text, a, L) \in Seq(Chars) /\ Len(SubSeq(text, a, L)) = L - a + 1
          /\ \A k \in 1..(L - a + 1) : SubSeq(text, a, L)[k] = text[a + k - 1]
      BY ONLY text \in Seq(Chars), <3>1, PartIs
    <3>4. tail = SubSeq(text, a, L)
      BY DEF a
    <3> HIDE DEF tail
    <3> QED
      BY ONLY <3>2, <3>3, <3>4
  <2> HIDE DEF tail, L
  <2>2. Stands(text, L - m, p, s, m) <=> \A k \in 1..m : tail[k] = part[k]
    BY <1>2, <2>1 DEF Stands
  <2>3. (\A k \in 1..m : tail[k] = part[k]) <=> tail = part
    BY ONLY <1>2, <2>1, SeqEqual, Zenon
  <2> QED
    BY <2>2, <2>3
<1> QED
  BY <1>2, <1>3 DEF Ends, part, tail

\* strings.Contains with a part of the pattern.
LEMMA HasIs ==
  ASSUME NEW text \in Seq(Chars), NEW p \in Seq(Chars), NEW s \in Nat, NEW m \in Nat,
         s + m <= Len(p)
  PROVE  Has(text, SubSeq(p, s + 1, s + m)) <=>
           \E off \in 0..Len(text) : off + m <= Len(text) /\ Stands(text, off, p, s, m)
<1> DEFINE L == Len(text)
           part == SubSeq(p, s + 1, s + m)
<1>1. L \in Nat
  BY LenProperties
<1>2. ASSUME NEW i \in 1..(L + 1)
      PROVE  StartsWith(SubSeq(text, i, L), part) <=>
               (i - 1) + m <= L /\ Stands(text, i - 1, p, s, m)
  <2> DEFINE t == SubSeq(text, i, L)
  <2>1. t \in Seq(Chars) /\ Len(t) = L - i + 1 /\ \A k \in 1..(L - i + 1) : t[k] = text[i + k - 1]
    BY <1>1, PartIs
  <2> HIDE DEF t
  <2>2. StartsWith(t, part) <=> m <= Len(t) /\ Stands(t, 0, p, s, m)
    BY <2>1, StartsIs
  <2>3. m <= Len(t) <=> (i - 1) + m <= L
    BY <1>1, <2>1
  <2>4. ASSUME m <= Len(t)
        PROVE  Stands(t, 0, p, s, m) <=> Stands(text, i - 1, p, s, m)
    <3>1. \A k \in 1..m : k \in 1..(L - i + 1) /\ 0 + k = k /\ i + k - 1 = (i - 1) + k
      BY <1>1, <2>1, <2>4
    <3> QED
      BY <2>1, <3>1 DEF Stands
  <2> HIDE DEF L, part
  <2>5. StartsWith(t, part) <=> (i - 1) + m <= L /\ Stands(text, i - 1, p, s, m)
    BY ONLY <2>2, <2>3, <2>4
  <2> QED
    BY ONLY <2>5, Zenon DEF t
<1>3. Has(text, part) <=> \E i \in 1..(L + 1) : StartsWith(SubSeq(text, i, L), part)
  BY Zenon DEF Has
<1> HIDE DEF part
<1>4. (\E i \in 1..(L + 1) : (i - 1) + m <= L /\ Stands(text, i - 1, p, s, m)) <=>
        \E off \in 0..L : off + m <= L /\ Stands(text, off, p, s, m)
  <2>1. \A i \in 1..(L + 1) : i - 1 \in 0..L
    BY <1>1
  <2>2. \A off \in 0..L : off + 1 \in 1..(L + 1) /\ (off + 1) - 1 = off
    BY <1>1
  <2> QED
    BY <2>1, <2>2
<1> QED
  BY ONLY <1>2, <1>3, <1>4 DEF part, L

\* The patterns and the matchers of the code say the same.
LEMMA GlobIsMatch ==
  ASSUME NEW text \in Seq(Chars), NEW p \in Seq(Chars)
  PROVE  Glob(text, p) <=>
           \/ text = p
           \/ (\E i \in DOMAIN p : p[i] = Star) /\ MatchWildcard(text, p)
<1> DEFINE R == Reach(text, p)
           L == Len(text)
           n == Len(p)
<1>1. L \in Nat /\ n \in Nat /\ DOMAIN p = 1..n
  BY LenProperties
<1>2. /\ R[0] = {0}
      /\ \A j \in 1..n : R[j] = IF Wild(p, j) THEN {i \in 0..L : \E k \in R[j - 1] : k <= i}
                                ELSE {i \in 1..L : i - 1 \in R[j - 1] /\ text[i] = p[j]}
  BY ReachIs, Zenon
<1>3. Glob(text, p) <=> L \in R[n]
  BY DEF Glob
<1>4. ASSUME NEW s \in Nat, NEW m \in Nat, s + m <= n, \A j \in (s + 1)..(s + m) : ~Wild(p, j)
      PROVE  R[s + m] = {i \in 0..L : i >= m /\ i - m \in R[s] /\ Stands(text, i - m, p, s, m)}
  <2>1. s + m <= Len(p) /\ \A j \in (s + 1)..(s + m) : ~Wild(p, j)
    BY <1>4
  <2>2. Reach(text, p)[s + m] = Copied(text, p, s, m)
    BY <2>1, ReachOfLiterals
  <2> QED
    BY ONLY <2>2, Zenon DEF Copied
<1>5. text = p <=> L = n /\ Stands(text, 0, p, 0, n)
  <2>1. \A k \in 1..n : 0 + k = k
    OBVIOUS
  <2>2. Stands(text, 0, p, 0, n) <=> \A k \in 1..n : text[k] = p[k]
    BY <2>1 DEF Stands
  <2>3. L = n /\ (\A k \in 1..n : text[k] = p[k]) => text = p
    BY SeqEqual
  <2>4. text = p => L = n /\ (\A k \in 1..n : text[k] = p[k])
    OBVIOUS
  <2> HIDE DEF L, n
  <2> QED
    BY <2>2, <2>3, <2>4
<1>6. \A j : Wild(p, j) <=> p[j] = Star /\ j \in {1, n}
  BY DEF Wild
<1> HIDE DEF R, L, n
<1>7. CASE n = 0
  BY ONLY <1>1, <1>2, <1>3, <1>5, <1>7 DEF Stands
<1>8. CASE n > 0 /\ p[1] # Star /\ p[n] # Star
  <2>1. R[n] = {i \in 0..L : i >= n /\ i - n \in R[0] /\ Stands(text, i - n, p, 0, n)}
    <3>1. 0 + n = n /\ 0 + n <= n /\ \A j \in (0 + 1)..(0 + n) : ~Wild(p, j)
      BY <1>1, <1>6, <1>8
    <3>2. 0 \in Nat
      OBVIOUS
    <3> QED
      BY ONLY <1>1, <1>4, <3>1, <3>2
  <2>2. L \in R[n] <=> L = n /\ Stands(text, 0, p, 0, n)
    <3>1. L \in 0..L /\ (L >= n /\ L - n = 0 <=> L = n)
      BY <1>1
    <3>2. L \in R[n] <=> L = n /\ Stands(text, L - n, p, 0, n)
      BY ONLY <1>2, <2>1, <3>1
    <3>3. L = n => L - n = 0
      BY <1>1
    <3> QED
      BY ONLY <3>2, <3>3
  <2>3. ~MatchWildcard(text, p)
    <3>1. Head(p) = p[1]
      BY <1>1, <1>8 DEF n
    <3>2. p # <<Star>>
      BY <1>8
    <3> QED
      BY ONLY <1>8, <3>1, <3>2 DEF MatchWildcard, n
  <2> QED
    BY ONLY <1>3, <1>5, <2>2, <2>3
<1>9. CASE n > 0 /\ p[1] # Star /\ p[n] = Star
  <2> DEFINE m == n - 1
  <2>1. /\ n > 1 /\ m \in Nat /\ 0 \in Nat /\ 0 + m = m /\ 0 + m <= n /\ 0 + 1 = 1
        /\ \A j \in (0 + 1)..(0 + m) : ~Wild(p, j)
        /\ n \in 1..n /\ Wild(p, n)
    BY <1>1, <1>6, <1>9
  <2>2. R[m] = {i \in 0..L : i >= m /\ i - m \in R[0] /\ Stands(text, i - m, p, 0, m)}
    <3> HIDE DEF m
    <3> QED
      BY ONLY <1>4, <2>1
  <2>3. R[n] = {i \in 0..L : \E k \in R[m] : k <= i}
    BY <1>2, <2>1
  <2>4. L \in R[n] <=> m <= L /\ Stands(text, 0, p, 0, m)
    <3> HIDE DEF m
    <3>1. L \in R[n] <=> \E k \in 0..L : k = m /\ Stands(text, k - m, p, 0, m)
      <4>1. \A k \in 0..L : k <= L /\ (k >= m /\ k - m = 0 <=> k = m)
        BY <1>1, <2>1
      <4>2. L \in 0..L
        BY <1>1
      <4> QED
        BY ONLY <1>2, <2>2, <2>3, <4>1, <4>2
    <3>2. m - m = 0 /\ (m \in 0..L <=> m <= L)
      BY <1>1, <2>1
    <3> QED
      BY <3>1, <3>2
  <2>5. StartsWith(text, SubSeq(p, 1, m)) <=> m <= L /\ Stands(text, 0, p, 0, m)
    <3> HIDE DEF m
    <3>1. 0 + m <= Len(p)
      BY <2>1 DEF n
    <3>2. StartsWith(text, SubSeq(p, 0 + 1, 0 + m)) <=> m <= Len(text) /\ Stands(text, 0, p, 0, m)
      BY ONLY text \in Seq(Chars), p \in Seq(Chars), <2>1, <3>1, StartsIs
    <3> QED
      BY ONLY <2>1, <3>2 DEF L
  <2>6. MatchWildcard(text, p) <=> StartsWith(text, SubSeq(p, 1, m))
    <3>1. Head(p) = p[1]
      BY <1>1, <1>9 DEF n
    <3>2. p # <<Star>>
      BY <1>9
    <3> QED
      BY ONLY <1>9, <3>1, <3>2 DEF MatchWildcard, n, m
  <2>7. text = p => m <= L /\ Stands(text, 0, p, 0, m)
    <3>1. n \in Nat /\ m <= n /\ \A k \in 1..m : k \in 1..n
      BY <1>1
    <3> QED
      BY ONLY <1>5, <3>1 DEF Stands
  <2>8. \E i \in DOMAIN p : p[i] = Star
    BY <1>1, <1>9, <2>1
  <2> QED
    BY ONLY <1>3, <2>4, <2>5, <2>6, <2>7, <2>8
<1>10. CASE n = 1 /\ p[1] = Star
  <2>1. Wild(p, 1) /\ 1 \in 1..n /\ 1 - 1 = 0
    BY <1>6, <1>10
  <2>2. R[1] = {i \in 0..L : \E k \in R[0] : k <= i}
    BY <1>2, <2>1
  <2>3. L \in R[n]
    BY <1>1, <1>2, <1>10, <2>2
  <2>4. p = <<Star>>
    <3>1. <<Star>> \in Seq(Chars)
      BY InterceptorsAssumption
    <3>2. Len(p) = 1 /\ Len(<<Star>>) = 1 /\ \A i \in 1..1 : p[i] = <<Star>>[i]
      BY <1>10 DEF n
    <3> QED
      BY <3>1, <3>2, SeqEqual
  <2>5. MatchWildcard(text, p)
    BY ONLY <2>4 DEF MatchWildcard
  <2>6. \E i \in DOMAIN p : p[i] = Star
    BY <1>1, <1>10
  <2> QED
    BY ONLY <1>3, <2>3, <2>5, <2>6
<1>11. CASE n > 1 /\ p[1] = Star /\ p[n] # Star
  <2> DEFINE m == n - 1
  <2>1. /\ m \in Nat /\ 1 \in Nat /\ 1 + m = n /\ 1 + m <= n /\ 1 + 1 = 2
        /\ \A j \in (1 + 1)..(1 + m) : ~Wild(p, j)
        /\ Wild(p, 1) /\ 1 \in 1..n /\ 1 - 1 = 0 /\ n \in 1..n
    BY <1>1, <1>6, <1>11
  <2>2. R[1] = 0..L
    <3>1. R[1] = {i \in 0..L : \E k \in R[1 - 1] : k <= i}
      BY <1>2, <2>1, Zenon
    <3>2. R[1 - 1] = {0}
      BY ONLY <1>2, <2>1
    <3>3. \A i \in 0..L : 0 <= i
      BY <1>1
    <3> QED
      BY ONLY <3>1, <3>2, <3>3
  <2>3. R[n] = {i \in 0..L : i >= m /\ i - m \in 0..L /\ Stands(text, i - m, p, 1, m)}
    <3> HIDE DEF m
    <3>1. R[1 + m] = {i \in 0..L : i >= m /\ i - m \in R[1] /\ Stands(text, i - m, p, 1, m)}
      BY ONLY <1>4, <2>1, Zenon
    <3> QED
      BY ONLY <2>1, <2>2, <3>1
  <2>4. L \in R[n] <=> m <= L /\ Stands(text, L - m, p, 1, m)
    <3> HIDE DEF m
    <3>1. L \in 0..L /\ (L >= m /\ L - m \in 0..L <=> m <= L)
      BY <1>1, <2>1
    <3> QED
      BY ONLY <2>3, <3>1
  <2>5. Ends(text, SubSeq(p, 2, n)) <=> m <= L /\ Stands(text, L - m, p, 1, m)
    <3> HIDE DEF m
    <3>1. 1 + m <= Len(p)
      BY <2>1 DEF n
    <3>2. Ends(text, SubSeq(p, 1 + 1, 1 + m)) <=>
            m <= Len(text) /\ Stands(text, Len(text) - m, p, 1, m)
      BY ONLY text \in Seq(Chars), p \in Seq(Chars), <2>1, <3>1, EndsIs
    <3> QED
      BY ONLY <2>1, <3>2 DEF L
  <2>6. MatchWildcard(text, p) <=> Ends(text, SubSeq(p, 2, n))
    <3>1. Head(p) = p[1]
      BY <1>1, <1>11 DEF n
    <3>2. p # <<Star>>
      BY <1>11 DEF n
    <3> QED
      BY ONLY <1>11, <3>1, <3>2 DEF MatchWildcard, n
  <2>7. text = p => m <= L /\ Stands(text, L - m, p, 1, m)
    <3> SUFFICES ASSUME text = p
                 PROVE  m <= L /\ Stands(text, L - m, p, 1, m)
      OBVIOUS
    <3>1. L = n /\ \A k \in 1..n : text[k] = p[k]
      BY ONLY text = p DEF L, n
    <3>2. m <= n /\ n - m = 1 /\ \A k \in 1..m : 1 + k \in 1..n
      BY <1>1
    <3> HIDE DEF m
    <3> QED
      BY ONLY <3>1, <3>2 DEF Stands
  <2>8. \E i \in DOMAIN p : p[i] = Star
    BY <1>1, <1>11, <2>1
  <2> QED
    BY ONLY <1>3, <2>4, <2>5, <2>6, <2>7, <2>8
<1>12. CASE n > 1 /\ p[1] = Star /\ p[n] = Star
  <2> DEFINE m == n - 2
             d == n - 1
  <2>1. /\ m \in Nat /\ 1 \in Nat /\ 1 + m = d /\ 1 + m <= n /\ 1 + 1 = 2
        /\ \A j \in (1 + 1)..(1 + m) : ~Wild(p, j)
        /\ Wild(p, 1) /\ 1 \in 1..n /\ 1 - 1 = 0 /\ n \in 1..n /\ Wild(p, n)
    BY <1>1, <1>6, <1>12
  <2>2. R[1] = 0..L
    <3>1. R[1] = {i \in 0..L : \E k \in R[1 - 1] : k <= i}
      BY <1>2, <2>1, Zenon
    <3>2. R[1 - 1] = {0}
      BY ONLY <1>2, <2>1
    <3>3. \A i \in 0..L : 0 <= i
      BY <1>1
    <3> QED
      BY ONLY <3>1, <3>2, <3>3
  <2>3. R[d] = {i \in 0..L : i >= m /\ i - m \in 0..L /\ Stands(text, i - m, p, 1, m)}
    <3> HIDE DEF m, d
    <3>1. R[1 + m] = {i \in 0..L : i >= m /\ i - m \in R[1] /\ Stands(text, i - m, p, 1, m)}
      BY ONLY <1>4, <2>1, Zenon
    <3> QED
      BY ONLY <2>1, <2>2, <3>1
  <2>4. R[n] = {i \in 0..L : \E k \in R[d] : k <= i}
    BY ONLY <1>2, <2>1
  <2> HIDE DEF m, d
  <2>5. L \in R[n] <=> \E off \in 0..L : off + m <= L /\ Stands(text, off, p, 1, m)
    <3>1. L \in R[n] <=> \E k \in R[d] : TRUE
      <4>1. L \in 0..L /\ \A k \in 0..L : k <= L
        BY <1>1
      <4> QED
        BY ONLY <2>3, <2>4, <4>1
    <3>2. \A k \in 0..L : k >= m /\ k - m \in 0..L => (k - m) + m <= L
      BY <1>1, <2>1
    <3>3. \A off \in 0..L : off + m <= L =>
            off + m \in 0..L /\ off + m >= m /\ (off + m) - m = off
      BY <1>1, <2>1
    <3>4. ASSUME NEW k \in R[d]
          PROVE  \E off \in 0..L : off + m <= L /\ Stands(text, off, p, 1, m)
      BY ONLY <2>3, <3>2, <3>4
    <3>5. ASSUME NEW off \in 0..L, off + m <= L, Stands(text, off, p, 1, m)
          PROVE  off + m \in R[d]
      BY ONLY <2>3, <3>3, <3>5
    <3> QED
      BY ONLY <3>1, <3>4, <3>5
  <2>6. Has(text, SubSeq(p, 2, d)) <=> \E off \in 0..L : off + m <= L /\ Stands(text, off, p, 1, m)
    <3>1. 1 + m <= Len(p)
      BY <2>1 DEF n
    <3>2. Has(text, SubSeq(p, 1 + 1, 1 + m)) <=>
            \E off \in 0..Len(text) : off + m <= Len(text) /\ Stands(text, off, p, 1, m)
      BY ONLY text \in Seq(Chars), p \in Seq(Chars), <2>1, <3>1, HasIs
    <3> QED
      BY ONLY <2>1, <3>2 DEF L
  <2>7. MatchWildcard(text, p) <=> Has(text, SubSeq(p, 2, d))
    <3>1. Head(p) = p[1]
      BY <1>1, <1>12 DEF n
    <3>2. p # <<Star>>
      BY <1>12 DEF n
    <3> QED
      BY ONLY <1>12, <3>1, <3>2 DEF MatchWildcard, n, d
  <2>8. text = p => 1 + m <= L /\ Stands(text, 1, p, 1, m) /\ 1 \in 0..L
    <3> SUFFICES ASSUME text = p
                 PROVE  1 + m <= L /\ Stands(text, 1, p, 1, m) /\ 1 \in 0..L
      OBVIOUS
    <3>1. L = n /\ \A k \in 1..n : text[k] = p[k]
      BY ONLY text = p DEF L, n
    <3>2. 1 + m <= n /\ 1 \in 0..n /\ \A k \in 1..m : 1 + k \in 1..n
      BY <1>1, <1>12, <2>1
    <3> QED
      BY ONLY <3>1, <3>2 DEF Stands
  <2>9. \E i \in DOMAIN p : p[i] = Star
    BY <1>1, <1>12, <2>1
  <2> QED
    BY ONLY <1>3, <2>5, <2>6, <2>7, <2>8, <2>9
<1> QED
  BY <1>1, <1>7, <1>8, <1>9, <1>10, <1>11, <1>12

\* The patterns the code takes are those the property means.
LEMMA MatchIsGlob ==
  ASSUME NEW path \in Seq(Chars), NEW p \in Seq(Chars)
  PROVE  MatchPathPattern(path, p) <=>
           Glob(path, p) \/ (Directory(p) /\ Glob(path, Append(p, Star)))
<1> DEFINE wild == \E i \in DOMAIN p : p[i] = Star
           q == Append(p, Star)
<1>1. Glob(path, p) <=> path = p \/ (wild /\ MatchWildcard(path, p))
  BY GlobIsMatch, Zenon
<1>2. Directory(p) <=> ~wild /\ p # <<>> /\ p[Len(p)] = Slash
  BY DEF Directory
<1>3. ASSUME Directory(p)
      PROVE  Glob(path, q) <=> StartsWith(path, p)
  <2>1. Len(p) \in Nat /\ Len(p) >= 1 /\ DOMAIN p = 1..Len(p) /\ p[1] # Star
    <3>1. Len(p) \in Nat /\ DOMAIN p = 1..Len(p) /\ Len(p) # 0
      BY <1>3, LenProperties, EmptySeq DEF Directory
    <3> QED
      BY <1>3, <3>1 DEF Directory
  <2>2. /\ q \in Seq(Chars) /\ Len(q) = Len(p) + 1
        /\ \A i \in 1..Len(p) : q[i] = p[i]
        /\ q[Len(p) + 1] = Star
    <3>1. Star \in Chars
      BY InterceptorsAssumption
    <3> QED
      BY <3>1, AppendProperties
  <2> HIDE DEF q
  <2>3. SubSeq(q, 1, Len(p)) = p
    <3>1. /\ SubSeq(q, 1, Len(p)) \in Seq(Chars) /\ Len(SubSeq(q, 1, Len(p))) = Len(p) - 1 + 1
          /\ \A k \in 1..(Len(p) - 1 + 1) : SubSeq(q, 1, Len(p))[k] = q[1 + k - 1]
      BY <2>1, <2>2, PartIs
    <3>2. Len(p) - 1 + 1 = Len(p) /\ \A k \in 1..Len(p) : 1 + k - 1 = k
      BY <2>1
    <3>3. \A k \in 1..Len(p) : SubSeq(q, 1, Len(p))[k] = p[k]
      BY <2>2, <3>1, <3>2
    <3> QED
      BY ONLY p \in Seq(Chars), <3>1, <3>2, <3>3, SeqEqual
  <2>4. MatchWildcard(path, q) <=> StartsWith(path, p)
    <3>1. Head(q) # Star /\ q[Len(q)] = Star /\ q # <<Star>>
      <4>1. Head(q) = q[1] /\ q[1] = p[1]
        BY <2>1, <2>2
      <4>2. Len(<<Star>>) = 1 /\ Len(q) # 1
        BY <2>1, <2>2
      <4> QED
        BY <2>1, <2>2, <4>1, <4>2
    <3>2. Len(q) - 1 = Len(p)
      BY <2>1, <2>2
    <3> QED
      BY ONLY <2>3, <3>1, <3>2 DEF MatchWildcard
  <2>5. path = q => StartsWith(path, p)
    BY <2>1, <2>2, <2>3 DEF StartsWith
  <2>6. \E i \in DOMAIN q : q[i] = Star
    BY <2>1, <2>2
  <2>7. Glob(path, q) <=> path = q \/ ((\E i \in DOMAIN q : q[i] = Star) /\ MatchWildcard(path, q))
    BY ONLY path \in Seq(Chars), <2>2, GlobIsMatch, Zenon
  <2> QED
    BY <2>4, <2>5, <2>6, <2>7
<1> HIDE DEF q
<1>4. MatchPathPattern(path, p) <=>
        \/ path = p
        \/ wild /\ MatchWildcard(path, p)
        \/ ~wild /\ p # <<>> /\ p[Len(p)] = Slash /\ StartsWith(path, p)
  BY DEF MatchPathPattern
<1>5. MatchPathPattern(path, p) <=> Glob(path, p) \/ (Directory(p) /\ Glob(path, q))
  <2> HIDE DEF wild
  <2> QED
    BY ONLY <1>1, <1>2, <1>3, <1>4, Zenon
<1> QED
  BY ONLY <1>5, Zenon DEF q

\* A call is skipped if the rule said so of the path and the method it has.
AsRuled(call) ==
  call.kind = "HTTP" =>
    call.path \in Paths /\ call.skipped = ShouldSkipPath(call.path, call.method)

SkipInvariant == InterceptorInvariant /\ \A c \in Calls : AsRuled(calls[c])

\* What serving a call changes of it is none of what the rule is about.
LEMMA RuleKept ==
  ASSUME SkipInvariant, NEW c \in Calls,
         \/ \E n \in 1..MaxWrite : WriteBody(c, n) \/ WriteString(c, n)
         \/ \E status, n, lost : Return(c, status, n, lost)
         \/ Panics(c)
         \/ LogEntry(c)
  PROVE  \A x \in Calls : AsRuled(calls'[x])
<1>1. calls[c] \in Call /\ calls = [x \in Calls |-> calls[x]] /\ \A x \in Calls : AsRuled(calls[x])
  BY DEF SkipInvariant, InterceptorInvariant, CallInvariant
<1> DEFINE kept ==
             /\ \A x \in Calls \ {c} : calls'[x] = calls[x]
             /\ calls'[c].kind = calls[c].kind /\ calls'[c].path = calls[c].path
             /\ calls'[c].method = calls[c].method /\ calls'[c].skipped = calls[c].skipped
<1>2. kept
  <2>1. ASSUME NEW n \in 1..MaxWrite, WriteBody(c, n) \/ WriteString(c, n)
        PROVE  kept
    BY <1>1, <2>1 DEF WriteBody, WriteString, Become, Call
  <2>2. ASSUME NEW status, NEW n, NEW lost, Return(c, status, n, lost)
        PROVE  kept
    BY <1>1, <2>2 DEF Return, Become, Call
  <2>3. CASE Panics(c)
    BY <1>1, <2>3 DEF Panics, Become, Call
  <2>4. CASE LogEntry(c)
    BY <1>1, <2>4 DEF LogEntry, Become, Call
  <2> QED
    BY <2>1, <2>2, <2>3, <2>4
<1> QED
  BY <1>1, <1>2 DEF AsRuled

\* Only the way in writes what the rule is about.
LEMMA SkipInvariance == InterceptorSpec => []SkipInvariant
<1>1. InterceptorInit => \A c \in Calls : AsRuled(calls[c])
  <2>1. InterceptorInit => \A c \in Calls : calls[c] = NoCall
    BY DEF InterceptorInit
  <2>2. NoCall.kind # "HTTP"
    BY DEF NoCall
  <2> QED
    BY <2>1, <2>2 DEF AsRuled
<1>2. SkipInvariant /\ [InterceptorNext]_interceptorVars => (\A c \in Calls : AsRuled(calls[c]))'
  <2> SUFFICES ASSUME SkipInvariant, [InterceptorNext]_interceptorVars
               PROVE  \A c \in Calls : AsRuled(calls'[c])
    BY DEF AsRuled
  <2>1. calls = [c \in Calls |-> calls[c]] /\ \A c \in Calls : AsRuled(calls[c]) /\ calls[c] \in Call
    BY DEF SkipInvariant, InterceptorInvariant, CallInvariant
  <2>2. CASE Relevel
    <3>1. \A c \in Calls :
            /\ calls'[c].kind = calls[c].kind /\ calls'[c].path = calls[c].path
            /\ calls'[c].method = calls[c].method /\ calls'[c].skipped = calls[c].skipped
      BY <2>1, <2>2 DEF Relevel, Call
    <3> QED
      BY <2>1, <3>1 DEF AsRuled
  <2>3. ASSUME NEW c \in Calls, NEW path \in Paths, NEW method \in Methods, NEW span \in 0..1,
               NEW mode \in InjectModes, NEW custom \in CustomHeaders,
               Enter(c, "HTTP", path, method, span, mode, custom, 0, 0)
        PROVE  \A x \in Calls : AsRuled(calls'[x])
    <3> DEFINE skipped == "HTTP" = "HTTP" /\ ShouldSkipPath(path, method)
               wordy == ~skipped /\ Logs("debug")
               quiet == ~Logs("info")
               headers == IF skipped THEN {} ELSE TraceHeaders(mode, custom, span)
               copied == IF Logs("debug") THEN 0 - 0 ELSE 0
    <3>0. calls' = [calls EXCEPT ![c] =
                      [NoCall EXCEPT !.kind = "HTTP", !.at = "serving", !.path = path,
                         !.method = method, !.span = span, !.skipped = skipped,
                         !.debug = wordy, !.quiet = quiet, !.headers = headers,
                         !.body = 0, !.aside = 0, !.captured = copied]]
      BY <2>3 DEF Enter, Become
    <3>2. skipped <=> ShouldSkipPath(path, method)
      OBVIOUS
    <3>3. skipped \in BOOLEAN /\ ShouldSkipPath(path, method) \in BOOLEAN
      BY DEF ShouldSkipPath
    <3> HIDE DEF skipped, wordy, quiet, headers, copied
    <3>1. /\ \A x \in Calls \ {c} : calls'[x] = calls[x]
          /\ calls'[c].path = path /\ calls'[c].method = method
          /\ calls'[c].skipped = ShouldSkipPath(path, method)
      BY <2>1, <3>0, <3>2, <3>3 DEF NoCall
    <3> QED
      BY <2>1, <3>1 DEF AsRuled
  <2>4. ASSUME NEW c \in Calls, NEW span \in 0..1,
               NEW mode \in InjectModes, NEW custom \in CustomHeaders,
               NEW n, NEW lost, Enter(c, "gRPC", <<>>, "", span, mode, custom, n, lost)
        PROVE  \A x \in Calls : AsRuled(calls'[x])
    <3>1. (\A x \in Calls \ {c} : calls'[x] = calls[x]) /\ calls'[c].kind = "gRPC"
      BY <2>1, <2>4 DEF Enter, Become, NoCall
    <3> QED
      BY <2>1, <3>1 DEF AsRuled
  <2>5. CASE UNCHANGED interceptorVars
    BY <2>1, <2>5 DEF interceptorVars
  <2> QED
    BY <2>2, <2>3, <2>4, <2>5, RuleKept DEF InterceptorNext
<1> QED
  BY <1>1, <1>2, InterceptorInvariance, PTL DEF InterceptorSpec, SkipInvariant

\* Of the HTTP calls those are left out of the log whose path a pattern for
\* their method covers, as it stands, with any text for its wildcards or below
\* the directory it names, whatever the paths and patterns are (matchPath,
\* matchPathPattern and matchWildcard of gin's observability.go).
THEOREM PatternsSkip == InterceptorSpec => []SkipsAsPatternsSay
<1>1. SkipInvariant => SkipsAsPatternsSay
  <2> SUFFICES ASSUME SkipInvariant, NEW c \in Calls, calls[c].kind = "HTTP"
               PROVE  calls[c].skipped =
                        \E p \in SkipPatterns :
                          /\ p.method = "" \/ p.method = calls[c].method
                          /\ \/ Glob(calls[c].path, p.path)
                             \/ Directory(p.path) /\ Glob(calls[c].path, Append(p.path, Star))
    BY DEF SkipsAsPatternsSay
  <2>1. calls[c].path \in Paths
        /\ calls[c].skipped = ShouldSkipPath(calls[c].path, calls[c].method)
    BY DEF SkipInvariant, AsRuled
  <2>2. calls[c].path \in Seq(Chars) /\ \A p \in SkipPatterns : p.path \in Seq(Chars)
    BY <2>1, InterceptorsAssumption
  <2>3. \A p \in SkipPatterns :
          MatchPathPattern(calls[c].path, p.path) <=>
            \/ Glob(calls[c].path, p.path)
            \/ Directory(p.path) /\ Glob(calls[c].path, Append(p.path, Star))
    BY <2>2, MatchIsGlob
  <2> QED
    BY <2>1, <2>3 DEF ShouldSkipPath
<1> QED
  BY <1>1, SkipInvariance, PTL

-----------------------------------------------------------------------------
(* Authorisation                                                           *)

AuthzTypeOK ==
  /\ sinceTick \in Nat /\ loadAge \in Nat /\ stale \in Nat
  /\ phase \in {"none", "loading", "loaded", "running", "stopped"}
  /\ early \in BOOLEAN /\ missed \in BOOLEAN

\* The timer does not run past its tick, nor a load past its end; a load started
\* with the tick the timer counts from.
LoadsOnTime ==
  /\ phase = "running" => sinceTick <= Interval
  /\ Starting \/ loading # {} => loadAge <= LoadTime
  /\ phase = "loading" => loading # {}
  /\ phase = "loaded" => loading = {}
  /\ phase = "running" /\ loading # {} => sinceTick = loadAge

\* While NewAuthz loads, what it has read or installed is the database's policy,
\* unless that changed since.
ReadFirst ==
  ~missed =>
    /\ phase = "loading" => loading = {stored} \/ (early /\ stale <= loadAge)
    /\ phase = "loaded" => policy = stored \/ (early /\ stale <= loadAge)

Lead == IF early THEN LoadTime ELSE 0

\* A policy that differs from the database's is followed up: the change is younger
\* than the last read, or a load has read the policy there is now. The change of
\* the database is stale ticks ago, of which the start of NewAuthz took some if it
\* came that early.
FollowedUp ==
  ~missed /\ phase = "running" =>
    /\ loading \subseteq {stored} \/ stale <= sinceTick
    /\ \/ policy = stored
       \/ loading = {stored} /\ stale <= Interval + loadAge + Lead
       \/ stale <= sinceTick + Lead

\* With a timer that is neither started nor running every change is missed.
Unwatched == phase \in {"none", "stopped"} => missed

AuthzInvariant == AuthzTypeOK /\ LoadsOnTime /\ ReadFirst /\ FollowedUp /\ Unwatched

\* Every step keeps the bound on how long a change goes unnoticed.
LEMMA AuthzInvariance == AuthzSpec => []AuthzInvariant
<1>1. AuthzInit => AuthzInvariant
  <2> SUFFICES ASSUME AuthzInit
               PROVE  AuthzInvariant
    OBVIOUS
  <2>1. phase = "none" /\ loading = {} /\ missed /\ AuthzTypeOK
    BY DEF AuthzInit, AuthzTypeOK
  <2>2. LoadsOnTime /\ ReadFirst /\ FollowedUp /\ Unwatched
    BY <2>1 DEF LoadsOnTime, Starting, ReadFirst, FollowedUp, Unwatched
  <2> QED
    BY <2>1, <2>2 DEF AuthzInvariant
<1>2. AuthzInvariant /\ [AuthzNext]_authzVars => AuthzInvariant'
  <2> SUFFICES ASSUME AuthzInvariant, [AuthzNext]_authzVars
               PROVE  AuthzInvariant'
    OBVIOUS
  <2>0. /\ Interval \in Nat /\ LoadTime \in Nat /\ LoadTime < Interval
    BY AuthzAssumption
  <2> USE DEF AuthzInvariant, AuthzTypeOK, LoadsOnTime, ReadFirst, FollowedUp, Unwatched,
              Starting, Lead
  <2>1. CASE ChangePolicy
    <3>1. /\ stale' = 0 /\ early' = Starting /\ missed' = (~Starting /\ phase # "running")
          /\ UNCHANGED <<phase, loading, sinceTick, loadAge>>
      BY <2>1 DEF ChangePolicy
    <3>2. AuthzTypeOK' /\ LoadsOnTime'
      BY <3>1
    <3>7. stale' <= loadAge'
      BY <3>1
    <3>8. phase' \in {"loading", "loaded"} => early'
      BY <3>1, Zenon
    <3>3. ReadFirst'
      BY <3>7, <3>8
    <3>4. Lead' \in Nat
      BY <2>0, <3>1
    <3>5. FollowedUp'
      BY <3>1, <3>4
    <3>6. Unwatched'
      BY <3>1
    <3> QED
      BY <3>2, <3>3, <3>5, <3>6
  <2>2. CASE NewAuthz
    <3>1. /\ phase' = "loading" /\ loading' = {stored} /\ loadAge' = 0
          /\ early' = FALSE /\ missed' = FALSE /\ UNCHANGED <<stored, sinceTick, stale>>
      BY <2>2 DEF NewAuthz, Read
    <3>2. AuthzTypeOK'
      BY <3>1
    <3>3. LoadsOnTime'
      BY <2>0, <3>1
    <3>4. ReadFirst' /\ FollowedUp' /\ Unwatched'
      BY <3>1
    <3> QED
      BY <3>2, <3>3, <3>4
  <2>3. CASE NewAuthzFails
    BY <2>0, <2>3 DEF NewAuthzFails
  <2>4. CASE StartAutoLoadPolicy
    BY <2>0, <2>4 DEF StartAutoLoadPolicy
  <2>5. CASE LoadReads
    BY <2>0, <2>5 DEF LoadReads, Read
  <2>6. CASE LoadInstalls
    BY <2>0, <2>6 DEF LoadInstalls
  <2>7. CASE LoadFails
    BY <2>0, <2>7 DEF LoadFails
  <2>8. CASE Stop
    BY <2>0, <2>8 DEF Stop
  <2>9. CASE Tick
    BY <2>0, <2>9 DEF Tick, Horizon
  <2>10. CASE UNCHANGED authzVars
    BY <2>10 DEF authzVars
  <2> QED
    BY <2>1, <2>2, <2>3, <2>4, <2>5, <2>6, <2>7, <2>8, <2>9, <2>10 DEF AuthzNext
<1> QED
  BY <1>1, <1>2, PTL DEF AuthzSpec

\* A decision follows the database's policy at the latest an interval and a load
\* after the change, two loads if it came while NewAuthz was loading, unless a load
\* has failed or the timer was off since (authz.go:85-114, NewAuthz, and the timer
\* of casbin it starts).
THEOREM AuthzFollowsPolicy == AuthzSpec => []DecisionsFollowPolicy
<1>1. AuthzInvariant => DecisionsFollowPolicy
  <2> SUFFICES ASSUME AuthzInvariant, phase = "running", ~missed, stale > Interval + LoadTime + Lead
               PROVE  policy = stored
    BY DEF DecisionsFollowPolicy, Decision, Lead
  <2>1. Interval \in Nat /\ LoadTime \in Nat
    BY AuthzAssumption
  <2>2. Lead \in Nat
    BY <2>1 DEF Lead
  <2> QED
    BY <2>1, <2>2 DEF AuthzInvariant, AuthzTypeOK, LoadsOnTime, FollowedUp
<1> QED
  BY <1>1, AuthzInvariance, PTL

=============================================================================
