--------------------------- MODULE RequestPipeline ---------------------------
(***************************************************************************)
(* HTTP requests on their way through the gin chain of a linhub service:   *)
(* Recovery and Observability (middleware/gin), ResponseMiddleware and one *)
(* of the Handle...Request functions (core/core.go), which binds, applies  *)
(* defaults, validates, calls the handler and writes the response.         *)
(*                                                                         *)
(* Every request has a goroutine.  What they share are the log level and   *)
(* the errors of errx/code.go: WithDetails writes into the error it is     *)
(* called on.  Details are named by the request they are about; the string *)
(* header is two words, and nothing orders the goroutines that write and   *)
(* read them.                                                              *)
(*                                                                         *)
(* A definition Name_Mistake is a mistake one could make in Name; nothing  *)
(* uses it but the experiments that put it in Name's place.                *)
(***************************************************************************)
EXTENDS ErrorCodes, FiniteSets

CONSTANTS
  Requests,       \* the requests, each served by a goroutine of its own
  Sentinels,      \* the errors of errx/code.go in use
  SentinelCode,   \* their codes
  Codes,          \* codes of the errors the program and its peers make
  NumValidators,  \* the validators handed to Handle...Request
  NilValidators,  \* the positions of the nil ones
  Limit,          \* maxCapturedBodyBytes
  MaxBody,        \* bound: the size of a body
  None            \* no request

ASSUME PipelineAssumption ==
  /\ "ErrBind" \in Sentinels
  /\ SentinelCode \in [Sentinels -> Nat \ {CodeOK}]
  /\ Codes \subseteq Nat \ {CodeOK}
  /\ NumValidators \in Nat
  /\ NilValidators \subseteq 1..NumValidators
  /\ Limit \in Nat
  /\ MaxBody \in Nat
  /\ None \notin Requests

VARIABLES
  at,       \* at[r]: where the goroutine of r is
  input,    \* input[r]: how r is bound and what it brings
  debug,    \* slog's default logger has the debug level
  reader,   \* reader[r]: what c.Request.Body still yields
  captured, \* captured[r]: how much of the body Observability holds
  default,  \* default[r]: Default has been called
  turn,     \* turn[r]: the validator whose turn it is
  err,      \* err[r]: the error on its way to WriteResponse
  unset,    \* unset[r]: the words of Details that WithDetails has yet to write
  details,  \* details[s]: the words of the Details of the shared error s
  bodies,   \* bodies[r]: how many times a response body was written
  reply,    \* reply[r]: the first response
  tagged,   \* tagged[r]: the client gets X-Request-ID and its like
  \* history, read by no action
  checked,  \* checked[r]: the validators that have accepted r, and what they saw
  cut,      \* cut[r]: reading the body has failed
  failure   \* failure[r]: the code of the first thing that went wrong with r

requestVars == <<at, input, debug, reader, captured, default, turn, err, unset, details,
          bodies, reply, tagged, checked, cut, failure>>

Words == {"data", "len"}
About(r) == [w \in Words |-> r]
NoInput == [binder |-> "none", size |-> 0, defaults |-> FALSE]
NoReply == [status |-> 0, code |-> 0, details |-> About(None)]

\* An error value: shared is the variable of code.go it points to, if any.
Details == [Words -> Requests \cup {None}]
Error == [shared : Sentinels \cup {None}, code : Nat, details : Details]
Own(code, d) == [shared |-> None, code |-> code, details |-> d]
Shared(s) == [shared |-> s, code |-> SentinelCode[s], details |-> About(None)]
NoError == Own(CodeOK, About(None))

RequestInit ==
  /\ at = [r \in Requests |-> "outside"]
  /\ input = [r \in Requests |-> NoInput]
  /\ debug \in BOOLEAN
  /\ reader = [r \in Requests |-> 0]
  /\ captured = [r \in Requests |-> 0]
  /\ default = [r \in Requests |-> FALSE]
  /\ turn = [r \in Requests |-> 1]
  /\ err = [r \in Requests |-> NoError]
  /\ unset = [r \in Requests |-> {}]
  /\ details = [s \in Sentinels |-> About(None)]
  /\ bodies = [r \in Requests |-> 0]
  /\ reply = [r \in Requests |-> NoReply]
  /\ tagged = [r \in Requests |-> FALSE]
  /\ checked = [r \in Requests |-> {}]
  /\ cut = [r \in Requests |-> FALSE]
  /\ failure = [r \in Requests |-> CodeOK]

Goto(r, from, to) == at[r] = from /\ at' = [at EXCEPT ![r] = to]

\* The first failure of r is what the client is to be told.
Failed(r, code) ==
  failure' = [failure EXCEPT ![r] = IF @ = CodeOK THEN code ELSE @]

\* What is local to a function is gone when it returns: the body with the
\* binding, the bound request with the call of FinalizeRequest and the handler.
ForgetBody(r) ==
  /\ reader' = [reader EXCEPT ![r] = 0]
  /\ captured' = [captured EXCEPT ![r] = 0]
  /\ cut' = [cut EXCEPT ![r] = FALSE]

ForgetRequest(r) ==
  /\ input' = [input EXCEPT ![r] = NoInput]
  /\ default' = [default EXCEPT ![r] = FALSE]
  /\ turn' = [turn EXCEPT ![r] = 1]
  /\ checked' = [checked EXCEPT ![r] = {}]

ForgetError(r) ==
  /\ err' = [err EXCEPT ![r] = NoError]
  /\ unset' = [unset EXCEPT ![r] = {}]

MinOf(a, b) == IF a < b THEN a ELSE b

-----------------------------------------------------------------------------
(* Middleware, on the way in *)

\* log.Init installs another default logger.
SetLevel ==
  /\ debug' = ~debug
  /\ UNCHANGED <<at, input, reader, captured, default, turn, err, unset, details,
                 bodies, reply, tagged, checked, cut, failure>>

Arrive(r) ==
  /\ Goto(r, "outside", "observing")
  /\ \E b \in {"JSON", "Query", "All"}, n \in 0..MaxBody, d \in BOOLEAN :
       /\ input' = [input EXCEPT ![r] = [binder |-> b, size |-> n, defaults |-> d]]
       /\ reader' = [reader EXCEPT ![r] = n]
  /\ UNCHANGED <<debug, captured, default, turn, err, unset, details, bodies, reply,
                 tagged, checked, cut, failure>>

\* The part of the body Observability reads: the head, with the debug level and
\* on a path that is not skipped.
Heads(r) == {0} \cup {n \in {MinOf(reader[r], Limit + 1)} : debug}

Observe_DropsRest(r) ==
  /\ Goto(r, "observing", "binding")
  /\ \E n \in Heads(r) :
       /\ captured' = [captured EXCEPT ![r] = MinOf(n, Limit)]
       /\ reader' = [reader EXCEPT ![r] = IF n > 0 THEN n ELSE @]
  /\ UNCHANGED <<input, debug, default, turn, err, unset, details, bodies, reply,
                 tagged, checked, cut, failure>>

Observe_CapturesAll(r) ==
  /\ Goto(r, "observing", "binding")
  /\ \E n \in Heads(r) : captured' = [captured EXCEPT ![r] = n]
  /\ UNCHANGED <<input, debug, reader, default, turn, err, unset, details, bodies, reply,
                 tagged, checked, cut, failure>>

\* It puts the head back in front of the rest and keeps what its limit allows;
\* ResponseMiddleware then picks the request's ID.
Observe(r) ==
  /\ Goto(r, "observing", "binding")
  /\ \E n \in Heads(r) :
       LET rest == reader[r] - n IN
         /\ captured' = [captured EXCEPT ![r] = MinOf(n, Limit)]
         /\ reader' = [reader EXCEPT ![r] = n + rest]
  /\ UNCHANGED <<input, debug, default, turn, err, unset, details, bodies, reply,
                 tagged, checked, cut, failure>>

\* Reading fails: what was read is lost to the binder.
ObserveFails(r) ==
  /\ Goto(r, "observing", "binding")
  /\ debug
  /\ input[r].size > 0
  /\ \E n \in 0..(input[r].size - 1) : reader' = [reader EXCEPT ![r] = n]
  /\ cut' = [cut EXCEPT ![r] = TRUE]
  /\ UNCHANGED <<input, debug, captured, default, turn, err, unset, details, bodies,
                 reply, tagged, checked, failure>>

-----------------------------------------------------------------------------
(* Binding: HandleJSONRequest, HandleQueryRequest, HandleAllRequest *)

Reads(r) == input[r].binder \in {"JSON", "All"}

\* A JSON body parses only if all of it is there.
Bind(r) ==
  /\ Goto(r, "binding", "defaulting")
  /\ Reads(r) => reader[r] = input[r].size /\ input[r].size > 0
  /\ input' = [input EXCEPT ![r].size = 0]
  /\ ForgetBody(r)
  /\ UNCHANGED <<debug, default, turn, err, unset, details, bodies, reply, tagged,
                 checked, failure>>

\* errx.ErrBind.WithDetails(err.Error()); for HandleAllRequest, which alone runs
\* gin's struct validation, also when that refuses.
BindFails(r) ==
  /\ Goto(r, "binding", "attaching")
  /\ err' = [err EXCEPT ![r] = Shared("ErrBind")]
  /\ unset' = [unset EXCEPT ![r] = Words]
  /\ Failed(r, SentinelCode["ErrBind"])
  /\ ForgetBody(r)
  /\ ForgetRequest(r)
  /\ UNCHANGED <<debug, details, bodies, reply, tagged>>

-----------------------------------------------------------------------------
(* FinalizeRequest *)

Default(r) ==
  /\ Goto(r, "defaulting", "validating")
  /\ default' = [default EXCEPT ![r] = input[r].defaults]
  /\ UNCHANGED <<input, debug, reader, captured, turn, err, unset, details, bodies,
                 reply, tagged, checked, cut, failure>>

\* What a validator or a handler may return as its error: one of code.go, a
\* copy WithMessage makes of it, an error of its own with details or without,
\* what a linhub service it has called answers, or any other error.
Errors(r) ==
  {Shared(s) : s \in Sentinels}
    \cup {Own(SentinelCode[s], details[s]) : s \in Sentinels}
    \cup {Own(c, About(d)) : c \in Codes, d \in {None, r}}
    \cup {Own(FromStatus(GRPCStatus(c)), About(None)) : c \in Codes}
    \cup {Own(CodeInternalServer, About(None))}

\* Validators and handlers may also call WithDetails on an error of code.go.
Fails(r, from) ==
  \/ \E e \in Errors(r) :
       /\ Goto(r, from, "writing")
       /\ err' = [err EXCEPT ![r] = e]
       /\ Failed(r, e.code)
       /\ UNCHANGED unset
  \/ \E s \in Sentinels :
       /\ Goto(r, from, "attaching")
       /\ err' = [err EXCEPT ![r] = Shared(s)]
       /\ unset' = [unset EXCEPT ![r] = Words]
       /\ Failed(r, SentinelCode[s])

Validate_StopsAtNil(r) ==
  /\ turn[r] \in 1..NumValidators
  /\ Goto(r, "validating", "validating")
  /\ turn' = [turn EXCEPT ![r] = IF @ \in NilValidators THEN NumValidators + 1 ELSE @ + 1]
  /\ checked' = [checked EXCEPT ![r] = IF turn[r] \in NilValidators THEN @
                                       ELSE @ \cup {<<turn[r], default[r]>>}]
  /\ UNCHANGED <<input, debug, reader, captured, default, err, unset, details, bodies,
                 reply, tagged, cut, failure>>

\* A nil validator is skipped, another accepts the request.
Validate(r) ==
  /\ turn[r] \in 1..NumValidators
  /\ Goto(r, "validating", "validating")
  /\ turn' = [turn EXCEPT ![r] = @ + 1]
  /\ checked' = [checked EXCEPT ![r] = IF turn[r] \in NilValidators THEN @
                                       ELSE @ \cup {<<turn[r], default[r]>>}]
  /\ UNCHANGED <<input, debug, reader, captured, default, err, unset, details, bodies,
                 reply, tagged, cut, failure>>

ValidateFails_GoesOn(r) ==
  /\ turn[r] \in 1..NumValidators \ NilValidators
  /\ \E e \in Errors(r) : Failed(r, e.code)
  /\ turn' = [turn EXCEPT ![r] = @ + 1]
  /\ UNCHANGED <<at, input, debug, reader, captured, default, err, unset, details,
                 bodies, reply, tagged, checked, cut>>

ValidateFails(r) ==
  /\ turn[r] \in 1..NumValidators \ NilValidators
  /\ Fails(r, "validating")
  /\ ForgetRequest(r)
  /\ UNCHANGED <<debug, reader, captured, details, bodies, reply, tagged, cut>>

Validated(r) ==
  /\ turn[r] > NumValidators
  /\ Goto(r, "validating", "handling")
  /\ UNCHANGED <<input, debug, reader, captured, default, turn, err, unset, details,
                 bodies, reply, tagged, checked, cut, failure>>

-----------------------------------------------------------------------------
(* The handler and the response *)

HandlerSucceeds(r) ==
  /\ Goto(r, "handling", "writing")
  /\ ForgetRequest(r)
  /\ UNCHANGED <<debug, reader, captured, err, unset, details, bodies, reply, tagged,
                 cut, failure>>

HandlerFails(r) ==
  /\ Fails(r, "handling")
  /\ ForgetRequest(r)
  /\ UNCHANGED <<debug, reader, captured, details, bodies, reply, tagged, cut>>

\* WithDetails assigns the two words of the string, no lock taken.
WithDetails(r) ==
  /\ at[r] = "attaching"
  /\ \E w \in unset[r] :
       /\ details' = [details EXCEPT ![err[r].shared][w] = r]
       /\ unset' = [unset EXCEPT ![r] = @ \ {w}]
       /\ at' = [at EXCEPT ![r] = IF unset[r] = {w} THEN "writing" ELSE @]
  /\ UNCHANGED <<input, debug, reader, captured, default, turn, err, bodies, reply,
                 tagged, checked, cut, failure>>

FromBizError(e) ==
  [status |-> GetHTTPCode(e.code), code |-> e.code,
   details |-> IF e.shared = None THEN e.details ELSE details[e.shared]]

WriteResponse(r) ==
  /\ Goto(r, "writing", "finishing")
  /\ bodies' = [bodies EXCEPT ![r] = @ + 1]
  /\ reply' = [reply EXCEPT ![r] = IF bodies[r] = 0 THEN FromBizError(err[r]) ELSE @]
  /\ UNCHANGED <<input, debug, reader, captured, default, turn, err, unset, details,
                 tagged, checked, cut, failure>>

\* The data of a success cannot be marshalled: c.JSON has set the status and
\* writes nothing.
RenderFails(r) ==
  /\ err[r] = NoError
  /\ Goto(r, "writing", "finishing")
  /\ UNCHANGED <<input, debug, reader, captured, default, turn, err, unset, details,
                 bodies, reply, tagged, checked, cut, failure>>

-----------------------------------------------------------------------------
(* Middleware, on the way out *)

\* setResponseHeaders comes after c.Next: with a body the headers are out, and
\* what it sets reaches the client only when there is none.
SetResponseHeaders(r) ==
  /\ Goto(r, "finishing", "done")
  /\ tagged' = [tagged EXCEPT ![r] = bodies[r] = 0]
  /\ ForgetError(r)
  /\ UNCHANGED <<input, debug, reader, captured, default, turn, details, bodies, reply,
                 checked, cut, failure>>

\* Application code panics, its MarshalJSON included, or traceID.(string) does for
\* a trace_id of another type.
Panic(r) ==
  /\ \/ at[r] \in {"binding", "defaulting", "validating", "handling", "finishing"}
     \/ at[r] = "writing" /\ err[r] = NoError
  /\ at' = [at EXCEPT ![r] = "recovering"]
  /\ Failed(r, IF bodies[r] = 0 THEN CodeInternalServer ELSE failure[r])
  /\ ForgetBody(r)
  /\ ForgetRequest(r)
  /\ ForgetError(r)
  /\ UNCHANGED <<debug, details, bodies, reply, tagged>>

Recover_Rewrites(r) ==
  /\ Goto(r, "recovering", "done")
  /\ bodies' = [bodies EXCEPT ![r] = @ + 1]
  /\ reply' = [reply EXCEPT ![r] = IF bodies[r] = 0
                                   THEN FromBizError(Own(CodeInternalServer, About(None)))
                                   ELSE @]
  /\ UNCHANGED <<input, debug, reader, captured, default, turn, err, unset, details,
                 tagged, checked, cut, failure>>

\* Recovery answers if nothing has been written, and ends the chain without the
\* headers and the log of the middlewares within.
Recover(r) ==
  /\ Goto(r, "recovering", "done")
  /\ bodies' = [bodies EXCEPT ![r] = IF @ = 0 THEN 1 ELSE @]
  /\ reply' = [reply EXCEPT ![r] = IF bodies[r] = 0
                                   THEN FromBizError(Own(CodeInternalServer, About(None)))
                                   ELSE @]
  /\ UNCHANGED <<input, debug, reader, captured, default, turn, err, unset, details,
                 tagged, checked, cut, failure>>

-----------------------------------------------------------------------------

RequestNext ==
  \/ SetLevel
  \/ \E r \in Requests :
       \/ Arrive(r)
       \/ Observe(r) \/ ObserveFails(r)
       \/ Bind(r) \/ BindFails(r)
       \/ Default(r)
       \/ Validate(r) \/ ValidateFails(r) \/ Validated(r)
       \/ HandlerSucceeds(r) \/ HandlerFails(r)
       \/ WithDetails(r)
       \/ WriteResponse(r) \/ RenderFails(r)
       \/ SetResponseHeaders(r)
       \/ Panic(r) \/ Recover(r)

RequestSpec == RequestInit /\ [][RequestNext]_requestVars

-----------------------------------------------------------------------------
(* Properties *)

RequestTypeOK ==
  /\ at \in [Requests -> {"outside", "observing", "binding", "defaulting", "validating",
                          "handling", "attaching", "writing", "finishing", "recovering",
                          "done"}]
  /\ input \in [Requests -> [binder : {"none", "JSON", "Query", "All"},
                             size : 0..MaxBody, defaults : BOOLEAN]]
  /\ debug \in BOOLEAN
  /\ reader \in [Requests -> 0..MaxBody]
  /\ captured \in [Requests -> 0..Limit]
  /\ default \in [Requests -> BOOLEAN]
  /\ turn \in [Requests -> 1..(NumValidators + 1)]
  /\ err \in [Requests -> Error]
  /\ unset \in [Requests -> SUBSET Words]
  /\ details \in [Sentinels -> Details]
  /\ bodies \in [Requests -> Nat]
  /\ reply \in [Requests -> [status : Nat, code : Nat, details : Details]]
  /\ tagged \in [Requests -> BOOLEAN]
  /\ checked \in [Requests -> SUBSET ((1..NumValidators) \X BOOLEAN)]
  /\ cut \in [Requests -> BOOLEAN]
  /\ failure \in [Requests -> Nat]

\* A request gets one response body: a panic after WriteResponse adds none, and
\* a request that has failed is not left without (recovery.go, Recovery).
AnsweredOnce ==
  \A r \in Requests :
    /\ bodies[r] <= 1
    /\ at[r] = "done" /\ failure[r] # CodeOK => bodies[r] = 1

\* The types and the one body (recovery.go, Recovery; core.go, WriteResponse).
RequestInvariant == RequestTypeOK /\ AnsweredOnce

\* The handler runs for a request that every validator has accepted, each after
\* the defaults were set, whichever validators are nil (core.go, FinalizeRequest).
HandlerSeesValidRequest ==
  \A r \in Requests :
    at[r] = "handling" =>
      /\ failure[r] = CodeOK
      /\ checked[r] = ((1..NumValidators) \ NilValidators) \X {input[r].defaults}

\* The client is told of the first thing that went wrong and of nothing else,
\* by the code and by the HTTP status, whatever other requests and a later
\* panic do to the errors they share (core.go, WriteResponse; errx.go).
FirstFailureAnswered ==
  \A r \in Requests :
    bodies[r] > 0 => reply[r].code = failure[r] /\ reply[r].status = GetHTTPCode(failure[r])

\* Unless reading fails, the binder finds the whole body, whatever its size and
\* the log level: Observability has put back what it captured, and holds no
\* more than its limit (observability.go).
BodyIntact ==
  \A r \in Requests :
    /\ at[r] = "binding" /\ ~cut[r] => reader[r] = input[r].size
    /\ captured[r] <= MinOf(input[r].size, Limit)

-----------------------------------------------------------------------------
(* A statement of the documentation the code does not keep *)

\* "业务可在此基础上通过 WithMessage / WithDetails / WithMetadata 衍生新错误": an
\* error derived for a request is a new one, so its details are those that this
\* request has attached.
DetailsAreOwn ==
  \A r \in Requests, w \in Words : reply[r].details[w] \in {r, None}

=============================================================================
