# linhub: models, checks and proofs

linhub is a Go library for building services: an application shell, HTTP and
gRPC servers, a gin request pipeline, a GORM store with transactions, JWT
authentication, authorisation, errors, logging, tracing and options. It is a
library, so what runs concurrently is decided by the programs that use it; the
models let any number of goroutines (a small set in the runs) make the calls
the exported functions allow.

Contents: 1 the system, 2 what is hard about it, 3 the modules, 4 the runs,
5 fairness, 6 the proofs, 7 what the checks found, 8 what is not modelled,
9 the plan, 10 how to run it.

## 1. The system

Paths are relative to `src/`.

| component | state it keeps | operations | talks to |
|---|---|---|---|
| `authn/jwt`, `authn/jwt/store/redis` | none in the process but the options; the blacklist in redis; whether the client is closed | Sign, Destroy, ParseClaims, Release; Set, Check, Delete, Close | redis, over a pooled connection that retries |
| `app` | the command line, viper's values, the options, the configured logger, a health endpoint | NewApp, App.Run, runCommand, the watcher of the configuration file | the options of the program, `log`, `server` |
| `server` | the phase of an `http.Server` / `grpc.Server`; the signal context | Serve, RunOrDie, GracefulStop | the kernel's listener, the OS signals, the handlers |
| `store` | the `*gorm.DB`, the transaction in the context, the connection pool | Run, WithTx, Create, Update, UpdatePartial, UpdateColumns, Delete, Get, Count, Exists, List | a SQL database |
| `store/where` | a chain of filters, clauses and paging per query; a process-wide tenant | With..., Filter, Tenant, CountOptions, Where, RegisterTenant | `store` |
| `store/registry` | a list of models | Register, Migrate | GORM |
| `core`, `binding` | one gin context per request; gin's process-wide validator | ResponseMiddleware, HandleRequest, HandleAllRequest, ShouldBindAll, FinalizeRequest, WriteResponse | the middleware chain, `errx` |
| `errx` | sentinel errors shared by the whole process; a code registry | New, WithMessage, WithDetails, WithMetadata, Is, FromError, GRPCStatus | `core`, `middleware/grpc` |
| `middleware/gin`, `middleware/grpc` | one request | Recovery, Observability, interceptors | `log`, the tracer |
| `token` | one process-wide configuration under a RWMutex | Init, Reset, Sign, SignWithClaims, Parse, ParseRequest, ParseIdentity | gin, gRPC metadata |
| `authz` | a casbin enforcer that reloads its policy on a timer | NewAuthz, Authorize, Stop | the policy table |
| `otelslog` | attributes and groups per handler, in arrays derived handlers share | Handle, WithAttrs, WithGroup | the OpenTelemetry logger |
| `log`, `logger` | the process-wide logger | Init, W, fan-out, the GORM logger | files, OpenTelemetry |
| `options`, `db` | plain values; the process-wide OpenTelemetry providers and their files; clients and pools | AddFlags, Complete, Validate, NewClient, NewDB; Apply, Shutdown | `app`, drivers, exporters |
| `id`, `rid` | a snowflake generator; none | Id; NewCode, ResourceID.New | the clock |
| `util/version` | values | parsing, With..., comparing, HighestSupportedVersion | |
| `i18n`, `version`, `ptr`, `util`, `validation`, `api` | local values | helpers, generated code | |

A request to a service travels `server` → `middleware` → `token` or
`authn/jwt` → `core` (binding, validation) → the program's handler → `store` →
back through `core` and `errx`. Process-wide state it meets on the way: the
sentinel errors, the token configuration, the logger, the telemetry providers,
the policy, the tenant.

## 2. What is hard about it

* A JWT is stateless and its revocation is not: the life of a token is counted
  in seconds by the claims, in milliseconds by redis and in nanoseconds by
  `time.Until`; between the parsing of a token and redis' answer anything may
  happen (calls, retries, lost replies, a closed client, a restart).
* `Serve` starts the server in another goroutine and may have to stop it before
  that goroutine has taken its first step; signals and `klog.Fatalf` end the
  process from anywhere. Before that the watcher of the configuration file may
  change viper between any two of the reads `runCommand` makes.
* `Run` begins a transaction on the root handle; operations find it in the
  context. Functions fail, panic, nest, and wait for rows and for connections.
* `where.Options` holds maps and slices that are the caller's, or another
  query's, and looks up a tenant that is registered for the process.
* The registry of models is appended to without a lock.
* The errors of `errx/code.go` are pointers shared by all goroutines and
  `WithDetails` writes into them.
* Observability consumes the body that the binder is to read, asks for the
  level on the way in and writes its entry on the way out; a panic may come
  before or after a response.
* `token` protects its configuration with a lock that half of its readers do
  not take.
* `otelslog` shares arrays between handlers, and between a handler and its
  records: who may append depends on spare capacity.
* `OTelOptions.Apply` may fail after each of its steps and be called again;
  `log.Init` and Apply install the same process-wide values under two locks.
* `Authorize` decides with a policy a timer loads; loads fail and overlap
  changes.
* `NewCode` computes in machine words and in bytes, Page in machine integers.

`PROJECT.json`, "hazards", has each one with its line and the properties that
would notice it going wrong. A note there says where a property leaves out the
case itself, or why there is none; section 7 has what is known to go wrong.

What makes each component correct:

| component | properties |
|---|---|
| JWT | a destroyed token is refused until it expires; nothing but a restart or Delete takes an entry off early; the blacklist drains; a fresh token is valid; nobody is refused without a cause |
| boot | nothing answers before the options are valid and the logger stands; no key is of an older version of the file than one read before it |
| server | a shutdown cuts no request off before its deadline; a signal ends the process; stopping never kills |
| store | a failed run leaves nothing behind, no row, no lock, no connection; a run reads its own writes; runs end |
| where, registry | a query selects what its builder asked for, whoever builds another one meanwhile; no model is skipped by a Migrate that succeeds |
| request | one body per request; the first failure is what is answered; the handler sees validated requests; the body arrives whole |
| middleware | the log tells what the call did, once; what is skipped is what the patterns say |
| token | what is signed and accepted rests on a configuration that was in force; the lock is released whatever panics |
| otelslog | a record holds the attributes of its own call and handler |
| telemetry, log | nothing given to a provider is lost to a file closed under it; Shutdown releases all; bridged records arrive |
| authz | a decision follows the database, at the latest one interval and one load after a change (one load more while NewAuthz is under way) |
| options, db | a client that is built has the security its options ask for; pools are bounded |
| id, version | codes of distinct ids are distinct; comparing is an order |

## 3. The modules

A definition named `Name_Mistake` is `Name` with a plausible bug; it is used by
nothing and is there to be put in `Name`'s place to show that a property of a
run notices (`PROJECT.json`, "mutants"). `MC...` modules give constants their
values and compose; `..._proofs` modules hold theorems and `Foundations` the
lemmas several of them share (section 6).

    AppBoot ---EXTENDS---> ServerLifecycle
    ProcessLogger -------> Telemetry
    RequestPipeline -----> ErrorCodes
    QueryConditions, SlogHandler --> GoSlices
    JWTAuth --INSTANCE...WITH--> TokenRegistry

    MCServer  = AppBoot | RequestPipeline
    MCStore   = TxStore | QueryConditions | ModelRegistry
    MCProcess = SlogHandler | ProcessLogger | Identifiers | Versions
                | TokenConfig | Interceptors | Authorisation | MCSettings
    MCSettings = Settings with its values

A `|` puts components next to each other in one run. They touch none of each
other's variables, so their full product says nothing that one moving component
does not: the variable `part` picks the one that moves in a behaviour and
`UNCHANGED` keeps the others in an initial state. Every property of such a run
is still about the component alone; interaction that does exist (boot with
server, logger with providers, server with its request goroutines, middleware
with the logger's level) is inside the modules.

### `JWTAuth`, `TokenRegistry` (`authn/jwt`)

`JWTAuth` has the four calls on `*JWTAuth` and `Store.Delete`. A call that
reaches redis is split at the points where others can come between:

    Destroy:     DestroyParsed -> DestroySend -> RedisSet* -> DestroyAcked | DestroyFailed
    ParseClaims: Parsed -> RedisExists -> CheckFinds | CheckPasses | CheckFails

`op[p]` is the stack of goroutine `p`, `reply[p]` what its last call returned.
`RedisExists` is redis answering EXISTS; the call returns later, and a Destroy,
a Release or the end of the token may come in between. So a call that was
already under way when a token was destroyed may give its claims back, as the
code does; `RevokedStaysRejected` is about calls that begin after the Destroy
returned. Each of the calls may fail, Sign too (`SignFailed`).
`store` is redis: keys with the time they expire. go-redis retries commands and
gives up on some that redis executes nevertheless: `RedisSet` may happen more
than once and after `DestroyFailed` ("late"). A token is a class (the signature
that parseToken can tell) and its claims; SHA-256 is taken to be injective.
One unit of time is a millisecond and `Sec` of them are a second, so the
truncations of `jwt.NewNumericDate`, of `PX` and of `time.Until` are there.

`TokenRegistry` is the abstract specification, a registry in which issuing,
revoking and accepting are one step each. `JWTAuth!RegistrySpec` maps the one
to the other (a token is revoked when redis has a live entry for it).

### `ServerLifecycle`, `AppBoot` (`server`, `app`)

`ServerLifecycle` has two goroutines, `main` (runCommand from NotifyContext on,
Serve, GracefulStop) and `runner` (RunOrDie), the timer of Serve, signals, and
connections whose handlers may never end. `kind` says whether the server is
HTTP or gRPC; both are in one module because Serve treats them alike and they
differ in what their GracefulStop and RunOrDie do. `fault` is history: a
listener failed by itself, which is the one justified reason for `klog.Fatalf`.

`AppBoot` puts runCommand's way to the callback before it: `stage` walks through
the flags, the file, `--version`, Unmarshal key by key, Complete and Validate,
the keys initializeLogger asks for one by one, first IsSet (`LogKeyIsSet`,
`LogKeyNotSet`) and then Get (`ReadLogKey`), and the health check. The content
of the file is a version number; `Edit` writes it and `Reload` is viper's
watcher, which may come between any two of these reads. `settings` and `logger`
are the versions that were read, in their order; a key of the logger that is
gone when its value is asked for yields the zero value, neither the default nor
the file's. Every step before the
callback leaves `ServerLifecycle` in its initial state, which is why the
program implements it.

### `TxStore` (`store/store.go`)

Goroutines call `TxRunner.Run` and the operations of `Store`. A run is
numbered; `current[p]` is the run whose transaction the context of `p`
carries, `raw(p)` the handle an operation takes, `parent` the nesting. The
database is read committed with row locks: what a transaction wrote is in
`writes` until it commits. The operations take the statements GORM issues for
them: Save is UPDATE, then INSERT ON CONFLICT; List is COUNT, then SELECT.
Statements fail, transactions break behind the function's back (`Break`), a
COMMIT may go unanswered (`CommitUnanswered`). Rows carry the run that wrote
them and nothing else.

### `QueryConditions`, `ModelRegistry`, `GoSlices` (`store/where`, `store/registry`)

`GoSlices` is append, grow and clip over a heap of arrays with capacities, the
allocation of spare room left open up to a slack. `options` in
`QueryConditions` is every Options value made; its filter is a place in
`filterMaps` (the first map belongs to a caller, who passes it to WithFilter
more than once), its conditions a slice. Paging wraps at `TopInt`. `Tenant`
takes two steps around the registered function, and `RegisterTenant` may come
between. `wanted` is history: what those who built the Options asked for.

`ModelRegistry` splits Register into the read of the slice and its write, and
Migrate into one step per model, each of which may fail.

### `RequestPipeline`, `ErrorCodes` (`core`, `binding`, `errx`, `middleware/gin`)

`ErrorCodes` has the mapping of codes to levels, HTTP status and gRPC codes as
operators. `RequestPipeline` runs several requests through Recovery,
Observability, ResponseMiddleware and a Handle...Request function; `at[r]` is
the place. A body is its length; what the reader still yields is `reader`.
An error is a code, details and, for the variables of `code.go`, the shared
variable it points to; Details is a Go string, which is written in two words
(pointer and length) by `WithDetails`, step by step, with no order between
goroutines. What is local to a function is reset when it returns, which keeps
the state space small and changes nothing that is read afterwards.

### `Interceptors` (`middleware/gin`, `middleware/grpc`)

The Observability middleware of both kinds around a handler, with the Recovery
of gRPC: skipped paths, injected trace headers, the captured bodies, the entry.
What a gin handler writes with `WriteString` is sent past the capture (`aside`);
gRPC captures both messages whole, or nothing of one that JSON cannot express.
Paths and patterns are sequences of `Chars` and matchPath is a function on
them; the property gives the patterns a meaning of its own (`Reach`: what a
pattern read so far may stand for) and not the code's prefixes and suffixes. A
`*` inside of a pattern is no wildcard in the code and none in the property.
`Relevel` is a `log.Init` of another goroutine in the middle of a call.

### `TokenConfig` (`token`)

`config` has the words of the fields key, identityKey and skipPaths; `Assign`
writes one word. `Held` is what a reader with the lock sees and `Glimpse` what
one without may see: the value, the empty value, a wrong one or a fault. A
reader of a torn string gets one of the two last, the build decides which.
Steps end where the code gives up the lock or reads the configuration again.
The options of Init are applied in any order and one more than once
(`ApplyOption`). Sign takes key and name under one lock (`TakeConfig`),
SignWithClaims the key alone (`TakeSigningKey`) and signs whatever claims its
caller has. `tokens` keeps the first `MaxTokens` tokens for the checks that
follow; further ones are signed and forgotten.
`released` and `inForce` are history: which pairs were configured whenever the
lock was released, and what was configured during a call.

### `SlogHandler` (`otelslog`)

WithAttrs, WithGroup and Handle over the arrays of `GoSlices`. An attribute is
the call it came with and its position. KeyValue goes through the groups around
the leaf one turn at a time (`Wrap`), each an append to an array the handler
holds too; other goroutines may come between the turns. `asked` is history:
what each handler was asked for, as values.

### `Telemetry`, `ProcessLogger` (`options/otel_options.go`, `log`, `logger`)

`Telemetry`: Apply makes the providers for traces, metrics and logs in turn and
may stop after each; a provider has what it was given and not yet exported,
and perhaps a file. Shutdown goes through the same turns, then through the
files. `ProcessLogger` adds `log.Init` in its two assignments, the levels, the
fan-out to outputs and bridge, OpenTelemetry's delegation to the first global
provider, and GORM's reports through the logger. The bridge is the one of
OpenTelemetry's contrib, which `log.go` imports, and external: it takes what its
provider takes. (`src/otelslog` is a handler of its own, in `SlogHandler`.) A
query that GORM keeps to itself, as at the level "panic", is reported to nobody;
no property says otherwise.

### `Authorisation` (`authz`)

The policy in the database and the one casbin holds; a load reads the first and
installs it later, or fails. NewAuthz reads, installs and starts the timer in
steps of their own (`NewAuthz`, `LoadInstalls`, `StartAutoLoadPolicy`): the next
load comes an interval after the last of them, so that a change after the first
waits a load longer; `early` remembers that. Time is counted in ticks,
`Interval` of them between loads. `Authorize` is the default model's matcher and
effect; a subject has its roles, their roles and so on (`Reaches`), as many
levels up as casbin goes.

### `Settings`, `Identifiers`, `Versions` (`options`, `db`, `id`, `rid`, `util/version`)

`Settings` follows an options object from its constructor over the fields a
user overwrites, Complete and Validate to the client that is built from it, for
seven kinds. `AddFlags` overwrites a field of the pool where the code does. The
file of a certificate authority has no PEM block, a certificate or something
else in its first one: TLSConfig returns in the first and the last case and goes
round for ever in the second (`LoadCA`, `AddCert`). A SASL mechanism is a name
and the way it is written. `Identifiers` has NewCode's arithmetic with `Word`
and `Byte` as constants, its digits taken by dividing again and again as the loop
does, and the Sonyflake's life. `Versions` has parsing by what it accepts,
With..., comparison and the search for the highest supported version.

## 4. The runs

| run | question | instance | states |
|---|---|---|---|
| `jwt` | Does a revocation hold until the token expires, through every delay, retry, late command, closed client and a restart? Is the authenticator a token registry? Is every refusal justified, for every class of token and an authenticator without a store beside one with? | Sec = Lifetime = 2 ms, clock to 3; 2 goroutines, 1 authenticator, 1 restart; or 1 goroutine, 2 authenticators, 4 foreign tokens | 563,186 |
| `jwt_expiry_race` (violated) | Is a token refused whenever Destroy returned before the check began? | as `jwt`, no foreign tokens, no restart | – |
| `server` | From the flags to the exit: does nothing answer too early, is no configuration mixed, are shutdowns clean, drained and finite? One body per request, first failure, validated input, whole body? | 4 shapes of program, both kinds of server, 1 edit of the file, 2 keys of the options and 2 of the logger, one of which an edit removes, 3 connections, 2 signals; 2 requests, 2 sentinels, 2 validators (1 nil), bodies 0–3 with a limit of 1 | 412,898 |
| `server_grpc_early_stop` (violated) | Does stopping a server never kill the process? | 3 connections, 2 signals | – |
| `server_grpc_stuck_rpc` (violated) | Does GracefulStop honour its context? | same, handlers need not end | – |
| `store` | Is a failed run without a trace, are reads a run's own, also nested? Do queries ask what their builders asked? Is no model skipped? | 2 goroutines, 2 keys, 2 runs, 2 operations of seven kinds each, 2 connections; 5 calls on Options, integers up to 7; 3 models, 2 Migrates | 534,089 |
| `store_progress` | Does every run end with a single connection in the pool? | 2 goroutines, 1 key, 2 runs, 1 connection, all seven kinds of operation | 171,648 |
| `store_nested_rollback` (violated) | Is a Run atomic when another runs inside? | as `store`, Create only | – |
| `request_shared_error` (violated) | Are the details in a response its own? | 2 requests, 1 sentinel | – |
| `process` | What a process keeps for itself: are records, codes, versions, log entries, decisions, clients, tokens and telemetry what they should be? | 4 handlers and 2 records; 4 providers, 3 files, 1 Init; words of 64 and bytes of 8; 3 versions; 2 goroutines with 2 writes of the token configuration, 3 options in them and 1 token; 1 call on paths of up to 3 characters, messages of 0 and 4 bytes; 3 subjects, 2 policies to begin with and 2 changes; 4 fields given | 1,356,552 |
| `settings_ca_file` (violated) | Does TLSConfig return? | as `process`, options only | – |
| `identifiers_collide` (violated) | Does every number have a code of its own? | 100 characters, 3 places, bytes of 256 | – |

Why these bounds are enough. Two goroutines give every overlap of two calls,
and the properties speak of one call and its surroundings; a third actor is
the clock, redis, the database, the file system or another signal. The clock of
the JWT runs goes past the life of a token and across a boundary of seconds,
with tokens issued at both ends of a second. Two runs are what a nested run, and
a conflict of two, needs. Five calls make Options from a shared map, filter, take
a count and look a tenant up while it is registered anew; integers up to 7 let a
page of 4 by 4 wrap. Three models are two that overlap and one that must not be
lost. A body limit of 1 has
bodies below, at, one above and two above it. One edit of the file between two
logger keys is what can mix two versions. Four handlers are a parent, two
children and one of theirs, with lists that leave room in their arrays; two
records can disturb each other. Four providers are a failed Apply, its
successor and a Shutdown after either. Bytes of 8 wrap as those of 256 do, with
codes on both sides of the wrap. Two writes of the token configuration allow a
key to be replaced, or reset and set, within one call, three options a key and a
name and a second one of either; two changes of the
policy allow one before and one after a load has read.

`MaxTime`, `MaxWipes`, `MaxSignals`, `MaxEdits`, `MaxRuns`, `MaxCalls`,
`MaxBuilding`, `MaxMigrations`, `MaxBody`, `MaxWrites`, `MaxHandlers`,
`MaxTokens`, `MaxRecords`, `MaxProviders`, `MaxFiles`, `MaxInits`, `MaxCodes`, `MaxLength`,
`MaxVersions`, `MaxOptions`, `MaxWrite`, `LoadTime`, `MaxChanges`, `MaxGiven` are bounds of the
models and not of the code; where they are reached nothing more happens, so
these runs do not look for deadlock (`CHECK_DEADLOCK FALSE`) except in the JWT
runs, where Release stays possible and the check says little. In `server` the
process really ends.

`identifiers_collide` takes 100 characters because TLC counts in 32 bits: the
sums wrap as soon as the length times the number of characters less one reaches
256, which the default 30 characters do at a length of 9.

Symmetry is used in runs without a liveness property, over goroutines, keys and
requests: sets whose members no definition names.

## 5. Fairness

* `server` (`AppFairness`): both goroutines run, the draining goes on, the timer
  fires (weak fairness: each of these steps stays possible until it is taken).
  Nothing is assumed of what runs before the callback, of signals, clients and
  HTTP handlers. `SignalEndsProcess` additionally assumes that the handlers of a
  gRPC server end, because GracefulStop has no deadline there; without it the
  property is false, which is `server_grpc_stuck_rpc` (`FairSpec` against
  `FairHandlersSpec`).
* `store_progress` (`FairSpec`): statements that can run do, functions passed to
  Run return, and a database ends a wait that is hopeless (deadlock detection
  and lock timeouts; the driver for a broken transaction). Waiting for a
  connection is never ended from outside: `database/sql` waits as long as the
  context.
* `settings_ca_file` (`FairSettingsSpec`): a program that starts takes its next
  step. The step TLSConfig takes there is one more round of its loop.
* No other run has a liveness property. `DecisionsFollowPolicy` bounds a delay
  by counting ticks and is a safety property.

## 6. The proofs

All theorems hold for every value of the constants that satisfies the named
assumptions of the modules, e.g. any number of goroutines, tokens, rows, files,
models, handlers and any clock. Every property of a passing run has a theorem
but the two that are liveness (`SignalEndsProcess`, `RunsEnd`).

| module | proves about |
|---|---|
| `JWTAuth_proofs` | `JWTAuth`, its refinement of `TokenRegistry` |
| `AppBoot_proofs` | `ServerLifecycle`, `AppBoot` and its refinement of the former |
| `Store_proofs` | `TxStore`, `QueryConditions`, `ModelRegistry` |
| `Requests_proofs` | `RequestPipeline`, `Interceptors`, `Authorisation` |
| `Process_proofs` | `TokenConfig`, `Settings`, `Versions`, `Identifiers` |
| `SlogHandler_proofs` | `SlogHandler` |
| `ProcessLogger_proofs` | `Telemetry`, `ProcessLogger` |
| `Foundations` | least elements, functions that recur on a number, `GoSlices` |

**JWT.**
* `TypeCorrect`: `op` and `reply` are typed by what has been issued, which
  grows, hence the lemma `TypesGrow`.
* `BlacklistInvariance`: `RevocationCoversLife` says that a destroyed token has
  a live entry; it is not inductive because between `time.Until` and the Set,
  and between the Set and its reply, there is no entry the caller has been
  promised. The promise is carried by the command (`CommandCovers`: applied now,
  it reaches the last millisecond of the token), by the entry (`EntryCovers`)
  and by the reply (`AppliedCovers`). `KeyOfInjective` keeps the entries of
  different tokens apart. `AuthCorrect`, `RevocationCorrect` and
  `BlacklistBounded` are parts of it.
* `RevocationEffective` is the action property `RevokedStaysRejected`. What redis
  answered may be old when the call returns: `AnswersHold` (`AnswersStand`) says
  that it is still true of every token destroyed before the call began, because
  such a token had its entry when redis was asked (`CommandCovers`,
  `EntryCovers`); `Pending` that a call which has not been answered has nothing
  to go by.
* `RejectionsJustified`: who is told that his token is invalid found an entry,
  and an entry comes from a command that was sent. `SignedTokensUsable` is about
  the truncation in Sign and assumes a lifetime of a second at least.
* `ImplementsRegistry`: `Spec => RegistrySpec`. A Set, an erasure and a tick
  change the revoked tokens as Revoke, Restore and Expire of the registry do;
  answers are issues and acceptances; every other step stutters. It rests on
  `EntriesLive`: redis' entries are of tokens that were issued.

**Boot and server.**
* `LifecycleCorrect`: the type, the coupling of the two goroutines and what is
  settled when Serve returns. `NothingCutOff` is about the end of the process
  and says nothing of the steps before it, so the invariant says where the
  goroutines are at that moment. `ShutdownDrains`, `HTTPStopsCleanly` follow.
* `AppImplementsLifecycle`: `AppSpec => Spec`; with it `AppLifecycleCorrect` and
  `AppShutdownDrains` are the theorems above for the whole program.
* `AnswersOnlyAfterValidation` and `ConfigurationNotMixed` by `Passed` (what the
  stages behind `stage` have established) and `Reading` (viper is never older
  than what was read from it, and loses a key between IsSet and Get only to the
  watcher).

**Store.**
* `StoreCorrect`: a row's writer has had its COMMIT sent, because only open
  transactions hold writes, no two of them hold one row (`LocksHeld`), and a
  number not yet given to a run has written nothing (`Unstarted`).
  `RollbackIsComplete` follows; `RunReadsItself` is the action property
  `ReadsOwnWrites`, with the lemma that only Get and List change a reply of
  their kind.
* `NoRunLeftBehind`: by `Nesting`: the run a goroutine is in is open and the
  parents of open runs lead to it, so that ending the inner one hands the
  goroutine back to the outer.
* `QueriesIndependent`: `QueriesAreIndependent` speaks of Options that have
  their map to themselves and says nothing of the lists of conditions, which
  CountOptions shares too. `QueryInvariant` adds that who shares a list shares
  the map (so an append into spare room is seen by nobody who has his map
  alone), that the window is what was asked for whoever shares what (paging
  wraps: `Window` is about offsets a machine integer holds), and what the
  lookup of a tenant has still to add (`Right`).
* `MigrateSkipsNoModel`: `Kept` (a registered model stays in the slice unless
  its Register overlapped another) and `Loop` (what is due is behind the index
  and has its table, or is ahead of it).

**Requests.**
* `OneAnswer`, `FirstFailureTold`, `OnlyValidRequestsHandled`, `BodyKept` from
  one invariant that says per request and place what is written, what is still
  in the body and which validators had their turn (`Answering`, `Carrying`,
  `Finalizing`); `SameIsOwned` keeps it for all requests but the one that moves.
* `LogTellsEveryCall`: `InterceptorInvariant` is about each call by itself: its
  headers are of its trace, what was captured of the body is what fits
  (`Carried`; the strings of HTTP go past it, the messages of gRPC do not), what
  the call found of the level holds as long as nobody changes it (`AsFound`), and
  its entries are none until it is done (`Told`).
* `PatternsSkip`: what the skip patterns mean is a recursion over the pattern;
  `GlobIsMatch` takes it apart by the ends of the pattern that are wildcards:
  a run without one stands for itself (`ReachOfLiterals`, by induction over its
  length), a wildcard for any text, and what remains is `HasPrefix`, `HasSuffix`
  or `Contains` of the part between (`StartsIs`, `EndsIs`, `HasIs`). That a call
  keeps the path and the verdict it came with is `AsRuled`.
* `AuthzFollowsPolicy`: the age of a change is bounded only if a load is due or
  under way: `FollowedUp` says that a policy that differs from the database's
  was changed after the last tick, or a load with the policy of now is running
  and the change is at most an interval older than it, or NewAuthz is between its
  steps; `LoadsOnTime` bounds the clocks. Roles do not come into it: the same
  policy gives the same decision, whatever the hierarchy.

**Process.**
* `LockKeepsConfigurationWhole`: torn words exist only while their writer holds
  the lock. `TokensSignedTogether`: what Sign copied under the lock is a pair
  that was released, what SignWithClaims copied is the key of one.
* `VerdictsRestOnConfiguration`: `Informed` says of every reader, at each of its
  stops, that the configuration of now counts as in force during its call, that
  the key it holds was, and that the token it has verified carries that key.
* `ClientsAreAsAsked`: nothing changes an object between Validate and the client
  (`SettingsInvariant`); the rest is that what Validate accepts, and the
  defaults of `db` for any integers, make what the property asks for. It is
  about clients that are built; whether they are, and authenticate, are
  properties that fail (section 7).
* `VersionsAreOrdered`: versions are turned into rows of numbers, padded with
  zeros, whose first difference decides (`NumbersByPlace`), pre-releases into
  rows of ranks (`IdentifiersByPlace`); such rows are ordered for any length
  (`BeforeTotal`, `BeforeTransitive`), and the property follows for every
  version parsing or With... can make (`AnyVersion`).
* `SearchFindsHighest`: `Best` says of the loop what it has found among the
  versions behind its index.
* `CodesTellNumbersApart`: division with remainder; a factor without a common
  divisor can be cancelled (`CoprimeCancels`, and for powers); the digits
  determine a number up to a multiple of the power (`SameDigits`); the
  permutation is one-to-one on a finite set and so reaches every place
  (`PermutedOnto`); the last digit takes the diffusion off the others
  (`DiffusedTells`). Numbers with one code are then a multiple of chars^l apart
  and less than that. It holds for any word and byte, 64 and 8 bits included.

**Logging.**
* `HandlersKeep`: what handlers hold is never written to because two slices of
  one array that handlers hold are the same slice (`Own`), appends write behind
  the length of the slice they are given, and WithAttrs appends to a clone.
* `RecordsAreDisturbedBySharingOnly`: `RecordOK` says of a record, map by map,
  what its array has at the places the record wrote, unless another record of a
  handler with the same group may have written there; `Lasting` is what a step
  does to the records and handlers that are there, and `Outwards` that no group
  that has something is left out on the way from the leaf.
* `NothingLostToAClosedFile` and `ShutdownReleases`: a provider in its place
  writes to an open file until it is stopped, one that stopped has nothing left
  (`Writable`), and the open files are those Shutdown knows of (`FilesKnown`),
  through every failure of Apply.
* `RecordsArrive`: the same with `log.Init` in between, and by `BoundInOrder`
  (a logger is bound to no provider older than the first one and none younger
  than the one in force) that every record of a bridged logger reaches it.

Induction. The induction theorems of the library take an operator as a
parameter, which the provers cannot instantiate. `Foundations` has two that take
sets instead, from the well-foundedness of `<` on the numbers: a set with 0 and
with the successors of its members has all numbers (`SetInduction`), and a start
and steps from a number to the next have a function (`IterationExists`), which
makes a recursive function equal to its defining equation.

The assumptions of the modules are what the code has: lengths and characters
that fit a byte and are not none (`IdentifiersAssumption`), page arguments that
are machine integers, and a mark for "no tenant" that is no tenant
(`ConditionsAssumption`), pool sizes that are integers (`SettingsAssumption`), a
list of no attributes that keeps none (`SlogAssumption`), paths and patterns
made of characters, the star and the slash among them
(`InterceptorsAssumption`). TLC evaluates them in the runs.

Where the alternatives of a CASE overlap its meaning is any of them, and nothing
can be proved of it; the models have IF for such choices, in the order of the
code's own conditions.

Checked by TLC only: liveness (`SignalEndsProcess`, `RunsEnd`), which is out of
the prover's reach, and the seven statements of the documentation that the code
violates (section 7), each on an instance.

## 7. What the checks found

Each of the first seven is a run that ends in a violation.

1. `jwt_expiry_race`: ParseClaims parses a token in its last millisecond and
   asks redis after the entry has expired: a destroyed token is accepted by a
   call that began after Destroy had returned (`authn/jwt/jwt.go:260`).
2. `server_grpc_early_stop`: a signal before the goroutine of RunOrDie has
   called `grpc.Server.Serve` makes it return ErrServerStopped, and
   `klog.Fatalf` kills the process (`server/grpc_server.go:57`).
3. `server_grpc_stuck_rpc`: the gRPC GracefulStop ignores the context Serve
   gives it (`server/grpc_server.go:65`).
4. `store_nested_rollback`: a Run within a Run begins a transaction of its own;
   the outer one fails and the inner one's rows stay (`store/store.go:68`).
5. `request_shared_error`: responses carry details, or halves of details, that
   other requests wrote into the shared error (`core/core.go:150`).
6. `identifiers_collide`: NewCode sums its digits in a byte, which wraps for
   long codes or many characters: two numbers get one code (`id/code.go:21`).
7. `settings_ca_file`: with a certificate in the file of the authority TLSConfig
   decodes the first block again and again and never returns
   (`options/tls_options.go:93`).

Seen while reading, without a run:

* Two Signs of one user within a second return the same token; destroying one
  destroys both (`authn/jwt/jwt.go:159`). Destroy without a store returns nil.
* `Update` is GORM's Save and inserts a row that is not there. List counts and
  reads in two statements, which need not agree (`store/store.go:268`).
* Nested runs as many as the pool has connections wait for each other.
* WithFilter keeps the caller's map: a Filter or Tenant on one query is in every
  other query made with that map (`store/where/where.go:172`). CountOptions
  shares the map as well, a Filter after it changes the count.
* Two Registers at once may lose a model (`store/registry/registry.go:35`).
* Headers that `setResponseHeaders` sets after `c.Next()` are too late for a
  response with a body (`core/core.go:79`).
* `ShouldBindAll` is documented as URI + Query/Form + JSON and binds URI and
  JSON; gin's own struct validation runs for HandleAllRequest only, because
  `binding` clears gin's validator in its `init`.
* A business error loses its code over gRPC: `GRPCStatus` is nil for codes.OK.
* What a gin handler writes with WriteString, as io.WriteString does, is sent and
  not captured (`middleware/gin/observability.go:357`); it is in `Interceptors`.
* gRPC entries at the debug level have neither method nor status
  (`middleware/grpc/observability.go:107`).
* A second signal during a shutdown is swallowed. With NamedFlagSetOptions the
  global flags are added to a set no command has, so `--version` and `--config`
  are unknown flags (`app/app.go:226`).
* `token.Init` is documented to log a warning on each call and logs nothing;
  Reset configures the identity key "identityKey" where the initial value is "".
* KeyValue is documented not to add the attributes of a call to the group
  (`otelslog/handler.go:345`) and appends to the array of the group: with spare
  capacity a second record overwrites what the first one shows. Handler.Enabled
  asks the OpenTelemetry logger first: where that takes everything, WithLevel,
  documented as a minimum (`:117`), keeps nothing out.
* `gormLevelMap` has neither "INFO" nor "fatal"; GORM then warns (`log/gorm.go:17`).
* Apply a second time replaces providers without stopping them
  (`options/otel_options.go:446`).
* Kafka's Validate compares the mechanism in small letters and GetMechanism as
  it is written (`options/kafka_options.go:207`, `:280`): "Plain" passes and the
  dialer does not authenticate. The flag for idle connections of MySQL and
  PostgreSQL starts with the number of open ones, and so overwrites their default
  (`options/mysql_options.go:59`). Both are in `Settings`. Mongo accepts a
  timeout of zero or less; secure serving accepts half a pair of certificate and
  key; LogLevel of MySQL and PostgreSQL is not used.
* A Sonyflake that has run out of time makes Id try again for ever
  (`id/sonyflake.go:57`).
* Comparing pre-releases that have numbers and names at the same place is not
  transitive (`util/version/version.go:299`).

Assumptions behind the models: Recovery is the outermost middleware, nobody
returns `errx.OK` as an error, a marshalling failure (`RenderFails`) leaves an
empty 200; an Options value is built by one goroutine; providers that an Apply
replaces are nobody's any more.

## 8. What is not modelled, and why

`PROJECT.json`, "components", says it part by part. In short: i18n, validation
and the helpers keep no state worth a property (what i18n and validation decide
is in `RequestPipeline` as a validator that accepts or refuses); `api` is
generated; lint analysers do not run in a program; `otelslog/convert.go`,
most of AddFlags, DSN strings, help texts and build information only format or name
things; of the options the kinds that are records of fields without a condition
are left out. Wording, logging and formatting appear where a property is about
them. Of modelled parts: the cryptography and the parsing of JWTs (a class
instead), the contents of rows, the text of conditions, the metadata of errors,
which no HTTP response carries, which patterns of `token` match a path (both
outcomes are allowed), the context extractors of the logger, casbin and viper
except as their callers see them.

## 9. The plan

What remains, in the order of its worth:

1. Proofs: an abstract specification of the transaction runner (commit or
   nothing, in one step) that `TxStore` implements, and of the answer to a
   request that `RequestPipeline` implements; `ComparisonIsOrder` for versions
   made by hand, which parsing would refuse.
2. `store/where`: Options that two goroutines use at once; `defaultOrder`.
3. `i18n` bundles loaded while they are used; `util/retry`.
4. Liveness of the logger: an exporter that hangs and a Shutdown with a deadline.

## 10. How to run it

    tlc -workers 2 -config jwt.cfg MCJWTAuth          # every run: module and cfg in PROJECT.json
    tlapm JWTAuth_proofs.tla                          # Foundations and every *_proofs module
