--------------------------- MODULE ProcessLogger ---------------------------
(****************************************************************************)
(* The logger of the process, package log: Init may replace it at any time, *)
(* it writes to its outputs and, bridged, to the OpenTelemetry log provider *)
(* of Telemetry, and GORM reports its queries through it. Init and Apply    *)
(* both install slog's default logger, each under a lock of its own.        *)
(*                                                                          *)
(* A definition Name_Mistake is a mistake one could make in Name; nothing   *)
(* uses it but the experiments that put it in Name's place.                 *)
(****************************************************************************)
EXTENDS Telemetry

CONSTANTS
  LevelNames,  \* what options may have for a level
  MaxInits     \* bound: calls of log.Init that succeed

ASSUME LoggerAssumption ==
  /\ LevelNames \subseteq {"", "debug", "info", "INFO", "warn", "error", "panic", "fatal"}
  /\ MaxInits \in Nat

VARIABLES
  std,        \* the logger of the process
  installing, \* Init has assigned std and not yet slog's default
  inits,      \* calls of Init that succeeded
  firstLog    \* the first log provider ever set: global delegates to it for good

logVars == <<std, installing, inits, firstLog>>

\* The levels of slog, and GORM's: Silent 1, Error 2, Warn 3, Info 4.
Severity == [debug |-> 0, info |-> 1, warn |-> 2, error |-> 3]
Silent == 1
Error == 2
Warn == 3
Info == 4

\* parseLevel; "panic" and "fatal" are errors, an unknown name is info.
ParseLevel(name) ==
  CASE name = "debug"                     -> Severity.debug
    [] name = "warn"                      -> Severity.warn
    [] name \in {"error", "panic", "fatal"} -> Severity.error
    [] OTHER                              -> Severity.info

\* gormLevel: the map has lower-case names, not "fatal" and not the empty one.
GormLevel(name) ==
  CASE name = "panic"              -> Silent
    [] name = "error"              -> Error
    [] name \in {"info", "debug"}  -> Info
    [] OTHER                       -> Warn

\* newDefaultLogger.
LogInit ==
  /\ std = [level |-> "INFO", bridged |-> FALSE, bound |-> 0]
  /\ installing = FALSE
  /\ inits = 0
  /\ firstLog = 0

-----------------------------------------------------------------------------
(* Init *)

\* The bridge is the one of OpenTelemetry's contrib, which log.go makes with no
\* provider of its own: it takes the global one as it is, the one set or, before
\* any is, one that waits for the first.
BoundNow == current["logs"]

Init_Assigns ==
  /\ inits < MaxInits /\ ~installing
  /\ \E name \in LevelNames, bridged \in BOOLEAN :
       std' = [level |-> name, bridged |-> bridged, bound |-> IF bridged THEN BoundNow ELSE 0]
  /\ installing' = TRUE
  /\ inits' = inits + 1
  /\ UNCHANGED <<firstLog, teleVars>>

Init_SetsDefault ==
  /\ installing
  /\ installing' = FALSE
  /\ slogTo' = IF std.bridged THEN std.bound ELSE 0
  /\ UNCHANGED <<std, inits, firstLog>>
  /\ UNCHANGED <<mode, slogOutput, inCall, turn, down, providers, current, files, tracked>>

\* resolveWriter cannot open an output: the previous logger stays.
Init_Fails ==
  /\ ~installing
  /\ UNCHANGED <<teleVars, logVars>>

-----------------------------------------------------------------------------
(* Logging *)

\* The provider behind the bridge.
Bridge == IF std.bound # 0 THEN std.bound ELSE firstLog

\* The bridge has no level of its own, it asks its provider: one that runs takes
\* every record, and with none set, or a stopped one, there is nobody to take it.
BridgeEnabled == Bridge # 0 /\ providers[Bridge].state = "running"

Handlers(severity) ==
  {h \in {"local", "bridge"} :
     \/ h = "local" /\ severity >= ParseLevel(std.level)
     \/ h = "bridge" /\ std.bridged /\ BridgeEnabled}

Dispatched_StopsAtError(handlers, failing) ==
  IF "local" \in handlers \cap failing THEN {"local"} ELSE handlers

\* fanoutHandler.Handle: each handler that is enabled, whichever of them fail.
Dispatched(handlers, failing) == handlers

Log(severity) ==
  /\ \E failing \in SUBSET {"local"} :
       IF "bridge" \in Dispatched(Handlers(severity), failing)
       THEN TakenBy(Bridge) ELSE UNCHANGED providers
  /\ UNCHANGED logVars
  /\ UNCHANGED <<mode, slogOutput, inCall, turn, down, current, files, tracked, slogTo>>

\* What else goes to slog's default logger.
LogDefault ==
  /\ slogTo # 0
  /\ TakenBy(slogTo)
  /\ UNCHANGED logVars
  /\ UNCHANGED <<mode, slogOutput, inCall, turn, down, current, files, tracked, slogTo>>

\* LogMode changes the level in the options of a copy, and its handler not.
LogMode(level) ==
  CASE level <= Error -> "error" [] level = Warn -> "warn" [] OTHER -> "info"

\* Trace: what a query is reported as, -1 for not at all.
Report(name, failed, found, slow) ==
  LET level == GormLevel(name) IN
  IF level <= Silent THEN -1
  ELSE IF failed /\ found /\ level >= Error THEN Severity.error
  ELSE IF slow /\ level >= Warn THEN Severity.warn
  ELSE IF level >= Info THEN Severity.debug
  ELSE -1

\* GORM uses the logger as it is or a copy made by LogMode.
GormNames == {std.level} \cup {LogMode(level) : level \in Silent..Info}

\* What Trace may make of a query.
Reports ==
  {Report(name, failed, found, slow) :
     name \in GormNames, failed \in BOOLEAN, found \in BOOLEAN, slow \in BOOLEAN} \ {-1}

Trace == \E severity \in Reports : Log(severity)

-----------------------------------------------------------------------------
\* What Telemetry does; the first log provider becomes the delegate.
TeleStep ==
  /\ TeleNext
  /\ firstLog' = IF firstLog = 0 THEN current'["logs"] ELSE firstLog
  /\ UNCHANGED <<std, installing, inits>>

ProcessInit == TeleInit /\ LogInit
ProcessNext ==
  \/ TeleStep
  \/ Init_Assigns \/ Init_SetsDefault \/ Init_Fails
  \/ \E severity \in 0..3 : Log(severity)
  \/ LogDefault
  \/ Trace

processVars == <<teleVars, logVars>>
ProcessSpec == ProcessInit /\ [][ProcessNext]_processVars

-----------------------------------------------------------------------------
(* Properties *)

\* Every record logged with a bridged logger, below the level of its own outputs
\* too, is given to the provider in force, whether Init or Apply came first,
\* whichever Init failed and whatever becomes of the local output, as long as no
\* second Apply has replaced the provider (log.go, Init; fanout.go, Handle).
BridgedRecordsArrive ==
  LET p == current["logs"]
  IN std.bridged /\ p # 0 /\ p = firstLog /\ providers[p].state = "running" =>
       \A severity \in 0..3, failing \in SUBSET {"local"} :
         "bridge" \in Dispatched(Handlers(severity), failing) /\ Bridge = p
=============================================================================
