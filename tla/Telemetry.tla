----------------------------- MODULE Telemetry -----------------------------
(*****************************************************************************)
(* The OpenTelemetry providers of options/otel_options.go: Apply makes one   *)
(* for traces, one for metrics and one for logs, each with an exporter that  *)
(* may write to a file, and Shutdown stops them and closes the files.        *)
(* Apply and Shutdown hold the lock of the options from beginning to end, so *)
(* one call runs at a time, but the providers they install are in use by the *)
(* whole process at once.                                                    *)
(*                                                                           *)
(* What a provider has been given and not yet exported is told by pending.   *)
(*                                                                           *)
(* A definition Name_Mistake is a mistake one could make in Name; nothing    *)
(* uses it but the experiments that put it in Name's place.                  *)
(*****************************************************************************)
EXTENDS Integers, Sequences, FiniteSets

CONSTANTS
  OutputModes,   \* the output modes of the options
  MaxProviders,  \* bound: providers made
  MaxFiles       \* bound: files opened

ASSUME TelemetryAssumption ==
  /\ OutputModes \subseteq {"classic", "otel", "file", "console", "hybrid"}
  /\ MaxProviders \in Nat
  /\ MaxFiles \in Nat

VARIABLES
  mode,       \* the output mode
  slogOutput, \* where SlogOptions write: "stream" or "file"
  inCall,       \* the call that runs: "none", "Apply" or "Shutdown"
  turn,       \* its turn: an index of Signals, or one more for the files
  down,       \* the last call of Apply or Shutdown was a Shutdown
  providers,  \* every provider made
  current,    \* current[s]: the provider of signal s, 0 for none
  files,      \* every file opened: whether it is open
  tracked,    \* OTelOptions.files
  slogTo      \* the provider slog's default logger emits to, 0 for none

teleVars == <<mode, slogOutput, inCall, turn, down, providers, current, files, tracked, slogTo>>

Signals == <<"traces", "metrics", "logs">>
Files == Len(Signals) + 1   \* the turn of the files in Shutdown

\* The switches of initTraces, initMetrics and initLogs.
Exporter(s) ==
  IF mode = "file" THEN "file"
  ELSE IF mode = "console" THEN "stdout"
  ELSE IF mode = "otel" \/ (mode = "hybrid" /\ s = "traces") THEN "network"
  ELSE [traces |-> "none", metrics |-> "registry", logs |-> "slog"][s]

\* A log provider of the console mode hands records on at once, a registry is
\* read by a scraper: they keep nothing.
Buffers(s) == Exporter(s) \in {"file", "network"} \/ (Exporter(s) = "stdout" /\ s # "logs")

TeleInit ==
  /\ mode = "classic"
  /\ slogOutput = "stream"
  /\ inCall = "none"
  /\ turn = 1
  /\ down = FALSE
  /\ providers = <<>>
  /\ current = [s \in {"traces", "metrics", "logs"} |-> 0]
  /\ files = <<>>
  /\ tracked = {}
  /\ slogTo = 0

\* NewOTelOptions; flags and the configuration file change it before Apply.
Configure ==
  /\ inCall = "none" /\ providers = <<>> /\ files = <<>>
  /\ mode' \in OutputModes
  /\ slogOutput' \in {"stream", "file"}
  /\ UNCHANGED <<inCall, turn, down, providers, current, files, tracked, slogTo>>

-----------------------------------------------------------------------------
(* Apply *)

Apply ==
  /\ inCall = "none"
  /\ inCall' = "Apply" /\ turn' = 1 /\ down' = FALSE
  /\ UNCHANGED <<mode, slogOutput, providers, current, files, tracked, slogTo>>

Advance ==
  /\ inCall' = IF turn = Len(Signals) THEN "none" ELSE inCall
  /\ turn' = IF turn = Len(Signals) THEN 1 ELSE turn + 1
Abort == inCall' = "none" /\ turn' = 1

\* createFileWriter, when the exporter is one to a file.
OpenWriter(s) ==
  IF Exporter(s) = "file"
  THEN /\ Len(files) < MaxFiles
       /\ files' = Append(files, TRUE)
       /\ tracked' = tracked \cup {Len(files) + 1}
  ELSE UNCHANGED <<files, tracked>>

\* initTraces, initMetrics or initLogs: the provider replaces what was there,
\* which goes on running.
InitProvider(s) ==
  /\ Exporter(s) # "slog"
  /\ Len(providers) < MaxProviders
  /\ OpenWriter(s)
  /\ providers' = Append(providers,
       [signal |-> s, state |-> "running", pending |-> FALSE,
        file |-> IF Exporter(s) = "file" THEN Len(files) + 1 ELSE 0])
  /\ current' = [current EXCEPT ![s] = Len(providers) + 1]
  /\ slogTo' = IF s = "logs" THEN Len(providers) + 1 ELSE slogTo
  /\ Advance

\* initLogs with the classic logging, SlogOptions.Apply: the file it may open
\* is nobody's to close.
InitSlog(s) ==
  /\ Exporter(s) = "slog"
  /\ IF slogOutput = "file"
     THEN Len(files) < MaxFiles /\ files' = Append(files, TRUE)
     ELSE UNCHANGED files
  /\ slogTo' = 0
  /\ Advance
  /\ UNCHANGED <<providers, current, tracked>>

InitFails_ClosesFiles(s) ==
  /\ Exporter(s) \in {"file", "network", "slog"}
  /\ Abort
  /\ files' = [f \in DOMAIN files |-> files[f] /\ f \notin tracked]
  /\ tracked' = {}
  /\ UNCHANGED <<providers, current, slogTo>>

\* The file cannot be opened or the exporter not made; or initLogs panics,
\* when there are no SlogOptions.
InitFails(s) ==
  /\ Exporter(s) \in {"file", "network", "slog"}
  /\ Abort
  /\ UNCHANGED <<providers, current, files, tracked, slogTo>>

ApplyStep ==
  /\ inCall = "Apply"
  /\ LET s == Signals[turn] IN InitProvider(s) \/ InitSlog(s) \/ InitFails(s)
  /\ UNCHANGED <<mode, slogOutput, down>>

-----------------------------------------------------------------------------
(* Shutdown *)

Shutdown ==
  /\ inCall = "none"
  /\ inCall' = "Shutdown" /\ turn' = 1
  /\ UNCHANGED <<mode, slogOutput, down, providers, current, files, tracked, slogTo>>

Stopping_EndsAtFirstError(outcome) ==
  IF outcome = "draining" THEN inCall' = "none" /\ turn' = 1 /\ down' = TRUE
  ELSE turn' = turn + 1 /\ UNCHANGED <<inCall, down>>

\* The calls of Shutdown go on after an error.
Stopping(outcome) == turn' = turn + 1 /\ UNCHANGED <<inCall, down>>

\* The provider flushes and stops, or the context ends first: what is left may
\* still come out of its goroutine. One that has been stopped does nothing.
StopProvider ==
  /\ inCall = "Shutdown" /\ turn < Files
  /\ LET p == current[Signals[turn]] IN
       IF p # 0 /\ providers[p].state = "running"
       THEN \E outcome \in {"stopped", "draining"} :
              /\ providers' = [providers EXCEPT
                   ![p].state = outcome, ![p].pending = outcome = "draining" /\ @]
              /\ Stopping(outcome)
       ELSE Stopping("stopped") /\ UNCHANGED providers
  /\ UNCHANGED <<mode, slogOutput, current, files, tracked, slogTo>>

CloseFiles ==
  /\ inCall = "Shutdown" /\ turn = Files
  /\ files' = [f \in DOMAIN files |-> files[f] /\ f \notin tracked]
  /\ tracked' = {}
  /\ down' = TRUE
  /\ Abort
  /\ UNCHANGED <<mode, slogOutput, providers, current, slogTo>>

-----------------------------------------------------------------------------
(* The providers in use *)

Given(p) == providers[p].state = "running" /\ Buffers(providers[p].signal)
TakenBy(p) == providers' = [providers EXCEPT ![p].pending = @ \/ Given(p)]

\* The application emits a span or a measurement.
Emit(s) ==
  /\ current[s] # 0
  /\ TakenBy(current[s])
  /\ UNCHANGED <<mode, slogOutput, inCall, turn, down, current, files, tracked, slogTo>>

\* A batch goes out, or out of time is dropped.
Export(p) ==
  /\ providers[p].pending
  /\ providers' = [providers EXCEPT ![p].pending = FALSE,
                     ![p].state = IF @ = "draining" THEN "stopped" ELSE @]
  /\ UNCHANGED <<mode, slogOutput, inCall, turn, down, current, files, tracked, slogTo>>

TeleNext ==
  \/ Configure \/ Apply \/ ApplyStep
  \/ Shutdown \/ StopProvider \/ CloseFiles
  \/ \E s \in {"traces", "metrics"} : Emit(s)
  \/ \E p \in DOMAIN providers : Export(p)

TeleSpec == TeleInit /\ [][TeleNext]_teleVars

-----------------------------------------------------------------------------
(* Properties *)

\* Another Apply has put a provider in its place.
Replaced(p) == current[providers[p].signal] # p

\* What a provider has been given it can still write: its file is not closed
\* under it, however Apply failed and was tried again, unless Apply has
\* replaced the provider or Shutdown ran out of time (Shutdown, Apply).
FlushedBeforeClose ==
  \A p \in DOMAIN providers :
    providers[p].pending /\ providers[p].file # 0 =>
      files[providers[p].file] \/ Replaced(p) \/ providers[p].state = "draining"

\* After a Shutdown, whatever failed in it or in the Applys before, no provider
\* runs that was not replaced, and no file is open but those of slog.
ShutdownReleasesAll ==
  down /\ inCall = "none" =>
    /\ \A p \in DOMAIN providers : providers[p].state = "running" => Replaced(p)
    /\ \A p \in DOMAIN providers : providers[p].file # 0 => ~files[providers[p].file]
=============================================================================
