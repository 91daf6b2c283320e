------------------------------- MODULE AppBoot -------------------------------
(***************************************************************************)
(* What comes before Serve: NewApp and runCommand of app/app.go with       *)
(* app/config.go, the version flag and the health endpoint, composed with  *)
(* the life cycle of the server the callback runs.                         *)
(*                                                                         *)
(* The goroutine of runCommand walks from the flags to the callback; the   *)
(* configuration file may be edited at any time, viper's watcher reads it  *)
(* again if it was asked to, the health endpoint listens in a goroutine of *)
(* its own, and a signal may come at any step.                             *)
(*                                                                         *)
(* The contents of the file are told apart by a version number.  What a    *)
(* flag or the environment gives is the same at every reading and is left  *)
(* out.  viper swaps the map of its values whole, but whoever wants several*)
(* keys asks for them one by one, and IsSet and Get are two questions.     *)
(*                                                                         *)
(* A definition Name_Mistake is a mistake one could make in Name; nothing  *)
(* uses it but the experiments that put it in Name's place.                *)
(***************************************************************************)
EXTENDS ServerLifecycle, Sequences

CONSTANTS
  Apps,       \* what the With... options of NewApp may have set
  Arguments,  \* the sets of flags a command line may give
  OptionKeys, \* how many keys Unmarshal reads, one after the other
  Invalid,    \* the options, key by key, that Unmarshal, Complete or Validate refuses
  LogKeys,    \* how many keys initializeLogger reads, one after the other
  LogKeysIn,  \* LogKeysIn[v]: those among them that version v of the file sets
  MaxEdits,   \* bound: how often the file is written
  Unread      \* viper has no file: every option has its default

Versions == {Unread} \cup 0..MaxEdits

ASSUME BootAssumption ==
  /\ MaxEdits \in Nat
  /\ OptionKeys \in Nat \ {0} /\ LogKeys \in Nat \ {0}
  /\ Unread \notin Nat
  /\ Invalid \subseteq Seq(Versions)
  /\ LogKeysIn \in [0..MaxEdits -> SUBSET (1..LogKeys)]
  /\ Apps \subseteq [options: {"none", "flags", "named"}, config: BOOLEAN,
                     watch: BOOLEAN, health: {"none", "default", "custom"},
                     callback: {"context", "plain"}]
  /\ Arguments \subseteq SUBSET {"config", "version"}

VARIABLES
  app,       \* the *App
  args,      \* the flags of this command line
  stage,     \* where runCommand is while main is "booting"
  file,      \* the version of the configuration file
  viper,     \* the version viper holds
  settings,  \* app.options: the version each key was unmarshalled from, so far
  logger,    \* the same for initializeLogger, with what the key's value is
  health     \* the health endpoint

bootVars == <<app, args, stage, file, viper, settings, logger, health>>
appVars == <<vars, bootVars>>
serverVars == <<kind, main, runner, phase, timer, signals, conn, fault>>

AppInit ==
  /\ Init
  /\ app \in Apps
  /\ args \in Arguments
  /\ stage = "flags"
  /\ file = 0
  /\ viper = Unread
  /\ settings = <<>>
  /\ logger = <<>>
  /\ health = "none"

-----------------------------------------------------------------------------
(* runCommand *)

\* buildCommand adds --version and --config to a flag set of its own; with
\* options that name their flag sets that one is not among the command's.
Flags ==
  IF app.options = "named" THEN {}
  ELSE {"version"} \cup (IF app.config THEN {"config"} ELSE {})

At(s) == main = "booting" /\ stage = s

Goes(s) == stage' = s /\ UNCHANGED <<process, serverVars>>

\* An error, or os.Exit, before the callback: BootFails of the life cycle.
Quit(s, why) == At(s) /\ why /\ BootFails /\ UNCHANGED <<kind, bootVars>>

ParseFlags ==
  /\ At("flags")
  /\ args \subseteq Flags
  /\ Goes(IF app.config THEN "file" ELSE "version")
  /\ UNCHANGED <<app, args, file, viper, settings, logger, health>>

UnknownFlag == Quit("flags", ~(args \subseteq Flags))

\* cobra.OnInitialize; a file that cannot be read is only logged.
ReadInConfig ==
  /\ At("file")
  /\ viper' \in {viper, file}
  /\ Goes("version")
  /\ UNCHANGED <<app, args, file, settings, logger, health>>

NoVersion ==
  /\ At("version")
  /\ "version" \notin args
  /\ Goes(IF app.options = "none" THEN "logger" ELSE "unmarshal")
  /\ UNCHANGED <<app, args, file, viper, settings, logger, health>>

PrintAndExit == Quit("version", "version" \in args)

\* viper.Unmarshal gathers its settings key by key.
Unmarshal ==
  /\ At("unmarshal")
  /\ settings' = Append(settings, viper)
  /\ Goes(IF Len(settings') = OptionKeys THEN "validate" ELSE "unmarshal")
  /\ UNCHANGED <<app, args, file, viper, logger, health>>

ValidateApp_Unheard ==
  /\ At("validate")
  /\ Goes("logger")
  /\ UNCHANGED <<app, args, file, viper, settings, logger, health>>

\* Complete and Validate look at what was unmarshalled and at nothing else.
ValidateApp ==
  /\ At("validate")
  /\ settings \notin Invalid
  /\ Goes("logger")
  /\ UNCHANGED <<app, args, file, viper, settings, logger, health>>

OptionsRefused == Quit("validate", settings \in Invalid)

\* initializeLogger asks viper again, key by key: first IsSet, and if so Get.
SetInViper(k) == viper # Unread /\ k \in LogKeysIn[viper]

Logs(value) ==
  /\ logger' = Append(logger, [version |-> viper, value |-> value])
  /\ Goes(IF Len(logger') = LogKeys THEN "health" ELSE "logger")
  /\ UNCHANGED <<app, args, file, viper, settings, health>>

LogKeyNotSet ==
  /\ At("logger")
  /\ ~SetInViper(Len(logger) + 1)
  /\ Logs("default")

LogKeyIsSet ==
  /\ At("logger")
  /\ SetInViper(Len(logger) + 1)
  /\ Goes("value")
  /\ UNCHANGED <<app, args, file, viper, settings, logger, health>>

\* Get of a key that is there no more yields the zero value of its type, which
\* is neither the default nor in any file.  log.Init reports nothing.
ReadLogKey ==
  /\ At("value")
  /\ Logs(IF SetInViper(Len(logger) + 1) THEN "file" ELSE "zero")

CheckHealth ==
  /\ At("health")
  /\ health' = IF app.health = "default" THEN "spawned" ELSE health
  /\ Goes("callback")
  /\ UNCHANGED <<app, args, file, viper, settings, logger>>

HealthRefuses == Quit("health", app.health = "custom")

\* NotifyContext, then the callback, which calls Serve.
RunContext ==
  /\ At("callback")
  /\ app.callback = "context"
  /\ Boot
  /\ UNCHANGED <<kind, bootVars>>

\* The callback of the old kind runs without NotifyContext: for a signal the
\* process is booting as long as it lives.
PlainReturns == Quit("callback", app.callback = "plain")

-----------------------------------------------------------------------------
(* The other goroutines, and the world *)

\* ServeHealthCheck: a failure to listen is logged and changes nothing else.
HealthListens ==
  /\ health = "spawned"
  /\ health' \in {"answering", "failed"}
  /\ UNCHANGED <<process, serverVars, app, args, stage, file, viper, settings, logger>>

Edit ==
  /\ file < MaxEdits
  /\ file' = file + 1
  /\ UNCHANGED <<process, serverVars, app, args, stage, viper, settings, logger, health>>

Reload_Always ==
  /\ app.config
  /\ stage \notin {"flags", "file"}
  /\ viper # file
  /\ viper' = file
  /\ UNCHANGED <<process, serverVars, app, args, stage, file, settings, logger, health>>

\* viper.WatchConfig: the watcher reads the file again and app.options, which
\* has been filled, stays as it is.
Reload ==
  /\ app.config /\ app.watch
  /\ stage \notin {"flags", "file"}
  /\ viper # file
  /\ viper' = file
  /\ UNCHANGED <<process, serverVars, app, args, stage, file, settings, logger, health>>

BootStep ==
  \/ ParseFlags \/ UnknownFlag
  \/ ReadInConfig
  \/ NoVersion \/ PrintAndExit
  \/ Unmarshal \/ ValidateApp \/ OptionsRefused
  \/ LogKeyNotSet \/ LogKeyIsSet \/ ReadLogKey
  \/ CheckHealth \/ HealthRefuses
  \/ RunContext \/ PlainReturns

Serving ==
  \/ Launch \/ BeginStop \/ StopReturns \/ Exit
  \/ Deadline
  \/ Signal
  \/ RunOrDie
  \/ ListenerFails
  \/ \E c \in Conns : Accept(c) \/ Request(c) \/ Answer(c) \/ CloseIdle(c)

AppNext ==
  /\ process = "running"
  /\ \/ BootStep
     \/ Serving /\ UNCHANGED <<kind, bootVars>>
     \/ HealthListens \/ Edit \/ Reload

AppSpec == AppInit /\ [][AppNext]_appVars

Runs(A) == process = "running" /\ A /\ UNCHANGED <<kind, bootVars>>

\* The fairness of FairHandlersSpec, without a promise of the code before the
\* callback, which may wait for ever.
AppFairness ==
  /\ WF_appVars(Runs(Launch \/ BeginStop \/ StopReturns \/ Exit))
  /\ WF_appVars(Runs(RunOrDie))
  /\ WF_appVars(Runs(Deadline))
  /\ \A c \in Conns :
       /\ WF_appVars(Runs(CloseIdle(c)))
       /\ WF_appVars(kind = "grpc" /\ Runs(Answer(c)))

-----------------------------------------------------------------------------
(* Properties *)

SettingsHold == Len(settings) = OptionKeys /\ settings \notin Invalid

\* Nothing answers, neither the server nor the health endpoint, in a process
\* whose options were refused or whose logger is not set up, whatever is
\* written to the file meanwhile (app.go, runCommand).
AnswersAfterValidation ==
  health = "answering" \/ (\E c \in Conns : conn[c] # "outside")
    => /\ app.options # "none" => SettingsHold
       /\ Len(logger) = LogKeys

Older(v, w) ==
  /\ w \in Nat
  /\ v = Unread \/ (v \in Nat /\ v < w)

\* A key read later comes from another version only if the file is watched, and
\* then from a newer one.
Follows(w, v) == v # w => app.watch /\ Older(v, w)

\* However the reloads fall between the keys of the options, the keys of the
\* logger and the two questions about one of them: unless the file is watched
\* all have the same version, and if it is no key has an older version than
\* one read before it.  A logger's key is lost, neither default nor in a file,
\* only to a reload (app.go, runCommand and initializeLogger; config.go,
\* AddConfigFlag).
NoMixedConfiguration ==
  /\ \A i, j \in 1..Len(settings) : i < j => Follows(settings[j], settings[i])
  /\ \A i \in 1..Len(settings), j \in 1..Len(logger) :
       Follows(logger[j].version, settings[i])
  /\ \A i, j \in 1..Len(logger) :
       i < j => Follows(logger[j].version, logger[i].version)
  /\ \A j \in 1..Len(logger) : logger[j].value = "zero" => app.watch

=============================================================================
