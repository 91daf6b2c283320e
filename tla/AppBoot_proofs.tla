-------------------------- MODULE AppBoot_proofs ----------------------------
(***************************************************************************)
(* Proofs about ServerLifecycle, for either kind of server, any set of     *)
(* connections and any number of signals, and about AppBoot, for any       *)
(* program NewApp can make, any command line and any number of edits of    *)
(* the configuration file.                                                 *)
(*                                                                         *)
(* With the steps before the callback the process still implements         *)
(* ServerLifecycle, so what is proved there holds of AppBoot; what is      *)
(* served depends on the options and the logger through BootInvariant.     *)
(***************************************************************************)
EXTENDS AppBoot, TLAPS

-----------------------------------------------------------------------------
(* The life cycle of a server                                              *)

\* The actions of the clients move a single connection.
ClientStep(c) == Accept(c) \/ Request(c) \/ Answer(c) \/ CloseIdle(c)

\* The steps of Serve and runCommand keep the invariant: what GracefulStop has
\* waited for when it returns is what the end of the process relies on.
LEMMA MainKeeps ==
  ASSUME LifecycleInvariant, UNCHANGED kind, process = "running", BootFails \/ Main \/ Deadline
  PROVE  LifecycleInvariant'
<1> USE LifecycleAssumption
    DEF LifecycleInvariant, TypeOK, Coupling, Settled, ReturnedIsClosed,
        Cancelled, Open
<1>1. CASE BootFails
  BY <1>1 DEF BootFails
<1>2. CASE Boot
  BY <1>2 DEF Boot
<1>3. CASE Launch
  BY <1>3 DEF Launch
<1>4. CASE BeginStop
  BY <1>4 DEF BeginStop
<1>5. CASE StopReturns
  BY <1>5 DEF StopReturns
<1>6. CASE Exit
  BY <1>6 DEF Exit
<1>7. CASE Deadline
  BY <1>7 DEF Deadline
<1> QED
  BY <1>1, <1>2, <1>3, <1>4, <1>5, <1>6, <1>7 DEF Main

\* The steps of RunOrDie keep it: a runner that meets a draining server stops
\* accepting or, never having accepted, dies.
LEMMA RunnerKeeps ==
  ASSUME LifecycleInvariant, UNCHANGED kind, process = "running", RunOrDie \/ ListenerFails
  PROVE  LifecycleInvariant'
<1> USE LifecycleAssumption
    DEF LifecycleInvariant, TypeOK, Coupling, Settled, ReturnedIsClosed,
        Cancelled, Open
<1>1. CASE HTTPListens
  BY <1>1 DEF HTTPListens
<1>2. CASE HTTPAccepts
  BY <1>2 DEF HTTPAccepts
<1>3. CASE HTTPServerClosed
  BY <1>3 DEF HTTPServerClosed
<1>4. CASE GRPCAccepts
  BY <1>4 DEF GRPCAccepts
<1>5. CASE GRPCServerStopped
  BY <1>5 DEF GRPCServerStopped
<1>6. CASE GRPCStopsAccepting
  BY <1>6 DEF GRPCStopsAccepting
<1>7. CASE GRPCServeReturns
  BY <1>7 DEF GRPCServeReturns
<1>8. CASE ListenerFails
  BY <1>8 DEF ListenerFails
<1> QED
  BY <1>1, <1>2, <1>3, <1>4, <1>5, <1>6, <1>7, <1>8 DEF RunOrDie

\* No signal, first or later, disturbs it.
LEMMA SignalKeeps ==
  ASSUME LifecycleInvariant, UNCHANGED kind, process = "running", Signal
  PROVE  LifecycleInvariant'
<1>1. TypeOK'
  BY LifecycleAssumption DEF LifecycleInvariant, TypeOK, Signal
<1>2. Cancelled'
  BY LifecycleAssumption DEF LifecycleInvariant, TypeOK, Signal, Cancelled
<1>3. Coupling'
  BY <1>2 DEF LifecycleInvariant, Coupling, Signal
<1>4. Settled' /\ ReturnedIsClosed'
  BY DEF LifecycleInvariant, TypeOK, Settled, ReturnedIsClosed, Signal, Open
<1> QED
  BY <1>1, <1>3, <1>4 DEF LifecycleInvariant

\* A client reaches a server only through a runner that accepts, and nothing
\* it does opens a connection of a server that has returned.
LEMMA ClientKeeps ==
  ASSUME LifecycleInvariant, UNCHANGED kind, process = "running",
         NEW c \in Conns, ClientStep(c)
  PROVE  LifecycleInvariant'
<1>1. UNCHANGED <<kind, process, main, runner, phase, timer, signals, fault>>
  BY DEF ClientStep, Accept, Request, Answer, CloseIdle
<1>2. TypeOK'
  BY <1>1 DEF LifecycleInvariant, TypeOK, ClientStep, Accept, Request, Answer,
              CloseIdle
<1>3. Coupling' /\ ReturnedIsClosed'
  BY <1>1 DEF LifecycleInvariant, Coupling, ReturnedIsClosed, Cancelled
<1>4. runner \in {"accepting", "joining", "finished"}
  BY DEF LifecycleInvariant, TypeOK, Settled, ClientStep, Accept, Request,
         Answer, CloseIdle
<1>5. main = "returned" => \A d \in Conns : Open(d)' => Open(d)
  BY DEF LifecycleInvariant, TypeOK, Coupling, ClientStep, Accept, Request,
         Answer, CloseIdle, Open
<1>6. Settled'
  BY <1>1, <1>4, <1>5 DEF LifecycleInvariant, Settled
<1> QED
  BY <1>2, <1>3, <1>6 DEF LifecycleInvariant

\* The two goroutines, the timer and the connections stay coupled as
\* LifecycleInvariant says (server.go, Serve; app.go, runCommand).
THEOREM LifecycleCorrect == Spec => []LifecycleInvariant
<1>1. Init => LifecycleInvariant
  <2> SUFFICES ASSUME Init
               PROVE  LifecycleInvariant
    OBVIOUS
  <2>1. signals \in 0..MaxSignals
    BY LifecycleAssumption DEF Init
  <2>2. TypeOK
    BY <2>1 DEF Init, TypeOK
  <2>3. Coupling /\ Settled /\ ReturnedIsClosed
    BY DEF Init, Coupling, Settled, ReturnedIsClosed, Open
  <2> QED
    BY <2>2, <2>3 DEF LifecycleInvariant
<1>2. LifecycleInvariant /\ [Next]_vars => LifecycleInvariant'
  <2> SUFFICES ASSUME LifecycleInvariant, [Next]_vars
               PROVE  LifecycleInvariant'
    OBVIOUS
  <2>1. CASE Next
    <3>1. process = "running" /\ Step /\ UNCHANGED kind
      BY <2>1 DEF Next
    <3>2. CASE BootFails \/ Main \/ Deadline
      BY <3>1, <3>2, MainKeeps
    <3>3. CASE Signal
      BY <3>1, <3>3, SignalKeeps
    <3>4. CASE RunOrDie \/ ListenerFails
      BY <3>1, <3>4, RunnerKeeps
    <3>5. CASE \E c \in Conns : ClientStep(c)
      BY <3>1, <3>5, ClientKeeps
    <3> QED
      BY <3>1, <3>2, <3>3, <3>4, <3>5 DEF Step, ClientStep
  <2>2. CASE UNCHANGED vars
    BY <2>2 DEF vars, LifecycleInvariant, TypeOK, Coupling, Settled,
                ReturnedIsClosed, Cancelled, Open
  <2> QED
    BY <2>1, <2>2
<1> QED
  BY <1>1, <1>2, PTL DEF Spec

\* A process that ends without a fault cuts off no request, except an HTTP
\* server whose ten seconds are over (server.go, Serve).
THEOREM ShutdownDrains == Spec => []NothingCutOff
<1>1. LifecycleInvariant => NothingCutOff
  <2> SUFFICES ASSUME LifecycleInvariant, process # "running", ~fault,
                      NEW c \in Conns, conn[c] = "active"
               PROVE  kind = "http" /\ timer = "passed"
    BY DEF NothingCutOff
  <2>1. runner \in {"accepting", "joining", "finished"}
    BY DEF LifecycleInvariant, Settled
  <2>2. process # "died" /\ main # "booting"
    BY <2>1 DEF LifecycleInvariant, Coupling, Settled
  <2>3. main = "returned"
    BY <2>2 DEF LifecycleInvariant, TypeOK, Settled
  <2> QED
    BY <2>3 DEF LifecycleInvariant, Settled, Open
<1> QED
  BY <1>1, LifecycleCorrect, PTL

\* Stopping an HTTP server, at whatever moment of its start, never ends in
\* klog.Fatalf (http_server.go, RunOrDie).
THEOREM HTTPStopsCleanly == Spec => []HTTPStopIsClean
<1>1. LifecycleInvariant => HTTPStopIsClean
  BY DEF LifecycleInvariant, Settled, HTTPStopIsClean
<1> QED
  BY <1>1, LifecycleCorrect, PTL

-----------------------------------------------------------------------------
(* The boot of an application                                              *)

\* A step of runCommand is one of the life cycle, or one it does not see.
LEMMA BootStepIsStep ==
  ASSUME process = "running", BootStep
  PROVE  Next \/ UNCHANGED vars
<1>1. CASE ParseFlags \/ ReadInConfig \/ NoVersion \/ Unmarshal \/ ValidateApp
           \/ LogKeyNotSet \/ LogKeyIsSet \/ ReadLogKey \/ CheckHealth
  BY <1>1 DEF ParseFlags, ReadInConfig, NoVersion, Unmarshal, ValidateApp, LogKeyNotSet,
              LogKeyIsSet, ReadLogKey, Logs, CheckHealth, Goes, serverVars, vars
<1>2. CASE UnknownFlag \/ PrintAndExit \/ OptionsRefused \/ HealthRefuses \/ PlainReturns
  BY <1>2 DEF UnknownFlag, PrintAndExit, OptionsRefused, HealthRefuses, PlainReturns,
              Quit, Next, Step
<1>3. CASE RunContext
  BY <1>3 DEF RunContext, Next, Step, Main
<1> QED
  BY <1>1, <1>2, <1>3 DEF BootStep

\* Every step of the process is a step of the life cycle, or one it does not see.
LEMMA AppStepIsStep ==
  ASSUME [AppNext]_appVars
  PROVE  [Next]_vars
<1>1. CASE process = "running" /\ BootStep
  BY <1>1, BootStepIsStep
<1>2. CASE process = "running" /\ Serving /\ UNCHANGED <<kind, bootVars>>
  BY <1>2 DEF Serving, Next, Step, Main
<1>3. CASE HealthListens \/ Edit \/ Reload
  BY <1>3 DEF HealthListens, Edit, Reload, serverVars, vars
<1>4. CASE UNCHANGED appVars
  BY <1>4 DEF appVars, vars
<1> QED
  BY <1>1, <1>2, <1>3, <1>4 DEF AppNext

\* A program made by NewApp lives as ServerLifecycle says, whatever its flags,
\* its configuration file and its health endpoint do (app.go, runCommand).
THEOREM AppImplementsLifecycle == AppSpec => Spec
<1>1. AppInit => Init
  BY DEF AppInit
<1>2. [AppNext]_appVars => [Next]_vars
  BY AppStepIsStep
<1> QED
  BY <1>1, <1>2, PTL DEF AppSpec, Spec

\* So its goroutines stay coupled, a signal during the start included
\* (app.go, runCommand; server.go, Serve).
THEOREM AppLifecycleCorrect == AppSpec => []LifecycleInvariant
BY AppImplementsLifecycle, LifecycleCorrect, PTL

\* So its end cuts off no request (server.go, Serve).
THEOREM AppShutdownDrains == AppSpec => []NothingCutOff
BY AppImplementsLifecycle, ShutdownDrains, PTL

-----------------------------------------------------------------------------
(* The versions of the configuration *)

\* What follows what follows a reading follows it.
LEMMA FollowsTransitive ==
  ASSUME NEW u \in Versions, NEW v \in Versions, NEW w \in Versions,
         Follows(v, u), Follows(w, v)
  PROVE  Follows(w, u)
BY BootAssumption DEF Follows, Older, Versions

LogEntry == [version: Versions, value: {"default", "file", "zero"}]

\* Viper holds nothing older than what was read from it, and only the watcher
\* makes it newer, between the two questions about a logger's key as well.
Reading ==
  /\ file \in 0..MaxEdits
  /\ viper \in {Unread} \cup 0..file
  /\ settings \in Seq(Versions)
  /\ logger \in Seq(LogEntry)
  /\ stage \in {"flags", "file", "version"} => settings = <<>>
  /\ stage \in {"flags", "file", "version", "unmarshal"} => logger = <<>>
  /\ \A i \in 1..Len(settings) : Follows(viper, settings[i])
  /\ \A j \in 1..Len(logger) : Follows(viper, logger[j].version)
  /\ stage = "value" /\ ~SetInViper(Len(logger) + 1) => app.watch
  /\ NoMixedConfiguration

LEMMA ReadingInit ==
  ASSUME AppInit
  PROVE  Reading
BY BootAssumption DEF AppInit, Init, Reading, NoMixedConfiguration

\* Reading depends on these variables only.
LEMMA ReadingStays ==
  ASSUME Reading, UNCHANGED <<app, file, viper, settings, logger>>,
         stage' \in {"flags", "file", "version"} => stage \in {"flags", "file", "version"},
         stage' = "unmarshal" => stage \in {"flags", "file", "version", "unmarshal"},
         stage' = "value" => stage = "value" \/ SetInViper(Len(logger) + 1)
  PROVE  Reading'
BY DEF Reading, NoMixedConfiguration, Follows, Older, SetInViper

\* Viper reads the file again, which is not older than what it holds.
LEMMA ReloadKeepsReading ==
  ASSUME Reading, Reload
  PROVE  Reading'
<1>1. UNCHANGED <<app, stage, settings, logger, file>> /\ viper' = file /\ app.watch
  BY DEF Reload
<1>2. viper \in Versions /\ file \in Versions /\ Follows(file, viper)
  BY <1>1, BootAssumption DEF Reading, Reload, Follows, Older, Versions
<1>3. ASSUME NEW i \in 1..Len(settings)
      PROVE  Follows(file, settings[i])
  <2>1. settings[i] \in Versions /\ Follows(viper, settings[i])
    BY DEF Reading
  <2> QED
    BY <1>2, <2>1, FollowsTransitive
<1>4. ASSUME NEW j \in 1..Len(logger)
      PROVE  Follows(file, logger[j].version)
  <2>1. logger[j] \in LogEntry /\ Follows(viper, logger[j].version)
    BY DEF Reading
  <2>2. logger[j].version \in Versions
    BY <2>1 DEF LogEntry
  <2> QED
    BY <1>2, <2>1, <2>2, FollowsTransitive
<1>5. NoMixedConfiguration'
  BY <1>1 DEF Reading, NoMixedConfiguration, Follows, Older
<1> QED
  BY <1>1, <1>3, <1>4, <1>5, BootAssumption DEF Reading, Follows, Older

LEMMA EditKeepsReading ==
  ASSUME Reading, Edit
  PROVE  Reading'
<1>1. file' \in 0..MaxEdits /\ 0..file \subseteq 0..file'
  BY BootAssumption DEF Reading, Edit
<1>2. UNCHANGED <<app, stage, settings, logger, viper>>
  BY DEF Edit
<1> QED
  BY <1>1, <1>2 DEF Reading, NoMixedConfiguration, Follows, Older, SetInViper

\* Unmarshal reads what viper holds, which follows all that was read before.
LEMMA UnmarshalKeepsReading ==
  ASSUME Reading, Unmarshal
  PROVE  Reading'
<1>1. /\ settings' = Append(settings, viper) /\ viper \in Versions
      /\ UNCHANGED <<app, file, viper, logger>>
      /\ stage' \in {"unmarshal", "validate"} /\ logger = <<>>
  BY BootAssumption DEF Unmarshal, At, Goes, Reading, Versions
<1>2. /\ settings' \in Seq(Versions) /\ Len(settings') = Len(settings) + 1
      /\ settings'[Len(settings) + 1] = viper
      /\ \A i \in 1..Len(settings) : settings'[i] = settings[i]
  BY <1>1 DEF Reading
<1>3. \A i \in 1..Len(settings') : Follows(viper, settings'[i])
  <2> SUFFICES ASSUME NEW i \in 1..Len(settings')
               PROVE  Follows(viper, settings'[i])
    OBVIOUS
  <2>1. CASE i \in 1..Len(settings)
    BY <1>2, <2>1 DEF Reading
  <2>2. CASE i = Len(settings) + 1
    BY <1>2, <2>2 DEF Follows
  <2> QED
    BY <1>2, <2>1, <2>2 DEF Reading
<1>4. ASSUME NEW i \in 1..Len(settings'), NEW j \in 1..Len(settings'), i < j
      PROVE  Follows(settings'[j], settings'[i])
  <2>1. CASE j \in 1..Len(settings)
    BY <1>2, <1>4, <2>1 DEF Reading, NoMixedConfiguration
  <2>2. CASE j = Len(settings) + 1
    BY <1>2, <1>3, <2>2
  <2> QED
    BY <1>2, <2>1, <2>2 DEF Reading
<1>5. NoMixedConfiguration'
  <2>1. \A i, j \in 1..Len(settings') : i < j => Follows(settings'[j], settings'[i])
    BY <1>4
  <2> QED
    BY <1>1, <2>1 DEF NoMixedConfiguration, Follows
<1> QED
  BY <1>1, <1>2, <1>3, <1>5 DEF Reading, Follows, SetInViper

\* So does initializeLogger, whatever was decided about the key before.
LEMMA LogsKeepsReading ==
  ASSUME Reading, NEW value \in {"default", "file", "zero"}, Logs(value),
         value = "zero" => app.watch
  PROVE  Reading'
<1> DEFINE new == [version |-> viper, value |-> value]
<1>1. /\ logger' = Append(logger, new) /\ viper \in Versions
      /\ UNCHANGED <<app, file, viper, settings>>
      /\ stage' \in {"health", "logger"}
  BY BootAssumption DEF Logs, Goes, Reading, Versions
<1>2. new \in LogEntry /\ new.version = viper /\ new.value = value
  BY <1>1 DEF LogEntry
<1> HIDE DEF new
<1>3. /\ logger' \in Seq(LogEntry) /\ Len(logger) \in Nat
      /\ Len(logger') = Len(logger) + 1
      /\ logger'[Len(logger) + 1] = new
      /\ \A j \in 1..Len(logger) : logger'[j] = logger[j]
  BY <1>1, <1>2 DEF Reading
<1>4. ASSUME NEW j \in 1..Len(logger')
      PROVE  /\ Follows(viper, logger'[j].version)
             /\ \A i \in 1..Len(settings) : Follows(logger'[j].version, settings[i])
             /\ \A i \in 1..Len(logger') :
                  i < j => Follows(logger'[j].version, logger'[i].version)
             /\ logger'[j].value = "zero" => app.watch
  <2>1. CASE j \in 1..Len(logger)
    <3>1. logger'[j] = logger[j]
      BY <1>3, <2>1
    <3>2. \A i \in 1..Len(logger') :
            i < j => i \in 1..Len(logger) /\ logger'[i] = logger[i]
      BY <1>3, <2>1
    <3> QED
      BY <2>1, <3>1, <3>2 DEF Reading, NoMixedConfiguration
  <2>2. CASE j = Len(logger) + 1
    <3>1. logger'[j].version = viper /\ logger'[j].value = value
      BY <1>2, <1>3, <2>2
    <3>2. \A i \in 1..Len(logger') :
            i < j => i \in 1..Len(logger) /\ logger'[i] = logger[i]
      BY <1>3, <2>2
    <3>3. Follows(viper, viper)
      BY DEF Follows
    <3> QED
      BY <3>1, <3>2, <3>3 DEF Reading
  <2> QED
    BY <1>3, <2>1, <2>2
<1>5. NoMixedConfiguration'
  <2>1. \A i, j \in 1..Len(settings') : i < j => Follows(settings[j], settings[i])
    BY <1>1 DEF Reading, NoMixedConfiguration
  <2> QED
    BY <1>1, <1>4, <2>1 DEF NoMixedConfiguration, Follows
<1> QED
  BY <1>1, <1>3, <1>4, <1>5 DEF Reading, Follows

LEMMA BootKeepsReading ==
  ASSUME Reading, BootStep
  PROVE  Reading'
<1>1. CASE ParseFlags \/ NoVersion \/ ValidateApp \/ CheckHealth \/ LogKeyIsSet
  <2>1. UNCHANGED <<app, file, viper, settings, logger>>
    BY <1>1 DEF ParseFlags, NoVersion, ValidateApp, CheckHealth, LogKeyIsSet
  <2>2. /\ stage' \in {"flags", "file", "version"} => stage \in {"flags", "file", "version"}
        /\ stage' = "unmarshal" => stage \in {"flags", "file", "version", "unmarshal"}
        /\ stage' = "value" => stage = "value" \/ SetInViper(Len(logger) + 1)
    BY <1>1 DEF ParseFlags, NoVersion, ValidateApp, CheckHealth, LogKeyIsSet, At, Goes
  <2> QED
    BY <2>1, <2>2, ReadingStays
<1>2. CASE ReadInConfig
  BY <1>2 DEF ReadInConfig, At, Goes, Reading, NoMixedConfiguration
<1>3. CASE Unmarshal
  BY <1>3, UnmarshalKeepsReading
<1>4. CASE LogKeyNotSet
  BY <1>4, LogsKeepsReading DEF LogKeyNotSet
<1>5. CASE ReadLogKey
  <2>1. ~SetInViper(Len(logger) + 1) => app.watch
    BY <1>5 DEF ReadLogKey, At, Reading
  <2> QED
    BY <1>5, <2>1, LogsKeepsReading DEF ReadLogKey
<1>6. CASE UnknownFlag \/ PrintAndExit \/ OptionsRefused \/ HealthRefuses \/ PlainReturns
           \/ RunContext
  BY <1>6, ReadingStays DEF UnknownFlag, PrintAndExit, OptionsRefused, HealthRefuses,
              PlainReturns, RunContext, Quit, bootVars
<1> QED
  BY <1>1, <1>2, <1>3, <1>4, <1>5, <1>6 DEF BootStep

LEMMA ReadingCorrect == AppSpec => []Reading
<1>1. AppInit => Reading
  BY ReadingInit
<1>2. Reading /\ [AppNext]_appVars => Reading'
  <2> SUFFICES ASSUME Reading, [AppNext]_appVars
               PROVE  Reading'
    OBVIOUS
  <2>1. CASE BootStep
    BY <2>1, BootKeepsReading
  <2>2. CASE Edit
    BY <2>2, EditKeepsReading
  <2>3. CASE Reload
    BY <2>3, ReloadKeepsReading
  <2>4. CASE HealthListens \/ (Serving /\ UNCHANGED <<kind, bootVars>>) \/ UNCHANGED appVars
    BY <2>4, ReadingStays DEF HealthListens, appVars, bootVars
  <2> QED
    BY <2>1, <2>2, <2>3, <2>4 DEF AppNext
<1> QED
  BY <1>1, <1>2, PTL DEF AppSpec

\* Unless the file is watched all keys of the options and of the logger have one
\* version, however many; if it is, no key has an older one than a key read
\* before it (app.go, runCommand and initializeLogger).
THEOREM ConfigurationNotMixed == AppSpec => []NoMixedConfiguration
<1>1. Reading => NoMixedConfiguration
  BY DEF Reading
<1> QED
  BY <1>1, ReadingCorrect, PTL

-----------------------------------------------------------------------------
(* What has been passed on the way to the callback *)

\* Where runCommand is tells what has been checked; the callback is the only
\* place from which the server or the health endpoint can be reached.
Passed ==
  /\ stage = "validate" => Len(settings) = OptionKeys
  /\ stage \in {"logger", "value", "health", "callback"} /\ app.options # "none" => SettingsHold
  /\ stage \in {"health", "callback"} => Len(logger) = LogKeys
  /\ main # "booting" \/ health # "none" => stage = "callback"

LEMMA PassedInit ==
  ASSUME AppInit
  PROVE  Passed
BY DEF AppInit, Init, Passed

\* The steps of runCommand: each stage is left for the next with its work done.
LEMMA BootKeepsPassed ==
  ASSUME Passed, Reading, BootStep
  PROVE  Passed'
<1> USE DEF Passed, SettingsHold, At
<1>1. CASE ParseFlags
  BY <1>1 DEF ParseFlags, Goes, serverVars
<1>2. CASE ReadInConfig
  BY <1>2 DEF ReadInConfig, Goes, serverVars
<1>3. CASE NoVersion
  BY <1>3 DEF NoVersion, Goes, serverVars
<1>4. CASE Unmarshal
  BY <1>4 DEF Unmarshal, Goes, serverVars
<1>5. CASE ValidateApp
  BY <1>5 DEF ValidateApp, Goes, serverVars
<1>6. CASE LogKeyNotSet \/ LogKeyIsSet \/ ReadLogKey
  BY <1>6 DEF LogKeyNotSet, LogKeyIsSet, ReadLogKey, Logs, Goes, serverVars
<1>7. CASE CheckHealth
  BY <1>7 DEF CheckHealth, Goes, serverVars
<1>8. CASE UnknownFlag \/ PrintAndExit \/ OptionsRefused \/ HealthRefuses \/ PlainReturns
  BY <1>8 DEF UnknownFlag, PrintAndExit, OptionsRefused, HealthRefuses, PlainReturns,
              Quit, BootFails, bootVars
<1>9. CASE RunContext
  BY <1>9 DEF RunContext, Boot, bootVars
<1> QED
  BY <1>1, <1>2, <1>3, <1>4, <1>5, <1>6, <1>7, <1>8, <1>9 DEF BootStep

\* Serving does not go back to booting.
LEMMA ServingKeepsPassed ==
  ASSUME Passed, Serving, UNCHANGED <<kind, bootVars>>
  PROVE  Passed'
<1>1. main = "booting" => main' = "booting"
  BY DEF Serving, Launch, BeginStop, StopReturns, Exit, Deadline, Signal, RunOrDie,
         HTTPListens, HTTPAccepts, HTTPServerClosed, GRPCAccepts, GRPCServerStopped,
         GRPCStopsAccepting, GRPCServeReturns, ListenerFails, Accept, Request, Answer,
         CloseIdle
<1> QED
  BY <1>1 DEF Passed, SettingsHold, bootVars

\* Nothing answers, neither the server nor the health endpoint, before the
\* options are validated and the logger is set up (app.go, runCommand).
THEOREM AnswersOnlyAfterValidation == AppSpec => []AnswersAfterValidation
<1>1. AppInit => Passed
  BY PassedInit
<1>2. Passed /\ Reading /\ [AppNext]_appVars => Passed'
  <2> SUFFICES ASSUME Passed, Reading, [AppNext]_appVars
               PROVE  Passed'
    OBVIOUS
  <2>1. CASE BootStep
    BY <2>1, BootKeepsPassed
  <2>2. CASE Serving /\ UNCHANGED <<kind, bootVars>>
    BY <2>2, ServingKeepsPassed
  <2>3. CASE HealthListens
    BY <2>3 DEF HealthListens, serverVars, Passed, SettingsHold
  <2>4. CASE Edit \/ Reload
    BY <2>4 DEF Edit, Reload, serverVars, Passed, SettingsHold
  <2>5. CASE UNCHANGED appVars
    BY <2>5 DEF appVars, vars, bootVars, Passed, SettingsHold
  <2> QED
    BY <2>1, <2>2, <2>3, <2>4, <2>5 DEF AppNext
<1>3. Passed /\ LifecycleInvariant => AnswersAfterValidation
  <2> SUFFICES ASSUME Passed, LifecycleInvariant,
                      health = "answering" \/ (\E c \in Conns : conn[c] # "outside")
               PROVE  stage = "callback"
    BY DEF Passed, AnswersAfterValidation
  <2>1. CASE health = "answering"
    BY <2>1 DEF Passed
  <2>2. CASE \E c \in Conns : conn[c] # "outside"
    BY <2>2 DEF Passed, LifecycleInvariant, Settled, Coupling
  <2> QED
    BY <2>1, <2>2
<1> QED
  BY <1>1, <1>2, <1>3, ReadingCorrect, AppLifecycleCorrect, PTL DEF AppSpec

=============================================================================
