------------------------ MODULE ProcessLogger_proofs ------------------------
(*****************************************************************************)
(* Proofs about Telemetry and the process's logger over it, for any number   *)
(* of providers, files and calls of Init: what a provider was given is not   *)
(* lost to a closed file, Shutdown releases all, whatever failed in it and   *)
(* in the Applys before, and a bridged record reaches the provider in force. *)
(*****************************************************************************)
EXTENDS ProcessLogger, SequenceTheorems, TLAPS

SignalNames == {"traces", "metrics", "logs"}
Provider == [signal : SignalNames, state : {"running", "draining", "stopped"},
             pending : BOOLEAN, file : Nat]

TeleTypeOK ==
  /\ inCall \in {"none", "Apply", "Shutdown"}
  /\ turn \in 1..Files
  /\ inCall = "Apply" => turn < Files
  /\ down \in BOOLEAN
  /\ providers \in Seq(Provider)
  /\ current \in [SignalNames -> Nat]
  /\ files \in Seq(BOOLEAN)
  /\ tracked \subseteq DOMAIN files

\* A provider is in the place of its own signal.
Placed ==
  \A s \in SignalNames :
    current[s] # 0 => current[s] \in DOMAIN providers /\ providers[current[s]].signal = s

\* The open file of a provider is one that Shutdown knows of.
FilesKnown ==
  \A p \in DOMAIN providers :
    providers[p].file # 0 =>
      /\ providers[p].file \in DOMAIN files
      /\ files[providers[p].file] => providers[p].file \in tracked

\* A provider in its place writes to an open file until it is stopped, and one
\* that has stopped has nothing left to write.
Writable ==
  \A p \in DOMAIN providers :
    /\ providers[p].state = "running" /\ ~Replaced(p) /\ providers[p].file # 0
         => files[providers[p].file]
    /\ providers[p].state = "stopped" => ~providers[p].pending

\* Shutdown has stopped the providers of the turns behind it.
StoppedSoFar ==
  inCall = "Shutdown" =>
    \A i \in 1..3, p \in DOMAIN providers :
      i < turn /\ current[Signals[i]] = p => providers[p].state # "running"

\* What is released stays released until the next Apply.
Released ==
  down =>
    /\ inCall # "Apply"
    /\ \A p \in DOMAIN providers : providers[p].state = "running" => Replaced(p)
    /\ \A p \in DOMAIN providers : providers[p].file # 0 => ~files[providers[p].file]

TeleInvariant ==
  TeleTypeOK /\ Placed /\ FilesKnown /\ Writable /\ StoppedSoFar /\ Released

\* Signals are the names at the turns before the files'.
LEMMA SignalTurns ==
  /\ Files = 4
  /\ Len(Signals) = 3
  /\ \A i \in 1..3 : Signals[i] \in SignalNames
  /\ \A s \in SignalNames : \E i \in 1..3 : Signals[i] = s
<1>1. Len(Signals) = 3 /\ Files = 4
  BY DEF Signals, Files
<1>2. Signals[1] = "traces" /\ Signals[2] = "metrics" /\ Signals[3] = "logs"
  BY DEF Signals
<1>3. \A i \in 1..3 : i = 1 \/ i = 2 \/ i = 3
  OBVIOUS
<1> QED
  BY <1>1, <1>2, <1>3 DEF SignalNames

LEMMA TeleInitInvariant == TeleInit => TeleInvariant
<1> SUFFICES ASSUME TeleInit
             PROVE  TeleInvariant
  OBVIOUS
<1>1. TeleTypeOK
  <2>1. providers \in Seq(Provider) /\ files \in Seq(BOOLEAN)
    BY DEF TeleInit
  <2>2. current \in [SignalNames -> Nat] /\ tracked \subseteq DOMAIN files
    BY DEF TeleInit, SignalNames
  <2>3. inCall = "none" /\ down \in BOOLEAN
    BY DEF TeleInit
  <2>4. turn \in 1..Files
    BY SignalTurns DEF TeleInit
  <2> QED
    BY <2>1, <2>2, <2>3, <2>4 DEF TeleTypeOK
<1>2. providers = <<>> /\ inCall = "none" /\ ~down /\ \A s \in SignalNames : current[s] = 0
  BY DEF TeleInit, SignalNames
<1> QED
  BY <1>1, <1>2 DEF TeleInvariant, Placed, FilesKnown, Writable, StoppedSoFar, Released

\* A new provider, with a file opened for it or without one.
LEMMA InitProviderKeeps ==
  ASSUME TeleInvariant, inCall = "Apply", NEW s \in SignalNames, InitProvider(s),
         UNCHANGED <<mode, slogOutput, down>>
  PROVE  TeleInvariant'
<1> DEFINE n == Len(providers) + 1
           file == IF Exporter(s) = "file" THEN Len(files) + 1 ELSE 0
           new == [signal |-> s, state |-> "running", pending |-> FALSE, file |-> file]
<1>0. TeleTypeOK /\ Placed /\ FilesKnown /\ Writable /\ Released
  BY DEF TeleInvariant
<1>1. /\ providers' = Append(providers, new)
      /\ current' = [current EXCEPT ![s] = n]
      /\ Advance
  BY DEF InitProvider
<1>2. /\ n \in Nat /\ n # 0 /\ n \notin DOMAIN providers
      /\ DOMAIN providers' = DOMAIN providers \cup {n}
      /\ providers'[n] = new
      /\ \A p \in DOMAIN providers : providers'[p] = providers[p]
  BY <1>0, <1>1 DEF TeleTypeOK
<1>3. /\ files' \in Seq(BOOLEAN) /\ tracked' \subseteq DOMAIN files'
      /\ \A f \in DOMAIN files :
           f \in DOMAIN files' /\ files'[f] = files[f] /\ (f \in tracked' <=> f \in tracked)
      /\ file # 0 => file \in DOMAIN files' /\ files'[file] /\ file \in tracked'
  <2>1. CASE Exporter(s) = "file"
    <3>1. files' = Append(files, TRUE) /\ tracked' = tracked \cup {Len(files) + 1}
      BY <2>1 DEF InitProvider, OpenWriter
    <3>2. files \in Seq(BOOLEAN) /\ tracked \subseteq DOMAIN files
      BY <1>0 DEF TeleTypeOK
    <3>3. /\ files' \in Seq(BOOLEAN) /\ Len(files) \in Nat
          /\ DOMAIN files = 1..Len(files) /\ DOMAIN files' = 1..(Len(files) + 1)
          /\ files'[Len(files) + 1] = TRUE
          /\ \A f \in 1..Len(files) : files'[f] = files[f]
      BY <3>1, <3>2, AppendProperties
    <3>4. file = Len(files) + 1
      BY <2>1
    <3> HIDE DEF file
    <3> QED
      BY <3>1, <3>2, <3>3, <3>4
  <2>2. CASE Exporter(s) # "file"
    <3>1. files' = files /\ tracked' = tracked
      BY <2>2 DEF InitProvider, OpenWriter
    <3> QED
      BY <1>0, <2>2, <3>1 DEF TeleTypeOK
  <2> QED
    BY <2>1, <2>2
<1>4. new \in Provider /\ file \in Nat
  <2>1. file \in Nat
    BY <1>0 DEF TeleTypeOK
  <2> QED
    BY <2>1 DEF Provider
<1> HIDE DEF n, file
<1>5. TeleTypeOK'
  <2>1. inCall' \in {"none", "Apply"} /\ turn' \in 1..Files /\ (inCall' = "Apply" => turn' < Files)
    BY <1>0, <1>1, SignalTurns DEF Advance, TeleTypeOK
  <2>2. providers' \in Seq(Provider)
    BY <1>0, <1>1, <1>4 DEF TeleTypeOK
  <2>3. current' \in [SignalNames -> Nat]
    BY <1>0, <1>1, <1>2 DEF TeleTypeOK
  <2> QED
    BY <1>0, <1>3, <2>1, <2>2, <2>3 DEF TeleTypeOK
<1>6. Placed'
  BY <1>0, <1>1, <1>2 DEF Placed, TeleTypeOK
<1>7. FilesKnown'
  BY <1>0, <1>2, <1>3 DEF FilesKnown
<1>8. \A p \in DOMAIN providers : ~Replaced(p)' => ~Replaced(p)
  BY <1>0, <1>1, <1>2 DEF Replaced, TeleTypeOK, Provider
<1>9. Writable'
  BY <1>0, <1>2, <1>3, <1>8 DEF Writable, FilesKnown
<1>10. StoppedSoFar' /\ Released'
  <2>1. inCall' # "Shutdown" /\ ~down'
    BY <1>0, <1>1 DEF Advance, TeleTypeOK, Released
  <2> QED
    BY <2>1 DEF StoppedSoFar, Released
<1> QED
  BY <1>5, <1>6, <1>7, <1>9, <1>10 DEF TeleInvariant

\* Apply without a new provider: with slog's, or failed.
LEMMA ApplyWithoutProviderKeeps ==
  ASSUME TeleInvariant, inCall = "Apply", NEW s \in SignalNames, InitSlog(s) \/ InitFails(s),
         UNCHANGED <<mode, slogOutput, down>>
  PROVE  TeleInvariant'
<1>0. TeleTypeOK /\ Placed /\ FilesKnown /\ Writable /\ Released
  BY DEF TeleInvariant
<1>1. UNCHANGED <<providers, current, tracked, down>>
  BY DEF InitSlog, InitFails
<1>2. /\ inCall' \in {"none", "Apply"} /\ turn' \in 1..Files
      /\ inCall' = "Apply" => turn' < Files
  <2>1. Advance \/ Abort
    BY DEF InitSlog, InitFails
  <2> QED
    BY <1>0, <2>1, SignalTurns DEF Advance, Abort, TeleTypeOK
<1>3. /\ files' \in Seq(BOOLEAN)
      /\ \A f \in DOMAIN files : f \in DOMAIN files' /\ files'[f] = files[f]
  <2>1. files' = files \/ files' = Append(files, TRUE)
    BY DEF InitSlog, InitFails
  <2>2. files \in Seq(BOOLEAN)
    BY <1>0 DEF TeleTypeOK
  <2>3. CASE files' = files
    BY <2>2, <2>3
  <2>4. CASE files' = Append(files, TRUE)
    <3>1. /\ files' \in Seq(BOOLEAN) /\ Len(files') = Len(files) + 1 /\ Len(files) \in Nat
          /\ \A f \in 1..Len(files) : files'[f] = files[f]
      BY <2>2, <2>4, AppendProperties
    <3>2. DOMAIN files = 1..Len(files) /\ DOMAIN files' = 1..Len(files')
      BY <2>2, <3>1
    <3> QED
      BY <3>1, <3>2
  <2> QED
    BY <2>1, <2>3, <2>4
<1>4. TeleTypeOK'
  BY <1>0, <1>1, <1>2, <1>3 DEF TeleTypeOK
<1>5. Placed' /\ FilesKnown'
  BY <1>0, <1>1, <1>3 DEF Placed, FilesKnown
<1>6. Writable'
  BY <1>0, <1>1, <1>3 DEF Writable, FilesKnown, Replaced
<1>7. StoppedSoFar' /\ Released'
  BY <1>0, <1>1, <1>2 DEF StoppedSoFar, Released
<1> QED
  BY <1>4, <1>5, <1>6, <1>7 DEF TeleInvariant

\* A step that touches one provider and lets it keep its place and its file, and
\* never sets it running again.
LEMMA ProviderStepKeeps ==
  ASSUME TeleInvariant, NEW p \in DOMAIN providers, NEW q \in Provider,
         providers' = [providers EXCEPT ![p] = q],
         q.signal = providers[p].signal, q.file = providers[p].file,
         q.state = "running" => providers[p].state = "running",
         q.state = "stopped" => ~q.pending,
         UNCHANGED <<current, files, tracked>>
  PROVE  /\ providers' \in Seq(Provider)
         /\ DOMAIN providers' = DOMAIN providers
         /\ \A x \in DOMAIN providers :
              /\ providers'[x].state = "running" => providers[x].state = "running"
              /\ providers'[x].file = providers[x].file
              /\ Replaced(x)' <=> Replaced(x)
         /\ Placed' /\ FilesKnown' /\ Writable'
<1>0. TeleTypeOK /\ Placed /\ FilesKnown /\ Writable
  BY DEF TeleInvariant
<1>1. providers' \in Seq(Provider) /\ DOMAIN providers' = DOMAIN providers
  BY <1>0 DEF TeleTypeOK
<1>2. \A x \in DOMAIN providers :
        /\ providers'[x].state = "running" => providers[x].state = "running"
        /\ providers'[x].file = providers[x].file
        /\ providers'[x].signal = providers[x].signal
        /\ providers'[x].state = "stopped" => ~providers'[x].pending
  BY <1>0 DEF Writable
<1>3. \A x \in DOMAIN providers : Replaced(x)' <=> Replaced(x)
  BY <1>2 DEF Replaced
<1>4. Placed'
  BY <1>0, <1>1, <1>2 DEF Placed
<1>5. FilesKnown'
  BY <1>0, <1>1, <1>2 DEF FilesKnown
<1>6. Writable'
  BY <1>0, <1>1, <1>2, <1>3 DEF Writable
<1> QED
  BY <1>1, <1>2, <1>3, <1>4, <1>5, <1>6

LEMMA StopProviderKeeps ==
  ASSUME TeleInvariant, StopProvider
  PROVE  TeleInvariant'
<1> DEFINE s == Signals[turn]
           p == current[s]
<1>0. TeleTypeOK /\ Placed /\ FilesKnown /\ Writable /\ StoppedSoFar /\ Released
  BY DEF TeleInvariant
<1>1. inCall = "Shutdown" /\ turn \in 1..3 /\ s \in SignalNames
  BY <1>0, SignalTurns DEF StopProvider, TeleTypeOK
<1>2. inCall' = "Shutdown" /\ turn' = turn + 1 /\ UNCHANGED <<down, current, files, tracked>>
  BY <1>1 DEF StopProvider, Stopping
<1>3. CASE p # 0 /\ providers[p].state = "running"
  <2>1. PICK outcome \in {"stopped", "draining"} :
          providers' = [providers EXCEPT ![p].state = outcome,
                                         ![p].pending = outcome = "draining" /\ @]
    BY <1>3 DEF StopProvider
  <2> DEFINE q == [providers[p] EXCEPT !.state = outcome,
                                       !.pending = outcome = "draining" /\ @]
  <2>2. p \in DOMAIN providers /\ providers[p] \in Provider
    BY <1>0, <1>1, <1>3 DEF Placed, TeleTypeOK
  <2>3. /\ q \in Provider /\ q.signal = providers[p].signal /\ q.file = providers[p].file
        /\ q.state = outcome /\ (outcome = "stopped" => ~q.pending)
    BY <2>2 DEF Provider
  <2>4. providers' = [providers EXCEPT ![p] = q]
    BY <2>1, <2>2
  <2>5. providers'[p].state # "running"
    BY <1>0, <2>2, <2>3, <2>4
  <2> HIDE DEF q, p
  <2>6. /\ providers' \in Seq(Provider)
        /\ DOMAIN providers' = DOMAIN providers
        /\ \A x \in DOMAIN providers :
             /\ providers'[x].state = "running" => providers[x].state = "running"
             /\ providers'[x].file = providers[x].file
             /\ Replaced(x)' <=> Replaced(x)
        /\ Placed' /\ FilesKnown' /\ Writable'
    BY <1>2, <2>2, <2>3, <2>4, ProviderStepKeeps
  <2>7. TeleTypeOK'
    BY <1>0, <1>1, <1>2, <2>6, SignalTurns DEF TeleTypeOK
  <2>8. StoppedSoFar'
    <3> SUFFICES ASSUME NEW i \in 1..3, NEW x \in DOMAIN providers, i < turn + 1,
                        current[Signals[i]] = x
                 PROVE  providers'[x].state # "running"
      BY <1>2, <2>6 DEF StoppedSoFar
    <3>1. CASE i = turn
      BY <3>1, <2>5 DEF p
    <3>2. CASE i # turn
      BY <3>2, <1>0, <1>1, <2>6 DEF StoppedSoFar
    <3> QED
      BY <3>1, <3>2
  <2>9. Released'
    BY <1>0, <1>2, <2>6 DEF Released
  <2> QED
    BY <2>6, <2>7, <2>8, <2>9 DEF TeleInvariant
<1>4. CASE ~(p # 0 /\ providers[p].state = "running")
  <2>1. UNCHANGED providers
    BY <1>4 DEF StopProvider
  <2>2. TeleTypeOK' /\ Placed' /\ FilesKnown' /\ Writable' /\ Released'
    BY <1>0, <1>1, <1>2, <2>1, SignalTurns
    DEF TeleTypeOK, Placed, FilesKnown, Writable, Released, Replaced
  <2>3. StoppedSoFar'
    <3> SUFFICES ASSUME NEW i \in 1..3, NEW x \in DOMAIN providers, i < turn + 1,
                        current[Signals[i]] = x
                 PROVE  providers[x].state # "running"
      BY <1>2, <2>1 DEF StoppedSoFar
    <3>1. CASE i = turn
      <4>1. x \in Nat /\ x # 0
        BY <1>0 DEF TeleTypeOK
      <4> QED
        BY <3>1, <1>4, <4>1
    <3>2. CASE i # turn
      BY <3>2, <1>0, <1>1 DEF StoppedSoFar
    <3> QED
      BY <3>1, <3>2
  <2> QED
    BY <2>2, <2>3 DEF TeleInvariant
<1> QED
  BY <1>3, <1>4

LEMMA CloseFilesKeeps ==
  ASSUME TeleInvariant, CloseFiles
  PROVE  TeleInvariant'
<1>0. TeleTypeOK /\ Placed /\ FilesKnown /\ Writable /\ StoppedSoFar
  BY DEF TeleInvariant
<1>1. /\ files' = [f \in DOMAIN files |-> files[f] /\ f \notin tracked]
      /\ tracked' = {} /\ down' = TRUE /\ inCall' = "none" /\ turn' = 1
      /\ UNCHANGED <<providers, current>>
  BY DEF CloseFiles, Abort
<1>2. \A p \in DOMAIN providers : providers[p].state = "running" => Replaced(p)
  <2> SUFFICES ASSUME NEW p \in DOMAIN providers, ~Replaced(p)
               PROVE  providers[p].state # "running"
    OBVIOUS
  <2>0. providers[p] \in Provider
    BY <1>0 DEF TeleTypeOK
  <2>1. providers[p].signal \in SignalNames
    BY <2>0 DEF Provider
  <2>2. PICK i \in 1..3 : Signals[i] = providers[p].signal
    BY <2>1, SignalTurns
  <2>3. inCall = "Shutdown" /\ i < turn
    BY SignalTurns DEF CloseFiles
  <2> QED
    BY <1>0, <2>2, <2>3 DEF StoppedSoFar, Replaced
<1>3. files' \in Seq(BOOLEAN) /\ DOMAIN files' = DOMAIN files
  <2>1. DOMAIN files = 1..Len(files) /\ Len(files) \in Nat /\ files \in [1..Len(files) -> BOOLEAN]
    BY <1>0 DEF TeleTypeOK
  <2>2. files' \in [1..Len(files) -> BOOLEAN]
    BY <1>1, <2>1
  <2> QED
    BY <2>1, <2>2, SeqDef
<1>4. TeleTypeOK'
  BY <1>0, <1>1, <1>3, SignalTurns DEF TeleTypeOK
<1>5. \A p \in DOMAIN providers : providers[p].file # 0 =>
        providers[p].file \in DOMAIN files /\ ~files'[providers[p].file]
  BY <1>0, <1>1 DEF FilesKnown
<1>6. Placed' /\ FilesKnown'
  BY <1>0, <1>1, <1>3, <1>5 DEF Placed, FilesKnown
<1>7. Writable'
  BY <1>0, <1>1, <1>2 DEF Writable, Replaced
<1>8. StoppedSoFar' /\ Released'
  BY <1>1, <1>2, <1>5 DEF StoppedSoFar, Released, Replaced
<1> QED
  BY <1>4, <1>6, <1>7, <1>8 DEF TeleInvariant

\* Nothing but one provider moves, while no call does.
LEMMA TouchKeeps ==
  ASSUME TeleInvariant, NEW p \in DOMAIN providers, NEW q \in Provider,
         providers' = [providers EXCEPT ![p] = q],
         q.signal = providers[p].signal, q.file = providers[p].file,
         q.state = "running" => providers[p].state = "running",
         q.state = "stopped" => ~q.pending,
         UNCHANGED <<inCall, turn, down, current, files, tracked>>
  PROVE  TeleInvariant' /\ DOMAIN providers' = DOMAIN providers
<1>1. /\ providers' \in Seq(Provider)
      /\ DOMAIN providers' = DOMAIN providers
      /\ \A x \in DOMAIN providers :
           /\ providers'[x].state = "running" => providers[x].state = "running"
           /\ providers'[x].file = providers[x].file
           /\ Replaced(x)' <=> Replaced(x)
      /\ Placed' /\ FilesKnown' /\ Writable'
  BY ProviderStepKeeps
<1>2. TeleTypeOK' /\ StoppedSoFar' /\ Released'
  BY <1>1 DEF TeleInvariant, TeleTypeOK, StoppedSoFar, Released
<1> QED
  BY <1>1, <1>2 DEF TeleInvariant

\* A provider takes what it is given, running or not.
LEMMA TakenKeeps ==
  ASSUME TeleInvariant, NEW p \in DOMAIN providers, TakenBy(p),
         UNCHANGED <<inCall, turn, down, current, files, tracked>>
  PROVE  TeleInvariant' /\ DOMAIN providers' = DOMAIN providers
<1> DEFINE q == [providers[p] EXCEPT !.pending = @ \/ Given(p)]
<1>1. providers[p] \in Provider
  BY DEF TeleInvariant, TeleTypeOK
<1>2. providers' = [providers EXCEPT ![p] = q]
  BY <1>1 DEF TakenBy
<1>3. Given(p) \in BOOLEAN
  BY DEF Given
<1>4. /\ q \in Provider /\ q.signal = providers[p].signal /\ q.file = providers[p].file
      /\ q.state = providers[p].state /\ q.pending = (providers[p].pending \/ Given(p))
  BY <1>1, <1>3 DEF Provider
<1>5. q.state = "stopped" => ~q.pending
  BY <1>4 DEF TeleInvariant, Writable, Given
<1> HIDE DEF q
<1> QED
  BY <1>2, <1>4, <1>5, TouchKeeps

LEMMA EmitKeeps ==
  ASSUME TeleInvariant, NEW s \in {"traces", "metrics"}, Emit(s)
  PROVE  TeleInvariant' /\ DOMAIN providers' = DOMAIN providers
<1>1. current[s] \in DOMAIN providers
  BY DEF Emit, TeleInvariant, Placed, SignalNames
<1> QED
  BY <1>1, TakenKeeps DEF Emit

LEMMA ExportKeeps ==
  ASSUME TeleInvariant, NEW p \in DOMAIN providers, Export(p)
  PROVE  TeleInvariant' /\ DOMAIN providers' = DOMAIN providers
<1> DEFINE q == [providers[p] EXCEPT !.pending = FALSE,
                   !.state = IF @ = "draining" THEN "stopped" ELSE @]
<1>1. providers[p] \in Provider
  BY DEF TeleInvariant, TeleTypeOK
<1>2. providers' = [providers EXCEPT ![p] = q]
  BY DEF Export
<1>3. /\ q \in Provider /\ q.signal = providers[p].signal /\ q.file = providers[p].file
      /\ q.state = "running" => providers[p].state = "running"
      /\ ~q.pending
  BY <1>1 DEF Provider
<1>4. UNCHANGED <<inCall, turn, down, current, files, tracked>>
  BY DEF Export
<1> HIDE DEF q
<1> QED
  BY <1>2, <1>3, <1>4, TouchKeeps

\* Every step keeps the invariant.
LEMMA TeleStepKeeps ==
  ASSUME TeleInvariant, [TeleNext]_teleVars
  PROVE  TeleInvariant'
<1>1. CASE Configure \/ UNCHANGED teleVars
  BY <1>1 DEF Configure, teleVars, TeleInvariant, TeleTypeOK, Placed, FilesKnown, Writable,
              StoppedSoFar, Released, Replaced
<1>2. CASE Apply
  <2>1. TeleTypeOK'
    <3>1. TeleTypeOK /\ inCall' = "Apply" /\ turn' = 1 /\ down' = FALSE
      BY <1>2 DEF Apply, TeleInvariant
    <3>2. UNCHANGED <<providers, current, files, tracked>>
      BY <1>2 DEF Apply
    <3>3. turn' \in 1..Files /\ turn' < Files
      BY <3>1, SignalTurns
    <3> QED
      BY <3>1, <3>2, <3>3 DEF TeleTypeOK
  <2>2. Placed' /\ FilesKnown' /\ Writable'
    BY <1>2 DEF Apply, TeleInvariant, Placed, FilesKnown, Writable, Replaced
  <2>3. StoppedSoFar' /\ Released'
    BY <1>2 DEF Apply, StoppedSoFar, Released
  <2> QED
    BY <2>1, <2>2, <2>3 DEF TeleInvariant
<1>3. CASE ApplyStep
  <2>1. inCall = "Apply" /\ Signals[turn] \in SignalNames /\ UNCHANGED <<mode, slogOutput, down>>
    BY <1>3, SignalTurns DEF ApplyStep, TeleInvariant, TeleTypeOK
  <2>2. InitProvider(Signals[turn]) \/ InitSlog(Signals[turn]) \/ InitFails(Signals[turn])
    BY <1>3 DEF ApplyStep
  <2> QED
    BY <2>1, <2>2, InitProviderKeeps, ApplyWithoutProviderKeeps
<1>4. CASE Shutdown
  BY <1>4, SignalTurns
  DEF Shutdown, TeleInvariant, TeleTypeOK, Placed, FilesKnown, Writable, StoppedSoFar,
      Released, Replaced
<1>5. CASE StopProvider
  BY <1>5, StopProviderKeeps
<1>6. CASE CloseFiles
  BY <1>6, CloseFilesKeeps
<1>7. CASE \E s \in {"traces", "metrics"} : Emit(s)
  BY <1>7, EmitKeeps
<1>8. CASE \E p \in DOMAIN providers : Export(p)
  BY <1>8, ExportKeeps
<1> QED
  BY <1>1, <1>2, <1>3, <1>4, <1>5, <1>6, <1>7, <1>8 DEF TeleNext

\* The invariant holds in every state.
LEMMA TeleInvariance == TeleSpec => []TeleInvariant
  BY TeleInitInvariant, TeleStepKeeps, PTL DEF TeleSpec

\* What the invariant says of the two properties.
LEMMA TelePromises == TeleInvariant => FlushedBeforeClose /\ ShutdownReleasesAll
<1>1. TeleInvariant => FlushedBeforeClose
  <2> SUFFICES ASSUME TeleInvariant, NEW p \in DOMAIN providers, providers[p].pending,
                      providers[p].file # 0, ~Replaced(p), providers[p].state # "draining"
               PROVE  files[providers[p].file]
    BY DEF FlushedBeforeClose
  <2>1. providers[p] \in Provider
    BY DEF TeleInvariant, TeleTypeOK
  <2>2. providers[p].state \in {"running", "draining", "stopped"}
    BY <2>1 DEF Provider
  <2> QED
    BY <2>2 DEF TeleInvariant, Writable
<1>2. TeleInvariant => ShutdownReleasesAll
  BY DEF TeleInvariant, Released, ShutdownReleasesAll
<1> QED
  BY <1>1, <1>2

\* No provider in its place loses what it was given to a file closed under it,
\* whatever Apply failed at (otel_options.go, Apply, Shutdown).
THEOREM NothingLostToAClosedFile == TeleSpec => []FlushedBeforeClose
  BY TelePromises, TeleInvariance, PTL

\* After a Shutdown nothing runs and nothing is open that is still in its place
\* (otel_options.go, Shutdown).
THEOREM ShutdownReleases == TeleSpec => []ShutdownReleasesAll
  BY TelePromises, TeleInvariance, PTL

-----------------------------------------------------------------------------
(* The logger over the providers *)

\* A logger is bound to no provider older than the first one set, and to none
\* younger than the one in force; slog's default writes to one there is.
BoundInOrder ==
  /\ current["logs"] \in Nat /\ firstLog \in Nat /\ slogTo \in Nat /\ std.bound \in Nat
  /\ firstLog <= current["logs"] /\ std.bound <= current["logs"]
  /\ current["logs"] # 0 => firstLog # 0
  /\ std.bound # 0 => firstLog <= std.bound
  /\ firstLog # 0 => firstLog \in DOMAIN providers
  /\ std.bound # 0 => std.bound \in DOMAIN providers
  /\ slogTo # 0 => slogTo \in DOMAIN providers

LogInvariant == TeleInvariant /\ BoundInOrder

\* The providers only grow, and a new log provider is the youngest.
LEMMA ProvidersGrow ==
  ASSUME TeleInvariant, slogTo \in Nat, slogTo # 0 => slogTo \in DOMAIN providers,
         [TeleNext]_teleVars
  PROVE  /\ DOMAIN providers \subseteq DOMAIN providers'
         /\ \/ current'["logs"] = current["logs"]
            \/ /\ current'["logs"] \in DOMAIN providers'
               /\ current'["logs"] \notin DOMAIN providers
               /\ \A p \in DOMAIN providers : p < current'["logs"]
         /\ slogTo' \in Nat /\ (slogTo' # 0 => slogTo' \in DOMAIN providers')
<1>0. /\ providers \in Seq(Provider) /\ current \in [SignalNames -> Nat]
      /\ "logs" \in SignalNames
  BY DEF TeleInvariant, TeleTypeOK, SignalNames
<1>1. CASE /\ UNCHANGED <<current, slogTo>>
           /\ DOMAIN providers' = DOMAIN providers
  BY <1>1
<1>2. CASE ApplyStep
  <2> DEFINE s == Signals[turn]
  <2>1. s \in SignalNames
    BY <1>2, SignalTurns DEF ApplyStep, TeleInvariant, TeleTypeOK
  <2>2. CASE InitProvider(s)
    <3>1. PICK new : providers' = Append(providers, new)
      BY <2>2 DEF InitProvider
    <3>2. /\ DOMAIN providers = 1..Len(providers) /\ Len(providers) \in Nat
          /\ DOMAIN providers' = 1..(Len(providers) + 1)
      BY <1>0, <3>1
    <3>3. /\ current' = [current EXCEPT ![s] = Len(providers) + 1]
          /\ slogTo' = IF s = "logs" THEN Len(providers) + 1 ELSE slogTo
      BY <2>2 DEF InitProvider
    <3> HIDE DEF s
    <3>4. CASE s = "logs"
      BY <1>0, <3>2, <3>3, <3>4
    <3>5. CASE s # "logs"
      BY <1>0, <3>2, <3>3, <3>5
    <3> QED
      BY <3>4, <3>5
  <2>3. CASE InitSlog(s) \/ InitFails(s)
    <3>1. UNCHANGED <<providers, current>> /\ slogTo' \in {0, slogTo}
      BY <2>3 DEF InitSlog, InitFails
    <3> QED
      BY <3>1
  <2> QED
    BY <1>2, <2>2, <2>3 DEF ApplyStep
<1>3. CASE Configure \/ Apply \/ Shutdown \/ CloseFiles \/ UNCHANGED teleVars
  BY <1>1, <1>3 DEF Configure, Apply, Shutdown, CloseFiles, teleVars
<1>4. CASE StopProvider
  BY <1>1, <1>4 DEF StopProvider
<1>5. CASE \E s \in {"traces", "metrics"} : Emit(s)
  BY <1>1, <1>5 DEF Emit, TakenBy
<1>6. CASE \E p \in DOMAIN providers : Export(p)
  BY <1>1, <1>6 DEF Export
<1> QED
  BY <1>2, <1>3, <1>4, <1>5, <1>6 DEF TeleNext

\* A record for a provider, from GORM or from anyone.
LEMMA LogKeeps ==
  ASSUME LogInvariant, NEW severity, Log(severity)
  PROVE  LogInvariant'
<1>1. /\ UNCHANGED <<std, installing, inits, firstLog>>
      /\ UNCHANGED <<mode, slogOutput, inCall, turn, down, current, files, tracked, slogTo>>
      /\ (Bridge # 0 /\ TakenBy(Bridge)) \/ UNCHANGED providers
  BY DEF Log, logVars, Dispatched, Handlers, BridgeEnabled
<1>2. Bridge # 0 => Bridge \in DOMAIN providers
  BY DEF LogInvariant, BoundInOrder, Bridge
<1>3. TeleInvariant' /\ DOMAIN providers' = DOMAIN providers
  <2>1. CASE Bridge # 0 /\ TakenBy(Bridge)
    BY <1>1, <1>2, <2>1, TakenKeeps DEF LogInvariant
  <2>2. CASE UNCHANGED providers
    BY <1>1, <2>2, TeleStepKeeps DEF LogInvariant, teleVars
  <2> QED
    BY <1>1, <2>1, <2>2
<1> QED
  BY <1>1, <1>3 DEF LogInvariant, BoundInOrder

LEMMA LogInvariance == ProcessSpec => []LogInvariant
<1>1. ProcessInit => LogInvariant
  <2> SUFFICES ASSUME ProcessInit
               PROVE  LogInvariant
    OBVIOUS
  <2>1. TeleInvariant
    BY TeleInitInvariant DEF ProcessInit
  <2>2. BoundInOrder
    BY DEF ProcessInit, TeleInit, LogInit, BoundInOrder
  <2> QED
    BY <2>1, <2>2 DEF LogInvariant
<1>2. LogInvariant /\ [ProcessNext]_processVars => LogInvariant'
  <2> SUFFICES ASSUME LogInvariant, [ProcessNext]_processVars
               PROVE  LogInvariant'
    OBVIOUS
  <2>0. TeleInvariant /\ BoundInOrder
    BY DEF LogInvariant
  <2>1. CASE TeleStep
    <3>1. /\ TeleNext /\ UNCHANGED std
          /\ firstLog' = IF firstLog = 0 THEN current'["logs"] ELSE firstLog
      BY <2>1 DEF TeleStep
    <3>2. TeleInvariant'
      BY <2>0, <3>1, TeleStepKeeps
    <3>3. /\ DOMAIN providers \subseteq DOMAIN providers'
          /\ \/ current'["logs"] = current["logs"]
             \/ /\ current'["logs"] \in DOMAIN providers'
                /\ current'["logs"] \notin DOMAIN providers
                /\ \A p \in DOMAIN providers : p < current'["logs"]
          /\ slogTo' \in Nat /\ (slogTo' # 0 => slogTo' \in DOMAIN providers')
      BY <2>0, <3>1, ProvidersGrow DEF BoundInOrder
    <3>4. /\ current'["logs"] \in Nat
          /\ current'["logs"] # 0 => current'["logs"] \in DOMAIN providers'
      BY <3>2 DEF TeleInvariant, TeleTypeOK, Placed, SignalNames
    <3>5. BoundInOrder'
      BY <2>0, <3>1, <3>3, <3>4 DEF BoundInOrder
    <3> QED
      BY <3>2, <3>5 DEF LogInvariant
  <2>2. CASE Init_Assigns
    <3>1. TeleInvariant'
      BY <2>0, <2>2, TeleStepKeeps DEF Init_Assigns
    <3>2. /\ std'.bound \in {0, current["logs"]}
          /\ UNCHANGED <<providers, current, slogTo, firstLog>>
      BY <2>2 DEF Init_Assigns, BoundNow, teleVars
    <3>3. current["logs"] # 0 => current["logs"] \in DOMAIN providers
      BY <2>0 DEF TeleInvariant, Placed, SignalNames
    <3> QED
      BY <2>0, <3>1, <3>2, <3>3 DEF LogInvariant, BoundInOrder
  <2>3. CASE Init_SetsDefault
    <3>1. UNCHANGED <<inCall, turn, down, providers, current, files, tracked, std, firstLog>>
      BY <2>3 DEF Init_SetsDefault
    <3>2. TeleInvariant'
      BY <2>0, <3>1 DEF TeleInvariant, TeleTypeOK, Placed, FilesKnown, Writable,
                        StoppedSoFar, Released, Replaced
    <3>3. slogTo' \in {0, std.bound}
      BY <2>3 DEF Init_SetsDefault
    <3> QED
      BY <2>0, <3>1, <3>2, <3>3 DEF LogInvariant, BoundInOrder
  <2>4. CASE Init_Fails \/ UNCHANGED processVars
    <3>1. UNCHANGED teleVars /\ UNCHANGED <<std, firstLog>>
      BY <2>4 DEF Init_Fails, processVars, logVars
    <3>2. TeleInvariant'
      BY <2>0, <3>1, TeleStepKeeps
    <3> QED
      BY <2>0, <3>1, <3>2 DEF LogInvariant, BoundInOrder, teleVars
  <2>5. CASE (\E severity \in 0..3 : Log(severity)) \/ Trace
    BY <2>5, LogKeeps DEF Trace
  <2>6. CASE LogDefault
    <3>1. /\ slogTo # 0 /\ TakenBy(slogTo) /\ UNCHANGED <<std, firstLog>>
          /\ UNCHANGED <<inCall, turn, down, current, files, tracked, slogTo>>
      BY <2>6 DEF LogDefault, logVars
    <3>2. TeleInvariant' /\ DOMAIN providers' = DOMAIN providers
      BY <2>0, <3>1, TakenKeeps DEF BoundInOrder
    <3> QED
      BY <2>0, <3>1, <3>2 DEF LogInvariant, BoundInOrder
  <2> QED
    BY <2>1, <2>2, <2>3, <2>4, <2>5, <2>6 DEF ProcessNext
<1> QED
  BY <1>1, <1>2, PTL DEF ProcessSpec

\* Every record of a bridged logger reaches the provider in force, as long as it is the first that was set, whatever came first of
\* Init and Apply; and what it has taken is not lost to a closed file, however
\* Init and Apply interleave (log.go, Init; otel_options.go, Apply, Shutdown).
THEOREM RecordsArrive ==
  ProcessSpec => [](BridgedRecordsArrive /\ FlushedBeforeClose /\ ShutdownReleasesAll)
<1>1. LogInvariant => BridgedRecordsArrive
  <2> DEFINE p == current["logs"]
  <2> SUFFICES ASSUME LogInvariant, std.bridged, p # 0, p = firstLog,
                      providers[p].state = "running",
                      NEW severity, NEW failing
               PROVE  "bridge" \in Dispatched(Handlers(severity), failing) /\ Bridge = p
    BY DEF BridgedRecordsArrive
  <2>1. Bridge = p
    BY DEF LogInvariant, BoundInOrder, Bridge
  <2>2. BridgeEnabled
    BY <2>1 DEF BridgeEnabled
  <2> QED
    BY <2>1, <2>2 DEF Dispatched, Handlers
<1>2. LogInvariant => FlushedBeforeClose /\ ShutdownReleasesAll
  BY TelePromises DEF LogInvariant
<1> QED
  BY <1>1, <1>2, LogInvariance, PTL
=============================================================================
