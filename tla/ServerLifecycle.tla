--------------------------- MODULE ServerLifecycle ---------------------------
(***************************************************************************)
(* The life of a process that runs one server: runCommand of app/app.go,   *)
(* whose callback calls Serve of server/server.go, with the HTTP server of *)
(* server/http_server.go or the gRPC server of server/grpc_server.go.      *)
(*                                                                         *)
(* Two goroutines share the server: main, which waits for a signal and     *)
(* then stops the server, and runner, which listens and accepts.  Clients  *)
(* connect, and their handlers may take any time or never end.             *)
(*                                                                         *)
(* A definition Name_Mistake is a mistake one could make in Name; nothing  *)
(* uses it but the experiments that put it in Name's place.                *)
(***************************************************************************)
EXTENDS Naturals

CONSTANTS
  Conns,      \* the connections clients open, each for one request
  MaxSignals  \* bound: SIGINT and SIGTERM the process receives

ASSUME LifecycleAssumption == MaxSignals \in Nat

VARIABLES
  kind,     \* which server the program has built, "http" or "grpc"
  process,  \* "running", or how the process ended
  main,     \* where the goroutine of runCommand and Serve is
  runner,   \* where the goroutine of RunOrDie is
  phase,    \* "draining" once GracefulStop has told the server to stop
  timer,    \* the 10 seconds Serve gives GracefulStop
  signals,  \* signals received so far
  conn,     \* conn[c]: what has become of connection c
  \* history, read by no action
  fault     \* listening or accepting has failed

vars == <<kind, process, main, runner, phase, timer, signals, conn, fault>>

Init ==
  /\ kind \in {"http", "grpc"}
  /\ process = "running"
  /\ main = "booting"
  /\ runner = "none"
  /\ phase = "open"
  /\ timer = "off"
  /\ signals = 0
  /\ conn = [c \in Conns |-> "outside"]
  /\ fault = FALSE

Open(c) == conn[c] \in {"accepted", "active"}

\* The context of signal.NotifyContext; a signal before it kills the process.
Cancelled == signals > 0

-----------------------------------------------------------------------------
(* runCommand and Serve *)

\* The options, their validation or the health check return an error.
BootFails ==
  /\ main = "booting"
  /\ process' = "exited"
  /\ UNCHANGED <<main, runner, phase, timer, signals, conn, fault>>

Boot ==
  /\ main = "booting"
  /\ main' = "notified"
  /\ UNCHANGED <<process, runner, phase, timer, signals, conn, fault>>

\* go srv.RunOrDie(), whether or not the context is cancelled already.
Launch ==
  /\ main = "notified"
  /\ main' = "waiting"
  /\ runner' = "spawned"
  /\ UNCHANGED <<process, phase, timer, signals, conn, fault>>

BeginStop_NoServer ==
  /\ main = "waiting"
  /\ Cancelled
  /\ main' = "stopping"
  /\ timer' = "running"
  /\ UNCHANGED <<process, runner, phase, signals, conn, fault>>

\* Serve starts the timer and calls GracefulStop, which marks the server and
\* closes the listeners it knows of.
BeginStop ==
  /\ main = "waiting"
  /\ Cancelled
  /\ main' = "stopping"
  /\ timer' = "running"
  /\ phase' = "draining"
  /\ UNCHANGED <<process, runner, signals, conn, fault>>

Deadline ==
  /\ timer = "running"
  /\ timer' = "passed"
  /\ UNCHANGED <<process, main, runner, phase, signals, conn, fault>>

StopReturns_NoWait ==
  /\ main = "stopping"
  /\ main' = "returned"
  /\ UNCHANGED <<process, runner, phase, timer, signals, conn, fault>>

StopReturns_NoDeadline ==
  /\ main = "stopping"
  /\ runner # "accepting"
  /\ \A c \in Conns : ~Open(c)
  /\ main' = "returned"
  /\ UNCHANGED <<process, runner, phase, timer, signals, conn, fault>>

\* Shutdown returns when no connection is open or the context is done; the
\* gRPC server takes no context.  Then Serve returns nil and stop() gives the
\* signals back their default effect.
StopReturns ==
  /\ main = "stopping"
  /\ runner # "accepting"
  /\ \/ \A c \in Conns : ~Open(c)
     \/ kind = "http" /\ timer = "passed"
  /\ main' = "returned"
  /\ UNCHANGED <<process, runner, phase, timer, signals, conn, fault>>

\* os.Exit(cli.Run(cmd)).
Exit ==
  /\ main = "returned"
  /\ process' = "exited"
  /\ UNCHANGED <<main, runner, phase, timer, signals, conn, fault>>

\* Only the first signal between NotifyContext and stop() has an effect, the
\* later ones are swallowed; outside of the two a signal kills.
Signal ==
  /\ signals < MaxSignals
  /\ signals' = signals + 1
  /\ process' = IF main \in {"booting", "returned"} THEN "killed" ELSE process
  /\ UNCHANGED <<main, runner, phase, timer, conn, fault>>

-----------------------------------------------------------------------------
(* RunOrDie *)

\* ListenAndServe opens the listener unless the server is told to stop.
HTTPListens ==
  /\ kind = "http"
  /\ runner = "spawned"
  /\ phase = "open"
  /\ runner' = "opened"
  /\ UNCHANGED <<process, main, phase, timer, signals, conn, fault>>

\* Serve makes the listener known to Shutdown.
HTTPAccepts ==
  /\ kind = "http"
  /\ runner = "opened"
  /\ phase = "open"
  /\ runner' = "accepting"
  /\ UNCHANGED <<process, main, phase, timer, signals, conn, fault>>

HTTPServerClosed_Fatal ==
  /\ kind = "http"
  /\ runner \in {"spawned", "opened", "accepting"}
  /\ phase = "draining"
  /\ process' = "died"
  /\ UNCHANGED <<main, runner, phase, timer, signals, conn, fault>>

\* Wherever the runner is, a server told to stop answers ErrServerClosed,
\* which RunOrDie takes for a success.
HTTPServerClosed ==
  /\ kind = "http"
  /\ runner \in {"spawned", "opened", "accepting"}
  /\ phase = "draining"
  /\ runner' = "finished"
  /\ UNCHANGED <<process, main, phase, timer, signals, conn, fault>>

\* NewGRPCServer has opened the listener before.
GRPCAccepts ==
  /\ kind = "grpc"
  /\ runner = "spawned"
  /\ phase = "open"
  /\ runner' = "accepting"
  /\ UNCHANGED <<process, main, phase, timer, signals, conn, fault>>

\* Serve of a stopped server is ErrServerStopped, for RunOrDie an error like
\* any other: klog.Fatalf.
GRPCServerStopped ==
  /\ kind = "grpc"
  /\ runner = "spawned"
  /\ phase = "draining"
  /\ process' = "died"
  /\ UNCHANGED <<main, runner, phase, timer, signals, conn, fault>>

GRPCStopsAccepting ==
  /\ kind = "grpc"
  /\ runner = "accepting"
  /\ phase = "draining"
  /\ runner' = "joining"
  /\ UNCHANGED <<process, main, phase, timer, signals, conn, fault>>

\* Serve of grpc returns when GracefulStop is done.
GRPCServeReturns ==
  /\ runner = "joining"
  /\ main = "returned"
  /\ runner' = "finished"
  /\ UNCHANGED <<process, main, phase, timer, signals, conn, fault>>

\* net.Listen or Accept returns an error: klog.Fatalf.
ListenerFails ==
  /\ \/ kind = "http" /\ runner = "spawned"
     \/ runner = "accepting" /\ phase = "open"
  /\ fault' = TRUE
  /\ process' = "died"
  /\ UNCHANGED <<main, runner, phase, timer, signals, conn>>

-----------------------------------------------------------------------------
(* Clients and handlers *)

Accept(c) ==
  /\ runner = "accepting"
  /\ phase = "open"
  /\ conn[c] = "outside"
  /\ conn' = [conn EXCEPT ![c] = "accepted"]
  /\ UNCHANGED <<process, main, runner, phase, timer, signals, fault>>

\* The request arrives; it is served also while the server drains.
Request(c) ==
  /\ conn[c] = "accepted"
  /\ conn' = [conn EXCEPT ![c] = "active"]
  /\ UNCHANGED <<process, main, runner, phase, timer, signals, fault>>

Answer(c) ==
  /\ conn[c] = "active"
  /\ conn' = [conn EXCEPT ![c] = "answered"]
  /\ UNCHANGED <<process, main, runner, phase, timer, signals, fault>>

\* A draining server closes the connections that carry no request.
CloseIdle(c) ==
  /\ main = "stopping"
  /\ phase = "draining"
  /\ conn[c] = "accepted"
  /\ conn' = [conn EXCEPT ![c] = "closed"]
  /\ UNCHANGED <<process, main, runner, phase, timer, signals, fault>>

-----------------------------------------------------------------------------

Main == Boot \/ Launch \/ BeginStop \/ StopReturns \/ Exit

RunOrDie ==
  \/ HTTPListens
  \/ HTTPAccepts
  \/ HTTPServerClosed
  \/ GRPCAccepts
  \/ GRPCServerStopped
  \/ GRPCStopsAccepting
  \/ GRPCServeReturns

Step ==
  \/ BootFails
  \/ Main
  \/ Deadline
  \/ Signal
  \/ RunOrDie
  \/ ListenerFails
  \/ \E c \in Conns : Accept(c) \/ Request(c) \/ Answer(c) \/ CloseIdle(c)

\* Every goroutine ends with the process.
Next == process = "running" /\ Step /\ UNCHANGED kind

Running(A) == process = "running" /\ A /\ UNCHANGED kind

Spec == Init /\ [][Next]_vars

\* The scheduler runs both goroutines and the draining, the clock goes on, and
\* nothing is assumed of clients, signals and handlers.
Fairness ==
  /\ WF_vars(Running(Main))
  /\ WF_vars(Running(RunOrDie))
  /\ WF_vars(Running(Deadline))
  /\ \A c \in Conns : WF_vars(Running(CloseIdle(c)))

FairSpec == Spec /\ Fairness

\* The same, where the handlers of a gRPC server, which has no deadline, end.
FairHandlersSpec ==
  FairSpec /\ \A c \in Conns : WF_vars(kind = "grpc" /\ Running(Answer(c)))

-----------------------------------------------------------------------------
(* Properties *)

TypeOK ==
  /\ kind \in {"http", "grpc"}
  /\ process \in {"running", "exited", "killed", "died"}
  /\ main \in {"booting", "notified", "waiting", "stopping", "returned"}
  /\ runner \in {"none", "spawned", "opened", "accepting", "joining", "finished"}
  /\ phase \in {"open", "draining"}
  /\ timer \in {"off", "running", "passed"}
  /\ signals \in 0..MaxSignals
  /\ conn \in [Conns -> {"outside", "accepted", "active", "answered", "closed"}]
  /\ fault \in BOOLEAN

\* A process that ends without a fault cuts no request off: neither Serve's
\* return nor another signal nor a failing goroutine does, unless the ten
\* seconds of an HTTP server are over (server.go, Serve; app.go, runCommand).
NothingCutOff ==
  process # "running" /\ ~fault /\ (\E c \in Conns : conn[c] = "active")
    => kind = "http" /\ timer = "passed"

\* An HTTP server that is told to stop, at whatever moment of its start, does
\* not take the process down with klog.Fatalf (http_server.go, RunOrDie).
HTTPStopIsClean == kind = "http" /\ process = "died" => fault

\* Once a signal has been received the process ends, however long handlers
\* take and wherever the start was (server.go, Serve).
SignalEndsProcess == Cancelled ~> process # "running"

\* Serve returns nil only for a server that accepts no more.
ReturnedIsClosed ==
  main = "returned" => runner \notin {"none", "accepting"} /\ phase = "draining"

\* What ties the two goroutines together.
Coupling ==
  /\ (phase = "draining") <=> (main \in {"stopping", "returned"})
  /\ (timer # "off") <=> (main \in {"stopping", "returned"})
  /\ (runner = "none") <=> (main \in {"booting", "notified"})
  /\ main \in {"stopping", "returned"} => Cancelled
  /\ runner = "opened" => kind = "http"
  /\ runner = "joining" => kind = "grpc"
  /\ runner \in {"joining", "finished"} => phase = "draining"

\* The connections are settled when GracefulStop returns, and stay so: nothing
\* is accepted any more, and a runner that could still die serves nobody.
Settled ==
  /\ (\E c \in Conns : conn[c] # "outside")
       => runner \in {"accepting", "joining", "finished"}
  /\ main = "returned" /\ (\E c \in Conns : Open(c))
       => kind = "http" /\ timer = "passed"
  /\ process = "killed" => main \in {"booting", "returned"}
  /\ process = "exited" => main \in {"booting", "returned"}
  /\ process = "died" /\ ~fault => kind = "grpc" /\ runner = "spawned"

\* NothingCutOff is not inductive: the end of the process cuts nothing off
\* because of where the goroutines are when it comes.
LifecycleInvariant ==
  /\ TypeOK
  /\ Coupling
  /\ Settled
  /\ ReturnedIsClosed

-----------------------------------------------------------------------------
(* Statements of the documentation the gRPC server does not keep *)

\* "它确保在上下文结束时服务器能被优雅地关闭": stopping a server never ends in
\* klog.Fatalf.
StopIsClean == process = "died" => fault

\* "关停服务器时需要处理 context 的超时时间": GracefulStop comes back when its
\* context is over.
GracefulStopHonoursDeadline ==
  timer = "passed" /\ main = "stopping" ~> main = "returned" \/ process # "running"

=============================================================================
