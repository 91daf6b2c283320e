------------------------------ MODULE MCServer ------------------------------
(***************************************************************************)
(* The instance of the run "server": a process from its flags to its last  *)
(* connection, and the handling of requests.  The two are checked side by  *)
(* side: part says which of them moves, the other keeps its first state.   *)
(***************************************************************************)
EXTENDS AppBoot, RequestPipeline

CONSTANTS c1, c2, c3, r1, r2

VARIABLE part

\* Three connections, so that one may be waiting, one served and one done.
MCConns == {c1, c2, c3}

\* The command line programs NewApp may have made.
Program(kindOfOptions, takesFile, watches, check, run) ==
  [options |-> kindOfOptions, config |-> takesFile, watch |-> watches,
   health |-> check, callback |-> run]

MCApps ==
  {Program("flags", TRUE, TRUE, "none", "context"),
   Program("flags", TRUE, FALSE, "default", "context"),
   Program("named", TRUE, TRUE, "custom", "plain"),
   Program("none", FALSE, FALSE, "default", "plain")}

MCArguments == {{}, {"version"}, {"config"}}

\* The first key of the options has a value in version 1 that Validate refuses.
MCInvalid == {<<1, v>> : v \in Versions}

\* Version 1 of the file sets no level.
MCLogKeysIn == [v \in 0..MaxEdits |-> IF v = 0 THEN {1, 2} ELSE {2}]

\* The codes errx/code.go gives the errors in use.
CodesOfSentinels == [s \in Sentinels |-> IF s = "ErrBind" THEN 20001 ELSE 10002]

serverRunVars == <<part, appVars, requestVars>>

\* The part that does not move is in one of its first states.
MCInit ==
  /\ AppInit
  /\ RequestInit
  /\ \/ part = "process" /\ ~debug
     \/ /\ part = "requests"
        /\ kind = "http"
        /\ args = {}
        /\ app = Program("flags", TRUE, TRUE, "none", "context")

MCNext ==
  \/ part = "process" /\ AppNext /\ UNCHANGED <<part, requestVars>>
  \/ part = "requests" /\ RequestNext /\ UNCHANGED <<part, appVars>>

\* While requests are looked at nothing of the process is enabled that is
\* assumed to be fair.
MCSpec == MCInit /\ [][MCNext]_serverRunVars /\ AppFairness

=============================================================================
