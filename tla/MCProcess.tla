----------------------------- MODULE MCProcess -----------------------------
(***************************************************************************)
(* The instance of the run "process": what a process keeps for itself      *)
(* besides its server and its store.  The components do not touch each     *)
(* other's state and are checked side by side: part says which one moves.  *)
(***************************************************************************)
EXTENDS SlogHandler, ProcessLogger, Identifiers, Versions, TokenConfig,
        Interceptors, Authorisation, MCSettings, TLC

CONSTANTS c1, c2, k1, k2, n1, n2, call1

\* bound: the options all calls of token.Init are given together
CONSTANT MaxOptions

VARIABLES part, options

-----------------------------------------------------------------------------
(* Inputs *)

\* No attributes; one; two of which one is empty, so that an array is left with
\* room for one more.
MCLists ==
  {[given |-> 0, kept |-> 0], [given |-> 1, kept |-> 1], [given |-> 2, kept |-> 1]}

\* "1", "10", "9" and "a" in the order of strings, with their numbers.
One == [text |-> 1, value |-> 1]
Ten == [text |-> 2, value |-> 10]
Nine == [text |-> 4, value |-> 9]
Letter == [text |-> 5, value |-> -1]
MCPreReleases == {One, Ten, Nine, Letter}

MCReadable ==
  [nums : {<<1, 0, 0>>}, semver : {TRUE},
   pre : {<<>>, <<One>>, <<Ten>>, <<Nine>>, <<Letter>>, <<One, Letter>>}]
  \cup [nums : {<<1, 0>>, <<1, 0, 0, 1>>, <<0, 2>>, <<2, 0>>}, semver : {FALSE}, pre : {<<>>}]

\* A wildcard at the end, at the beginning, at both and in the middle, and a
\* directory.
MCPaths == UNION {[1..n -> {"/", "a"}] : n \in 1..3} \cup {<<"/", "*", "a">>}

\* /a*, *a, *a*, /*a and a/.
MCPatterns ==
  {[method |-> "", path |-> <<"/", "a", "*">>],
   [method |-> "GET", path |-> <<"*", "a">>],
   [method |-> "POST", path |-> <<"*", "a", "*">>],
   [method |-> "", path |-> <<"/", "*", "a">>],
   [method |-> "", path |-> <<"a", "/">>]}

\* Nothing; and a rule for the role of a role.
MCInitialPolicies ==
  {NoPolicy,
   [rules |-> {[sub |-> "root", obj |-> "/v1/*", act |-> "GET", eft |-> "deny"]},
    roles |-> {<<"u", "role">>, <<"role", "root">>}]}

\* Keys and goroutines are interchangeable; the run has no liveness property.
Symmetry == Permutations(SecretKeys) \cup Permutations(Callers)

MCCovers == [o \in Objects |-> IF o = "/v1/*" THEN Objects ELSE {o}]

-----------------------------------------------------------------------------

Parts == {"slog", "logger", "identifiers", "versions", "token", "interceptors",
          "authorisation", "settings"}

processRunVars ==
  <<part, options, slogVars, processVars, idVars, versionVars, tokenVars,
    interceptorVars, authzVars, settingsVars>>

MCInit ==
  /\ part \in Parts /\ options = 0
  /\ SlogInit /\ ProcessInit /\ IdInit /\ VersionInit /\ TokenInit
  /\ InterceptorInit /\ AuthzInit /\ SettingsInit
  /\ part # "settings" => kindOf = "kafka"
  /\ part # "authorisation" => stored = NoPolicy

\* What the parts other than p keep.
Others(p) ==
  /\ UNCHANGED part
  /\ p # "slog" => UNCHANGED slogVars
  /\ p # "logger" => UNCHANGED processVars
  /\ p # "identifiers" => UNCHANGED idVars
  /\ p # "versions" => UNCHANGED versionVars
  /\ p # "token" => UNCHANGED <<tokenVars, options>>
  /\ p # "interceptors" => UNCHANGED interceptorVars
  /\ p # "authorisation" => UNCHANGED authzVars
  /\ p # "settings" => UNCHANGED settingsVars

TokenPart ==
  /\ TokenNext
  /\ options' = options + Cardinality({c \in Callers : ApplyOption(c)})
  /\ options' <= MaxOptions

MCNext ==
  \/ part = "slog" /\ SlogNext /\ Others("slog")
  \/ part = "logger" /\ ProcessNext /\ Others("logger")
  \/ part = "identifiers" /\ IdNext /\ Others("identifiers")
  \/ part = "versions" /\ VersionNext /\ Others("versions")
  \/ part = "token" /\ TokenPart /\ Others("token")
  \/ part = "interceptors" /\ InterceptorNext /\ Others("interceptors")
  \/ part = "authorisation" /\ AuthzNext /\ Others("authorisation")
  \/ part = "settings" /\ SettingsNext /\ Others("settings")

MCSpec == MCInit /\ [][MCNext]_processRunVars

=============================================================================
