---------------------------- MODULE Interceptors ----------------------------
(***************************************************************************)
(* The Observability middleware of gin and of gRPC, with gRPC's Recovery   *)
(* around it: which calls are skipped, the trace headers of the response,  *)
(* what is captured of bodies at the debug level and the entry in the log. *)
(* Every call has a goroutine; what they share is slog's default logger,   *)
(* whose level log.Init may change while a call is served.                 *)
(*                                                                         *)
(* A path is a sequence of characters, a pattern one that may have Star.   *)
(* gin's Recovery and the request's body are in RequestPipeline.  A body   *)
(* is so many bytes: those of an HTTP response, those of the request and   *)
(* the response of gRPC.                                                   *)
(*                                                                         *)
(* A definition Name_Mistake is a mistake one could make in Name; nothing  *)
(* uses it but the experiments that put it in Name's place.                *)
(***************************************************************************)
EXTENDS Integers, Sequences, FiniteSets

CONSTANTS
  Calls,        \* the calls, each served once
  Chars,        \* the characters of paths and patterns
  Paths,        \* the paths of HTTP calls
  SkipPatterns, \* [method, path]: SkipPaths; method "" stands for none
  Methods,
  Star,         \* "*"
  Slash,        \* "/"
  InjectModes,  \* TraceInjectionMode of the middlewares in use
  CustomHeaders, \* CustomTraceHeader, "" for none
  CaptureLimit, \* maxCapturedBodyBytes
  MaxWrite,     \* bound: bytes written at once, and as many in all as two of them
  MessageSizes  \* the sizes of the messages of gRPC, in JSON

ASSUME InterceptorsAssumption ==
  /\ Paths \subseteq Seq(Chars) /\ \A p \in SkipPatterns : p.path \in Seq(Chars)
  /\ {Star, Slash} \subseteq Chars
  /\ InjectModes \subseteq {"W3C", "TraceIDOnly", "Both", "None"}
  /\ CaptureLimit \in Nat /\ MaxWrite \in Nat /\ MessageSizes \subseteq Nat

VARIABLES
  logLevel, \* the level of slog's default logger: "debug", "info" or "error"
  calls,    \* calls[c]: the call and what has become of it
  entries   \* entries[c]: its entries in the log

interceptorVars == <<logLevel, calls, entries>>

Rank == [debug |-> 0, info |-> 1, error |-> 3]
Logs(severity) == Rank[severity] >= Rank[logLevel]

NoCall == [kind |-> "none", at |-> "out", path |-> <<>>, method |-> "", span |-> 0,
           debug |-> FALSE, headers |-> {}, body |-> 0, aside |-> 0, captured |-> 0, status |-> "",
           skipped |-> FALSE, quiet |-> FALSE, relevelled |-> FALSE]

InterceptorInit ==
  /\ logLevel = "info"
  /\ calls = [c \in Calls |-> NoCall]
  /\ entries = [c \in Calls |-> {}]

-----------------------------------------------------------------------------
(* Which calls are skipped *)

StartsWith(text, part) == Len(part) <= Len(text) /\ SubSeq(text, 1, Len(part)) = part
Ends(text, part) ==
  Len(part) <= Len(text) /\ SubSeq(text, Len(text) - Len(part) + 1, Len(text)) = part
Has(text, part) == \E i \in 1..(Len(text) + 1) : StartsWith(SubSeq(text, i, Len(text)), part)

MatchWildcard(text, p) ==
  LET first == Head(p) = Star
      last == p[Len(p)] = Star
      bare(from, to) == SubSeq(p, from, to)
  IN \/ p = <<Star>>
     \/ p # <<Star>> /\ first /\ last /\ Has(text, bare(2, Len(p) - 1))
     \/ first /\ ~last /\ Ends(text, bare(2, Len(p)))
     \/ ~first /\ last /\ StartsWith(text, bare(1, Len(p) - 1))

MatchPathPattern_SuffixAnywhere(path, p) ==
  path = p \/ \E i \in DOMAIN p : p[i] = Star /\ StartsWith(path, SubSeq(p, 1, i - 1))

\* Exact, with a wildcard, or a directory.
MatchPathPattern(path, p) ==
  LET wild == \E i \in DOMAIN p : p[i] = Star
  IN \/ path = p
     \/ wild /\ MatchWildcard(path, p)
     \/ ~wild /\ p # <<>> /\ p[Len(p)] = Slash /\ StartsWith(path, p)

ShouldSkipPath(path, method) ==
  \E p \in SkipPatterns : p.method \in {"", method} /\ MatchPathPattern(path, p.path)

-----------------------------------------------------------------------------
(* Trace headers *)

\* injectTraceHeaders and injectTraceResponseHeaders: traceparent, the custom
\* header or X-Trace-Id; of one name the last is kept, and without a valid span
\* there is none.
TraceHeaders(mode, custom, span) ==
  LET name == IF custom # "" THEN custom ELSE "X-Trace-Id"
      simple == {[name |-> name, format |-> "id", trace |-> span]}
      w3c == {[name |-> "traceparent", format |-> "w3c", trace |-> span]}
  IN IF span = 0 THEN {}
     ELSE CASE mode = "None"         -> {}
            [] mode = "W3C"          -> w3c
            [] mode = "TraceIDOnly"  -> simple
            [] mode = "Both"         -> IF name = "traceparent" THEN simple ELSE w3c \cup simple

-----------------------------------------------------------------------------
(* A call *)

Become(c, from, call) == calls[c].at = from /\ calls' = [calls EXCEPT ![c] = call]

\* On the way in.  gRPC has no paths to skip; its request is captured whole, of
\* its n bytes all are lost or none: what JSON cannot express is left empty.
Enter(c, kind, path, method, span, mode, custom, n, lost) ==
  LET skipped == kind = "HTTP" /\ ShouldSkipPath(path, method) IN
  /\ Become(c, "out",
       [NoCall EXCEPT !.kind = kind, !.at = "serving", !.path = path, !.method = method,
          !.span = span, !.skipped = skipped,
          !.debug = ~skipped /\ Logs("debug"), !.quiet = ~Logs("info"),
          !.headers = IF skipped THEN {} ELSE TraceHeaders(mode, custom, span),
          !.body = n, !.aside = lost, !.captured = IF Logs("debug") THEN n - lost ELSE 0])
  /\ UNCHANGED <<logLevel, entries>>

Room(c) == CaptureLimit - calls[c].captured

Captured_WholeWrites(c, n) == IF Room(c) > 0 THEN n ELSE 0

\* bodyCaptureWriter.Write: what there is room for.
Captured(c, n) == IF n <= Room(c) THEN n ELSE Room(c)

\* The handler writes of an HTTP response body with Write.
WriteBody(c, n) ==
  /\ calls[c].kind = "HTTP" /\ calls[c].body + n <= 2 * MaxWrite
  /\ Become(c, "serving",
       [calls[c] EXCEPT !.body = @ + n, !.captured = IF calls[c].debug THEN @ + Captured(c, n) ELSE @])
  /\ UNCHANGED <<logLevel, entries>>

\* It writes with WriteString, as io.WriteString does: that is the method of the
\* gin.ResponseWriter within, which sends the bytes and captures none.
WriteString(c, n) ==
  /\ calls[c].kind = "HTTP" /\ calls[c].body + n <= 2 * MaxWrite
  /\ Become(c, "serving", [calls[c] EXCEPT !.body = @ + n, !.aside = @ + n])
  /\ UNCHANGED <<logLevel, entries>>

\* The handler returns; gRPC takes the status of the entry from its error, and
\* captures the n bytes of the response like those of the request.
Return(c, status, n, lost) ==
  /\ Become(c, "serving",
       [calls[c] EXCEPT !.status = status, !.at = IF calls[c].skipped THEN "done" ELSE "logging",
          !.body = @ + n, !.aside = @ + lost,
          !.captured = IF calls[c].debug THEN @ + (n - lost) ELSE @])
  /\ UNCHANGED <<logLevel, entries>>

PanicEntry == [told |-> {"panic"}, status |-> "Internal", body |-> 0, trace |-> 0]

\* The handler panics past Observability to the Recovery around it, which logs
\* an error, swallows a panic of its hook and answers Internal.
Panics(c) ==
  /\ Become(c, "serving", [calls[c] EXCEPT !.status = "Internal", !.at = "recovered"])
  /\ entries' = [entries EXCEPT ![c] = @ \cup {PanicEntry}]
  /\ UNCHANGED logLevel

\* What an entry tells: at the debug level gRPC puts the bodies in the place of
\* the method and the status.
Entry(c) ==
  LET call == calls[c] IN
  [told |-> IF call.kind = "gRPC" /\ call.debug THEN {"body"}
            ELSE {"method", "status"} \cup (IF call.debug THEN {"body"} ELSE {}),
   status |-> call.status, body |-> call.captured, trace |-> call.span]

\* The level is the one there was on the way in; the logger is today's.
LogEntry(c) ==
  /\ Become(c, "logging", [calls[c] EXCEPT !.at = "done"])
  /\ entries' = [entries EXCEPT ![c] =
       IF Logs(IF calls[c].debug THEN "debug" ELSE "info") THEN @ \cup {Entry(c)} ELSE @]
  /\ UNCHANGED logLevel

\* log.Init or SlogOptions.Apply.
Relevel ==
  /\ logLevel' \in {"debug", "info", "error"} \ {logLevel}
  /\ calls' = [c \in Calls |-> [calls[c] EXCEPT !.relevelled = @ \/ calls[c].at \in {"serving", "logging"}]]
  /\ UNCHANGED entries

InterceptorNext ==
  \/ Relevel
  \/ \E c \in Calls :
       \/ \E path \in Paths, method \in Methods, span \in 0..1,
             mode \in InjectModes, custom \in CustomHeaders :
            Enter(c, "HTTP", path, method, span, mode, custom, 0, 0)
       \/ \E span \in 0..1, mode \in InjectModes, custom \in CustomHeaders,
             n \in MessageSizes : \E lost \in {0, n} :
            Enter(c, "gRPC", <<>>, "", span, mode, custom, n, lost)
       \/ \E n \in 1..MaxWrite : WriteBody(c, n) \/ WriteString(c, n)
       \/ \E status \in {"OK", "ERROR"} : calls[c].kind = "HTTP" /\ Return(c, status, 0, 0)
       \/ \E status \in {"OK", "ERROR"}, n \in MessageSizes \cup {0} : \E lost \in {0, n} :
            calls[c].kind = "gRPC" /\ Return(c, status, n, lost)
       \/ calls[c].kind = "gRPC" /\ Panics(c)
       \/ LogEntry(c)

InterceptorSpec == InterceptorInit /\ [][InterceptorNext]_interceptorVars
-----------------------------------------------------------------------------
(* Properties *)

LogEntries(c) == entries[c] \ {PanicEntry}

\* What there is to be told of a body: what did not go past the capture, of an
\* HTTP response up to the limit, of gRPC's messages all.
Tellable(call) ==
  LET through == call.body - call.aside IN
  IF call.kind = "HTTP" /\ CaptureLimit < through THEN CaptureLimit ELSE through

\* A call that is not skipped, whose handler returns under a logger that takes
\* it and that nobody changes meanwhile, has one entry, with its outcome, its
\* trace, which is that of its headers, and all that is tellable of its body; a
\* skipped one has none, and one that panics the entry of Recovery alone. gRPC's
\* at the debug level do not tell the method and the status (observability.go of
\* both).
LogTellsTheCall ==
  \A c \in Calls :
    LET call == calls[c] IN
    /\ call.skipped \/ call.at = "recovered" => LogEntries(c) = {}
    /\ call.at = "recovered" <=> PanicEntry \in entries[c]
    /\ call.at = "done" /\ ~call.skipped /\ ~call.quiet /\ ~call.relevelled =>
         \E e \in LogEntries(c) :
           /\ LogEntries(c) = {e}
           /\ e.status = call.status
           /\ \A h \in call.headers : h.trace = e.trace
           /\ {"method", "status"} \subseteq e.told \/ (call.kind = "gRPC" /\ call.debug)
           /\ call.debug => e.body = Tellable(call)

\* How much of a text the first characters of a pattern may stand for: a Star at
\* one of its ends for any text, another one for itself.
Reach(text, p) ==
  LET reach[j \in 0..Len(p)] ==
        IF j = 0 THEN {0}
        ELSE IF p[j] = Star /\ j \in {1, Len(p)}
               THEN {i \in 0..Len(text) : \E k \in reach[j - 1] : k <= i}
               ELSE {i \in 1..Len(text) : i - 1 \in reach[j - 1] /\ text[i] = p[j]}
  IN reach

Glob(text, p) == Len(text) \in Reach(text, p)[Len(p)]

\* A pattern with no wildcard that names a directory.
Directory(p) == p # <<>> /\ p[Len(p)] = Slash /\ \A i \in DOMAIN p : p[i] # Star

\* The calls left out of the log are those one of the patterns covers, for its
\* method: as it stands, with what its wildcards stand for, or below the
\* directory it names (matchPath, matchPathPattern, matchWildcard).
SkipsAsPatternsSay ==
  \A c \in Calls :
    calls[c].kind = "HTTP" =>
      calls[c].skipped =
        \E p \in SkipPatterns :
          /\ p.method = "" \/ p.method = calls[c].method
          /\ \/ Glob(calls[c].path, p.path)
             \/ Directory(p.path) /\ Glob(calls[c].path, Append(p.path, Star))
=============================================================================
