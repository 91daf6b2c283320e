----------------------------- MODULE ErrorCodes -----------------------------
(****************************************************************************)
(* The business error codes of errx/errx.go: what a code tells an HTTP      *)
(* client, and what becomes of it when the error crosses from one service   *)
(* to another as a gRPC status.  A code has five digits LMMNN, L its level. *)
(****************************************************************************)
EXTENDS Integers

CodeOK == 0
CodeInternalServer == 10001
CodeServiceUnavailable == 10002
CodeRequestTimeout == 10003

LevelSystem == 1
LevelUpstream == 4
LevelDownstream == 5

GetErrorLevel(code) == (code \div 10000) % 10

GetHTTPCode(code) ==
  CASE code = CodeServiceUnavailable -> 503
    [] code = CodeRequestTimeout -> 504
    [] /\ GetErrorLevel(code) = LevelSystem
       /\ code \notin {CodeServiceUnavailable, CodeRequestTimeout} -> 500
    [] GetErrorLevel(code) \in {LevelUpstream, LevelDownstream} -> 502
    [] OTHER -> 200

ToGRPCCode(code) ==
  CASE code = 200 -> "OK"
    [] code = 400 -> "InvalidArgument"
    [] code = 401 -> "Unauthenticated"
    [] code = 403 -> "PermissionDenied"
    [] code = 404 -> "NotFound"
    [] code = 409 -> "AlreadyExists"
    [] code = 429 -> "ResourceExhausted"
    [] code = 500 -> "Internal"
    [] code = 501 -> "Unimplemented"
    [] code = 503 -> "Unavailable"
    [] code = 504 -> "DeadlineExceeded"
    [] OTHER -> "Unknown"

FromGRPCCode(code) ==
  CASE code = "OK" -> 200
    [] code = "Canceled" -> 408
    [] code \in {"InvalidArgument", "FailedPrecondition", "OutOfRange"} -> 400
    [] code = "Unauthenticated" -> 401
    [] code = "PermissionDenied" -> 403
    [] code = "NotFound" -> 404
    [] code \in {"AlreadyExists", "Aborted"} -> 409
    [] code = "ResourceExhausted" -> 429
    [] code = "Unimplemented" -> 501
    [] code = "Unavailable" -> 503
    [] code = "DeadlineExceeded" -> 504
    [] OTHER -> 500

\* The gRPC code another service receives for a BizError.  A status with the
\* code OK takes no details, so GRPCStatus returns a nil status for an error
\* that is no system failure, and grpc sends an unknown error instead.
GRPCStatus(code) ==
  LET s == ToGRPCCode(GetHTTPCode(code)) IN IF s = "OK" THEN "Unknown" ELSE s

\* FromError for an error that is a gRPC status.
FromStatus(s) ==
  LET h == FromGRPCCode(s) IN
  CASE h = 400 -> 20001
    [] h = 401 -> 20401
    [] h = 403 -> 20107
    [] h = 404 -> 20101
    [] h = 429 -> 20003
    [] OTHER -> CodeInternalServer

=============================================================================
