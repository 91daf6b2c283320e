------------------------------ MODULE MCJWTAuth ------------------------------
(***************************************************************************)
(* The instances of the runs about JWTAuth.  A behaviour is one of two     *)
(* kinds, part says which: two goroutines and one authenticator, the       *)
(* tokens their own; or one goroutine and two authenticators, one of them  *)
(* without a store, and every class of token string.                       *)
(***************************************************************************)
EXTENDS JWTAuth, FiniteSets, TLC

CONSTANTS u1, p1, p2, a1, a2

VARIABLE part

\* One token string of each class parseToken tells apart.
MCForeign ==
  {[class |-> c, sub |-> u1, iat |-> 0, exp |-> 1] :
      c \in {"otherMethod", "otherKey", "malformed", "empty"}}

Symmetry == Permutations(Procs)

\* Nobody calls the authenticator without a store or presents a foreign token.
OneAuthenticator ==
  \A p \in Procs :
    \A call \in {op'[p], reply'[p]} :
      /\ "inst" \in DOMAIN call => call.inst \notin Storeless
      /\ "tok" \in DOMAIN call => call.tok \in issued'

\* One goroutine makes every call; redis does not restart.
OneGoroutine ==
  /\ Cardinality({p \in Procs : op'[p] # Idle \/ reply'[p] # NoReply}) <= 1
  /\ wipes' = 0

MCInit == Init /\ part \in {"goroutines", "inputs"}

MCNext ==
  /\ UNCHANGED part
  /\ \/ part = "goroutines" /\ Next /\ OneAuthenticator
     \/ part = "inputs" /\ Next /\ OneGoroutine

MCSpec == MCInit /\ [][MCNext]_<<part, vars>>
=============================================================================
