---------------------------- MODULE TokenRegistry ----------------------------
(***************************************************************************)
(* What an authenticator with a blacklist promises: a registry of tokens   *)
(* in which each operation takes effect in one step of the call.  A        *)
(* revoked token stays revoked until it expires or until somebody takes it *)
(* off the list, and a token is accepted only if, at one moment of the     *)
(* call, it was issued and not revoked.                                    *)
(***************************************************************************)
CONSTANTS
  Procs,   \* the callers
  Tokens,  \* what can be issued
  None     \* the verdict of a caller that has accepted nothing

VARIABLES
  issued,    \* tokens handed out
  revoked,   \* tokens on the blacklist
  expired,   \* tokens whose life is over
  restored,  \* tokens taken off the blacklist by hand or by a loss of data
  verdict    \* verdict[p]: the token p's call has found good, and returns

vars == <<issued, revoked, expired, restored, verdict>>

Init ==
  /\ issued = {}
  /\ revoked = {}
  /\ expired = {}
  /\ restored = {}
  /\ verdict = [p \in Procs |-> None]

\* A token whose life is shorter than the clock's resolution is born expired.
Issue(p, t) ==
  /\ issued' = issued \cup {t}
  /\ expired' \in {expired, expired \cup {t}}
  /\ verdict' = [verdict EXCEPT ![p] = None]
  /\ UNCHANGED <<revoked, restored>>

Revoke(t) ==
  /\ revoked' = revoked \cup {t}
  /\ restored' = restored \ {t}
  /\ UNCHANGED <<issued, expired, verdict>>

\* Only tokens taken off on record leave the blacklist before they expire.
Restore ==
  /\ revoked' \subseteq revoked
  /\ restored' = restored \cup (revoked \ revoked')
  /\ UNCHANGED <<issued, expired, verdict>>

Expire ==
  /\ expired \subseteq expired'
  /\ revoked' \subseteq revoked
  /\ revoked \ revoked' \subseteq expired'
  /\ UNCHANGED <<issued, restored, verdict>>

\* The call decides, and returns the token later: what happens to the token in
\* between is not its concern.  An expired token is still accepted when the call that asks for it began
\* before: the registry promises nothing about its place on the list then.
Accept(p, t) ==
  /\ t \in issued
  /\ t \notin revoked \/ t \in expired
  /\ verdict' = [verdict EXCEPT ![p] = t]
  /\ UNCHANGED <<issued, revoked, expired, restored>>

\* A call begins, or ends without a token, also when the answer got lost.
Refuse(p) ==
  /\ verdict' = [verdict EXCEPT ![p] = None]
  /\ UNCHANGED <<issued, revoked, expired, restored>>

Next ==
  \/ \E p \in Procs, t \in issued' : Issue(p, t) \/ Accept(p, t)
  \/ \E t \in issued : Revoke(t)
  \/ \E p \in Procs : Refuse(p)
  \/ Restore
  \/ Expire

Spec == Init /\ [][Next]_vars

=============================================================================
