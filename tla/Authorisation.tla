--------------------------- MODULE Authorisation ---------------------------
(*****************************************************************************)
(* authz.go: an Authz decides with the policy casbin has in memory, loaded   *)
(* from the database by NewAuthz, which starts a timer then, and again       *)
(* whenever that timer fires. A load reads the database first and takes the  *)
(* lock to install what it has read afterwards; one that fails leaves the    *)
(* policy as it is. Time is counted in ticks; casbin is external.            *)
(*                                                                           *)
(* A definition Name_Mistake is a mistake one could make in Name; nothing    *)
(* uses it but the experiments that put it in Name's place.                  *)
(*****************************************************************************)
EXTENDS Integers, FiniteSets

CONSTANTS
  Subjects,     \* users and roles
  Objects,      \* what they may act on, patterns of keyMatch included
  Actions,
  Covers,       \* Covers[o]: the objects the pattern o matches
  Levels,       \* how many roles casbin goes up from a subject
  Interval,     \* autoLoadPolicyTime
  LoadTime,     \* bound: how long a load may take, the start of the timer included
  InitialPolicies, \* the policies there may be in the database at first
  MaxChanges    \* bound: changes of the policy in the database

ASSUME AuthzAssumption ==
  /\ Covers \in [Objects -> SUBSET Objects] /\ Levels \in Nat
  /\ Interval \in Nat /\ LoadTime \in 0..(Interval - 1) /\ MaxChanges \in Nat

VARIABLES
  stored,    \* the policy in the database: rules, and who is in which role
  phase,     \* NewAuthz: "none", "loading", "loaded"; its timer: "running", "stopped"
  policy,    \* the policy Authorize decides with
  loading,   \* the policy a load that runs has read, in a set
  sinceTick, \* ticks since the timer last fired, or since it was started
  loadAge,   \* ticks the load that runs has taken
  stale,     \* history: ticks since the last change of the database
  early,     \* history: that change came after NewAuthz read and before its timer
  missed,    \* history: a load has failed since that change, or the timer was off
  changes    \* changes so far

authzVars == <<stored, phase, policy, loading, sinceTick, loadAge, stale, early, missed, changes>>

NoPolicy == [rules |-> {}, roles |-> {}]

Rules == [sub : Subjects, obj : Objects, act : Actions, eft : {"allow", "deny"}]
Roles == {g \in Subjects \X Subjects : g[1] # g[2]}

\* g: a subject is itself, has its roles, their roles, and so on.
Reaches(p, sub) ==
  LET up[n \in 0..Levels] ==
        IF n = 0 THEN {sub}
        ELSE LET below == up[n - 1]
             IN below \cup {g[2] : g \in {r \in p.roles : r[1] \in below}}
  IN up[Levels]

\* The matcher, with keyMatch on the object.
Matches(p, rule, sub, obj, act) ==
  rule.sub \in Reaches(p, sub) /\ obj \in Covers[rule.obj] /\ act = rule.act

Decision_NeedsAllow(p, sub, obj, act) ==
  \E rule \in p.rules : rule.eft = "allow" /\ Matches(p, rule, sub, obj, act)

\* The policy effect of the model: refused when some matching rule denies, and
\* granted otherwise, with or without a rule that allows.
Decision(p, sub, obj, act) ==
  ~ \E rule \in p.rules : rule.eft = "deny" /\ Matches(p, rule, sub, obj, act)

AuthzInit ==
  /\ stored \in InitialPolicies
  /\ phase = "none"
  /\ policy = NoPolicy
  /\ loading = {}
  /\ sinceTick = 0
  /\ loadAge = 0
  /\ stale = 0
  /\ early = FALSE
  /\ missed = TRUE
  /\ changes = 0

Starting == phase \in {"loading", "loaded"}

\* Somebody changes the policy in the database: a rule or a role comes or goes.
ChangePolicy ==
  /\ changes < MaxChanges
  /\ \/ \E rule \in Rules :
          stored' = [stored EXCEPT !.rules = IF rule \in @ THEN @ \ {rule} ELSE @ \cup {rule}]
     \/ \E role \in Roles :
          stored' = [stored EXCEPT !.roles = IF role \in @ THEN @ \ {role} ELSE @ \cup {role}]
  /\ stale' = 0
  /\ early' = Starting
  /\ missed' = (~Starting /\ phase # "running")
  /\ changes' = changes + 1
  /\ UNCHANGED <<phase, policy, loading, sinceTick, loadAge>>

Read == loading' = {stored} /\ loadAge' = 0

\* NewAuthz, for the first time or again after Stop: LoadPolicy reads.
NewAuthz ==
  /\ phase \in {"none", "stopped"} /\ loading = {}
  /\ Read
  /\ phase' = "loading"
  /\ early' = FALSE
  /\ missed' = FALSE
  /\ UNCHANGED <<stored, policy, sinceTick, stale, changes>>

\* It cannot read: an error and no Authz.
NewAuthzFails ==
  /\ phase = "loading"
  /\ phase' = "none"
  /\ loading' = {}
  /\ loadAge' = 0
  /\ missed' = TRUE
  /\ UNCHANGED <<stored, policy, sinceTick, stale, early, changes>>

\* StartAutoLoadPolicy: a tick comes an interval from now, not from the read.
StartAutoLoadPolicy ==
  /\ phase = "loaded"
  /\ phase' = "running"
  /\ sinceTick' = 0
  /\ loadAge' = 0
  /\ UNCHANGED <<stored, policy, loading, stale, early, missed, changes>>

\* The timer fires.
LoadReads ==
  /\ phase = "running" /\ loading = {} /\ sinceTick = Interval
  /\ Read
  /\ sinceTick' = 0
  /\ UNCHANGED <<stored, phase, policy, stale, early, missed, changes>>

\* The load takes the lock, that of NewAuthz too.
LoadInstalls ==
  /\ loading # {}
  /\ policy' \in loading
  /\ loading' = {}
  /\ IF phase = "loading" THEN phase' = "loaded" /\ UNCHANGED loadAge ELSE loadAge' = 0 /\ UNCHANGED phase
  /\ UNCHANGED <<stored, sinceTick, stale, early, missed, changes>>

\* The error of a load of the timer is dropped.
LoadFails ==
  /\ phase # "loading" /\ loading # {}
  /\ loading' = {}
  /\ loadAge' = 0
  /\ missed' = TRUE
  /\ UNCHANGED <<stored, phase, policy, sinceTick, stale, early, changes>>

\* Stop ends the timer; a load that runs goes on.
Stop ==
  /\ phase = "running"
  /\ phase' = "stopped"
  /\ missed' = TRUE
  /\ UNCHANGED <<stored, policy, loading, sinceTick, loadAge, stale, early, changes>>

\* Time passes, but not past a tick of the timer or the end of a load.
Horizon == Interval + 2 * LoadTime + 1   \* bound: stale counts no further
Tick ==
  /\ phase = "running" => sinceTick < Interval
  /\ Starting \/ loading # {} => loadAge < LoadTime
  /\ sinceTick' = IF phase = "running" THEN sinceTick + 1 ELSE sinceTick
  /\ loadAge' = IF Starting \/ loading # {} THEN loadAge + 1 ELSE 0
  /\ stale' = IF stale < Horizon THEN stale + 1 ELSE stale
  /\ UNCHANGED <<stored, phase, policy, loading, early, missed, changes>>

AuthzNext ==
  \/ ChangePolicy \/ NewAuthz \/ NewAuthzFails \/ StartAutoLoadPolicy
  \/ LoadReads \/ LoadInstalls \/ LoadFails \/ Stop \/ Tick

AuthzSpec == AuthzInit /\ [][AuthzNext]_authzVars

-----------------------------------------------------------------------------
\* What the database says is what Authorize decides, at the latest an interval
\* and a load after the change; one more load when the change came after NewAuthz
\* had read and before it started the timer. Until then, after a load that failed
\* and after Stop it decides by an older policy (authz.go, NewAuthz, Authorize,
\* Stop).
DecisionsFollowPolicy ==
  LET bound == Interval + LoadTime + (IF early THEN LoadTime ELSE 0)
  IN phase = "running" /\ ~missed /\ stale > bound =>
       \A sub \in Subjects, obj \in Objects, act \in Actions :
         Decision(policy, sub, obj, act)
           = ~ \E rule \in stored.rules :
                 rule.eft = "deny" /\ Matches(stored, rule, sub, obj, act)

=============================================================================
