-------------------------- MODULE QueryConditions --------------------------
(*****************************************************************************)
(* store/where: the conditions of a query. An Options value is built by one  *)
(* goroutine and applied to a statement; what it holds may be shared with    *)
(* others: a filter is a Go map, lists of conditions are slices, and the     *)
(* tenant is registered for the whole process.                               *)
(*                                                                           *)
(* Clauses, queries, joins, groups and havings are treated alike and are one *)
(* list here, conds; orders, selections, omissions and preloads only matter  *)
(* in that a count drops them: shown says that there are some. Integers have *)
(* the width of the machine: TopInt is the largest.                          *)
(*                                                                           *)
(* A definition Name_Mistake is a mistake one could make in Name; nothing    *)
(* uses it but the experiments that put it in Name's place.                  *)
(*****************************************************************************)
EXTENDS GoSlices, FiniteSets

CONSTANTS
  Columns,     \* names of columns
  Values,      \* values a filter compares with, those of a tenant apart
  Contexts,    \* the requests a tenant is looked up for
  Tenants,     \* functions that give the tenant of a context
  PageArgs,    \* page numbers, page sizes, offsets and limits passed
  TopInt,      \* 2^63 - 1 in the program
  GrowSlack,   \* append may allocate this much more than asked for
  CallerFilters, \* the map a caller gives to WithFilter, more than once
  Absent,
  MaxBuilding  \* bound: calls of the functions of store/where

ASSUME ConditionsAssumption ==
  /\ TopInt \in Nat
  /\ PageArgs \subseteq -(TopInt + 1) .. TopInt
  /\ GrowSlack \in Nat
  /\ CallerFilters \in [Columns -> Values \cup {Absent}]
  /\ Absent \notin [key : Columns, fn : Tenants, ctx : Contexts]
  /\ MaxBuilding \in Nat

VARIABLES
  filterMaps,  \* the maps filters live in; the first is a caller's own
  condArrays,  \* the arrays of conditions
  options,     \* every Options value
  tenant,      \* the registered tenant
  building,    \* calls so far
  wanted       \* history: what was asked of each Options value

queryVars == <<filterMaps, condArrays, options, tenant, building, wanted>>

Unlimited == -1  \* defaultLimit

\* The wrap-around of Go's int.
Wrapped(n) == ((n + TopInt + 1) % (2 * (TopInt + 1))) - (TopInt + 1)
AtLeast(n, low) == IF n < low THEN low ELSE n
LimitOf(n) == IF n <= 0 THEN Unlimited ELSE n

NoFilter == [c \in Columns |-> Absent]
Cond(o) == <<"cond", o, options[o].conds.len>>

\* NewWhere; filters is the map it starts with, 0 for one of its own.
Blank(map, slice) ==
  [filters |-> map, conds |-> slice, shown |-> FALSE,
   offset |-> 0, limit |-> Unlimited, looking |-> Absent, usable |-> TRUE]
AskedNothing(filters) ==
  [filters |-> filters, conds |-> <<>>, shown |-> FALSE, offset |-> 0, limit |-> Unlimited]

QueryInit ==
  /\ filterMaps = <<CallerFilters>>
  /\ condArrays = <<>>
  /\ options = <<>>
  /\ tenant = [key |-> Absent, fn |-> Absent]
  /\ building = 0
  /\ wanted = <<>>

Free(o) == options[o].usable /\ options[o].looking = Absent

-----------------------------------------------------------------------------
(* Building. *)

NewWhere(map) ==
  LET made == Made(condArrays, 0)
      own == map = 0
  IN /\ filterMaps' = IF own THEN Append(filterMaps, NoFilter) ELSE filterMaps
     /\ condArrays' = made.heap
     /\ options' = Append(options,
                      Blank(IF own THEN Len(filterMaps) + 1 ELSE map, made.slice))
     /\ wanted' = Append(wanted, AskedNothing(IF own THEN NoFilter ELSE filterMaps[map]))
     /\ UNCHANGED <<tenant>>

Put(o, c, v) == filterMaps' = [filterMaps EXCEPT ![options[o].filters][c] = v]

\* Filter with a column and a value.
Filter(o, c, v) ==
  /\ Free(o)
  /\ Put(o, c, v)
  /\ wanted' = [wanted EXCEPT ![o].filters[c] = v]
  /\ UNCHANGED <<condArrays, options, tenant>>

\* Filter whose second key is not a string: it panics with the first pair in
\* the map, and the caller is rid of these Options.
FilterPanics(o, c, v) ==
  /\ Free(o)
  /\ Put(o, c, v)
  /\ options' = [options EXCEPT ![o].usable = FALSE]
  /\ UNCHANGED <<condArrays, tenant, wanted>>

\* Clause, Query, Join, Group, Having and their With... options.
AddCond(o, slack) ==
  LET new == Appended(condArrays, options[o].conds, <<Cond(o)>>, slack)
  IN /\ Free(o)
     /\ condArrays' = new.heap
     /\ options' = [options EXCEPT ![o].conds = new.slice]
     /\ wanted' = [wanted EXCEPT ![o].conds = Append(@, Cond(o))]
     /\ UNCHANGED <<filterMaps, tenant>>

\* Order, Select, Omit, Preload.
Show(o) ==
  /\ Free(o)
  /\ options' = [options EXCEPT ![o].shown = TRUE]
  /\ wanted' = [wanted EXCEPT ![o].shown = TRUE]
  /\ UNCHANGED <<filterMaps, condArrays, tenant>>

SetWindow(o, offset, limit, meantOffset, meantLimit) ==
  /\ Free(o)
  /\ options' = [options EXCEPT ![o].offset = offset, ![o].limit = limit]
  /\ wanted' = [wanted EXCEPT ![o].offset = meantOffset, ![o].limit = meantLimit]
  /\ UNCHANGED <<filterMaps, condArrays, tenant>>

\* O and L.
SetOffset(o, n) ==
  SetWindow(o, AtLeast(n, 0), options[o].limit, AtLeast(n, 0), wanted[o].limit)
SetLimit(o, n) ==
  SetWindow(o, options[o].offset, LimitOf(n), wanted[o].offset, LimitOf(n))

\* Page: (page - 1) * pageSize, in machine integers.
PageOffset(page, size) == Wrapped((AtLeast(page, 1) - 1) * LimitOf(size))

\* What a page means: rows (page - 1) * size to page * size, or all of them.
Page(o, page, size) ==
  SetWindow(o, PageOffset(page, size), LimitOf(size),
            IF size <= 0 THEN 0 ELSE (AtLeast(page, 1) - 1) * size, LimitOf(size))

\* CountOptions: new Options around the same map and the same lists.
CountOptions(o) ==
  /\ Free(o)
  /\ options' = Append(options, [Blank(options[o].filters, options[o].conds) EXCEPT
                                   !.offset = 0, !.limit = Unlimited])
  /\ wanted' = Append(wanted, [AskedNothing(wanted[o].filters) EXCEPT
                                 !.conds = wanted[o].conds])
  /\ UNCHANGED <<filterMaps, condArrays, tenant>>

-----------------------------------------------------------------------------
(* The tenant. *)

\* RegisterTenant: one atomic store of key and function.
RegisterTenant(key, fn) ==
  /\ tenant' = [key |-> key, fn |-> fn]
  /\ UNCHANGED <<filterMaps, condArrays, options, wanted>>

\* Tenant loads the registration once, and calls the function, which may take
\* its time, while others register.
TenantLoad(o, ctx) ==
  /\ Free(o)
  /\ tenant.key # Absent /\ tenant.fn # Absent
  /\ options' = [options EXCEPT ![o].looking =
                   [key |-> tenant.key, fn |-> tenant.fn, ctx |-> ctx]]
  /\ wanted' = [wanted EXCEPT ![o].filters[tenant.key] = <<tenant.fn, ctx>>]
  /\ UNCHANGED <<filterMaps, condArrays, tenant>>

TenantFilter_LoadedAgain(o) ==
  [key |-> options[o].looking.key, value |-> <<tenant.fn, options[o].looking.ctx>>]

\* The filter Tenant adds, from the registration it loaded.
TenantFilter(o) == [key |-> options[o].looking.key,
                    value |-> <<options[o].looking.fn, options[o].looking.ctx>>]

TenantApply(o) ==
  /\ options[o].looking # Absent
  /\ Put(o, TenantFilter(o).key, TenantFilter(o).value)
  /\ options' = [options EXCEPT ![o].looking = Absent]
  /\ UNCHANGED <<condArrays, tenant, wanted>>

-----------------------------------------------------------------------------
QueryNext ==
  /\ building < MaxBuilding
  /\ building' = building + 1
  /\ \/ \E map \in {0, 1} : NewWhere(map)
     \/ \E key \in Columns \cup {Absent}, fn \in Tenants \cup {Absent} : RegisterTenant(key, fn)
     \/ \E o \in DOMAIN options :
          \/ \E c \in Columns, v \in Values : Filter(o, c, v) \/ FilterPanics(o, c, v)
          \/ \E slack \in 0..GrowSlack : AddCond(o, slack)
          \/ Show(o)
          \/ \E n \in PageArgs : SetOffset(o, n) \/ SetLimit(o, n)
          \/ \E page, size \in PageArgs : Page(o, page, size)
          \/ CountOptions(o)
          \/ \E ctx \in Contexts : TenantLoad(o, ctx)
          \/ TenantApply(o)

QuerySpec == QueryInit /\ [][QueryNext]_queryVars

-----------------------------------------------------------------------------
(* What Where pushes down to GORM. *)

Pushed(o) ==
  [filters |-> filterMaps[options[o].filters],
   conds   |-> Content(condArrays, options[o].conds),
   shown   |-> options[o].shown,
   offset  |-> IF options[o].offset > 0 THEN options[o].offset ELSE 0,
   limit   |-> IF options[o].limit > 0 THEN options[o].limit ELSE Unlimited]

(* Properties.                                                               *)

\* The options are not the only ones with their map, or with their list and
\* room behind it.
Shares(o) ==
  \/ options[o].filters = 1
  \/ \E q \in DOMAIN options \ {o} :
       \/ options[q].filters = options[o].filters
       \/ /\ options[q].conds.array = options[o].conds.array
          /\ options[o].conds.len < Len(condArrays[options[o].conds.array])

\* The multiplication in Page (where.go:301) stays within the machine's integers.
InRange(o) == wanted[o].offset <= TopInt

\* A statement made with Options that share nothing filters, pages and selects
\* as those who built them asked: no other query, registration of a tenant or
\* panic gets in between, and a tenant's filter is one registration's key with
\* the value of the same registration's function (where.go:373-379).
QueriesAreIndependent ==
  \A o \in DOMAIN options :
    Free(o) /\ InRange(o) => Pushed(o) = wanted[o] \/ Shares(o)

=============================================================================
