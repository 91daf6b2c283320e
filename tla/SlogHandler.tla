---------------------------- MODULE SlogHandler ----------------------------
(*****************************************************************************)
(* The slog handler of otelslog/handler.go. A handler is a value: WithAttrs  *)
(* and WithGroup derive new ones from it, Handle turns a call into a record  *)
(* for the OpenTelemetry logger. Attributes are kept in Go slices, and       *)
(* handlers and records share arrays: that is what is modelled here.         *)
(*                                                                           *)
(* A list of attributes is how many are given and how many are kept: AddAttr *)
(* drops empty ones and inlines the groups without a key. What becomes of an *)
(* attribute is told by the call it came with and its position.              *)
(*                                                                           *)
(* A definition Name_Mistake is a mistake one could make in Name; nothing    *)
(* uses it but the experiments that put it in Name's place.                  *)
(*****************************************************************************)
EXTENDS GoSlices

CONSTANTS
  Lists,        \* what may be passed to WithAttrs or to a call
  Slack,        \* append may allocate up to this much more than asked for
  MaxHandlers,  \* bound: handlers derived, the first one included
  MaxRecords    \* bound: calls of Handle

ASSUME SlogAssumption ==
  /\ Lists \subseteq [given : Nat, kept : Nat]
  /\ \A list \in Lists : list.given = 0 => list.kept = 0
  /\ Slack \in Nat
  /\ MaxHandlers \in Nat \ {0}
  /\ MaxRecords \in Nat

VARIABLES
  arrays,    \* the backing arrays; the length of one is its capacity
  handlers,  \* every handler derived: its attributes and groups, leaf first
  records,   \* every record made: its attributes and the maps of its groups
  asked      \* history: what was asked of each handler, as values

slogVars == <<arrays, handlers, records, asked>>

KV(call, i) == <<"kv", call, i>>             \* an attribute of a call
MapOf(call, depth) == <<"map", call, depth>> \* a group in a record
KVs(call, list) == [i \in 1..list.kept |-> KV(call, i)]

-----------------------------------------------------------------------------
(* Buffers of attributes: slices, or nil.                                    *)

\* WithAttrs without the clone: derived handlers append to the same array.
Cloned_NotCopied(heap, s, slack) == [heap |-> heap, slice |-> s]

\* kvBuffer.Clone
Cloned(heap, s, slack) == Moved(heap, s, s.len + slack)

\* kvBuffer.AddAttrs: slices.Grow for as many attributes as are given, then
\* one append for each that is kept.
Added(heap, s, call, list, slack) ==
  LET grown == Grown(heap, s, list.given, slack)
  IN Appended(grown.heap, grown.slice, KVs(call, list), slack)

\* A buffer nobody else knows yet, with the attributes of a list.
Fresh(heap, call, list, slack) ==
  LET made == Made(heap, list.given)
  IN Added(made.heap, made.slice, call, list, slack)

\* kvBuffer.KeyValues; a nil buffer returns what it is given.
KeyValues(heap, s, extra, kvs, slack) ==
  IF s = Nil THEN [heap |-> heap, slice |-> extra]
  ELSE Appended(heap, s, kvs, slack)

-----------------------------------------------------------------------------
SlogInit ==
  /\ arrays = <<>>
  /\ handlers = <<[attrs |-> Nil, groups |-> <<>>]>>
  /\ records = <<>>
  /\ asked = <<[attrs |-> <<>>, groups |-> <<>>]>>

Derive(h, value) ==
  /\ Len(handlers) < MaxHandlers
  /\ handlers' = Append(handlers, h)
  /\ asked' = Append(asked, value)
  /\ UNCHANGED records

\* Handler.WithAttrs: into a clone of the leaf group, or of the attributes.
Extended(heap, s, call, list, slack) ==
  IF s = Nil THEN Fresh(heap, call, list, slack)
  ELSE LET copy == Cloned(heap, s, slack)
       IN Added(copy.heap, copy.slice, call, list, slack)

WithAttrs(k, list, slack) ==
  LET h == handlers[k]
      was == asked[k]
      call == Len(handlers) + 1
      kvs == KVs(call, list)
      old == IF h.groups = <<>> THEN h.attrs ELSE Head(h.groups)
      new == Extended(arrays, old, call, list, slack)
  IN /\ arrays' = new.heap
     /\ IF h.groups = <<>>
        THEN Derive([h EXCEPT !.attrs = new.slice],
                    [was EXCEPT !.attrs = @ \o kvs])
        ELSE Derive([h EXCEPT !.groups[1] = new.slice],
                    [was EXCEPT !.groups[1] = @ \o kvs])

\* Handler.WithGroup: a new leaf. A group is told by its depth; Nil is a group
\* without attributes.
WithGroup(k) ==
  /\ Derive([handlers[k] EXCEPT !.groups = <<Nil>> \o @],
            [asked[k] EXCEPT !.groups = <<<<>>>> \o @])
  /\ UNCHANGED arrays

\* group.NextNonEmpty: how many groups, from the leaf on, are left out of a
\* record whose call has no attributes.
LeadingEmpty(groups) ==
  LET nonEmpty == {i \in DOMAIN groups : groups[i].len > 0}
  IN IF nonEmpty = {} THEN Len(groups)
     ELSE (CHOOSE i \in nonEmpty : \A j \in nonEmpty : i <= j) - 1

Outer_Forgotten(groups, depth) == {}

\* The groups around depth that group.KeyValue has still to add.
Outer(groups, depth) == {i \in DOMAIN groups : i > depth /\ groups[i].len > 0}

\* Handler.Handle and convertRecord up to the first map. AddAttributes copies
\* the attributes outside of groups into the record; a map keeps the slice it
\* is given. A call with attributes starts at the leaf, one without at the
\* first group that has some.
Handle(k, list, slack) ==
  LET h == handlers[k]
      call == MaxHandlers + Len(records) + 1
      kvs == KVs(call, list)
      first == IF list.given > 0 THEN 1 ELSE LeadingEmpty(h.groups) + 1
      buf == Fresh(arrays, call, list, slack)
      leaf == KeyValues(buf.heap, h.groups[first], buf.slice, kvs, slack)
      record(plain, maps) ==
        [of |-> k, list |-> list, attrs |-> Content(arrays, h.attrs) \o plain, maps |-> maps]
  IN /\ Len(records) < MaxRecords
     /\ IF h.groups = <<>>
        THEN /\ records' = Append(records, record(kvs, <<>>))
             /\ UNCHANGED arrays
        ELSE IF first > Len(h.groups)
        THEN /\ records' = Append(records, record(<<>>, <<>>))
             /\ UNCHANGED arrays
        ELSE /\ records' = Append(records,
                  record(<<>>, <<[depth |-> first, slice |-> leaf.slice]>>))
             /\ arrays' = leaf.heap
     /\ UNCHANGED <<handlers, asked>>

\* One turn of the loop of group.KeyValue: the next group with attributes goes
\* around the map made last. Other goroutines may come between the turns.
Wrap(r, slack) ==
  LET rec == records[r]
      last == rec.maps[Len(rec.maps)].depth
      groups == handlers[rec.of].groups
      next == CHOOSE i \in Outer(groups, last) : \A j \in Outer(groups, last) : i <= j
      new == Appended(arrays, groups[next], <<MapOf(MaxHandlers + r, last)>>, slack)
  IN /\ rec.maps # <<>>
     /\ Outer(groups, last) # {}
     /\ arrays' = new.heap
     /\ records' = [records EXCEPT ![r].maps =
                      Append(@, [depth |-> next, slice |-> new.slice])]
     /\ UNCHANGED <<handlers, asked>>

SlogNext ==
  \/ \E k \in DOMAIN handlers :
       \/ \E list \in Lists, slack \in 0..Slack : WithAttrs(k, list, slack)
       \/ WithGroup(k)
       \/ \E list \in Lists, slack \in 0..Slack : Handle(k, list, slack)
  \/ \E r \in DOMAIN records, slack \in 0..Slack : Wrap(r, slack)

SlogSpec == SlogInit /\ [][SlogNext]_slogVars

-----------------------------------------------------------------------------
(* Properties.                                                               *)

\* Everything a handler says of itself is what was asked of it.
Keeps(k) ==
  /\ Content(arrays, handlers[k].attrs) = asked[k].attrs
  /\ Len(handlers[k].groups) = Len(asked[k].groups)
  /\ \A i \in DOMAIN handlers[k].groups :
       Content(arrays, handlers[k].groups[i]) = asked[k].groups[i]

\* Deriving handlers and making records never changes the attributes of a
\* handler that exists: the Clone in WithAttrs (handler.go:262, 268) and the
\* appends of Handle, which share the handler's array, see to that.
HandlersKeepTheirAttributes == \A k \in DOMAIN handlers : Keeps(k)

\* The groups of a record that is finished.
Finished(r) ==
  LET maps == records[r].maps
  IN maps = <<>> \/ Outer(handlers[records[r].of].groups, maps[Len(maps)].depth) = {}

\* A record holds the attributes of its handler and of its call, each group
\* those that were asked of it and the map inside of it, and none is left out.
Faithful(r) ==
  LET rec == records[r]
      want == asked[rec.of]
      kvs == KVs(MaxHandlers + r, rec.list)
      inner(i) == IF i = 1 THEN kvs ELSE <<MapOf(MaxHandlers + r, rec.maps[i - 1].depth)>>
      depths == {rec.maps[i].depth : i \in DOMAIN rec.maps}
  IN /\ rec.attrs = want.attrs \o (IF want.groups = <<>> THEN kvs ELSE <<>>)
     /\ \A i \in DOMAIN rec.maps :
          Content(arrays, rec.maps[i].slice) = want.groups[rec.maps[i].depth] \o inner(i)
     /\ \A d \in DOMAIN want.groups :
          want.groups[d] # <<>> \/ (d = 1 /\ kvs # <<>>) => d \in depths

\* Another record was made by a handler that has a group in common with r's,
\* one whose array has room after the attributes of the group.
Contended(r) ==
  \E q \in DOMAIN records \ {r} :
    \E i \in DOMAIN handlers[records[r].of].groups,
       j \in DOMAIN handlers[records[q].of].groups :
      LET s == handlers[records[r].of].groups[i]
      IN /\ s = handlers[records[q].of].groups[j]
         /\ s # Nil
         /\ s.len < Len(arrays[s.array])

\* A record is what its call and its handler say, at any time after it was
\* made, unless its handler's groups are shared with another record and their
\* array has spare capacity: nothing else damages a record.
OnlySharedGroupsDisturb ==
  \A r \in DOMAIN records : Finished(r) => Faithful(r) \/ Contended(r)

\* The comment at handler.go:345 says that the attributes of a call are
\* rendered into the result and not added to the group: a record keeps what it
\* had when it was emitted, whatever is logged afterwards.
RecordsAreOwn ==
  \A r \in DOMAIN records : Finished(r) => Faithful(r)

\* The comment at handler.go:309-324: an attribute logged below groups G, H and
\* I is in the map of I, in that of H, in that of G, though G and H have no
\* attributes of their own.
GroupsAreNested ==
  \A r \in DOMAIN records :
    Finished(r) /\ records[r].list.kept > 0 =>
      Len(records[r].maps) = Len(asked[records[r].of].groups)

=============================================================================
