------------------------ MODULE SlogHandler_proofs --------------------------
(***************************************************************************)
(* Proofs about SlogHandler, for any lists of attributes, any capacities   *)
(* append chooses and any number of handlers and records.                  *)
(*                                                                         *)
(* A handler's arrays are its own up to its length: two slices of one      *)
(* array that handlers hold are the same slice, so what is appended to it  *)
(* lies behind what any handler sees. What lies there belongs to the       *)
(* record that wrote it, until another record of a handler with the same   *)
(* group writes to the same place.                                         *)
(***************************************************************************)
EXTENDS SlogHandler, Foundations

Marks ==
  {Unset} \cup {KV(c, i) : c \in Nat, i \in Nat} \cup {MapOf(c, d) : c \in Nat, d \in Nat}

\* A buffer of a handler is nil or a slice of an array that is there.
Buffers(heap) == {Nil} \cup Views(heap)

HandlerTypeOK ==
  /\ arrays \in HeapOf(Marks)
  /\ handlers \in Seq([attrs : Buffers(arrays), groups : Seq(Buffers(arrays))])
  /\ asked \in Seq([attrs : Seq(Marks), groups : Seq(Seq(Marks))])
  /\ Len(asked) = Len(handlers)

\* The slices handlers hold.
Held(h) == ({h.attrs} \cup {h.groups[i] : i \in 1..Len(h.groups)}) \ {Nil}
Known == UNION {Held(handlers[k]) : k \in 1..Len(handlers)}

\* Two slices of one array are one slice, and a handler has it in one group.
Own ==
  /\ \A s, t \in Known : s.array = t.array => s = t
  /\ \A k \in 1..Len(handlers) : \A i, j \in 1..Len(handlers[k].groups) :
       i # j /\ handlers[k].groups[i] # Nil => handlers[k].groups[i] # handlers[k].groups[j]

HandlersInvariant == HandlerTypeOK /\ Own /\ HandlersKeepTheirAttributes

LEMMA MarksAre ==
  /\ Unset \in Marks
  /\ \A c, d \in Nat : KV(c, d) \in Marks /\ MapOf(c, d) \in Marks
  /\ \A c \in Nat, list \in Lists : KVs(c, list) \in Seq(Marks) /\ Len(KVs(c, list)) = list.kept
  /\ \A c \in Nat, list \in Lists : list.given \in Nat /\ list.kept \in Nat
  /\ \A c, d \in Nat : <<MapOf(c, d)>> \in Seq(Marks) /\ Len(<<MapOf(c, d)>>) = 1
<1>1. Unset \in Marks /\ \A c, d \in Nat : KV(c, d) \in Marks /\ MapOf(c, d) \in Marks
  BY DEF Marks
<1>2. \A c \in Nat, list \in Lists : list.given \in Nat /\ list.kept \in Nat
  BY SlogAssumption
<1>3. ASSUME NEW c \in Nat, NEW list \in Lists
      PROVE  KVs(c, list) \in Seq(Marks) /\ Len(KVs(c, list)) = list.kept
  <2>1. list.kept \in Nat /\ \A i \in 1..list.kept : KV(c, i) \in Marks
    BY <1>1, <1>2
  <2>2. [i \in 1..list.kept |-> KV(c, i)] \in Seq(Marks)
        /\ Len([i \in 1..list.kept |-> KV(c, i)]) = list.kept
    BY <2>1, IsASeq, LenProperties
  <2> QED
    BY <2>2 DEF KVs
<1>4. ASSUME NEW m \in Marks
      PROVE  <<m>> \in Seq(Marks) /\ Len(<<m>>) = 1
  OBVIOUS
<1> QED
  BY <1>1, <1>2, <1>3, <1>4

\* The attributes of a list behind a slice.
Adding(heap, s, kvs, new) ==
  /\ new.heap \in HeapOf(Marks) /\ new.slice \in Views(new.heap)
  /\ Content(new.heap, new.slice) = Content(heap, s) \o kvs
  /\ Written(heap, new.heap, s.array, s.len)
  /\ new.slice.array = s.array \/ new.slice.array > Len(heap)

LEMMA AddedIs ==
  ASSUME NEW heap \in HeapOf(Marks), NEW s \in Views(heap), NEW call \in Nat,
         NEW list \in Lists, NEW slack \in Nat
  PROVE  Adding(heap, s, KVs(call, list), Added(heap, s, call, list, slack))
<1> DEFINE grown == Grown(heap, s, list.given, slack)
           kvs == KVs(call, list)
           new == Added(heap, s, call, list, slack)
<1> SUFFICES Adding(heap, s, kvs, new)
  OBVIOUS
<1>1. Unset \in Marks /\ kvs \in Seq(Marks) /\ list.given \in Nat
  BY MarksAre
<1>2. Growth(Marks, heap, s, list.given, grown)
  BY <1>1, GrownIs
<1>3. new = Appended(grown.heap, grown.slice, kvs, slack)
  BY DEF Added
<1> HIDE DEF grown, kvs, new
<1>4. /\ grown.heap \in HeapOf(Marks) /\ grown.slice \in Views(grown.heap)
      /\ grown.slice.len = s.len
      /\ \A i \in 1..s.len : grown.heap[grown.slice.array][i] = heap[s.array][i]
      /\ \/ grown.slice = s /\ grown.heap = heap
         \/ /\ grown.slice.array = Len(heap) + 1 /\ Len(heap) < Len(grown.heap)
            /\ \A at, low : Written(heap, grown.heap, at, low)
  BY <1>2 DEF Growth
<1>5. Content(grown.heap, grown.slice) = Content(heap, s)
  <2>1. /\ Content(heap, s) \in Seq(Marks) /\ Len(Content(heap, s)) = s.len
        /\ \A i \in 1..s.len : Content(heap, s)[i] = heap[s.array][i]
    BY ContentIs
  <2>2. /\ Content(grown.heap, grown.slice) \in Seq(Marks)
        /\ Len(Content(grown.heap, grown.slice)) = grown.slice.len
        /\ \A i \in 1..grown.slice.len :
             Content(grown.heap, grown.slice)[i] = grown.heap[grown.slice.array][i]
    BY <1>4, ContentIs
  <2>3. \A i \in 1..s.len : Content(grown.heap, grown.slice)[i] = Content(heap, s)[i]
    BY <1>4, <2>1, <2>2
  <2> QED
    BY <1>4, <2>1, <2>2, <2>3, SeqEqual
<1>6. Appending(Marks, grown.heap, grown.slice, kvs, new)
  BY <1>1, <1>3, <1>4, AppendedIs
<1>7. /\ new.heap \in HeapOf(Marks) /\ new.slice \in Views(new.heap)
      /\ Content(new.heap, new.slice) = Content(heap, s) \o kvs
      /\ Written(grown.heap, new.heap, grown.slice.array, s.len)
      /\ new.slice.array = grown.slice.array \/ new.slice.array = Len(grown.heap) + 1
  BY <1>4, <1>5, <1>6 DEF Appending
<1>8. Len(heap) \in Nat /\ Len(grown.heap) \in Nat
  BY <1>4 DEF HeapOf
<1>9. CASE grown.slice = s /\ grown.heap = heap
  BY <1>7, <1>8, <1>9 DEF Adding
<1>10. CASE /\ grown.slice.array = Len(heap) + 1 /\ Len(heap) < Len(grown.heap)
            /\ \A at, low : Written(heap, grown.heap, at, low)
  <2>1. grown.slice.array \notin 1..Len(heap)
    BY <1>8, <1>10
  <2>2. Written(heap, new.heap, s.array, s.len)
    BY <1>4, <1>7, <1>10, <2>1, WrittenThrough
  <2>3. new.slice.array > Len(heap)
    BY <1>7, <1>8, <1>10
  <2> QED
    BY <1>7, <2>2, <2>3 DEF Adding
<1> QED
  BY <1>4, <1>9, <1>10

\* WithAttrs, with or without attributes before: everything that was there stays.
LEMMA ExtendedIs ==
  ASSUME NEW heap \in HeapOf(Marks), NEW s \in Buffers(heap), NEW call \in Nat,
         NEW list \in Lists, NEW slack \in Nat,
         NEW new, new = Extended(heap, s, call, list, slack)
  PROVE  /\ new.heap \in HeapOf(Marks) /\ new.slice \in Views(new.heap)
         /\ Content(new.heap, new.slice) = Content(heap, s) \o KVs(call, list)
         /\ Written(heap, new.heap, 0, 0)
         /\ new.slice.array > Len(heap)
<1>1. Unset \in Marks /\ KVs(call, list) \in Seq(Marks) /\ list.given \in Nat /\ Len(heap) \in Nat
  <2>1. Len(heap) \in Nat
    BY DEF HeapOf
  <2> QED
    BY <2>1, MarksAre
<1>2. \E mid : \E t \in Views(mid) :
        /\ mid \in HeapOf(Marks) /\ t.array = Len(heap) + 1
        /\ Content(mid, t) = Content(heap, s)
        /\ Written(heap, mid, 0, 0)
        /\ Len(heap) < Len(mid)
        /\ new = Added(mid, t, call, list, slack)
  <2>1. CASE s = Nil
    <3> DEFINE made == Made(heap, list.given)
    <3>1. new = Added(made.heap, made.slice, call, list, slack)
      BY <2>1 DEF Extended, Fresh
    <3>2. /\ made.heap \in HeapOf(Marks) /\ made.slice \in Views(made.heap)
          /\ made.slice = [array |-> Len(heap) + 1, len |-> 0]
          /\ \A at, low : Written(heap, made.heap, at, low)
      BY <1>1, MadeIs
    <3> HIDE DEF made
    <3>3. /\ made.slice.array = Len(heap) + 1 /\ made.slice.len = 0
          /\ made.slice.array \in 1..Len(made.heap)
      BY <3>2 DEF Views
    <3>4. Content(made.heap, made.slice) = <<>>
      <4>1. /\ Content(made.heap, made.slice) \in Seq(Marks)
            /\ Len(Content(made.heap, made.slice)) = made.slice.len
        BY <3>2, ContentIs
      <4> QED
        BY <3>3, <4>1, EmptySeq
    <3>5. Content(heap, s) = <<>>
      BY <2>1 DEF Content
    <3>6. Len(heap) < Len(made.heap)
      <4>1. Len(made.heap) \in Nat
        BY <3>2 DEF HeapOf
      <4> QED
        BY <1>1, <3>3, <4>1
    <3> QED
      BY <3>1, <3>2, <3>3, <3>4, <3>5, <3>6
  <2>2. CASE s # Nil
    <3> DEFINE cap == s.len + slack
               copy == Moved(heap, s, cap)
    <3>1. s \in Views(heap) /\ s.len \in Nat
      BY <2>2 DEF Buffers, Views
    <3>2. new = Added(copy.heap, copy.slice, call, list, slack)
      BY <2>2 DEF Extended, Cloned
    <3>3. cap \in Nat /\ s.len <= cap
      BY <3>1
    <3> HIDE DEF cap
    <3>4. /\ copy.heap \in HeapOf(Marks) /\ copy.slice \in Views(copy.heap)
          /\ copy.slice = [array |-> Len(heap) + 1, len |-> s.len]
          /\ Len(copy.heap) = Len(heap) + 1
          /\ \A i \in 1..s.len : copy.heap[Len(heap) + 1][i] = heap[s.array][i]
          /\ \A at, low : Written(heap, copy.heap, at, low)
      <4>1. Moving(Marks, heap, s, cap, copy)
        BY <1>1, <3>1, <3>3, MovedIs
      <4> QED
        BY <4>1 DEF Moving
    <3> HIDE DEF copy
    <3>5. copy.slice.array = Len(heap) + 1 /\ copy.slice.len = s.len
      BY <3>4
    <3>6. Content(copy.heap, copy.slice) = Content(heap, s)
      <4>1. /\ Content(heap, s) \in Seq(Marks) /\ Len(Content(heap, s)) = s.len
            /\ \A i \in 1..s.len : Content(heap, s)[i] = heap[s.array][i]
        BY <3>1, ContentIs
      <4>2. /\ Content(copy.heap, copy.slice) \in Seq(Marks)
            /\ Len(Content(copy.heap, copy.slice)) = copy.slice.len
            /\ \A i \in 1..copy.slice.len :
                 Content(copy.heap, copy.slice)[i] = copy.heap[copy.slice.array][i]
        BY <3>4, ContentIs
      <4>3. \A i \in 1..s.len : Content(copy.heap, copy.slice)[i] = Content(heap, s)[i]
        BY <3>4, <3>5, <4>1, <4>2
      <4> QED
        BY <3>5, <4>1, <4>2, <4>3, SeqEqual
    <3>7. Len(heap) < Len(copy.heap)
      BY <1>1, <3>4
    <3> QED
      BY <3>2, <3>4, <3>5, <3>6, <3>7
  <2> QED
    BY <2>1, <2>2
<1>3. PICK mid, t :
        /\ t \in Views(mid)
        /\ mid \in HeapOf(Marks) /\ t.array = Len(heap) + 1
        /\ Content(mid, t) = Content(heap, s)
        /\ Written(heap, mid, 0, 0)
        /\ Len(heap) < Len(mid)
        /\ new = Added(mid, t, call, list, slack)
  BY <1>2
<1>4. /\ new.heap \in HeapOf(Marks) /\ new.slice \in Views(new.heap)
      /\ Content(new.heap, new.slice) = Content(heap, s) \o KVs(call, list)
      /\ Written(mid, new.heap, t.array, t.len)
      /\ new.slice.array = t.array \/ new.slice.array > Len(mid)
  <2>1. Adding(mid, t, KVs(call, list), new)
    BY <1>3, AddedIs
  <2> QED
    BY <1>3, <2>1 DEF Adding
<1>5. t.array \notin 1..Len(heap) /\ Len(mid) \in Nat
  BY <1>1, <1>3 DEF HeapOf
<1>6. Written(heap, new.heap, 0, 0)
  <2>1. mid \in HeapOf(Marks) /\ new.heap \in HeapOf(Marks)
        /\ Written(heap, mid, 0, 0) /\ Written(mid, new.heap, t.array, t.len)
    BY <1>3, <1>4
  <2> QED
    BY <1>5, <2>1, WrittenThrough
<1>7. new.slice.array > Len(heap)
  <2>1. new.slice.array \in Nat
    BY <1>4 DEF Views
  <2> QED
    BY <1>1, <1>3, <1>4, <1>5, <2>1
<1> QED
  BY <1>4, <1>6, <1>7
-----------------------------------------------------------------------------
(* Handlers *)

LEMMA BuffersStay ==
  ASSUME NEW E, NEW heap \in HeapOf(E), NEW new \in HeapOf(E),
         NEW at, NEW low, Written(heap, new, at, low)
  PROVE  Views(heap) \subseteq Views(new) /\ Buffers(heap) \subseteq Buffers(new)
  BY ViewsStay DEF Buffers

LEMMA ViewFacts ==
  ASSUME NEW heap, Len(heap) \in Nat, NEW s \in Views(heap)
  PROVE  /\ s.array \in 1..Len(heap) /\ s.array \in Nat /\ s.array # 0 /\ s.array <= Len(heap)
         /\ s.len \in Nat /\ s # Nil
  BY DEF Views, Nil

LEMMA RoomLeft ==
  ASSUME NEW low \in Nat, NEW more \in Nat, NEW cap \in Nat, more # 0, low + more <= cap
  PROVE  low < cap
  OBVIOUS

LEMMA NilFacts == Nil.array = 0 /\ Nil.len = 0
  BY DEF Nil

LEMMA HeldAre ==
  ASSUME HandlerTypeOK, NEW k \in 1..Len(handlers)
  PROVE  /\ handlers[k] \in [attrs : Buffers(arrays), groups : Seq(Buffers(arrays))]
         /\ asked[k] \in [attrs : Seq(Marks), groups : Seq(Seq(Marks))]
         /\ handlers[k].attrs \in Known \cup {Nil}
         /\ \A i \in 1..Len(handlers[k].groups) : handlers[k].groups[i] \in Known \cup {Nil}
         /\ \A s \in Held(handlers[k]) : s \in Known /\ s \in Views(arrays)
<1>1. /\ handlers[k] \in [attrs : Buffers(arrays), groups : Seq(Buffers(arrays))]
      /\ asked[k] \in [attrs : Seq(Marks), groups : Seq(Seq(Marks))]
  BY ElementOfSeq DEF HandlerTypeOK
<1>2. \A i \in 1..Len(handlers[k].groups) : handlers[k].groups[i] \in Buffers(arrays)
  BY <1>1, ElementOfSeq
<1>3. \A s \in Held(handlers[k]) : s \in Known
  BY DEF Known
<1>4. \A s \in Held(handlers[k]) : s \in Views(arrays)
  BY <1>1, <1>2 DEF Held, Buffers
<1> QED
  BY <1>1, <1>3, <1>4 DEF Held

LEMMA KnownAreViews ==
  ASSUME HandlerTypeOK
  PROVE  Known \subseteq Views(arrays) /\ Nil \notin Known
  BY Zenon, HeldAre DEF Known, Held

\* A write behind every slice that is known leaves the handlers as they are.
LEMMA HandlersStay ==
  ASSUME HandlersInvariant, handlers' = handlers, asked' = asked, arrays' \in HeapOf(Marks),
         NEW at, NEW low \in Nat, Written(arrays, arrays', at, low),
         \A s \in Known : s.array = at => s.len <= low
  PROVE  HandlersInvariant'
<1> USE DEF HandlersInvariant
<1>1. arrays \in HeapOf(Marks)
  BY DEF HandlerTypeOK
<1>2. Buffers(arrays) \subseteq Buffers(arrays')
  BY <1>1, BuffersStay
<1>3. HandlerTypeOK'
  <2>1. handlers \in Seq([attrs : Buffers(arrays), groups : Seq(Buffers(arrays))])
    BY DEF HandlerTypeOK
  <2>2. Seq(Buffers(arrays)) \subseteq Seq(Buffers(arrays'))
    BY <1>2, SeqMonotonic
  <2>3. [attrs : Buffers(arrays), groups : Seq(Buffers(arrays))]
          \subseteq [attrs : Buffers(arrays'), groups : Seq(Buffers(arrays'))]
    BY <1>2, <2>2
  <2>4. handlers \in Seq([attrs : Buffers(arrays'), groups : Seq(Buffers(arrays'))])
    BY <2>1, <2>3, SeqMonotonic
  <2>5. Buffers(arrays)' = Buffers(arrays')
    BY DEF Buffers, Views
  <2> QED
    BY <2>4, <2>5 DEF HandlerTypeOK
<1>4. Known' = Known
  BY DEF Known, Held
<1>5. Own'
  BY <1>4 DEF Own
<1>6. \A s \in Known \cup {Nil} : Content(arrays', s) = Content(arrays, s)
  <2>1. Content(arrays', Nil) = <<>> /\ Content(arrays, Nil) = <<>>
    BY DEF Content
  <2>2. ASSUME NEW s \in Known
        PROVE  Content(arrays', s) = Content(arrays, s)
    <3>1. s \in Views(arrays) /\ (s.array = at => s.len <= low)
      BY KnownAreViews
    <3> QED
      BY <1>1, <3>1, ContentStays
  <2> QED
    BY <2>1, <2>2
<1>7. HandlersKeepTheirAttributes'
  <2>1. ASSUME NEW k \in 1..Len(handlers)
        PROVE  Keeps(k)'
    <3>1. Keeps(k)
      BY LenProperties DEF HandlersKeepTheirAttributes, HandlerTypeOK
    <3>2. /\ handlers[k].attrs \in Known \cup {Nil}
          /\ \A i \in 1..Len(handlers[k].groups) : handlers[k].groups[i] \in Known \cup {Nil}
          /\ DOMAIN handlers[k].groups = 1..Len(handlers[k].groups)
      BY HeldAre, LenProperties
    <3> QED
      BY <1>6, <3>1, <3>2 DEF Keeps
  <2>2. DOMAIN handlers' = 1..Len(handlers)
    BY LenProperties DEF HandlerTypeOK
  <2> QED
    BY <2>1, <2>2 DEF HandlersKeepTheirAttributes
<1> QED
  BY <1>3, <1>5, <1>7

\* A handler derived from one that is there has its slices, but one perhaps in an
\* array of its own.
LEMMA DeriveKeeps ==
  ASSUME HandlersInvariant, NEW h, NEW value, NEW fresh,
         handlers' = Append(handlers, h), asked' = Append(asked, value),
         arrays' \in HeapOf(Marks), Written(arrays, arrays', 0, 0),
         h \in [attrs : Buffers(arrays'), groups : Seq(Buffers(arrays'))],
         value \in [attrs : Seq(Marks), groups : Seq(Seq(Marks))],
         fresh.array > Len(arrays),
         Held(h) \subseteq Known \cup {fresh},
         \A i, j \in 1..Len(h.groups) : i # j /\ h.groups[i] # Nil => h.groups[i] # h.groups[j],
         Content(arrays', h.attrs) = value.attrs,
         Len(h.groups) = Len(value.groups),
         \A i \in 1..Len(h.groups) : Content(arrays', h.groups[i]) = value.groups[i]
  PROVE  /\ HandlersInvariant'
         /\ Known' \subseteq Known \cup {fresh}
         /\ Len(handlers') = Len(handlers) + 1
         /\ \A k \in 1..Len(handlers) : handlers'[k] = handlers[k] /\ asked'[k] = asked[k]
<1> USE DEF HandlersInvariant
<1>1. arrays \in HeapOf(Marks) /\ Len(arrays) \in Nat
  BY DEF HandlerTypeOK, HeapOf
<1>2. Buffers(arrays) \subseteq Buffers(arrays') /\ Buffers(arrays)' = Buffers(arrays')
  BY <1>1, BuffersStay DEF Buffers, Views
<1> DEFINE H == [attrs : Buffers(arrays'), groups : Seq(Buffers(arrays'))]
<1>3. handlers \in Seq(H)
  <2>1. handlers \in Seq([attrs : Buffers(arrays), groups : Seq(Buffers(arrays))])
    BY DEF HandlerTypeOK
  <2>2. Seq(Buffers(arrays)) \subseteq Seq(Buffers(arrays'))
    BY <1>2, SeqMonotonic
  <2>3. [attrs : Buffers(arrays), groups : Seq(Buffers(arrays))] \subseteq H
    BY <1>2, <2>2
  <2> HIDE DEF H
  <2> QED
    BY <2>1, <2>3, SeqMonotonic
<1>4. /\ handlers' \in Seq(H) /\ Len(handlers') = Len(handlers) + 1
      /\ \A k \in 1..Len(handlers) : handlers'[k] = handlers[k]
      /\ handlers'[Len(handlers) + 1] = h /\ Len(handlers) \in Nat
  <2>1. h \in H
    OBVIOUS
  <2> HIDE DEF H
  <2> QED
    BY <1>3, <2>1, AppendProperties
<1>5. /\ asked' \in Seq([attrs : Seq(Marks), groups : Seq(Seq(Marks))])
      /\ Len(asked') = Len(handlers')
      /\ \A k \in 1..Len(handlers) : asked'[k] = asked[k]
      /\ asked'[Len(handlers) + 1] = value
  <2> DEFINE A == [attrs : Seq(Marks), groups : Seq(Seq(Marks))]
  <2>1. asked \in Seq(A) /\ value \in A /\ Len(asked) = Len(handlers)
    BY DEF HandlerTypeOK
  <2> HIDE DEF A
  <2>2. /\ asked' \in Seq(A) /\ Len(asked') = Len(asked) + 1
        /\ \A k \in 1..Len(asked) : asked'[k] = asked[k]
        /\ asked'[Len(asked) + 1] = value
    BY <2>1, AppendProperties
  <2> QED
    BY <1>4, <2>1, <2>2 DEF A
<1>6. HandlerTypeOK'
  BY <1>2, <1>4, <1>5 DEF HandlerTypeOK
<1>7. 1..Len(handlers') = 1..Len(handlers) \cup {Len(handlers) + 1}
  BY <1>4
<1>8. Known' = Known \cup Held(h)
  <2>1. Known' = UNION {Held(handlers'[k]) : k \in 1..Len(handlers')}
    BY DEF Known, Held
  <2>2. \A k \in 1..Len(handlers) : Held(handlers'[k]) = Held(handlers[k])
    BY <1>4
  <2> QED
    BY <1>4, <1>7, <2>1, <2>2 DEF Known
<1>9. Own'
  <2>1. \A s, t \in Known' : s.array = t.array => s = t
    <3>1. \A s \in Known : s.array <= Len(arrays) /\ s.array \in Nat
      BY <1>1, KnownAreViews DEF Views
    <3>2. \A s \in Known' : s \in Known \/ s = fresh
      BY <1>8
    <3> QED
      BY SMTT(30), <1>1, <3>1, <3>2 DEF Own
  <2>2. ASSUME NEW k \in 1..Len(handlers')
        PROVE  \A i, j \in 1..Len(handlers'[k].groups) :
                 i # j /\ handlers'[k].groups[i] # Nil => handlers'[k].groups[i] # handlers'[k].groups[j]
    <3>1. CASE k \in 1..Len(handlers)
      <4>1. \A i, j \in 1..Len(handlers[k].groups) :
              i # j /\ handlers[k].groups[i] # Nil => handlers[k].groups[i] # handlers[k].groups[j]
        BY <3>1 DEF Own
      <4>2. handlers'[k].groups = handlers[k].groups
        BY <1>4, <3>1
      <4> QED
        BY ONLY <4>1, <4>2
    <3>2. CASE k = Len(handlers) + 1
      BY <1>4, <3>2
    <3> QED
      BY <1>7, <3>1, <3>2
  <2> QED
    BY <2>1, <2>2 DEF Own
<1>10. \A s \in Known \cup {Nil} : Content(arrays', s) = Content(arrays, s)
  <2>1. Content(arrays', Nil) = <<>> /\ Content(arrays, Nil) = <<>>
    BY DEF Content
  <2>2. ASSUME NEW s \in Known
        PROVE  Content(arrays', s) = Content(arrays, s)
    <3>1. s \in Views(arrays) /\ s.array # 0
      BY KnownAreViews DEF Views
    <3> QED
      BY <1>1, <3>1, ContentStays
  <2> QED
    BY <2>1, <2>2
<1>11. HandlersKeepTheirAttributes'
  <2>1. ASSUME NEW k \in 1..Len(handlers)
        PROVE  Keeps(k)'
    <3>1. Keeps(k)
      BY LenProperties DEF HandlersKeepTheirAttributes, HandlerTypeOK
    <3>2. /\ handlers[k].attrs \in Known \cup {Nil}
          /\ \A i \in 1..Len(handlers[k].groups) : handlers[k].groups[i] \in Known \cup {Nil}
          /\ DOMAIN handlers[k].groups = 1..Len(handlers[k].groups)
      BY HeldAre, LenProperties
    <3>3. handlers'[k] = handlers[k] /\ asked'[k] = asked[k]
      BY <1>4, <1>5
    <3> QED
      BY ZenonT(30), <1>10, <3>1, <3>2, <3>3 DEF Keeps
  <2>2. ASSUME NEW k, k = Len(handlers) + 1
        PROVE  Keeps(k)'
    <3>1. DOMAIN h.groups = 1..Len(h.groups)
      BY LenProperties
    <3> QED
      BY <1>4, <1>5, <2>2, <3>1 DEF Keeps
  <2>3. DOMAIN handlers' = 1..Len(handlers')
    BY <1>4, LenProperties
  <2> QED
    BY <1>7, <2>1, <2>2, <2>3 DEF HandlersKeepTheirAttributes
<1> QED
  BY <1>4, <1>5, <1>6, <1>8, <1>9, <1>11
\* What deriving a handler does to the others and to what they hold.
Derived ==
  /\ HandlersInvariant'
  /\ Written(arrays, arrays', 0, 0)
  /\ \A s \in Known' : s \in Known \/ s.array > Len(arrays)
  /\ Len(handlers') = Len(handlers) + 1
  /\ \A k \in 1..Len(handlers) : handlers'[k] = handlers[k] /\ asked'[k] = asked[k]
  /\ records' = records

LEMMA WithAttrsDerives ==
  ASSUME HandlersInvariant, NEW k \in 1..Len(handlers), NEW list \in Lists,
         NEW slack \in 0..Slack, WithAttrs(k, list, slack)
  PROVE  Derived
<1> DEFINE old == IF handlers[k].groups = <<>> THEN handlers[k].attrs ELSE Head(handlers[k].groups)
           call == Len(handlers) + 1
           kvs == KVs(call, list)
           new == Extended(arrays, old, call, list, slack)
           fresh == new.slice
           groups == handlers[k].groups
<1>1. /\ HandlerTypeOK /\ Keeps(k) /\ arrays \in HeapOf(Marks)
      /\ Len(handlers) \in Nat /\ Len(arrays) \in Nat
      /\ slack \in Nat /\ call \in Nat
      /\ handlers[k] \in [attrs : Buffers(arrays), groups : Seq(Buffers(arrays))]
      /\ asked[k] \in [attrs : Seq(Marks), groups : Seq(Seq(Marks))]
      /\ Len(groups) = Len(asked[k].groups) /\ Len(groups) \in Nat
  <2>1. HandlerTypeOK /\ arrays \in HeapOf(Marks) /\ DOMAIN handlers = 1..Len(handlers)
    <3>1. HandlerTypeOK
      BY DEF HandlersInvariant
    <3> QED
      BY <3>1, LenProperties DEF HandlerTypeOK
  <2>2. Keeps(k) /\ Len(handlers) \in Nat /\ Len(arrays) \in Nat
    <3>1. Keeps(k)
      BY <2>1 DEF HandlersInvariant, HandlersKeepTheirAttributes
    <3>2. Len(handlers) \in Nat
      BY DEF HandlersInvariant, HandlerTypeOK
    <3>3. Len(arrays) \in Nat
      BY <2>1 DEF HeapOf
    <3> QED
      BY <3>1, <3>2, <3>3
  <2>3. /\ handlers[k] \in [attrs : Buffers(arrays), groups : Seq(Buffers(arrays))]
        /\ asked[k] \in [attrs : Seq(Marks), groups : Seq(Seq(Marks))]
    BY <2>1, HeldAre
  <2>4. slack \in Nat
    BY SlogAssumption
  <2> QED
    BY <2>1, <2>2, <2>3, <2>4 DEF Keeps
<1>2. old \in Buffers(arrays) /\ (groups # <<>> => old = groups[1] /\ 1 \in 1..Len(groups))
  <2>1. CASE groups = <<>>
    BY <1>1, <2>1
  <2>2. CASE groups # <<>>
    <3>1. Len(groups) >= 1 /\ old = groups[1]
      BY <1>1, <2>2
    <3> QED
      BY <1>1, <2>2, <3>1, ElementOfSeq
  <2> QED
    BY <2>1, <2>2
<1>3. /\ arrays' = new.heap /\ records' = records
      /\ IF groups = <<>>
         THEN /\ handlers' = Append(handlers, [handlers[k] EXCEPT !.attrs = fresh])
              /\ asked' = Append(asked, [asked[k] EXCEPT !.attrs = @ \o kvs])
         ELSE /\ handlers' = Append(handlers, [handlers[k] EXCEPT !.groups[1] = fresh])
              /\ asked' = Append(asked, [asked[k] EXCEPT !.groups[1] = @ \o kvs])
  BY DEF WithAttrs, Derive
<1>4. kvs \in Seq(Marks)
  BY <1>1, MarksAre
<1> HIDE DEF old, call, kvs
<1>5. /\ new.heap \in HeapOf(Marks) /\ fresh \in Views(new.heap)
      /\ Content(new.heap, fresh) = Content(arrays, old) \o kvs
      /\ Written(arrays, new.heap, 0, 0)
      /\ fresh.array > Len(arrays)
  BY <1>1, <1>2, ExtendedIs DEF kvs
<1> HIDE DEF new
<1>6. /\ Buffers(arrays) \subseteq Buffers(arrays') /\ fresh \in Buffers(arrays')
      /\ arrays' \in HeapOf(Marks)
  BY <1>1, <1>3, <1>5, BuffersStay DEF Buffers
<1>7. /\ \A s \in Held(handlers[k]) : s \in Known /\ s \in Views(arrays)
      /\ handlers[k].attrs \in Known \cup {Nil}
      /\ \A i \in 1..Len(groups) : groups[i] \in Known \cup {Nil}
      /\ Known \subseteq Views(arrays)
  BY <1>1, HeldAre, KnownAreViews
<1>8. \A s \in Known \cup {Nil} : Content(arrays', s) = Content(arrays, s) /\ s # fresh
  <2>1. Content(arrays', Nil) = <<>> /\ Content(arrays, Nil) = <<>> /\ Nil # fresh
    BY <1>1, <1>5 DEF Content, Nil
  <2>2. ASSUME NEW s \in Known
        PROVE  Content(arrays', s) = Content(arrays, s) /\ s # fresh
    <3>1. s \in Views(arrays) /\ s.array # 0 /\ s.array <= Len(arrays) /\ s.array \in Nat
      BY <1>1, <1>7 DEF Views
    <3>2. s # fresh
      BY <1>1, <1>5, <3>1
    <3> QED
      BY <1>1, <1>3, <1>5, <3>1, <3>2, ContentStays
  <2> QED
    BY <2>1, <2>2
<1>9. \A i, j \in 1..Len(groups) : i # j /\ groups[i] # Nil => groups[i] # groups[j]
  BY DEF HandlersInvariant, Own
<1> HIDE DEF fresh
<1>10. /\ Content(arrays, handlers[k].attrs) = asked[k].attrs
       /\ \A i \in 1..Len(groups) : Content(arrays, groups[i]) = asked[k].groups[i]
  <2>1. DOMAIN groups = 1..Len(groups)
    BY <1>1, LenProperties
  <2> QED
    BY <1>1, <2>1 DEF Keeps
<1>11. PICK h, value :
         /\ handlers' = Append(handlers, h) /\ asked' = Append(asked, value)
         /\ h \in [attrs : Buffers(arrays'), groups : Seq(Buffers(arrays'))]
         /\ value \in [attrs : Seq(Marks), groups : Seq(Seq(Marks))]
         /\ Held(h) \subseteq Known \cup {fresh}
         /\ \A i, j \in 1..Len(h.groups) : i # j /\ h.groups[i] # Nil => h.groups[i] # h.groups[j]
         /\ Content(arrays', h.attrs) = value.attrs
         /\ Len(h.groups) = Len(value.groups)
         /\ \A i \in 1..Len(h.groups) : Content(arrays', h.groups[i]) = value.groups[i]
  <2>1. CASE groups = <<>>
    <3> DEFINE h == [handlers[k] EXCEPT !.attrs = fresh]
               value == [asked[k] EXCEPT !.attrs = @ \o kvs]
    <3>1. handlers' = Append(handlers, h) /\ asked' = Append(asked, value)
      BY <1>3, <2>1
    <3>2. h.attrs = fresh /\ h.groups = groups
          /\ h \in [attrs : Buffers(arrays'), groups : {groups}]
      BY <1>1, <1>6
    <3>3. asked[k].attrs \o kvs \in Seq(Marks)
      BY <1>1, <1>4
    <3>4. value.attrs = asked[k].attrs \o kvs /\ value.groups = asked[k].groups
          /\ value \in [attrs : Seq(Marks), groups : Seq(Seq(Marks))]
      BY <1>1, <3>3
    <3> HIDE DEF h, value
    <3>5. groups \in Seq(Buffers(arrays')) /\ Len(groups) = 0
      BY <2>1, EmptySeq
    <3>6. h \in [attrs : Buffers(arrays'), groups : Seq(Buffers(arrays'))]
      BY <3>2, <3>5
    <3>7. Held(h) \subseteq Known \cup {fresh}
      BY <3>2, <3>5 DEF Held
    <3>8. Content(arrays', h.attrs) = value.attrs
      BY <1>3, <1>5, <1>10, <2>1, <3>2, <3>4 DEF fresh, old
    <3>9. Len(h.groups) = Len(value.groups)
      BY <1>1, <3>2, <3>4
    <3>10. /\ handlers' = Append(handlers, h) /\ asked' = Append(asked, value)
           /\ h \in [attrs : Buffers(arrays'), groups : Seq(Buffers(arrays'))]
           /\ value \in [attrs : Seq(Marks), groups : Seq(Seq(Marks))]
           /\ Held(h) \subseteq Known \cup {fresh}
           /\ \A i, j \in 1..Len(h.groups) : i # j /\ h.groups[i] # Nil => h.groups[i] # h.groups[j]
           /\ Content(arrays', h.attrs) = value.attrs
           /\ Len(h.groups) = Len(value.groups)
           /\ \A i \in 1..Len(h.groups) : Content(arrays', h.groups[i]) = value.groups[i]
      <4>1. 1..Len(h.groups) = {}
        BY <3>2, <3>5
      <4> QED
        BY <3>1, <3>4, <3>6, <3>7, <3>8, <3>9, <4>1
    <3> WITNESS h, value
    <3> QED
      BY <3>10
  <2>2. CASE groups # <<>>
    <3> DEFINE h == [handlers[k] EXCEPT !.groups[1] = fresh]
               value == [asked[k] EXCEPT !.groups[1] = @ \o kvs]
               gs == [groups EXCEPT ![1] = fresh]
               vs == [asked[k].groups EXCEPT ![1] = @ \o kvs]
    <3>1. handlers' = Append(handlers, h) /\ asked' = Append(asked, value)
      BY <1>3, <2>2
    <3>2. /\ gs \in Seq(Buffers(arrays')) /\ Len(gs) = Len(groups)
          /\ \A i \in 1..Len(groups) : gs[i] = IF i = 1 THEN fresh ELSE groups[i]
      <4>1. groups \in Seq(Buffers(arrays')) /\ 1 \in 1..Len(groups) /\ fresh \in Buffers(arrays')
        BY <1>1, <1>2, <1>6, <2>2, SeqMonotonic
      <4> QED
        BY <4>1, ExceptSeq
    <3>3. /\ vs \in Seq(Seq(Marks)) /\ Len(vs) = Len(groups)
          /\ \A i \in 1..Len(groups) :
               vs[i] = IF i = 1 THEN asked[k].groups[1] \o kvs ELSE asked[k].groups[i]
      <4> DEFINE first == asked[k].groups[1] \o kvs
      <4>1. asked[k].groups \in Seq(Seq(Marks)) /\ 1 \in 1..Len(asked[k].groups)
            /\ Len(asked[k].groups) = Len(groups)
        BY <1>1, <1>2, <2>2
      <4>2. asked[k].groups[1] \in Seq(Marks)
        BY <4>1, ElementOfSeq
      <4>3. first \in Seq(Marks)
        BY <1>4, <4>2
      <4>4. vs = [asked[k].groups EXCEPT ![1] = first]
        OBVIOUS
      <4> HIDE DEF first, vs
      <4>5. vs \in Seq(Seq(Marks)) /\ Len(vs) = Len(groups)
            /\ \A i \in 1..Len(groups) : vs[i] = IF i = 1 THEN first ELSE asked[k].groups[i]
        BY <4>1, <4>3, <4>4, ExceptSeq
      <4> QED
        BY <4>5 DEF first
    <3>4. h = [handlers[k] EXCEPT !.groups = gs] /\ value = [asked[k] EXCEPT !.groups = vs]
      OBVIOUS
    <3> HIDE DEF h, value, gs, vs
    <3>5. h.attrs = handlers[k].attrs /\ h.groups = gs
          /\ h \in [attrs : Buffers(arrays), groups : {gs}]
      BY <1>1, <3>4
    <3>6. value.attrs = asked[k].attrs /\ value.groups = vs
          /\ value \in [attrs : Seq(Marks), groups : Seq(Seq(Marks))]
      BY <1>1, <3>3, <3>4
    <3>7. h \in [attrs : Buffers(arrays'), groups : Seq(Buffers(arrays'))]
      BY <1>6, <3>2, <3>5
    <3>8. Held(h) \subseteq Known \cup {fresh}
      BY <1>7, <3>2, <3>5 DEF Held
    <3>9. \A i, j \in 1..Len(h.groups) : i # j /\ h.groups[i] # Nil => h.groups[i] # h.groups[j]
      BY <1>7, <1>8, <1>9, <3>2, <3>5
    <3>10. Content(arrays', h.attrs) = value.attrs
      BY <1>7, <1>8, <1>10, <3>5, <3>6
    <3>11. ASSUME NEW i \in 1..Len(groups)
           PROVE  Content(arrays', gs[i]) = vs[i]
      <4>1. CASE i = 1
        BY Zenon, <1>2, <1>3, <1>5, <1>10, <2>2, <3>2, <3>3, <4>1 DEF fresh
      <4>2. CASE i # 1
        BY <1>7, <1>8, <1>10, <3>2, <3>3, <4>2
      <4> QED
        BY <4>1, <4>2
    <3>12. /\ handlers' = Append(handlers, h) /\ asked' = Append(asked, value)
           /\ h \in [attrs : Buffers(arrays'), groups : Seq(Buffers(arrays'))]
           /\ value \in [attrs : Seq(Marks), groups : Seq(Seq(Marks))]
           /\ Held(h) \subseteq Known \cup {fresh}
           /\ \A i, j \in 1..Len(h.groups) : i # j /\ h.groups[i] # Nil => h.groups[i] # h.groups[j]
           /\ Content(arrays', h.attrs) = value.attrs
           /\ Len(h.groups) = Len(value.groups)
           /\ \A i \in 1..Len(h.groups) : Content(arrays', h.groups[i]) = value.groups[i]
      BY <3>1, <3>2, <3>3, <3>5, <3>6, <3>7, <3>8, <3>9, <3>10, <3>11
    <3> WITNESS h, value
    <3> QED
      BY <3>12
  <2> QED
    BY <2>1, <2>2
<1>12. fresh.array > Len(arrays) /\ Written(arrays, arrays', 0, 0)
  BY <1>3, <1>5 DEF fresh
<1>13. /\ HandlersInvariant'
       /\ Known' \subseteq Known \cup {fresh}
       /\ Len(handlers') = Len(handlers) + 1
       /\ \A n \in 1..Len(handlers) : handlers'[n] = handlers[n] /\ asked'[n] = asked[n]
  BY <1>6, <1>11, <1>12, DeriveKeeps
<1> QED
  BY <1>3, <1>12, <1>13 DEF Derived
LEMMA PushProperties ==
  ASSUME NEW S, NEW x \in S, NEW s \in Seq(S)
  PROVE  /\ <<x>> \o s \in Seq(S) /\ Len(<<x>> \o s) = Len(s) + 1
         /\ \A i \in 1..Len(s) + 1 : (<<x>> \o s)[i] = IF i = 1 THEN x ELSE s[i - 1]
<1> DEFINE one == <<x>>
<1>1. one \in Seq(S) /\ Len(one) = 1 /\ one[1] = x /\ Len(s) \in Nat
  OBVIOUS
<1> HIDE DEF one
<1>2. /\ one \o s \in Seq(S) /\ Len(one \o s) = Len(one) + Len(s)
      /\ \A i \in 1..Len(one) + Len(s) :
           (one \o s)[i] = IF i <= Len(one) THEN one[i] ELSE s[i - Len(one)]
  BY <1>1, ConcatProperties
<1>3. ASSUME NEW i \in 1..Len(s) + 1
      PROVE  (one \o s)[i] = IF i = 1 THEN x ELSE s[i - 1]
  <2>1. i \in 1..Len(one) + Len(s)
    BY <1>1
  <2> QED
    BY <1>1, <1>2, <2>1
<1>4. /\ one \o s \in Seq(S) /\ Len(one \o s) = Len(s) + 1
      /\ \A i \in 1..Len(s) + 1 : (one \o s)[i] = IF i = 1 THEN x ELSE s[i - 1]
  BY <1>1, <1>2, <1>3
<1> QED
  BY <1>4 DEF one

LEMMA WithGroupDerives ==
  ASSUME HandlersInvariant, NEW k \in 1..Len(handlers), WithGroup(k)
  PROVE  Derived
<1> DEFINE groups == handlers[k].groups
           wants == asked[k].groups
           h == [handlers[k] EXCEPT !.groups = <<Nil>> \o @]
           value == [asked[k] EXCEPT !.groups = <<<<>>>> \o @]
           fresh == [array |-> Len(arrays) + 1, len |-> 0]
<1>1. /\ handlers' = Append(handlers, h) /\ asked' = Append(asked, value)
      /\ arrays' = arrays /\ records' = records
  BY DEF WithGroup, Derive
<1>2. HandlerTypeOK /\ arrays \in HeapOf(Marks)
  BY DEF HandlersInvariant, HandlerTypeOK
<1>3. DOMAIN handlers = 1..Len(handlers) /\ Len(arrays) \in Nat
  BY <1>2, LenProperties DEF HandlerTypeOK, HeapOf
<1>4. Keeps(k)
  BY <1>3 DEF HandlersInvariant, HandlersKeepTheirAttributes
<1>5. /\ handlers[k] \in [attrs : Buffers(arrays), groups : Seq(Buffers(arrays))]
      /\ asked[k] \in [attrs : Seq(Marks), groups : Seq(Seq(Marks))]
      /\ handlers[k].attrs \in Known \cup {Nil}
      /\ \A i \in 1..Len(groups) : groups[i] \in Known \cup {Nil}
  BY <1>2, HeldAre
<1>6. /\ groups \in Seq(Buffers(arrays)) /\ wants \in Seq(Seq(Marks))
      /\ Len(groups) = Len(wants) /\ Len(groups) \in Nat /\ DOMAIN groups = 1..Len(groups)
  BY <1>4, <1>5, LenProperties DEF Keeps
<1>7. /\ \A i \in 1..Len(groups) : Content(arrays, groups[i]) = wants[i]
      /\ Content(arrays, handlers[k].attrs) = asked[k].attrs
  BY <1>4, <1>6 DEF Keeps
<1> DEFINE gs == <<Nil>> \o groups
           vs == <<<<>>>> \o wants
<1>8. /\ gs \in Seq(Buffers(arrays)) /\ Len(gs) = Len(groups) + 1
      /\ \A i \in 1..Len(gs) : gs[i] = IF i = 1 THEN Nil ELSE groups[i - 1]
  <2>1. Nil \in Buffers(arrays)
    BY DEF Buffers
  <2>2. groups \in Seq(Buffers(arrays))
    BY <1>6
  <2> HIDE DEF groups
  <2>3. /\ <<Nil>> \o groups \in Seq(Buffers(arrays)) /\ Len(<<Nil>> \o groups) = Len(groups) + 1
        /\ \A i \in 1..Len(groups) + 1 :
             (<<Nil>> \o groups)[i] = IF i = 1 THEN Nil ELSE groups[i - 1]
    BY <2>1, <2>2, PushProperties
  <2> QED
    BY <2>3
<1>9. /\ vs \in Seq(Seq(Marks)) /\ Len(vs) = Len(groups) + 1
      /\ \A i \in 1..Len(vs) : vs[i] = IF i = 1 THEN <<>> ELSE wants[i - 1]
  <2>1. <<>> \in Seq(Marks)
    OBVIOUS
  <2> HIDE DEF groups
  <2> QED
    BY <1>6, <2>1, PushProperties
<1>10. h = [handlers[k] EXCEPT !.groups = gs] /\ value = [asked[k] EXCEPT !.groups = vs]
  OBVIOUS
<1> HIDE DEF h, value, gs, vs, fresh
<1>11. /\ h.attrs = handlers[k].attrs /\ h.groups = gs
       /\ h \in [attrs : Buffers(arrays), groups : Seq(Buffers(arrays))]
  BY <1>5, <1>8, <1>10
<1>12. /\ value.attrs = asked[k].attrs /\ value.groups = vs
       /\ value \in [attrs : Seq(Marks), groups : Seq(Seq(Marks))]
  BY <1>5, <1>9, <1>10
<1>13. Held(h) \subseteq Known
  <2>1. \A i \in 1..Len(gs) : gs[i] \in Known \cup {Nil}
    <3> TAKE i \in 1..Len(gs)
    <3>1. CASE i = 1
      BY <1>8, <3>1
    <3>2. CASE i # 1
      <4>1. i - 1 \in 1..Len(groups)
        BY <1>6, <1>8, <3>2
      <4> QED
        BY <1>5, <1>8, <3>2, <4>1
    <3> QED
      BY <3>1, <3>2
  <2> QED
    BY <1>5, <1>11, <2>1 DEF Held
<1>14. \A i, j \in 1..Len(h.groups) : i # j /\ h.groups[i] # Nil => h.groups[i] # h.groups[j]
  <2>1. \A i, j \in 1..Len(groups) : i # j /\ groups[i] # Nil => groups[i] # groups[j]
    BY DEF HandlersInvariant, Own
  <2>2. SUFFICES ASSUME NEW i \in 1..Len(gs), NEW j \in 1..Len(gs), i # j, gs[i] # Nil
                 PROVE  gs[i] # gs[j]
    BY <1>11
  <2>3. i - 1 \in 1..Len(groups) /\ gs[i] = groups[i - 1]
    BY <1>6, <1>8, <2>2
  <2>4. CASE j = 1
    BY <1>8, <2>2, <2>4
  <2>5. CASE j # 1
    <3>1. j - 1 \in 1..Len(groups) /\ gs[j] = groups[j - 1] /\ i - 1 # j - 1
      BY <1>6, <1>8, <2>2, <2>5
    <3> QED
      BY <2>1, <2>2, <2>3, <3>1
  <2> QED
    BY <2>4, <2>5
<1>15. \A i \in 1..Len(h.groups) : Content(arrays, h.groups[i]) = value.groups[i]
  <2>1. Content(arrays, Nil) = <<>>
    BY DEF Content
  <2>2. SUFFICES ASSUME NEW i \in 1..Len(gs)
                 PROVE  Content(arrays, gs[i]) = vs[i]
    BY <1>11, <1>12
  <2>3. CASE i = 1
    BY <1>6, <1>8, <1>9, <2>1, <2>3
  <2>4. CASE i # 1
    <3>1. i - 1 \in 1..Len(groups)
      BY <1>6, <1>8, <2>4
    <3> QED
      BY <1>6, <1>7, <1>8, <1>9, <2>4, <3>1
  <2> QED
    BY <2>3, <2>4
<1>16. fresh.array > Len(arrays)
  BY <1>3 DEF fresh
<1>17. Written(arrays, arrays', 0, 0)
  BY <1>1, <1>3 DEF Written
<1>18. Buffers(arrays') = Buffers(arrays)
  BY <1>1
<1>19. /\ HandlersInvariant'
       /\ Known' \subseteq Known \cup {fresh}
       /\ Len(handlers') = Len(handlers) + 1
       /\ \A n \in 1..Len(handlers) : handlers'[n] = handlers[n] /\ asked'[n] = asked[n]
  <2>1. /\ arrays' \in HeapOf(Marks)
        /\ h \in [attrs : Buffers(arrays'), groups : Seq(Buffers(arrays'))]
        /\ Held(h) \subseteq Known \cup {fresh}
        /\ Content(arrays', h.attrs) = value.attrs
        /\ Len(h.groups) = Len(value.groups)
        /\ \A i \in 1..Len(h.groups) : Content(arrays', h.groups[i]) = value.groups[i]
    BY <1>1, <1>2, <1>7, <1>8, <1>9, <1>11, <1>12, <1>13, <1>15, <1>18
  <2> QED
    BY <1>1, <1>12, <1>14, <1>16, <1>17, <2>1, DeriveKeeps
<1> QED
  BY <1>1, <1>16, <1>17, <1>19 DEF Derived
-----------------------------------------------------------------------------
(* Writing to a slice a handler holds *)

\* The elements behind those of s: in its array if there is room, or in a new one.
Placing(heap, s, elems, new) ==
  /\ new.heap \in HeapOf(Marks) /\ new.slice \in Views(new.heap)
  /\ Content(new.heap, new.slice) = Content(heap, s) \o elems
  /\ Written(heap, new.heap, s.array, s.len)
  /\ \/ new.slice.array > Len(heap)
     \/ s # Nil /\ new.slice.array = s.array /\ s.len + Len(elems) <= Len(heap[s.array])
  /\ Len(elems) = 0 \/ new.slice.array > Len(heap) => Written(heap, new.heap, 0, 0)

LEMMA AppendedPlaces ==
  ASSUME NEW heap \in HeapOf(Marks), NEW s \in Views(heap), NEW elems \in Seq(Marks),
         NEW slack \in Nat
  PROVE  Placing(heap, s, elems, Appended(heap, s, elems, slack))
<1> DEFINE new == Appended(heap, s, elems, slack)
<1> SUFFICES Placing(heap, s, elems, new)
  OBVIOUS
<1>1. Appending(Marks, heap, s, elems, new)
  BY MarksAre, AppendedIs
<1> HIDE DEF new
<1>2. Len(heap) \in Nat /\ s.array \in 1..Len(heap) /\ s # Nil
  BY DEF HeapOf, Views, Nil
<1>3. new.slice.array > Len(heap) => new.slice.array # s.array
  BY <1>2
<1>4. new.slice.array = Len(heap) + 1 => new.slice.array > Len(heap)
  BY <1>2
<1> QED
  BY <1>1, <1>2, <1>3, <1>4 DEF Appending, Placing

\* The attributes of a call behind those of the group, or by themselves.
LEMMA KeyValuesPlaces ==
  ASSUME NEW heap \in HeapOf(Marks), NEW s \in Buffers(heap), NEW call \in Nat,
         NEW list \in Lists, NEW slack \in Nat
  PROVE  LET buf == Fresh(heap, call, list, slack)
         IN Placing(heap, s, KVs(call, list),
                    KeyValues(buf.heap, s, buf.slice, KVs(call, list), slack))
<1> DEFINE buf == Fresh(heap, call, list, slack)
           kvs == KVs(call, list)
           new == KeyValues(buf.heap, s, buf.slice, kvs, slack)
<1> SUFFICES Placing(heap, s, kvs, new)
  OBVIOUS
<1>1. kvs \in Seq(Marks) /\ Len(kvs) \in Nat
  BY MarksAre
<1>2. Len(heap) \in Nat /\ Nil \in Buffers(heap) /\ buf = Extended(heap, Nil, call, list, slack)
      /\ Content(heap, Nil) = <<>>
  BY DEF HeapOf, Buffers, Extended, Content
<1>3. /\ buf.heap \in HeapOf(Marks) /\ buf.slice \in Views(buf.heap)
      /\ Content(buf.heap, buf.slice) = Content(heap, Nil) \o kvs
      /\ Written(heap, buf.heap, 0, 0)
      /\ buf.slice.array > Len(heap)
  BY <1>2, ExtendedIs
<1> HIDE DEF buf, kvs, new
<1>4. \A at, low : Written(heap, buf.heap, at, low)
  BY <1>3, UntouchedIs
<1>5. CASE s = Nil
  <2>1. new = [heap |-> buf.heap, slice |-> buf.slice]
    BY <1>5 DEF new, KeyValues
  <2>2. new.heap = buf.heap /\ new.slice = buf.slice
    BY <2>1
  <2> QED
    BY <1>3, <1>4, <1>5, <2>2 DEF Placing
<1>6. CASE s # Nil
  <2>1. new = Appended(buf.heap, s, kvs, slack)
    BY <1>6 DEF new, KeyValues
  <2>2. s \in Views(heap) /\ s.array \in 1..Len(heap) /\ s.len \in Nat
    BY <1>6 DEF Buffers, Views
  <2>3. s \in Views(buf.heap) /\ Content(buf.heap, s) = Content(heap, s)
    BY <1>3, <1>4, <2>2, ContentStays
  <2>4. Placing(buf.heap, s, kvs, new)
    BY <1>1, <1>3, <2>1, <2>3, AppendedPlaces
  <2>5. Len(buf.heap) \in Nat /\ Len(buf.heap) >= Len(heap)
        /\ Len(buf.heap[s.array]) = Len(heap[s.array])
    BY <1>3, <2>2 DEF HeapOf, Written
  <2>6. /\ new.heap \in HeapOf(Marks) /\ new.slice \in Views(new.heap)
        /\ Content(new.heap, new.slice) = Content(heap, s) \o kvs
        /\ Written(buf.heap, new.heap, s.array, s.len)
        /\ \/ new.slice.array > Len(buf.heap)
           \/ new.slice.array = s.array /\ s.len + Len(kvs) <= Len(heap[s.array])
        /\ Len(kvs) = 0 \/ new.slice.array > Len(buf.heap) => Written(buf.heap, new.heap, 0, 0)
    BY <2>3, <2>4, <2>5 DEF Placing
  <2>7. new.slice.array \in Nat
    BY <2>6 DEF Views
  <2>8. Written(heap, new.heap, s.array, s.len)
    BY <1>3, <1>4, <2>6, WrittenThrough
  <2>9. new.slice.array > Len(heap) <=> new.slice.array > Len(buf.heap)
    BY <1>2, <2>2, <2>5, <2>6, <2>7
  <2>10. Written(buf.heap, new.heap, 0, 0) => Written(heap, new.heap, 0, 0)
    BY <1>3, <1>4, <2>6, WrittenThrough
  <2> QED
    BY <1>6, <2>6, <2>8, <2>9, <2>10 DEF Placing
<1> QED
  BY <1>5, <1>6

\* The first group with attributes, from the leaf on.
LEMMA LeadingEmptyIs ==
  ASSUME NEW S, NEW groups \in Seq(S), S \subseteq Buffer
  PROVE  /\ LeadingEmpty(groups) \in 0..Len(groups)
         /\ \A i \in 1..LeadingEmpty(groups) : groups[i].len = 0
         /\ LeadingEmpty(groups) < Len(groups) => groups[LeadingEmpty(groups) + 1].len > 0
<1> DEFINE nonEmpty == {i \in DOMAIN groups : groups[i].len > 0}
<1>1. DOMAIN groups = 1..Len(groups) /\ Len(groups) \in Nat
      /\ \A i \in 1..Len(groups) : groups[i].len \in Nat
  BY LenProperties, ElementOfSeq DEF Buffer
<1>2. CASE nonEmpty = {}
  <2>1. LeadingEmpty(groups) = Len(groups)
    BY <1>2 DEF LeadingEmpty
  <2> QED
    BY <1>1, <1>2, <2>1
<1>3. CASE nonEmpty # {}
  <2> DEFINE n == CHOOSE i \in nonEmpty : \A j \in nonEmpty : i <= j
  <2>1. LeadingEmpty(groups) = n - 1
    BY <1>3 DEF LeadingEmpty
  <2>2. nonEmpty \in SUBSET Nat
    BY <1>1
  <2>3. \E i \in nonEmpty : \A j \in nonEmpty : i <= j
    <3> HIDE DEF nonEmpty
    <3> QED
      BY <1>3, <2>2, LeastElement
  <2>4. n \in nonEmpty /\ \A j \in nonEmpty : n <= j
    <3> HIDE DEF nonEmpty
    <3> QED
      BY <2>3
  <2> HIDE DEF n
  <2>5. n \in 1..Len(groups) /\ groups[n].len > 0
    BY <1>1, <2>4
  <2>6. \A i \in 1..n - 1 : groups[i].len = 0
    BY <1>1, <2>4, <2>5
  <2> QED
    BY <1>1, <2>1, <2>5, <2>6
<1> QED
  BY <1>2, <1>3
LEMMA PlacingKeeps ==
  ASSUME HandlersInvariant, NEW s \in Known \cup {Nil}, NEW elems, NEW new,
         Placing(arrays, s, elems, new), arrays' = new.heap, handlers' = handlers, asked' = asked
  PROVE  HandlersInvariant' /\ Known' = Known
<1>1. HandlerTypeOK /\ Own
  BY DEF HandlersInvariant
<1>2. /\ arrays' \in HeapOf(Marks) /\ Written(arrays, arrays', s.array, s.len)
      /\ s.len \in Nat
  BY <1>1, KnownAreViews DEF Placing, Views, Nil
<1>3. \A t \in Known : t.array = s.array => t.len <= s.len
  <2> TAKE t \in Known
  <2>1. t.array # 0 /\ t.len \in Nat
    BY <1>1, KnownAreViews DEF Views
  <2>2. CASE s = Nil
    BY <2>1, <2>2 DEF Nil
  <2>3. CASE s \in Known
    BY <1>1, <2>1, <2>3 DEF Own
  <2> QED
    BY <2>2, <2>3
<1>4. HandlersInvariant'
  BY <1>2, <1>3, HandlersStay
<1>5. Known' = Known
  BY DEF Known, Held
<1> QED
  BY <1>4, <1>5
-----------------------------------------------------------------------------
(* Records *)

GroupsOf(r) == handlers[records[r].of].groups
WantOf(r) == asked[records[r].of]
KVsOf(r) == KVs(MaxHandlers + r, records[r].list)
Inner(r, i) ==
  IF i = 1 THEN KVsOf(r) ELSE <<MapOf(MaxHandlers + r, records[r].maps[i - 1].depth)>>

\* The array of a map is the group's or nobody else's, and it shows what it was
\* given, unless somebody wrote to the group's.
MapOK(r, i) ==
  LET m == records[r].maps[i]
  IN /\ m.depth \in 1..Len(GroupsOf(r))
     /\ m.slice \in Views(arrays)
     /\ \/ m.slice.array = GroupsOf(r)[m.depth].array
        \/ \A t \in Known : t.array # m.slice.array
     /\ \/ Contended(r)
        \/ Content(arrays, m.slice) = WantOf(r).groups[m.depth] \o Inner(r, i)

\* The maps go outwards and leave out no group that has something.
Outwards(r) ==
  LET maps == records[r].maps
  IN /\ \A i, j \in 1..Len(maps) : i < j => maps[i].depth < maps[j].depth
     /\ \A d \in 1..Len(GroupsOf(r)) :
          GroupsOf(r)[d].len > 0 \/ (d = 1 /\ KVsOf(r) # <<>>) =>
            \/ \E i \in 1..Len(maps) : maps[i].depth = d
            \/ maps # <<>> /\ d > maps[Len(maps)].depth

RecordOK(r) ==
  /\ records[r].of \in 1..Len(handlers)
  /\ records[r].list \in Lists
  /\ records[r].attrs =
       WantOf(r).attrs \o (IF WantOf(r).groups = <<>> THEN KVsOf(r) ELSE <<>>)
  /\ \A i \in 1..Len(records[r].maps) : MapOK(r, i)
  /\ Outwards(r)

Map == [depth : Nat, slice : Buffer]
Record == [of : Nat, list : Lists, attrs : Seq(Marks), maps : Seq(Map)]

SlogInvariant ==
  /\ HandlersInvariant
  /\ records \in Seq(Record)
  /\ \A r \in 1..Len(records) : RecordOK(r)

\* What every step does to the records and handlers that are there.
Lasting ==
  /\ HandlersInvariant'
  /\ Len(handlers') >= Len(handlers)
  /\ \A k \in 1..Len(handlers) : handlers'[k] = handlers[k] /\ asked'[k] = asked[k]
  /\ \A t \in Known' : t \in Known \/ t.array > Len(arrays)
  /\ records' \in Seq(Record) /\ Len(records') >= Len(records)
  /\ \A r \in 1..Len(records) :
       /\ records'[r].of = records[r].of /\ records'[r].list = records[r].list
       /\ records'[r].attrs = records[r].attrs
       /\ Len(records'[r].maps) >= Len(records[r].maps)
       /\ \A i \in 1..Len(records[r].maps) : records'[r].maps[i] = records[r].maps[i]

LEMMA InvariantFacts ==
  ASSUME SlogInvariant
  PROVE  /\ HandlersInvariant /\ HandlerTypeOK /\ Own
         /\ arrays \in HeapOf(Marks) /\ Len(arrays) \in Nat
         /\ Len(handlers) \in Nat /\ DOMAIN handlers = 1..Len(handlers)
         /\ records \in Seq(Record) /\ Len(records) \in Nat /\ DOMAIN records = 1..Len(records)
         /\ \A r \in 1..Len(records) :
              /\ records[r] \in Record /\ RecordOK(r)
              /\ records[r].maps \in Seq(Map) /\ Len(records[r].maps) \in Nat
              /\ DOMAIN records[r].maps = 1..Len(records[r].maps)
              /\ GroupsOf(r) \in Seq(Buffers(arrays)) /\ DOMAIN GroupsOf(r) = 1..Len(GroupsOf(r))
              /\ Len(GroupsOf(r)) \in Nat
<1>1. HandlersInvariant /\ HandlerTypeOK /\ Own /\ records \in Seq(Record)
  BY DEF SlogInvariant, HandlersInvariant
<1>2. /\ arrays \in HeapOf(Marks) /\ Len(arrays) \in Nat
      /\ Len(handlers) \in Nat /\ DOMAIN handlers = 1..Len(handlers)
  <2>1. arrays \in HeapOf(Marks)
    BY <1>1 DEF HandlerTypeOK
  <2>2. Len(arrays) \in Nat
    BY <2>1 DEF HeapOf
  <2> QED
    BY <1>1, <2>1, <2>2, LenProperties DEF HandlerTypeOK
<1>3. Len(records) \in Nat /\ DOMAIN records = 1..Len(records)
  BY <1>1, LenProperties
<1>4. ASSUME NEW r \in 1..Len(records)
      PROVE  /\ records[r] \in Record /\ RecordOK(r)
             /\ records[r].maps \in Seq(Map) /\ Len(records[r].maps) \in Nat
             /\ DOMAIN records[r].maps = 1..Len(records[r].maps)
             /\ GroupsOf(r) \in Seq(Buffers(arrays)) /\ DOMAIN GroupsOf(r) = 1..Len(GroupsOf(r))
             /\ Len(GroupsOf(r)) \in Nat
  <2>1. records[r] \in Record /\ RecordOK(r)
    BY <1>1, ElementOfSeq DEF SlogInvariant
  <2>2. records[r].maps \in Seq(Map)
    BY <2>1 DEF Record
  <2>3. records[r].of \in 1..Len(handlers)
    BY <2>1 DEF RecordOK
  <2>4. GroupsOf(r) \in Seq(Buffers(arrays))
    BY <1>1, <2>3, HeldAre DEF GroupsOf
  <2> QED
    BY <2>1, <2>2, <2>4, LenProperties
<1> QED
  BY <1>1, <1>2, <1>3, <1>4

\* Records that contend go on contending: their handlers stay, and arrays keep
\* their length.
LEMMA ContendedStays ==
  ASSUME SlogInvariant, Lasting, NEW at, NEW low, Written(arrays, arrays', at, low),
         NEW r \in 1..Len(records), Contended(r)
  PROVE  Contended(r)'
<1>1. PICK q \in DOMAIN records \ {r} :
        \E i \in DOMAIN handlers[records[r].of].groups,
           j \in DOMAIN handlers[records[q].of].groups :
          /\ handlers[records[r].of].groups[i] = handlers[records[q].of].groups[j]
          /\ handlers[records[r].of].groups[i] # Nil
          /\ handlers[records[r].of].groups[i].len
               < Len(arrays[handlers[records[r].of].groups[i].array])
  BY Zenon DEF Contended
<1>2. PICK i \in DOMAIN handlers[records[r].of].groups,
           j \in 1..Len(GroupsOf(q)) :
        /\ j \in DOMAIN handlers[records[q].of].groups
        /\ handlers[records[r].of].groups[i] = handlers[records[q].of].groups[j]
        /\ handlers[records[r].of].groups[i] # Nil
        /\ handlers[records[r].of].groups[i].len
             < Len(arrays[handlers[records[r].of].groups[i].array])
  BY Zenon, <1>1, InvariantFacts DEF GroupsOf
<1>3. q \in 1..Len(records) /\ q # r /\ i \in 1..Len(GroupsOf(r))
  BY <1>1, <1>2, InvariantFacts DEF GroupsOf
<1>4. records[r].of \in 1..Len(handlers) /\ records[q].of \in 1..Len(handlers)
  BY <1>3, InvariantFacts DEF RecordOK
<1>5. /\ records'[r].of = records[r].of /\ records'[q].of = records[q].of
      /\ handlers'[records[r].of] = handlers[records[r].of]
      /\ handlers'[records[q].of] = handlers[records[q].of]
  BY <1>3, <1>4 DEF Lasting
<1>6. q \in DOMAIN records'
  <2>1. DOMAIN records' = 1..Len(records') /\ Len(records') \in Nat
    BY LenProperties DEF Lasting
  <2>2. Len(records) \in Nat /\ Len(records') >= Len(records)
    BY InvariantFacts DEF Lasting
  <2> QED
    BY <1>3, <2>1, <2>2
<1> DEFINE s == handlers[records[r].of].groups[i]
<1>7. Len(arrays'[s.array]) = Len(arrays[s.array])
  <2>1. s \in Buffers(arrays) /\ s # Nil
    BY <1>2, <1>3, InvariantFacts, ElementOfSeq DEF GroupsOf
  <2>2. s.array \in 1..Len(arrays)
    BY <2>1 DEF Buffers, Views
  <2> QED
    BY <2>2 DEF Written
<1> QED
  BY Zenon, <1>2, <1>3, <1>5, <1>6, <1>7 DEF Contended
\* A map stays what it is, unless its array is written to and its record contends.
LEMMA MapStays ==
  ASSUME SlogInvariant, Lasting, NEW at, NEW low \in Nat, Written(arrays, arrays', at, low),
         NEW r \in 1..Len(records), NEW i \in 1..Len(records[r].maps),
         records[r].maps[i].slice.array = at => Contended(r)'
  PROVE  MapOK(r, i)'
<1> DEFINE m == records[r].maps[i]
<1>1. /\ MapOK(r, i) /\ records[r].of \in 1..Len(handlers)
      /\ arrays \in HeapOf(Marks) /\ Len(arrays) \in Nat
  BY InvariantFacts DEF RecordOK
<1>2. arrays' \in HeapOf(Marks)
  BY DEF Lasting, HandlersInvariant, HandlerTypeOK
<1>3. /\ records'[r].of = records[r].of /\ records'[r].list = records[r].list
      /\ \A j \in 1..Len(records[r].maps) : records'[r].maps[j] = records[r].maps[j]
      /\ handlers'[records[r].of] = handlers[records[r].of]
      /\ asked'[records[r].of] = asked[records[r].of]
  BY <1>1 DEF Lasting
<1>4. GroupsOf(r)' = GroupsOf(r) /\ WantOf(r)' = WantOf(r) /\ KVsOf(r)' = KVsOf(r)
  BY <1>3 DEF GroupsOf, WantOf, KVsOf
<1>5. Inner(r, i)' = Inner(r, i)
  <2>1. CASE i = 1
    BY <1>4, <2>1 DEF Inner
  <2>2. CASE i # 1
    <3>1. i - 1 \in 1..Len(records[r].maps)
      BY <2>2, InvariantFacts
    <3>2. records'[r].maps[i - 1] = records[r].maps[i - 1]
      BY <1>3, <3>1
    <3> QED
      BY <2>2, <3>2 DEF Inner
  <2> QED
    BY <2>1, <2>2
<1>6. /\ m.depth \in 1..Len(GroupsOf(r)) /\ m.slice \in Views(arrays)
      /\ \/ m.slice.array = GroupsOf(r)[m.depth].array
         \/ \A t \in Known : t.array # m.slice.array
      /\ \/ Contended(r)
         \/ Content(arrays, m.slice) = WantOf(r).groups[m.depth] \o Inner(r, i)
      /\ records'[r].maps[i] = m
  BY Zenon, <1>1, <1>3 DEF MapOK
<1>7. m.slice \in Views(arrays')
  BY Zenon, <1>1, <1>2, <1>6, BuffersStay
<1>8. (\A t \in Known : t.array # m.slice.array) => \A t \in Known' : t.array # m.slice.array
  <2>1. m.slice.array \in Nat /\ m.slice.array <= Len(arrays)
    BY Zenon, <1>1, <1>6, ViewFacts
  <2>2. \A t \in Known' : t \in Known \/ t.array > Len(arrays)
    BY DEF Lasting
  <2> QED
    BY <1>1, <2>1, <2>2
<1>9. \/ Contended(r)'
      \/ Content(arrays', m.slice) = WantOf(r).groups[m.depth] \o Inner(r, i)
  <2>1. CASE Contended(r)
    BY SMTT(30), <2>1, ContendedStays
  <2>2. CASE m.slice.array = at
    BY <2>2
  <2>3. CASE ~Contended(r) /\ m.slice.array # at
    BY Zenon, <1>1, <1>2, <1>6, <2>3, ContentStays
  <2> QED
    BY Zenon, <2>1, <2>2, <2>3
<1> QED
  BY Zenon, <1>4, <1>5, <1>6, <1>7, <1>8, <1>9 DEF MapOK

\* A record whose maps all stay is all right, if it has no other.
LEMMA RecordStays ==
  ASSUME SlogInvariant, Lasting, NEW r \in 1..Len(records),
         records'[r].maps = records[r].maps,
         \A i \in 1..Len(records[r].maps) : MapOK(r, i)'
  PROVE  RecordOK(r)'
<1>1. RecordOK(r) /\ records[r].of \in 1..Len(handlers)
  BY InvariantFacts DEF RecordOK
<1>2. /\ records'[r].of = records[r].of /\ records'[r].list = records[r].list
      /\ records'[r].attrs = records[r].attrs
      /\ handlers'[records[r].of] = handlers[records[r].of]
      /\ asked'[records[r].of] = asked[records[r].of]
  BY <1>1 DEF Lasting
<1>3. GroupsOf(r)' = GroupsOf(r) /\ WantOf(r)' = WantOf(r) /\ KVsOf(r)' = KVsOf(r)
  BY <1>2 DEF GroupsOf, WantOf, KVsOf
<1>4. Outwards(r)'
  BY <1>1, <1>3 DEF RecordOK, Outwards
<1>5. records'[r].of \in 1..Len(handlers')
  <2>1. Len(handlers) \in Nat /\ Len(handlers') \in Nat /\ Len(handlers') >= Len(handlers)
    BY InvariantFacts DEF Lasting, HandlersInvariant, HandlerTypeOK
  <2> QED
    BY <1>1, <1>2, <2>1
<1> QED
  BY <1>1, <1>2, <1>3, <1>4, <1>5 DEF RecordOK

\* Deriving a handler touches no record.
LEMMA DerivedKeepsRecords ==
  ASSUME SlogInvariant, Derived
  PROVE  SlogInvariant'
<1>1. Lasting
  BY InvariantFacts DEF Derived, Lasting
<1>2. ASSUME NEW r \in 1..Len(records)
      PROVE  RecordOK(r)'
  <2>1. \A i \in 1..Len(records[r].maps) : MapOK(r, i)'
    <3> TAKE i \in 1..Len(records[r].maps)
    <3>1. records[r].maps[i].slice.array # 0
      <4>1. MapOK(r, i)
        BY Zenon, InvariantFacts DEF RecordOK
      <4>2. records[r].maps[i].slice \in Views(arrays)
        BY Zenon, <4>1 DEF MapOK
      <4> QED
        BY <4>2, InvariantFacts, ViewFacts
    <3> QED
      BY <1>1, <3>1, MapStays DEF Derived
  <2> QED
    BY <1>1, <2>1, RecordStays DEF Derived
<1> QED
  BY <1>2, InvariantFacts DEF SlogInvariant, Derived

\* Writing behind a group that two records have makes them contend, and a record
\* has a group once.
LEMMA PlacingStays ==
  ASSUME SlogInvariant, Lasting, handlers' = handlers, asked' = asked,
         NEW q \in 1..Len(records'), records'[q].of \in 1..Len(handlers),
         NEW j \in 1..Len(handlers[records'[q].of].groups),
         NEW s, s = handlers[records'[q].of].groups[j],
         NEW elems \in Seq(Marks), NEW new, Placing(arrays, s, elems, new), arrays' = new.heap,
         NEW r \in 1..Len(records),
         r = q => \A i \in 1..Len(records[r].maps) : records[r].maps[i].depth # j
  PROVE  \A i \in 1..Len(records[r].maps) : MapOK(r, i)'
<1> SUFFICES ASSUME NEW i \in 1..Len(records[r].maps)
             PROVE  MapOK(r, i)'
  OBVIOUS
<1> DEFINE m == records[r].maps[i]
           g == GroupsOf(r)[m.depth]
<1>1. /\ MapOK(r, i) /\ records[r].of \in 1..Len(handlers)
      /\ Len(arrays) \in Nat /\ HandlerTypeOK /\ Own
  BY Zenon, InvariantFacts DEF RecordOK
<1>2. /\ m.depth \in 1..Len(GroupsOf(r)) /\ m.slice \in Views(arrays)
      /\ \/ m.slice.array = g.array
         \/ \A t \in Known : t.array # m.slice.array
  BY Zenon, <1>1 DEF MapOK
<1>3. m.slice.array # 0 /\ s \in Known \cup {Nil} /\ g \in Known \cup {Nil}
  <2>1. s \in Known \cup {Nil}
    BY <1>1, HeldAre
  <2>2. g \in Known \cup {Nil}
    BY Zenon, <1>1, <1>2, HeldAre DEF GroupsOf
  <2> QED
    BY <1>1, <1>2, <2>1, <2>2, ViewFacts
<1>4. s.len \in Nat
  <2>1. CASE s = Nil
    BY <2>1, NilFacts
  <2>2. CASE s \in Known
    <3>1. s \in Views(arrays)
      BY <1>1, <2>2, KnownAreViews
    <3> QED
      BY <1>1, <3>1, ViewFacts
  <2> QED
    BY <1>3, <2>1, <2>2
<1>5. CASE Written(arrays, arrays', 0, 0)
  BY <1>3, <1>5, MapStays
<1>6. CASE ~Written(arrays, arrays', 0, 0)
  <2>1. /\ Written(arrays, arrays', s.array, s.len)
        /\ s # Nil /\ s.len + Len(elems) <= Len(arrays[s.array]) /\ Len(elems) # 0
    BY Zenon, <1>6 DEF Placing
  <2>2. ASSUME m.slice.array = s.array
        PROVE  Contended(r)'
    <3>1. g = s
      <4>1. g.array = s.array
        BY Zenon, <1>2, <1>3, <2>1, <2>2
      <4>2. g \in Known
        <5>1. g.array # 0
          BY <1>3, <2>2, <4>1
        <5> HIDE DEF g
        <5> QED
          BY SMTT(30), <1>3, <5>1, NilFacts
      <4> QED
        BY Zenon, <1>1, <1>3, <2>1, <4>1, <4>2 DEF Own
    <3>2. r # q
      <4>1. SUFFICES ASSUME r = q
                     PROVE  FALSE
        OBVIOUS
      <4>2. records'[q].of = records[r].of
        BY SMTT(30), <4>1 DEF Lasting
      <4>3. m.depth # j /\ m.depth \in 1..Len(handlers[records[r].of].groups)
            /\ handlers[records[r].of].groups[m.depth] = s
            /\ handlers[records[r].of].groups[j] = s
            /\ j \in 1..Len(handlers[records[r].of].groups)
        BY <1>2, <3>1, <4>1, <4>2 DEF GroupsOf
      <4> QED
        BY Zenon, <1>1, <2>1, <4>3 DEF Own
    <3>3. Len(arrays'[s.array]) = Len(arrays[s.array]) /\ s.len < Len(arrays[s.array])
      <4>1. s.array \in 1..Len(arrays)
        BY Zenon, <1>1, <1>3, <2>1, KnownAreViews, ViewFacts
      <4>2. Len(arrays[s.array]) \in Nat /\ Len(elems) \in Nat
        <5>1. arrays \in Seq(Seq(Marks))
          BY InvariantFacts DEF HeapOf
        <5>2. arrays[s.array] \in Seq(Marks)
          BY Zenon, <4>1, <5>1, ElementOfSeq
        <5> QED
          BY <5>2, LenProperties
      <4>3. Len(arrays'[s.array]) = Len(arrays[s.array])
        BY Zenon, <2>1, <4>1 DEF Written
      <4> QED
        BY Zenon, <1>4, <2>1, <4>2, <4>3, RoomLeft
    <3>4. q \in DOMAIN records' \ {r}
      <4>1. DOMAIN records' = 1..Len(records')
        BY SMTT(30), LenProperties DEF Lasting
      <4> QED
        BY <3>2, <4>1
    <3>5. /\ m.depth \in DOMAIN handlers'[records'[r].of].groups
          /\ handlers'[records'[r].of].groups[m.depth] = s
      <4>1. records'[r].of = records[r].of
        BY DEF Lasting
      <4>2. DOMAIN GroupsOf(r) = 1..Len(GroupsOf(r))
        BY InvariantFacts
      <4> QED
        BY <1>2, <3>1, <4>1, <4>2 DEF GroupsOf
    <3>6. /\ j \in DOMAIN handlers'[records'[q].of].groups
          /\ handlers'[records'[q].of].groups[j] = s
      <4>1. handlers[records'[q].of].groups \in Seq(Buffers(arrays))
        BY <1>1, HeldAre
      <4> QED
        BY <4>1, LenProperties
    <3> QED
      BY Zenon, <2>1, <3>3, <3>4, <3>5, <3>6 DEF Contended
  <2> QED
    BY Zenon, <1>4, <2>1, <2>2, MapStays
<1> QED
  BY <1>5, <1>6
LEMMA UnchangedHandlers ==
  ASSUME handlers' = handlers, asked' = asked
  PROVE  Known' = Known
  BY DEF Known, Held

LEMMA RecordAdded ==
  ASSUME SlogInvariant, HandlersInvariant', handlers' = handlers, asked' = asked,
         NEW rec \in Record, records' = Append(records, rec),
         NEW q, q = Len(records) + 1
  PROVE  /\ Lasting /\ records' \in Seq(Record)
         /\ q \in Nat /\ Len(records') = q /\ records'[q] = rec /\ q \in 1..Len(records')
         /\ q \notin 1..Len(records) /\ 1..Len(records') = 1..Len(records) \cup {q}
         /\ \A r \in 1..Len(records) : records'[r] = records[r]
<1>1. records \in Seq(Record) /\ Len(records) \in Nat /\ Len(handlers) \in Nat
  BY InvariantFacts
<1>2. /\ records' \in Seq(Record) /\ Len(records') = q /\ records'[q] = rec
      /\ \A r \in 1..Len(records) : records'[r] = records[r]
  BY <1>1, AppendProperties
<1>3. /\ q \in Nat /\ q \in 1..Len(records') /\ q \notin 1..Len(records)
      /\ 1..Len(records') = 1..Len(records) \cup {q} /\ Len(records') >= Len(records)
  BY <1>1, <1>2
<1>4. \A r \in 1..Len(records) : Len(records[r].maps) \in Nat
  BY InvariantFacts
<1>5. Lasting
  BY <1>1, <1>2, <1>3, <1>4, UnchangedHandlers DEF Lasting
<1> QED
  BY <1>2, <1>3, <1>5

LEMMA KeptIs ==
  ASSUME SlogInvariant, NEW k \in 1..Len(handlers)
  PROVE  /\ Content(arrays, handlers[k].attrs) = asked[k].attrs
         /\ asked[k].attrs \in Seq(Marks)
         /\ handlers[k].groups \in Seq(Buffers(arrays)) /\ Len(handlers[k].groups) \in Nat
         /\ Len(handlers[k].groups) = Len(asked[k].groups)
         /\ handlers[k].groups = <<>> <=> asked[k].groups = <<>>
         /\ \A i \in 1..Len(handlers[k].groups) :
              /\ Content(arrays, handlers[k].groups[i]) = asked[k].groups[i]
              /\ handlers[k].groups[i] \in Buffers(arrays)
              /\ handlers[k].groups[i] \in Known \cup {Nil}
              /\ handlers[k].groups[i].len \in Nat
              /\ asked[k].groups[i] \in Seq(Marks)
              /\ handlers[k].groups[i].len = Len(asked[k].groups[i])
<1>1. HandlerTypeOK /\ Keeps(k) /\ Len(arrays) \in Nat /\ arrays \in HeapOf(Marks)
  BY InvariantFacts DEF HandlersInvariant, HandlersKeepTheirAttributes
<1>2. /\ handlers[k] \in [attrs : Buffers(arrays), groups : Seq(Buffers(arrays))]
      /\ asked[k] \in [attrs : Seq(Marks), groups : Seq(Seq(Marks))]
      /\ \A i \in 1..Len(handlers[k].groups) : handlers[k].groups[i] \in Known \cup {Nil}
  BY <1>1, HeldAre
<1>3. /\ handlers[k].groups \in Seq(Buffers(arrays)) /\ asked[k].groups \in Seq(Seq(Marks))
      /\ asked[k].attrs \in Seq(Marks)
  BY <1>2
<1>4. /\ Len(handlers[k].groups) \in Nat /\ Len(handlers[k].groups) = Len(asked[k].groups)
      /\ DOMAIN handlers[k].groups = 1..Len(handlers[k].groups)
  BY <1>1, <1>3, LenProperties DEF Keeps
<1>5. handlers[k].groups = <<>> <=> asked[k].groups = <<>>
  BY <1>3, <1>4, EmptySeq
<1>6. ASSUME NEW i \in 1..Len(handlers[k].groups)
      PROVE  /\ Content(arrays, handlers[k].groups[i]) = asked[k].groups[i]
             /\ handlers[k].groups[i] \in Buffers(arrays)
             /\ handlers[k].groups[i].len \in Nat
             /\ asked[k].groups[i] \in Seq(Marks)
             /\ handlers[k].groups[i].len = Len(asked[k].groups[i])
  <2> DEFINE s == handlers[k].groups[i]
  <2>1. Content(arrays, s) = asked[k].groups[i] /\ s \in Buffers(arrays)
        /\ asked[k].groups[i] \in Seq(Marks)
    BY <1>1, <1>3, <1>4, ElementOfSeq DEF Keeps
  <2> HIDE DEF s
  <2>2. CASE s = Nil
    <3>1. Content(arrays, s) = <<>>
      BY <2>2 DEF Content
    <3> QED
      BY <2>1, <2>2, <3>1, NilFacts, EmptySeq DEF s
  <2>3. CASE s # Nil
    <3>1. s \in Views(arrays)
      BY <2>1, <2>3 DEF Buffers
    <3>2. Len(Content(arrays, s)) = s.len /\ s.len \in Nat
      BY <1>1, <3>1, ContentIs, ViewFacts
    <3> QED
      BY <2>1, <3>2 DEF s
  <2> QED
    BY <2>2, <2>3
<1> QED
  BY <1>1, <1>2, <1>3, <1>4, <1>5, <1>6 DEF Keeps

LEMMA RecordIs ==
  ASSUME NEW of \in Nat, NEW list \in Lists, NEW attrs \in Seq(Marks), NEW maps \in Seq(Map),
         NEW rec, rec = [of |-> of, list |-> list, attrs |-> attrs, maps |-> maps]
  PROVE  /\ rec \in Record /\ rec.of = of /\ rec.list = list
         /\ rec.attrs = attrs /\ rec.maps = maps
  BY DEF Record

\* A new record without a map: its handler has no groups, or nothing in them and
\* its call has no attributes.
LEMMA PlainRecordKeeps ==
  ASSUME SlogInvariant, NEW k \in 1..Len(handlers), NEW list \in Lists,
         arrays' = arrays, handlers' = handlers, asked' = asked,
         NEW rec, rec = [of |-> k, list |-> list,
                         attrs |-> Content(arrays, handlers[k].attrs) \o
                                     (IF handlers[k].groups = <<>>
                                      THEN KVs(MaxHandlers + Len(records) + 1, list) ELSE <<>>),
                         maps |-> <<>>],
         records' = Append(records, rec),
         handlers[k].groups # <<>> =>
           /\ list.kept = 0
           /\ \A i \in 1..Len(handlers[k].groups) : handlers[k].groups[i].len = 0
  PROVE  SlogInvariant'
<1> DEFINE q == Len(records) + 1
           kvs == KVs(MaxHandlers + q, list)
           attrs == Content(arrays, handlers[k].attrs) \o
                      (IF handlers[k].groups = <<>> THEN kvs ELSE <<>>)
<1>1. /\ Len(records) \in Nat /\ MaxHandlers \in Nat /\ MaxHandlers + q \in Nat
      /\ MaxHandlers + Len(records) + 1 = MaxHandlers + q
      /\ k \in Nat
  BY InvariantFacts, SlogAssumption
<1>2. kvs \in Seq(Marks) /\ Len(kvs) = list.kept
  BY <1>1, MarksAre
<1>3. rec = [of |-> k, list |-> list, attrs |-> attrs, maps |-> <<>>]
  BY <1>1
<1>4. attrs \in Seq(Marks)
  BY <1>2, KeptIs
<1>5. \A r \in 1..Len(records) : r # q
  BY <1>1
<1> HIDE DEF q, kvs, attrs
<1>6. /\ rec \in Record /\ rec.of = k /\ rec.list = list /\ rec.attrs = attrs /\ rec.maps = <<>>
  <2> DEFINE none == <<>>
  <2>1. none \in Seq(Map)
    OBVIOUS
  <2>2. k \in Nat /\ rec = [of |-> k, list |-> list, attrs |-> attrs, maps |-> none]
    BY <1>1, <1>3
  <2> HIDE DEF none
  <2>3. rec \in Record /\ rec.of = k /\ rec.list = list /\ rec.attrs = attrs /\ rec.maps = none
    BY ONLY list \in Lists, <1>4, <2>1, <2>2, RecordIs
  <2> QED
    BY <2>3 DEF none
<1>7. HandlersInvariant' /\ Known' = Known
  BY InvariantFacts, UnchangedHandlers
     DEF HandlersInvariant, HandlerTypeOK, HandlersKeepTheirAttributes, Own, Keeps, Buffers, Views
<1>8. /\ Lasting /\ records' \in Seq(Record)
      /\ records'[q] = rec
      /\ 1..Len(records') = 1..Len(records) \cup {q}
      /\ \A r \in 1..Len(records) : records'[r] = records[r]
  BY <1>6, <1>7, RecordAdded DEF q
<1>9. Written(arrays, arrays', 0, 0)
  BY InvariantFacts DEF Written
<1>10. ASSUME NEW r \in 1..Len(records)
       PROVE  RecordOK(r)'
  <2>1. \A i \in 1..Len(records[r].maps) : MapOK(r, i)'
    <3> TAKE i \in 1..Len(records[r].maps)
    <3>1. records[r].maps[i].slice \in Views(arrays)
      BY Zenon, InvariantFacts DEF RecordOK, MapOK
    <3>2. records[r].maps[i].slice.array # 0
      BY SMTT(30), <3>1, InvariantFacts, ViewFacts
    <3> QED
      BY <1>8, <1>9, <3>2, MapStays
  <2> QED
    BY <1>8, <2>1, RecordStays
<1>11. ASSUME NEW n, n = q
       PROVE  RecordOK(n)'
  <2>1. /\ GroupsOf(n)' = handlers[k].groups /\ WantOf(n)' = asked[k] /\ KVsOf(n)' = kvs
        /\ records'[n] = rec
    BY <1>6, <1>8, <1>11 DEF GroupsOf, WantOf, KVsOf, kvs
  <2>2. rec.attrs = asked[k].attrs \o (IF asked[k].groups = <<>> THEN kvs ELSE <<>>)
    BY <1>6, KeptIs DEF attrs
  <2>3. Len(rec.maps) = 0 /\ 1..Len(rec.maps) = {}
    BY <1>6
  <2>4. Outwards(n)'
    <3>1. ASSUME NEW d \in 1..Len(handlers[k].groups)
          PROVE  ~(handlers[k].groups[d].len > 0) /\ kvs = <<>>
      <4>1. handlers[k].groups # <<>>
        BY EmptySeq
      <4>2. handlers[k].groups[d].len = 0 /\ list.kept = 0
        BY <4>1
      <4> QED
        BY <1>2, <4>2, EmptySeq
    <3> QED
      BY <2>1, <2>3, <3>1 DEF Outwards
  <2> QED
    BY <1>6, <2>1, <2>2, <2>3, <2>4 DEF RecordOK
<1> QED
  BY <1>7, <1>8, <1>10, <1>11 DEF SlogInvariant

\* The map just made is the group's and shows what it was given.
LEMMA MapPlaced ==
  ASSUME SlogInvariant, handlers' = handlers, asked' = asked,
         NEW q, NEW n, NEW k \in 1..Len(handlers), records'[q].of = k,
         NEW j \in 1..Len(handlers[k].groups),
         NEW elems, NEW new, Placing(arrays, handlers[k].groups[j], elems, new),
         arrays' = new.heap,
         records'[q].maps[n].depth = j, records'[q].maps[n].slice = new.slice,
         Inner(q, n)' = elems
  PROVE  MapOK(q, n)'
<1>1. GroupsOf(q)' = handlers[k].groups /\ WantOf(q)' = asked[k]
  BY SMTT(30) DEF GroupsOf, WantOf
<1>2. /\ new.slice \in Views(arrays')
      /\ Content(arrays', new.slice) = asked[k].groups[j] \o elems
  BY KeptIs DEF Placing
<1>3. \/ new.slice.array = handlers[k].groups[j].array
      \/ \A t \in Known' : t.array # new.slice.array
  <2>1. CASE new.slice.array > Len(arrays)
    <3>1. \A t \in Known' : t \in Views(arrays)
      BY InvariantFacts, UnchangedHandlers, KnownAreViews
    <3>2. Views(arrays') = Views(arrays)' /\ Len(arrays') \in Nat
      BY DEF Views, Placing, HeapOf
    <3>3. new.slice.array \in Nat
      BY <1>2, <3>2, ViewFacts
    <3> QED
      BY <2>1, <3>1, <3>3, InvariantFacts, ViewFacts
  <2>2. CASE ~(new.slice.array > Len(arrays))
    BY <2>2 DEF Placing
  <2> QED
    BY <2>1, <2>2
<1>4. Views(arrays)' = Views(arrays')
  BY DEF Views
<1> QED
  BY <1>1, <1>2, <1>3, <1>4 DEF MapOK

\* A new record with a map: the attributes of its call are behind those of the
\* leaf, or it has none and starts at the first group with attributes.
LEMMA PlacedRecordKeeps ==
  ASSUME SlogInvariant, NEW k \in 1..Len(handlers), NEW list \in Lists,
         NEW j \in 1..Len(handlers[k].groups),
         NEW q, q = Len(records) + 1,
         NEW kvs, kvs = KVs(MaxHandlers + q, list),
         NEW leaf, Placing(arrays, handlers[k].groups[j], kvs, leaf),
         arrays' = leaf.heap, handlers' = handlers, asked' = asked,
         NEW m, m = [depth |-> j, slice |-> leaf.slice],
         NEW rec, rec = [of |-> k, list |-> list,
                         attrs |-> Content(arrays, handlers[k].attrs) \o <<>>,
                         maps |-> <<m>>],
         records' = Append(records, rec),
         \A i \in 1..j - 1 : handlers[k].groups[i].len = 0,
         j = 1 \/ list.kept = 0
  PROVE  SlogInvariant'
<1> DEFINE s == handlers[k].groups[j]
           attrs == Content(arrays, handlers[k].attrs) \o <<>>
           maps == <<m>>
<1>1. /\ Len(records) \in Nat /\ MaxHandlers + q \in Nat /\ q \in Nat
      /\ k \in Nat /\ j \in Nat /\ Len(handlers[k].groups) \in Nat
      /\ handlers[k].groups # <<>>
  <2>1. Len(handlers[k].groups) \in Nat /\ Len(records) \in Nat /\ MaxHandlers \in Nat
    BY KeptIs, InvariantFacts, SlogAssumption
  <2> QED
    BY <2>1, EmptySeq
<1>2. kvs \in Seq(Marks) /\ Len(kvs) = list.kept
  BY <1>1, MarksAre
<1>3. attrs \in Seq(Marks) /\ attrs = asked[k].attrs
  BY KeptIs
<1>4. m \in Map /\ m.depth = j /\ m.slice = leaf.slice
  <2>1. leaf.slice \in Buffer
    BY DEF Placing, Views, Buffer
  <2> QED
    BY SMTT(30), <1>1, <2>1 DEF Map
<1>5. maps \in Seq(Map) /\ Len(maps) = 1 /\ maps[1] = m /\ maps # <<>>
  BY <1>4
<1>6. rec = [of |-> k, list |-> list, attrs |-> attrs, maps |-> maps]
  OBVIOUS
<1> HIDE DEF s, attrs, maps
<1>7. rec \in Record /\ rec.of = k /\ rec.list = list /\ rec.attrs = attrs /\ rec.maps = maps
  BY ONLY list \in Lists, <1>1, <1>3, <1>5, <1>6, RecordIs
<1>8. HandlersInvariant' /\ Known' = Known
  BY InvariantFacts, KeptIs, PlacingKeeps
<1>9. /\ Lasting /\ records' \in Seq(Record)
      /\ records'[q] = rec /\ q \in 1..Len(records')
      /\ q \notin 1..Len(records)
      /\ 1..Len(records') = 1..Len(records) \cup {q}
      /\ \A r \in 1..Len(records) : records'[r] = records[r]
  BY <1>7, <1>8, RecordAdded
<1>10. ASSUME NEW r \in 1..Len(records)
       PROVE  RecordOK(r)'
  <2>1. \A i \in 1..Len(records[r].maps) : MapOK(r, i)'
    <3>1. /\ r # q /\ records'[q].of = k /\ s = handlers[records'[q].of].groups[j]
          /\ Placing(arrays, s, kvs, leaf) /\ j \in 1..Len(handlers[records'[q].of].groups)
      BY <1>7, <1>9 DEF s
    <3>2. records'[q].of \in 1..Len(handlers)
      BY <3>1
    <3>3. kvs \in Seq(Marks) /\ q \in 1..Len(records') /\ Lasting
      BY <1>2, <1>9
    <3>4. r = q => \A i \in 1..Len(records[r].maps) : records[r].maps[i].depth # j
      BY SMTT(30), <3>1
    <3> QED
      BY ONLY SlogInvariant, handlers' = handlers, asked' = asked, arrays' = leaf.heap,
              r \in 1..Len(records), <3>1, <3>2, <3>3, <3>4, PlacingStays
  <2> QED
    BY <1>9, <2>1, RecordStays
<1>11. RecordOK(q)'
  <2>1. /\ GroupsOf(q)' = handlers[k].groups /\ WantOf(q)' = asked[k] /\ KVsOf(q)' = kvs
        /\ records'[q] = rec /\ records'[q].maps = maps /\ records'[q].of = k
        /\ records'[q].list = list /\ records'[q].attrs = attrs
    BY <1>7, <1>9 DEF GroupsOf, WantOf, KVsOf
  <2>2. attrs = asked[k].attrs \o (IF asked[k].groups = <<>> THEN kvs ELSE <<>>)
    BY <1>1, <1>3, <1>7, KeptIs DEF attrs
  <2>3. MapOK(q, 1)'
    <3>1. Inner(q, 1)' = kvs
      BY <2>1 DEF Inner
    <3>2. records'[q].maps[1].depth = j /\ records'[q].maps[1].slice = leaf.slice
      BY <1>4, <1>5, <2>1
    <3>3. records'[q].of = k /\ Placing(arrays, handlers[k].groups[j], kvs, leaf)
      BY <2>1
    <3> QED
      BY ONLY SlogInvariant, handlers' = handlers, asked' = asked, k \in 1..Len(handlers),
              j \in 1..Len(handlers[k].groups), arrays' = leaf.heap,
              <3>1, <3>2, <3>3, MapPlaced
  <2>4. Outwards(q)'
    <3>1. ASSUME NEW d \in 1..Len(handlers[k].groups),
                 handlers[k].groups[d].len > 0 \/ (d = 1 /\ kvs # <<>>)
          PROVE  d = j \/ d > j
      <4>1. SUFFICES ASSUME d < j
                     PROVE  FALSE
        BY <1>1
      <4>2. d \in 1..j - 1 /\ j # 1 /\ handlers[k].groups[d].len = 0
        BY <1>1, <4>1
      <4>3. kvs = <<>>
        BY <1>2, <4>2, EmptySeq
      <4> QED
        BY <3>1, <4>2, <4>3
    <3>2. 1..Len(maps) = {1} /\ maps[Len(maps)].depth = j /\ maps[1].depth = j
      BY <1>4, <1>5
    <3>3. \A d \in 1..Len(handlers[k].groups) :
            handlers[k].groups[d].len > 0 \/ (d = 1 /\ kvs # <<>>) =>
              \/ \E i \in 1..Len(maps) : maps[i].depth = d
              \/ maps # <<>> /\ d > maps[Len(maps)].depth
      BY <1>5, <3>1, <3>2
    <3>4. \A i, n \in 1..Len(maps) : i < n => maps[i].depth < maps[n].depth
      BY <3>2
    <3>5. \A d \in 1..Len(GroupsOf(q)') :
            GroupsOf(q)'[d].len > 0 \/ (d = 1 /\ KVsOf(q)' # <<>>) =>
              \/ \E i \in 1..Len(records'[q].maps) : records'[q].maps[i].depth = d
              \/ records'[q].maps # <<>> /\ d > records'[q].maps[Len(records'[q].maps)].depth
      BY SMTT(30), <2>1, <3>3
    <3>6. \A i, n \in 1..Len(records'[q].maps) :
            i < n => records'[q].maps[i].depth < records'[q].maps[n].depth
      BY <2>1, <3>4
    <3> QED
      BY ONLY <3>5, <3>6 DEF Outwards
  <2>5. k \in 1..Len(handlers')
    OBVIOUS
  <2>6. \A i \in 1..Len(maps) : MapOK(q, i)'
    BY <1>5, <2>3
  <2> QED
    BY <2>1, <2>2, <2>4, <2>5, <2>6 DEF RecordOK
<1> QED
  BY <1>8, <1>9, <1>10, <1>11 DEF SlogInvariant

LEMMA HandleKeeps ==
  ASSUME SlogInvariant, NEW k \in 1..Len(handlers), NEW list \in Lists,
         NEW slack \in 0..Slack, Handle(k, list, slack)
  PROVE  SlogInvariant'
<1> DEFINE groups == handlers[k].groups
           call == MaxHandlers + Len(records) + 1
           q == Len(records) + 1
           kvs == KVs(call, list)
           first == IF list.given > 0 THEN 1 ELSE LeadingEmpty(groups) + 1
           buf == Fresh(arrays, call, list, slack)
           leaf == KeyValues(buf.heap, groups[first], buf.slice, kvs, slack)
           attrs == Content(arrays, handlers[k].attrs)
           plain == [of |-> k, list |-> list, attrs |-> attrs \o kvs, maps |-> <<>>]
           bare == [of |-> k, list |-> list, attrs |-> attrs \o <<>>, maps |-> <<>>]
           nested == [of |-> k, list |-> list, attrs |-> attrs \o <<>>,
                      maps |-> <<[depth |-> first, slice |-> leaf.slice]>>]
<1>1. /\ handlers' = handlers /\ asked' = asked
      /\ IF groups = <<>> THEN records' = Append(records, plain) /\ arrays' = arrays
         ELSE IF first > Len(groups) THEN records' = Append(records, bare) /\ arrays' = arrays
         ELSE records' = Append(records, nested) /\ arrays' = leaf.heap
  BY DEF Handle
<1>2. /\ Len(records) \in Nat /\ MaxHandlers \in Nat /\ call = MaxHandlers + q /\ call \in Nat
      /\ slack \in Nat /\ list.given \in Nat /\ list.kept \in Nat
      /\ (list.given = 0 => list.kept = 0)
  <2>1. Len(records) \in Nat
    BY InvariantFacts
  <2> QED
    BY <2>1, SlogAssumption
<1>3. groups \in Seq(Buffers(arrays)) /\ Len(groups) \in Nat
      /\ \A i \in 1..Len(groups) : groups[i] \in Buffers(arrays)
  BY KeptIs
<1>4. /\ LeadingEmpty(groups) \in 0..Len(groups)
      /\ \A i \in 1..LeadingEmpty(groups) : groups[i].len = 0
  <2>1. Buffers(arrays) \subseteq Buffer
    BY DEF Buffers, Views, Buffer, Nil
  <2> QED
    BY <1>3, <2>1, LeadingEmptyIs
<1>5. CASE groups = <<>>
  <2>1. /\ records' = Append(records, plain) /\ arrays' = arrays
    BY <1>1, <1>5
  <2>2. plain = [of |-> k, list |-> list,
                 attrs |-> Content(arrays, handlers[k].attrs) \o
                             (IF handlers[k].groups = <<>>
                              THEN KVs(MaxHandlers + Len(records) + 1, list) ELSE <<>>),
                 maps |-> <<>>]
    BY <1>5
  <2>3. handlers[k].groups # <<>> =>
           /\ list.kept = 0
           /\ \A i \in 1..Len(handlers[k].groups) : handlers[k].groups[i].len = 0
    BY <1>5
  <2> HIDE DEF plain
  <2> QED
    BY <1>1, <2>1, <2>2, <2>3, PlainRecordKeeps
<1>6. CASE groups # <<>> /\ first > Len(groups)
  <2>1. /\ records' = Append(records, bare) /\ arrays' = arrays
    BY <1>1, <1>6
  <2>2. bare = [of |-> k, list |-> list,
                attrs |-> Content(arrays, handlers[k].attrs) \o
                            (IF handlers[k].groups = <<>>
                             THEN KVs(MaxHandlers + Len(records) + 1, list) ELSE <<>>),
                maps |-> <<>>]
    BY <1>6
  <2>3. handlers[k].groups # <<>> =>
           /\ list.kept = 0
           /\ \A i \in 1..Len(handlers[k].groups) : handlers[k].groups[i].len = 0
    <3>1. Len(groups) # 0
      BY <1>3, <1>6, EmptySeq
    <3>2. list.given = 0 /\ LeadingEmpty(groups) = Len(groups)
      BY <1>2, <1>3, <1>4, <1>6, <3>1
    <3> QED
      BY <1>2, <1>4, <3>2
  <2> HIDE DEF bare
  <2> QED
    BY <1>1, <2>1, <2>2, <2>3, PlainRecordKeeps
<1>7. CASE groups # <<>> /\ ~(first > Len(groups))
  <2>1. /\ records' = Append(records, nested) /\ arrays' = leaf.heap
    BY <1>1, <1>7
  <2>2. /\ first \in 1..Len(groups)
        /\ \A i \in 1..first - 1 : groups[i].len = 0
        /\ first = 1 \/ list.kept = 0
    <3>1. CASE list.given > 0
      BY <1>3, <1>7, <3>1
    <3>2. CASE ~(list.given > 0)
      <4>1. first = LeadingEmpty(groups) + 1 /\ list.kept = 0
        BY <1>2, <3>2
      <4> HIDE DEF first, groups
      <4> QED
        BY <1>3, <1>4, <1>7, <4>1
    <3> QED
      BY <3>1, <3>2
  <2>3. groups[first] \in Buffers(arrays)
    BY <1>3, <2>2
  <2>4. Placing(arrays, groups[first], kvs, leaf)
    <3>1. arrays \in HeapOf(Marks)
      BY InvariantFacts
    <3> HIDE DEF first, groups, call
    <3> QED
      BY <1>2, <2>3, <3>1, KeyValuesPlaces
  <2> DEFINE m == [depth |-> first, slice |-> leaf.slice]
  <2>5. nested = [of |-> k, list |-> list, attrs |-> Content(arrays, handlers[k].attrs) \o <<>>,
                  maps |-> <<m>>]
    OBVIOUS
  <2>6. kvs = KVs(MaxHandlers + q, list)
    BY <1>2
  <2>7. m = [depth |-> first, slice |-> leaf.slice] /\ q = Len(records) + 1
    OBVIOUS
  <2>8. /\ first \in 1..Len(handlers[k].groups)
        /\ \A i \in 1..first - 1 : handlers[k].groups[i].len = 0
        /\ Placing(arrays, handlers[k].groups[first], kvs, leaf)
    BY <2>2, <2>4
  <2> HIDE DEF nested, m, first, leaf, kvs, q, groups
  <2> QED
    BY <1>1, <2>1, <2>2, <2>5, <2>6, <2>7, <2>8, PlacedRecordKeeps
<1> QED
  BY <1>5, <1>6, <1>7

LEMMA WrapKeeps ==
  ASSUME SlogInvariant, NEW r \in 1..Len(records), NEW slack \in 0..Slack, Wrap(r, slack)
  PROVE  SlogInvariant'
<1> DEFINE rec == records[r]
           k == rec.of
           maps == rec.maps
           last == maps[Len(maps)].depth
           groups == handlers[k].groups
           outer == Outer(groups, last)
           next == CHOOSE i \in outer : \A j \in outer : i <= j
           elems == <<MapOf(MaxHandlers + r, last)>>
           new == Appended(arrays, groups[next], elems, slack)
           m == [depth |-> next, slice |-> new.slice]
           n == Len(maps) + 1
<1>1. /\ maps # <<>> /\ outer # {} /\ arrays' = new.heap
      /\ records' = [records EXCEPT ![r].maps = Append(@, m)]
      /\ handlers' = handlers /\ asked' = asked
  BY Zenon DEF Wrap
<1>2. /\ rec \in Record /\ RecordOK(r) /\ maps \in Seq(Map) /\ k \in 1..Len(handlers)
      /\ Len(maps) \in Nat /\ Len(maps) # 0 /\ Len(maps) \in 1..Len(maps)
      /\ Len(records) \in Nat /\ records \in Seq(Record) /\ slack \in Nat
      /\ HandlersInvariant /\ arrays \in HeapOf(Marks)
      /\ r \in Nat /\ MaxHandlers \in Nat
  <2>1. rec \in Record /\ RecordOK(r) /\ maps \in Seq(Map) /\ Len(maps) \in Nat
        /\ Len(records) \in Nat /\ records \in Seq(Record)
        /\ HandlersInvariant /\ arrays \in HeapOf(Marks)
    BY InvariantFacts
  <2>2. Len(maps) # 0
    BY Zenon, <1>1, <2>1, EmptySeq
  <2> QED
    BY <2>1, <2>2, SlogAssumption DEF RecordOK
<1>3. /\ groups \in Seq(Buffers(arrays)) /\ Len(groups) \in Nat /\ DOMAIN groups = 1..Len(groups)
      /\ GroupsOf(r) = groups
      /\ \A i \in 1..Len(groups) : groups[i] \in Buffers(arrays) /\ groups[i] \in Known \cup {Nil}
  BY Zenon, <1>2, KeptIs, LenProperties DEF GroupsOf
<1>4. \A i \in 1..Len(maps) : MapOK(r, i) /\ maps[i].depth \in 1..Len(groups)
  BY Zenon, <1>2, <1>3 DEF RecordOK, MapOK
<1>5. last \in 1..Len(groups)
  BY <1>2, <1>4
<1> HIDE DEF groups, last
<1>6. outer = {i \in 1..Len(groups) : i > last /\ groups[i].len > 0}
  BY <1>3 DEF Outer
<1>7. next \in outer /\ \A j \in outer : next <= j
  <2>1. outer \in SUBSET Nat
    BY <1>3, <1>6
  <2> HIDE DEF outer
  <2>2. \E i \in outer : \A j \in outer : i <= j
    BY <1>1, <2>1, LeastElement
  <2> QED
    BY <2>2
<1> HIDE DEF next
<1>8. /\ next \in 1..Len(groups) /\ next > last /\ groups[next].len > 0
  BY <1>6, <1>7
<1>9. groups[next] \in Views(arrays)
  BY <1>3, <1>8, NilFacts DEF Buffers
<1>10. elems \in Seq(Marks)
  <2>1. MaxHandlers + r \in Nat /\ last \in Nat
    BY <1>2, <1>3, <1>5
  <2> QED
    BY <2>1, MarksAre
<1> HIDE DEF elems
<1>11. Placing(arrays, groups[next], elems, new)
  BY <1>2, <1>9, <1>10, AppendedPlaces
<1> HIDE DEF new, outer
<1>12. HandlersInvariant' /\ Known' = Known
  BY <1>1, <1>2, <1>3, <1>8, <1>11, PlacingKeeps
<1>13. m \in Map /\ m.depth = next /\ m.slice = new.slice
  <2>1. new.slice \in Buffer
    BY <1>11 DEF Placing, Views, Buffer
  <2> QED
    BY <1>3, <1>8, <2>1 DEF Map
<1> HIDE DEF m
<1> DEFINE more == Append(maps, m)
           grown == [rec EXCEPT !.maps = more]
<1>14. /\ more \in Seq(Map) /\ Len(more) = n /\ more[n] = m /\ n \in Nat
       /\ \A i \in 1..Len(maps) : more[i] = maps[i]
       /\ 1..Len(more) = 1..Len(maps) \cup {n}
       /\ more[n - 1].depth = last /\ n # 1
  <2>1. /\ more \in Seq(Map) /\ Len(more) = n /\ more[n] = m
        /\ \A i \in 1..Len(maps) : more[i] = maps[i]
    BY <1>2, <1>13, AppendProperties
  <2>2. /\ n \in Nat /\ n - 1 = Len(maps) /\ n # 1 /\ 1..n = 1..Len(maps) \cup {n}
    BY <1>2
  <2> QED
    BY <1>2, <2>1, <2>2 DEF last
<1> HIDE DEF more
<1>15. /\ grown \in Record /\ grown.of = rec.of /\ grown.list = rec.list
       /\ grown.attrs = rec.attrs /\ grown.maps = more
  BY <1>2, <1>14 DEF Record
<1>16. /\ records' = [records EXCEPT ![r] = grown]
  BY <1>1 DEF more
<1> HIDE DEF grown, rec
<1>17. /\ records' \in Seq(Record) /\ Len(records') = Len(records)
       /\ \A i \in 1..Len(records) : records'[i] = IF i = r THEN grown ELSE records[i]
  BY <1>2, <1>15, <1>16, ExceptSeq
<1>18. Len(more) >= Len(maps)
  BY <1>2, <1>14
<1>19. Lasting
  <2>1. ASSUME NEW i \in 1..Len(records)
        PROVE  /\ records'[i].of = records[i].of /\ records'[i].list = records[i].list
               /\ records'[i].attrs = records[i].attrs
               /\ Len(records'[i].maps) >= Len(records[i].maps)
               /\ \A j \in 1..Len(records[i].maps) : records'[i].maps[j] = records[i].maps[j]
    <3>1. CASE i = r
      BY <1>14, <1>15, <1>17, <1>18, <3>1 DEF rec
    <3>2. CASE i # r
      <4>1. records'[i] = records[i] /\ Len(records[i].maps) \in Nat
        BY <1>17, <3>2, InvariantFacts
      <4> QED
        BY <4>1
    <3> QED
      BY <3>1, <3>2
  <2>2. Len(handlers) \in Nat
    BY InvariantFacts
  <2> QED
    BY <1>1, <1>2, <1>12, <1>17, <2>1, <2>2 DEF Lasting
<1>20. \A i, j \in 1..Len(maps) : i < j => maps[i].depth < maps[j].depth
  BY <1>2 DEF RecordOK, Outwards, rec
<1>21. \A i \in 1..Len(maps) : maps[i].depth <= last /\ maps[i].depth < next
  <2> TAKE i \in 1..Len(maps)
  <2>1. maps[i].depth \in Nat /\ last \in Nat /\ next \in Nat
    BY <1>3, <1>4, <1>5, <1>8
  <2>2. i = Len(maps) \/ i < Len(maps)
    BY <1>2
  <2>3. maps[i].depth <= last
    BY SMTT(30), <1>2, <1>20, <2>1, <2>2 DEF last
  <2> QED
    BY <1>8, <2>1, <2>3
<1>22. /\ records'[r].of = k /\ records'[r].maps = more /\ records'[r].list = rec.list
       /\ records'[r].attrs = rec.attrs
  BY <1>15, <1>17
<1>23. ASSUME NEW i \in 1..Len(records)
       PROVE  \A j \in 1..Len(records[i].maps) : MapOK(i, j)'
  <2>1. /\ groups[next] = handlers[records'[r].of].groups[next]
        /\ next \in 1..Len(handlers[records'[r].of].groups)
        /\ records'[r].of \in 1..Len(handlers)
    BY <1>2, <1>8, <1>22 DEF groups
  <2>2. i = r => \A j \in 1..Len(records[i].maps) : records[i].maps[j].depth # next
    <3>1. \A j \in 1..Len(maps) : maps[j].depth # next
      BY <1>3, <1>4, <1>8, <1>21
    <3> QED
      BY <3>1 DEF rec
  <2>3. r \in 1..Len(records')
    BY <1>17
  <2> HIDE DEF k
  <2> QED
    BY <1>1, <1>10, <1>11, <1>19, <2>1, <2>2, <2>3, PlacingStays
<1>24. ASSUME NEW i \in 1..Len(records), i # r
       PROVE  RecordOK(i)'
  <2>1. records'[i].maps = records[i].maps
    BY SMTT(30), <1>17, <1>24
  <2> QED
    BY <1>19, <1>23, <2>1, RecordStays
<1>25. RecordOK(r)'
  <2>1. /\ GroupsOf(r)' = groups /\ WantOf(r)' = asked[k] /\ KVsOf(r)' = KVsOf(r)
        /\ WantOf(r) = asked[k]
    BY <1>1, <1>22 DEF GroupsOf, WantOf, KVsOf, groups, rec
  <2>2. ASSUME NEW i, i = n
        PROVE  MapOK(r, i)'
    <3>1. Inner(r, i)' = elems
      <4>1. i # 1 /\ more[i - 1].depth = last
        BY <1>14, <2>2
      <4> HIDE DEF n
      <4> QED
        BY <1>22, <4>1 DEF Inner, elems
    <3>2. /\ next \in 1..Len(handlers[k].groups)
          /\ Placing(arrays, handlers[k].groups[next], elems, new)
          /\ records'[r].maps[i].depth = next /\ records'[r].maps[i].slice = new.slice
      BY <1>8, <1>11, <1>13, <1>14, <1>22, <2>2 DEF groups
    <3> HIDE DEF k, n
    <3> QED
      BY <1>1, <1>2, <1>22, <3>1, <3>2, MapPlaced
  <2>3. \A i \in 1..Len(more) : MapOK(r, i)'
    <3>1. \A i \in 1..Len(maps) : MapOK(r, i)'
      BY <1>23 DEF rec
    <3> HIDE DEF n
    <3> QED
      BY <1>14, <2>2, <3>1
  <2>4. \A i, j \in 1..Len(more) : i < j => more[i].depth < more[j].depth
    <3> TAKE i, j \in 1..Len(more)
    <3> HAVE i < j
    <3>1. i \in 1..Len(maps) /\ (j \in 1..Len(maps) \/ j = n)
      BY <1>2, <1>14
    <3>2. CASE j \in 1..Len(maps)
      BY <1>14, <1>20, <3>1, <3>2
    <3>3. CASE j = n
      BY <1>13, <1>14, <1>21, <3>1, <3>3
    <3> QED
      BY <3>1, <3>2, <3>3
  <2>5. ASSUME NEW d \in 1..Len(groups), groups[d].len > 0 \/ (d = 1 /\ KVsOf(r) # <<>>)
        PROVE  (\E i \in 1..Len(more) : more[i].depth = d) \/ d > next
    <3>1. (\E i \in 1..Len(maps) : maps[i].depth = d) \/ d > last
      BY <1>2, <1>3, <2>5 DEF RecordOK, Outwards, rec, last
    <3>2. CASE \E i \in 1..Len(maps) : maps[i].depth = d
      BY <1>14, <3>2
    <3>3. CASE d > last
      <4>1. groups[d].len > 0
        BY <1>3, <1>5, <2>5, <3>3
      <4>2. d \in outer
        BY <1>6, <3>3, <4>1
      <4>3. next <= d
        BY <1>7, <4>2
      <4>4. d = next \/ d > next
        BY <1>3, <1>8, <4>3
      <4>5. n \in 1..Len(more) /\ more[n].depth = next
        BY <1>13, <1>14
      <4> QED
        BY <4>4, <4>5
    <3> QED
      BY <3>1, <3>2, <3>3
  <2>6. Outwards(r)'
    <3>1. more # <<>> /\ more[Len(more)].depth = next
      BY <1>13, <1>14, EmptySeq
    <3>2. \A i, j \in 1..Len(records'[r].maps) :
            i < j => records'[r].maps[i].depth < records'[r].maps[j].depth
      BY <1>22, <2>4
    <3>3. \A d \in 1..Len(GroupsOf(r)') :
            GroupsOf(r)'[d].len > 0 \/ (d = 1 /\ KVsOf(r)' # <<>>) =>
              \/ \E i \in 1..Len(records'[r].maps) : records'[r].maps[i].depth = d
              \/ records'[r].maps # <<>> /\ d > records'[r].maps[Len(records'[r].maps)].depth
      BY <1>22, <2>1, <2>5, <3>1
    <3> QED
      BY ONLY <3>2, <3>3 DEF Outwards
  <2>7. rec.attrs = WantOf(r).attrs \o (IF WantOf(r).groups = <<>> THEN KVsOf(r) ELSE <<>>)
        /\ rec.list \in Lists
    BY <1>2 DEF RecordOK, rec
  <2> QED
    BY <1>1, <1>2, <1>22, <2>1, <2>3, <2>6, <2>7 DEF RecordOK
<1> QED
  BY <1>12, <1>17, <1>24, <1>25 DEF SlogInvariant

LEMMA SlogHolds == SlogSpec => []SlogInvariant
<1>1. SlogInit => SlogInvariant
  <2> SUFFICES ASSUME SlogInit
               PROVE  SlogInvariant
    OBVIOUS
  <2> DEFINE h == [attrs |-> Nil, groups |-> <<>>]
             value == [attrs |-> <<>>, groups |-> <<>>]
  <2>1. arrays = <<>> /\ handlers = <<h>> /\ records = <<>> /\ asked = <<value>>
    BY DEF SlogInit
  <2>2. /\ h \in [attrs : Buffers(arrays), groups : Seq(Buffers(arrays))]
        /\ h.attrs = Nil /\ h.groups = <<>>
    BY DEF Buffers
  <2>3. /\ value \in [attrs : Seq(Marks), groups : Seq(Seq(Marks))]
        /\ value.attrs = <<>> /\ value.groups = <<>>
    OBVIOUS
  <2> HIDE DEF h, value
  <2>4. handlers \in Seq([attrs : Buffers(arrays), groups : Seq(Buffers(arrays))])
        /\ Len(handlers) = 1 /\ handlers[1] = h /\ 1..Len(handlers) = {1}
    BY <2>1, <2>2
  <2>5. asked \in Seq([attrs : Seq(Marks), groups : Seq(Seq(Marks))])
        /\ Len(asked) = 1 /\ asked[1] = value
    BY <2>1, <2>3
  <2>6. arrays \in HeapOf(Marks)
    BY <2>1 DEF HeapOf
  <2>7. HandlerTypeOK
    BY <2>4, <2>5, <2>6 DEF HandlerTypeOK
  <2>8. Known = {}
    <3>1. Held(h) = {}
      BY <2>2 DEF Held
    <3> QED
      BY <2>4, <3>1 DEF Known
  <2>9. Own
    <3>1. 1..Len(handlers[1].groups) = {}
      BY <2>2, <2>4
    <3> QED
      BY <2>4, <2>8, <3>1 DEF Own
  <2>10. Keeps(1)
    <3>1. Content(arrays, Nil) = <<>> /\ DOMAIN h.groups = {}
      BY <2>2 DEF Content
    <3> QED
      BY <2>2, <2>3, <2>4, <2>5, <3>1 DEF Keeps
  <2>11. HandlersKeepTheirAttributes
    <3>1. DOMAIN handlers = {1}
      BY <2>4, LenProperties
    <3> QED
      BY <2>10, <3>1 DEF HandlersKeepTheirAttributes
  <2>12. records \in Seq(Record) /\ 1..Len(records) = {}
    BY <2>1
  <2> QED
    BY <2>7, <2>9, <2>11, <2>12 DEF SlogInvariant, HandlersInvariant
<1>2. SlogInvariant /\ [SlogNext]_slogVars => SlogInvariant'
  <2> SUFFICES ASSUME SlogInvariant, [SlogNext]_slogVars
               PROVE  SlogInvariant'
    OBVIOUS
  <2>1. DOMAIN handlers = 1..Len(handlers) /\ DOMAIN records = 1..Len(records)
        /\ HandlersInvariant
    BY InvariantFacts
  <2>2. ASSUME NEW k \in 1..Len(handlers), NEW list \in Lists, NEW slack \in 0..Slack,
               WithAttrs(k, list, slack)
        PROVE  SlogInvariant'
    BY <2>1, <2>2, WithAttrsDerives, DerivedKeepsRecords
  <2>3. ASSUME NEW k \in 1..Len(handlers), WithGroup(k)
        PROVE  SlogInvariant'
    BY <2>1, <2>3, WithGroupDerives, DerivedKeepsRecords
  <2>4. ASSUME NEW k \in 1..Len(handlers), NEW list \in Lists, NEW slack \in 0..Slack,
               Handle(k, list, slack)
        PROVE  SlogInvariant'
    BY <2>4, HandleKeeps
  <2>5. ASSUME NEW r \in 1..Len(records), NEW slack \in 0..Slack, Wrap(r, slack)
        PROVE  SlogInvariant'
    BY <2>5, WrapKeeps
  <2>6. CASE UNCHANGED slogVars
    <3>1. arrays' = arrays /\ handlers' = handlers /\ records' = records /\ asked' = asked
      BY <2>6 DEF slogVars
    <3>2. HandlersInvariant' /\ Known' = Known
      BY <2>1, <3>1, UnchangedHandlers
         DEF HandlersInvariant, HandlerTypeOK, HandlersKeepTheirAttributes, Own, Keeps, Buffers, Views
    <3>3. ASSUME NEW r \in 1..Len(records)
          PROVE  RecordOK(r)'
      <4>1. RecordOK(r)
        BY InvariantFacts
      <4>2. /\ GroupsOf(r)' = GroupsOf(r) /\ WantOf(r)' = WantOf(r) /\ KVsOf(r)' = KVsOf(r)
            /\ \A i : Inner(r, i)' = Inner(r, i)
        BY <3>1 DEF GroupsOf, WantOf, KVsOf, Inner
      <4>3. Contended(r)' = Contended(r)
        BY <3>1 DEF Contended
      <4>4. \A i : MapOK(r, i) => MapOK(r, i)'
        BY Zenon, <3>1, <3>2, <4>2, <4>3 DEF MapOK, Views
      <4>5. Outwards(r) => Outwards(r)'
        BY <3>1, <4>2 DEF Outwards
      <4> QED
        BY <3>1, <4>1, <4>2, <4>4, <4>5 DEF RecordOK
    <3> QED
      BY <3>1, <3>2, <3>3 DEF SlogInvariant
  <2> QED
    BY <2>1, <2>2, <2>3, <2>4, <2>5, <2>6 DEF SlogNext
<1> QED
  BY <1>1, <1>2, PTL DEF SlogSpec

\* A handler's attributes and groups are at any time what the calls that derived
\* it asked for: WithAttrs (handler.go:259-273) appends to a clone, WithGroup
\* (handler.go:277-281) keeps the groups there are, and what Handle and
\* group.KeyValue append lies behind what every handler that shares the array has.
THEOREM HandlersKeep == SlogSpec => []HandlersKeepTheirAttributes
<1>1. SlogInvariant => HandlersKeepTheirAttributes
  BY DEF SlogInvariant, HandlersInvariant
<1> QED
  BY <1>1, SlogHolds, PTL

\* A record that is finished says what its call and its handler say, unless
\* another record shares a group of its handler whose array has room left
\* (handler.go:349-361, where group.KeyValue appends to the group's own array).
THEOREM RecordsAreDisturbedBySharingOnly == SlogSpec => []OnlySharedGroupsDisturb
<1>1. SlogInvariant => OnlySharedGroupsDisturb
  <2> SUFFICES ASSUME SlogInvariant, NEW r \in DOMAIN records, Finished(r), ~Contended(r)
               PROVE  Faithful(r)
    BY DEF OnlySharedGroupsDisturb
  <2> DEFINE maps == records[r].maps
             k == records[r].of
  <2>1. r \in 1..Len(records) /\ RecordOK(r) /\ k \in 1..Len(handlers)
        /\ DOMAIN maps = 1..Len(maps) /\ Len(maps) \in Nat
        /\ (maps # <<>> => Len(maps) \in 1..Len(maps))
    <3>1. r \in 1..Len(records)
      BY InvariantFacts
    <3>2. maps \in Seq(Map) /\ RecordOK(r) /\ DOMAIN maps = 1..Len(maps) /\ Len(maps) \in Nat
      BY <3>1, InvariantFacts
    <3> QED
      BY <3>1, <3>2, EmptySeq DEF RecordOK
  <2>2. /\ Len(handlers[k].groups) = Len(asked[k].groups)
        /\ DOMAIN handlers[k].groups = 1..Len(handlers[k].groups)
        /\ \A d \in 1..Len(handlers[k].groups) :
             /\ handlers[k].groups[d].len \in Nat
             /\ asked[k].groups[d] \in Seq(Marks)
             /\ handlers[k].groups[d].len = Len(asked[k].groups[d])
        /\ GroupsOf(r) = handlers[k].groups /\ WantOf(r) = asked[k]
    BY <2>1, KeptIs, LenProperties DEF GroupsOf, WantOf
  <2>3. DOMAIN asked[k].groups = 1..Len(handlers[k].groups)
    <3>1. asked[k].groups \in Seq(Seq(Marks))
      BY <2>1, HeldAre, InvariantFacts
    <3> QED
      BY <2>2, <3>1, LenProperties
  <2>4. \A i \in DOMAIN maps :
          Content(arrays, maps[i].slice) = asked[k].groups[maps[i].depth] \o Inner(r, i)
    BY Zenon, <2>1, <2>2 DEF RecordOK, MapOK
  <2>5. ASSUME NEW d \in DOMAIN asked[k].groups,
               asked[k].groups[d] # <<>> \/ (d = 1 /\ KVsOf(r) # <<>>)
        PROVE  \E i \in DOMAIN maps : d = maps[i].depth
    <3>1. d \in 1..Len(handlers[k].groups) /\ d \in Nat /\ Len(handlers[k].groups) \in Nat
      BY <2>1, <2>3, KeptIs
    <3>2. handlers[k].groups[d].len > 0 \/ (d = 1 /\ KVsOf(r) # <<>>)
      <4>1. CASE asked[k].groups[d] # <<>>
        <5>1. Len(asked[k].groups[d]) # 0
          BY <2>2, <3>1, <4>1, EmptySeq
        <5> QED
          BY <2>2, <3>1, <5>1
      <4> QED
        BY <2>5, <4>1
    <3>3. \/ \E i \in 1..Len(maps) : maps[i].depth = d
          \/ maps # <<>> /\ d > maps[Len(maps)].depth
      BY <2>1, <2>2, <3>1, <3>2 DEF RecordOK, Outwards
    <3>4. ~(maps # <<>> /\ d > maps[Len(maps)].depth)
      <4> SUFFICES ASSUME maps # <<>>, d > maps[Len(maps)].depth
                   PROVE  FALSE
        OBVIOUS
      <4>1. Outer(handlers[k].groups, maps[Len(maps)].depth) = {}
        BY DEF Finished
      <4>2. ~(handlers[k].groups[d].len > 0)
        BY Zenon, <2>2, <3>1, <4>1 DEF Outer
      <4>3. maps[Len(maps)].depth \in 1..Len(handlers[k].groups)
        BY Zenon, <2>1, <2>2 DEF RecordOK, MapOK
      <4>4. d # 1
        BY <3>1, <4>3
      <4> QED
        BY <3>2, <4>2, <4>4
    <3> QED
      BY <2>1, <3>3, <3>4
  <2>6. records[r].attrs = asked[k].attrs \o (IF asked[k].groups = <<>> THEN KVsOf(r) ELSE <<>>)
    BY <2>1, <2>2 DEF RecordOK
  <2> QED
    BY Zenon, <2>4, <2>5, <2>6 DEF Faithful, KVsOf, Inner
<1> QED
  BY <1>1, SlogHolds, PTL

=============================================================================
