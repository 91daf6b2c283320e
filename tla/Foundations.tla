---------------------------- MODULE Foundations -----------------------------
(***************************************************************************)
(* Lemmas several components are proved with: least elements and functions *)
(* that recur on a number; and, about GoSlices, for any elements, heaps    *)
(* and slices, what each operation puts where, and that it leaves the rest *)
(* of the heap as it is.                                                   *)
(***************************************************************************)
EXTENDS GoSlices, SequenceTheorems, WellFoundedInduction, NaturalsInduction, TLAPS

-----------------------------------------------------------------------------
(* Numbers                                                                 *)

\* Every set of naturals with an element has a least one.
LEMMA LeastElement ==
  ASSUME NEW T \in SUBSET Nat, T # {}
  PROVE  \E n \in T : \A m \in T : n <= m
<1>1. PICK n \in T : \A m \in T : ~(<<m, n>> \in OpToRel(<, Nat))
  BY NatLessThanWellFounded, WFMin
<1>2. \A m \in T : ~(m < n)
  BY <1>1 DEF OpToRel
<1> QED
  BY <1>2

\* A set with 0 that has the successors of its members has all numbers.
LEMMA SetInduction ==
  ASSUME NEW T, 0 \in T, \A n \in Nat : n \in T => n + 1 \in T
  PROVE  Nat \subseteq T
<1> SUFFICES ASSUME Nat \ T # {}
             PROVE  FALSE
  OBVIOUS
<1>1. PICK n \in Nat \ T : \A m \in Nat \ T : n <= m
  BY LeastElement
<1>2. n # 0 /\ n - 1 \in Nat
  BY <1>1
<1>3. n - 1 \in T
  BY <1>1, <1>2
<1> QED
  BY <1>2, <1>3

\* A function given by its value at 0 and by steps from each number to the next.
Steps(S) == [Nat -> [S -> S]]

Iterates(f, S, a, step) ==
  /\ f \in [Nat -> S]
  /\ f[0] = a
  /\ \A n \in Nat : f[n + 1] = step[n][f[n]]

\* What is given from one number to the next defines a function.
LEMMA IterationExists ==
  ASSUME NEW S, NEW a \in S, NEW step \in Steps(S)
  PROVE  \E f : Iterates(f, S, a, step)
<1> USE DEF Steps
<1> DEFINE Upto(n, g) == /\ g \in [0..n -> S] /\ g[0] = a
                         /\ \A k \in Nat : k < n => g[k + 1] = step[k][g[k]]
<1>1. \A n \in Nat : \E g : Upto(n, g)
  <2> DEFINE T == {n \in Nat : \E g : Upto(n, g)}
  <2>1. 0 \in T
    <3>1. Upto(0, [k \in 0..0 |-> a])
      OBVIOUS
    <3> QED
      BY <3>1
  <2>2. ASSUME NEW n \in Nat, n \in T
        PROVE  n + 1 \in T
    <3>1. PICK g : Upto(n, g)
      BY <2>2
    <3> DEFINE h == [k \in 0..(n + 1) |-> IF k = n + 1 THEN step[n][g[n]] ELSE g[k]]
    <3>2. step[n][g[n]] \in S
      BY <3>1
    <3>3. h \in [0..(n + 1) -> S] /\ h[0] = a
      BY <3>1, <3>2
    <3>4. ASSUME NEW k \in Nat, k < n + 1
          PROVE  h[k + 1] = step[k][h[k]]
      <4>1. CASE k = n
        BY <4>1
      <4>2. CASE k < n
        BY <3>1, <4>2
      <4> QED
        BY <3>4, <4>1, <4>2
    <3>5. Upto(n + 1, h)
      BY <3>3, <3>4
    <3> HIDE DEF h
    <3> QED
      BY <3>5
  <2> HIDE DEF T
  <2>3. Nat \subseteq T
    BY <2>1, <2>2, SetInduction
  <2> QED
    BY <2>3 DEF T
<1>2. ASSUME NEW m \in Nat, NEW n \in Nat, m <= n, NEW g, NEW h, Upto(m, g), Upto(n, h)
      PROVE  g[m] = h[m]
  <2> DEFINE T == {k \in Nat : k <= m => g[k] = h[k]}
  <2>1. 0 \in T
    BY <1>2
  <2>2. ASSUME NEW k \in Nat, k \in T
        PROVE  k + 1 \in T
    BY <1>2, <2>2
  <2> HIDE DEF T
  <2>3. Nat \subseteq T
    BY <2>1, <2>2, SetInduction
  <2> QED
    BY <2>3 DEF T
<1> DEFINE Chosen(n) == CHOOSE g : Upto(n, g)
           f == [n \in Nat |-> Chosen(n)[n]]
<1>3. \A n \in Nat : Upto(n, Chosen(n))
  BY <1>1
<1> HIDE DEF Chosen
<1>4. f \in [Nat -> S] /\ f[0] = a
  BY <1>3
<1>5. ASSUME NEW n \in Nat
      PROVE  f[n + 1] = step[n][f[n]]
  <2>1. Upto(n, Chosen(n)) /\ Upto(n + 1, Chosen(n + 1)) /\ n + 1 \in Nat
    BY <1>3
  <2>2. Chosen(n + 1)[n + 1] = step[n][Chosen(n + 1)[n]]
    BY <2>1
  <2> HIDE DEF Upto
  <2>3. n <= n + 1
    OBVIOUS
  <2>4. Chosen(n)[n] = Chosen(n + 1)[n]
    BY ONLY n \in Nat, <1>2, <2>1, <2>3
  <2> QED
    BY <2>1, <2>2, <2>4
<1> HIDE DEF f
<1> QED
  BY <1>4, <1>5 DEF Iterates

-----------------------------------------------------------------------------
(* Slices                                                                  *)

\* A heap whose arrays hold elements of E, and a slice of it that is not nil.
HeapOf(E) == Seq(Seq(E))
Buffer == [array : Nat, len : Nat]
Views(heap) == {s \in [array : Nat, len : Nat] :
                  s.array \in 1..Len(heap) /\ s.len <= Len(heap[s.array])}

\* Nothing changes in the arrays of the heap but at the places from low + 1 on of
\* the array at.
Written(heap, new, at, low) ==
  /\ Len(new) >= Len(heap)
  /\ \A a \in 1..Len(heap) :
       /\ Len(new[a]) = Len(heap[a])
       /\ \A i \in 1..Len(heap[a]) : a # at \/ i <= low => new[a][i] = heap[a][i]

LEMMA ContentIs ==
  ASSUME NEW E, NEW heap \in HeapOf(E), NEW s \in Views(heap)
  PROVE  /\ Content(heap, s) \in Seq(E) /\ Len(Content(heap, s)) = s.len
         /\ \A i \in 1..s.len : Content(heap, s)[i] = heap[s.array][i]
<1>1. /\ s.array \in 1..Len(heap) /\ s.len \in Nat /\ s.len <= Len(heap[s.array])
      /\ heap[s.array] \in Seq(E) /\ Len(heap) \in Nat
  BY ElementOfSeq DEF Views, HeapOf
<1>2. Content(heap, s) = SubSeq(heap[s.array], 1, s.len)
  BY <1>1 DEF Content, Nil
<1>3. /\ Len(SubSeq(heap[s.array], 1, s.len)) = s.len
      /\ \A i \in 1..s.len : SubSeq(heap[s.array], 1, s.len)[i] = heap[s.array][i]
      /\ SubSeq(heap[s.array], 1, s.len) \in Seq(E)
  BY <1>1, SubSeqProperties
<1> QED
  BY <1>2, <1>3

\* What a slice shows depends on its own places alone.
LEMMA ContentStays ==
  ASSUME NEW E, NEW heap \in HeapOf(E), NEW new \in HeapOf(E), NEW s \in Views(heap),
         NEW at, NEW low \in Nat, Written(heap, new, at, low),
         s.array = at => s.len <= low
  PROVE  s \in Views(new) /\ Content(new, s) = Content(heap, s)
<1>1. /\ s.array \in 1..Len(heap) /\ s.len \in Nat /\ s.len <= Len(heap[s.array])
      /\ Len(heap) \in Nat /\ Len(new) \in Nat /\ Len(heap[s.array]) \in Nat
  BY ElementOfSeq DEF Views, HeapOf
<1>2. s \in Views(new)
  <2>1. Len(new) >= Len(heap) /\ Len(new[s.array]) = Len(heap[s.array])
    BY <1>1 DEF Written
  <2>2. s \in [array : Nat, len : Nat] /\ s.array \in 1..Len(new) /\ s.len <= Len(new[s.array])
    BY <1>1, <2>1 DEF Views
  <2> QED
    BY <2>2 DEF Views
<1>3. ASSUME NEW i \in 1..s.len
      PROVE  new[s.array][i] = heap[s.array][i]
  <2>1. i \in 1..Len(heap[s.array]) /\ (s.array # at \/ i <= low)
    BY <1>1
  <2> QED
    BY <1>1, <2>1 DEF Written
<1>4. /\ Content(new, s) \in Seq(E) /\ Len(Content(new, s)) = s.len
      /\ Content(heap, s) \in Seq(E) /\ Len(Content(heap, s)) = s.len
      /\ \A i \in 1..s.len : Content(new, s)[i] = Content(heap, s)[i]
  BY <1>2, <1>3, ContentIs
<1> QED
  BY <1>1, <1>2, <1>4, SeqEqual

LEMMA NewArray ==
  ASSUME NEW E, NEW heap \in HeapOf(E), NEW array \in Seq(E)
  PROVE  /\ Append(heap, array) \in HeapOf(E) /\ Len(Append(heap, array)) = Len(heap) + 1
         /\ Append(heap, array)[Len(heap) + 1] = array
         /\ Len(heap) + 1 \in Nat
         /\ \A at, low : Written(heap, Append(heap, array), at, low)
<1>1. /\ Append(heap, array) \in Seq(Seq(E)) /\ Len(heap) \in Nat
      /\ Len(Append(heap, array)) = Len(heap) + 1
      /\ Append(heap, array)[Len(heap) + 1] = array
      /\ \A a \in 1..Len(heap) : Append(heap, array)[a] = heap[a]
  BY AppendProperties DEF HeapOf
<1> QED
  BY <1>1 DEF HeapOf, Written

LEMMA MadeIs ==
  ASSUME NEW E, Unset \in E, NEW heap \in HeapOf(E), NEW cap \in Nat
  PROVE  /\ Made(heap, cap).heap \in HeapOf(E)
         /\ Made(heap, cap).slice \in Views(Made(heap, cap).heap)
         /\ Made(heap, cap).slice = [array |-> Len(heap) + 1, len |-> 0]
         /\ \A at, low : Written(heap, Made(heap, cap).heap, at, low)
<1> DEFINE array == [i \in 1..cap |-> Unset]
<1>1. array \in Seq(E) /\ Len(array) = cap
  BY IsASeq, LenProperties
<1> HIDE DEF array
<1>2. /\ Made(heap, cap).heap = Append(heap, array)
      /\ Made(heap, cap).slice = [array |-> Len(heap) + 1, len |-> 0]
  BY DEF Made, array
<1>3. /\ Append(heap, array) \in HeapOf(E) /\ Len(Append(heap, array)) = Len(heap) + 1
      /\ Append(heap, array)[Len(heap) + 1] = array
      /\ Len(heap) + 1 \in Nat /\ Len(heap) \in Nat
      /\ \A at, low : Written(heap, Append(heap, array), at, low)
  BY <1>1, NewArray, LenProperties DEF HeapOf
<1> QED
  BY <1>1, <1>2, <1>3 DEF Views

\* The elements of a slice in a new array.
Moving(E, heap, s, cap, new) ==
  /\ new.heap \in HeapOf(E) /\ new.slice \in Views(new.heap)
  /\ new.slice = [array |-> Len(heap) + 1, len |-> s.len]
  /\ Len(new.heap) = Len(heap) + 1 /\ Len(new.heap[Len(heap) + 1]) = cap
  /\ \A i \in 1..s.len : new.heap[Len(heap) + 1][i] = heap[s.array][i]
  /\ \A at, low : Written(heap, new.heap, at, low)

LEMMA MovedIs ==
  ASSUME NEW E, Unset \in E, NEW heap \in HeapOf(E), NEW s \in Views(heap), NEW cap \in Nat,
         s.len <= cap
  PROVE  Moving(E, heap, s, cap, Moved(heap, s, cap))
<1> DEFINE array == [i \in 1..cap |-> IF i <= s.len THEN heap[s.array][i] ELSE Unset]
<1>1. /\ s.array \in 1..Len(heap) /\ s.len \in Nat /\ s.len <= Len(heap[s.array])
      /\ heap[s.array] \in Seq(E) /\ Len(heap) \in Nat /\ Len(heap[s.array]) \in Nat
  BY ElementOfSeq DEF Views, HeapOf
<1>2. \A i \in 1..cap : array[i] \in E
  BY <1>1, ElementOfSeq
<1>3. array \in Seq(E) /\ Len(array) = cap /\ \A i \in 1..s.len : array[i] = heap[s.array][i]
  BY <1>1, <1>2, IsASeq, LenProperties
<1> HIDE DEF array
<1>4. Moved(heap, s, cap).heap = Append(heap, array) /\ Moved(heap, s, cap).slice = [array |-> Len(heap) + 1, len |-> s.len]
  BY DEF Moved, array
<1>5. /\ Append(heap, array) \in HeapOf(E) /\ Len(Append(heap, array)) = Len(heap) + 1
      /\ Append(heap, array)[Len(heap) + 1] = array
      /\ \A at, low : Written(heap, Append(heap, array), at, low)
  BY <1>3, NewArray
<1>6. Moved(heap, s, cap).slice \in Views(Moved(heap, s, cap).heap)
  BY <1>1, <1>3, <1>4, <1>5 DEF Views
<1>7. /\ Len(Moved(heap, s, cap).heap) = Len(heap) + 1
      /\ Len(Moved(heap, s, cap).heap[Len(heap) + 1]) = cap
      /\ \A i \in 1..s.len : Moved(heap, s, cap).heap[Len(heap) + 1][i] = heap[s.array][i]
  BY <1>3, <1>4, <1>5
<1> QED
  BY <1>4, <1>5, <1>6, <1>7 DEF Moving

\* The elements after those of a slice that has room for them.
Placed(heap, s, elems) ==
  [heap EXCEPT ![s.array] =
     [i \in DOMAIN @ |-> IF i \in s.len + 1 .. s.len + Len(elems)
                         THEN elems[i - s.len] ELSE @[i]]]

LEMMA PlacedIs ==
  ASSUME NEW E, NEW heap \in HeapOf(E), NEW s \in Views(heap), NEW elems \in Seq(E),
         s.len + Len(elems) <= Len(heap[s.array])
  PROVE  /\ Placed(heap, s, elems) \in HeapOf(E) /\ Len(Placed(heap, s, elems)) = Len(heap)
         /\ Written(heap, Placed(heap, s, elems), s.array, s.len)
         /\ Len(elems) = 0 => Written(heap, Placed(heap, s, elems), 0, 0)
         /\ \A i \in 1..s.len : Placed(heap, s, elems)[s.array][i] = heap[s.array][i]
         /\ \A i \in 1..Len(elems) : Placed(heap, s, elems)[s.array][s.len + i] = elems[i]
<1> DEFINE at == s.array
           old == heap[at]
           n == s.len + Len(elems)
           array == [i \in 1..Len(old) |->
                       IF i \in s.len + 1 .. n THEN elems[i - s.len] ELSE old[i]]
           new == Placed(heap, s, elems)
<1>1. /\ at \in 1..Len(heap) /\ s.len \in Nat /\ Len(heap) \in Nat /\ heap \in Seq(Seq(E))
      /\ old \in Seq(E) /\ Len(old) \in Nat /\ Len(elems) \in Nat
      /\ n \in Nat /\ n <= Len(old) /\ DOMAIN old = 1..Len(old)
  BY ElementOfSeq, LenProperties DEF Views, HeapOf
<1>2. \A i \in 1..Len(old) : old[i] \in E
  BY <1>1, ElementOfSeq
<1>3. \A i \in 1..Len(elems) : elems[i] \in E
  BY ElementOfSeq
<1>4. \A i \in 1..Len(old) :
        (IF i \in s.len + 1 .. n THEN elems[i - s.len] ELSE old[i]) \in E
  <2> TAKE i \in 1..Len(old)
  <2>1. CASE i \in s.len + 1 .. n
    <3>1. i - s.len \in 1..Len(elems)
      BY <1>1, <2>1
    <3> QED
      BY <1>3, <2>1, <3>1
  <2>2. CASE i \notin s.len + 1 .. n
    BY <1>2, <2>2
  <2> QED
    BY <2>1, <2>2
<1>5. new = [heap EXCEPT ![at] = array]
  BY <1>1 DEF Placed
<1>6. array \in Seq(E) /\ Len(array) = Len(old)
  BY <1>1, <1>4, IsASeq, LenProperties
<1>7. \A i \in 1..Len(old) :
        array[i] = IF i \in s.len + 1 .. n THEN elems[i - s.len] ELSE old[i]
  OBVIOUS
<1> HIDE DEF array, new, old, at, n
<1>8. /\ new \in Seq(Seq(E)) /\ Len(new) = Len(heap)
      /\ \A a \in 1..Len(heap) : new[a] = IF a = at THEN array ELSE heap[a]
  <2>1. /\ [heap EXCEPT ![at] = array] \in Seq(Seq(E))
        /\ Len([heap EXCEPT ![at] = array]) = Len(heap)
        /\ \A a \in 1..Len(heap) : [heap EXCEPT ![at] = array][a] = IF a = at THEN array ELSE heap[a]
    <3>1. heap \in Seq(Seq(E)) /\ at \in 1..Len(heap) /\ array \in Seq(E)
      BY <1>1, <1>6
    <3> QED
      BY <3>1, ExceptSeq
  <2> QED
    BY <1>5, <2>1
<1>9. ASSUME NEW i \in 1..s.len
      PROVE  array[i] = old[i]
  <2>1. i \in 1..Len(old) /\ i \notin s.len + 1 .. n
    BY <1>1 DEF n
  <2> QED
    BY <1>7, <2>1
<1>10. \A i \in 1..Len(elems) : array[s.len + i] = elems[i]
  <2> TAKE i \in 1..Len(elems)
  <2>1. s.len + i \in 1..Len(old) /\ s.len + i \in s.len + 1 .. n /\ (s.len + i) - s.len = i
    <3>1. n = s.len + Len(elems)
      BY DEF n
    <3> QED
      BY ONLY <1>1, <3>1, i \in 1..Len(elems)
  <2> QED
    BY ONLY <1>7, <2>1
<1>11. Written(heap, new, at, s.len)
  <2>1. \A a \in 1..Len(heap) : Len(new[a]) = Len(heap[a])
    BY <1>6, <1>8 DEF old
  <2>2. ASSUME NEW a \in 1..Len(heap), NEW i \in 1..Len(heap[a]), a # at \/ i <= s.len
        PROVE  new[a][i] = heap[a][i]
    <3>1. CASE a # at
      BY <1>8, <3>1
    <3>2. CASE a = at
      <4>1. i \in 1..s.len
        BY <1>1, <2>2, <3>2
      <4>2. array[i] = old[i]
        BY <1>9, <4>1
      <4> QED
        BY <1>1, <1>8, <3>2, <4>2 DEF old
    <3> QED
      BY <3>1, <3>2
  <2> QED
    BY <1>1, <1>8, <2>1, <2>2 DEF Written
<1>12. ASSUME Len(elems) = 0
       PROVE  Written(heap, new, 0, 0)
  <2>1. s.len + 1 .. n = {}
    BY <1>1, <1>12 DEF n
  <2>2. \A i \in 1..Len(old) : array[i] = old[i]
    BY <1>7, <2>1
  <2>3. \A a \in 1..Len(heap) :
          Len(new[a]) = Len(heap[a]) /\ \A i \in 1..Len(heap[a]) : new[a][i] = heap[a][i]
    BY <1>6, <1>8, <2>2 DEF old
  <2> QED
    BY <1>1, <1>8, <2>3 DEF Written
<1> QED
  BY <1>1, <1>8, <1>9, <1>10, <1>11, <1>12 DEF new, at, old, HeapOf

\* Growing keeps the elements, in place if there is room for n more.
Growth(E, heap, s, n, room) ==
  /\ room.heap \in HeapOf(E) /\ room.slice \in Views(room.heap)
  /\ room.slice.len = s.len
  /\ s.len + n <= Len(room.heap[room.slice.array])
  /\ \A i \in 1..s.len : room.heap[room.slice.array][i] = heap[s.array][i]
  /\ \/ room.slice = s /\ room.heap = heap
     \/ /\ room.slice.array = Len(heap) + 1 /\ Len(heap) < Len(room.heap)
        /\ s.len + n > Len(heap[s.array])
        /\ \A at, low : Written(heap, room.heap, at, low)

LEMMA GrownIs ==
  ASSUME NEW E, Unset \in E, NEW heap \in HeapOf(E), NEW s \in Views(heap),
         NEW more \in Nat, NEW slack \in Nat
  PROVE  Growth(E, heap, s, more, Grown(heap, s, more, slack))
<1> DEFINE room == Grown(heap, s, more, slack)
           n == s.len + more
<1>1. /\ s.array \in 1..Len(heap) /\ s.len \in Nat /\ s.len <= Len(heap[s.array])
      /\ Len(heap) \in Nat /\ Len(heap[s.array]) \in Nat /\ n \in Nat
  BY ElementOfSeq DEF Views, HeapOf
<1>2. Growth(E, heap, s, more, room)
  <2>1. CASE n <= Len(heap[s.array])
    <3>1. room = [heap |-> heap, slice |-> s]
      BY <2>1 DEF Grown
    <3>2. room.heap = heap /\ room.slice = s
      BY <3>1
    <3> QED
      BY <2>1, <3>2 DEF Growth
  <2>2. CASE ~(n <= Len(heap[s.array]))
    <3>1. room = Moved(heap, s, n + slack) /\ n + slack \in Nat /\ s.len <= n + slack /\ n <= n + slack
      BY <1>1, <2>2 DEF Grown
    <3> HIDE DEF room
    <3>2. /\ room.heap \in HeapOf(E) /\ room.slice \in Views(room.heap)
          /\ room.slice = [array |-> Len(heap) + 1, len |-> s.len]
          /\ Len(room.heap) = Len(heap) + 1 /\ Len(room.heap[Len(heap) + 1]) = n + slack
          /\ \A i \in 1..s.len : room.heap[Len(heap) + 1][i] = heap[s.array][i]
          /\ \A at, low : Written(heap, room.heap, at, low)
      <4> DEFINE cap == n + slack
      <4>1. room = Moved(heap, s, cap) /\ cap \in Nat /\ s.len <= cap
        BY <3>1
      <4> HIDE DEF cap
      <4> DEFINE moved == Moved(heap, s, cap)
      <4>2. /\ moved.heap \in HeapOf(E) /\ moved.slice \in Views(moved.heap)
            /\ moved.slice = [array |-> Len(heap) + 1, len |-> s.len]
            /\ Len(moved.heap) = Len(heap) + 1 /\ Len(moved.heap[Len(heap) + 1]) = cap
            /\ \A i \in 1..s.len : moved.heap[Len(heap) + 1][i] = heap[s.array][i]
            /\ \A at, low : Written(heap, moved.heap, at, low)
        BY <4>1, MovedIs DEF Moving
      <4> HIDE DEF moved
      <4>3. room = moved
        BY <4>1 DEF moved
      <4> QED
        BY <4>2, <4>3 DEF cap
    <3>3. room.slice.array = Len(heap) + 1 /\ room.slice.len = s.len
      BY <3>2
    <3>4. \A i \in 1..s.len : room.heap[room.slice.array][i] = heap[s.array][i]
      BY <3>2, <3>3
    <3>5. /\ s.len + more <= Len(room.heap[room.slice.array])
          /\ Len(heap) < Len(room.heap)
          /\ s.len + more > Len(heap[s.array])
      <4>1. Len(room.heap[room.slice.array]) = n + slack
        BY <3>2, <3>3
      <4>2. Len(heap) < Len(room.heap)
        BY <1>1, <3>2
      <4>3. s.len + more > Len(heap[s.array])
        BY <1>1, <2>2
      <4> QED
        BY <3>1, <4>1, <4>2, <4>3
    <3> QED
      BY <3>2, <3>3, <3>4, <3>5 DEF Growth
  <2> QED
    BY <2>1, <2>2
<1> QED
  BY <1>2

\* append shows the old elements and then the new ones; it writes behind the slice
\* it is given or into an array of its own, and nothing at all without elements.
Appending(E, heap, s, elems, new) ==
  /\ new.heap \in HeapOf(E) /\ new.slice \in Views(new.heap)
  /\ new.slice.len = s.len + Len(elems)
  /\ Content(new.heap, new.slice) = Content(heap, s) \o elems
  /\ Written(heap, new.heap, s.array, s.len)
  /\ \/ /\ new.slice.array = s.array
        /\ s.len + Len(elems) <= Len(heap[s.array])
     \/ new.slice.array = Len(heap) + 1
  /\ Len(elems) = 0 \/ new.slice.array # s.array => Written(heap, new.heap, 0, 0)

LEMMA AppendedIs ==
  ASSUME NEW E, Unset \in E, NEW heap \in HeapOf(E), NEW s \in Views(heap),
         NEW elems \in Seq(E), NEW slack \in Nat
  PROVE  Appending(E, heap, s, elems, Appended(heap, s, elems, slack))
<1> DEFINE room == Grown(heap, s, Len(elems), slack)
           n == s.len + Len(elems)
           new == Appended(heap, s, elems, slack)
<1>1. /\ s.array \in 1..Len(heap) /\ s.len \in Nat /\ s.len <= Len(heap[s.array])
      /\ Len(heap) \in Nat /\ Len(elems) \in Nat /\ Len(heap[s.array]) \in Nat /\ n \in Nat
  BY ElementOfSeq DEF Views, HeapOf
<1>2. /\ room.heap \in HeapOf(E) /\ room.slice \in Views(room.heap)
      /\ room.slice.len = s.len
      /\ n <= Len(room.heap[room.slice.array])
      /\ \A i \in 1..s.len : room.heap[room.slice.array][i] = heap[s.array][i]
      /\ \/ room.slice = s /\ room.heap = heap
         \/ /\ room.slice.array = Len(heap) + 1 /\ Len(heap) < Len(room.heap)
            /\ n > Len(heap[s.array])
            /\ \A at, low : Written(heap, room.heap, at, low)
  <2>1. Len(elems) \in Nat
    BY <1>1
  <2> QED
    BY <2>1, GrownIs DEF Growth, n
<1>3. /\ new.heap = Placed(room.heap, room.slice, elems)
      /\ new.slice = [array |-> room.slice.array, len |-> n]
  BY <1>2 DEF Appended, Placed
<1> SUFFICES Appending(E, heap, s, elems, new)
  OBVIOUS
<1> HIDE DEF room, n, new
<1>4. /\ new.heap \in HeapOf(E) /\ Len(new.heap) = Len(room.heap)
      /\ Written(room.heap, new.heap, room.slice.array, s.len)
      /\ Len(elems) = 0 => Written(room.heap, new.heap, 0, 0)
      /\ \A i \in 1..s.len : new.heap[room.slice.array][i] = room.heap[room.slice.array][i]
      /\ \A i \in 1..Len(elems) : new.heap[room.slice.array][s.len + i] = elems[i]
  <2>1. /\ room.heap \in HeapOf(E) /\ room.slice \in Views(room.heap) /\ room.slice.len = s.len
        /\ room.slice.len + Len(elems) <= Len(room.heap[room.slice.array])
    BY <1>2 DEF n
  <2> DEFINE h == room.heap
             t == room.slice
  <2>2. /\ Placed(h, t, elems) \in HeapOf(E) /\ Len(Placed(h, t, elems)) = Len(h)
        /\ Written(h, Placed(h, t, elems), t.array, t.len)
        /\ Len(elems) = 0 => Written(h, Placed(h, t, elems), 0, 0)
        /\ \A i \in 1..t.len : Placed(h, t, elems)[t.array][i] = h[t.array][i]
        /\ \A i \in 1..Len(elems) : Placed(h, t, elems)[t.array][t.len + i] = elems[i]
    <3>1. h \in HeapOf(E) /\ t \in Views(h) /\ t.len + Len(elems) <= Len(h[t.array])
      BY <2>1
    <3> HIDE DEF h, t
    <3> QED
      BY <3>1, PlacedIs
  <2> QED
    BY <1>3, <2>1, <2>2
<1>5. new.slice \in Views(new.heap)
  <2>1. room.slice.array \in 1..Len(room.heap)
    BY <1>2 DEF Views
  <2>2. Len(new.heap[room.slice.array]) = Len(room.heap[room.slice.array])
    BY <1>4, <2>1 DEF Written
  <2> QED
    BY <1>1, <1>2, <1>3, <1>4, <2>1, <2>2 DEF Views
<1>6. Content(new.heap, new.slice) = Content(heap, s) \o elems
  <2>1. /\ Content(new.heap, new.slice) \in Seq(E) /\ Len(Content(new.heap, new.slice)) = n
        /\ \A i \in 1..n : Content(new.heap, new.slice)[i] = new.heap[room.slice.array][i]
    BY <1>3, <1>4, <1>5, ContentIs
  <2>2. /\ Content(heap, s) \in Seq(E) /\ Len(Content(heap, s)) = s.len
        /\ \A i \in 1..s.len : Content(heap, s)[i] = heap[s.array][i]
    BY ContentIs
  <2>3. /\ Content(heap, s) \o elems \in Seq(E) /\ Len(Content(heap, s) \o elems) = n
        /\ \A i \in 1..n : (Content(heap, s) \o elems)[i] =
             IF i <= s.len THEN Content(heap, s)[i] ELSE elems[i - s.len]
    BY <2>2, ConcatProperties DEF n
  <2>4. ASSUME NEW i \in 1..n
        PROVE  Content(new.heap, new.slice)[i] = (Content(heap, s) \o elems)[i]
    <3>1. CASE i <= s.len
      <4>1. i \in 1..s.len
        BY <1>1, <3>1
      <4> QED
        BY <1>2, <1>4, <2>1, <2>2, <2>3, <3>1, <4>1
    <3>2. CASE ~(i <= s.len)
      <4>1. i - s.len \in 1..Len(elems) /\ s.len + (i - s.len) = i
        BY <1>1, <3>2 DEF n
      <4> QED
        BY <1>4, <2>1, <2>3, <3>2, <4>1
    <3> QED
      BY <3>1, <3>2
  <2> QED
    BY <2>1, <2>3, <2>4, SeqEqual
<1>7. new.slice.len = s.len + Len(elems) /\ new.slice.array = room.slice.array
  BY <1>3 DEF n
<1>8. CASE room.slice = s /\ room.heap = heap
  <2>1. s.len + Len(elems) <= Len(heap[s.array])
    BY <1>2, <1>8 DEF n
  <2>2. /\ Written(heap, new.heap, s.array, s.len)
        /\ Len(elems) = 0 => Written(heap, new.heap, 0, 0)
    BY <1>4, <1>8
  <2>3. new.slice.array = s.array
    BY <1>7, <1>8
  <2> QED
    BY <1>4, <1>5, <1>6, <1>7, <2>1, <2>2, <2>3 DEF Appending
<1>9. CASE /\ room.slice.array = Len(heap) + 1 /\ Len(heap) < Len(room.heap)
           /\ n > Len(heap[s.array])
           /\ \A at, low : Written(heap, room.heap, at, low)
  <2>1. \A at, low : Written(heap, new.heap, at, low)
    <3>1. ASSUME NEW a \in 1..Len(heap)
          PROVE  /\ Len(new.heap[a]) = Len(heap[a])
                 /\ \A i \in 1..Len(heap[a]) : new.heap[a][i] = heap[a][i]
      <4>1. /\ a \in 1..Len(room.heap) /\ a # room.slice.array
            /\ Len(room.heap[a]) = Len(heap[a])
            /\ \A i \in 1..Len(heap[a]) : room.heap[a][i] = heap[a][i]
        <5>1. a \in 1..Len(room.heap) /\ a # room.slice.array /\ a # 0
          <6>1. Len(room.heap) \in Nat
            BY <1>2 DEF HeapOf
          <6> QED
            BY <1>1, <1>9, <6>1
        <5>2. Written(heap, room.heap, 0, 0)
          BY <1>9
        <5> QED
          BY <5>1, <5>2 DEF Written
      <4> QED
        BY <1>4, <4>1 DEF Written
    <3>2. Len(new.heap) >= Len(heap)
      BY <1>1, <1>2, <1>4, <1>9, LenProperties DEF HeapOf
    <3> QED
      BY <3>1, <3>2 DEF Written
  <2>2. new.slice.array = Len(heap) + 1
    BY <1>7, <1>9
  <2> QED
    BY <1>4, <1>5, <1>6, <1>7, <2>1, <2>2 DEF Appending
<1> QED
  BY <1>2, <1>8, <1>9 DEF Growth

LEMMA WrittenThrough ==
  ASSUME NEW E, NEW heap \in HeapOf(E), NEW mid \in HeapOf(E), NEW new \in HeapOf(E),
         NEW at, NEW low, Written(heap, mid, at, low),
         NEW to, NEW from, Written(mid, new, to, from),
         to \notin 1..Len(heap) \/ (to = at /\ from = low)
  PROVE  Written(heap, new, at, low)
<1>1. Len(heap) \in Nat /\ Len(mid) \in Nat /\ Len(new) \in Nat
  BY DEF HeapOf
<1>2. Len(new) >= Len(heap) /\ 1..Len(heap) \subseteq 1..Len(mid)
  BY <1>1 DEF Written
<1>3. ASSUME NEW a \in 1..Len(heap)
      PROVE  /\ Len(new[a]) = Len(heap[a])
             /\ \A i \in 1..Len(heap[a]) : a # at \/ i <= low => new[a][i] = heap[a][i]
  <2>1. a \in 1..Len(mid) /\ Len(mid[a]) = Len(heap[a])
        /\ \A i \in 1..Len(heap[a]) : a # at \/ i <= low => mid[a][i] = heap[a][i]
    BY <1>2 DEF Written
  <2>2. Len(new[a]) = Len(mid[a])
        /\ \A i \in 1..Len(mid[a]) : a # to \/ i <= from => new[a][i] = mid[a][i]
    BY <2>1 DEF Written
  <2> QED
    BY <2>1, <2>2
<1> QED
  BY <1>2, <1>3 DEF Written

LEMMA UntouchedIs ==
  ASSUME NEW heap, NEW new, Written(heap, new, 0, 0)
  PROVE  \A at, low : Written(heap, new, at, low)
<1>1. 0 \notin 1..Len(heap)
  OBVIOUS
<1> QED
  BY <1>1 DEF Written
LEMMA ViewsStay ==
  ASSUME NEW E, NEW heap \in HeapOf(E), NEW new \in HeapOf(E),
         NEW at, NEW low, Written(heap, new, at, low)
  PROVE  Views(heap) \subseteq Views(new)
<1>1. Len(heap) \in Nat /\ Len(new) \in Nat
  BY DEF HeapOf
<1>2. ASSUME NEW s \in Views(heap)
      PROVE  s \in Views(new)
  <2>1. s \in Buffer /\ s.array \in 1..Len(heap) /\ s.len <= Len(heap[s.array])
    BY DEF Views, Buffer
  <2>2. Len(new) >= Len(heap) /\ Len(new[s.array]) = Len(heap[s.array])
    BY <2>1 DEF Written
  <2> QED
    BY <1>1, <2>1, <2>2 DEF Views, Buffer
<1> QED
  BY <1>2

=============================================================================
