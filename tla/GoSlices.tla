----------------------------- MODULE GoSlices ------------------------------
(***************************************************************************)
(* The slices of Go as the code of src/ uses them: a slice is a view of an *)
(* array, append writes into the array behind the view while its capacity  *)
(* lasts and moves to a new one when it does not. Arrays live in a heap, a *)
(* sequence of sequences; the length of an array is its capacity.          *)
(***************************************************************************)
EXTENDS Integers, Sequences

Nil == [array |-> 0, len |-> 0]   \* a slice that is nil
Unset == <<"unset", 0, 0>>        \* what an array holds at first

Content(heap, s) == IF s = Nil THEN <<>> ELSE SubSeq(heap[s.array], 1, s.len)

(* Each of these returns a heap and a slice of it.                           *)

\* make([]T, 0, cap)
Made(heap, cap) ==
  [heap  |-> Append(heap, [i \in 1..cap |-> Unset]),
   slice |-> [array |-> Len(heap) + 1, len |-> 0]]

\* The same elements in a new array of the given capacity.
Moved(heap, s, cap) ==
  [heap  |-> Append(heap, [i \in 1..cap |->
                             IF i <= s.len THEN heap[s.array][i] ELSE Unset]),
   slice |-> [array |-> Len(heap) + 1, len |-> s.len]]

\* slices.Grow(s, n); append may allocate slack elements more than needed.
Grown(heap, s, n, slack) ==
  IF s.len + n <= Len(heap[s.array]) THEN [heap |-> heap, slice |-> s]
  ELSE Moved(heap, s, s.len + n + slack)

\* append(s, elems...) for a slice that is not nil.
Appended(heap, s, elems, slack) ==
  LET room == Grown(heap, s, Len(elems), slack)
      to == room.slice.array
      n == s.len + Len(elems)
  IN [heap  |-> [room.heap EXCEPT ![to] =
                   [i \in DOMAIN @ |-> IF i \in s.len + 1 .. n
                                       THEN elems[i - s.len] ELSE @[i]]],
      slice |-> [array |-> to, len |-> n]]
=============================================================================
