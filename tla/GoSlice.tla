------------------------------- MODULE GoSlice -------------------------------
(***************************************************************************)
(* Go slices, as far as internal/server uses them for tunnelsPerIP.  A     *)
(* slice is a header [arr, len] that points at a backing array shared by   *)
(* every copy of the header; append and slices.Delete write into that      *)
(* array.  The runtime and the slices package are not under src/: the      *)
(* definitions follow from how server/main.go uses them.                   *)
(*                                                                         *)
(* heap[a] is the backing array a, a sequence as long as its capacity.     *)
(* Array 0 is the empty array of nil and of []string{}.                    *)
(***************************************************************************)
EXTENDS Naturals, SequencesExt

CONSTANTS MaxArrays,    \* backing arrays 1..MaxArrays can be alive at once
          Zero          \* the zero value ("") slices.Delete leaves behind

ASSUME ArraysAssumption == MaxArrays \in Nat \ {0}

Arrays  == 0..MaxArrays
Headers == [arr : Arrays, len : Nat]
EmptySlice == [arr |-> 0, len |-> 0]

(* A header never reaches beyond the capacity of its array.                *)
Fits(heap, s) == s.len <= Len(heap[s.arr])

Elements(heap, s) == {heap[s.arr][i] : i \in 1..s.len}

(* Where x is in the slice; slices.Index returns the least position.       *)
Positions(heap, s, x) == {i \in 1..s.len : heap[s.arr][i] = x}

(* append: write behind the last element while the capacity lasts, else    *)
(* copy to a fresh array of twice the length.                              *)
HasRoom(heap, s) == s.len < Len(heap[s.arr])
GrownCap(s) == IF s.len = 0 THEN 1 ELSE 2 * s.len
AppendHeader(heap, s, fresh) ==
    [arr |-> IF HasRoom(heap, s) THEN s.arr ELSE fresh, len |-> s.len + 1]
AppendHeap(heap, s, x, fresh) ==
    IF HasRoom(heap, s)
    THEN [heap EXCEPT ![s.arr] = [@ EXCEPT ![s.len + 1] = x]]
    ELSE [heap EXCEPT ![fresh] =
            [i \in 1..GrownCap(s) |-> IF i <= s.len THEN heap[s.arr][i]
                                      ELSE IF i = s.len + 1 THEN x ELSE Zero]]

(* slices.Delete(s, k, k+1): shift the tail down, clear what it vacated.   *)
DeleteHeader(s) == [s EXCEPT !.len = @ - 1]
DeleteHeap(heap, s, k) ==
    [heap EXCEPT ![s.arr] =
        [i \in 1..Len(heap[s.arr]) |->
            IF i \in k..(s.len - 1) THEN heap[s.arr][i + 1]
            ELSE IF i = s.len THEN Zero ELSE heap[s.arr][i]]]

(* The garbage collector: arrays outside "live" lose their contents.       *)
Collect(heap, live) ==
    [a \in Arrays |-> IF a \in live THEN heap[a] ELSE <<>>]
=============================================================================
