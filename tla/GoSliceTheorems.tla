--------------------------- MODULE GoSliceTheorems ---------------------------
(***************************************************************************)
(* append, slices.Delete and the garbage collector keep every header       *)
(* within the capacity of its array, for any contents.                     *)
(***************************************************************************)
EXTENDS GoSlice, WellFoundedInduction, SequenceTheorems, TLAPS

(* Writing into an array keeps the type of the heap and the length of      *)
(* every array but the fresh one; the header append returns fits.          *)
LEMMA AppendFits ==
    ASSUME NEW S, Zero \in S, NEW heap \in [Arrays -> Seq(S)],
           NEW s \in Headers, Fits(heap, s), NEW x \in S, NEW fresh \in Arrays
    PROVE  /\ AppendHeap(heap, s, x, fresh) \in [Arrays -> Seq(S)]
           /\ AppendHeader(heap, s, fresh) \in Headers
           /\ Fits(AppendHeap(heap, s, x, fresh), AppendHeader(heap, s, fresh))
           /\ \A t \in Headers : t.arr # fresh /\ Fits(heap, t)
                                   => Fits(AppendHeap(heap, s, x, fresh), t)
<1> DEFINE grown == [i \in 1..GrownCap(s) |-> IF i <= s.len THEN heap[s.arr][i]
                                ELSE IF i = s.len + 1 THEN x ELSE Zero]
           room  == [heap[s.arr] EXCEPT ![s.len + 1] = x]
<1>1. s.arr \in Arrays /\ s.len \in Nat /\ heap[s.arr] \in Seq(S)
      /\ s.len <= Len(heap[s.arr])
  BY DEF Headers, Fits
<1>2. AppendHeader(heap, s, fresh) \in Headers
  BY <1>1 DEF AppendHeader, Headers
<1>3. CASE HasRoom(heap, s)
  <2>1. room \in Seq(S) /\ Len(room) = Len(heap[s.arr])
    BY <1>1, <1>3 DEF HasRoom
  <2>2. AppendHeap(heap, s, x, fresh) = [heap EXCEPT ![s.arr] = room]
    BY <1>3 DEF AppendHeap
  <2>3. /\ [heap EXCEPT ![s.arr] = room] \in [Arrays -> Seq(S)]
        /\ \A t \in Headers : Len([heap EXCEPT ![s.arr] = room][t.arr]) = Len(heap[t.arr])
    <3> HIDE DEF room
    <3> QED BY <1>1, <2>1 DEF Headers
  <2>4. AppendHeader(heap, s, fresh) = [arr |-> s.arr, len |-> s.len + 1]
    BY <1>3 DEF AppendHeader
  <2>5. Fits(AppendHeap(heap, s, x, fresh), AppendHeader(heap, s, fresh))
    <3>1. [heap EXCEPT ![s.arr] = room][s.arr] = room
      BY <1>1
    <3>2. s.len + 1 <= Len(room)
      BY <1>1, <1>3, <2>1 DEF HasRoom
    <3> HIDE DEF room
    <3> QED BY <2>2, <2>4, <3>1, <3>2 DEF Fits
  <2>6. \A t \in Headers : Fits(heap, t) => Fits(AppendHeap(heap, s, x, fresh), t)
    <3> HIDE DEF room
    <3> QED BY <2>2, <2>3 DEF Fits
  <2> QED BY <1>2, <2>2, <2>3, <2>5, <2>6
<1>4. CASE ~HasRoom(heap, s)
  <2>1. GrownCap(s) \in Nat /\ s.len + 1 <= GrownCap(s)
    BY <1>1 DEF GrownCap
  <2>2. \A i \in 1..GrownCap(s) : grown[i] \in S
    BY <1>1, <2>1
  <2>3. grown \in Seq(S) /\ Len(grown) = GrownCap(s)
    BY <2>1, <2>2
  <2>4. AppendHeap(heap, s, x, fresh) = [heap EXCEPT ![fresh] = grown]
    BY <1>4 DEF AppendHeap
  <2>5. AppendHeader(heap, s, fresh) = [arr |-> fresh, len |-> s.len + 1]
    BY <1>4 DEF AppendHeader
  <2> HIDE DEF grown
  <2>6. Fits(AppendHeap(heap, s, x, fresh), AppendHeader(heap, s, fresh))
    BY <2>1, <2>3, <2>4, <2>5 DEF Fits
  <2>7. \A t \in Headers : t.arr # fresh /\ Fits(heap, t)
                              => Fits(AppendHeap(heap, s, x, fresh), t)
    BY <2>4 DEF Fits, Headers
  <2>8. AppendHeap(heap, s, x, fresh) \in [Arrays -> Seq(S)]
    BY <2>3, <2>4
  <2> QED BY <1>2, <2>6, <2>7, <2>8
<1> QED BY <1>3, <1>4

(* Deleting an element keeps the length of every array, so every header    *)
(* still fits, the stale copies included.                                  *)
LEMMA DeleteFits ==
    ASSUME NEW S, Zero \in S, NEW heap \in [Arrays -> Seq(S)],
           NEW s \in Headers, Fits(heap, s), NEW k \in 1..s.len
    PROVE  /\ DeleteHeap(heap, s, k) \in [Arrays -> Seq(S)]
           /\ DeleteHeader(s) \in Headers
           /\ Fits(DeleteHeap(heap, s, k), DeleteHeader(s))
           /\ \A t \in Headers : Fits(heap, t) => Fits(DeleteHeap(heap, s, k), t)
<1> DEFINE shifted == [i \in 1..Len(heap[s.arr]) |->
                          IF i \in k..(s.len - 1) THEN heap[s.arr][i + 1]
                          ELSE IF i = s.len THEN Zero ELSE heap[s.arr][i]]
<1>1. s.arr \in Arrays /\ s.len \in Nat /\ heap[s.arr] \in Seq(S)
      /\ s.len <= Len(heap[s.arr]) /\ s.len >= 1
  BY DEF Headers, Fits
<1>2. \A i \in 1..Len(heap[s.arr]) : shifted[i] \in S
  BY <1>1
<1>3. shifted \in Seq(S) /\ Len(shifted) = Len(heap[s.arr])
  BY <1>1, <1>2
<1>4. DeleteHeap(heap, s, k) = [heap EXCEPT ![s.arr] = shifted]
  BY DEF DeleteHeap
<1>5. DeleteHeader(s) \in Headers /\ DeleteHeader(s).arr = s.arr
      /\ DeleteHeader(s).len = s.len - 1
  BY <1>1 DEF DeleteHeader, Headers
<1> HIDE DEF shifted
<1>6. /\ DeleteHeap(heap, s, k) \in [Arrays -> Seq(S)]
      /\ \A t \in Headers : Len(DeleteHeap(heap, s, k)[t.arr]) = Len(heap[t.arr])
  BY <1>1, <1>3, <1>4 DEF Headers
<1>7. \A t \in Headers : Fits(heap, t) => Fits(DeleteHeap(heap, s, k), t)
  BY <1>6 DEF Fits
<1>8. Fits(DeleteHeap(heap, s, k), DeleteHeader(s))
  BY <1>1, <1>5, <1>6 DEF Fits
<1> QED BY <1>5, <1>6, <1>7, <1>8

(* The collector touches no array that a header in use points at.          *)
LEMMA CollectFits ==
    ASSUME NEW S, NEW heap \in [Arrays -> Seq(S)], NEW live
    PROVE  /\ Collect(heap, live) \in [Arrays -> Seq(S)]
           /\ \A t \in Headers : t.arr \in live /\ Fits(heap, t)
                                    => Fits(Collect(heap, live), t)
BY DEF Collect, Fits, Headers

(* slices.Index: the least position is one of the positions.               *)
LEMMA MinPosition ==
    ASSUME NEW S, S \subseteq Nat, S # {}
    PROVE  Min(S) \in S
<1> DEFINE Less == {ss \in Nat \X Nat : ss[1] < ss[2]}
<1>1. OpToRel(<, Nat) = Less
  BY Zenon DEF OpToRel
<1>2. IsWellFoundedOn(Less, Nat)
  BY <1>1, NatLessThanWellFounded, Zenon
<1> HIDE DEF Less
<1>3. PICK x \in S : \A y \in S : <<y, x>> \notin Less
  BY <1>2, WFMin
<1>4. ASSUME NEW y \in S PROVE x <= y
  <2>1. x \in Nat /\ y \in Nat
    OBVIOUS
  <2>2. <<y, x>> \in Less <=> y < x
    BY <2>1 DEF Less
  <2> QED BY <1>3, <2>1, <2>2
<1> QED BY <1>4 DEF Min

(* RemoveTunnel's loop leaves a sequence of the same ids, one shorter at   *)
(* most.                                                                   *)
LEMMA RemoveFirstType ==
    ASSUME NEW S, NEW s \in Seq(S), NEW e
    PROVE  RemoveFirst(s, e) \in Seq(S)
<1>1. CASE ~ \E i \in 1..Len(s) : s[i] = e
  BY <1>1 DEF RemoveFirst
<1>2. CASE \E i \in 1..Len(s) : s[i] = e
  <2> DEFINE I == {i \in 1..Len(s) : s[i] = e}
             k == Min(I)
  <2>1. k \in 1..Len(s)
    <3>1. I \subseteq Nat /\ I # {}
      BY <1>2
    <3>2. k \in I
      BY <3>1, MinPosition
    <3> QED BY <3>2
  <2>2. RemoveFirst(s, e) = RemoveAt(s, k)
    BY <1>2 DEF RemoveFirst, SelectInSeq
  <2> HIDE DEF k
  <2>3. SubSeq(s, 1, k - 1) \in Seq(S) /\ SubSeq(s, k + 1, Len(s)) \in Seq(S)
    BY <2>1
  <2> QED BY <2>2, <2>3 DEF RemoveAt
<1> QED BY <1>1, <1>2

(* RemoveTunnel takes one entry of the id away and closes the gap.         *)
LEMMA RemoveFirstAt ==
    ASSUME NEW S, NEW s \in Seq(S), NEW e, NEW n \in 1..Len(s), s[n] = e
    PROVE  \E k \in 1..Len(s) :
              /\ s[k] = e /\ Len(RemoveFirst(s, e)) = Len(s) - 1
              /\ \A i \in 1..(k - 1) : RemoveFirst(s, e)[i] = s[i]
              /\ \A i \in (k + 1)..Len(s) : RemoveFirst(s, e)[i - 1] = s[i]
<1> DEFINE I == {i \in 1..Len(s) : s[i] = e}
           k == Min(I)
<1>1. Len(s) \in Nat
  OBVIOUS
<1>2. k \in 1..Len(s) /\ s[k] = e
  <2>1. I \subseteq Nat /\ I # {}
    BY <1>1
  <2>2. k \in I
    BY <2>1, MinPosition
  <2> QED BY <2>2
<1>3. RemoveFirst(s, e) = RemoveAt(s, k)
  BY DEF RemoveFirst, SelectInSeq
<1> HIDE DEF k
<1> DEFINE front == SubSeq(s, 1, k - 1)
           back == SubSeq(s, k + 1, Len(s))
<1>4. /\ front \in Seq(S) /\ Len(front) = k - 1
      /\ \A i \in 1..(k - 1) : front[i] = s[i]
  BY <1>1, <1>2
<1>5. /\ back \in Seq(S) /\ Len(back) = Len(s) - k
      /\ \A i \in 1..(Len(s) - k) : back[i] = s[k + i]
  BY <1>1, <1>2
<1>6. RemoveFirst(s, e) = front \o back
  BY <1>3 DEF RemoveAt
<1> HIDE DEF front, back
<1>7. /\ Len(front \o back) = Len(s) - 1
      /\ \A i \in 1..(k - 1) : (front \o back)[i] = s[i]
  BY <1>1, <1>2, <1>4, <1>5
<1>8. ASSUME NEW i \in (k + 1)..Len(s) PROVE (front \o back)[i - 1] = s[i]
  <2>1. /\ i - 1 \in 1..(Len(s) - 1) /\ ~ (i - 1 <= Len(front))
        /\ i - 1 - Len(front) = i - k /\ i - k \in 1..(Len(s) - k) /\ k + (i - k) = i
    BY <1>1, <1>2, <1>4
  <2>2. (front \o back)[i - 1] = back[i - 1 - Len(front)]
    BY <1>4, <1>5, <1>7, <2>1
  <2> QED BY <1>5, <2>1, <2>2
<1> QED BY <1>2, <1>6, <1>7, <1>8

(* append adds one element to what the slice holds, and writes into no     *)
(* array but that of the slice and the fresh one; never into the empty     *)
(* array.                                                                  *)
LEMMA AppendWrites ==
    ASSUME NEW S, NEW hp \in [Arrays -> Seq(S)], hp[0] = <<>>,
           NEW s \in Headers, Fits(hp, s), NEW x \in S, NEW fresh \in Arrays \ {0}
    PROVE  /\ AppendHeader(hp, s, fresh).len = s.len + 1
           /\ AppendHeader(hp, s, fresh).arr \in {s.arr, fresh}
           /\ \A a \in Arrays : a = 0 \/ a \notin {s.arr, fresh} =>
                  AppendHeap(hp, s, x, fresh)[a] = hp[a]
           /\ Elements(AppendHeap(hp, s, x, fresh), AppendHeader(hp, s, fresh)) =
                  Elements(hp, s) \cup {x}
<1> DEFINE grown == [i \in 1..GrownCap(s) |-> IF i <= s.len THEN hp[s.arr][i]
                                ELSE IF i = s.len + 1 THEN x ELSE Zero]
           room  == [hp[s.arr] EXCEPT ![s.len + 1] = x]
           h2 == AppendHeap(hp, s, x, fresh)
           s2 == AppendHeader(hp, s, fresh)
<1>1. /\ s.arr \in Arrays /\ s.len \in Nat /\ hp[s.arr] \in Seq(S)
      /\ s.len <= Len(hp[s.arr]) /\ Len(hp[s.arr]) \in Nat
  BY DEF Headers, Fits
<1>2. CASE HasRoom(hp, s)
  <2>1. s.arr # 0
    <3>1. Len(hp[s.arr]) # 0
      BY <1>1, <1>2 DEF HasRoom
    <3> QED BY <3>1, EmptySeq
  <2>2. h2 = [hp EXCEPT ![s.arr] = room] /\ s2 = [arr |-> s.arr, len |-> s.len + 1]
    BY <1>2 DEF AppendHeap, AppendHeader
  <2>3. /\ \A i \in 1..s.len : room[i] = hp[s.arr][i]
        /\ room[s.len + 1] = x
    BY <1>1, <1>2 DEF HasRoom
  <2> HIDE DEF room
  <2>4. h2[s.arr] = room /\ \A a \in Arrays : a # s.arr => h2[a] = hp[a]
    BY <1>1, <2>2
  <2>5. Elements(h2, s2) = Elements(hp, s) \cup {x}
    <3>1. Elements(h2, s2) = {room[i] : i \in 1..(s.len + 1)}
      BY <2>2, <2>4 DEF Elements
    <3>2. 1..(s.len + 1) = 1..s.len \cup {s.len + 1}
      BY <1>1
    <3> QED BY <2>3, <3>1, <3>2 DEF Elements
  <2>6. s2.len = s.len + 1 /\ s2.arr = s.arr
    BY <2>2
  <2> HIDE DEF h2, s2
  <2> QED BY <2>1, <2>4, <2>5, <2>6 DEF h2, s2
<1>3. CASE ~HasRoom(hp, s)
  <2>1. h2 = [hp EXCEPT ![fresh] = grown] /\ s2 = [arr |-> fresh, len |-> s.len + 1]
    BY <1>3 DEF AppendHeap, AppendHeader
  <2>2. GrownCap(s) \in Nat /\ s.len + 1 <= GrownCap(s)
    BY <1>1 DEF GrownCap
  <2>3. /\ \A i \in 1..s.len : grown[i] = hp[s.arr][i]
        /\ grown[s.len + 1] = x
    BY <1>1, <2>2
  <2> HIDE DEF grown
  <2>4. h2[fresh] = grown /\ \A a \in Arrays : a # fresh => h2[a] = hp[a]
    BY <2>1
  <2>5. Elements(h2, s2) = Elements(hp, s) \cup {x}
    <3>1. Elements(h2, s2) = {grown[i] : i \in 1..(s.len + 1)}
      BY <2>1, <2>4 DEF Elements
    <3>2. 1..(s.len + 1) = 1..s.len \cup {s.len + 1}
      BY <1>1
    <3> QED BY <2>3, <3>1, <3>2 DEF Elements
  <2>6. s2.len = s.len + 1 /\ s2.arr = fresh
    BY <2>1
  <2> HIDE DEF h2, s2
  <2> QED BY <2>4, <2>5, <2>6 DEF h2, s2
<1> QED BY <1>2, <1>3

(* slices.Delete shortens the slice where it is, and writes into no other  *)
(* array.                                                                  *)
LEMMA DeleteWrites ==
    ASSUME NEW S, NEW hp \in [Arrays -> Seq(S)], hp[0] = <<>>,
           NEW s \in Headers, Fits(hp, s), NEW k \in 1..s.len
    PROVE  /\ DeleteHeader(s).len = s.len - 1 /\ DeleteHeader(s).arr = s.arr
           /\ \A a \in Arrays : a = 0 \/ a # s.arr => DeleteHeap(hp, s, k)[a] = hp[a]
<1>1. /\ s.arr \in Arrays /\ s.len \in Nat /\ s.len >= 1
      /\ s.len <= Len(hp[s.arr])
  BY DEF Headers, Fits
<1>2. s.arr # 0
  BY <1>1, EmptySeq
<1>3. DeleteHeader(s).len = s.len - 1 /\ DeleteHeader(s).arr = s.arr
  BY DEF DeleteHeader, Headers
<1>4. \A a \in Arrays : a # s.arr => DeleteHeap(hp, s, k)[a] = hp[a]
  BY DEF DeleteHeap
<1> QED BY <1>2, <1>3, <1>4
=============================================================================
