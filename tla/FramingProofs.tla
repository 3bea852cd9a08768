---------------------------- MODULE FramingProofs ----------------------------
(***************************************************************************)
(* What the reader of a tunnel connection makes of the bytes on their way, *)
(* for any messages of any length, any number of writers, and wherever the *)
(* connection ends. The argument:                                          *)
(*   - strconv.Atoi undoes strconv.Itoa. Both are recursive functions, and *)
(*     what such a function computes is shown without induction: a least   *)
(*     argument at which it goes wrong is refuted (LeastNumber);           *)
(*   - so a frame can be taken apart again (Encodes);                      *)
(*   - the bytes on their way are those of the written messages, laid end  *)
(*     to end, from the place on that the reader has come to: b[k] is the  *)
(*     place where the frame of message k + 1 begins (Begins, Carries). No *)
(*     writer gets between the bytes of another, since what Conn.Write has *)
(*     not handed over is part of the bytes on their way (Pipe);           *)
(*   - what the reader has read of a frame is the beginning of the frame   *)
(*     it is in (Partial), so the byte it reads is the next of that frame  *)
(*     (ByteAhead) and it goes on in it or completes it (ReaderGoesOn);    *)
(*   - of a peer of another version the reader never gets past the type    *)
(*     byte, if no two bytes of what such a peer sends look like the       *)
(*     beginning of a frame (NotTakenForOurs).                             *)
(***************************************************************************)
EXTENDS Framing, SequenceTheorems, WellFoundedInduction, TLAPS

(* Frames, and what deserializeMessage has read of one.                    *)
AnyMessage == [type : 1..LastType, data : Seq(Byte)]
AnyFrame   == [at : {"version", "type", "length", "data"}, type : 0..LastType,
               digits : Seq(Byte), left : Nat, data : Seq(Byte)]

(* Types; with them, how far deserializeMessage has come says which of its *)
(* variables are set.                                                      *)
SenderTypes ==
    /\ version \in {Version} \cup OtherVersions
    /\ side \in {"server", "client"}
    /\ writer \in Writers \cup {Nobody}
    /\ rest \in Seq(Byte) /\ stream \in Seq(Byte)
    /\ writer = Nobody => rest = <<>>
    /\ cut \in BOOLEAN
    /\ sent \in Seq(AnyMessage) /\ Len(sent) <= MaxMessages
    /\ version = Version => sent \in Seq(Messages)

ReaderTypes ==
    /\ reader \in {"reading", "ended"} /\ misread \in BOOLEAN
    /\ received \in Seq(AnyMessage)
    /\ frame \in AnyFrame
    /\ frame.at = "version" => frame = Start
    /\ frame.at = "type" => frame = [Start EXCEPT !.at = "type"]
    /\ frame.at = "length" => frame.type \in 1..LastType /\ frame.data = <<>>
    /\ frame.at = "data" =>
           /\ frame.type \in 1..LastType
           /\ frame.left > 0 /\ frame.left + Len(frame.data) = Atoi[frame.digits]

TypeInv == SenderTypes /\ ReaderTypes

(* The bytes that are written and not yet read, whether the kernel has     *)
(* them or Conn.Write still holds them.                                    *)
Pipe == stream \o rest

(* The frame of a message of a peer of this version.                       *)
FrameOf(m) == SerializeMessage(Version, m)

(* How many bytes of a frame the reader has taken,                         *)
Consumed(f) ==
    CASE f.at = "version" -> 0
      [] f.at = "type"    -> 1
      [] f.at = "length"  -> 2 + Len(f.digits)
      [] f.at = "data"    -> 3 + Len(f.digits) + Len(f.data)

(* and how many of all that were ever written.                             *)
Taken(b) == b[Len(received)] + Consumed(frame)

(* b[k] bytes are in the frames of the first k messages.                   *)
Begins(b) ==
    /\ b \in [0..Len(sent) -> Nat]
    /\ \A k \in 0..(Len(sent) - 1) : b[k + 1] = b[k] + Len(FrameOf(sent[k + 1]))
    /\ \A i, k \in 0..Len(sent) : i <= k => b[i] <= b[k]

(* The bytes on their way are the ones after those taken, up to the last   *)
(* one unless the connection ended before it.                              *)
Carries(b) ==
    /\ \A k \in 0..(Len(sent) - 1) : \A j \in 1..Len(FrameOf(sent[k + 1])) :
           b[k] + j - Taken(b) \in 1..Len(Pipe) =>
               Pipe[b[k] + j - Taken(b)] = FrameOf(sent[k + 1])[j]
    /\ Taken(b) + Len(Pipe) <= b[Len(sent)]
    /\ ~cut => Taken(b) + Len(Pipe) = b[Len(sent)]

(* What the reader has read is how the frame of m begins.                  *)
Partial(f, m) ==
    /\ f.at \in {"length", "data"} => f.type = m.type
    /\ f.at = "length" =>
           /\ Len(f.digits) <= Len(Itoa[Len(m.data)])
           /\ \A i \in 1..Len(f.digits) : f.digits[i] = Itoa[Len(m.data)][i]
    /\ f.at = "data" =>
           /\ f.digits = Itoa[Len(m.data)]
           /\ f.left = Len(m.data) - Len(f.data)
           /\ \A i \in 1..Len(f.data) : f.data[i] = m.data[i]

(* The inductive invariant between peers of one version,                   *)
SameVersionInv ==
    version = Version =>
        /\ ~misread
        /\ Len(received) <= Len(sent)
        /\ reader = "reading" =>
               /\ \E b \in [0..Len(sent) -> Nat] : Begins(b) /\ Carries(b)
               /\ frame.at # "version" =>
                      Len(received) < Len(sent) /\ Partial(frame, sent[Len(received) + 1])

(* No byte of s with the value of this version is followed by a type; the  *)
(* last one is not followed by anything any more.                          *)
NoFrameIn(s, ended) ==
    \A j \in 1..Len(s) :
        s[j] = Version => IF j < Len(s) THEN s[j + 1] \notin 1..LastType ELSE ended

(* and with a peer of another version.                                     *)
OtherVersionInv ==
    version # Version =>
        /\ received = <<>>
        /\ reader = "reading" =>
               /\ frame.at \in {"version", "type"}
               /\ NoFrameIn(Pipe, cut)
               /\ frame.at = "type" =>
                      IF Len(Pipe) > 0 THEN Pipe[1] \notin 1..LastType ELSE cut

-----------------------------------------------------------------------------
(* A nonempty set of numbers has a least one.                              *)
LEMMA LeastNumber ==
    ASSUME NEW P, P \subseteq Nat, P # {}
    PROVE  \E x \in P : \A y \in P : x <= y
<1> DEFINE Less == {ss \in Nat \X Nat : ss[1] < ss[2]}
<1>1. OpToRel(<, Nat) = Less
  BY Zenon DEF OpToRel
<1>2. IsWellFoundedOn(Less, Nat)
  BY <1>1, NatLessThanWellFounded, Zenon
<1> HIDE DEF Less
<1>3. PICK x \in P : \A y \in P : <<y, x>> \notin Less
  BY <1>2, WFMin
<1>4. ASSUME NEW y \in P PROVE x <= y
  <2>1. x \in Nat /\ y \in Nat
    OBVIOUS
  <2>2. <<y, x>> \in Less <=> y < x
    BY <2>1 DEF Less
  <2> QED BY <1>3, <2>1, <2>2
<1> QED BY <1>4

(* A recursive definition f = Step[f] whose value for n needs only the     *)
(* ones for the numbers before n.                                          *)
Determined(S, Step) ==
    /\ S # {}
    /\ Step \in [[Nat -> S] -> [Nat -> S]]
    /\ \A n \in Nat, f, g \in [Nat -> S] :
           (\A m \in 0..(n - 1) : f[m] = g[m]) => Step[f][n] = Step[g][n]

(* f obeys it up to n.                                                     *)
Follows(S, Step, f, n) == f \in [Nat -> S] /\ \A m \in 0..n : f[m] = Step[f][m]

(* Some function obeys it up to n, for every n: the least n without one    *)
(* would have one, the function for n - 1 changed at n.                    *)
LEMMA Approximation ==
    ASSUME NEW S, NEW Step, Determined(S, Step),
           NEW n \in Nat
    PROVE  \E f \in [Nat -> S] : Follows(S, Step, f, n)
<1> USE DEF Determined
<1> DEFINE Bad == {k \in Nat : ~ \E f \in [Nat -> S] : Follows(S, Step, f, k)}
<1> SUFFICES ASSUME Bad # {} PROVE FALSE
  OBVIOUS
<1>1. PICK k \in Bad : \A j \in Bad : k <= j
  BY LeastNumber
<1>2. k \in Nat
  OBVIOUS
<1>3. PICK f \in [Nat -> S] : k # 0 => Follows(S, Step, f, k - 1)
  <2>1. CASE k = 0
    <3>1. PICK s \in S : TRUE
      OBVIOUS
    <3>2. [j \in Nat |-> s] \in [Nat -> S]
      OBVIOUS
    <3> QED BY <2>1, <3>2
  <2>2. CASE k # 0
    <3>1. k - 1 \in Nat \ Bad
      BY <1>1, <1>2, <2>2
    <3> QED BY <3>1
  <2> QED BY <2>1, <2>2
<1> DEFINE g == [f EXCEPT ![k] = Step[f][k]]
<1>4. Step[f] \in [Nat -> S]
  OBVIOUS
<1>5. g \in [Nat -> S] /\ g[k] = Step[f][k] /\ \A j \in Nat \ {k} : g[j] = f[j]
  BY <1>2, <1>4
<1> HIDE DEF g
<1>6. ASSUME NEW m \in 0..k PROVE g[m] = Step[g][m]
  <2>1. Step[g][m] = Step[f][m]
    <3>1. \A j \in 0..(m - 1) : g[j] = f[j]
      BY <1>2, <1>5
    <3>2. m \in Nat
      BY <1>2
    <3> QED BY <1>5, <3>1, <3>2 DEF Determined
  <2>2. CASE m = k
    BY <2>1, <2>2, <1>5
  <2>3. CASE m # k
    <3>1. m \in 0..(k - 1) /\ k # 0 /\ m \in Nat
      BY <2>3, <1>2
    <3>2. f[m] = Step[f][m]
      BY <3>1, <1>3 DEF Follows
    <3> QED BY <2>1, <3>1, <3>2, <2>3, <1>5
  <2> QED BY <2>2, <2>3
<1>7. Follows(S, Step, g, k)
  BY <1>5, <1>6 DEF Follows
<1> QED BY <1>7, <1>5

(* Two functions that obey it are the same as far as both do.              *)
LEMMA ApproximationsAgree ==
    ASSUME NEW S, NEW Step, Determined(S, Step)
    PROVE  \A n \in Nat : \A f, g \in [Nat -> S] :
               Follows(S, Step, f, n) /\ Follows(S, Step, g, n) => \A m \in 0..n : f[m] = g[m]
<1> SUFFICES ASSUME NEW n \in Nat, NEW f \in [Nat -> S], NEW g \in [Nat -> S],
                    Follows(S, Step, f, n), Follows(S, Step, g, n)
             PROVE  \A m \in 0..n : f[m] = g[m]
  OBVIOUS
<1> DEFINE Bad == {m \in 0..n : f[m] # g[m]}
<1> SUFFICES ASSUME Bad # {} PROVE FALSE
  OBVIOUS
<1>0. Bad \subseteq Nat
  OBVIOUS
<1>1. PICK k \in Bad : \A j \in Bad : k <= j
  <2> HIDE DEF Bad
  <2> QED BY <1>0, LeastNumber
<1>2. k \in Nat /\ k \in 0..n
  OBVIOUS
<1>3. \A m \in 0..(k - 1) : f[m] = g[m]
  <2> SUFFICES ASSUME NEW m \in 0..(k - 1) PROVE f[m] = g[m]
    OBVIOUS
  <2>1. m \in 0..n /\ ~(k <= m)
    BY <1>2
  <2> QED BY <2>1, <1>1
<1>4. Step[f][k] = Step[g][k]
  BY <1>2, <1>3 DEF Determined, Follows
<1>5. f[k] = g[k]
  BY <1>2, <1>4 DEF Follows
<1> QED BY <1>1, <1>5

(* So a function obeys it everywhere.                                      *)
LEMMA RecursiveFunction ==
    ASSUME NEW S, NEW Step, Determined(S, Step)
    PROVE  \E f \in [Nat -> S] : f = Step[f]
<1> DEFINE A(n) == CHOOSE f \in [Nat -> S] : Follows(S, Step, f, n)
           F    == [n \in Nat |-> A(n)[n]]
<1>1. \A n \in Nat : A(n) \in [Nat -> S] /\ Follows(S, Step, A(n), n)
  <2> TAKE n \in Nat
  <2>1. \E f \in [Nat -> S] : Follows(S, Step, f, n)
    BY Approximation
  <2> QED BY <2>1
<1> HIDE DEF A
<1>2. F \in [Nat -> S]
  BY <1>1 DEF Determined
<1>0. \A n \in Nat : \A f, g \in [Nat -> S] :
          Follows(S, Step, f, n) /\ Follows(S, Step, g, n) => \A m \in 0..n : f[m] = g[m]
  BY ApproximationsAgree
<1>3. \A n \in Nat : \A m \in 0..n : F[m] = A(n)[m]
  <2> TAKE n \in Nat
  <2> TAKE m \in 0..n
  <2>1. m \in Nat /\ 0..m \subseteq 0..n /\ m \in 0..m
    OBVIOUS
  <2>2. Follows(S, Step, A(n), m) /\ Follows(S, Step, A(m), m)
    BY <1>1, <2>1 DEF Follows
  <2>3. A(n)[m] = A(m)[m]
    BY <1>0, <1>1, <2>1, <2>2
  <2> QED BY <2>1, <2>3
<1> HIDE DEF F
<1>4. \A n \in Nat : F[n] = Step[F][n]
  <2> TAKE n \in Nat
  <2>1. \A m \in 0..(n - 1) : F[m] = A(n)[m]
    BY <1>3
  <2>2. Step[F][n] = Step[A(n)][n]
    BY <2>1, <1>1, <1>2 DEF Determined
  <2>3. A(n)[n] = Step[A(n)][n] /\ F[n] = A(n)[n]
    BY <1>1, <1>3 DEF Follows
  <2> QED BY <2>2, <2>3
<1>5. Step[F] \in [Nat -> S]
  BY <1>2 DEF Determined
<1>6. F = Step[F]
  BY <1>2, <1>4, <1>5
<1> QED BY <1>2, <1>6

(* What strconv.Itoa divides a number into.                                *)
LEMMA TenParts ==
    ASSUME NEW n \in Nat
    PROVE  /\ n \div 10 \in Nat /\ n % 10 \in 0..9
           /\ n = 10 * (n \div 10) + (n % 10)
           /\ n >= 10 => n \div 10 < n /\ n \div 10 # 0
<1>0. n % 10 \in 0..9
  OBVIOUS
<1>1. n \div 10 \in Nat
  OBVIOUS
<1>2. n = 10 * (n \div 10) + (n % 10)
  OBVIOUS
<1>3. ASSUME NEW q \in Nat, NEW r \in 0..9, n = 10 * q + r, n >= 10 PROVE q < n /\ q # 0
  BY <1>3
<1>4. n >= 10 => n \div 10 < n /\ n \div 10 # 0
  BY <1>0, <1>1, <1>2, <1>3
<1> QED BY <1>0, <1>1, <1>2, <1>4

(* A digit.                                                                *)
LEMMA OneDigit ==
    ASSUME NEW n \in 0..9
    PROVE  48 + n \in Digits /\ <<48 + n>> \in Seq(Digits)
BY DEF Digits

(* strconv.Itoa is what its recursive definition says, and gives digits.   *)
LEMMA ItoaStep ==
    /\ Itoa \in [Nat -> Seq(Digits)]
    /\ \A n \in Nat :
           /\ n < 10 => Itoa[n] = <<48 + n>>
           /\ n >= 10 => Itoa[n] = Append(Itoa[n \div 10], 48 + (n % 10))
<1> DEFINE S    == Seq(Digits)
           Value(f, n) == IF n < 10 THEN <<48 + n>> ELSE Append(f[n \div 10], 48 + (n % 10))
           Step == [f \in [Nat -> S] |-> [n \in Nat |-> Value(f, n)]]
<1>1. \A f \in [Nat -> S], n \in Nat : Value(f, n) \in S
  <2> TAKE f \in [Nat -> S], n \in Nat
  <2>1. CASE n < 10
    <3>1. n \in 0..9
      BY <2>1
    <3> QED BY <2>1, <3>1, OneDigit
  <2>2. CASE n >= 10
    <3>1. f[n \div 10] \in Seq(Digits) /\ 48 + (n % 10) \in Digits
      BY TenParts, OneDigit
    <3> QED BY <2>2, <3>1, AppendProperties
  <2> QED BY <2>1, <2>2
<1>2. \A n \in Nat, f, g \in [Nat -> S] :
          (\A m \in 0..(n - 1) : f[m] = g[m]) => Value(f, n) = Value(g, n)
  <2> SUFFICES ASSUME NEW n \in Nat, NEW f \in [Nat -> S], NEW g \in [Nat -> S],
                      \A m \in 0..(n - 1) : f[m] = g[m]
               PROVE  Value(f, n) = Value(g, n)
    OBVIOUS
  <2>1. n >= 10 => n \div 10 \in 0..(n - 1)
    BY TenParts
  <2> QED BY <2>1
<1>3. S # {} /\ <<>> \in S
  BY EmptySeq
<1>4. \A f : f = [n \in Nat |-> Value(f, n)] <=>
             f = [n \in Nat |-> IF n < 10 THEN <<48 + n>>
                                ELSE Append(f[n \div 10], 48 + (n % 10))]
  OBVIOUS
<1> HIDE DEF S, Value
<1>5. Determined(S, Step)
  <2>1. Step \in [[Nat -> S] -> [Nat -> S]]
    BY <1>1
  <2>2. \A n \in Nat, f \in [Nat -> S] : Step[f][n] = Value(f, n)
    OBVIOUS
  <2> HIDE DEF Step
  <2> QED BY <1>2, <1>3, <2>1, <2>2 DEF Determined
<1>6. PICK f \in [Nat -> S] : f = Step[f]
  <2> HIDE DEF Step
  <2> QED BY <1>5, RecursiveFunction
<1>7. f = [n \in Nat |-> Value(f, n)]
  BY <1>6
<1>8. Itoa = [n \in Nat |-> Value(Itoa, n)]
  <2>1. \E g : g = [n \in Nat |-> IF n < 10 THEN <<48 + n>>
                                  ELSE Append(g[n \div 10], 48 + (n % 10))]
    BY <1>4, <1>7
  <2>2. Itoa = [n \in Nat |-> IF n < 10 THEN <<48 + n>>
                              ELSE Append(Itoa[n \div 10], 48 + (n % 10))]
    BY <2>1, Zenon DEF Itoa
  <2> QED BY <1>4, <2>2
<1>9. \A n \in Nat : Itoa[n] = Value(Itoa, n)
  BY <1>8
<1>10. \A n \in Nat : Itoa[n] \in S
  <2> DEFINE Bad == {n \in Nat : Itoa[n] \notin S}
  <2> SUFFICES ASSUME Bad # {} PROVE FALSE
    OBVIOUS
  <2>0. Bad \subseteq Nat
    OBVIOUS
  <2>1. PICK n \in Bad : \A m \in Bad : n <= m
    <3> HIDE DEF Bad
    <3> QED BY <2>0, LeastNumber
  <2>5. n \in Nat /\ Itoa[n] \notin Seq(Digits) /\ Itoa[n] = Value(Itoa, n)
    BY <1>9 DEF S
  <2>6. ASSUME NEW m \in Nat, m < n PROVE Itoa[m] \in Seq(Digits)
    <3> HIDE DEF Bad
    <3>1. ~(n <= m)
      BY ONLY <2>5, <2>6
    <3>2. m \notin Bad
      BY <2>1, <3>1, Zenon
    <3> QED BY <3>2 DEF S, Bad
  <2> HIDE DEF Bad
  <2>2. CASE n < 10
    <3>1. n \in 0..9
      BY <2>2, <2>5
    <3> QED BY <2>2, <2>5, <3>1, OneDigit DEF Value
  <2>3. CASE n >= 10
    <3>1. Itoa[n \div 10] \in Seq(Digits) /\ 48 + (n % 10) \in Digits
      BY <2>3, <2>5, <2>6, TenParts, OneDigit
    <3>2. Append(Itoa[n \div 10], 48 + (n % 10)) \in Seq(Digits)
      BY <3>1, AppendProperties
    <3> QED BY <2>3, <2>5, <3>2 DEF Value
  <2> QED BY <2>2, <2>3, <2>5
<1>11. Itoa \in [Nat -> Seq(Digits)]
  BY <1>8, <1>10 DEF S
<1>12. ASSUME NEW n \in Nat, n < 10 PROVE Itoa[n] = <<48 + n>>
  BY <1>9, <1>12 DEF Value
<1>13. ASSUME NEW n \in Nat, n >= 10 PROVE Itoa[n] = Append(Itoa[n \div 10], 48 + (n % 10))
  <2>1. ~(n < 10)
    BY <1>13
  <2> QED BY <1>9, <2>1 DEF Value
<1> QED BY <1>11, <1>12, <1>13

(* What strconv.Atoi divides a string of digits into.                      *)
LEMMA LastDigit ==
    ASSUME NEW s \in Seq(Digits), s # <<>>
    PROVE  /\ Front(s) \in Seq(Digits) /\ Len(Front(s)) = Len(s) - 1 /\ Len(s) \in Nat \ {0}
           /\ Last(s) - 48 \in 0..9
<1>1. Len(s) \in Nat \ {0}
  BY EmptySeq, LenProperties
<1>2. s[Len(s)] \in Digits
  BY <1>1, ElementOfSeq
<1>3. SubSeq(s, 1, Len(s) - 1) \in Seq(Digits) /\ Len(SubSeq(s, 1, Len(s) - 1)) = Len(s) - 1
  <2>1. PICK n \in Nat : n = Len(s) - 1
    BY <1>1
  <2>2. 1 \in Int /\ n \in Int /\ \A i \in 1..n : s[i] \in Digits
    BY <1>1, <2>1, ElementOfSeq
  <2>3. SubSeq(s, 1, n) \in Seq(Digits) /\ Len(SubSeq(s, 1, n)) = IF 1 <= n THEN n - 1 + 1 ELSE 0
    BY ONLY <2>2, SubSeqProperties
  <2> QED BY <2>1, <2>3
<1> QED BY <1>1, <1>2, <1>3 DEF Front, Last, Digits

(* strconv.Atoi is what its recursive definition says; the recursion is on *)
(* the length of the string.                                               *)
LEMMA AtoiStep ==
    \A s \in Seq(Digits) :
        /\ Atoi[s] \in Nat
        /\ s = <<>> => Atoi[s] = 0
        /\ s # <<>> => Atoi[s] = 10 * Atoi[Front(s)] + (Last(s) - 48)
<1> DEFINE D    == Seq(Digits)
           S    == [D -> Nat]
           Value(g, s) == IF s = <<>> THEN 0 ELSE 10 * g[Front(s)] + (Last(s) - 48)
           Level(f, n) == [s \in D |-> IF n = 0 THEN 0 ELSE Value(f[n - 1], s)]
           Step == [f \in [Nat -> S] |-> [n \in Nat |-> Level(f, n)]]
<1>1. \A g \in S, s \in D : Value(g, s) \in Nat
  <2> TAKE g \in S, s \in D
  <2>1. CASE s # <<>>
    <3>1. Front(s) \in D /\ Last(s) - 48 \in 0..9
      BY <2>1, LastDigit
    <3>2. g[Front(s)] \in Nat
      BY <3>1
    <3> QED BY <2>1, <3>1, <3>2
  <2> QED BY <2>1
<1>2. \A g, h : \A s \in D : (s # <<>> => g[Front(s)] = h[Front(s)]) => Value(g, s) = Value(h, s)
  OBVIOUS
<1>3. \A g : g = [s \in D |-> Value(g, s)] <=>
             g = [s \in Seq(Digits) |-> IF s = <<>> THEN 0
                                        ELSE 10 * g[Front(s)] + (Last(s) - 48)]
  OBVIOUS
<1>4. \A g : Value(g, <<>>) = 0
  OBVIOUS
<1>5. \A s \in D : s # <<>> => Front(s) \in D /\ Len(Front(s)) = Len(s) - 1 /\ Len(s) \in Nat \ {0}
  BY LastDigit
<1> HIDE DEF Value
<1>6. Determined(S, Step)
  <2>0. \A f \in [Nat -> S], n \in Nat : Level(f, n) \in S
    <3> TAKE f \in [Nat -> S], n \in Nat
    <3>1. \A s \in D : (IF n = 0 THEN 0 ELSE Value(f[n - 1], s)) \in Nat
      <4> TAKE s \in D
      <4>1. CASE n = 0
        BY <4>1
      <4>2. CASE n # 0
        <5>1. f[n - 1] \in S
          <6>1. n - 1 \in Nat
            BY <4>2
          <6> HIDE DEF S
          <6> QED BY <6>1
        <5> QED BY <1>1, <4>2, <5>1
      <4> QED BY <4>1, <4>2
    <3> QED BY <3>1
  <2>1. Step \in [[Nat -> S] -> [Nat -> S]]
    <3> HIDE DEF Level
    <3> QED BY <2>0
  <2>2. \A n \in Nat, f \in [Nat -> S] : Step[f][n] = Level(f, n)
    <3> HIDE DEF Level
    <3> QED OBVIOUS
  <2>3. \A n \in Nat, f, g \in [Nat -> S] :
            (\A m \in 0..(n - 1) : f[m] = g[m]) => Level(f, n) = Level(g, n)
    <3> SUFFICES ASSUME NEW n \in Nat, NEW f \in [Nat -> S], NEW g \in [Nat -> S],
                        \A m \in 0..(n - 1) : f[m] = g[m]
                 PROVE  Level(f, n) = Level(g, n)
      OBVIOUS
    <3>1. n # 0 => f[n - 1] = g[n - 1]
      OBVIOUS
    <3> QED BY <3>1
  <2>4. S # {}
    <3>1. [s \in D |-> 0] \in S
      OBVIOUS
    <3> QED BY <3>1
  <2> HIDE DEF Step, Level, S
  <2> QED BY <2>1, <2>2, <2>3, <2>4 DEF Determined
<1>7. PICK f \in [Nat -> S] : f = Step[f]
  <2> HIDE DEF Step, S
  <2> QED BY <1>6, RecursiveFunction
<1>8. \A n \in Nat : f[n] \in S /\ f[n] = Level(f, n)
  BY <1>7
<1> DEFINE A == [s \in D |-> f[Len(s)][s]]
<1>9. \A s \in D : A[s] = Value(A, s) /\ A[s] \in Nat
  <2> TAKE s \in D
  <2>1. Len(s) \in Nat /\ A[s] = f[Len(s)][s] /\ f[Len(s)] \in S
    BY <1>8, LenProperties
  <2>2. CASE s = <<>>
    <3>1. Len(s) = 0
      BY <2>2, EmptySeq
    <3>2. f[0][s] = 0
      BY <1>8
    <3> QED BY <2>1, <2>2, <3>1, <3>2, <1>4
  <2>3. CASE s # <<>>
    <3>1. Front(s) \in D /\ Len(Front(s)) = Len(s) - 1 /\ Len(s) # 0
      BY <1>5, <2>3
    <3>2. f[Len(s)] = Level(f, Len(s))
      BY <1>8, <2>1
    <3>3. f[Len(s)][s] = Value(f[Len(s) - 1], s)
      BY <3>1, <3>2, <2>1
    <3>4. A[Front(s)] = f[Len(s) - 1][Front(s)]
      BY <3>1
    <3>5. Value(f[Len(s) - 1], s) = Value(A, s)
      <4> HIDE DEF A
      <4> QED BY <3>4, <1>2
    <3> QED BY <2>1, <3>3, <3>5
  <2> QED BY <2>2, <2>3
<1>10. A = [s \in D |-> Value(A, s)]
  <2>1. A = [s \in D |-> A[s]]
    OBVIOUS
  <2> HIDE DEF A
  <2> QED BY <1>9, <2>1
<1>11. Atoi = [s \in D |-> Value(Atoi, s)]
  <2>1. \E g : g = [s \in Seq(Digits) |-> IF s = <<>> THEN 0
                                          ELSE 10 * g[Front(s)] + (Last(s) - 48)]
    <3> HIDE DEF A
    <3> QED BY <1>3, <1>10
  <2>2. Atoi = [s \in Seq(Digits) |-> IF s = <<>> THEN 0
                                      ELSE 10 * Atoi[Front(s)] + (Last(s) - 48)]
    BY <2>1, Zenon DEF Atoi
  <2> QED BY <1>3, <2>2
<1>12. \A s \in D : Atoi[s] = Value(Atoi, s)
  BY <1>11
<1>13. \A s \in D : Atoi[s] \in Nat
  <2> DEFINE Bad == {n \in Nat : \E s \in D : Len(s) = n /\ Atoi[s] \notin Nat}
  <2>1. \A s \in D : Len(s) \in Nat
    BY LenProperties
  <2>2. Bad \subseteq Nat
    OBVIOUS
  <2>3. ASSUME Bad # {} PROVE FALSE
    <3>1. PICK n \in Bad : \A m \in Bad : n <= m
      <4> HIDE DEF Bad
      <4> QED BY <2>2, <2>3, LeastNumber
    <3>2. PICK s \in D : Len(s) = n /\ Atoi[s] \notin Nat
      OBVIOUS
    <3>3. n \in Nat /\ \A t \in D : Len(t) < n => Atoi[t] \in Nat
      <4>1. n \in Nat
        OBVIOUS
      <4>2. ASSUME NEW t \in D, Len(t) < n, Atoi[t] \notin Nat PROVE FALSE
        <5>1. Len(t) \in Bad
          BY <2>1, <4>2
        <5> HIDE DEF Bad
        <5> QED BY <2>1, <3>1, <4>1, <4>2, <5>1
      <4> QED BY <4>1, <4>2
    <3> HIDE DEF Bad
    <3>4. CASE s = <<>>
      BY <3>2, <3>4, <1>4, <1>12
    <3>5. CASE s # <<>>
      <4>1. Atoi[Front(s)] \in Nat
        BY <3>2, <3>3, <3>5, <1>5
      <4>2. Last(s) - 48 \in 0..9
        BY <3>5, LastDigit
      <4>3. 10 * Atoi[Front(s)] + (Last(s) - 48) \in Nat
        <5>1. \A a \in Nat, b \in 0..9 : 10 * a + b \in Nat
          OBVIOUS
        <5> QED BY ONLY <4>1, <4>2, <5>1
      <4>4. Value(Atoi, s) = 10 * Atoi[Front(s)] + (Last(s) - 48)
        BY <3>5 DEF Value
      <4> QED BY <3>2, <4>3, <4>4, <1>12
    <3> QED BY <3>4, <3>5
  <2> QED BY <2>1, <2>3
<1>14. \A s \in D : s # <<>> => Value(Atoi, s) = 10 * Atoi[Front(s)] + (Last(s) - 48)
  BY DEF Value
<1>15. \A s \in D : s = <<>> => Value(Atoi, s) = 0
  BY <1>4
<1> QED BY <1>12, <1>13, <1>14, <1>15

(* The value of one digit,                                                 *)
LEMMA OneDigitNumber ==
    ASSUME NEW d \in Digits
    PROVE  /\ <<d>> \in Seq(Digits) /\ <<d>> # <<>>
           /\ Atoi[<<d>>] = d - 48
<1>1. <<d>> \in Seq(Digits) /\ Len(<<d>>) = 1 /\ <<d>>[1] = d
  OBVIOUS
<1>2. <<d>> # <<>>
  BY <1>1, EmptySeq
<1>3. Last(<<d>>) = d
  BY <1>1 DEF Last
<1>4. Front(<<d>>) = <<>>
  <2>1. SubSeq(<<d>>, 1, 0) = <<>>
    BY SubSeqEmpty
  <2> QED BY <1>1, <2>1 DEF Front
<1>5. Atoi[<<>>] = 0
  BY EmptySeq, AtoiStep
<1>6. Atoi[<<d>>] = 10 * Atoi[Front(<<d>>)] + (Last(<<d>>) - 48)
  BY <1>1, <1>2, AtoiStep, Zenon
<1>7. Atoi[<<d>>] = 10 * 0 + (d - 48)
  BY <1>3, <1>4, <1>5, <1>6, Zenon
<1> QED BY <1>1, <1>2, <1>7 DEF Digits

(* and of a string with one digit more.                                    *)
LEMMA OneMoreDigit ==
    ASSUME NEW s \in Seq(Digits), NEW d \in Digits
    PROVE  /\ Append(s, d) \in Seq(Digits) /\ Append(s, d) # <<>>
           /\ Atoi[Append(s, d)] = 10 * Atoi[s] + (d - 48)
<1>1. Append(s, d) \in Seq(Digits) /\ Append(s, d) # <<>>
  BY AppendProperties
<1>2. Front(Append(s, d)) = s /\ Last(Append(s, d)) = d
  BY AppendProperties, LenProperties DEF Front, Last
<1>3. Atoi[Append(s, d)] = 10 * Atoi[Front(Append(s, d))] + (Last(Append(s, d)) - 48)
  BY <1>1, AtoiStep, Zenon
<1> QED BY <1>1, <1>2, <1>3, Zenon

(* The length that SerializeMessage writes is the length that              *)
(* deserializeMessage reads: strconv.Atoi undoes strconv.Itoa for every    *)
(* number, and the digits are at least one, so that no length is an empty  *)
(* string.                                                                 *)
THEOREM NumberRoundTrip ==
    ASSUME NEW n \in Nat
    PROVE  /\ Itoa[n] \in Seq(Digits) /\ Itoa[n] # <<>>
           /\ Atoi[Itoa[n]] = n
<1> DEFINE Bad == {k \in Nat : Atoi[Itoa[k]] # k}
<1>1. \A k \in Nat : Itoa[k] \in Seq(Digits)
  BY ItoaStep
<1>2. \A k \in Nat : 48 + (k % 10) \in Digits /\ k % 10 \in 0..9
  BY TenParts, OneDigit
<1>3. ASSUME NEW k \in Nat, k < 10
      PROVE  Itoa[k] # <<>> /\ Atoi[Itoa[k]] = k
  <2>1. Itoa[k] = <<48 + k>>
    BY <1>3, ItoaStep, Zenon
  <2>2. PICK d \in Digits : d = 48 + k
    BY <1>3, OneDigit
  <2>3. <<d>> # <<>> /\ Atoi[<<d>>] = d - 48
    BY OneDigitNumber
  <2>4. d - 48 = k
    BY <2>2
  <2> QED BY <2>1, <2>2, <2>3, <2>4
<1>4. ASSUME NEW k \in Nat, k >= 10
      PROVE  Itoa[k] # <<>> /\ Atoi[Itoa[k]] = 10 * Atoi[Itoa[k \div 10]] + (k % 10)
  <2>1. Itoa[k] = Append(Itoa[k \div 10], 48 + (k % 10))
    BY <1>4, ItoaStep, Zenon
  <2>2. PICK d \in Digits : d = 48 + (k % 10)
    BY <1>2
  <2>3. PICK s \in Seq(Digits) : s = Itoa[k \div 10]
    BY <1>1, TenParts
  <2>4. Append(s, d) # <<>> /\ Atoi[Append(s, d)] = 10 * Atoi[s] + (d - 48)
    BY OneMoreDigit
  <2>5. d - 48 = k % 10
    BY <1>2, <2>2
  <2> QED BY <2>1, <2>2, <2>3, <2>4, <2>5, Zenon
<1>5. ASSUME Bad # {} PROVE FALSE
  <2>0. Bad \subseteq Nat
    OBVIOUS
  <2>1. PICK k \in Bad : \A m \in Bad : k <= m
    <3> HIDE DEF Bad
    <3> QED BY <1>5, <2>0, LeastNumber
  <2>2. k \in Nat /\ Atoi[Itoa[k]] # k /\ \A m \in Nat : m < k => Atoi[Itoa[m]] = m
    BY <2>1
  <2> HIDE DEF Bad
  <2>3. k >= 10
    BY <1>3, <2>2
  <2>4. k \div 10 \in Nat /\ k \div 10 < k /\ k = 10 * (k \div 10) + (k % 10)
    BY <2>2, <2>3, TenParts
  <2>5. Atoi[Itoa[k \div 10]] = k \div 10
    BY <2>2, <2>4
  <2>6. Atoi[Itoa[k]] = 10 * (k \div 10) + (k % 10)
    BY <1>4, <2>2, <2>3, <2>5
  <2> QED BY <2>2, <2>4, <2>6
<1>6. \A k \in Nat : Itoa[k] # <<>>
  <2> TAKE k \in Nat
  <2>1. k < 10 \/ k >= 10
    OBVIOUS
  <2> QED BY <1>3, <1>4, <2>1
<1> QED BY <1>1, <1>5, <1>6

-----------------------------------------------------------------------------
(* The delimiter is not a digit, so ReadString stops behind the length and *)
(* not in it.                                                              *)
LEMMA DigitsAreBytes ==
    Seq(Digits) \subseteq Seq(Byte) /\ Digits \subseteq Byte /\ Delimiter \notin Digits
<1>1. Digits \subseteq Byte /\ Delimiter \notin Digits
  BY DEF Digits, Byte, Delimiter
<1> QED BY <1>1

(* The bytes of one sequence and then of another.                          *)
LEMMA Joined ==
    ASSUME NEW S, NEW s \in Seq(S), NEW t \in Seq(S)
    PROVE  /\ s \o t \in Seq(S) /\ Len(s \o t) = Len(s) + Len(t)
           /\ \A i \in 1..Len(s) : (s \o t)[i] = s[i]
           /\ \A i \in 1..Len(t) : (s \o t)[Len(s) + i] = t[i]
BY ConcatProperties, LenProperties

(* The bytes s are the frame of m, of the version v, with d for its        *)
(* length.                                                                 *)
Encodes(s, v, m, d) ==
    /\ s \in Seq(Byte) /\ Len(s) = 3 + Len(d) + Len(m.data)
    /\ d \in Seq(Digits) /\ d # <<>> /\ Len(d) \in Nat \ {0}
    /\ s[1] = v /\ s[2] = m.type /\ s[3 + Len(d)] = Delimiter
    /\ \A i \in 1..Len(d) : s[2 + i] = d[i]
    /\ \A i \in 1..Len(m.data) : s[3 + Len(d) + i] = m.data[i]

(* SerializeMessage, byte by byte.                                         *)
LEMMA FrameBytes ==
    ASSUME NEW v \in Byte, NEW m \in AnyMessage
    PROVE  Encodes(SerializeMessage(v, m), v, m, Itoa[Len(m.data)])
<1> DEFINE d == Itoa[Len(m.data)]
           t == m.data
<1>1. t \in Seq(Byte) /\ Len(t) \in Nat /\ m.type \in 1..LastType
  BY DEF AnyMessage
<1>2. d \in Seq(Digits) /\ d # <<>>
  BY <1>1, NumberRoundTrip
<1>3. d \in Seq(Byte) /\ Len(d) \in Nat \ {0}
  BY <1>2, DigitsAreBytes, EmptySeq
<1>4. m.type \in Byte /\ Delimiter \in Byte
  <2>1. \A n \in 1..LastType : n \in Byte
    BY FramingAssumption DEF Byte
  <2>2. Delimiter \in Byte
    BY DEF Byte, Delimiter
  <2> QED BY <1>1, <2>1, <2>2
<1> HIDE DEF d, t
<1> DEFINE h == <<v, m.type>>
           e == <<Delimiter>>
<1>5. h \in Seq(Byte) /\ Len(h) = 2 /\ h[1] = v /\ h[2] = m.type
  BY <1>4
<1>6. e \in Seq(Byte) /\ Len(e) = 1 /\ e[1] = Delimiter
  BY <1>4
<1>7. SerializeMessage(v, m) = ((h \o d) \o e) \o t
  BY DEF SerializeMessage, d, t
<1> HIDE DEF h, e
<1> DEFINE x == h \o d
<1>8. /\ x \in Seq(Byte) /\ Len(x) = 2 + Len(d) /\ x[1] = v /\ x[2] = m.type
      /\ \A i \in 1..Len(d) : x[2 + i] = d[i]
  BY <1>3, <1>5, Joined
<1> HIDE DEF x
<1> DEFINE y == x \o e
<1>9. /\ y \in Seq(Byte) /\ Len(y) = 3 + Len(d) /\ y[1] = v /\ y[2] = m.type
      /\ \A i \in 1..Len(d) : y[2 + i] = d[i]
      /\ y[3 + Len(d)] = Delimiter
  <2>1. /\ x \o e \in Seq(Byte) /\ Len(x \o e) = Len(x) + 1
        /\ \A i \in 1..Len(x) : (x \o e)[i] = x[i]
        /\ \A i \in 1..1 : (x \o e)[Len(x) + i] = e[i]
    BY <1>6, <1>8, Joined
  <2>2. (x \o e)[Len(x) + 1] = Delimiter
    BY <1>6, <2>1
  <2>3. 1 \in 1..Len(x) /\ 2 \in 1..Len(x) /\ \A i \in 1..Len(d) : 2 + i \in 1..Len(x)
    BY <1>3, <1>8
  <2> QED BY <1>3, <1>8, <2>1, <2>2, <2>3
<1> HIDE DEF y
<1> DEFINE z == y \o t
<1>10. /\ z \in Seq(Byte) /\ Len(z) = 3 + Len(d) + Len(t) /\ z[1] = v /\ z[2] = m.type
       /\ \A i \in 1..Len(d) : z[2 + i] = d[i]
       /\ z[3 + Len(d)] = Delimiter
       /\ \A i \in 1..Len(t) : z[3 + Len(d) + i] = t[i]
  <2>1. /\ y \o t \in Seq(Byte) /\ Len(y \o t) = Len(y) + Len(t)
        /\ \A i \in 1..Len(y) : (y \o t)[i] = y[i]
        /\ \A i \in 1..Len(t) : (y \o t)[Len(y) + i] = t[i]
    <3>1. y \in Seq(Byte) /\ t \in Seq(Byte)
      BY <1>1, <1>9
    <3> HIDE DEF z
    <3> QED BY ONLY <3>1, Joined
  <2>2. /\ 1 \in 1..Len(y) /\ 2 \in 1..Len(y) /\ 3 + Len(d) \in 1..Len(y)
        /\ \A i \in 1..Len(d) : 2 + i \in 1..Len(y)
    BY <1>3, <1>9
  <2> QED BY <1>9, <2>1, <2>2
<1>11. SerializeMessage(v, m) = z
  BY <1>7 DEF x, y
<1> HIDE DEF z
<1>12. Encodes(z, v, m, d)
  <2>1. Len(m.data) = Len(t) /\ \A i \in 1..Len(t) : m.data[i] = t[i]
    BY DEF t
  <2> QED BY <1>2, <1>3, <1>10, <2>1 DEF Encodes
<1> QED BY <1>11, <1>12 DEF d

(* Atoi's error is the one of a string that is not of digits.              *)
LEMMA Numbers ==
    ASSUME NEW s \in Seq(Byte)
    PROVE  IsNumber(s) <=> s \in Seq(Digits) /\ s # <<>>
<1>1. ASSUME IsNumber(s) PROVE s \in Seq(Digits) /\ s # <<>>
  <2>1. \A i \in 1..Len(s) : s[i] \in Digits
    BY <1>1 DEF IsNumber
  <2>2. s # <<>>
    BY <1>1 DEF IsNumber
  <2> QED BY <2>1, <2>2
<1>2. ASSUME s \in Seq(Digits), s # <<>> PROVE IsNumber(s)
  BY <1>2 DEF IsNumber
<1> QED BY <1>1, <1>2

(* deserializeMessage before it has read anything.                         *)
LEMMA StartTypes == Start \in AnyFrame /\ Start.at = "version"
<1>1. <<>> \in Seq(Byte) /\ 0 \in Nat /\ 0 \in 0..LastType
  BY EmptySeq, FramingAssumption
<1> QED BY <1>1 DEF Start, AnyFrame

(* What a peer of any version sends has a type and a body.                 *)
LEMMA MessagesAreTyped == Messages \subseteq AnyMessage /\ OtherMessages \subseteq AnyMessage
BY FramingAssumption DEF AnyMessage

(* The byte that is read, and the ones after it.                           *)
LEMMA NextByteType ==
    ASSUME stream \in Seq(Byte), stream # <<>>
    PROVE  byte \in Byte /\ Tail(stream) \in Seq(Byte)
BY HeadTailProperties DEF byte

(* Every step keeps the types.                                             *)
LEMMA TypeStep == TypeInv /\ [Next]_vars => TypeInv'
<1> SUFFICES ASSUME TypeInv, [Next]_vars PROVE TypeInv'
  OBVIOUS
<1> USE DEF TypeInv
<1>1. ASSUME NEW w \in Writers, NEW m \in Messages \cup OtherMessages, SendMessage(w, m)
      PROVE  TypeInv'
  <2>1. m \in AnyMessage
    BY MessagesAreTyped
  <2>2. version \in Byte
    BY FramingAssumption DEF SenderTypes
  <2>3. SerializeMessage(version, m) \in Seq(Byte)
    BY <2>1, <2>2, FrameBytes DEF Encodes
  <2>4. SerializeMessage(version, m) \o rest \in Seq(Byte)
    BY <2>3 DEF SenderTypes
  <2>5. Append(sent, m) \in Seq(AnyMessage) /\ Len(Append(sent, m)) = Len(sent) + 1
    BY <2>1 DEF SenderTypes
  <2>6. version = Version => Append(sent, m) \in Seq(Messages)
    BY <1>1 DEF SenderTypes, SendMessage
  <2>7. Len(sent) + 1 <= MaxMessages
    BY <1>1, FramingAssumption DEF SendMessage, SenderTypes
  <2>8. w # Nobody
    BY FramingAssumption
  <2>9. SenderTypes'
    BY <1>1, <2>4, <2>5, <2>6, <2>7, <2>8 DEF SenderTypes, SendMessage
  <2> QED BY <1>1, <2>9 DEF ReaderTypes, SendMessage, readerVars
<1>2. CASE WriteSome
  <2>1. PICK i \in 1..Len(rest) :
            /\ stream' = stream \o SubSeq(rest, 1, i)
            /\ rest' = SubSeq(rest, i + 1, Len(rest))
            /\ writer' = IF i = Len(rest) THEN Nobody ELSE writer
    BY <1>2 DEF WriteSome
  <2>2. SubSeq(rest, 1, i) \in Seq(Byte) /\ SubSeq(rest, i + 1, Len(rest)) \in Seq(Byte)
    BY DEF SenderTypes
  <2>3. i = Len(rest) => SubSeq(rest, i + 1, Len(rest)) = <<>>
    BY SubSeqEmpty DEF SenderTypes
  <2>4. stream \o SubSeq(rest, 1, i) \in Seq(Byte)
    BY <2>2 DEF SenderTypes
  <2>5. writer # Nobody
    BY <1>2 DEF WriteSome
  <2>6. SenderTypes'
    BY <1>2, <2>1, <2>2, <2>3, <2>4, <2>5 DEF SenderTypes, WriteSome
  <2> QED BY <1>2, <2>6 DEF ReaderTypes, WriteSome, readerVars
<1>3. CASE Cut
  <2>1. PICK i \in 0..Len(stream) : stream' = SubSeq(stream, 1, i)
    BY <1>3 DEF Cut
  <2>2. stream' \in Seq(Byte)
    BY <2>1 DEF SenderTypes
  <2>3. <<>> \in Seq(Byte)
    BY EmptySeq
  <2>4. SenderTypes'
    BY <1>3, <2>2, <2>3 DEF SenderTypes, Cut
  <2> QED BY <1>3, <2>4 DEF ReaderTypes, Cut, readerVars
<1>4. ASSUME stream # <<>>, TakeByte PROVE SenderTypes'
  <2>1. stream' \in Seq(Byte)
    BY <1>4, NextByteType DEF TakeByte, SenderTypes
  <2> QED BY <1>4, <2>1 DEF SenderTypes, TakeByte, senderVars
<1>5. CASE ReadVersion
  <2>1. SenderTypes'
    BY <1>4, <1>5 DEF ReadVersion, Reads
  <2>2. ReaderTypes'
    <3>1. frame = Start
      BY <1>5 DEF ReadVersion, Reads, ReaderTypes
    <3>2. [Start EXCEPT !.at = "type"] \in AnyFrame /\ [Start EXCEPT !.at = "type"].at = "type"
      BY StartTypes DEF AnyFrame
    <3> QED BY <1>5, <3>1, <3>2, StartTypes DEF ReadVersion, Reads, Keep, Fail, ReaderTypes
  <2> QED BY <2>1, <2>2
<1>6. CASE ReadType
  <2>1. SenderTypes'
    BY <1>4, <1>6 DEF ReadType, Reads
  <2>2. ReaderTypes'
    <3>1. CASE IsValidTunnelMessageType(byte)
      <4> DEFINE f == [frame EXCEPT !.at = "length", !.type = byte]
      <4>1. byte \in 1..LastType /\ byte \in 0..LastType
        BY <3>1, FramingAssumption DEF IsValidTunnelMessageType
      <4>2. frame \in AnyFrame /\ frame.data = <<>>
        BY <1>6 DEF ReadType, Reads, ReaderTypes, Start
      <4>3. f \in AnyFrame /\ f.at = "length" /\ f.type \in 1..LastType /\ f.data = <<>>
        BY <4>1, <4>2 DEF AnyFrame
      <4>4. Keep(f)
        BY <1>6, <3>1 DEF ReadType
      <4> HIDE DEF f
      <4> QED BY <4>3, <4>4 DEF Keep, ReaderTypes
    <3>2. CASE ~IsValidTunnelMessageType(byte)
      BY <1>6, <3>2, StartTypes DEF ReadType, Reads, Fail, ReaderTypes
    <3> QED BY <3>1, <3>2
  <2> QED BY <2>1, <2>2
<1>7. CASE ReadLength
  <2>1. SenderTypes'
    BY <1>4, <1>7 DEF ReadLength, Reads
  <2>0. /\ frame \in AnyFrame /\ frame.at = "length" /\ frame.type \in 1..LastType
        /\ frame.data = <<>> /\ frame.digits \in Seq(Byte)
    BY <1>7 DEF ReadLength, Reads, ReaderTypes, AnyFrame
  <2>2. ReaderTypes'
    <3>1. CASE byte # Delimiter
      <4> DEFINE f == [frame EXCEPT !.digits = Append(@, byte)]
      <4>1. byte \in Byte
        BY <1>7, NextByteType DEF ReadLength, Reads, SenderTypes
      <4>2. Append(frame.digits, byte) \in Seq(Byte)
        BY <2>0, <4>1, AppendProperties
      <4>3. f \in AnyFrame /\ f.at = "length" /\ f.type \in 1..LastType /\ f.data = <<>>
        BY <2>0, <4>2 DEF AnyFrame
      <4>4. Keep(f)
        BY <1>7, <3>1 DEF ReadLength
      <4> HIDE DEF f
      <4> QED BY <4>3, <4>4 DEF Keep, ReaderTypes
    <3>2. CASE byte = Delimiter /\ ~IsNumber(frame.digits)
      BY <1>7, <3>2, StartTypes DEF ReadLength, Fail, ReaderTypes
    <3>3. CASE byte = Delimiter /\ IsNumber(frame.digits)
      <4>1. frame.digits \in Seq(Digits)
        BY <2>0, <3>3, Numbers
      <4>2. LengthOf(frame.digits) \in Nat
        BY <4>1, AtoiStep DEF LengthOf
      <4>3. CASE LengthOf(frame.digits) = 0
        <5> DEFINE m == [type |-> frame.type, data |-> <<>>]
        <5>1. m \in AnyMessage
          BY <2>0, EmptySeq DEF AnyMessage
        <5>2. Return(m)
          BY <1>7, <3>3, <4>3 DEF ReadLength
        <5> HIDE DEF m
        <5>3. Append(received, m) \in Seq(AnyMessage)
          BY <5>1, AppendProperties DEF ReaderTypes
        <5> QED BY <5>2, <5>3, StartTypes DEF Return, ReaderTypes
      <4>4. CASE LengthOf(frame.digits) # 0
        <5> DEFINE f == [frame EXCEPT !.at = "data", !.left = LengthOf(frame.digits)]
        <5>1. Keep(f)
          BY <1>7, <3>3, <4>4 DEF ReadLength
        <5>2. f \in AnyFrame /\ f.at = "data" /\ f.type \in 1..LastType
          BY <2>0, <4>2 DEF AnyFrame
        <5>3. f.left = Atoi[frame.digits] /\ f.digits = frame.digits /\ f.data = <<>>
          BY <2>0 DEF LengthOf, AnyFrame
        <5>4. f.left > 0 /\ f.left + Len(f.data) = Atoi[f.digits]
          <6>1. Len(f.data) = 0
            BY <5>3
          <6>2. Atoi[frame.digits] \in Nat /\ Atoi[frame.digits] # 0
            BY <4>2, <4>4 DEF LengthOf
          <6> HIDE DEF f
          <6> QED BY <5>3, <6>1, <6>2
        <5> HIDE DEF f
        <5> QED BY <5>1, <5>2, <5>4 DEF Keep, ReaderTypes
      <4> QED BY <4>3, <4>4
    <3> QED BY <3>1, <3>2, <3>3
  <2> QED BY <2>1, <2>2
<1>8. CASE ReadData
  <2>1. SenderTypes'
    BY <1>4, <1>8 DEF ReadData, Reads
  <2>0. /\ frame \in AnyFrame /\ frame.at = "data" /\ frame.type \in 1..LastType
        /\ frame.data \in Seq(Byte) /\ frame.left \in Nat /\ frame.left > 0
        /\ frame.left + Len(frame.data) = Atoi[frame.digits]
    BY <1>8 DEF ReadData, Reads, ReaderTypes, AnyFrame
  <2>2. byte \in Byte
    BY <1>8, NextByteType DEF ReadData, Reads, SenderTypes
  <2>3. Append(frame.data, byte) \in Seq(Byte) /\ Len(Append(frame.data, byte)) = Len(frame.data) + 1
    BY <2>0, <2>2, AppendProperties
  <2>4. CASE frame.left = 1
    <3> DEFINE m == [type |-> frame.type, data |-> Append(frame.data, byte)]
    <3>1. m \in AnyMessage
      BY <2>0, <2>3 DEF AnyMessage
    <3>2. Return(m)
      BY <1>8, <2>4 DEF ReadData
    <3> HIDE DEF m
    <3>3. Append(received, m) \in Seq(AnyMessage)
      BY <3>1, AppendProperties DEF ReaderTypes
    <3> QED BY <2>1, <3>2, <3>3, StartTypes DEF Return, ReaderTypes
  <2>5. CASE frame.left # 1
    <3> DEFINE f == [frame EXCEPT !.left = @ - 1, !.data = Append(@, byte)]
    <3>1. Keep(f)
      BY <1>8, <2>5 DEF ReadData
    <3>0. frame.left - 1 \in Nat
      BY <2>0
    <3>2. f \in AnyFrame /\ f.at = "data" /\ f.type \in 1..LastType
      BY <2>0, <2>3, <3>0 DEF AnyFrame
    <3>3. f.left = frame.left - 1 /\ f.digits = frame.digits /\ f.data = Append(frame.data, byte)
      BY <2>0 DEF AnyFrame
    <3> HIDE DEF f
    <3>4. f.left > 0 /\ f.left + Len(f.data) = Atoi[f.digits]
      BY <2>0, <2>3, <2>5, <3>3
    <3> QED BY <2>1, <3>1, <3>2, <3>4 DEF Keep, ReaderTypes
  <2> QED BY <2>4, <2>5
<1>9. CASE ReadEOF
  BY <1>9, StartTypes DEF ReadEOF, senderVars, SenderTypes, ReaderTypes
<1>10. CASE UNCHANGED vars
  BY <1>10 DEF vars, SenderTypes, ReaderTypes
<1> QED BY <1>1, <1>2, <1>3, <1>5, <1>6, <1>7, <1>8, <1>9, <1>10 DEF Next, ReadByte

(* They hold before the first.                                             *)
LEMMA TypeInit == Init => TypeInv
<1> SUFFICES ASSUME Init PROVE TypeInv
  OBVIOUS
<1>1. <<>> \in Seq(Byte) /\ <<>> \in Seq(AnyMessage) /\ <<>> \in Seq(Messages) /\ Len(<<>>) = 0
  BY EmptySeq
<1>2. SenderTypes
  <2>1. 0 <= MaxMessages
    BY FramingAssumption
  <2> QED BY <1>1, <2>1 DEF Init, SenderTypes
<1> QED BY <1>1, <1>2, StartTypes DEF Init, ReaderTypes, TypeInv

-----------------------------------------------------------------------------
(* What a read byte may make of the message m that the reader is in: one   *)
(* byte more of it is read,                                                *)
Keeps(m) ==
    /\ received' = received
    /\ frame'.at # "version" /\ Partial(frame', m)
    /\ Consumed(frame') = Consumed(frame) + 1
(* or it was the last one and the message is returned.                     *)
Completes(m) ==
    /\ received' = Append(received, m)
    /\ frame' = Start
    /\ Consumed(frame) + 1 = Len(FrameOf(m))
(* An error is neither.                                                    *)
Goes(m) == (Keeps(m) \/ Completes(m)) /\ UNCHANGED <<reader, misread>>

(* The beginning of a frame is shorter than the frame.                     *)
LEMMA InFrame ==
    ASSUME TypeInv, NEW m \in AnyMessage, frame.at # "version" => Partial(frame, m)
    PROVE  Consumed(frame) \in Nat /\ Consumed(frame) < Len(FrameOf(m))
<1> DEFINE d == Itoa[Len(m.data)]
<1>1. Version \in Byte
  BY FramingAssumption
<1>2. Len(FrameOf(m)) = 3 + Len(d) + Len(m.data) /\ Len(d) \in Nat \ {0}
  BY <1>1, FrameBytes DEF FrameOf, Encodes
<1>3. Len(m.data) \in Nat
  BY DEF AnyMessage
<1>4. frame.at \in {"version", "type", "length", "data"}
  BY DEF TypeInv, ReaderTypes, AnyFrame
<1>8. PICK x \in Nat, y \in Nat : x = Len(d) /\ x > 0 /\ y = Len(m.data)
  BY <1>2, <1>3
<1>9. Len(FrameOf(m)) = 3 + x + y
  BY <1>2, <1>8
<1> HIDE DEF d
<1>5. CASE frame.at = "version" \/ frame.at = "type"
  <2>1. Consumed(frame) \in {0, 1}
    BY <1>5 DEF Consumed
  <2> QED BY <1>9, <2>1
<1>6. CASE frame.at = "length"
  <2>1. Len(frame.digits) \in Nat
    BY DEF TypeInv, ReaderTypes, AnyFrame
  <2>2. Len(frame.digits) <= Len(d)
    BY <1>6 DEF Partial, d
  <2>3. PICK k \in Nat : k = Len(frame.digits) /\ k <= x
    BY <1>8, <2>1, <2>2
  <2>4. Consumed(frame) = 2 + k
    BY <1>6, <2>3 DEF Consumed
  <2> QED BY <1>9, <2>3, <2>4
<1>7. CASE frame.at = "data"
  <2>1. Len(frame.data) \in Nat /\ frame.left \in Nat /\ frame.left > 0
    BY <1>7 DEF TypeInv, ReaderTypes, AnyFrame
  <2>2. frame.digits = d /\ frame.left = Len(m.data) - Len(frame.data)
    BY <1>7 DEF Partial, d
  <2>5. PICK k \in Nat, n \in Nat : k = Len(frame.data) /\ n = frame.left /\ n > 0
    BY <2>1
  <2>6. n = y - k
    BY <1>8, <2>2, <2>5
  <2>3. k < y
    BY <2>5, <2>6
  <2>4. Consumed(frame) = 3 + x + k
    BY <1>7, <1>8, <2>2, <2>5 DEF Consumed
  <2> QED BY <1>9, <2>3, <2>4
<1> QED BY <1>4, <1>5, <1>6, <1>7

(* Sequences with the same bytes are the same.                             *)
LEMMA SameSeq ==
    ASSUME NEW S, NEW T, NEW s \in Seq(S), NEW t \in Seq(T), Len(s) = Len(t),
           \A i \in 1..Len(s) : s[i] = t[i]
    PROVE  s = t
OBVIOUS

(* If the byte is the next of the frame of m the reader goes on in m,      *)
(* whether it is the version, the type, a digit, the delimiter or one of   *)
(* the body, which may be empty.                                           *)
LEMMA ReaderGoesOn ==
    ASSUME TypeInv, NEW m \in AnyMessage, frame.at # "version" => Partial(frame, m),
           ReadByte, byte = FrameOf(m)[Consumed(frame) + 1]
    PROVE  Goes(m)
<1> DEFINE d == Itoa[Len(m.data)]
           s == FrameOf(m)
<1>1. Version \in Byte
  BY FramingAssumption
<1>2. /\ Len(s) = 3 + Len(d) + Len(m.data) /\ d \in Seq(Digits) /\ Len(d) \in Nat \ {0}
      /\ s[1] = Version /\ s[2] = m.type /\ s[3 + Len(d)] = Delimiter
      /\ \A i \in 1..Len(d) : s[2 + i] = d[i]
      /\ \A i \in 1..Len(m.data) : s[3 + Len(d) + i] = m.data[i]
  <2>1. Encodes(s, Version, m, d)
    BY <1>1, FrameBytes DEF FrameOf
  <2> HIDE DEF d, s
  <2> QED BY <2>1 DEF Encodes
<1>3. m.data \in Seq(Byte) /\ Len(m.data) \in Nat /\ m.type \in 1..LastType
      /\ m = [type |-> m.type, data |-> m.data]
  BY DEF AnyMessage
<1>4. byte = s[Consumed(frame) + 1]
  OBVIOUS
<1>5. d # <<>> /\ Atoi[d] = Len(m.data)
  BY <1>3, NumberRoundTrip
<1> HIDE DEF d, s
<1>6. CASE ReadVersion
  <2>1. frame.at = "version" /\ frame = Start
    BY <1>6 DEF ReadVersion, Reads, TypeInv, ReaderTypes
  <2>0. Consumed(frame) = 0
    BY <2>1 DEF Consumed
  <2>2. byte = Version
    <3>1. Consumed(frame) + 1 = 1
      BY <2>0
    <3> QED BY <1>2, <1>4, <3>1, Zenon
  <2>3. Keep([frame EXCEPT !.at = "type"])
    BY <1>6, <2>2 DEF ReadVersion
  <2>4. frame'.at = "type"
    BY <2>1, <2>3 DEF Keep, Start
  <2>5. Consumed(frame) = 0 /\ Consumed(frame') = 1
    BY <2>1, <2>4 DEF Consumed
  <2>6. Partial(frame', m)
    BY <2>4 DEF Partial
  <2> QED BY <2>3, <2>4, <2>5, <2>6 DEF Keep, Goes, Keeps
<1>7. CASE ReadType
  <2>1. frame.at = "type" /\ frame = [Start EXCEPT !.at = "type"]
    BY <1>7 DEF ReadType, Reads, TypeInv, ReaderTypes
  <2>0. Consumed(frame) = 1
    BY <2>1 DEF Consumed
  <2>2. Consumed(frame) = 1 /\ byte = m.type
    <3>1. Consumed(frame) + 1 = 2
      BY <2>0
    <3> QED BY <1>2, <1>4, <2>0, <3>1, Zenon
  <2>3. Keep([frame EXCEPT !.at = "length", !.type = byte])
    BY <1>3, <1>7, <2>2 DEF ReadType, IsValidTunnelMessageType
  <2>4. frame'.at = "length" /\ frame'.type = m.type /\ frame'.digits = <<>>
    BY <2>1, <2>2, <2>3 DEF Keep, Start
  <2>5. Len(frame'.digits) = 0
    BY <2>4
  <2>6. Consumed(frame') = 2
    BY <2>4, <2>5 DEF Consumed
  <2>7. Partial(frame', m)
    BY <1>2, <2>4, <2>5 DEF Partial, d
  <2> QED BY <2>2, <2>3, <2>4, <2>6, <2>7 DEF Keep, Goes, Keeps
<1>8. CASE ReadLength
  <2> DEFINE k == Len(frame.digits)
  <2>1. /\ frame.at = "length" /\ frame \in AnyFrame /\ frame.digits \in Seq(Byte)
        /\ k \in Nat /\ frame.data = <<>>
    BY <1>8 DEF ReadLength, Reads, TypeInv, ReaderTypes, AnyFrame
  <2>2. /\ frame.type = m.type /\ k <= Len(d)
        /\ \A i \in 1..k : frame.digits[i] = d[i]
    BY <2>1 DEF Partial, d
  <2>3. Consumed(frame) = 2 + k
    BY <2>1 DEF Consumed
  <2> HIDE DEF k
  <2>4. CASE k < Len(d)
    <3>1. k + 1 \in 1..Len(d) /\ Consumed(frame) + 1 = 2 + (k + 1)
      BY <1>2, <2>1, <2>3, <2>4
    <3>2. byte = d[k + 1] /\ byte \in Digits
      <4>1. s[2 + (k + 1)] = d[k + 1] /\ d[k + 1] \in Digits
        BY <1>2, <3>1, ElementOfSeq
      <4> QED BY <1>4, <3>1, <4>1
    <3>3. byte # Delimiter /\ byte \in Byte
      BY <3>2, DigitsAreBytes
    <3>4. Keep([frame EXCEPT !.digits = Append(@, byte)])
      BY <1>8, <3>3 DEF ReadLength
    <3>5. /\ frame'.at = "length" /\ frame'.type = m.type
          /\ frame'.digits = Append(frame.digits, byte)
      BY <2>1, <2>2, <3>4 DEF Keep, AnyFrame
    <3>6. /\ Len(frame'.digits) = k + 1
          /\ \A i \in 1..k : frame'.digits[i] = frame.digits[i]
          /\ frame'.digits[k + 1] = byte
      BY <2>1, <3>3, <3>5, AppendProperties DEF k
    <3>7. Partial(frame', m)
      <4>1. \A i \in 1..(k + 1) : frame'.digits[i] = d[i]
        BY <2>1, <2>2, <3>2, <3>6
      <4> QED BY <3>1, <3>5, <3>6, <4>1 DEF Partial, d
    <3>8. Consumed(frame') = 2 + (k + 1)
      BY <3>5, <3>6 DEF Consumed
    <3> QED BY <2>1, <2>3, <3>4, <3>5, <3>7, <3>8 DEF Keep, Goes, Keeps
  <2>5. CASE k = Len(d)
    <3>1. byte = Delimiter
      <4>1. Consumed(frame) + 1 = 3 + Len(d)
        BY <1>2, <2>3, <2>5
      <4> QED BY <1>2, <1>4, <4>1
    <3>2. frame.digits = d
      <4>1. Len(frame.digits) = Len(d) /\ \A i \in 1..Len(frame.digits) : frame.digits[i] = d[i]
        BY <2>2, <2>5 DEF k
      <4> QED BY <1>2, <2>1, <4>1, SameSeq
    <3>3. IsNumber(frame.digits) /\ LengthOf(frame.digits) = Len(m.data)
      BY <1>2, <1>5, <2>1, <3>2, Numbers DEF LengthOf
    <3>4. CASE Len(m.data) = 0
      <4>1. Return([type |-> frame.type, data |-> <<>>])
        BY <1>8, <3>1, <3>3, <3>4 DEF ReadLength
      <4>2. m.data = <<>>
        BY <1>3, <3>4, EmptySeq
      <4>3. m = [type |-> frame.type, data |-> <<>>]
        BY <1>3, <2>2, <4>2
      <4>4. Consumed(frame) + 1 = Len(s)
        BY <1>2, <2>3, <2>5, <3>4
      <4> QED BY <4>1, <4>3, <4>4 DEF Return, Goes, Completes, s
    <3>5. CASE Len(m.data) # 0
      <4>1. Keep([frame EXCEPT !.at = "data", !.left = Len(m.data)])
        BY <1>8, <3>1, <3>3, <3>5 DEF ReadLength
      <4>2. /\ frame'.at = "data" /\ frame'.type = m.type /\ frame'.digits = d
            /\ frame'.data = <<>> /\ frame'.left = Len(m.data)
        BY <2>1, <2>2, <3>2, <4>1 DEF Keep, AnyFrame
      <4>3. Len(frame'.data) = 0 /\ Len(frame'.digits) = Len(d)
        BY <4>2
      <4>4. Consumed(frame') = 3 + Len(d) + 0
        BY <4>2, <4>3 DEF Consumed
      <4>5. Partial(frame', m)
        <5>1. frame'.left = Len(m.data) - Len(frame'.data)
          BY <1>3, <4>2, <4>3
        <5> QED BY <4>2, <4>3, <5>1 DEF Partial, d
      <4>6. Consumed(frame') = Consumed(frame) + 1
        BY <1>2, <2>3, <2>5, <4>4
      <4> QED BY <4>1, <4>2, <4>5, <4>6 DEF Keep, Goes, Keeps
    <3> QED BY <3>4, <3>5
  <2> QED BY <1>2, <2>1, <2>2, <2>4, <2>5
<1>9. CASE ReadData
  <2> DEFINE k == Len(frame.data)
  <2>1. /\ frame.at = "data" /\ frame \in AnyFrame /\ frame.data \in Seq(Byte) /\ k \in Nat
        /\ frame.left \in Nat /\ frame.left > 0
    BY <1>9 DEF ReadData, Reads, TypeInv, ReaderTypes, AnyFrame
  <2>2. /\ frame.type = m.type /\ frame.digits = d /\ frame.left = Len(m.data) - k
        /\ \A i \in 1..k : frame.data[i] = m.data[i]
    BY <2>1 DEF Partial, d
  <2>3. Consumed(frame) = 3 + Len(d) + k
    BY <2>1, <2>2 DEF Consumed
  <2> HIDE DEF k
  <2>4. k + 1 \in 1..Len(m.data)
    BY <1>3, <2>1, <2>2
  <2>5. byte = m.data[k + 1] /\ byte \in Byte
    <3>1. Consumed(frame) + 1 = 3 + Len(d) + (k + 1)
      BY <1>2, <2>1, <2>3
    <3> QED BY <1>2, <1>3, <1>4, <2>4, <3>1
  <2> DEFINE a == Append(frame.data, byte)
  <2>6. /\ a \in Seq(Byte) /\ Len(a) = k + 1 /\ a[k + 1] = byte
        /\ \A i \in 1..k : a[i] = frame.data[i]
    BY <2>1, <2>5, AppendProperties DEF k
  <2> HIDE DEF a
  <2>7. \A i \in 1..(k + 1) : a[i] = m.data[i]
    BY <2>1, <2>2, <2>5, <2>6
  <2>8. CASE frame.left = 1
    <3>1. Return([type |-> frame.type, data |-> a])
      BY <1>9, <2>8 DEF ReadData, a
    <3>2. Len(m.data) = k + 1
      BY <1>3, <2>1, <2>2, <2>8
    <3>3. a = m.data
      BY <1>3, <2>6, <2>7, <3>2, SameSeq
    <3>4. m = [type |-> frame.type, data |-> a]
      BY <1>3, <2>2, <3>3
    <3>5. Consumed(frame) + 1 = Len(s)
      BY <1>2, <2>1, <2>3, <3>2
    <3> QED BY <3>1, <3>4, <3>5 DEF Return, Goes, Completes, s
  <2>9. CASE frame.left # 1
    <3>1. Keep([frame EXCEPT !.left = @ - 1, !.data = a])
      BY <1>9, <2>9 DEF ReadData, a
    <3>2. /\ frame'.at = "data" /\ frame'.type = m.type /\ frame'.digits = d
          /\ frame'.data = a /\ frame'.left = frame.left - 1
      BY <2>1, <2>2, <3>1 DEF Keep, AnyFrame
    <3>3. Consumed(frame') = 3 + Len(d) + (k + 1)
      BY <2>6, <3>2 DEF Consumed
    <3>4. Partial(frame', m)
      <4>1. frame'.left = Len(m.data) - Len(frame'.data)
        <5>1. Len(frame'.data) = k + 1
          BY <2>6, <3>2
        <5> QED BY <1>3, <2>1, <2>2, <3>2, <5>1
      <4> QED BY <2>6, <2>7, <3>2, <4>1 DEF Partial, d
    <3>5. Consumed(frame') = Consumed(frame) + 1
      BY <1>2, <2>1, <2>3, <3>3
    <3> QED BY <3>1, <3>2, <3>4, <3>5 DEF Keep, Goes, Keeps
  <2> QED BY <2>8, <2>9
<1> QED BY <1>6, <1>7, <1>8, <1>9 DEF ReadByte

-----------------------------------------------------------------------------
(* The next byte is the first of those on their way.                       *)
LEMMA PipeType ==
    ASSUME SenderTypes
    PROVE  /\ Pipe \in Seq(Byte) /\ Len(Pipe) \in Nat /\ Len(Pipe) = Len(stream) + Len(rest)
           /\ \A i \in 1..Len(stream) : Pipe[i] = stream[i]
           /\ stream # <<>> => Len(Pipe) > 0 /\ Pipe[1] = byte
<1>1. stream \in Seq(Byte) /\ rest \in Seq(Byte)
  BY DEF SenderTypes
<1>2. /\ Pipe \in Seq(Byte) /\ Len(Pipe) = Len(stream) + Len(rest)
      /\ \A i \in 1..Len(stream) : Pipe[i] = stream[i]
  BY ONLY <1>1, Joined DEF Pipe
<1>3. Len(stream) \in Nat /\ Len(rest) \in Nat /\ Len(Pipe) \in Nat
  BY <1>1, <1>2
<1>4. ASSUME stream # <<>> PROVE Len(stream) > 0 /\ Head(stream) = stream[1]
  BY <1>1, <1>4
<1>5. stream # <<>> => Len(Pipe) > 0 /\ Pipe[1] = byte
  BY <1>2, <1>3, <1>4 DEF byte
<1> QED BY <1>2, <1>3, <1>5

(* Reading takes it away,                                                  *)
LEMMA PipeAfterByte ==
    ASSUME SenderTypes, SenderTypes', stream # <<>>, TakeByte
    PROVE  /\ Len(Pipe') = Len(Pipe) - 1
           /\ \A i \in 1..Len(Pipe') : Pipe'[i] = Pipe[i + 1]
<1>1. stream \in Seq(Byte) /\ rest \in Seq(Byte) /\ stream' = Tail(stream) /\ rest' = rest
  BY DEF SenderTypes, TakeByte, senderVars
<1>2. Tail(stream) \in Seq(Byte) /\ Len(Tail(stream)) = Len(stream) - 1
      /\ \A i \in 1..Len(Tail(stream)) : Tail(stream)[i] = stream[i + 1]
  BY <1>1, HeadTailProperties
<1>3. PICK t \in Seq(Byte) : t = Tail(stream)
  BY <1>2
<1>4. PICK x \in Nat, y \in Nat : x + 1 = Len(stream) /\ x = Len(t) /\ y = Len(rest)
  <2>1. Len(t) \in Nat /\ Len(rest) \in Nat /\ Len(t) + 1 = Len(stream)
    BY <1>1, <1>2, <1>3
  <2> QED BY <2>1
<1>5. /\ Len(t \o rest) = x + y
      /\ \A i \in 1..x : (t \o rest)[i] = t[i]
      /\ \A i \in 1..y : (t \o rest)[x + i] = rest[i]
  BY <1>1, <1>4, Joined
<1>6. /\ Len(stream \o rest) = x + 1 + y
      /\ \A i \in 1..(x + 1) : (stream \o rest)[i] = stream[i]
      /\ \A i \in 1..y : (stream \o rest)[x + 1 + i] = rest[i]
  <2>1. /\ Len(stream \o rest) = Len(stream) + Len(rest)
        /\ \A i \in 1..Len(stream) : (stream \o rest)[i] = stream[i]
        /\ \A i \in 1..Len(rest) : (stream \o rest)[Len(stream) + i] = rest[i]
    BY ONLY <1>1, Joined
  <2>2. Len(stream) = x + 1 /\ Len(rest) = y
    BY <1>4
  <2> QED BY ONLY <2>1, <2>2, Zenon
<1>7. \A i \in 1..x : t[i] = stream[i + 1]
  BY <1>2, <1>3, <1>4
<1>8. ASSUME NEW i \in 1..(x + y) PROVE (t \o rest)[i] = (stream \o rest)[i + 1]
  <2>1. CASE i <= x
    <3>1. i \in 1..x /\ i + 1 \in 1..(x + 1)
      BY <2>1
    <3> QED BY <3>1, <1>5, <1>6, <1>7
  <2>2. CASE i > x
    <3>1. PICK j \in 1..y : i = x + j /\ i + 1 = x + 1 + j
      <4>1. i - x \in 1..y /\ i = x + (i - x) /\ i + 1 = x + 1 + (i - x)
        BY <2>2
      <4> QED BY <4>1
    <3> QED BY <3>1, <1>5, <1>6
  <2>3. i <= x \/ i > x
    OBVIOUS
  <2> QED BY <2>1, <2>2, <2>3
<1>9. Pipe' = t \o rest /\ Pipe = stream \o rest
  BY <1>1, <1>3 DEF Pipe
<1>10. Len(Pipe') = x + y /\ Len(Pipe) = x + 1 + y
  BY <1>5, <1>6, <1>9
<1>11. x + y = (x + 1 + y) - 1
  OBVIOUS
<1> QED BY <1>8, <1>9, <1>10, <1>11

(* the kernel taking some more from Conn.Write changes nothing,            *)
LEMMA PipeAfterWrite ==
    ASSUME SenderTypes, WriteSome
    PROVE  Pipe' = Pipe
<1>1. stream \in Seq(Byte) /\ rest \in Seq(Byte)
  BY DEF SenderTypes
<1>2. PICK i \in 1..Len(rest) :
          stream' = stream \o SubSeq(rest, 1, i) /\ rest' = SubSeq(rest, i + 1, Len(rest))
  BY DEF WriteSome
<1>3. SubSeq(rest, 1, i) \o SubSeq(rest, i + 1, Len(rest)) = rest
  BY <1>1
<1>4. SubSeq(rest, 1, i) \in Seq(Byte) /\ SubSeq(rest, i + 1, Len(rest)) \in Seq(Byte)
  BY <1>1
<1>5. \A s, t, u \in Seq(Byte) : (s \o t) \o u = s \o (t \o u)
  OBVIOUS
<1>6. Pipe' = stream \o (SubSeq(rest, 1, i) \o SubSeq(rest, i + 1, Len(rest)))
  BY <1>1, <1>2, <1>4, <1>5, Zenon DEF Pipe
<1> QED BY <1>3, <1>6 DEF Pipe

(* the end of the connection leaves the first ones,                        *)
LEMMA PipeAfterCut ==
    ASSUME SenderTypes, Cut
    PROVE  /\ Len(Pipe') \in Nat /\ Len(Pipe') <= Len(Pipe)
           /\ \A i \in 1..Len(Pipe') : Pipe'[i] = Pipe[i]
<1>1. stream \in Seq(Byte) /\ rest \in Seq(Byte)
  BY DEF SenderTypes
<1>2. PICK i \in 0..Len(stream) : stream' = SubSeq(stream, 1, i) /\ rest' = <<>>
  BY DEF Cut
<1>3. /\ SubSeq(stream, 1, i) \in Seq(Byte) /\ Len(SubSeq(stream, 1, i)) = i
      /\ \A j \in 1..i : SubSeq(stream, 1, i)[j] = stream[j]
  BY <1>1
<1>4. Pipe' = SubSeq(stream, 1, i)
  <2>1. \A s \in Seq(Byte) : s \o <<>> = s
    BY ConcatEmptySeq
  <2> QED BY <1>2, <1>3, <2>1 DEF Pipe
<1>5. Len(Pipe) = Len(stream) + Len(rest) /\ \A j \in 1..Len(stream) : Pipe[j] = stream[j]
  BY PipeType
<1>6. Len(stream) \in Nat /\ Len(rest) \in Nat
  BY <1>1
<1> QED BY <1>3, <1>4, <1>5, <1>6

(* and SendMessage puts a frame behind them: nobody else is writing.       *)
LEMMA PipeAfterSend ==
    ASSUME TypeInv, NEW w \in Writers, NEW m \in Messages \cup OtherMessages, SendMessage(w, m),
           NEW s, s = SerializeMessage(version, m)
    PROVE  /\ s \in Seq(Byte) /\ Len(s) \in Nat
           /\ Len(Pipe') = Len(Pipe) + Len(s)
           /\ \A i \in 1..Len(Pipe) : Pipe'[i] = Pipe[i]
           /\ \A i \in 1..Len(s) : Pipe'[Len(Pipe) + i] = s[i]
<1>1. stream \in Seq(Byte) /\ rest = <<>> /\ stream' = stream /\ rest' = s \o rest
  BY DEF TypeInv, SenderTypes, SendMessage, MayWrite
<1>2. s \in Seq(Byte)
  <2>1. version \in Byte /\ m \in AnyMessage
    BY FramingAssumption, MessagesAreTyped DEF TypeInv, SenderTypes
  <2> QED BY <2>1, FrameBytes DEF Encodes
<1>3. Pipe = stream /\ Pipe' = stream \o s
  <2>1. \A t \in Seq(Byte) : t \o <<>> = t
    BY ConcatEmptySeq
  <2> QED BY <1>1, <1>2, <2>1 DEF Pipe
<1>4. /\ Len(stream \o s) = Len(stream) + Len(s)
      /\ \A i \in 1..Len(stream) : (stream \o s)[i] = stream[i]
      /\ \A i \in 1..Len(s) : (stream \o s)[Len(stream) + i] = s[i]
  BY ONLY <1>1, <1>2, Joined
<1> QED BY <1>2, <1>3, <1>4

(* The message the reader is in, or comes to next.                         *)
Upcoming == sent[Len(received) + 1]

(* If there is a byte to read there is a message it is of, and it is the   *)
(* next one of its frame.                                                  *)
LEMMA ByteAhead ==
    ASSUME TypeInv, version = Version, Len(received) <= Len(sent),
           NEW b, Begins(b), Carries(b), stream # <<>>,
           frame.at # "version" => Len(received) < Len(sent) /\ Partial(frame, Upcoming)
    PROVE  /\ Len(received) < Len(sent) /\ Upcoming \in Messages /\ Upcoming \in AnyMessage
           /\ Consumed(frame) \in Nat /\ Consumed(frame) < Len(FrameOf(Upcoming))
           /\ byte = FrameOf(Upcoming)[Consumed(frame) + 1]
<1>1. PICK r \in Nat, n \in Nat : r = Len(received) /\ n = Len(sent)
  BY DEF TypeInv, SenderTypes, ReaderTypes
<1>2. r <= n
  BY <1>1
<1>3. PICK p \in Nat : p = Len(Pipe) /\ p > 0 /\ Pipe[1] = byte
  BY PipeType DEF TypeInv
<1>4. b \in [0..n -> Nat]
  BY <1>1 DEF Begins
<1>5. r < n
  <2>1. CASE frame.at # "version"
    BY <1>1, <2>1
  <2>2. CASE frame.at = "version"
    <3>1. Consumed(frame) = 0
      BY <2>2 DEF Consumed
    <3>2. b[r] + 0 + p <= b[n]
      BY <1>1, <1>3, <3>1 DEF Carries, Taken
    <3>3. b[r] \in Nat /\ b[n] \in Nat
      BY <1>2, <1>4
    <3>4. b[r] # b[n]
      BY <1>3, <3>2, <3>3
    <3> QED BY <1>2, <3>4
  <2> QED BY <2>1, <2>2
<1>6. Upcoming = sent[r + 1] /\ r + 1 \in 1..n
  BY <1>1, <1>5 DEF Upcoming
<1>7. Upcoming \in Messages /\ Upcoming \in AnyMessage
  <2>1. sent \in Seq(Messages)
    BY DEF TypeInv, SenderTypes
  <2>2. Upcoming \in Messages
    BY <1>1, <1>6, <2>1, ElementOfSeq
  <2> QED BY <2>2, MessagesAreTyped
<1>8. Consumed(frame) \in Nat /\ Consumed(frame) < Len(FrameOf(Upcoming))
  BY <1>7, InFrame
<1>9. PICK c \in Nat : c = Consumed(frame) /\ c < Len(FrameOf(Upcoming))
  BY <1>8
<1>10. PICK l \in Nat : l = Len(FrameOf(Upcoming)) /\ c < l
  <2>1. Len(FrameOf(Upcoming)) \in Nat
    BY <1>7, FrameBytes, FramingAssumption DEF FrameOf, Encodes
  <2> QED BY <1>9, <2>1
<1>11. PICK t \in Nat : t = b[r]
  BY <1>2, <1>4
<1>12. Taken(b) = t + c
  BY <1>1, <1>9, <1>11 DEF Taken
<1>13. r \in 0..(n - 1) /\ c + 1 \in 1..l /\ t + (c + 1) - (t + c) = 1 /\ 1 \in 1..p
  BY <1>3, <1>5, <1>10
<1>14. \A k \in 0..(n - 1) : \A j \in 1..Len(FrameOf(sent[k + 1])) :
           b[k] + j - (t + c) \in 1..p => Pipe[b[k] + j - (t + c)] = FrameOf(sent[k + 1])[j]
  BY <1>1, <1>3, <1>12 DEF Carries
<1>15. \A j \in 1..l : t + j - (t + c) \in 1..p => Pipe[t + j - (t + c)] = FrameOf(Upcoming)[j]
  BY <1>6, <1>10, <1>11, <1>13, <1>14, Zenon
<1>16. Pipe[1] = FrameOf(Upcoming)[c + 1]
  BY <1>13, <1>15, Zenon
<1> QED BY <1>1, <1>3, <1>5, <1>7, <1>8, <1>9, <1>16

(* Reading a byte keeps the layout of the others.                          *)
LEMMA AfterByte ==
    ASSUME SenderTypes, SenderTypes', stream # <<>>, TakeByte, NEW b, Begins(b), Carries(b),
           Taken(b) \in Int, Taken(b)' = Taken(b) + 1
    PROVE  Begins(b)' /\ Carries(b)'
<1>1. sent' = sent /\ cut' = cut
  BY DEF TakeByte, senderVars
<1>2. Begins(b)'
  BY <1>1 DEF Begins
<1>3. PICK p \in Nat : p = Len(Pipe) /\ p > 0
  BY PipeType
<1>4. Len(Pipe') = p - 1 /\ \A i \in 1..(p - 1) : Pipe'[i] = Pipe[i + 1]
  BY <1>3, PipeAfterByte
<1>5. PICK t \in Int : t = Taken(b) /\ Taken(b)' = t + 1
  OBVIOUS
<1>6. t + p <= b[Len(sent)] /\ (~cut => t + p = b[Len(sent)])
  BY <1>3, <1>5 DEF Carries
<1>7. (t + 1) + (p - 1) = t + p
  OBVIOUS
<1>8. ASSUME NEW k \in 0..(Len(sent) - 1), NEW j \in 1..Len(FrameOf(sent[k + 1])),
             b[k] + j - (t + 1) \in 1..(p - 1)
      PROVE  Pipe'[b[k] + j - (t + 1)] = FrameOf(sent[k + 1])[j]
  <2>1. PICK n \in Nat : n = Len(sent)
    BY DEF SenderTypes
  <2>2. k \in 0..n /\ b \in [0..n -> Nat]
    BY <2>1 DEF Begins
  <2>3. PICK a \in Nat : a = b[k]
    BY <2>2
  <2>4. /\ a + j - (t + 1) \in 1..(p - 1) /\ a + j - t \in 1..p
        /\ (a + j - (t + 1)) + 1 = a + j - t
    <3>1. a + j - (t + 1) \in 1..(p - 1) /\ j \in Int
      BY <1>8, <2>3
    <3> QED BY <3>1
  <2>5. Pipe'[a + j - (t + 1)] = Pipe[a + j - t]
    BY <1>4, <2>4, Zenon
  <2>6. \A i \in 1..Len(FrameOf(sent[k + 1])) :
            a + i - t \in 1..p => Pipe[a + i - t] = FrameOf(sent[k + 1])[i]
    BY <1>3, <1>5, <2>3 DEF Carries
  <2>7. Pipe[a + j - t] = FrameOf(sent[k + 1])[j]
    BY <2>4, <2>6, Zenon
  <2> QED BY <2>3, <2>5, <2>7
<1>9. Carries(b)'
  <2>1. FrameOf(sent[1])' = FrameOf(sent[1]) /\ \A k : FrameOf(sent[k + 1])' = FrameOf(sent[k + 1])
    BY <1>1 DEF FrameOf
  <2> HIDE DEF FrameOf
  <2> QED BY <1>1, <1>4, <1>5, <1>6, <1>7, <1>8, <2>1 DEF Carries
<1> QED BY <1>2, <1>9

(* A message more is laid behind the ones before it.                       *)
LEMMA AfterSend ==
    ASSUME TypeInv, version = Version, Len(received) <= Len(sent),
           NEW w \in Writers, NEW m \in Messages \cup OtherMessages, SendMessage(w, m),
           NEW b, Begins(b), Carries(b), Taken(b) \in Int
    PROVE  \E e \in [0..Len(sent') -> Nat] : Begins(e)' /\ Carries(e)'
<1>1. PICK n \in Nat, r \in Nat : n = Len(sent) /\ r = Len(received) /\ r <= n
  <2>1. Len(sent) \in Nat /\ Len(received) \in Nat
    BY DEF TypeInv, SenderTypes, ReaderTypes
  <2> QED BY <2>1
<1>2. m \in AnyMessage
  BY MessagesAreTyped
<1>3. /\ Len(sent') = n + 1 /\ sent'[n + 1] = m
      /\ \A k \in 0..(n - 1) : sent'[k + 1] = sent[k + 1]
  <2>1. sent' = Append(sent, m) /\ sent \in Seq(AnyMessage)
    BY DEF TypeInv, SenderTypes, SendMessage
  <2>2. /\ Len(sent') = n + 1 /\ sent'[n + 1] = m
        /\ \A k \in 1..n : sent'[k] = sent[k]
    BY <1>1, <1>2, <2>1, AppendProperties
  <2>3. \A k \in 0..(n - 1) : k + 1 \in 1..n
    OBVIOUS
  <2> QED BY <2>2, <2>3
<1>4. PICK p \in Nat : p = Len(Pipe)
  BY PipeType DEF TypeInv
<1>5. PICK l \in Nat : l = Len(FrameOf(m))
  BY <1>2, FrameBytes, FramingAssumption DEF FrameOf, Encodes
<1>6. /\ Len(Pipe') = p + l
      /\ \A i \in 1..p : Pipe'[i] = Pipe[i]
      /\ \A i \in 1..l : Pipe'[p + i] = FrameOf(m)[i]
  <2>1. FrameOf(m) = SerializeMessage(version, m)
    BY DEF FrameOf
  <2> QED BY <1>4, <1>5, <2>1, PipeAfterSend
<1>7. /\ b \in [0..n -> Nat]
      /\ \A k \in 0..(n - 1) : b[k + 1] = b[k] + Len(FrameOf(sent[k + 1]))
      /\ \A i, k \in 0..n : i <= k => b[i] <= b[k]
  BY <1>1 DEF Begins
<1>8. PICK t \in Int : t = Taken(b) /\ t + p = b[n]
  <2>1. ~cut
    BY DEF SendMessage
  <2> QED BY <1>1, <1>4, <2>1 DEF Carries
<1> DEFINE e == [k \in 0..(n + 1) |-> IF k <= n THEN b[k] ELSE b[n] + l]
<1>9. /\ e \in [0..(n + 1) -> Nat] /\ e[n + 1] = b[n] + l
      /\ \A k \in 0..n : e[k] = b[k]
  <2>1. b[n] + l \in Nat
    BY <1>7
  <2>2. ~(n + 1 <= n) /\ n + 1 \in 0..(n + 1)
    OBVIOUS
  <2>3. \A k \in 0..(n + 1) : k \in 0..n \/ k = n + 1
    OBVIOUS
  <2>4. \A k \in 0..n : k \in 0..(n + 1) /\ k <= n
    OBVIOUS
  <2> QED BY <1>7, <2>1, <2>2, <2>3, <2>4
<1> HIDE DEF e
<1>10. \A k \in 0..n : b[k] \in Nat /\ b[k] <= b[n]
  BY <1>7
<1>11. \A k : FrameOf(sent[k + 1])' = FrameOf(sent'[k + 1])
  BY DEF FrameOf
<1> HIDE DEF FrameOf
<1>12. ASSUME NEW k \in 0..n
       PROVE  e[k + 1] = e[k] + Len(FrameOf(sent'[k + 1]))
  <2>1. CASE k = n
    BY <1>3, <1>5, <1>9, <2>1
  <2>2. CASE k # n
    <3>1. k \in 0..(n - 1) /\ k + 1 \in 0..n
      BY <2>2
    <3> QED BY <1>3, <1>7, <1>9, <3>1
  <2> QED BY <2>1, <2>2
<1>13. ASSUME NEW i \in 0..(n + 1), NEW k \in 0..(n + 1), i <= k PROVE e[i] <= e[k]
  <2>1. CASE k \in 0..n
    <3>1. i \in 0..n
      BY <1>13, <2>1
    <3> QED BY <1>7, <1>9, <1>13, <2>1, <3>1
  <2>2. CASE k = n + 1 /\ i \in 0..n
    <3>1. e[i] = b[i] /\ b[i] \in Nat /\ b[i] <= b[n] /\ b[n] \in Nat
      BY <1>9, <1>10, <2>2
    <3> QED BY <1>9, <2>2, <3>1
  <2>3. CASE k = n + 1 /\ i = n + 1
    BY <1>9, <1>10, <2>3
  <2>4. i \in 0..n \/ i = n + 1
    OBVIOUS
  <2>5. k \in 0..n \/ k = n + 1
    OBVIOUS
  <2>6. k \in 0..n => i \in 0..n
    BY <1>13
  <2> QED BY <2>1, <2>2, <2>3, <2>4, <2>5
<1>14. Begins(e)'
  <2>1. (n + 1) - 1 = n
    OBVIOUS
  <2> QED BY <1>3, <1>9, <1>11, <1>12, <1>13, <2>1 DEF Begins
<1>15. Taken(e)' = t
  <2>1. received' = received /\ frame' = frame
    BY DEF SendMessage, readerVars
  <2>2. e[r] = b[r]
    BY <1>1, <1>9
  <2>3. Consumed(frame)' = Consumed(frame)
    BY <2>1 DEF Consumed
  <2> QED BY <1>1, <1>8, <2>1, <2>2, <2>3 DEF Taken
<1>16. ASSUME NEW k \in 0..n, NEW j \in 1..Len(FrameOf(sent'[k + 1])),
              e[k] + j - t \in 1..(p + l)
       PROVE  Pipe'[e[k] + j - t] = FrameOf(sent'[k + 1])[j]
  <2>0. PICK a \in Nat, z \in Nat : a = b[k] /\ z = b[n] /\ e[k] = a
    BY <1>9, <1>10
  <2>1. CASE k = n
    <3>1. a + j - t = p + j
      BY <1>8, <2>0, <2>1
    <3>2. j \in 1..l
      BY <1>3, <1>5, <2>1
    <3>3. Pipe'[p + j] = FrameOf(m)[j]
      BY <1>6, <3>2
    <3> QED BY <1>3, <2>0, <2>1, <3>1, <3>3
  <2>2. CASE k # n
    <3>1. k \in 0..(n - 1) /\ k + 1 \in 0..n
      BY <2>2
    <3>2. sent'[k + 1] = sent[k + 1]
      BY <1>3, <3>1
    <3>3. PICK y \in Nat : y = b[k + 1] /\ y <= z
      BY <1>10, <2>0, <3>1
    <3>4. PICK q \in Nat : q = Len(FrameOf(sent[k + 1])) /\ y = a + q
      <4>1. sent[k + 1] \in AnyMessage
        <5>1. sent \in Seq(AnyMessage)
          BY DEF TypeInv, SenderTypes
        <5>2. k + 1 \in 1..Len(sent)
          BY <1>1, <3>1
        <5> QED BY <5>1, <5>2, ElementOfSeq
      <4>2. Len(FrameOf(sent[k + 1])) \in Nat
        BY <4>1, FrameBytes, FramingAssumption DEF FrameOf, Encodes
      <4> QED BY <1>7, <2>0, <3>1, <3>3, <4>2
    <3>5. j \in 1..q
      BY <3>2, <3>4
    <3>6. z = t + p
      BY <1>8, <2>0
    <3>7. a + j - t \in 1..p
      <4>1. a + j - t \in 1..(p + l)
        BY <1>16, <2>0
      <4> QED BY <3>3, <3>4, <3>5, <3>6, <4>1
    <3>8. Pipe'[a + j - t] = Pipe[a + j - t]
      BY <1>6, <3>7
    <3>9. \A i \in 1..Len(FrameOf(sent[k + 1])) :
              a + i - t \in 1..p => Pipe[a + i - t] = FrameOf(sent[k + 1])[i]
      BY <1>1, <1>4, <1>8, <2>0, <3>1 DEF Carries
    <3>10. Pipe[a + j - t] = FrameOf(sent[k + 1])[j]
      BY <3>4, <3>5, <3>7, <3>9, Zenon
    <3> QED BY <2>0, <3>2, <3>8, <3>10
  <2> QED BY <2>1, <2>2
<1>17. Carries(e)'
  <2>1. (n + 1) - 1 = n
    OBVIOUS
  <2>2. t + (p + l) = e[n + 1]
    <3>1. PICK z \in Nat : z = b[n]
      BY <1>10
    <3>2. t + p = z /\ e[n + 1] = z + l
      BY <1>8, <1>9, <3>1
    <3>3. t + (p + l) = z + l
      BY <3>2
    <3> QED BY <3>2, <3>3
  <2>3. e[n + 1] \in Nat
    BY <1>9
  <2>4. e[n + 1] <= e[n + 1]
    BY <2>3
  <2> QED BY <1>3, <1>6, <1>11, <1>15, <1>16, <2>1, <2>2, <2>4 DEF Carries
<1> QED BY <1>3, <1>9, <1>14, <1>17

(* The end of the connection drops the last bytes, and the layout of the   *)
(* others stays.                                                           *)
LEMMA AfterCut ==
    ASSUME SenderTypes, Cut, NEW b, Begins(b), Carries(b), Taken(b) \in Int
    PROVE  Begins(b)' /\ Carries(b)'
<1>1. sent' = sent /\ cut' = TRUE /\ received' = received /\ frame' = frame
  BY DEF Cut, readerVars
<1>2. Taken(b)' = Taken(b) /\ \A k : FrameOf(sent[k + 1])' = FrameOf(sent[k + 1])
  BY <1>1 DEF Taken, Consumed, FrameOf
<1>3. PICK p \in Nat, q \in Nat : p = Len(Pipe) /\ q = Len(Pipe') /\ q <= p
  BY PipeType, PipeAfterCut
<1>4. \A i \in 1..q : i \in 1..p /\ Pipe'[i] = Pipe[i]
  BY <1>3, PipeAfterCut
<1>5. Begins(b)'
  BY <1>1, <1>2 DEF Begins
<1> HIDE DEF FrameOf
<1>6. PICK t \in Int : t = Taken(b)
  OBVIOUS
<1>7. t + q <= b[Len(sent)]
  <2>1. t + p <= b[Len(sent)]
    BY <1>3, <1>6 DEF Carries
  <2>2. Len(sent) \in Nat /\ b[Len(sent)] \in Nat
    BY DEF SenderTypes, Begins
  <2> QED BY <1>3, <2>1, <2>2
<1>8. Carries(b)'
  <2>1. \A k \in 0..(Len(sent) - 1) : \A j \in 1..Len(FrameOf(sent[k + 1])) :
            b[k] + j - t \in 1..q => Pipe'[b[k] + j - t] = FrameOf(sent[k + 1])[j]
    BY <1>3, <1>4, <1>6, Zenon DEF Carries
  <2> QED BY <1>1, <1>2, <1>3, <1>6, <1>7, <2>1 DEF Carries
<1> QED BY <1>5, <1>8

(* How far the reader has come.                                            *)
LEMMA TakenIsNumber ==
    ASSUME TypeInv, Len(received) <= Len(sent), NEW b, Begins(b),
           frame.at # "version" => Len(received) < Len(sent) /\ Partial(frame, Upcoming)
    PROVE  Taken(b) \in Nat
<1>1. PICK r \in Nat, n \in Nat : r = Len(received) /\ n = Len(sent) /\ r <= n
  <2>1. Len(received) \in Nat /\ Len(sent) \in Nat
    BY DEF TypeInv, SenderTypes, ReaderTypes
  <2> QED BY <2>1
<1>2. PICK t \in Nat : t = b[r]
  BY <1>1 DEF Begins
<1>3. Consumed(frame) \in Nat
  <2>1. CASE frame.at = "version"
    BY <2>1 DEF Consumed
  <2>2. CASE frame.at # "version"
    <3>1. sent \in Seq(AnyMessage) /\ r + 1 \in 1..n
      BY <1>1, <2>2 DEF TypeInv, SenderTypes
    <3>2. Upcoming \in AnyMessage
      BY <1>1, <3>1, ElementOfSeq DEF Upcoming
    <3> QED BY <2>2, <3>2, InFrame
  <2> QED BY <2>1, <2>2
<1> QED BY <1>1, <1>2, <1>3 DEF Taken

(* Every step keeps the reader in the frame that was written.              *)
LEMMA SameVersionStep == TypeInv /\ TypeInv' /\ SameVersionInv /\ [Next]_vars => SameVersionInv'
<1> SUFFICES ASSUME TypeInv, TypeInv', SameVersionInv, [Next]_vars, version' = Version
             PROVE  SameVersionInv'
  BY DEF SameVersionInv
<1>0. version = Version
  BY DEF Next, SendMessage, WriteSome, Cut, ReadByte, ReadVersion, ReadType, ReadLength,
         ReadData, ReadEOF, TakeByte, senderVars, vars
<1>1. ~misread /\ Len(received) <= Len(sent)
  BY <1>0 DEF SameVersionInv
<1>2. PICK r \in Nat, n \in Nat : r = Len(received) /\ n = Len(sent) /\ r <= n
  <2>1. Len(received) \in Nat /\ Len(sent) \in Nat
    BY DEF TypeInv, SenderTypes, ReaderTypes
  <2> QED BY <1>1, <2>1
<1>3. ASSUME reader = "reading"
      PROVE  /\ \E b \in [0..Len(sent) -> Nat] : Begins(b) /\ Carries(b) /\ Taken(b) \in Int
             /\ frame.at # "version" => Len(received) < Len(sent) /\ Partial(frame, Upcoming)
  <2>1. frame.at # "version" => Len(received) < Len(sent) /\ Partial(frame, Upcoming)
    BY <1>0, <1>3 DEF SameVersionInv, Upcoming
  <2>2. PICK b \in [0..Len(sent) -> Nat] : Begins(b) /\ Carries(b)
    BY <1>0, <1>3 DEF SameVersionInv
  <2>3. Taken(b) \in Int
    BY <1>1, <2>1, <2>2, TakenIsNumber
  <2> QED BY <2>1, <2>2, <2>3
<1>4. ASSUME ~misread', Len(received') <= Len(sent'),
             reader' = "reading" => \E b \in [0..Len(sent') -> Nat] : Begins(b)' /\ Carries(b)',
             reader' = "reading" /\ frame'.at # "version" =>
                 Len(received') < Len(sent') /\ Partial(frame', sent'[Len(received') + 1])
      PROVE  SameVersionInv'
  BY <1>4 DEF SameVersionInv, Partial
<1>5. ASSUME NEW w \in Writers, NEW m \in Messages \cup OtherMessages, SendMessage(w, m)
      PROVE  SameVersionInv'
  <2>1. /\ Len(sent') = n + 1
        /\ \A k \in 1..n : sent'[k] = sent[k]
    <3>1. sent \in Seq(AnyMessage) /\ m \in AnyMessage /\ sent' = Append(sent, m)
      BY <1>5, MessagesAreTyped DEF TypeInv, SenderTypes, SendMessage
    <3> QED BY <1>2, <3>1, AppendProperties
  <2>2. received' = received /\ reader' = reader /\ frame' = frame /\ misread' = misread
    BY <1>5 DEF SendMessage, readerVars
  <2>3. Len(received') <= Len(sent')
    BY <1>2, <2>1, <2>2
  <2>4. ASSUME reader' = "reading"
        PROVE  \E b \in [0..Len(sent') -> Nat] : Begins(b)' /\ Carries(b)'
    <3>1. PICK b \in [0..Len(sent) -> Nat] : Begins(b) /\ Carries(b) /\ Taken(b) \in Int
      BY <1>3, <2>2, <2>4
    <3> QED BY <1>0, <1>1, <1>5, <3>1, AfterSend
  <2>5. ASSUME reader' = "reading", frame'.at # "version"
        PROVE  Len(received') < Len(sent') /\ Partial(frame', sent'[Len(received') + 1])
    <3>1. r < n /\ Partial(frame, sent[r + 1])
      BY <1>2, <1>3, <2>2, <2>5 DEF Upcoming
    <3>2. r + 1 \in 1..n /\ r < n + 1
      BY <3>1
    <3> QED BY <1>2, <2>1, <2>2, <3>1, <3>2
  <2> QED BY <1>1, <1>4, <2>2, <2>3, <2>4, <2>5
<1>6. ASSUME sent' = sent, UNCHANGED readerVars,
             \A b \in [0..Len(sent) -> Nat] :
                 Begins(b) /\ Carries(b) /\ Taken(b) \in Int => Begins(b)' /\ Carries(b)'
      PROVE  SameVersionInv'
  <2>1. received' = received /\ reader' = reader /\ frame' = frame /\ misread' = misread
    BY <1>6 DEF readerVars
  <2>2. ASSUME reader' = "reading"
        PROVE  \E b \in [0..Len(sent') -> Nat] : Begins(b)' /\ Carries(b)'
    BY <1>3, <1>6, <2>1, <2>2
  <2>3. ASSUME reader' = "reading", frame'.at # "version"
        PROVE  Len(received') < Len(sent') /\ Partial(frame', sent'[Len(received') + 1])
    BY <1>3, <1>6, <2>1, <2>3 DEF Upcoming
  <2> QED BY <1>1, <1>4, <1>6, <2>1, <2>2, <2>3
<1>7. CASE WriteSome
  <2>1. sent' = sent /\ UNCHANGED readerVars /\ cut' = cut
    BY <1>7 DEF WriteSome
  <2>2. Pipe' = Pipe
    BY <1>7, PipeAfterWrite DEF TypeInv
  <2>3. ASSUME NEW b \in [0..Len(sent) -> Nat], Begins(b) /\ Carries(b)
        PROVE  Begins(b)' /\ Carries(b)'
    <3>1. Taken(b)' = Taken(b) /\ \A k : FrameOf(sent[k + 1])' = FrameOf(sent[k + 1])
      BY <2>1 DEF Taken, Consumed, FrameOf, readerVars
    <3> HIDE DEF FrameOf
    <3> QED BY <2>1, <2>2, <2>3, <3>1 DEF Begins, Carries
  <2> QED BY <1>6, <2>1, <2>3
<1>8. CASE Cut
  <2>1. sent' = sent /\ UNCHANGED readerVars
    BY <1>8 DEF Cut
  <2> QED BY <1>6, <1>8, <2>1, AfterCut DEF TypeInv
<1>9. CASE ReadByte
  <2>1. reader = "reading" /\ stream # <<>> /\ TakeByte
    BY <1>9 DEF ReadByte, ReadVersion, ReadType, ReadLength, ReadData, Reads
  <2>2. PICK b \in [0..Len(sent) -> Nat] : Begins(b) /\ Carries(b) /\ Taken(b) \in Int
    BY <1>3, <2>1
  <2>3. frame.at # "version" => Len(received) < Len(sent) /\ Partial(frame, Upcoming)
    BY <1>3, <2>1
  <2>4. /\ r < n /\ Upcoming \in AnyMessage
        /\ Consumed(frame) \in Nat
        /\ byte = FrameOf(Upcoming)[Consumed(frame) + 1]
    BY <1>0, <1>1, <1>2, <2>1, <2>2, <2>3, ByteAhead
  <2>5. Goes(Upcoming)
    BY <1>9, <2>3, <2>4, ReaderGoesOn
  <2>6. sent' = sent
    BY <2>1 DEF TakeByte, senderVars
  <2>7. Taken(b) = b[r] + Consumed(frame) /\ b[r] \in Nat
    BY <1>2, <2>2 DEF Taken
  <2>8. CASE Keeps(Upcoming)
    <3>1. Taken(b)' = Taken(b) + 1
      <4>1. received' = received /\ Consumed(frame)' = Consumed(frame) + 1
        BY <2>8 DEF Keeps, Consumed
      <4> QED BY <1>2, <2>4, <2>7, <4>1 DEF Taken
    <3>2. Begins(b)' /\ Carries(b)'
      BY <2>1, <2>2, <3>1, AfterByte DEF TypeInv
    <3>3. Len(received') < Len(sent') /\ Partial(frame', sent'[Len(received') + 1])
      BY <1>2, <2>4, <2>6, <2>8 DEF Keeps, Upcoming
    <3> QED BY <1>1, <1>2, <1>4, <2>2, <2>5, <2>6, <2>8, <3>2, <3>3 DEF Goes, Keeps
  <2>9. CASE Completes(Upcoming)
    <3>1. Len(received') = r + 1
      BY <1>2, <2>4, <2>9, AppendProperties DEF Completes, TypeInv, ReaderTypes
    <3>2. frame'.at = "version" /\ Consumed(frame)' = 0
      BY <2>9 DEF Completes, Consumed, Start
    <3>3. b[r + 1] = b[r] + Len(FrameOf(Upcoming))
      <4>1. r \in 0..(n - 1)
        BY <2>4
      <4> QED BY <1>2, <2>2, <4>1 DEF Begins, Upcoming
    <3>4. Consumed(frame) + 1 = Len(FrameOf(Upcoming))
      BY <2>9 DEF Completes
    <3>5. Taken(b)' = Taken(b) + 1
      <4>1. Taken(b)' = b[r + 1] + 0
        BY <3>1, <3>2 DEF Taken
      <4>2. PICK c \in Nat, t \in Nat : c = Consumed(frame) /\ t = b[r]
        BY <2>4, <2>7
      <4>3. b[r + 1] = t + (c + 1) /\ Taken(b) = t + c
        BY <2>7, <3>3, <3>4, <4>2
      <4> QED BY <4>1, <4>3
    <3>6. Begins(b)' /\ Carries(b)'
      BY <2>1, <2>2, <3>5, AfterByte DEF TypeInv
    <3>7. Len(received') <= Len(sent')
      BY <1>2, <2>4, <2>6, <3>1
    <3> QED BY <1>1, <1>4, <2>2, <2>5, <2>6, <3>2, <3>6, <3>7 DEF Goes
  <2> QED BY <2>5, <2>8, <2>9 DEF Goes
<1>10. CASE ReadEOF
  BY <1>1, <1>4, <1>10 DEF ReadEOF, senderVars
<1>11. CASE UNCHANGED vars
  <2>1. sent' = sent /\ UNCHANGED readerVars
    BY <1>11 DEF vars, readerVars
  <2>2. ASSUME NEW b \in [0..Len(sent) -> Nat], Begins(b) /\ Carries(b)
        PROVE  Begins(b)' /\ Carries(b)'
    <3>1. Taken(b)' = Taken(b) /\ \A k : FrameOf(sent[k + 1])' = FrameOf(sent[k + 1])
      BY <2>1 DEF Taken, Consumed, FrameOf, readerVars
    <3>2. Pipe' = Pipe /\ cut' = cut
      BY <1>11 DEF Pipe, vars
    <3> HIDE DEF FrameOf
    <3> QED BY <2>1, <2>2, <3>1, <3>2 DEF Begins, Carries
  <2> QED BY <1>6, <2>1, <2>2
<1> QED BY <1>5, <1>7, <1>8, <1>9, <1>10, <1>11 DEF Next

-----------------------------------------------------------------------------
(* Every step keeps the frames of a peer of another version from being     *)
(* taken for one of this version.                                          *)
LEMMA OtherVersionStep ==
    ASSUME NotTakenForOurs
    PROVE  TypeInv /\ TypeInv' /\ OtherVersionInv /\ [Next]_vars => OtherVersionInv'
<1> SUFFICES ASSUME TypeInv, TypeInv', OtherVersionInv, [Next]_vars, version' # Version
             PROVE  OtherVersionInv'
  BY DEF OtherVersionInv
<1>0. version' = version
  BY DEF Next, SendMessage, WriteSome, Cut, ReadByte, ReadVersion, ReadType, ReadLength,
         ReadData, ReadEOF, TakeByte, senderVars, vars
<1>1. /\ received = <<>>
      /\ reader = "reading" =>
             /\ frame.at \in {"version", "type"}
             /\ NoFrameIn(Pipe, cut)
             /\ frame.at = "type" => IF Len(Pipe) > 0 THEN Pipe[1] \notin 1..LastType ELSE cut
  BY <1>0 DEF OtherVersionInv
<1>2. ASSUME received' = <<>>,
             reader' = "reading" =>
                 /\ frame'.at \in {"version", "type"}
                 /\ NoFrameIn(Pipe', cut')
                 /\ frame'.at = "type" =>
                        IF Len(Pipe') > 0 THEN Pipe'[1] \notin 1..LastType ELSE cut'
      PROVE  OtherVersionInv'
  BY <1>2 DEF OtherVersionInv
<1>3. PICK p \in Nat : p = Len(Pipe)
  BY PipeType DEF TypeInv
<1>4. ASSUME NEW w \in Writers, NEW m \in Messages \cup OtherMessages, SendMessage(w, m)
      PROVE  OtherVersionInv'
  <2>1. received' = received /\ reader' = reader /\ frame' = frame /\ ~cut /\ cut' = cut
    BY <1>4 DEF SendMessage, readerVars
  <2>2. m \in OtherMessages /\ version \in OtherVersions
    BY <1>0, <1>4 DEF SendMessage, TypeInv, SenderTypes
  <2> DEFINE s == SerializeMessage(version, m)
  <2>3. \A j \in 1..Len(s) : s[j] = Version => j < Len(s) /\ s[j + 1] \notin 1..LastType
    BY <2>2 DEF NotTakenForOurs
  <2> HIDE DEF s
  <2>4. /\ Len(s) \in Nat /\ Len(Pipe') = Len(Pipe) + Len(s)
        /\ \A i \in 1..Len(Pipe) : Pipe'[i] = Pipe[i]
        /\ \A i \in 1..Len(s) : Pipe'[Len(Pipe) + i] = s[i]
    BY <1>4, PipeAfterSend DEF s
  <2>5. PICK l \in Nat : l = Len(s)
    BY <2>4
  <2>6. /\ Len(Pipe') = p + l
        /\ \A i \in 1..p : Pipe'[i] = Pipe[i]
        /\ \A i \in 1..l : Pipe'[p + i] = s[i]
    BY <1>3, <2>4, <2>5
  <2>7. ASSUME reader = "reading" PROVE NoFrameIn(Pipe', cut')
    <3>1. \A j \in 1..p : Pipe[j] = Version => j < p /\ Pipe[j + 1] \notin 1..LastType
      BY <1>1, <1>3, <2>1, <2>7 DEF NoFrameIn
    <3>2. \A j \in 1..l : s[j] = Version => j < l /\ s[j + 1] \notin 1..LastType
      BY <2>3, <2>5
    <3>3. ASSUME NEW j \in 1..(p + l), Pipe'[j] = Version
          PROVE  j < p + l /\ Pipe'[j + 1] \notin 1..LastType
      <4>1. CASE j \in 1..p
        <5>1. j < p /\ Pipe[j + 1] \notin 1..LastType
          BY <2>6, <3>1, <3>3, <4>1
        <5>2. j + 1 \in 1..p /\ j < p + l
          BY <4>1, <5>1
        <5> QED BY <2>6, <5>1, <5>2
      <4>2. CASE j \notin 1..p
        <5>1. PICK i \in 1..l : j = p + i
          <6>1. j - p \in 1..l /\ j = p + (j - p)
            BY <4>2
          <6> QED BY <6>1
        <5>2. i < l /\ s[i + 1] \notin 1..LastType
          BY <2>6, <3>2, <3>3, <5>1
        <5>3. i + 1 \in 1..l /\ j + 1 = p + (i + 1) /\ j < p + l
          BY <5>1, <5>2
        <5>4. Pipe'[p + (i + 1)] = s[i + 1]
          BY <2>6, <5>3
        <5> QED BY <5>2, <5>3, <5>4
      <4> QED BY <4>1, <4>2
    <3> QED BY <2>6, <3>3 DEF NoFrameIn
  <2>8. ASSUME reader = "reading", frame.at = "type"
        PROVE  Len(Pipe') > 0 /\ Pipe'[1] \notin 1..LastType
    <3>1. p > 0 /\ Pipe[1] \notin 1..LastType
      BY <1>1, <1>3, <2>1, <2>8
    <3>2. 1 \in 1..p /\ p + l > 0
      BY <3>1
    <3> QED BY <2>6, <3>1, <3>2
  <2> QED BY <1>1, <1>2, <2>1, <2>7, <2>8
<1>5. ASSUME Pipe' = Pipe, cut' = cut, UNCHANGED readerVars PROVE OtherVersionInv'
  BY <1>1, <1>2, <1>5 DEF readerVars
<1>6. CASE WriteSome
  BY <1>5, <1>6, PipeAfterWrite DEF WriteSome, TypeInv
<1>7. CASE Cut
  <2>1. received' = received /\ reader' = reader /\ frame' = frame /\ cut' = TRUE
    BY <1>7 DEF Cut, readerVars
  <2>2. PICK q \in Nat : q = Len(Pipe') /\ q <= p /\ \A i \in 1..q : Pipe'[i] = Pipe[i]
    BY <1>3, <1>7, PipeAfterCut DEF TypeInv
  <2>3. ASSUME reader = "reading" PROVE NoFrameIn(Pipe', cut')
    <3>1. ASSUME NEW j \in 1..q, Pipe'[j] = Version, j < q
          PROVE  Pipe'[j + 1] \notin 1..LastType
      <4>1. j \in 1..p /\ j < p /\ j + 1 \in 1..q
        BY <2>2, <3>1
      <4>2. Pipe[j] = Version
        BY <2>2, <3>1
      <4>3. Pipe[j + 1] \notin 1..LastType
        BY <1>1, <1>3, <2>3, <4>1, <4>2 DEF NoFrameIn
      <4> QED BY <2>2, <4>1, <4>3
    <3> QED BY <2>1, <2>2, <3>1 DEF NoFrameIn
  <2>4. ASSUME reader = "reading", frame.at = "type", Len(Pipe') > 0
        PROVE  Pipe'[1] \notin 1..LastType
    <3>1. 1 \in 1..q /\ p > 0
      BY <2>2, <2>4
    <3> QED BY <1>1, <1>3, <2>2, <2>4, <3>1
  <2> QED BY <1>1, <1>2, <2>1, <2>3, <2>4
<1>8. CASE ReadByte
  <2>1. reader = "reading" /\ stream # <<>> /\ TakeByte
    BY <1>8 DEF ReadByte, ReadVersion, ReadType, ReadLength, ReadData, Reads
  <2>2. p > 0 /\ Pipe[1] = byte
    BY <1>3, <2>1, PipeType DEF TypeInv
  <2>3. cut' = cut
    BY <2>1 DEF TakeByte, senderVars
  <2>4. Len(Pipe') = p - 1 /\ \A i \in 1..(p - 1) : Pipe'[i] = Pipe[i + 1]
    BY <1>3, <2>1, PipeAfterByte DEF TypeInv
  <2>5. NoFrameIn(Pipe', cut')
    <3>1. ASSUME NEW j \in 1..(p - 1), Pipe'[j] = Version
          PROVE  IF j < p - 1 THEN Pipe'[j + 1] \notin 1..LastType ELSE cut
      <4>1. j + 1 \in 1..p /\ (j < p - 1 <=> j + 1 < p)
        BY <2>2
      <4>2. Pipe[j + 1] = Version
        BY <2>4, <3>1
      <4>3. IF j + 1 < p THEN Pipe[(j + 1) + 1] \notin 1..LastType ELSE cut
        BY <1>1, <1>3, <2>1, <4>1, <4>2 DEF NoFrameIn
      <4>4. j < p - 1 => j + 1 \in 1..(p - 1)
        OBVIOUS
      <4> QED BY <2>4, <4>1, <4>3, <4>4
    <3> QED BY <2>3, <2>4, <3>1 DEF NoFrameIn
  <2>6. CASE ReadVersion
    <3>1. CASE byte = Version
      <4>1. IF 1 < p THEN Pipe[1 + 1] \notin 1..LastType ELSE cut
        <5>1. 1 \in 1..p
          BY <2>2
        <5> QED BY <1>1, <1>3, <2>1, <2>2, <3>1, <5>1 DEF NoFrameIn
      <4>2. IF Len(Pipe') > 0 THEN Pipe'[1] \notin 1..LastType ELSE cut'
        <5>1. CASE 1 < p
          <6>1. 1 \in 1..(p - 1)
            BY <5>1
          <6> QED BY <2>4, <4>1, <5>1, <6>1
        <5>2. CASE ~(1 < p)
          BY <2>2, <2>3, <2>4, <4>1, <5>2
        <5> QED BY <5>1, <5>2
      <4>3. received' = received /\ frame' = [frame EXCEPT !.at = "type"]
        BY <2>6, <3>1 DEF ReadVersion, Keep
      <4>4. frame'.at = "type"
        BY <4>3 DEF TypeInv, ReaderTypes, AnyFrame
      <4> QED BY <1>1, <1>2, <2>5, <4>2, <4>3, <4>4
    <3>2. CASE byte # Version
      BY <1>1, <1>2, <2>5, <2>6, <3>2 DEF ReadVersion, Fail, Start
    <3> QED BY <3>1, <3>2
  <2>7. CASE ReadType
    <3>1. byte \notin 1..LastType
      BY <1>1, <1>3, <2>1, <2>2, <2>7 DEF ReadType, Reads
    <3>2. Fail
      BY <2>7, <3>1 DEF ReadType, IsValidTunnelMessageType
    <3> QED BY <1>1, <1>2, <2>5, <3>2 DEF Fail, Start
  <2>8. ~ReadLength /\ ~ReadData
    BY <1>1, <2>1 DEF ReadLength, ReadData, Reads
  <2> QED BY <1>8, <2>6, <2>7, <2>8 DEF ReadByte
<1>9. CASE ReadEOF
  BY <1>1, <1>2, <1>9 DEF ReadEOF, senderVars
<1>10. CASE UNCHANGED vars
  BY <1>5, <1>10 DEF vars, readerVars, Pipe
<1> QED BY <1>4, <1>6, <1>7, <1>8, <1>9, <1>10 DEF Next

(* Nothing is written or read yet.                                         *)
LEMMA StartsInStep == Init => SameVersionInv /\ OtherVersionInv
<1> SUFFICES ASSUME Init PROVE SameVersionInv /\ OtherVersionInv
  OBVIOUS
<1>1. /\ sent = <<>> /\ received = <<>> /\ stream = <<>> /\ rest = <<>>
      /\ frame = Start /\ frame.at = "version" /\ ~misread /\ cut = FALSE
  BY StartTypes DEF Init
<1>2. Pipe = <<>> /\ Len(Pipe) = 0 /\ Len(sent) = 0 /\ Len(received) = 0
  <2>1. <<>> \o <<>> = <<>>
    BY ConcatEmptySeq, EmptySeq
  <2> QED BY <1>1, <2>1 DEF Pipe
<1>3. OtherVersionInv
  BY <1>1, <1>2 DEF OtherVersionInv, NoFrameIn
<1>4. SameVersionInv
  <2> DEFINE b == [k \in 0..0 |-> 0]
  <2>1. b \in [0..0 -> Nat] /\ b[0] = 0
    OBVIOUS
  <2> HIDE DEF b
  <2>2. Taken(b) = 0
    BY <1>1, <1>2, <2>1 DEF Taken, Consumed
  <2>3. Begins(b)
    <3>1. 0..(0 - 1) = {} /\ \A i, k \in 0..0 : i = 0 /\ k = 0
      OBVIOUS
    <3> QED BY <1>2, <2>1, <3>1 DEF Begins
  <2>4. Carries(b)
    <3>1. 0..(0 - 1) = {}
      OBVIOUS
    <3> QED BY <1>2, <2>1, <2>2, <3>1 DEF Carries
  <2> QED BY <1>1, <1>2, <2>1, <2>3, <2>4 DEF SameVersionInv
<1> QED BY <1>3, <1>4

-----------------------------------------------------------------------------
(* The two invariants together, for peers of one version                   *)
LEMMA ReaderFollows == Spec => [](TypeInv /\ SameVersionInv)
<1>1. Init => TypeInv /\ SameVersionInv
  BY TypeInit, StartsInStep
<1>2. TypeInv /\ SameVersionInv /\ [Next]_vars => (TypeInv /\ SameVersionInv)'
  BY TypeStep, SameVersionStep
<1> QED BY <1>1, <1>2, PTL DEF Spec

(* and of different ones.                                                  *)
LEMMA OthersAreRefused ==
    ASSUME NotTakenForOurs
    PROVE  Spec => []OtherVersionInv
<1>1. Init => OtherVersionInv
  BY StartsInStep
<1>2. TypeInv /\ TypeInv' /\ OtherVersionInv /\ [Next]_vars => OtherVersionInv'
  BY OtherVersionStep
<1> QED BY <1>1, <1>2, ReaderFollows, PTL DEF Spec

(* Between peers of one version deserializeMessage never returns an error  *)
(* other than the end of the connection: whatever the messages carry, the  *)
(* version byte and the delimiter too, however long they are, and however  *)
(* their writers interleave. So processTunnelMessages, which goes on after *)
(* such an error, never goes on in the middle of a frame.                  *)
THEOREM ReaderInStep == Spec => []InStep
<1>1. SameVersionInv => InStep
  BY DEF SameVersionInv, InStep
<1> QED BY <1>1, ReaderFollows, PTL

(* The variables of the two sides have their types, and a reader in the    *)
(* body of a message waits for as many bytes as the length said and it has *)
(* not got.                                                                *)
THEOREM TypeCorrect ==
    ASSUME NotTakenForOurs
    PROVE  Spec => []TypeOK
<1>1. TypeInv /\ SameVersionInv /\ OtherVersionInv => TypeOK
  <2> SUFFICES ASSUME TypeInv, SameVersionInv, OtherVersionInv PROVE TypeOK
    OBVIOUS
  <2>1. Len(received) <= MaxMessages
    <3>1. Len(received) \in Nat /\ Len(sent) \in Nat /\ MaxMessages \in Nat
      BY FramingAssumption DEF TypeInv, SenderTypes, ReaderTypes
    <3>2. CASE version = Version
      <4>1. Len(received) <= Len(sent) /\ Len(sent) <= MaxMessages
        BY <3>2 DEF SameVersionInv, TypeInv, SenderTypes
      <4> QED BY <3>1, <4>1
    <3>3. CASE version # Version
      <4>1. Len(received) = 0
        BY <3>3 DEF OtherVersionInv
      <4> QED BY <3>1, <4>1
    <3> QED BY <3>2, <3>3
  <2> QED BY <2>1 DEF TypeInv, SenderTypes, ReaderTypes, AnyFrame, TypeOK
<1> QED BY <1>1, ReaderFollows, OthersAreRefused, PTL

(* A step of the connection is one of the channel or none: SendMessage     *)
(* sends, the last byte of a frame receives.                               *)
LEMMA ChannelStep ==
    TypeInv /\ SameVersionInv /\ OtherVersionInv /\ OtherVersionInv' /\ [Next]_vars =>
        [Channel!Send \/ Channel!Receive]_(Channel!vars)
<1> SUFFICES ASSUME TypeInv, SameVersionInv, OtherVersionInv, OtherVersionInv', [Next]_vars
             PROVE  Channel!Send \/ Channel!Receive \/ UNCHANGED Channel!vars
  BY Zenon
<1>0. version' = version
  BY DEF Next, SendMessage, WriteSome, Cut, ReadByte, ReadVersion, ReadType, ReadLength,
         ReadData, ReadEOF, TakeByte, senderVars, vars
<1>1. CASE version # Version
  <2>1. received = <<>> /\ received' = <<>>
    BY <1>0, <1>1 DEF OtherVersionInv
  <2> QED BY <1>0, <1>1, <2>1 DEF Channel!vars
<1>2. ASSUME sent' = sent, received' = received PROVE UNCHANGED Channel!vars
  BY <1>0, <1>2 DEF Channel!vars
<1>3. ASSUME version = Version,
             NEW w \in Writers, NEW m \in Messages \cup OtherMessages, SendMessage(w, m)
      PROVE  Channel!Send
  <2>1. m \in Messages /\ sent' = Append(sent, m) /\ received' = received
    BY <1>3 DEF SendMessage, readerVars
  <2> QED BY <1>0, <1>3, <2>1 DEF Channel!Send
<1>4. ASSUME version = Version, ReadByte PROVE Channel!Receive \/ UNCHANGED Channel!vars
  <2>1. reader = "reading" /\ stream # <<>> /\ sent' = sent
    BY <1>4 DEF ReadByte, ReadVersion, ReadType, ReadLength, ReadData, Reads, TakeByte, senderVars
  <2>2. /\ Len(received) <= Len(sent)
        /\ frame.at # "version" => Len(received) < Len(sent) /\ Partial(frame, Upcoming)
    BY <1>4, <2>1 DEF SameVersionInv, Upcoming
  <2>3. PICK b \in [0..Len(sent) -> Nat] : Begins(b) /\ Carries(b)
    BY <1>4, <2>1 DEF SameVersionInv
  <2>4. /\ Len(received) < Len(sent) /\ Upcoming \in AnyMessage
        /\ byte = FrameOf(Upcoming)[Consumed(frame) + 1]
    BY <1>4, <2>1, <2>2, <2>3, ByteAhead
  <2>5. Goes(Upcoming)
    BY <1>4, <2>2, <2>4, ReaderGoesOn
  <2>6. CASE Keeps(Upcoming)
    BY <1>2, <2>1, <2>6 DEF Keeps
  <2>7. CASE Completes(Upcoming)
    <3>1. received' = Append(received, sent[Len(received) + 1])
      BY <2>7 DEF Completes, Upcoming
    <3> QED BY <1>0, <1>4, <2>1, <2>4, <3>1 DEF Channel!Receive
  <2> QED BY <2>5, <2>6, <2>7 DEF Goes
<1>5. CASE WriteSome \/ Cut \/ ReadEOF \/ UNCHANGED vars
  BY <1>2, <1>5 DEF WriteSome, Cut, ReadEOF, vars, readerVars, senderVars
<1> QED BY <1>1, <1>3, <1>4, <1>5 DEF Next

(* ReceiveMessage returns the messages of a peer of this version whole,    *)
(* once and in the order of the writes, and none of a peer of another      *)
(* version.                                                                *)
THEOREM ImplementsChannel ==
    ASSUME NotTakenForOurs
    PROVE  Spec => IsChannel
<1>1. Init => Channel!Init
  BY DEF Init, Channel!Init
<1>2. Spec => [](TypeInv /\ SameVersionInv /\ OtherVersionInv)
  BY ReaderFollows, OthersAreRefused, PTL
<1> QED BY <1>1, <1>2, ChannelStep, PTL DEF Spec, IsChannel, Channel!Spec

(* What is asked of the peers of other versions holds whenever this        *)
(* version is neither the delimiter nor a digit or something after the     *)
(* digits, and no byte of the bodies they send has its value: this version *)
(* is 4, those bodies are the names and keys of CREATE_TUNNEL and          *)
(* RECLAIM_TUNNEL, in printable characters, and a heartbeat's is empty.    *)
THEOREM TextIsNotTakenForOurs ==
    ASSUME Version < 48, Version # Delimiter,
           \A m \in OtherMessages : \A i \in 1..Len(m.data) : m.data[i] # Version
    PROVE  NotTakenForOurs
<1> SUFFICES ASSUME NEW v \in OtherVersions, NEW m \in OtherMessages,
                    NEW j \in 1..Len(SerializeMessage(v, m)),
                    SerializeMessage(v, m)[j] = Version
             PROVE  /\ j < Len(SerializeMessage(v, m))
                    /\ SerializeMessage(v, m)[j + 1] \notin 1..LastType
  BY DEF NotTakenForOurs
<1> DEFINE s == SerializeMessage(v, m)
           d == Itoa[Len(m.data)]
<1>1. v \in Byte /\ v # Version /\ m \in AnyMessage
  BY FramingAssumption, MessagesAreTyped
<1>2. Encodes(s, v, m, d)
  BY <1>1, FrameBytes
<1> HIDE DEF s, d
<1>3. PICK x \in Nat, y \in Nat : x = Len(d) /\ x > 0 /\ y = Len(m.data)
  <2>1. Len(d) \in Nat /\ Len(d) > 0
    BY <1>2 DEF Encodes
  <2>2. Len(m.data) \in Nat
    BY <1>1 DEF AnyMessage
  <2> QED BY <2>1, <2>2
<1>4. /\ Len(s) = 3 + x + y /\ d \in Seq(Digits)
      /\ s[1] = v /\ s[2] = m.type /\ s[3 + x] = Delimiter
      /\ \A i \in 1..x : s[2 + i] = d[i]
      /\ \A i \in 1..y : s[3 + x + i] = m.data[i]
  BY <1>2, <1>3 DEF Encodes
<1>5. \A i \in 1..x : s[2 + i] \in Digits
  BY <1>3, <1>4, ElementOfSeq
<1>6. \A c \in Digits : c # Version /\ c \notin 1..LastType
  <2>1. LastType < 48 /\ LastType \in Nat /\ Version \in Nat
    BY FramingAssumption DEF Byte
  <2> QED BY <2>1 DEF Digits
<1>7. j # 1
  BY <1>1, <1>4 DEF s
<1>8. CASE j = 2
  <2>0. x \in Nat /\ y \in Nat /\ x > 0
    BY <1>3, Zenon
  <2>1. 1 \in 1..x /\ j + 1 = 2 + 1 /\ j < 3 + x + y
    BY ONLY <1>8, <2>0
  <2>2. s[2 + 1] \notin 1..LastType
    BY <1>5, <1>6, <2>1
  <2> QED BY <1>4, <2>1, <2>2 DEF s
<1>9. ASSUME NEW i \in 1..x, j = 2 + i PROVE FALSE
  BY <1>5, <1>6, <1>9 DEF s
<1>10. j # 3 + x
  BY <1>4 DEF s
<1>11. ASSUME NEW i \in 1..y, j = 3 + x + i PROVE FALSE
  <2>1. s[3 + x + i] = m.data[i] /\ m.data[i] # Version
    BY <1>3, <1>4
  <2> QED BY <1>11, <2>1 DEF s
<1>12. j = 1 \/ j = 2 \/ (\E i \in 1..x : j = 2 + i) \/ j = 3 + x \/ (\E i \in 1..y : j = 3 + x + i)
  <2>1. j \in 1..(3 + x + y)
    BY <1>4 DEF s
  <2>2. CASE j >= 3 /\ j <= 2 + x
    <3>1. j - 2 \in 1..x /\ j = 2 + (j - 2)
      BY <2>1, <2>2
    <3> QED BY <3>1
  <2>3. CASE j > 3 + x
    <3>1. j - (3 + x) \in 1..y /\ j = 3 + x + (j - (3 + x))
      BY <2>1, <2>3
    <3> QED BY <3>1
  <2> QED BY <2>1, <2>2, <2>3
<1> QED BY <1>7, <1>8, <1>9, <1>10, <1>11, <1>12
=============================================================================
