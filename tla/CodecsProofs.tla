---------------------------- MODULE CodecsProofs ----------------------------
(***************************************************************************)
(* Proofs about Codecs, for values of any length, any number of line       *)
(* breaks, any rooms, any size of the print buffer and any memory behind   *)
(* it: every decoder gives back what the encoder was given, of a text that *)
(* ended inside its buffer; of others it gives that and more.              *)
(*   1. Recursion: FlattenSeq, Kept and the loop of ascii2native are       *)
(*      recursive functions.  Such a function exists and is the only one;  *)
(*      what it computes follows by induction over a set of positions,     *)
(*      which has a least element unless it is empty.                      *)
(*   2. Base64: the digits are the sextets, Octets undoes Sextets, and a   *)
(*      character that is no digit changes nothing, wherever it is.        *)
(*   3. Hexadecimal and escaped text.                                      *)
(*   4. The invariant: what the text holds of the value.                   *)
(***************************************************************************)
EXTENDS Codecs, DataTheorems, FiniteSetTheorems

-----------------------------------------------------------------------------
(* Recursion on the natural numbers. *)

\* A set that holds zero and the successor of each of its naturals holds every
\* natural: its complement would have a least element.
LEMMA NatSetInduction ==
  ASSUME NEW S, 0 \in S, \A n \in Nat : n \in S => n + 1 \in S
  PROVE  Nat \subseteq S
<1>1. SUFFICES ASSUME Nat \ S # {} PROVE FALSE
  OBVIOUS
<1>2. PICK m \in Nat \ S : \A y \in Nat \ S : m <= y
  BY <1>1, MinOfNats
<1>3. m # 0
  BY <1>2
<1>4. m - 1 \in Nat /\ m - 1 + 1 = m /\ ~(m <= m - 1)
  BY <1>2, <1>3
<1>5. m - 1 \in S
  BY <1>2, <1>4
<1> QED BY <1>2, <1>4, <1>5

\* The same up to a bound.
LEMMA RangeInduction ==
  ASSUME NEW n \in Nat, NEW S, 0 \in S, \A i \in 1 .. n : i - 1 \in S => i \in S
  PROVE  0 .. n \subseteq S
<1> DEFINE T == {i \in Nat : i <= n => i \in S}
<1>1. 0 \in T
  OBVIOUS
<1>2. ASSUME NEW i \in Nat, i \in T PROVE i + 1 \in T
  <2>1. CASE i + 1 <= n
    <3>1. i <= n /\ i + 1 \in 1 .. n /\ i + 1 - 1 = i
      BY <2>1
    <3> QED BY <1>2, <3>1
  <2>2. CASE ~(i + 1 <= n)
    BY <2>2
  <2> QED BY <2>1, <2>2
<1> HIDE DEF T
<1>3. Nat \subseteq T
  BY <1>1, <1>2, NatSetInduction
<1> QED BY <1>3 DEF T

\* Two functions that begin alike and go on alike are equal.
Alike(n, f, g) == f[0] = g[0] /\ \A i \in 1 .. n : f[i - 1] = g[i - 1] => f[i] = g[i]

\* They are equal up to there.
LEMMA RecursionUnique ==
  ASSUME NEW n \in Nat, NEW f, NEW g, Alike(n, f, g)
  PROVE  \A i \in 0 .. n : f[i] = g[i]
<1> DEFINE S == {i \in 0 .. n : f[i] = g[i]}
<1>1. 0 \in S /\ \A i \in 1 .. n : i - 1 \in S => i \in S
  BY DEF Alike
<1> HIDE DEF S
<1>2. 0 .. n \subseteq S
  BY <1>1, RangeInduction
<1> QED BY <1>2 DEF S

\* A function on 0..n that begins with a and takes the steps.
RunExists(T, a, n, step) ==
  \E f \in [0 .. n -> T] : f[0] = a /\ \A i \in 1 .. n : f[i] = step[i][f[i - 1]]

\* There is one whenever the steps lead from T to T.
LEMMA RecursionExists ==
  ASSUME NEW T, NEW a \in T, NEW n \in Nat, NEW step \in [1 .. n -> [T -> T]]
  PROVE  RunExists(T, a, n, step)
<1> DEFINE Taken(m, f) == f[0] = a /\ \A i \in 1 .. m : f[i] = step[i][f[i - 1]]
           S == {m \in 0 .. n : \E f \in [0 .. m -> T] : Taken(m, f)}
<1>1. 0 \in S
  <2>1. [i \in 0 .. 0 |-> a] \in [0 .. 0 -> T] /\ Taken(0, [i \in 0 .. 0 |-> a])
    OBVIOUS
  <2> HIDE DEF Taken
  <2>2. \E f \in [0 .. 0 -> T] : Taken(0, f)
    BY <2>1, Zenon
  <2> QED BY <2>2
<1>2. ASSUME NEW m \in 1 .. n, m - 1 \in S PROVE m \in S
  <2>1. PICK f \in [0 .. m - 1 -> T] : Taken(m - 1, f)
    BY <1>2
  <2> DEFINE g == [i \in 0 .. m |-> IF i < m THEN f[i] ELSE step[m][f[m - 1]]]
  <2>2. f[m - 1] \in T /\ step[m] \in [T -> T]
    OBVIOUS
  <2>3. \A i \in 0 .. m - 1 : i \in 0 .. m /\ g[i] = f[i]
    OBVIOUS
  <2>4. g[m] = step[m][f[m - 1]]
    OBVIOUS
  <2>5. g \in [0 .. m -> T]
    <3>1. ASSUME NEW i \in 0 .. m PROVE g[i] \in T
      <4>1. CASE i < m
        <5>1. i \in 0 .. m - 1
          BY <4>1
        <5> QED BY <2>3, <5>1
      <4>2. CASE ~(i < m)
        <5>1. i = m
          BY <4>2
        <5> QED BY <2>2, <2>4, <5>1
      <4> QED BY <4>1, <4>2
    <3> QED BY <3>1
  <2> HIDE DEF g
  <2>6. g[0] = a
    BY <2>1, <2>3
  <2>7. ASSUME NEW i \in 1 .. m PROVE g[i] = step[i][g[i - 1]]
    <3>1. g[i - 1] = f[i - 1]
      BY <2>3
    <3>2. CASE i = m
      BY <2>4, <3>1, <3>2
    <3>3. CASE i # m
      <4>1. i \in 1 .. m - 1
        BY <3>3
      <4> QED BY <2>1, <2>3, <3>1, <4>1
    <3> QED BY <3>2, <3>3
  <2>8. Taken(m, g)
    BY <2>6, <2>7
  <2> HIDE DEF Taken
  <2>9. \E f_1 \in [0 .. m -> T] : Taken(m, f_1)
    BY <2>5, <2>8, Zenon
  <2> QED BY <2>9
<1> HIDE DEF S
<1>3. 0 .. n \subseteq S
  BY <1>1, <1>2, RangeInduction
<1>4. n \in S
  BY <1>3
<1> QED BY <1>4 DEF S, RunExists

\* The parts of a sequence of sequences, put together one by one.
Together(S, seqs, f) ==
  /\ f \in [0 .. Len(seqs) -> Seq(S)]
  /\ f[0] = <<>>
  /\ \A i \in 1 .. Len(seqs) : f[i] = f[i - 1] \o seqs[i]

\* FlattenSeq is what they make in the end.
LEMMA FlattenIs ==
  ASSUME NEW S, NEW seqs \in Seq(Seq(S))
  PROVE  \E f : Together(S, seqs, f) /\ FlattenSeq(seqs) = f[Len(seqs)]
<1> DEFINE n == Len(seqs)
           step == [i \in 1 .. n |-> [x \in Seq(S) |-> x \o seqs[i]]]
<1>1. n \in Nat /\ <<>> \in Seq(S) /\ \A i \in 1 .. n : seqs[i] \in Seq(S)
  OBVIOUS
<1>2. step \in [1 .. n -> [Seq(S) -> Seq(S)]]
  BY <1>1, ConcatProperties
<1>3. PICK f \in [0 .. n -> Seq(S)] : f[0] = <<>> /\ \A i \in 1 .. n : f[i] = step[i][f[i - 1]]
  <2> DEFINE T == Seq(S)
             a == <<>>
  <2>1. n \in Nat /\ a \in T /\ step \in [1 .. n -> [T -> T]]
    BY <1>1, <1>2
  <2> HIDE DEF step, n, T, a
  <2>2. RunExists(T, a, n, step)
    BY <2>1, RecursionExists
  <2> QED BY <2>2 DEF T, a, RunExists
<1>4. \A i \in 1 .. n : f[i] = f[i - 1] \o seqs[i]
  <2>1. SUFFICES ASSUME NEW i \in 1 .. n PROVE f[i] = f[i - 1] \o seqs[i]
    OBVIOUS
  <2>2. f[i - 1] \in Seq(S)
    <3>1. i - 1 \in 0 .. n
      BY <1>1
    <3> QED BY <3>1, Zenon
  <2> QED BY <1>3, <2>2
<1> HIDE DEF step
<1>7. Together(S, seqs, f)
  BY <1>3, <1>4 DEF Together
<1>5. CASE n = 0
  <2>1. seqs = <<>>
    BY <1>5
  <2>2. FlattenSeq(seqs) = seqs
    BY <1>5 DEF FlattenSeq
  <2>3. FlattenSeq(seqs) = f[n]
    BY <1>3, <1>5, <2>1, <2>2
  <2> QED BY <1>7, <2>3
<1>6. CASE n # 0
  <2> DEFINE h == [i \in 1 .. n |-> f[i]]
             next(g) == [i \in 1 .. n |-> IF i = 1 THEN seqs[i] ELSE g[i - 1] \o seqs[i]]
  <2>1. h = next(h)
    <3>1. ASSUME NEW i \in 1 .. n PROVE f[i] = IF i = 1 THEN seqs[i] ELSE h[i - 1] \o seqs[i]
      <4>1. CASE i = 1
        <5>1. f[1] = <<>> \o seqs[1]
          <6>1. f[1] = f[1 - 1] \o seqs[1]
            BY <1>4, <4>1
          <6>2. 1 - 1 = 0 /\ f[0] = <<>>
            BY <1>3
          <6> QED BY <6>1, <6>2, Zenon
        <5>2. <<>> \o seqs[1] = seqs[1]
          <6>1. seqs[1] \in Seq(S)
            BY <1>1, <1>6
          <6> QED BY <6>1, ConcatEmptySeq
        <5> QED BY <4>1, <5>1, <5>2
      <4>2. CASE i # 1
        <5>1. i - 1 \in 1 .. n
          BY <4>2
        <5> QED BY <1>4, <4>2, <5>1
      <4> QED BY <4>1, <4>2
    <3> QED BY <3>1
  <2>2. \E g : g = next(g) /\ FlattenSeq(seqs) = g[n]
    BY <1>6, <2>1 DEF FlattenSeq
  <2>3. PICK g : g = next(g) /\ FlattenSeq(seqs) = g[n]
    BY <2>2
  <2>4. \A i \in 1 .. n : g[i] = IF i = 1 THEN seqs[i] ELSE g[i - 1] \o seqs[i]
    BY <2>3
  <2>5. \A i \in 1 .. n : h[i] = IF i = 1 THEN seqs[i] ELSE h[i - 1] \o seqs[i]
    BY <2>1
  <2>6. \A i \in 1 .. n : h[i] = f[i]
    OBVIOUS
  <2> HIDE DEF h, next
  <2> DEFINE T == {i \in 0 .. n : i = 0 \/ g[i] = h[i]}
  <2>7. 0 .. n \subseteq T
    <3>1. 0 \in T
      OBVIOUS
    <3>2. ASSUME NEW i \in 1 .. n, i - 1 \in T PROVE i \in T
      <4>1. CASE i = 1
        BY <2>4, <2>5, <4>1
      <4>2. CASE i # 1
        BY <2>4, <2>5, <3>2, <4>2
      <4> QED BY <4>1, <4>2
    <3> HIDE DEF T
    <3> QED BY <1>1, <3>1, <3>2, RangeInduction
  <2>8. g[n] = f[n]
    <3>1. n \in 0 .. n /\ n \in 1 .. n
      BY <1>1, <1>6
    <3>2. n \in T
      BY <2>7, <3>1, Zenon
    <3>3. g[n] = h[n]
      BY <1>6, <3>2
    <3>4. h[n] = f[n]
      BY <2>6, <3>1, Zenon
    <3> QED BY <3>3, <3>4
  <2>9. FlattenSeq(seqs) = f[n]
    BY <2>3, <2>8
  <2> QED BY <1>7, <2>9
<1> QED BY <1>5, <1>6

\* InsertAt puts one element in: the others stay, in their order.
LEMMA InsertIs ==
  ASSUME NEW S, NEW s \in Seq(S), NEW at \in 1 .. Len(s) + 1, NEW e \in S
  PROVE  /\ InsertAt(s, at, e) \in Seq(S)
         /\ Len(InsertAt(s, at, e)) = Len(s) + 1
         /\ \A i \in 1 .. Len(s) + 1 :
              InsertAt(s, at, e)[i] = IF i < at THEN s[i] ELSE IF i = at THEN e ELSE s[i - 1]
<1>1. PICK n \in Nat : n = Len(s) /\ at \in 1 .. n + 1
  BY LenProperties
<1>2. PICK m \in 0 .. n : m + 1 = at /\ m = at - 1
  <2>1. at - 1 \in 0 .. n
    BY <1>1
  <2> QED BY <2>1
<1> DEFINE A == SubSeq(s, 1, m)
           B == SubSeq(s, m + 1, n)
           C == A \o <<e>>
<1>3. A \in Seq(S) /\ Len(A) = m /\ \A i \in 1 .. m : A[i] = s[i]
  BY <1>1, BeginningIs
<1>4. B \in Seq(S) /\ Len(B) = n - m /\ \A i \in 1 .. n - m : B[i] = s[m + i]
  BY <1>1, RemainderIs
<1>5. InsertAt(s, at, e) = C \o B
  BY <1>1, <1>2 DEF InsertAt
<1> HIDE DEF A, B
<1>6. <<e>> \in Seq(S) /\ Len(<<e>>) = 1 /\ <<e>>[1] = e
  OBVIOUS
<1>7. /\ C \in Seq(S) /\ Len(C) = m + 1
      /\ \A i \in 1 .. m + 1 : C[i] = IF i <= m THEN A[i] ELSE <<e>>[i - m]
  BY <1>3, <1>6, ConcatProperties
<1> HIDE DEF C
<1>8. /\ C \o B \in Seq(S) /\ Len(C \o B) = Len(C) + Len(B)
      /\ \A i \in 1 .. Len(C) + Len(B) : (C \o B)[i] = IF i <= Len(C) THEN C[i] ELSE B[i - Len(C)]
  BY <1>4, <1>7, ConcatProperties
<1>9. Len(C) + Len(B) = n + 1
  BY <1>4, <1>7
<1>10. ASSUME NEW i \in 1 .. n + 1
       PROVE  (C \o B)[i] = IF i < at THEN s[i] ELSE IF i = at THEN e ELSE s[i - 1]
  <2>1. (C \o B)[i] = IF i <= m + 1 THEN C[i] ELSE B[i - (m + 1)]
    BY <1>7, <1>8, <1>9
  <2>2. CASE i < at
    <3>1. i \in 1 .. m /\ i <= m + 1 /\ i \in 1 .. m + 1
      BY <1>2, <2>2
    <3>2. C[i] = A[i] /\ A[i] = s[i]
      BY <1>3, <1>7, <3>1
    <3> QED BY <2>1, <2>2, <3>1, <3>2
  <2>3. CASE i = at
    <3>1. i = m + 1 /\ i \in 1 .. m + 1 /\ ~(i <= m) /\ i - m = 1
      BY <1>2, <2>3
    <3>2. C[i] = <<e>>[i - m]
      BY <1>7, <3>1
    <3>3. C[i] = e
      BY <1>6, <3>1, <3>2
    <3> QED BY <2>1, <2>3, <3>1, <3>3
  <2>4. CASE ~(i < at) /\ i # at
    <3>1. i - (m + 1) \in 1 .. n - m /\ m + (i - (m + 1)) = i - 1 /\ ~(i <= m + 1)
      BY <1>2, <2>4
    <3>2. B[i - (m + 1)] = s[i - 1]
      BY <1>4, <3>1
    <3> QED BY <2>1, <2>4, <3>1, <3>2
  <2> QED BY <2>2, <2>3, <2>4
<1> QED BY <1>1, <1>5, <1>8, <1>9, <1>10

-----------------------------------------------------------------------------
(* The loop of base64_decode that skips what is no digit. *)

Value == 0 .. 255

\* What the loop has kept after each character.
KeptAfter(values, f) ==
  /\ f \in [0 .. Len(values) -> Seq(Value)]
  /\ f[0] = <<>>
  /\ \A i \in 1 .. Len(values) :
       f[i] = IF values[i] = 255 THEN f[i - 1] ELSE Append(f[i - 1], values[i])

\* Kept is what it has kept in the end.
LEMMA KeptIs ==
  ASSUME NEW values \in Seq(Value)
  PROVE  \E f : KeptAfter(values, f) /\ Kept(values) = f[Len(values)]
<1> DEFINE n == Len(values)
           piece(i) == IF values[i] = 255 THEN << >> ELSE << values[i] >>
           pieces == [i \in DOMAIN values |-> piece(i)]
<1>1. n \in Nat /\ DOMAIN values = 1 .. n /\ \A i \in 1 .. n : values[i] \in Value
  OBVIOUS
<1>2. \A i \in 1 .. n : piece(i) \in Seq(Value)
  BY <1>1
<1> HIDE DEF piece
<1>3. pieces \in Seq(Seq(Value)) /\ Len(pieces) = n /\ \A i \in 1 .. n : pieces[i] = piece(i)
  BY <1>1, <1>2
<1>4. Kept(values) = FlattenSeq(pieces)
  BY DEF Kept, piece
<1> HIDE DEF pieces
<1>5. PICK f : Together(Value, pieces, f) /\ Kept(values) = f[n]
  BY <1>3, <1>4, FlattenIs
<1>50. /\ f \in [0 .. n -> Seq(Value)] /\ f[0] = <<>>
       /\ \A i \in 1 .. n : f[i] = f[i - 1] \o pieces[i]
  BY <1>3, <1>5 DEF Together
<1>6. ASSUME NEW i \in 1 .. n
      PROVE  f[i] = IF values[i] = 255 THEN f[i - 1] ELSE Append(f[i - 1], values[i])
  <2>1. i - 1 \in 0 .. n
    BY <1>1
  <2>2. f[i - 1] \in Seq(Value)
    BY <1>50, <2>1, Zenon
  <2>3. f[i] = f[i - 1] \o piece(i)
    BY <1>3, <1>50
  <2>4. CASE values[i] = 255
    <3>1. f[i - 1] \o <<>> = f[i - 1]
      BY <2>2, ConcatEmptySeq
    <3> QED BY <2>3, <2>4, <3>1 DEF piece
  <2>5. CASE values[i] # 255
    <3>1. Append(f[i - 1], values[i]) = f[i - 1] \o <<values[i]>>
      BY <1>1, <2>2, AppendIsConcat
    <3> QED BY <2>3, <2>5, <3>1 DEF piece
  <2> QED BY <2>4, <2>5
<1> HIDE DEF n
<1>7. KeptAfter(values, f)
  BY <1>6, <1>50 DEF KeptAfter, n
<1> QED BY <1>5, <1>7 DEF n

\* A character that is no digit changes nothing, wherever it is put in.
LEMMA KeptOfInsert ==
  ASSUME NEW values \in Seq(Value), NEW at \in 1 .. Len(values) + 1
  PROVE  Kept(InsertAt(values, at, 255)) = Kept(values)
<1> DEFINE longer == InsertAt(values, at, 255)
<1>1. 255 \in Value
  BY DEF Value
<1>2. PICK n \in Nat : n = Len(values) /\ at \in 1 .. n + 1
  BY LenProperties
<1>3. /\ longer \in Seq(Value) /\ Len(longer) = n + 1
      /\ \A i \in 1 .. n + 1 : longer[i] = IF i < at THEN values[i] ELSE IF i = at THEN 255 ELSE values[i - 1]
  <2>1. /\ longer \in Seq(Value) /\ Len(longer) = Len(values) + 1
        /\ \A i \in 1 .. Len(values) + 1 :
             longer[i] = IF i < at THEN values[i] ELSE IF i = at THEN 255 ELSE values[i - 1]
    BY <1>1, InsertIs
  <2> HIDE DEF longer
  <2> QED BY <1>2, <2>1
<1> HIDE DEF longer
<1>4. PICK f : KeptAfter(values, f) /\ Kept(values) = f[n]
  BY <1>2, KeptIs
<1>5. PICK g : KeptAfter(longer, g) /\ Kept(longer) = g[n + 1]
  BY <1>3, KeptIs
<1> DEFINE h == [i \in 0 .. n + 1 |-> IF i < at THEN f[i] ELSE f[i - 1]]
<1>6. /\ f[0] = <<>>
      /\ \A i \in 1 .. n : f[i] = IF values[i] = 255 THEN f[i - 1] ELSE Append(f[i - 1], values[i])
  BY <1>2, <1>4 DEF KeptAfter
<1>7. /\ g[0] = <<>>
      /\ \A i \in 1 .. n + 1 : g[i] = IF longer[i] = 255 THEN g[i - 1] ELSE Append(g[i - 1], longer[i])
  BY <1>3, <1>5 DEF KeptAfter
<1>8. \A i \in 0 .. n + 1 : h[i] = IF i < at THEN f[i] ELSE f[i - 1]
  OBVIOUS
<1> HIDE DEF h
<1>9. g[0] = h[0]
  <2>1. 0 < at /\ 0 \in 0 .. n + 1
    BY <1>2
  <2> QED BY <1>6, <1>7, <1>8, <2>1
<1>10. ASSUME NEW i \in 1 .. n + 1, g[i - 1] = h[i - 1] PROVE g[i] = h[i]
  <2>1. i - 1 \in 0 .. n + 1 /\ i \in 0 .. n + 1
    BY <1>2
  <2>2. CASE i < at
    <3>1. i \in 1 .. n /\ i - 1 < at
      BY <1>2, <2>2
    <3>2. g[i - 1] = f[i - 1] /\ h[i] = f[i] /\ longer[i] = values[i]
      BY <1>3, <1>8, <1>10, <2>1, <2>2, <3>1
    <3> QED BY <1>6, <1>7, <3>1, <3>2
  <2>3. CASE i = at
    <3>1. i - 1 < at /\ ~(i < at)
      BY <1>2, <2>3
    <3>2. g[i - 1] = f[i - 1] /\ h[i] = f[i - 1] /\ longer[i] = 255
      BY <1>3, <1>8, <1>10, <2>1, <2>3, <3>1
    <3> QED BY <1>7, <3>2
  <2>4. CASE ~(i < at) /\ i # at
    <3>1. i - 1 \in 1 .. n /\ ~(i - 1 < at)
      BY <1>2, <2>4
    <3>2. g[i - 1] = f[(i - 1) - 1] /\ h[i] = f[i - 1] /\ longer[i] = values[i - 1]
      BY <1>3, <1>8, <1>10, <2>1, <2>4, <3>1
    <3>3. g[i] = IF longer[i] = 255 THEN g[i - 1] ELSE Append(g[i - 1], longer[i])
      BY <1>7
    <3>4. f[i - 1] = IF values[i - 1] = 255 THEN f[(i - 1) - 1] ELSE Append(f[(i - 1) - 1], values[i - 1])
      BY <1>6, <3>1
    <3> QED BY <3>2, <3>3, <3>4, Zenon
  <2> QED BY <2>2, <2>3, <2>4
<1>11. \A i \in 0 .. n + 1 : g[i] = h[i]
  <2>1. PICK m \in Nat : m = n + 1
    OBVIOUS
  <2>2. \A i \in 1 .. m : g[i - 1] = h[i - 1] => g[i] = h[i]
    BY <1>10, <2>1
  <2>3. Alike(m, g, h)
    BY <1>9, <2>2 DEF Alike
  <2>4. \A i \in 0 .. m : g[i] = h[i]
    BY <2>3, RecursionUnique
  <2> QED BY <2>1, <2>4
<1>12. n + 1 \in 0 .. n + 1 /\ ~(n + 1 < at) /\ n + 1 - 1 = n
  BY <1>2
<1>13. h[n + 1] = f[n]
  BY <1>8, <1>12
<1> QED BY <1>4, <1>5, <1>11, <1>12, <1>13 DEF longer

\* The loop over a sequence of values of which only the last ones are 255.
LEMMA KeptOfDigits ==
  ASSUME NEW values \in Seq(Value), NEW m \in 0 .. Len(values),
         \A i \in 1 .. Len(values) : values[i] = 255 <=> i > m
  PROVE  Kept(values) = SubSeq(values, 1, m)
<1>1. PICK n \in Nat : n = Len(values) /\ m \in 0 .. n
  BY LenProperties
<1>2. PICK f : KeptAfter(values, f) /\ Kept(values) = f[n]
  BY <1>1, KeptIs
<1>3. /\ f[0] = <<>>
      /\ \A i \in 1 .. n : f[i] = IF values[i] = 255 THEN f[i - 1] ELSE Append(f[i - 1], values[i])
  BY <1>1, <1>2 DEF KeptAfter
<1> DEFINE front(i) == SubSeq(values, 1, i)
           h == [i \in 0 .. n |-> IF i <= m THEN front(i) ELSE front(m)]
<1> HIDE DEF front
<1>4. \A i \in 0 .. n : h[i] = IF i <= m THEN front(i) ELSE front(m)
  OBVIOUS
<1> HIDE DEF h
<1>5. f[0] = h[0]
  <2>1. 0 <= m /\ 0 \in 0 .. n
    BY <1>1
  <2>2. front(0) = <<>>
    <3>1. 0 \in 0 .. Len(values)
      BY <1>1
    <3>2. SubSeq(values, 1, 0) \in Seq(Value) /\ Len(SubSeq(values, 1, 0)) = 0
      BY <3>1, BeginningIs
    <3> QED BY <3>2 DEF front
  <2> QED BY <1>3, <1>4, <2>1, <2>2
<1>6. ASSUME NEW i \in 1 .. n, f[i - 1] = h[i - 1] PROVE f[i] = h[i]
  <2>1. i - 1 \in 0 .. n /\ i \in 0 .. n /\ i \in 1 .. Len(values)
    BY <1>1
  <2>2. CASE i <= m
    <3>1. i - 1 <= m /\ ~(i > m)
      BY <1>1, <2>2
    <3>2. f[i] = Append(front(i - 1), values[i])
      <4>1. h[i - 1] = front(i - 1)
        BY <1>4, <2>1, <3>1
      <4>2. values[i] # 255
        BY <1>1, <2>1, <3>1
      <4>3. f[i] = IF values[i] = 255 THEN f[i - 1] ELSE Append(f[i - 1], values[i])
        BY <1>3
      <4>4. f[i] = Append(f[i - 1], values[i])
        BY <4>2, <4>3
      <4>5. f[i - 1] = front(i - 1)
        BY <1>6, <4>1
      <4> QED BY <4>4, <4>5
    <3>3. front(i) = Append(front(i - 1), values[i])
      <4> DEFINE A == SubSeq(values, 1, i - 1)
                 B == SubSeq(values, 1, i)
      <4>1. A \in Seq(Value) /\ Len(A) = i - 1 /\ \A j \in 1 .. i - 1 : A[j] = values[j]
        BY <1>1, <2>1, BeginningIs
      <4>2. B \in Seq(Value) /\ Len(B) = i /\ \A j \in 1 .. i : B[j] = values[j]
        BY <1>1, <2>1, BeginningIs
      <4> HIDE DEF A, B
      <4>3. values[i] \in Value
        BY <2>1
      <4>4. /\ Append(A, values[i]) \in Seq(Value) /\ Len(Append(A, values[i])) = i
            /\ \A j \in 1 .. i - 1 : Append(A, values[i])[j] = A[j]
            /\ Append(A, values[i])[i] = values[i]
        BY <4>1, <4>3, AppendProperties
      <4>5. ASSUME NEW j \in 1 .. i PROVE B[j] = Append(A, values[i])[j]
        <5>1. CASE j = i
          BY <4>2, <4>4, <5>1
        <5>2. CASE j # i
          <6>1. j \in 1 .. i - 1
            BY <5>2
          <6> QED BY <4>1, <4>2, <4>4, <6>1
        <5> QED BY <5>1, <5>2
      <4>6. B = Append(A, values[i])
        BY <4>2, <4>4, <4>5, SeqEqual
      <4> QED BY <4>6 DEF A, B, front
    <3> QED BY <1>4, <2>1, <2>2, <3>2, <3>3
  <2>3. CASE ~(i <= m)
    <3>1. values[i] = 255
      BY <1>1, <2>1, <2>3
    <3>2. f[i] = h[i - 1]
      BY <1>3, <1>6, <3>1
    <3>3. CASE i - 1 <= m
      <4>1. i - 1 = m
        BY <1>1, <2>3, <3>3
      <4> QED BY <1>4, <2>1, <2>3, <3>2, <3>3, <4>1
    <3>4. CASE ~(i - 1 <= m)
      BY <1>4, <2>1, <2>3, <3>2, <3>4
    <3> QED BY <3>3, <3>4
  <2> QED BY <2>2, <2>3
<1>7. Alike(n, f, h)
  BY <1>5, <1>6 DEF Alike
<1>8. f[n] = h[n]
  <2>1. \A i \in 0 .. n : f[i] = h[i]
    BY <1>7, RecursionUnique
  <2> QED BY <1>1, <2>1
<1>9. h[n] = front(m)
  <2>1. n \in 0 .. n
    BY <1>1
  <2>2. CASE n <= m
    <3>1. n = m
      BY <1>1, <2>2
    <3> QED BY <1>4, <2>1, <3>1
  <2>3. CASE ~(n <= m)
    BY <1>4, <2>1, <2>3
  <2> QED BY <2>2, <2>3
<1> QED BY <1>2, <1>8, <1>9 DEF front

-----------------------------------------------------------------------------
(* The digits of Base64. *)

Sextet == 0 .. 63

\* The digits of two sextets differ, and none is the pad or a line break.
LEMMA DigitOfSextet ==
  /\ \A v \in Sextet : base64str(v) \in Nat /\ base64str(v) # Pad /\ base64str(v) # LineBreak
  /\ \A v, w \in Sextet : base64str(v) = base64str(w) => v = w
<1>1. ASSUME NEW v \in Sextet
      PROVE  base64str(v) = IF v < 26 THEN 65 + v ELSE IF v < 52 THEN 71 + v
                            ELSE IF v < 62 THEN v - 4 ELSE IF v = 62 THEN 43 ELSE 47
  <2>1. v \in Nat /\ v <= 63
    BY DEF Sextet
  <2>2. CASE v < 26
    BY <2>1, <2>2 DEF base64str
  <2>3. CASE v \in 26 .. 51
    BY <2>1, <2>3 DEF base64str
  <2>4. CASE v \in 52 .. 61
    BY <2>1, <2>4 DEF base64str
  <2>5. CASE v = 62
    BY <2>1, <2>5 DEF base64str
  <2>6. CASE v = 63
    BY <2>1, <2>6 DEF base64str
  <2> QED BY <2>1, <2>2, <2>3, <2>4, <2>5, <2>6
<1>2. ASSUME NEW v \in Sextet
      PROVE  base64str(v) \in Nat /\ base64str(v) # Pad /\ base64str(v) # LineBreak
  BY <1>1 DEF Sextet, Pad, LineBreak
<1>3. ASSUME NEW v \in Sextet, NEW w \in Sextet, base64str(v) = base64str(w)
      PROVE  v = w
  BY <1>1, <1>3 DEF Sextet
<1> QED BY <1>2, <1>3

\* The table finds the sextet of a digit, and nothing for '=' and line breaks.
LEMMA TableInverts ==
  /\ \A v \in Sextet : BASE64_DECODE_TABLE(base64str(v)) = v
  /\ BASE64_DECODE_TABLE(Pad) = 255
  /\ BASE64_DECODE_TABLE(LineBreak) = 255
<1>1. ASSUME NEW v \in Sextet PROVE BASE64_DECODE_TABLE(base64str(v)) = v
  <2> DEFINE values == {w \in 0 .. 63 : base64str(w) = base64str(v)}
  <2>1. v \in values /\ \A w \in values : w = v
    BY DigitOfSextet DEF Sextet
  <2>2. values # {} /\ (CHOOSE w \in values : TRUE) = v
    <3> HIDE DEF values
    <3> QED BY <2>1
  <2> QED BY <2>2 DEF BASE64_DECODE_TABLE
<1>2. ASSUME NEW c \in {Pad, LineBreak} PROVE BASE64_DECODE_TABLE(c) = 255
  <2>1. {w \in 0 .. 63 : base64str(w) = c} = {}
    BY DigitOfSextet DEF Sextet
  <2> QED BY <2>1 DEF BASE64_DECODE_TABLE
<1> QED BY <1>1, <1>2

\* The table gives numbers up to 255 for whatever character.
LEMMA TableType ==
  ASSUME NEW c PROVE BASE64_DECODE_TABLE(c) \in Value
<1> DEFINE values == {w \in 0 .. 63 : base64str(w) = c}
<1>1. CASE values = {}
  BY <1>1 DEF BASE64_DECODE_TABLE, Value
<1>2. CASE values # {}
  <2>1. (CHOOSE w \in values : TRUE) \in values
    BY <1>2
  <2>2. BASE64_DECODE_TABLE(c) = CHOOSE w \in values : TRUE
    BY <1>2 DEF BASE64_DECODE_TABLE
  <2>3. \A w \in values : w \in 0 .. 63
    OBVIOUS
  <2>4. \A w \in 0 .. 63 : w \in Value
    BY DEF Value
  <2> HIDE DEF values
  <2> QED BY <2>1, <2>2, <2>3, <2>4
<1> QED BY <1>1, <1>2

\* The number of sextets of n octets, by how many octets the last group has.
LEMMA SextetCount ==
  ASSUME NEW g \in Nat
  PROVE  /\ (8 * (3 * g) + 5) \div 6 = 4 * g
         /\ (8 * (3 * g + 1) + 5) \div 6 = 4 * g + 2
         /\ (8 * (3 * g + 2) + 5) \div 6 = 4 * g + 3
BY SMT

\* A number of octets is so many groups of three and a rest.
LEMMA Groups ==
  ASSUME NEW n \in Nat
  PROVE  \E g \in Nat : n = 3 * g \/ n = 3 * g + 1 \/ n = 3 * g + 2
<1>1. n \div 3 \in Nat /\ (n = 3 * (n \div 3) \/ n = 3 * (n \div 3) + 1 \/ n = 3 * (n \div 3) + 2)
  BY SMT
<1> QED BY <1>1

\* The four sextets of group g, as far as there are octets for them.
LEMMA SextetsIs ==
  ASSUME NEW s \in Seq(Octet), NEW g \in Nat
  PROVE  LET m == (8 * Len(s) + 5) \div 6
             octet(i) == IF i <= Len(s) THEN s[i] ELSE 0
         IN  /\ Len(Sextets(s)) = m /\ m \in Nat
             /\ 4 * g + 1 <= m => Sextets(s)[4 * g + 1] = octet(3 * g + 1) \div 4
             /\ 4 * g + 2 <= m => Sextets(s)[4 * g + 2] = (octet(3 * g + 1) % 4) * 16 + octet(3 * g + 2) \div 16
             /\ 4 * g + 3 <= m => Sextets(s)[4 * g + 3] = (octet(3 * g + 2) % 16) * 4 + octet(3 * g + 3) \div 64
             /\ 4 * g + 4 <= m => Sextets(s)[4 * g + 4] = octet(3 * g + 3) % 64
<1>1. PICK n \in Nat : n = Len(s)
  BY LenProperties
<1>2. PICK m \in Nat : m = (8 * n + 5) \div 6
  <2>1. (8 * n + 5) \div 6 \in Nat
    BY SMT
  <2> QED BY <2>1
<1> DEFINE octet(i) == IF i <= n THEN s[i] ELSE 0
           first(k) == 3 * ((k - 1) \div 4) + 1
           sextet(k) ==
             CASE k % 4 = 1 -> octet(first(k)) \div 4
               [] k % 4 = 2 -> (octet(first(k)) % 4) * 16 + octet(first(k) + 1) \div 16
               [] k % 4 = 3 -> (octet(first(k) + 1) % 16) * 4 + octet(first(k) + 2) \div 64
               [] k % 4 = 0 -> octet(first(k) + 2) % 64
<1>3. Sextets(s) = [k \in 1 .. m |-> sextet(k)]
  BY <1>1, <1>2 DEF Sextets
<1>4. Len(Sextets(s)) = m
  <2> HIDE DEF sextet
  <2> QED BY <1>3
<1>5. \A k \in 1 .. m : Sextets(s)[k] = sextet(k)
  <2> HIDE DEF sextet
  <2> QED BY <1>3
<1>6. /\ (4 * g + 1) % 4 = 1 /\ first(4 * g + 1) = 3 * g + 1
      /\ (4 * g + 2) % 4 = 2 /\ first(4 * g + 2) = 3 * g + 1
      /\ (4 * g + 3) % 4 = 3 /\ first(4 * g + 3) = 3 * g + 1
      /\ (4 * g + 4) % 4 = 0 /\ first(4 * g + 4) = 3 * g + 1
  BY SMT
<1>7. 3 * g + 1 + 1 = 3 * g + 2 /\ 3 * g + 1 + 2 = 3 * g + 3
  OBVIOUS
<1> HIDE DEF octet, first
<1>8. /\ sextet(4 * g + 1) = octet(3 * g + 1) \div 4
      /\ sextet(4 * g + 2) = (octet(3 * g + 1) % 4) * 16 + octet(3 * g + 2) \div 16
      /\ sextet(4 * g + 3) = (octet(3 * g + 2) % 16) * 4 + octet(3 * g + 3) \div 64
      /\ sextet(4 * g + 4) = octet(3 * g + 3) % 64
  <2>1. sextet(4 * g + 1) = octet(3 * g + 1) \div 4
    BY <1>6
  <2>2. sextet(4 * g + 2) = (octet(3 * g + 1) % 4) * 16 + octet(3 * g + 2) \div 16
    BY <1>6, <1>7
  <2>3. sextet(4 * g + 3) = (octet(3 * g + 2) % 16) * 4 + octet(3 * g + 3) \div 64
    BY <1>6, <1>7
  <2>4. sextet(4 * g + 4) = octet(3 * g + 3) % 64
    BY <1>6, <1>7
  <2> QED BY <2>1, <2>2, <2>3, <2>4
<1> HIDE DEF sextet
<1>9. \A k \in {4 * g + 1, 4 * g + 2, 4 * g + 3, 4 * g + 4} : k <= m => Sextets(s)[k] = sextet(k)
  BY <1>5
<1> QED BY <1>1, <1>2, <1>4, <1>8, <1>9 DEF octet

\* The shifts of the encoder, undone by those of the decoder.
LEMMA ShiftsUndone ==
  ASSUME NEW x \in Octet, NEW y \in Octet
  PROVE  /\ x \div 4 \in Sextet /\ x % 64 \in Sextet
         /\ (x % 4) * 16 + y \div 16 \in Sextet
         /\ (x % 16) * 4 + y \div 64 \in Sextet
         /\ (x \div 4) * 4 + ((x % 4) * 16 + y \div 16) \div 16 = x
         /\ ((x % 16) * 4 + y \div 64) \div 4 = x % 16
         /\ ((x % 16) * 4 + y \div 64) % 4 = y \div 64
         /\ ((x % 4) * 16 + y \div 16) % 16 = y \div 16
         /\ (y \div 16) * 16 + (y % 16) = y
         /\ (y \div 64) * 64 + (y % 64) = y
<1>2. x \div 4 \in Sextet /\ x % 64 \in Sextet
  BY SMT DEF Octet, Sextet
<1>3. (x % 4) * 16 + y \div 16 \in Sextet
  BY SMT DEF Octet, Sextet
<1>4. (x % 16) * 4 + y \div 64 \in Sextet
  BY SMT DEF Octet, Sextet
<1>5. (x \div 4) * 4 + ((x % 4) * 16 + y \div 16) \div 16 = x
  BY SMT DEF Octet
<1>6. ((x % 4) * 16 + y \div 16) % 16 = y \div 16
  BY SMT DEF Octet
<1>8. (y \div 16) * 16 + (y % 16) = y /\ (y \div 64) * 64 + (y % 64) = y
  BY SMT DEF Octet
<1>9. ((x % 16) * 4 + y \div 64) \div 4 = x % 16 /\ ((x % 16) * 4 + y \div 64) % 4 = y \div 64
  BY SMT DEF Octet
<1> QED BY <1>2, <1>3, <1>4, <1>5, <1>6, <1>8, <1>9

\* The sextets of octets.
LEMMA SextetsType ==
  ASSUME NEW s \in Seq(Octet)
  PROVE  Sextets(s) \in Seq(Sextet)
<1>1. PICK n \in Nat : n = Len(s)
  BY LenProperties
<1>2. PICK m \in Nat : m = (8 * n + 5) \div 6
  <2>1. (8 * n + 5) \div 6 \in Nat
    BY SMT
  <2> QED BY <2>1
<1> DEFINE octet(i) == IF i <= n THEN s[i] ELSE 0
<1>3. \A i \in Nat \ {0} : octet(i) \in Octet
  BY <1>1 DEF Octet
<1> HIDE DEF octet
<1>4. ASSUME NEW k \in 1 .. m PROVE Sextets(s)[k] \in Sextet
  <2>1. PICK g \in Nat : k \in {4 * g + 1, 4 * g + 2, 4 * g + 3, 4 * g + 4}
    <3>1. (k - 1) \div 4 \in Nat /\ k - 1 - 4 * ((k - 1) \div 4) \in 0 .. 3
      BY SMT
    <3> QED BY <3>1
  <2>2. /\ 4 * g + 1 <= m => Sextets(s)[4 * g + 1] = octet(3 * g + 1) \div 4
        /\ 4 * g + 2 <= m => Sextets(s)[4 * g + 2] = (octet(3 * g + 1) % 4) * 16 + octet(3 * g + 2) \div 16
        /\ 4 * g + 3 <= m => Sextets(s)[4 * g + 3] = (octet(3 * g + 2) % 16) * 4 + octet(3 * g + 3) \div 64
        /\ 4 * g + 4 <= m => Sextets(s)[4 * g + 4] = octet(3 * g + 3) % 64
    BY <1>1, <1>2, SextetsIs, SMTT(30) DEF octet
  <2>3. octet(3 * g + 1) \in Octet /\ octet(3 * g + 2) \in Octet /\ octet(3 * g + 3) \in Octet
    BY <1>3
  <2>4. /\ octet(3 * g + 1) \div 4 \in Sextet
        /\ (octet(3 * g + 1) % 4) * 16 + octet(3 * g + 2) \div 16 \in Sextet
        /\ (octet(3 * g + 2) % 16) * 4 + octet(3 * g + 3) \div 64 \in Sextet
        /\ octet(3 * g + 3) % 64 \in Sextet
    BY <2>3, ShiftsUndone
  <2> QED BY <2>1, <2>2, <2>4
<1>5. Len(Sextets(s)) = m
  BY <1>1, <1>2, SextetsIs
<1>6. \E e : Sextets(s) = [k \in 1 .. m |-> e[k]]
  <2> DEFINE first(k) == 3 * ((k - 1) \div 4) + 1
             sextet(k) ==
               CASE k % 4 = 1 -> octet(first(k)) \div 4
                 [] k % 4 = 2 -> (octet(first(k)) % 4) * 16 + octet(first(k) + 1) \div 16
                 [] k % 4 = 3 -> (octet(first(k) + 1) % 16) * 4 + octet(first(k) + 2) \div 64
                 [] k % 4 = 0 -> octet(first(k) + 2) % 64
  <2>1. Sextets(s) = [k \in 1 .. m |-> sextet(k)]
    BY <1>1, <1>2 DEF Sextets, octet
  <2> HIDE DEF sextet
  <2>2. Sextets(s) = [k \in 1 .. m |-> Sextets(s)[k]]
    BY <2>1
  <2> QED BY <2>2
<1> QED BY <1>4, <1>6

\* Octets undoes Sextets: the tail of one or two octets comes back from the
\* number of sextets alone.
THEOREM OctetsOfSextets ==
  ASSUME NEW s \in Seq(Octet)
  PROVE  Octets(Sextets(s)) = s
<1>1. PICK n \in Nat : n = Len(s)
  BY LenProperties
<1>2. PICK m \in Nat : m = (8 * n + 5) \div 6 /\ m = Len(Sextets(s))
  BY <1>1, SextetsIs
<1>3. (6 * m) \div 8 = n
  BY <1>2, SMT
<1> DEFINE z == Sextets(s)
           first(k) == 4 * ((k - 1) \div 3) + 1
           octet(k) ==
             CASE k % 3 = 1 -> z[first(k)] * 4 + z[first(k) + 1] \div 16
               [] k % 3 = 2 -> (z[first(k) + 1] % 16) * 16 + z[first(k) + 2] \div 4
               [] k % 3 = 0 -> (z[first(k) + 2] % 4) * 64 + z[first(k) + 3]
<1> HIDE DEF z
<1>4. Octets(z) = [k \in 1 .. n |-> octet(k)]
  BY <1>2, <1>3 DEF Octets, z
<1> DEFINE known(i) == IF i <= n THEN s[i] ELSE 0
<1>5. \A i \in Nat \ {0} : known(i) \in Octet
  BY <1>1 DEF Octet
<1>6. \A i \in 1 .. n : known(i) = s[i]
  OBVIOUS
<1> HIDE DEF known
<1>7. ASSUME NEW k \in 1 .. n PROVE octet(k) = s[k]
  <2>1. PICK g \in Nat : k \in {3 * g + 1, 3 * g + 2, 3 * g + 3}
    <3>1. (k - 1) \div 3 \in Nat /\ k - 1 - 3 * ((k - 1) \div 3) \in 0 .. 2
      BY SMT
    <3> QED BY <3>1
  <2>2. /\ 4 * g + 1 <= m => z[4 * g + 1] = known(3 * g + 1) \div 4
        /\ 4 * g + 2 <= m => z[4 * g + 2] = (known(3 * g + 1) % 4) * 16 + known(3 * g + 2) \div 16
        /\ 4 * g + 3 <= m => z[4 * g + 3] = (known(3 * g + 2) % 16) * 4 + known(3 * g + 3) \div 64
        /\ 4 * g + 4 <= m => z[4 * g + 4] = known(3 * g + 3) % 64
    BY <1>1, <1>2, SextetsIs, SMTT(30) DEF known, z
  <2>3. PICK x \in Octet : x = known(3 * g + 1)
    BY <1>5
  <2>4. PICK y \in Octet : y = known(3 * g + 2)
    BY <1>5
  <2>5. PICK w \in Octet : w = known(3 * g + 3)
    BY <1>5
  <2>6. CASE k = 3 * g + 1
    <3>1. k % 3 = 1 /\ first(k) = 4 * g + 1 /\ 4 * g + 1 + 1 = 4 * g + 2
      BY <2>6, SMT
    <3>2. 4 * g + 2 <= m
      BY <1>2, <2>6, SMT
    <3>3. 4 * g + 1 <= m
      BY <3>2
    <3>4. octet(k) = z[4 * g + 1] * 4 + z[4 * g + 2] \div 16
      <4> HIDE DEF first
      <4> QED BY <3>1
    <3>5. octet(k) = (x \div 4) * 4 + ((x % 4) * 16 + y \div 16) \div 16
      <4> HIDE DEF octet, first
      <4> QED BY <2>2, <2>3, <2>4, <3>2, <3>3, <3>4
    <3>6. octet(k) = x
      <4> HIDE DEF octet, first
      <4> QED BY <3>5, ShiftsUndone
    <3> QED BY <1>6, <2>3, <2>6, <3>6
  <2>7. CASE k = 3 * g + 2
    <3>1. k % 3 = 2 /\ first(k) = 4 * g + 1 /\ 4 * g + 1 + 1 = 4 * g + 2 /\ 4 * g + 1 + 2 = 4 * g + 3
      BY <2>7, SMT
    <3>2. 4 * g + 3 <= m
      BY <1>2, <2>7, SMT
    <3>3. 4 * g + 2 <= m
      BY <3>2
    <3>4. octet(k) = (z[4 * g + 2] % 16) * 16 + z[4 * g + 3] \div 4
      <4> HIDE DEF first
      <4> QED BY <3>1
    <3>5. octet(k) = (((x % 4) * 16 + y \div 16) % 16) * 16 + ((y % 16) * 4 + w \div 64) \div 4
      <4> HIDE DEF octet, first
      <4> QED BY <2>2, <2>3, <2>4, <2>5, <3>2, <3>3, <3>4
    <3>6. ((x % 4) * 16 + y \div 16) % 16 = y \div 16 /\ ((y % 16) * 4 + w \div 64) \div 4 = y % 16
      BY ShiftsUndone
    <3>7. octet(k) = (y \div 16) * 16 + (y % 16)
      <4> HIDE DEF octet, first
      <4> QED BY <3>5, <3>6
    <3>8. octet(k) = y
      <4> HIDE DEF octet, first
      <4> QED BY <3>7, ShiftsUndone
    <3> QED BY <1>6, <2>4, <2>7, <3>8
  <2>8. CASE k = 3 * g + 3
    <3>1. k % 3 = 0 /\ first(k) = 4 * g + 1 /\ 4 * g + 1 + 2 = 4 * g + 3 /\ 4 * g + 1 + 3 = 4 * g + 4
      BY <2>8, SMT
    <3>2. 4 * g + 4 <= m
      BY <1>2, <2>8, SMT
    <3>3. 4 * g + 3 <= m
      BY <3>2
    <3>4. octet(k) = (z[4 * g + 3] % 4) * 64 + z[4 * g + 4]
      <4> HIDE DEF first
      <4> QED BY <3>1
    <3>5. octet(k) = (((y % 16) * 4 + w \div 64) % 4) * 64 + (w % 64)
      <4> HIDE DEF octet, first
      <4> QED BY <2>2, <2>4, <2>5, <3>2, <3>3, <3>4
    <3>6. ((y % 16) * 4 + w \div 64) % 4 = w \div 64
      BY ShiftsUndone
    <3>7. octet(k) = (w \div 64) * 64 + (w % 64)
      <4> HIDE DEF octet, first
      <4> QED BY <3>5, <3>6
    <3>8. octet(k) = w
      <4> HIDE DEF octet, first
      <4> QED BY <3>7, ShiftsUndone
    <3> QED BY <1>6, <2>5, <2>8, <3>8
  <2> QED BY <2>1, <2>6, <2>7, <2>8
<1> HIDE DEF octet
<1>8. Octets(z) = [k \in 1 .. n |-> s[k]]
  BY <1>4, <1>7
<1>9. s = [k \in 1 .. n |-> s[k]]
  BY <1>1
<1> QED BY <1>8, <1>9 DEF z

-----------------------------------------------------------------------------
(* The text of base64_encode and what base64_decode makes of it. *)

Needed(s) == ((Len(s) + 2) \div 3) * 4

Base64Text(s) ==
  [k \in 1 .. Needed(s) |-> IF k <= Len(Sextets(s)) THEN base64str(Sextets(s)[k]) ELSE Pad]

Values(t) == [i \in DOMAIN t |-> BASE64_DECODE_TABLE(t[i])]

\* How many characters there are, and how many of them are digits.
LEMMA TextLength ==
  ASSUME NEW s \in Seq(Octet)
  PROVE  \E g \in Nat :
           \/ Len(s) = 3 * g /\ Needed(s) = 4 * g /\ Len(Sextets(s)) = 4 * g
           \/ Len(s) = 3 * g + 1 /\ Needed(s) = 4 * g + 4 /\ Len(Sextets(s)) = 4 * g + 2
           \/ Len(s) = 3 * g + 2 /\ Needed(s) = 4 * g + 4 /\ Len(Sextets(s)) = 4 * g + 3
<1>1. PICK n \in Nat : n = Len(s)
  BY LenProperties
<1>2. PICK g \in Nat : n = 3 * g \/ n = 3 * g + 1 \/ n = 3 * g + 2
  BY Groups
<1>3. Len(Sextets(s)) = (8 * n + 5) \div 6
  BY <1>1, SextetsIs
<1>4. /\ (8 * (3 * g) + 5) \div 6 = 4 * g
      /\ (8 * (3 * g + 1) + 5) \div 6 = 4 * g + 2
      /\ (8 * (3 * g + 2) + 5) \div 6 = 4 * g + 3
  BY SextetCount
<1>5. /\ ((3 * g + 2) \div 3) * 4 = 4 * g
      /\ ((3 * g + 1 + 2) \div 3) * 4 = 4 * g + 4
      /\ ((3 * g + 2 + 2) \div 3) * 4 = 4 * g + 4
  BY SMT
<1>6. Needed(s) = ((n + 2) \div 3) * 4
  BY <1>1 DEF Needed
<1>7. CASE n = 3 * g
  BY <1>1, <1>3, <1>4, <1>5, <1>6, <1>7
<1>8. CASE n = 3 * g + 1
  BY <1>1, <1>3, <1>4, <1>5, <1>6, <1>8
<1>9. CASE n = 3 * g + 2
  BY <1>1, <1>3, <1>4, <1>5, <1>6, <1>9
<1> QED BY <1>2, <1>7, <1>8, <1>9

\* The text of base64_encode: the digits of the sextets, then pads.
LEMMA Base64TextIs ==
  ASSUME NEW s \in Seq(Octet)
  PROVE  /\ Base64Text(s) \in Seq(Nat)
         /\ Len(Base64Text(s)) = Needed(s)
         /\ Needed(s) \in Nat
         /\ Len(Sextets(s)) \in 0 .. Needed(s)
         /\ \A k \in 1 .. Needed(s) :
              BASE64_DECODE_TABLE(Base64Text(s)[k]) = IF k <= Len(Sextets(s)) THEN Sextets(s)[k] ELSE 255
<1>1. PICK m \in Nat : m = Len(Sextets(s))
  BY SextetsType, LenProperties
<1>2. Needed(s) \in Nat /\ m \in 0 .. Needed(s)
  <2>1. PICK g \in Nat :
           \/ Len(s) = 3 * g /\ Needed(s) = 4 * g /\ Len(Sextets(s)) = 4 * g
           \/ Len(s) = 3 * g + 1 /\ Needed(s) = 4 * g + 4 /\ Len(Sextets(s)) = 4 * g + 2
           \/ Len(s) = 3 * g + 2 /\ Needed(s) = 4 * g + 4 /\ Len(Sextets(s)) = 4 * g + 3
    BY TextLength
  <2> QED BY <1>1, <2>1
<1> DEFINE N == Needed(s)
           z == Sextets(s)
           char(k) == IF k <= m THEN base64str(z[k]) ELSE Pad
<1>3. \A k \in 1 .. m : z[k] \in Sextet
  BY <1>1, SextetsType
<1>4. Base64Text(s) = [k \in 1 .. N |-> char(k)]
  BY <1>1 DEF Base64Text
<1> HIDE DEF N, z
<1>5. ASSUME NEW k \in 1 .. N
      PROVE  char(k) \in Nat /\ BASE64_DECODE_TABLE(char(k)) = IF k <= m THEN z[k] ELSE 255
  <2>1. CASE k <= m
    <3>1. k \in 1 .. m
      BY <2>1
    <3>2. z[k] \in Sextet
      BY <1>3, <3>1
    <3> QED BY <2>1, <3>2, DigitOfSextet, TableInverts
  <2>2. CASE ~(k <= m)
    <3>1. Pad \in Nat
      BY DEF Pad
    <3> QED BY <2>2, <3>1, TableInverts
  <2> QED BY <2>1, <2>2
<1> HIDE DEF char
<1>6. Base64Text(s) \in Seq(Nat) /\ Len(Base64Text(s)) = N
  BY <1>2, <1>4, <1>5 DEF N
<1>7. \A k \in 1 .. N : Base64Text(s)[k] = char(k)
  BY <1>4
<1> QED BY <1>1, <1>2, <1>5, <1>6, <1>7 DEF N, z

\* The digits of the encoder's text are its sextets.
LEMMA KeptOfText ==
  ASSUME NEW s \in Seq(Octet)
  PROVE  Kept(Values(Base64Text(s))) = Sextets(s)
<1> DEFINE t == Base64Text(s)
           v == Values(t)
           z == Sextets(s)
<1>1. PICK N \in Nat : N = Needed(s)
  BY Base64TextIs
<1>2. PICK m \in 0 .. N : m = Len(z)
  BY <1>1, Base64TextIs
<1>3. t \in Seq(Nat) /\ Len(t) = N /\ DOMAIN t = 1 .. N
  BY <1>1, Base64TextIs
<1>4. \A k \in 1 .. N : BASE64_DECODE_TABLE(t[k]) = IF k <= m THEN z[k] ELSE 255
  BY <1>1, <1>2, Base64TextIs
<1>5. z \in Seq(Sextet) /\ \A k \in 1 .. m : z[k] \in Sextet
  BY <1>2, SextetsType
<1> HIDE DEF t, z
<1>6. v = [k \in 1 .. N |-> BASE64_DECODE_TABLE(t[k])]
  BY <1>3 DEF Values
<1>7. \A k \in 1 .. N : BASE64_DECODE_TABLE(t[k]) \in Value
  BY TableType
<1> HIDE DEF v
<1>8. v \in Seq(Value) /\ Len(v) = N /\ \A k \in 1 .. N : v[k] = IF k <= m THEN z[k] ELSE 255
  BY <1>4, <1>6, <1>7
<1>9. ASSUME NEW k \in 1 .. N PROVE v[k] = 255 <=> k > m
  <2>1. CASE k <= m
    <3>1. ~(k > m) /\ k \in 1 .. m
      BY <2>1
    <3>2. v[k] \in Sextet
      BY <1>5, <1>8, <3>1
    <3>3. \A x \in Sextet : x # 255
      BY DEF Sextet
    <3> QED BY <3>1, <3>2, <3>3
  <2>2. CASE ~(k <= m)
    <3>1. k > m
      BY <2>2
    <3>2. v[k] = 255
      BY <1>8, <2>2
    <3> QED BY <3>1, <3>2
  <2> QED BY <2>1, <2>2
<1>10. Kept(v) = SubSeq(v, 1, m)
  BY <1>8, <1>9, KeptOfDigits
<1>11. SubSeq(v, 1, m) \in Seq(Value) /\ Len(SubSeq(v, 1, m)) = m /\ \A k \in 1 .. m : SubSeq(v, 1, m)[k] = v[k]
  BY <1>8, BeginningIs
<1>12. z \in Seq(Value)
  <2>1. Sextet \subseteq Value
    BY DEF Sextet, Value
  <2> QED BY <1>5, <2>1
<1>13. \A k \in 1 .. m : SubSeq(v, 1, m)[k] = z[k]
  BY <1>8, <1>11
<1> DEFINE w == SubSeq(v, 1, m)
<1> HIDE DEF w
<1>14. w = z
  BY <1>2, <1>11, <1>12, <1>13, SeqEqual DEF w
<1> QED BY <1>10, <1>14 DEF v, t, z, w

\* A caller that gets a text gets this one.
LEMMA EncodeGives ==
  ASSUME NEW s \in Seq(Octet), NEW room \in Nat, base64_encode(room, s).ret # -1
  PROVE  base64_encode(room, s).text = Base64Text(s)
BY DEF base64_encode, Base64Text, Needed

\* A line break in the text is a 255 among the values.
LEMMA ValuesOfInsert ==
  ASSUME NEW t \in Seq(Nat), NEW at \in 1 .. Len(t) + 1
  PROVE  /\ Values(t) \in Seq(Value) /\ Len(Values(t)) = Len(t)
         /\ Values(InsertAt(t, at, LineBreak)) = InsertAt(Values(t), at, 255)
<1>1. PICK n \in Nat : n = Len(t) /\ at \in 1 .. n + 1
  BY LenProperties
<1> DEFINE v == Values(t)
           u == InsertAt(t, at, LineBreak)
           w == InsertAt(v, at, 255)
<1>2. LineBreak \in Nat /\ 255 \in Value
  BY DEF LineBreak, Value
<1>3. v \in Seq(Value) /\ Len(v) = n /\ \A i \in 1 .. n : v[i] = BASE64_DECODE_TABLE(t[i])
  <2>1. v = [i \in 1 .. n |-> BASE64_DECODE_TABLE(t[i])]
    BY <1>1 DEF Values
  <2> HIDE DEF v
  <2> QED BY <1>1, <2>1, TableType
<1>4. /\ u \in Seq(Nat) /\ Len(u) = n + 1
      /\ \A i \in 1 .. n + 1 : u[i] = IF i < at THEN t[i] ELSE IF i = at THEN LineBreak ELSE t[i - 1]
  <2> HIDE DEF u
  <2>1. /\ u \in Seq(Nat) /\ Len(u) = Len(t) + 1
        /\ \A i \in 1 .. Len(t) + 1 : u[i] = IF i < at THEN t[i] ELSE IF i = at THEN LineBreak ELSE t[i - 1]
    BY <1>2, InsertIs DEF u
  <2> QED BY <1>1, <2>1
<1> HIDE DEF v, u
<1>5. /\ w \in Seq(Value) /\ Len(w) = n + 1
      /\ \A i \in 1 .. n + 1 : w[i] = IF i < at THEN v[i] ELSE IF i = at THEN 255 ELSE v[i - 1]
  BY <1>1, <1>2, <1>3, InsertIs
<1> HIDE DEF w
<1> DEFINE x == Values(u)
<1>6. x \in Seq(Value) /\ Len(x) = n + 1 /\ \A i \in 1 .. n + 1 : x[i] = BASE64_DECODE_TABLE(u[i])
  <2>1. x = [i \in 1 .. n + 1 |-> BASE64_DECODE_TABLE(u[i])]
    BY <1>4 DEF Values
  <2> HIDE DEF x
  <2> QED BY <2>1, TableType
<1> HIDE DEF x
<1>7. ASSUME NEW i \in 1 .. n + 1 PROVE x[i] = w[i]
  <2>1. CASE i < at
    <3>1. i \in 1 .. n
      BY <1>1, <2>1
    <3>2. u[i] = t[i] /\ w[i] = v[i]
      BY <1>4, <1>5, <2>1
    <3>3. v[i] = BASE64_DECODE_TABLE(t[i]) /\ x[i] = BASE64_DECODE_TABLE(u[i])
      BY <1>3, <1>6, <3>1
    <3> QED BY <3>2, <3>3
  <2>2. CASE i = at
    <3>1. u[i] = LineBreak /\ w[i] = 255
      BY <1>1, <1>4, <1>5, <2>2
    <3> QED BY <1>6, <3>1, TableInverts
  <2>3. CASE ~(i < at) /\ i # at
    <3>1. i - 1 \in 1 .. n
      BY <1>1, <2>3
    <3>2. u[i] = t[i - 1] /\ w[i] = v[i - 1]
      BY <1>4, <1>5, <2>3
    <3> QED BY <1>3, <1>6, <3>1, <3>2
  <2> QED BY <2>1, <2>2, <2>3
<1>8. x = w
  BY <1>5, <1>6, <1>7, SeqEqual
<1> QED BY <1>1, <1>3, <1>8 DEF v, u, w, x

\* The size check asks for no more than there are characters, but for three.
LEMMA RoomIsEnough ==
  ASSUME NEW n \in Nat
  PROVE  RoomAsked(n) <= n \/ (n = 3 /\ RoomAsked(n) = 4)
<1>1. n % 4 \in 0 .. 3
  BY SMT
<1>2. CASE n % 4 = 0
  <2>1. RoomAsked(n) = (n * 3) \div 4
    BY <1>2 DEF RoomAsked
  <2>2. (n * 3) \div 4 <= n
    BY SMT
  <2> QED BY <2>1, <2>2
<1>3. CASE n % 4 = 1
  <2>1. RoomAsked(n) = 1
    BY <1>3 DEF RoomAsked
  <2>2. 1 <= n
    BY <1>3, SMT
  <2> QED BY <2>1, <2>2
<1>4. CASE n % 4 = 2
  <2>1. RoomAsked(n) = (n * 3) \div 4 + 1
    BY <1>4 DEF RoomAsked
  <2>2. (n * 3) \div 4 + 1 <= n
    BY <1>4, SMT
  <2> QED BY <2>1, <2>2
<1>5. CASE n % 4 = 3
  <2>1. RoomAsked(n) = (n * 3) \div 4 + 2
    BY <1>5 DEF RoomAsked
  <2>2. n # 3 => (n * 3) \div 4 + 2 <= n
    BY <1>5, SMT
  <2>3. (3 * 3) \div 4 + 2 = 4
    BY SMT
  <2> QED BY <2>1, <2>2, <2>3
<1> QED BY <1>1, <1>2, <1>3, <1>4, <1>5

\* base64_decode of a text with these digits gives the octets back.
LEMMA DecodeGives ==
  ASSUME NEW s \in Seq(Octet), NEW t \in Seq(Nat), NEW room \in Nat, room >= Len(t),
         Kept(Values(t)) = Sextets(s), Len(t) >= Needed(s)
  PROVE  /\ base64_decode(room, t).raw = s
         /\ base64_decode(room, t).ret = IF s = <<>> /\ Len(t) = 3 /\ room = 3 THEN -1 ELSE Len(s)
<1>1. PICK n \in Nat : n = Len(t) /\ room >= n /\ n >= Needed(s)
  BY LenProperties
<1>2. Octets(Kept(Values(t))) = s
  BY OctetsOfSextets
<1>3. base64_decode(room, t) = IF RoomAsked(n) > room THEN [ret |-> -1, raw |-> << >>] ELSE [ret |-> Len(s), raw |-> s]
  BY <1>1, <1>2 DEF base64_decode, Values
<1>4. n = 3 => s = <<>>
  <2>1. PICK g \in Nat :
           \/ Len(s) = 3 * g /\ Needed(s) = 4 * g /\ Len(Sextets(s)) = 4 * g
           \/ Len(s) = 3 * g + 1 /\ Needed(s) = 4 * g + 4 /\ Len(Sextets(s)) = 4 * g + 2
           \/ Len(s) = 3 * g + 2 /\ Needed(s) = 4 * g + 4 /\ Len(Sextets(s)) = 4 * g + 3
    BY TextLength
  <2>2. n = 3 => Len(s) = 0
    BY <1>1, <2>1
  <2> QED BY <2>2
<1>5. CASE n = 3 /\ RoomAsked(n) = 4
  <2>1. s = <<>> /\ Len(s) = 0
    BY <1>4, <1>5
  <2>2. RoomAsked(n) > room <=> room = 3
    BY <1>1, <1>5
  <2>3. CASE room = 3
    BY <1>1, <1>3, <1>5, <2>1, <2>2, <2>3
  <2>4. CASE room # 3
    BY <1>1, <1>3, <1>5, <2>1, <2>2, <2>4
  <2> QED BY <2>3, <2>4
<1>6. CASE RoomAsked(n) <= n
  <2>1. PICK r \in Int : r = RoomAsked(n)
    <3>1. RoomAsked(n) \in Int
      <4>1. n % 4 \in 0 .. 3 /\ (n * 3) \div 4 \in Int
        BY SMT
      <4> QED BY <4>1 DEF RoomAsked
    <3> QED BY <3>1
  <2>2. ~(RoomAsked(n) > room)
    BY <1>1, <1>6, <2>1
  <2>3. ~(n = 3)
    <3>1. RoomAsked(3) = 4
      <4>1. 3 % 4 = 3 /\ (3 * 3) \div 4 + 2 = 4
        BY SMT
      <4> QED BY <4>1 DEF RoomAsked
    <3> QED BY <1>6, <3>1
  <2> QED BY <1>1, <1>3, <2>2, <2>3
<1> QED BY <1>5, <1>6, RoomIsEnough

-----------------------------------------------------------------------------
(* The blocks of util.c. *)

\* The octets of four sextets.
LEMMA OctetsOfFour ==
  ASSUME NEW w \in Seq(Sextet), Len(w) = 4
  PROVE  /\ Octets(w) \in Seq(Int)
         /\ Len(Octets(w)) = 3
         /\ Octets(w)[1] = w[1] * 4 + w[2] \div 16
         /\ Octets(w)[2] = (w[2] % 16) * 16 + w[3] \div 4
         /\ Octets(w)[3] = (w[3] % 4) * 64 + w[4]
<1> DEFINE first(k) == 4 * ((k - 1) \div 3) + 1
           octet(k) ==
             CASE k % 3 = 1 -> w[first(k)] * 4 + w[first(k) + 1] \div 16
               [] k % 3 = 2 -> (w[first(k) + 1] % 16) * 16 + w[first(k) + 2] \div 4
               [] k % 3 = 0 -> (w[first(k) + 2] % 4) * 64 + w[first(k) + 3]
<1>1. (6 * 4) \div 8 = 3
  BY SMT
<1>2. Octets(w) = [k \in 1 .. 3 |-> octet(k)]
  BY <1>1 DEF Octets
<1>3. /\ 1 % 3 = 1 /\ first(1) = 1
      /\ 2 % 3 = 2 /\ first(2) = 1
      /\ 3 % 3 = 0 /\ first(3) = 1
  BY SMT
<1> HIDE DEF first
<1>4. /\ octet(1) = w[1] * 4 + w[2] \div 16
      /\ octet(2) = (w[2] % 16) * 16 + w[3] \div 4
      /\ octet(3) = (w[3] % 4) * 64 + w[4]
  BY <1>3
<1>5. \A i \in 1 .. 4 : w[i] \in Int
  <2>1. \A x \in Sextet : x \in Int
    BY DEF Sextet
  <2>2. \A i \in 1 .. 4 : w[i] \in Sextet
    OBVIOUS
  <2> QED BY <2>1, <2>2
<1> HIDE DEF octet
<1>6. octet(1) \in Int /\ octet(2) \in Int /\ octet(3) \in Int
  <2>1. PICK a \in Int : a = w[1]
    BY <1>5
  <2>2. PICK b \in Int : b = w[2]
    BY <1>5
  <2>3. PICK c \in Int : c = w[3]
    BY <1>5
  <2>4. PICK d \in Int : d = w[4]
    BY <1>5
  <2>5. octet(1) = a * 4 + b \div 16 /\ octet(2) = (b % 16) * 16 + c \div 4 /\ octet(3) = (c % 4) * 64 + d
    BY <1>4, <2>1, <2>2, <2>3, <2>4
  <2>6. b \div 16 \in Int /\ c \div 4 \in Int /\ b % 16 \in Int /\ c % 4 \in Int
    BY SMT
  <2> QED BY <2>5, <2>6
<1>7. \A k \in 1 .. 3 : octet(k) \in Int
  <2>1. \A k \in 1 .. 3 : k = 1 \/ k = 2 \/ k = 3
    OBVIOUS
  <2> QED BY <1>6, <2>1
<1>8. Octets(w) \in Seq(Int) /\ Len(Octets(w)) = 3
  BY <1>2, <1>7
<1>9. Octets(w)[1] = octet(1) /\ Octets(w)[2] = octet(2) /\ Octets(w)[3] = octet(3)
  BY <1>2
<1> QED BY <1>4, <1>8, <1>9

\* The text is so many blocks, the last of which lacks e octets.
Framed(s, B, e) ==
  /\ Len(s) = 3 * B - e /\ Needed(s) = 4 * B /\ Len(Sextets(s)) = 4 * B - e
  /\ B = 0 => e = 0

\* Every text of base64_encode is.
LEMMA Blocks ==
  ASSUME NEW s \in Seq(Octet)
  PROVE  \E B \in Nat : \E e \in 0 .. 2 : Framed(s, B, e)
<1>1. PICK g \in Nat :
         \/ Len(s) = 3 * g /\ Needed(s) = 4 * g /\ Len(Sextets(s)) = 4 * g
         \/ Len(s) = 3 * g + 1 /\ Needed(s) = 4 * g + 4 /\ Len(Sextets(s)) = 4 * g + 2
         \/ Len(s) = 3 * g + 2 /\ Needed(s) = 4 * g + 4 /\ Len(Sextets(s)) = 4 * g + 3
  BY TextLength
<1>2. Framed(s, g, 0) \/ Framed(s, g + 1, 2) \/ Framed(s, g + 1, 1)
  BY <1>1 DEF Framed
<1>3. g \in Nat /\ g + 1 \in Nat /\ 0 \in 0 .. 2 /\ 1 \in 0 .. 2 /\ 2 \in 0 .. 2
  OBVIOUS
<1> QED BY <1>2, <1>3, Zenon

\* Block b of the encoder's text, and how many octets it lacks.
TextBlock(s, b) == SubSeq(Base64Text(s), 4 * b - 3, 4 * b)
Lacks(B, e, b) == IF b < B THEN 0 ELSE e

\* The decoder finds its padding and the octets it stands for.
LEMMA BlockGives ==
  ASSUME NEW s \in Seq(Octet), NEW B \in Nat, NEW e \in 0 .. 2,
         Framed(s, B, e), NEW b \in 1 .. B
  PROVE  /\ BlockPad(TextBlock(s, b)) = Lacks(B, e, b)
         /\ base64_block_to_octet_triple(TextBlock(s, b)) =
              SubSeq(s, 3 * (b - 1) + 1, 3 * (b - 1) + (3 - Lacks(B, e, b)))
<1> DEFINE t == Base64Text(s)
           z == Sextets(s)
           block == SubSeq(t, 4 * b - 3, 4 * b)
<1>0. PICK m \in Nat : m = 4 * B - e /\ m = Len(Sextets(s))
  <2>1. Len(Sextets(s)) \in Nat
    BY SextetsType, LenProperties
  <2> QED BY <2>1 DEF Framed
<1>1. PICK p \in 0 .. 2 : p = IF b < B THEN 0 ELSE e
  OBVIOUS
<1>2. PICK g \in Nat : g = b - 1 /\ b = g + 1
  <2>1. b - 1 \in Nat /\ b = b - 1 + 1
    OBVIOUS
  <2> QED BY <2>1
<1>3. t \in Seq(Nat) /\ Len(t) = 4 * B
      /\ \A k \in 1 .. 4 * B : BASE64_DECODE_TABLE(t[k]) = IF k <= m THEN z[k] ELSE 255
  <2>1. /\ Base64Text(s) \in Seq(Nat)
        /\ Len(Base64Text(s)) = Needed(s)
        /\ \A k \in 1 .. Needed(s) :
              BASE64_DECODE_TABLE(Base64Text(s)[k]) = IF k <= Len(Sextets(s)) THEN Sextets(s)[k] ELSE 255
    BY Base64TextIs
  <2>2. Needed(s) = 4 * B
    BY DEF Framed
  <2> QED BY <1>0, <2>1, <2>2
<1>4. /\ block \in Seq(Nat) /\ Len(block) = 4
      /\ \A i \in 1 .. 4 : block[i] = t[4 * g + i]
  <2>1. PICK a \in Nat : a = 4 * g
    OBVIOUS
  <2>2. a + 4 <= Len(t) /\ 4 * b - 3 = a + 1 /\ 4 * b = a + 4
    BY <1>2, <1>3, <2>1
  <2> HIDE DEF t
  <2>3. block = SubSeq(t, a + 1, a + 4)
    BY <2>2
  <2> HIDE DEF block
  <2>4. /\ SubSeq(t, a + 1, a + 4) \in Seq(Nat)
        /\ Len(SubSeq(t, a + 1, a + 4)) = 4
        /\ \A i \in 1 .. 4 : SubSeq(t, a + 1, a + 4)[i] = t[a + i]
    <3>1. 4 \in Nat
      OBVIOUS
    <3> QED BY <1>3, <2>2, <3>1, PieceIs
  <2> QED BY <2>1, <2>3, <2>4
<1> HIDE DEF t, z, block
<1>5. ASSUME NEW i \in 1 .. 4
      PROVE  BASE64_DECODE_TABLE(block[i]) = IF i <= 4 - p THEN z[4 * g + i] ELSE 255
  <2>1. 4 * g + i \in 1 .. 4 * B /\ (4 * g + i <= m <=> i <= 4 - p)
    <3>1. CASE b < B
      BY <1>0, <1>1, <1>2, <3>1
    <3>2. CASE ~(b < B)
      <4>1. b = B
        BY <3>2
      <4> QED BY <1>0, <1>1, <1>2, <4>1
    <3> QED BY <3>1, <3>2
  <2>2. PICK k \in 1 .. 4 * B : k = 4 * g + i /\ (k <= m <=> i <= 4 - p)
    BY <2>1
  <2>3. block[i] = t[k]
    BY <1>4, <2>2
  <2>4. BASE64_DECODE_TABLE(t[k]) = IF k <= m THEN z[k] ELSE 255
    BY <1>3
  <2>5. CASE k <= m
    BY <2>2, <2>3, <2>4, <2>5
  <2>6. CASE ~(k <= m)
    BY <2>2, <2>3, <2>4, <2>6
  <2> QED BY <2>5, <2>6
<1>6. \A i \in 1 .. 4 - p : z[4 * g + i] \in Sextet
  <2>1. z \in Seq(Sextet) /\ Len(z) = m
    BY <1>0, SextetsType DEF z
  <2>2. \A i \in 1 .. 4 - p : 4 * g + i \in 1 .. m
    <3>1. CASE b < B
      BY <1>0, <1>1, <1>2, <3>1
    <3>2. CASE ~(b < B)
      <4>1. b = B
        BY <3>2
      <4> QED BY <1>0, <1>1, <1>2, <4>1
    <3> QED BY <3>1, <3>2
  <2> QED BY <2>1, <2>2
<1>7. \A x \in Sextet : x # 255
  BY DEF Sextet
<1>8. \A i \in 1 .. 4 : BASE64_DECODE_TABLE(block[i]) = 255 <=> i > 4 - p
  <2>1. SUFFICES ASSUME NEW i \in 1 .. 4 PROVE BASE64_DECODE_TABLE(block[i]) = 255 <=> i > 4 - p
    OBVIOUS
  <2>2. CASE i <= 4 - p
    <3>1. i \in 1 .. 4 - p /\ ~(i > 4 - p)
      BY <1>1, <2>2
    <3> QED BY <1>5, <1>6, <1>7, <2>2, <3>1
  <2>3. CASE ~(i <= 4 - p)
    <3>1. i > 4 - p
      BY <1>1, <2>3
    <3> QED BY <1>5, <2>3, <3>1
  <2> QED BY <2>2, <2>3
<1>9. BlockPad(block) = p
  <2>1. {i \in 1 .. 4 : BASE64_DECODE_TABLE(block[i]) = 255} = (5 - p) .. 4
    <3>1. \A i \in 1 .. 4 : i > 4 - p <=> i \in (5 - p) .. 4
      BY <1>1
    <3>2. (5 - p) .. 4 \subseteq 1 .. 4
      BY <1>1
    <3> QED BY <1>8, <3>1, <3>2
  <2>2. Cardinality((5 - p) .. 4) = IF 5 - p > 4 THEN 0 ELSE 4 - (5 - p) + 1
    <3>1. 5 - p \in Int /\ 4 \in Int
      BY <1>1
    <3> QED BY <3>1, FS_Interval
  <2>3. Cardinality((5 - p) .. 4) = p
    BY <1>1, <2>2
  <2> QED BY <2>1, <2>3 DEF BlockPad
<1> DEFINE sextet(i) == IF BASE64_DECODE_TABLE(block[i]) = 255 THEN 0 ELSE BASE64_DECODE_TABLE(block[i])
           w == [i \in 1 .. 4 |-> sextet(i)]
<1>10. ASSUME NEW i \in 1 .. 4 PROVE sextet(i) = IF i <= 4 - p THEN z[4 * g + i] ELSE 0
  <2>1. CASE i <= 4 - p
    <3>1. ~(i > 4 - p)
      BY <1>1, <2>1
    <3>2. BASE64_DECODE_TABLE(block[i]) # 255
      BY <1>8, <3>1
    <3>3. BASE64_DECODE_TABLE(block[i]) = z[4 * g + i]
      BY <1>5, <2>1
    <3>4. sextet(i) = BASE64_DECODE_TABLE(block[i])
      BY <3>2
    <3> HIDE DEF sextet
    <3> QED BY <2>1, <3>3, <3>4
  <2>2. CASE ~(i <= 4 - p)
    <3>1. i > 4 - p
      BY <1>1, <2>2
    <3> QED BY <1>8, <2>2, <3>1
  <2> QED BY <2>1, <2>2
<1>11. \A i \in 1 .. 4 : sextet(i) \in Sextet
  <2>1. SUFFICES ASSUME NEW i \in 1 .. 4 PROVE sextet(i) \in Sextet
    OBVIOUS
  <2>2. CASE i <= 4 - p
    <3>1. i \in 1 .. 4 - p
      BY <1>1, <2>2
    <3> HIDE DEF sextet
    <3> QED BY <1>6, <1>10, <2>2, <3>1
  <2>3. CASE ~(i <= 4 - p)
    <3>1. 0 \in Sextet
      BY DEF Sextet
    <3> HIDE DEF sextet
    <3> QED BY <1>10, <2>3, <3>1
  <2> QED BY <2>2, <2>3
<1>12. base64_block_to_octet_triple(block) = SubSeq(Octets(w), 1, 3 - p)
  <2>1. (IF p >= 2 THEN 1 ELSE 3 - p) = 3 - p
    BY <1>1
  <2> QED BY <1>9, <2>1 DEF base64_block_to_octet_triple
<1> HIDE DEF sextet
<1>13. w \in Seq(Sextet) /\ Len(w) = 4 /\ \A i \in 1 .. 4 : w[i] = sextet(i)
  BY <1>11
<1> HIDE DEF w
<1> DEFINE o == Octets(w)
<1>14. /\ o \in Seq(Int) /\ Len(o) = 3
       /\ o[1] = w[1] * 4 + w[2] \div 16
       /\ o[2] = (w[2] % 16) * 16 + w[3] \div 4
       /\ o[3] = (w[3] % 4) * 64 + w[4]
  BY <1>13, OctetsOfFour
<1> HIDE DEF o
<1>15. PICK n \in Nat : n = Len(s) /\ 3 * g + (3 - p) <= n /\ 4 * g + (4 - p) <= m
  <2>1. PICK n \in Nat : n = Len(s) /\ n = 3 * B - e
    BY LenProperties DEF Framed
  <2>2. 3 * g + (3 - p) <= n /\ 4 * g + (4 - p) <= m
    <3>1. CASE b < B
      BY <1>0, <1>1, <1>2, <2>1, <3>1
    <3>2. CASE ~(b < B)
      <4>1. b = B
        BY <3>2
      <4> QED BY <1>0, <1>1, <1>2, <2>1, <4>1
    <3> QED BY <3>1, <3>2
  <2> QED BY <2>1, <2>2
<1> DEFINE known(i) == IF i <= n THEN s[i] ELSE 0
<1>16. \A i \in Nat \ {0} : known(i) \in Octet
  <2>1. SUFFICES ASSUME NEW i \in Nat \ {0} PROVE known(i) \in Octet
    BY Zenon
  <2>2. CASE i <= n
    <3>1. i \in 1 .. Len(s)
      BY <1>15, <2>2
    <3> QED BY <2>2, <3>1
  <2>3. CASE ~(i <= n)
    BY <2>3 DEF Octet
  <2> QED BY <2>2, <2>3
<1>17. \A j \in 1 .. 3 - p : known(3 * g + j) = s[3 * g + j]
  BY <1>1, <1>15
<1>18. /\ 4 * g + 1 <= m => z[4 * g + 1] = known(3 * g + 1) \div 4
       /\ 4 * g + 2 <= m => z[4 * g + 2] = (known(3 * g + 1) % 4) * 16 + known(3 * g + 2) \div 16
       /\ 4 * g + 3 <= m => z[4 * g + 3] = (known(3 * g + 2) % 16) * 4 + known(3 * g + 3) \div 64
       /\ 4 * g + 4 <= m => z[4 * g + 4] = known(3 * g + 3) % 64
  <2>1. m = (8 * Len(s) + 5) \div 6
    BY <1>0, SextetsIs
  <2> HIDE DEF known
  <2>2. \A i \in Nat : known(i) = IF i <= Len(s) THEN s[i] ELSE 0
    BY <1>15 DEF known
  <2>3. /\ known(3 * g + 1) = IF 3 * g + 1 <= Len(s) THEN s[3 * g + 1] ELSE 0
        /\ known(3 * g + 2) = IF 3 * g + 2 <= Len(s) THEN s[3 * g + 2] ELSE 0
        /\ known(3 * g + 3) = IF 3 * g + 3 <= Len(s) THEN s[3 * g + 3] ELSE 0
    BY <2>2
  <2> QED BY <2>1, <2>3, SextetsIs DEF z
<1> HIDE DEF known
<1>19. PICK x \in Octet : x = known(3 * g + 1)
  BY <1>16
<1>20. PICK y \in Octet : y = known(3 * g + 2)
  BY <1>16
<1>21. PICK u \in Octet : u = known(3 * g + 3)
  BY <1>16
<1>22. /\ w[1] = x \div 4
       /\ w[2] = (x % 4) * 16 + y \div 16
       /\ p <= 1 => w[3] = (y % 16) * 4 + u \div 64
       /\ p = 0 => w[4] = u % 64
  <2>1. w[1] = z[4 * g + 1] /\ w[2] = z[4 * g + 2]
    <3>1. 1 <= 4 - p /\ 2 <= 4 - p
      BY <1>1
    <3> QED BY <1>10, <1>13, <3>1
  <2>2. p <= 1 => w[3] = z[4 * g + 3]
    <3>1. p <= 1 => 3 <= 4 - p
      BY <1>1
    <3> QED BY <1>10, <1>13, <3>1
  <2>3. p = 0 => w[4] = z[4 * g + 4]
    <3>1. p = 0 => 4 <= 4 - p
      BY <1>1
    <3> QED BY <1>10, <1>13, <3>1
  <2>5. 4 * g + 1 <= m /\ 4 * g + 2 <= m
    BY <1>1, <1>15
  <2>6. p <= 1 => 4 * g + 3 <= m
    BY <1>1, <1>15
  <2>7. p = 0 => 4 * g + 4 <= m
    BY <1>1, <1>15
  <2> QED BY <1>18, <1>19, <1>20, <1>21, <2>1, <2>2, <2>3, <2>5, <2>6, <2>7
<1>23. o[1] = x
  BY <1>14, <1>22, ShiftsUndone
<1>24. p <= 1 => o[2] = y
  <2>1. SUFFICES ASSUME p <= 1 PROVE o[2] = y
    OBVIOUS
  <2>2. o[2] = (((x % 4) * 16 + y \div 16) % 16) * 16 + ((y % 16) * 4 + u \div 64) \div 4
    BY <1>14, <1>22, <2>1
  <2>3. ((x % 4) * 16 + y \div 16) % 16 = y \div 16 /\ ((y % 16) * 4 + u \div 64) \div 4 = y % 16
    BY ShiftsUndone
  <2>4. o[2] = (y \div 16) * 16 + (y % 16)
    BY <2>2, <2>3
  <2> QED BY <2>4, ShiftsUndone
<1>25. p = 0 => o[3] = u
  <2>1. SUFFICES ASSUME p = 0 PROVE o[3] = u
    OBVIOUS
  <2>2. p <= 1
    BY <2>1
  <2>3. o[3] = (((y % 16) * 4 + u \div 64) % 4) * 64 + (u % 64)
    BY <1>14, <1>22, <2>1, <2>2
  <2>4. ((y % 16) * 4 + u \div 64) % 4 = u \div 64
    BY ShiftsUndone
  <2>5. o[3] = (u \div 64) * 64 + (u % 64)
    BY <2>3, <2>4
  <2> QED BY <2>5, ShiftsUndone
<1>26. SubSeq(o, 1, 3 - p) = SubSeq(s, 3 * g + 1, 3 * g + (3 - p))
  <2> DEFINE L == SubSeq(o, 1, 3 - p)
             R == SubSeq(s, 3 * g + 1, 3 * g + (3 - p))
  <2>1. PICK q \in 0 .. 3 : q = 3 - p /\ 3 * g + q <= Len(s)
    BY <1>1, <1>15
  <2>2. L \in Seq(Int) /\ Len(L) = q /\ \A j \in 1 .. q : L[j] = o[j]
    <3>1. q \in 0 .. Len(o) /\ L = SubSeq(o, 1, q)
      BY <1>14, <2>1
    <3> HIDE DEF L
    <3> QED BY <1>14, <3>1, BeginningIs
  <2>3. R \in Seq(Octet) /\ Len(R) = q /\ \A j \in 1 .. q : R[j] = s[3 * g + j]
    <3>1. PICK a \in Nat : a = 3 * g /\ a + q <= Len(s)
      BY <2>1
    <3>2. R = SubSeq(s, a + 1, a + q) /\ q \in Nat
      BY <2>1, <3>1
    <3> HIDE DEF R
    <3>3. /\ SubSeq(s, a + 1, a + q) \in Seq(Octet)
          /\ Len(SubSeq(s, a + 1, a + q)) = q
          /\ \A j \in 1 .. q : SubSeq(s, a + 1, a + q)[j] = s[a + j]
      BY <3>1, <3>2, PieceIs
    <3> QED BY <3>1, <3>2, <3>3
  <2>4. R \in Seq(Int)
    <3>1. \A v \in Octet : v \in Int
      BY DEF Octet
    <3> HIDE DEF R
    <3>2. ASSUME NEW j \in 1 .. q PROVE R[j] \in Int
      <4>1. R[j] \in Octet
        BY <2>3
      <4> QED BY <3>1, <4>1
    <3>3. R = [j \in 1 .. q |-> R[j]] /\ q \in Nat
      BY <2>1, <2>3
    <3> QED BY <3>2, <3>3
  <2> HIDE DEF L, R
  <2>5. ASSUME NEW j \in 1 .. q PROVE L[j] = R[j]
    <3>1. R[j] = known(3 * g + j)
      BY <1>17, <2>1, <2>3
    <3>2. CASE j = 1
      BY <1>19, <1>23, <2>2, <3>1, <3>2
    <3>3. CASE j = 2
      <4>1. p <= 1
        BY <1>1, <2>1, <3>3
      <4> QED BY <1>20, <1>24, <2>2, <3>1, <3>3, <4>1
    <3>4. CASE j = 3
      <4>1. p = 0
        BY <1>1, <2>1, <3>4
      <4> QED BY <1>21, <1>25, <2>2, <3>1, <3>4, <4>1
    <3>5. j = 1 \/ j = 2 \/ j = 3
      BY <2>1
    <3> QED BY <3>2, <3>3, <3>4, <3>5
  <2>6. L = R
    BY <2>2, <2>3, <2>4, <2>5, SeqEqual
  <2> QED BY <2>6 DEF L, R
<1>27. TextBlock(s, b) = block /\ Lacks(B, e, b) = p
  BY <1>1 DEF TextBlock, Lacks, block, t
<1> QED BY <1>2, <1>9, <1>12, <1>26, <1>27 DEF o

\* The decoder of util.c gives back what base64_encode was given, reads the
\* whole text and reports the padding.
LEMMA BlocksGive ==
  ASSUME NEW s \in Seq(Octet)
  PROVE  LET result == base64_string_to_octet_string(Base64Text(s))
         IN  /\ result.raw = s
             /\ result.ret = Len(Base64Text(s))
             /\ Len(s) = (3 * result.ret) \div 4 - result.pad
<1>1. PICK B \in Nat : \E e \in 0 .. 2 : Framed(s, B, e)
  BY Blocks
<1>20. PICK e \in 0 .. 2 : Framed(s, B, e)
  BY <1>1
<1>2. Len(s) = 3 * B - e /\ Needed(s) = 4 * B /\ (B = 0 => e = 0)
  BY <1>20 DEF Framed
<1> DEFINE t == Base64Text(s)
           block(b) == TextBlock(s, b)
           pad(b) == Lacks(B, e, b)
           triple(b) == base64_block_to_octet_triple(block(b))
           triples == [b \in 1 .. B |-> triple(b)]
<1>3. t \in Seq(Nat) /\ Len(t) = 4 * B
  BY <1>2, Base64TextIs
<1>4. \A b \in 1 .. B : BlockPad(block(b)) = pad(b) /\ triple(b) = SubSeq(s, 3 * (b - 1) + 1, 3 * (b - 1) + (3 - pad(b)))
  BY <1>20, BlockGives
<1>21. \A b \in 1 .. B : pad(b) = IF b < B THEN 0 ELSE e
  BY DEF Lacks
<1> HIDE DEF t, block, triple, pad
<1> DEFINE padded == {b \in 1 .. B : BlockPad(block(b)) > 0}
<1>5. (IF padded = {} THEN B ELSE Min(padded)) = B
  <2>1. \A b \in padded : b = B
    BY <1>2, <1>4, <1>21
  <2>2. CASE padded = {}
    BY <2>2
  <2>3. CASE padded # {}
    <3>1. padded = {B}
      BY <2>1, <2>3
    <3>2. Min({B}) = B
      BY DEF Min
    <3> QED BY <2>3, <3>1, <3>2
  <2> QED BY <2>2, <2>3
<1>6. base64_string_to_octet_string(t) =
        [ret |-> 4 * B, raw |-> FlattenSeq(triples), pad |-> IF B = 0 THEN 0 ELSE BlockPad(block(B))]
  <2> DEFINE bs == [b \in 1 .. Len(t) \div 4 |-> SubSeq(t, 4 * b - 3, 4 * b)]
             ps == {b \in DOMAIN bs : BlockPad(bs[b]) > 0}
             read == IF ps = {} THEN Len(bs) ELSE Min(ps)
             parts == [b \in 1 .. read |-> base64_block_to_octet_triple(bs[b])]
             last == IF read = 0 THEN 0 ELSE BlockPad(bs[read])
  <2>1. Len(t) % 4 = 0 /\ Len(t) \div 4 = B
    BY <1>3, SMT
  <2>2. base64_string_to_octet_string(t) =
          IF Len(t) % 4 # 0
          THEN [ret |-> 0, raw |-> << >>, pad |-> 0]
          ELSE [ret |-> 4 * read, raw |-> FlattenSeq(parts), pad |-> last]
    BY DEF base64_string_to_octet_string
  <2>3. DOMAIN bs = 1 .. B /\ Len(bs) = B /\ \A b \in 1 .. B : bs[b] = block(b)
    BY <2>1 DEF block, TextBlock, t
  <2> HIDE DEF bs
  <2>4. ps = padded
    BY <2>3
  <2> HIDE DEF ps, padded
  <2>5. read = B
    BY <1>5, <2>3, <2>4
  <2> HIDE DEF read
  <2>6. parts = triples
    BY <2>3, <2>5 DEF triple
  <2>7. last = IF B = 0 THEN 0 ELSE BlockPad(block(B))
    BY <2>3, <2>5
  <2> HIDE DEF parts, last, triples
  <2> QED BY <2>1, <2>2, <2>5, <2>6, <2>7
<1>7. (IF B = 0 THEN 0 ELSE BlockPad(block(B))) = e
  <2>1. CASE B = 0
    BY <1>2, <2>1
  <2>2. CASE B # 0
    <3>1. B \in 1 .. B /\ ~(B < B)
      BY <2>2
    <3> QED BY <1>4, <1>21, <2>2, <3>1
  <2> QED BY <2>1, <2>2
<1>8. Len(s) = (3 * (4 * B)) \div 4 - e
  <2>1. (3 * (4 * B)) \div 4 = 3 * B
    BY SMT
  <2> QED BY <1>2, <2>1
<1> DEFINE end(b) == IF b < B THEN 3 * b ELSE Len(s)
           h == [b \in 0 .. B |-> SubSeq(s, 1, end(b))]
<1>9. \A b \in 0 .. B : end(b) \in 0 .. Len(s)
  BY <1>2
<1>10. \A b \in 0 .. B : h[b] = SubSeq(s, 1, end(b)) /\ SubSeq(s, 1, end(b)) \in Seq(Octet)
  <2> HIDE DEF end
  <2> QED BY <1>9, BeginningIs
<1> HIDE DEF h
<1>11. ASSUME NEW b \in 1 .. B
       PROVE  triple(b) \in Seq(Octet) /\ h[b] = h[b - 1] \o triple(b)
  <2>1. PICK a \in Nat : a = 3 * (b - 1)
    OBVIOUS
  <2>2. PICK n \in Nat : n = 3 - pad(b) /\ pad(b) = IF b < B THEN 0 ELSE e
    BY <1>21
  <2>3. end(b - 1) = a /\ end(b) = a + n /\ a + n <= Len(s)
    <3>1. b - 1 < B
      OBVIOUS
    <3>2. CASE b < B
      BY <1>2, <2>1, <2>2, <3>1, <3>2
    <3>3. CASE ~(b < B)
      <4>1. b = B
        BY <3>3
      <4> QED BY <1>2, <2>1, <2>2, <3>1, <4>1
    <3> QED BY <3>2, <3>3
  <2>4. triple(b) = SubSeq(s, a + 1, a + n)
    BY <1>4, <2>1, <2>2
  <2>5. SubSeq(s, 1, a + n) = SubSeq(s, 1, a) \o SubSeq(s, a + 1, a + n) /\ SubSeq(s, a + 1, a + n) \in Seq(Octet)
    BY <2>3, BeginningGrows, PieceIs
  <2>6. b \in 0 .. B /\ b - 1 \in 0 .. B
    OBVIOUS
  <2>7. h[b] = SubSeq(s, 1, a + n) /\ h[b - 1] = SubSeq(s, 1, a)
    BY <1>10, <2>3, <2>6
  <2> QED BY <2>4, <2>5, <2>7
<1>12. triples \in Seq(Seq(Octet)) /\ Len(triples) = B /\ \A b \in 1 .. B : triples[b] = triple(b)
  BY <1>11
<1> HIDE DEF triples
<1>13. PICK f : Together(Octet, triples, f) /\ FlattenSeq(triples) = f[B]
  BY <1>12, FlattenIs
<1>14. f[0] = <<>> /\ \A b \in 1 .. B : f[b] = f[b - 1] \o triple(b)
  BY <1>12, <1>13 DEF Together
<1>15. f[0] = h[0]
  <2>1. 0 \in 0 .. B /\ end(0) = 0
    BY <1>2
  <2>2. SubSeq(s, 1, 0) = <<>>
    <3>1. 0 \in 0 .. Len(s)
      BY LenProperties
    <3>2. SubSeq(s, 1, 0) \in Seq(Octet) /\ Len(SubSeq(s, 1, 0)) = 0
      BY <3>1, BeginningIs
    <3> QED BY <3>2
  <2> QED BY <1>10, <1>14, <2>1, <2>2
<1>16. Alike(B, f, h)
  BY <1>11, <1>14, <1>15 DEF Alike
<1>17. f[B] = h[B]
  <2>1. \A b \in 0 .. B : f[b] = h[b]
    BY <1>16, RecursionUnique
  <2> QED BY <2>1
<1>18. h[B] = s
  <2>1. B \in 0 .. B /\ end(B) = Len(s)
    OBVIOUS
  <2>2. SubSeq(s, 1, Len(s)) = s
    BY SubSeqFull
  <2> QED BY <1>10, <2>1, <2>2
<1> QED BY <1>3, <1>6, <1>7, <1>8, <1>13, <1>17, <1>18 DEF t

-----------------------------------------------------------------------------
(* Hexadecimal text. *)

\* Text e has two digits for each octet of v, which both languages read.
HexRead(e, v) ==
  /\ v \in Seq(Octet) /\ e \in Seq(Nat) /\ Len(e) = 2 * Len(v)
  /\ \A k \in 1 .. Len(v) :
       /\ hex_char_to_nibble(e[2 * k - 1]) = v[k] \div 16 /\ DigitValue(e[2 * k - 1]) = v[k] \div 16
       /\ hex_char_to_nibble(e[2 * k]) = v[k] % 16 /\ DigitValue(e[2 * k]) = v[k] % 16

\* Either digit of a nibble is read as the nibble by either language.
LEMMA NibbleOfDigit ==
  ASSUME NEW n \in 0 .. 15
  PROVE  /\ nibble_to_hex_char(n) \in Nat /\ UpperDigit(n) \in Nat
         /\ hex_char_to_nibble(nibble_to_hex_char(n)) = n /\ DigitValue(nibble_to_hex_char(n)) = n
         /\ hex_char_to_nibble(UpperDigit(n)) = n /\ DigitValue(UpperDigit(n)) = n
<1>1. CASE n < 10
  <2>1. nibble_to_hex_char(n) = 48 + n /\ UpperDigit(n) = 48 + n /\ 48 + n \in 48 .. 57
    BY <1>1 DEF nibble_to_hex_char, UpperDigit
  <2> QED BY <2>1 DEF hex_char_to_nibble, DigitValue
<1>2. CASE ~(n < 10)
  <2>1. nibble_to_hex_char(n) = 87 + n /\ 87 + n \in 97 .. 102 /\ UpperDigit(n) = 55 + n /\ 55 + n \in 65 .. 70
    BY <1>2 DEF nibble_to_hex_char, UpperDigit
  <2>2. hex_char_to_nibble(87 + n) = n /\ DigitValue(87 + n) = n
    BY <2>1 DEF hex_char_to_nibble, DigitValue
  <2>3. hex_char_to_nibble(55 + n) = n /\ DigitValue(55 + n) = n
    BY <2>1 DEF hex_char_to_nibble, DigitValue
  <2> QED BY <2>1, <2>2, <2>3
<1> QED BY <1>1, <1>2

\* An octet is the pair of its nibbles.
LEMMA NibblesOfOctet ==
  ASSUME NEW x \in Octet
  PROVE  x \div 16 \in 0 .. 15 /\ x % 16 \in 0 .. 15 /\ 16 * (x \div 16) + (x % 16) = x
  BY SMT DEF Octet

\* The text of the C++ encoder, of as many octets as the buffer holds.
LEMMA HexOfCpp ==
  ASSUME NEW s \in Seq(Octet)
  PROVE  /\ OctetsPrinted(Len(s)) \in 0 .. Len(s)
         /\ HexRead(octet_string_hex_string(s), SubSeq(s, 1, OctetsPrinted(Len(s))))
<1>1. PICK n \in Nat : n = Len(s)
  BY LenProperties
<1>2. PICK q \in 0 .. n : q = OctetsPrinted(n)
  <2>1. PICK M \in Nat : M = MAX_PRINT_STRING_LEN
    BY PrintBufferAssumption
  <2>2. CASE 2 * n > M
    <3>1. OctetsPrinted(n) = M \div 2
      BY <2>1, <2>2 DEF OctetsPrinted
    <3>2. M \div 2 \in 0 .. n
      BY <2>2, SMT
    <3> QED BY <3>1, <3>2
  <2>3. CASE ~(2 * n > M)
    <3>1. OctetsPrinted(n) = n
      BY <2>1, <2>3 DEF OctetsPrinted
    <3> QED BY <3>1
  <2> QED BY <2>2, <2>3
<1> DEFINE v == SubSeq(s, 1, q)
           char(i) == nibble_to_hex_char(IF i % 2 = 1 THEN s[(i + 1) \div 2] \div 16 ELSE s[(i + 1) \div 2] % 16)
           e == octet_string_hex_string(s)
<1>3. v \in Seq(Octet) /\ Len(v) = q /\ \A k \in 1 .. q : v[k] = s[k]
  BY <1>1, BeginningIs
<1>4. e = [i \in 1 .. 2 * q |-> char(i)]
  BY <1>1, <1>2 DEF octet_string_hex_string
<1> HIDE DEF e, v
<1>5. ASSUME NEW k \in 1 .. q
      PROVE  /\ char(2 * k - 1) = nibble_to_hex_char(v[k] \div 16)
             /\ char(2 * k) = nibble_to_hex_char(v[k] % 16)
  <2>1. (2 * k - 1) % 2 = 1 /\ (2 * k - 1 + 1) \div 2 = k /\ (2 * k) % 2 = 0 /\ (2 * k + 1) \div 2 = k
    BY SMT
  <2>2. v[k] = s[k]
    BY <1>3
  <2> QED BY <2>1, <2>2
<1> HIDE DEF char
<1>6. \A k \in 1 .. q : v[k] \in Octet
  BY <1>3
<1>7. ASSUME NEW k \in 1 .. q
      PROVE  v[k] \div 16 \in 0 .. 15 /\ v[k] % 16 \in 0 .. 15
  BY <1>6, NibblesOfOctet
<1>8. \A i \in 1 .. 2 * q : char(i) \in Nat
  <2>1. SUFFICES ASSUME NEW i \in 1 .. 2 * q PROVE char(i) \in Nat
    OBVIOUS
  <2>2. PICK k \in 1 .. q : i = 2 * k - 1 \/ i = 2 * k
    <3>1. (i + 1) \div 2 \in 1 .. q /\ (i = 2 * ((i + 1) \div 2) - 1 \/ i = 2 * ((i + 1) \div 2))
      BY SMT
    <3> QED BY <3>1
  <2> QED BY <1>5, <1>7, <2>2, NibbleOfDigit
<1>9. e \in Seq(Nat) /\ Len(e) = 2 * q /\ \A i \in 1 .. 2 * q : e[i] = char(i)
  BY <1>4, <1>8
<1>10. ASSUME NEW k \in 1 .. q
       PROVE  /\ hex_char_to_nibble(e[2 * k - 1]) = v[k] \div 16 /\ DigitValue(e[2 * k - 1]) = v[k] \div 16
              /\ hex_char_to_nibble(e[2 * k]) = v[k] % 16 /\ DigitValue(e[2 * k]) = v[k] % 16
  <2>1. 2 * k - 1 \in 1 .. 2 * q /\ 2 * k \in 1 .. 2 * q
    OBVIOUS
  <2>2. e[2 * k - 1] = nibble_to_hex_char(v[k] \div 16) /\ e[2 * k] = nibble_to_hex_char(v[k] % 16)
    BY <1>5, <1>9, <2>1
  <2> QED BY <1>7, <2>2, NibbleOfDigit
<1>11. HexRead(e, v)
  BY <1>3, <1>9, <1>10 DEF HexRead
<1> QED BY <1>1, <1>2, <1>11 DEF e, v

\* The text of the Java encoder.
LEMMA HexOfJava ==
  ASSUME NEW s \in Seq(Octet)
  PROVE  HexRead(byte2Hex(s), s)
<1>1. PICK n \in Nat : n = Len(s)
  BY LenProperties
<1> DEFINE e == byte2Hex(s)
           char(i) == UpperDigit(IF i % 2 = 1 THEN s[(i + 1) \div 2] \div 16 ELSE s[i \div 2] % 16)
<1>2. s \in Seq(Byte)
  BY DEF Octet, Byte
<1>3. /\ Len(e) = 2 * n
      /\ \A k \in 1 .. n : e[2 * k - 1] = UpperDigit(s[k] \div 16) /\ e[2 * k] = UpperDigit(s[k] % 16)
  BY <1>1, <1>2, TextOfBytes
<1>4. e \in Seq(Int)
  BY <1>2, TextOfBytes
<1> HIDE DEF e
<1>5. ASSUME NEW k \in 1 .. n
      PROVE  s[k] \div 16 \in 0 .. 15 /\ s[k] % 16 \in 0 .. 15
  <2>1. s[k] \in Octet
    BY <1>1
  <2> QED BY <2>1, NibblesOfOctet
<1>6. \A i \in 1 .. 2 * n : e[i] \in Nat
  <2>1. SUFFICES ASSUME NEW i \in 1 .. 2 * n PROVE e[i] \in Nat
    OBVIOUS
  <2>2. PICK k \in 1 .. n : i = 2 * k - 1 \/ i = 2 * k
    <3>1. (i + 1) \div 2 \in 1 .. n /\ (i = 2 * ((i + 1) \div 2) - 1 \/ i = 2 * ((i + 1) \div 2))
      BY SMT
    <3> QED BY <3>1
  <2> QED BY <1>3, <1>5, <2>2, NibbleOfDigit
<1>7. e \in Seq(Nat)
  <2>1. PICK l \in Nat : l = 2 * n
    OBVIOUS
  <2>2. e \in [1 .. l -> Int]
    BY <1>3, <1>4, <2>1
  <2>3. \A i \in 1 .. l : e[i] \in Nat
    BY <1>6, <2>1
  <2>4. e \in [1 .. l -> Nat]
    BY <2>2, <2>3
  <2> QED BY <2>4
<1>8. ASSUME NEW k \in 1 .. n
      PROVE  /\ hex_char_to_nibble(e[2 * k - 1]) = s[k] \div 16 /\ DigitValue(e[2 * k - 1]) = s[k] \div 16
             /\ hex_char_to_nibble(e[2 * k]) = s[k] % 16 /\ DigitValue(e[2 * k]) = s[k] % 16
  BY <1>3, <1>5, NibbleOfDigit
<1> QED BY <1>1, <1>3, <1>7, <1>8 DEF HexRead, e

\* Every character of such a text is a digit in both languages.
LEMMA AllDigits ==
  ASSUME NEW e, NEW v, HexRead(e, v), NEW i \in 1 .. Len(e)
  PROVE  hex_char_to_nibble(e[i]) \in 0 .. 15 /\ DigitValue(e[i]) \in 0 .. 15
<1>1. PICK n \in Nat : n = Len(v) /\ Len(e) = 2 * n
  BY LenProperties DEF HexRead
<1>2. PICK k \in 1 .. n : i = 2 * k - 1 \/ i = 2 * k
  <2>1. i \in 1 .. 2 * n
    BY <1>1
  <2>2. (i + 1) \div 2 \in 1 .. n /\ (i = 2 * ((i + 1) \div 2) - 1 \/ i = 2 * ((i + 1) \div 2))
    BY <2>1, SMT
  <2> QED BY <2>2
<1>3. /\ hex_char_to_nibble(e[2 * k - 1]) = v[k] \div 16 /\ DigitValue(e[2 * k - 1]) = v[k] \div 16
      /\ hex_char_to_nibble(e[2 * k]) = v[k] % 16 /\ DigitValue(e[2 * k]) = v[k] % 16
  BY <1>1 DEF HexRead
<1>4. v[k] \div 16 \in 0 .. 15 /\ v[k] % 16 \in 0 .. 15
  <2>1. v[k] \in Octet
    BY <1>1 DEF HexRead
  <2> QED BY <2>1, NibblesOfOctet
<1> QED BY <1>2, <1>3, <1>4

\* A text of digits as it is, or with a line break after its first p digits.
HexTravels(t, e, n) ==
  /\ t \in Seq(Nat)
  /\ n = 0 => t = e
  /\ n # 0 => \E p \in 0 .. Len(e) :
                p < Len(t) /\ t[p + 1] = LineBreak /\ \A i \in 1 .. p : t[i] = e[i]

\* A line break put into a text.
LEMMA BreakIs ==
  ASSUME NEW t \in Seq(Nat), NEW at \in 1 .. Len(t) + 1
  PROVE  /\ InsertAt(t, at, LineBreak) \in Seq(Nat)
         /\ Len(InsertAt(t, at, LineBreak)) = Len(t) + 1
         /\ \A i \in 1 .. Len(t) + 1 :
              InsertAt(t, at, LineBreak)[i] = IF i < at THEN t[i] ELSE IF i = at THEN LineBreak ELSE t[i - 1]
<1>1. LineBreak \in Nat
  BY DEF LineBreak
<1> QED BY <1>1, InsertIs

\* One more line break leaves such a text.
LEMMA BreakKeeps ==
  ASSUME NEW e \in Seq(Nat), NEW n \in Nat, NEW t \in Seq(Nat), HexTravels(t, e, n), NEW at \in 1 .. Len(t) + 1
  PROVE  HexTravels(InsertAt(t, at, LineBreak), e, n + 1)
<1>1. PICK l \in Nat : l = Len(t) /\ at \in 1 .. l + 1 /\ t \in Seq(Nat)
  BY LenProperties DEF HexTravels
<1> DEFINE u == InsertAt(t, at, LineBreak)
<1>3. /\ u \in Seq(Nat) /\ Len(u) = l + 1
      /\ \A i \in 1 .. l + 1 : u[i] = IF i < at THEN t[i] ELSE IF i = at THEN LineBreak ELSE t[i - 1]
  <2> HIDE DEF u
  <2>1. /\ u \in Seq(Nat) /\ Len(u) = Len(t) + 1
        /\ \A i \in 1 .. Len(t) + 1 : u[i] = IF i < at THEN t[i] ELSE IF i = at THEN LineBreak ELSE t[i - 1]
    BY BreakIs DEF u
  <2> QED BY <1>1, <2>1
<1> HIDE DEF u
<1>4. PICK m \in Nat : m = Len(e)
  BY LenProperties
<1> DEFINE BrokenAt(p) == p < l + 1 /\ u[p + 1] = LineBreak /\ \A i \in 1 .. p : u[i] = e[i]
<1>5. \E p \in 0 .. m : BrokenAt(p)
  <2>1. CASE n = 0
    <3>1. t = e /\ l = m
      BY <1>1, <1>4, <2>1 DEF HexTravels
    <3>2. PICK p \in 0 .. m : p + 1 = at
      <4>1. at - 1 \in 0 .. m /\ at - 1 + 1 = at
        BY <1>1, <3>1
      <4> QED BY <4>1
    <3>3. p < l + 1 /\ u[p + 1] = LineBreak
      BY <1>1, <1>3, <3>2
    <3>4. \A i \in 1 .. p : u[i] = e[i]
      BY <1>1, <1>3, <3>1, <3>2
    <3> QED BY <3>2, <3>3, <3>4
  <2>2. CASE n # 0
    <3>1. PICK p \in 0 .. m : p < l /\ t[p + 1] = LineBreak /\ \A i \in 1 .. p : t[i] = e[i]
      BY <1>1, <1>4, <2>2 DEF HexTravels
    <3>2. CASE at <= p + 1
      <4>1. PICK q \in 0 .. m : q + 1 = at /\ q <= p
        <5>1. at - 1 \in 0 .. m /\ at - 1 + 1 = at /\ at - 1 <= p
          BY <1>1, <3>1, <3>2
        <5> QED BY <5>1
      <4>2. q < l + 1 /\ u[q + 1] = LineBreak
        BY <1>1, <1>3, <4>1
      <4>3. \A i \in 1 .. q : u[i] = e[i]
        BY <1>1, <1>3, <3>1, <4>1
      <4> QED BY <4>1, <4>2, <4>3
    <3>3. CASE ~(at <= p + 1)
      <4>1. p + 1 < at /\ p < l + 1
        BY <1>1, <3>1, <3>3
      <4>2. \A i \in 1 .. p : i < at /\ i \in 1 .. l + 1
        BY <1>1, <4>1
      <4>3. \A i \in 1 .. p : u[i] = t[i]
        BY <1>3, <4>2
      <4>4. p + 1 \in 1 .. l + 1
        BY <4>1
      <4>5. u[p + 1] = t[p + 1]
        BY <1>3, <4>1, <4>4
      <4>6. BrokenAt(p)
        BY <3>1, <4>1, <4>3, <4>5
      <4> QED BY <4>6
    <3> QED BY <3>2, <3>3
  <2> QED BY <2>1, <2>2
<1>6. n + 1 # 0
  OBVIOUS
<1> QED BY <1>3, <1>4, <1>5, <1>6 DEF HexTravels, u

\* A text that begins with the digits, whatever follows them, as it is or with
\* line breaks: only a break among the digits disturbs them.
Begins(t, e) == Len(e) <= Len(t) /\ \A i \in 1 .. Len(e) : t[i] = e[i]

HexStays(t, e, n) == t \in Seq(Nat) /\ (Begins(t, e) \/ (n # 0 /\ HexTravels(t, e, n)))

\* A text of digits is one that begins with them.
LEMMA TravelsStays ==
  ASSUME NEW e \in Seq(Nat), NEW n, NEW t, HexTravels(t, e, n)
  PROVE  HexStays(t, e, n)
<1>1. t \in Seq(Nat) /\ (n = 0 => t = e)
  BY DEF HexTravels
<1>2. n = 0 => Begins(t, e)
  <2>1. Len(e) \in Nat
    BY LenProperties
  <2> QED BY <1>1, <2>1 DEF Begins
<1> QED BY <1>1, <1>2 DEF HexStays

\* One more line break leaves such a text.
LEMMA BreakStays ==
  ASSUME NEW e \in Seq(Nat), NEW n \in Nat, NEW t \in Seq(Nat), HexStays(t, e, n), NEW at \in 1 .. Len(t) + 1
  PROVE  HexStays(InsertAt(t, at, LineBreak), e, n + 1)
<1>1. PICK l \in Nat : l = Len(t) /\ at \in 1 .. l + 1
  BY LenProperties
<1>2. PICK m \in Nat : m = Len(e)
  BY LenProperties
<1> DEFINE u == InsertAt(t, at, LineBreak)
<1>3. /\ u \in Seq(Nat) /\ Len(u) = l + 1
      /\ \A i \in 1 .. l + 1 : u[i] = IF i < at THEN t[i] ELSE IF i = at THEN LineBreak ELSE t[i - 1]
  <2> HIDE DEF u
  <2>1. /\ u \in Seq(Nat) /\ Len(u) = Len(t) + 1
        /\ \A i \in 1 .. Len(t) + 1 : u[i] = IF i < at THEN t[i] ELSE IF i = at THEN LineBreak ELSE t[i - 1]
    BY BreakIs DEF u
  <2> QED BY <1>1, <2>1
<1>4. CASE HexTravels(t, e, n)
  <2>1. HexTravels(u, e, n + 1)
    BY <1>4, BreakKeeps
  <2> QED BY <1>3, <2>1 DEF HexStays
<1> HIDE DEF u
<1>5. CASE Begins(t, e)
  <2>1. m <= l /\ \A i \in 1 .. m : t[i] = e[i]
    BY <1>1, <1>2, <1>5 DEF Begins
  <2>2. CASE m < at
    <3>1. \A i \in 1 .. m : i < at /\ i \in 1 .. l + 1
      BY <1>1, <2>1, <2>2
    <3>2. \A i \in 1 .. m : u[i] = e[i]
      BY <1>3, <2>1, <3>1
    <3>3. m <= l + 1
      BY <2>1
    <3> QED BY <1>2, <1>3, <3>2, <3>3 DEF Begins, HexStays, u
  <2>3. CASE ~(m < at)
    <3>1. PICK p \in 0 .. m : p + 1 = at
      <4>1. at - 1 \in 0 .. m /\ at - 1 + 1 = at
        BY <1>1, <2>3
      <4> QED BY <4>1
    <3>2. \A i \in 1 .. p : i < at /\ i \in 1 .. l + 1 /\ i \in 1 .. m
      BY <1>1, <3>1
    <3>3. \A i \in 1 .. p : u[i] = e[i]
      BY <1>3, <2>1, <3>2
    <3>4. p < l + 1 /\ u[p + 1] = LineBreak
      BY <1>1, <1>3, <3>1
    <3>5. HexTravels(u, e, n + 1)
      BY <1>2, <1>3, <3>1, <3>3, <3>4 DEF HexTravels
    <3> QED BY <1>3, <3>5 DEF HexStays, u
  <2> QED BY <2>2, <2>3
<1> QED BY <1>4, <1>5 DEF HexStays

\* The C++ decoder reads the digits before the first character that is none.
LEMMA LeadingDigitsAre ==
  ASSUME NEW t \in Seq(Nat)
  PROVE  /\ LeadingDigits(t) \in 0 .. Len(t)
         /\ \A i \in 1 .. LeadingDigits(t) : hex_char_to_nibble(t[i]) # -1
         /\ \A q \in 0 .. Len(t) :
              (\A i \in 1 .. q : hex_char_to_nibble(t[i]) # -1) => q <= LeadingDigits(t)
<1>1. PICK l \in Nat : l = Len(t)
  BY LenProperties
<1> DEFINE S == {n \in 0 .. l : \A i \in 1 .. n : hex_char_to_nibble(t[i]) # -1}
<1>2. LeadingDigits(t) = Max(S)
  BY <1>1 DEF LeadingDigits
<1>3. 0 \in S /\ S \subseteq 0 .. l
  OBVIOUS
<1>4. \E x \in S : \A y \in S : y <= x
  <2> HIDE DEF S
  <2>1. CASE S \ {0} = {}
    <3>1. \A y \in S : y <= 0
      BY <2>1
    <3> QED BY <1>3, <3>1
  <2>2. CASE S \ {0} # {}
    <3>1. S \ {0} \subseteq 1 .. l
      BY <1>3
    <3>2. PICK x \in S \ {0} : \A y \in S \ {0} : y <= x
      BY <1>1, <2>2, <3>1, MaxOfPositions
    <3>3. x \in S /\ 0 <= x
      BY <1>3, <3>2
    <3>4. \A y \in S : y <= x
      BY <3>2, <3>3
    <3> QED BY <3>3, <3>4
  <2> QED BY <2>1, <2>2
<1>5. Max(S) \in S /\ \A y \in S : y <= Max(S)
  <2> HIDE DEF S
  <2>1. \A y \in S : y \in Int
    BY <1>3
  <2>2. \E x \in S : \A y \in S : x >= y
    BY <1>4, <2>1
  <2>3. Max(S) \in S /\ \A y \in S : Max(S) >= y
    BY <2>2 DEF Max
  <2> QED BY <2>1, <2>3
<1>6. PICK d \in S : d = LeadingDigits(t) /\ \A y \in S : y <= d
  BY <1>2, <1>5
<1>7. d \in 0 .. l /\ \A i \in 1 .. d : hex_char_to_nibble(t[i]) # -1
  BY <1>6
<1>8. \A q \in 0 .. l : (\A i \in 1 .. q : hex_char_to_nibble(t[i]) # -1) => q <= d
  BY <1>6
<1> QED BY <1>1, <1>6, <1>7, <1>8

\* The C++ decoder reads digits of such a text where there are any, and all of
\* them when no break is among them.
LEMMA ReadsDigits ==
  ASSUME NEW e, NEW v, HexRead(e, v), NEW n \in Nat, NEW t, HexStays(t, e, n)
  PROVE  /\ \A i \in 1 .. Len(e) : i <= LeadingDigits(t) => t[i] = e[i]
         /\ n = 0 => LeadingDigits(t) >= Len(e)
         /\ HexTravels(t, e, n) => LeadingDigits(t) <= Len(e)
<1>1. PICK m \in Nat : m = Len(e) /\ e \in Seq(Nat)
  BY LenProperties DEF HexRead
<1>2. PICK l \in Nat : l = Len(t) /\ t \in Seq(Nat)
  BY LenProperties DEF HexStays
<1>3. PICK d \in 0 .. l :
        /\ d = LeadingDigits(t)
        /\ \A i \in 1 .. d : hex_char_to_nibble(t[i]) # -1
        /\ \A q \in 0 .. l : (\A i \in 1 .. q : hex_char_to_nibble(t[i]) # -1) => q <= d
  BY <1>2, LeadingDigitsAre
<1>4. hex_char_to_nibble(LineBreak) = -1
  BY DEF hex_char_to_nibble, LineBreak
<1>5. ASSUME n # 0, HexTravels(t, e, n)
      PROVE  d <= m /\ \A i \in 1 .. d : t[i] = e[i]
  <2>1. PICK p \in 0 .. m : p < l /\ t[p + 1] = LineBreak /\ \A i \in 1 .. p : t[i] = e[i]
    BY <1>1, <1>2, <1>5 DEF HexTravels
  <2>2. ~(p + 1 \in 1 .. d)
    BY <1>3, <1>4, <2>1
  <2>3. d <= p
    BY <2>1, <2>2
  <2> QED BY <2>1, <2>3
<1>6. ASSUME Begins(t, e)
      PROVE  m <= d /\ \A i \in 1 .. m : t[i] = e[i]
  <2>1. m <= l /\ \A i \in 1 .. m : t[i] = e[i]
    BY <1>1, <1>2, <1>6 DEF Begins
  <2>2. \A x \in 0 .. 15 : x # -1
    OBVIOUS
  <2>3. \A i \in 1 .. m : hex_char_to_nibble(e[i]) \in 0 .. 15
    BY <1>1, AllDigits
  <2>4. \A i \in 1 .. m : hex_char_to_nibble(t[i]) # -1
    BY <2>1, <2>2, <2>3
  <2>5. m \in 0 .. l
    BY <2>1
  <2> QED BY <1>3, <2>1, <2>4, <2>5
<1>7. \A i \in 1 .. m : i <= d => t[i] = e[i]
  <2>1. CASE Begins(t, e)
    BY <1>6, <2>1
  <2>2. CASE n # 0 /\ HexTravels(t, e, n)
    <3>1. \A i \in 1 .. d : t[i] = e[i]
      BY <1>5, <2>2
    <3>2. \A i \in 1 .. m : i <= d => i \in 1 .. d
      OBVIOUS
    <3> QED BY <3>1, <3>2
  <2> QED BY <2>1, <2>2 DEF HexStays
<1>8. n = 0 => d >= m
  BY <1>6 DEF HexStays
<1>9. HexTravels(t, e, n) => d <= m
  <2>1. SUFFICES ASSUME HexTravels(t, e, n) PROVE d <= m
    OBVIOUS
  <2>2. CASE n = 0
    <3>1. t = e
      BY <2>1, <2>2 DEF HexTravels
    <3>2. l = m
      BY <1>1, <1>2, <3>1
    <3> QED BY <3>2
  <2>3. CASE n # 0
    BY <1>5, <2>1, <2>3
  <2> QED BY <2>2, <2>3
<1> QED BY <1>1, <1>3, <1>7, <1>8, <1>9

\* The C++ decoder gives the octets from the beginning of what the digits stand
\* for, one for two digits, all of them when it is asked for their digits and no
\* break is among them, and none besides when the text ends with them.
LEMMA HexDecodes ==
  ASSUME NEW e, NEW v, HexRead(e, v), NEW n \in Nat, NEW t, HexStays(t, e, n), NEW len \in Nat
  PROVE  /\ Len(hex_string_to_octet_string(t, len).raw) = hex_string_to_octet_string(t, len).ret \div 2
         /\ \A k \in 1 .. Len(v) : k <= Len(hex_string_to_octet_string(t, len).raw)
                                     => hex_string_to_octet_string(t, len).raw[k] = v[k]
         /\ HexTravels(t, e, n) => Len(hex_string_to_octet_string(t, len).raw) <= Len(v)
         /\ n = 0 /\ len >= 2 * Len(v) => Len(hex_string_to_octet_string(t, len).raw) >= Len(v)
<1>1. PICK m \in Nat : m = Len(v) /\ Len(e) = 2 * m
  BY LenProperties DEF HexRead
<1>2. LeadingDigits(t) \in Nat
  <2>1. t \in Seq(Nat) /\ Len(t) \in Nat
    BY LenProperties DEF HexStays
  <2> QED BY <2>1, LeadingDigitsAre
<1>3. PICK d \in Nat :
        /\ d = LeadingDigits(t)
        /\ \A i \in 1 .. 2 * m : i <= d => t[i] = e[i]
        /\ n = 0 => d >= 2 * m
        /\ HexTravels(t, e, n) => d <= 2 * m
  <2>1. /\ \A i \in 1 .. Len(e) : i <= LeadingDigits(t) => t[i] = e[i]
        /\ n = 0 => LeadingDigits(t) >= Len(e)
        /\ HexTravels(t, e, n) => LeadingDigits(t) <= Len(e)
    BY ReadsDigits
  <2> QED BY <1>1, <1>2, <2>1
<1>4. PICK wanted \in Nat : wanted = 2 * ((len + 1) \div 2) /\ wanted >= len
  <2>1. 2 * ((len + 1) \div 2) \in Nat /\ 2 * ((len + 1) \div 2) >= len
    BY SMT
  <2> QED BY <2>1
<1>5. PICK read \in 0 .. d : read = Min({wanted, d}) /\ (wanted >= 2 * m /\ d >= 2 * m => read >= 2 * m)
  <2>1. Min({wanted, d}) = IF wanted <= d THEN wanted ELSE d
    BY MinOfPair
  <2> QED BY <2>1
<1> DEFINE result == hex_string_to_octet_string(t, len)
           octet(i) == 16 * hex_char_to_nibble(t[2 * i - 1]) + hex_char_to_nibble(t[2 * i])
<1>6. PICK k \in Nat : k = read \div 2 /\ 2 * k <= read /\ (d <= 2 * m => k <= m) /\ (read >= 2 * m => k >= m)
  <2>1. /\ read \div 2 \in Nat /\ 2 * (read \div 2) <= read
        /\ (d <= 2 * m => read \div 2 <= m) /\ (read >= 2 * m => read \div 2 >= m)
    BY SMT
  <2> QED BY <2>1
<1>7. result.ret = read /\ result.raw = [i \in 1 .. k |-> octet(i)]
  BY <1>3, <1>4, <1>5, <1>6 DEF hex_string_to_octet_string
<1>8. ASSUME NEW i \in 1 .. m, i <= k PROVE octet(i) = v[i]
  <2>1. /\ 2 * i - 1 \in 1 .. 2 * m /\ 2 * i - 1 <= d
        /\ 2 * i \in 1 .. 2 * m /\ 2 * i <= d
    BY <1>6, <1>8
  <2>2. t[2 * i - 1] = e[2 * i - 1] /\ t[2 * i] = e[2 * i]
    BY <1>3, <2>1
  <2>3. hex_char_to_nibble(e[2 * i - 1]) = v[i] \div 16 /\ hex_char_to_nibble(e[2 * i]) = v[i] % 16
    BY <1>1 DEF HexRead
  <2>4. v[i] \in Octet
    BY <1>1 DEF HexRead
  <2>5. octet(i) = 16 * (v[i] \div 16) + (v[i] % 16)
    BY <2>2, <2>3
  <2> QED BY <2>4, <2>5, NibblesOfOctet
<1> DEFINE r == result.raw
<1> HIDE DEF octet, result
<1>9. Len(r) = k /\ \A i \in 1 .. k : r[i] = octet(i)
  BY <1>7
<1> HIDE DEF r
<1>10. \A i \in 1 .. m : i <= Len(r) => r[i] = v[i]
  <2>1. SUFFICES ASSUME NEW i \in 1 .. m, i <= Len(r) PROVE r[i] = v[i]
    OBVIOUS
  <2>2. i <= k /\ i \in 1 .. k
    BY <1>9, <2>1
  <2>3. r[i] = octet(i)
    BY <1>9, <2>2
  <2>4. octet(i) = v[i]
    BY <1>8, <2>2
  <2> QED BY <2>3, <2>4
<1>11. HexTravels(t, e, n) => Len(r) <= m
  BY <1>3, <1>6, <1>9
<1>12. n = 0 /\ len >= 2 * m => Len(r) >= m
  BY <1>3, <1>4, <1>5, <1>6, <1>9
<1> QED BY <1>1, <1>6, <1>7, <1>9, <1>10, <1>11, <1>12 DEF r, result

\* The Java decoder gives all octets, or throws, and then only for a broken text.
LEMMA HexDecodesJava ==
  ASSUME NEW e, NEW v, HexRead(e, v), NEW n \in Nat, NEW t, HexTravels(t, e, n)
  PROVE  hex2Byte(t) = IF n = 0 THEN v ELSE Thrown
<1>1. PICK m \in Nat : m = Len(v) /\ Len(e) = 2 * m
  BY LenProperties DEF HexRead
<1>2. CASE n = 0
  <2>1. t = e
    BY <1>2 DEF HexTravels
  <2>2. DOMAIN e = 1 .. 2 * m
    BY <1>1 DEF HexRead
  <2>3. IsHex(e)
    <3>1. \A d \in 0 .. 15 : d < 16
      OBVIOUS
    <3>2. \A i \in 1 .. Len(e) : DigitValue(e[i]) \in 0 .. 15
      BY AllDigits
    <3> QED BY <1>1, <2>2, <3>1, <3>2 DEF IsHex
  <2>4. Len(e) % 2 = 0 /\ Len(e) \div 2 = m
    BY <1>1, SMT
  <2>5. hex2Byte(e) = [i \in 1 .. m |-> 16 * DigitValue(e[2 * i - 1]) + DigitValue(e[2 * i])]
    BY <2>3, <2>4 DEF hex2Byte
  <2>6. ASSUME NEW i \in 1 .. m PROVE 16 * DigitValue(e[2 * i - 1]) + DigitValue(e[2 * i]) = v[i]
    <3>1. v[i] \in Octet /\ DigitValue(e[2 * i - 1]) = v[i] \div 16 /\ DigitValue(e[2 * i]) = v[i] % 16
      BY <1>1 DEF HexRead
    <3> QED BY <3>1, NibblesOfOctet
  <2>7. v = [i \in 1 .. m |-> v[i]]
    BY <1>1 DEF HexRead
  <2>8. hex2Byte(e) = [i \in 1 .. m |-> v[i]]
    BY <2>5, <2>6
  <2> QED BY <1>2, <2>1, <2>7, <2>8
<1>3. CASE n # 0
  <2>1. PICK p \in 0 .. Len(e) : p < Len(t) /\ t[p + 1] = LineBreak
    BY <1>3 DEF HexTravels
  <2>2. p + 1 \in DOMAIN t
    <3>1. t \in Seq(Nat) /\ Len(t) \in Nat /\ p \in Nat
      BY <1>1, LenProperties DEF HexTravels
    <3> QED BY <2>1, <3>1
  <2>3. DigitValue(LineBreak) = 16
    BY DEF DigitValue, LineBreak
  <2>4. ~IsHex(t)
    BY <2>1, <2>2, <2>3 DEF IsHex
  <2> QED BY <1>3, <2>4 DEF hex2Byte
<1> QED BY <1>2, <1>3

-----------------------------------------------------------------------------
(* native2ascii and ascii2native. *)

Ascii == 0 .. 126

\* A code unit is one character, or the six of an escape.
LEMMA EscapeIs ==
  ASSUME NEW c \in CodeUnit
  PROVE  /\ Escape(c) \in Seq(Ascii)
         /\ c <= 126 => Escape(c) = <<c>>
         /\ c > 126 => /\ Len(Escape(c)) = 6 /\ Escape(c)[1] = Backslash /\ Escape(c)[2] = 117
                       /\ \A i \in 3 .. 6 : DigitValue(Escape(c)[i]) \in 0 .. 15
                       /\ 4096 * DigitValue(Escape(c)[3]) + 256 * DigitValue(Escape(c)[4])
                            + 16 * DigitValue(Escape(c)[5]) + DigitValue(Escape(c)[6]) = c
<1>1. c \in Nat /\ c < 65536
  BY DEF CodeUnit
<1>2. CASE c <= 126
  <2>1. Escape(c) = <<c>> /\ c \in Ascii /\ ~(c > 126)
    BY <1>1, <1>2 DEF Escape, Ascii
  <2> QED BY <2>1
<1>3. CASE ~(c <= 126)
  <2>1. PICK d1 \in 0 .. 15 : d1 = c \div 4096
    <3>1. c \div 4096 \in 0 .. 15
      BY <1>1, SMT
    <3> QED BY <3>1
  <2>2. PICK d2 \in 0 .. 15 : d2 = (c \div 256) % 16
    <3>1. (c \div 256) % 16 \in 0 .. 15
      BY <1>1, SMT
    <3> QED BY <3>1
  <2>3. PICK d3 \in 0 .. 15 : d3 = (c \div 16) % 16
    <3>1. (c \div 16) % 16 \in 0 .. 15
      BY <1>1, SMT
    <3> QED BY <3>1
  <2>4. PICK d4 \in 0 .. 15 : d4 = c % 16
    <3>1. c % 16 \in 0 .. 15
      BY <1>1, SMT
    <3> QED BY <3>1
  <2>5. 4096 * d1 + 256 * d2 + 16 * d3 + d4 = c
    <3>1. c \div 16 = 16 * (c \div 256) + ((c \div 16) % 16) /\ c \div 256 = 16 * (c \div 4096) + ((c \div 256) % 16)
      BY <1>1, SMT
    <3>2. c = 16 * (c \div 16) + (c % 16)
      BY <1>1, SMT
    <3>3. c \div 16 \in Int /\ c \div 256 \in Int /\ c \div 4096 \in Int
      BY <1>1, SMT
    <3> QED BY <1>1, <2>1, <2>2, <2>3, <2>4, <3>1, <3>2, <3>3
  <2>6. Escape(c) = <<Backslash, 117, LowerDigit(d1), LowerDigit(d2), LowerDigit(d3), LowerDigit(d4)>>
    BY <1>3, <2>1, <2>2, <2>3, <2>4 DEF Escape
  <2>7. \A d \in 0 .. 15 : LowerDigit(d) \in Ascii /\ DigitValue(LowerDigit(d)) = d
    <3>1. SUFFICES ASSUME NEW d \in 0 .. 15 PROVE LowerDigit(d) \in Ascii /\ DigitValue(LowerDigit(d)) = d
      OBVIOUS
    <3>2. CASE d < 10
      <4>1. LowerDigit(d) = 48 + d /\ 48 + d \in 48 .. 57
        BY <3>2 DEF LowerDigit
      <4> QED BY <4>1 DEF DigitValue, Ascii
    <3>3. CASE ~(d < 10)
      <4>1. LowerDigit(d) = 87 + d /\ 87 + d \in 97 .. 102
        BY <3>3 DEF LowerDigit
      <4> QED BY <4>1 DEF DigitValue, Ascii
    <3> QED BY <3>2, <3>3
  <2>8. Backslash \in Ascii /\ 117 \in Ascii
    BY DEF Backslash, Ascii
  <2> DEFINE e == Escape(c)
  <2>9. /\ e \in Seq(Ascii) /\ Len(e) = 6 /\ e[1] = Backslash /\ e[2] = 117
        /\ e[3] = LowerDigit(d1) /\ e[4] = LowerDigit(d2) /\ e[5] = LowerDigit(d3) /\ e[6] = LowerDigit(d4)
    BY <2>6, <2>7, <2>8
  <2> HIDE DEF e
  <2>10. DigitValue(e[3]) = d1 /\ DigitValue(e[4]) = d2 /\ DigitValue(e[5]) = d3 /\ DigitValue(e[6]) = d4
    BY <2>7, <2>9
  <2>11. \A i \in 3 .. 6 : DigitValue(e[i]) \in 0 .. 15
    <3>1. \A i \in 3 .. 6 : i = 3 \/ i = 4 \/ i = 5 \/ i = 6
      OBVIOUS
    <3> QED BY <2>10, <3>1
  <2> QED BY <1>3, <2>5, <2>9, <2>10, <2>11 DEF e
<1> QED BY <1>2, <1>3

\* The loop is the recursive function of its definition.
LEMMA LoopIs ==
  ASSUME NEW input
  PROVE  ascii2native(input) =
           (CHOOSE f : f = [i \in 1 .. Len(input) + 1 |-> Onward(input, f, i)])[1]
BY DEF ascii2native

\* What the loop does at a character depends on later characters only.
LEMMA OnwardLooksAhead ==
  ASSUME NEW input, Len(input) \in Nat, NEW f, NEW g, NEW i \in 1 .. Len(input) + 1,
         \A j \in i + 1 .. Len(input) + 1 : f[j] = g[j]
  PROVE  Onward(input, f, i) = Onward(input, g, i)
<1> DEFINE n == Len(input)
<1>1. n \in Nat /\ i \in 1 .. n + 1 /\ \A j \in i + 1 .. n + 1 : f[j] = g[j]
  OBVIOUS
<1>2. CASE i > n
  BY <1>2 DEF Onward
<1>3. CASE i <= n
  <2> HIDE DEF n
  <2>1. f[i + 1] = g[i + 1]
    <3>1. i + 1 \in i + 1 .. n + 1
      BY <1>1, <1>3
    <3> QED BY <1>1, <3>1
  <2>2. i < n => f[i + 2] = g[i + 2]
    <3>1. i < n => i + 2 \in i + 1 .. n + 1
      BY <1>1
    <3> QED BY <1>1, <3>1
  <2>3. i + 5 <= n => f[i + 6] = g[i + 6]
    <3>1. i + 5 <= n => i + 6 \in i + 1 .. n + 1
      BY <1>1
    <3> QED BY <1>1, <3>1
  <2> QED BY <1>1, <1>3, <2>1, <2>2, <2>3 DEF Onward, n
<1> QED BY <1>1, <1>2, <1>3

\* A function that runs the loop, at characters i..Len(input) + 1.
LoopRun(input, f, i) == \A j \in i .. Len(input) + 1 : f[j] = Onward(input, f, j)

\* The loop runs whatever its input, and ascii2native is what it gives.
LEMMA LoopRuns ==
  ASSUME NEW input, Len(input) \in Nat
  PROVE  \E f : LoopRun(input, f, 1) /\ ascii2native(input) = f[1]
<1> DEFINE n == Len(input)
           Run(f, m) == DOMAIN f = 1 .. n + 1 /\ LoopRun(input, f, n + 1 - m)
           S == {m \in 0 .. n : \E f : Run(f, m)}
<1>1. n \in Nat
  OBVIOUS
<1>2. ASSUME NEW m \in 0 .. n, NEW f,
             \A j \in n + 2 - m .. n + 1 : f[j] = Onward(input, f, j), DOMAIN f = 1 .. n + 1
      PROVE  \E g : Run(g, m)
  <2> DEFINE k == n + 1 - m
             g == [j \in 1 .. n + 1 |-> IF j = k THEN Onward(input, f, k) ELSE f[j]]
  <2>1. k \in 1 .. n + 1
    BY <1>1
  <2>2. DOMAIN g = 1 .. n + 1
    OBVIOUS
  <2>3. ASSUME NEW j \in k .. n + 1 PROVE g[j] = Onward(input, g, j)
    <3>1. \A l \in j + 1 .. n + 1 : f[l] = g[l]
      BY <1>1, <2>1
    <3>2. j \in 1 .. n + 1
      BY <1>1, <2>1
    <3> HIDE DEF g
    <3>3. Onward(input, f, j) = Onward(input, g, j)
      BY <3>1, <3>2, OnwardLooksAhead
    <3>4. CASE j = k
      <4>1. g[k] = Onward(input, f, k)
        BY <2>1 DEF g
      <4> QED BY <3>3, <3>4, <4>1
    <3>5. CASE j # k
      <4>1. g[j] = f[j] /\ j \in n + 2 - m .. n + 1
        BY <1>1, <2>1, <3>5 DEF g
      <4> QED BY <1>2, <3>3, <4>1
    <3> QED BY <3>4, <3>5
  <2> HIDE DEF g
  <2>4. Run(g, m)
    BY <1>1, <2>2, <2>3 DEF LoopRun
  <2> QED BY <2>4
<1>3. 0 \in S
  <2> DEFINE a == [j \in 1 .. n + 1 |-> << >>]
  <2>1. DOMAIN a = 1 .. n + 1 /\ \A j \in n + 2 - 0 .. n + 1 : a[j] = Onward(input, a, j)
    BY <1>1
  <2> HIDE DEF a, Run
  <2>2. 0 \in 0 .. n
    BY <1>1
  <2>3. \E g : Run(g, 0)
    BY <1>2, <2>1, <2>2
  <2> QED BY <2>2, <2>3
<1>4. ASSUME NEW m \in 1 .. n, m - 1 \in S PROVE m \in S
  <2>1. PICK f : Run(f, m - 1)
    BY <1>4
  <2>2. DOMAIN f = 1 .. n + 1 /\ \A j \in n + 2 - m .. n + 1 : f[j] = Onward(input, f, j)
    <3>1. n + 1 - (m - 1) = n + 2 - m
      BY <1>1
    <3> QED BY <2>1, <3>1 DEF LoopRun
  <2> HIDE DEF Run
  <2>3. m \in 0 .. n
    BY <1>1
  <2>4. \E g : Run(g, m)
    BY <1>2, <2>2, <2>3
  <2> QED BY <2>3, <2>4
<1> HIDE DEF S
<1>5. 0 .. n \subseteq S
  BY <1>1, <1>3, <1>4, RangeInduction
<1>6. n \in S
  BY <1>1, <1>5
<1>7. PICK h : Run(h, n)
  BY <1>6 DEF S
<1> DEFINE f0 == [i \in 1 .. n + 1 |-> h[i]]
           Loop(f) == f = [i \in 1 .. n + 1 |-> Onward(input, f, i)]
<1>8. f0 = [i \in 1 .. n + 1 |-> Onward(input, f0, i)]
  <2>1. ASSUME NEW i \in 1 .. n + 1 PROVE f0[i] = Onward(input, f0, i)
    <3>1. h[i] = Onward(input, h, i)
      <4>1. n + 1 - n = 1
        BY <1>1
      <4> QED BY <1>7, <4>1 DEF LoopRun
    <3>2. \A j \in i + 1 .. n + 1 : h[j] = f0[j]
      BY <1>1
    <3> HIDE DEF f0
    <3>3. Onward(input, h, i) = Onward(input, f0, i)
      BY <3>2, OnwardLooksAhead
    <3>4. f0[i] = h[i]
      BY DEF f0
    <3> QED BY <3>1, <3>3, <3>4
  <2> DEFINE e(i) == Onward(input, f0, i)
  <2>2. \A i \in 1 .. n + 1 : f0[i] = e(i)
    BY <2>1
  <2> HIDE DEF e
  <2>3. f0 = [i \in 1 .. n + 1 |-> e(i)]
    BY <2>2
  <2> QED BY <2>3 DEF e
<1> HIDE DEF f0, Run
<1>9. Loop(f0)
  BY <1>8
<1> HIDE DEF Loop
<1>10. Loop(CHOOSE f : Loop(f))
  BY <1>9
<1> DEFINE c == CHOOSE f : Loop(f)
<1>11. ascii2native(input) = c[1]
  BY LoopIs DEF Loop
<1>12. Loop(c)
  BY <1>10
<1> HIDE DEF c
<1>13. \A i \in 1 .. n + 1 : c[i] = Onward(input, c, i)
  BY <1>12 DEF Loop
<1>14. LoopRun(input, c, 1)
  BY <1>13 DEF LoopRun
<1> QED BY <1>11, <1>14

\* Where in the text t the escapes of the code units of units end: at[k] is the
\* length of those of the first k.
Laid(units, t, at) ==
  /\ t \in Seq(Ascii)
  /\ at \in [0 .. Len(units) -> Nat]
  /\ at[0] = 0 /\ at[Len(units)] = Len(t)
  /\ \A k \in 1 .. Len(units) :
       LET e == Escape(units[k])
       IN  /\ at[k] = at[k - 1] + Len(e) /\ at[k] <= Len(t)
           /\ \A i \in 1 .. Len(e) : t[at[k - 1] + i] = e[i]

\* The text of native2ascii holds the escapes, one after the other.
LEMMA TextLaid ==
  ASSUME NEW units \in Seq(CodeUnit)
  PROVE  \E at : Laid(units, native2ascii(units), at)
<1> DEFINE n == Len(units)
           seqs == [i \in DOMAIN units |-> Escape(units[i])]
           t == native2ascii(units)
<1>1. n \in Nat /\ DOMAIN units = 1 .. n /\ \A i \in 1 .. n : units[i] \in CodeUnit
  OBVIOUS
<1>2. \A i \in 1 .. n : Escape(units[i]) \in Seq(Ascii)
  BY <1>1, EscapeIs
<1>3. seqs \in Seq(Seq(Ascii)) /\ Len(seqs) = n /\ \A i \in 1 .. n : seqs[i] = Escape(units[i])
  BY <1>1, <1>2
<1> HIDE DEF seqs
<1>4. PICK f : Together(Ascii, seqs, f) /\ FlattenSeq(seqs) = f[Len(seqs)]
  BY <1>3, FlattenIs
<1>5. t = f[n]
  BY <1>3, <1>4 DEF native2ascii, seqs
<1> HIDE DEF t, n
<1>6. f \in [0 .. n -> Seq(Ascii)] /\ f[0] = << >> /\ \A k \in 1 .. n : f[k] = f[k - 1] \o Escape(units[k])
  BY <1>3, <1>4 DEF Together
<1> DEFINE Heads(u, v) == Len(u) <= Len(v) /\ \A i \in 1 .. Len(u) : v[i] = u[i]
           S == {m \in 0 .. n : Heads(f[n - m], t)}
<1>7. \A k \in 0 .. n : f[k] \in Seq(Ascii) /\ Len(f[k]) \in Nat
  BY <1>6, LenProperties
<1>8. t \in Seq(Ascii) /\ Len(t) \in Nat
  BY <1>1, <1>5, <1>7 DEF n
<1>9. ASSUME NEW k \in 1 .. n
      PROVE  /\ Len(f[k]) = Len(f[k - 1]) + Len(Escape(units[k]))
             /\ \A i \in 1 .. Len(f[k - 1]) : f[k][i] = f[k - 1][i]
             /\ \A i \in 1 .. Len(Escape(units[k])) : f[k][Len(f[k - 1]) + i] = Escape(units[k])[i]
  <2> DEFINE u == f[k - 1]
             v == Escape(units[k])
             w == f[k]
  <2>1. k - 1 \in 0 .. n
    BY <1>1
  <2>2. u \in Seq(Ascii) /\ v \in Seq(Ascii)
    BY <1>2, <1>7, <2>1
  <2>3. w = u \o v
    BY <1>6
  <2> HIDE DEF u, v, w
  <2>4. Len(w) = Len(u) + Len(v) /\ Len(u) \in Nat /\ Len(v) \in Nat
    BY <2>2, <2>3
  <2>5. \A i \in 1 .. Len(u) : w[i] = u[i]
    BY <2>2, <2>3
  <2>6. \A i \in 1 .. Len(v) : w[Len(u) + i] = v[i]
    BY <2>2, <2>3
  <2> QED BY <2>4, <2>5, <2>6 DEF u, v, w
<1>10. 0 .. n \subseteq S
  <2>1. 0 \in S
    <3>1. n - 0 = n
      BY <1>1 DEF n
    <3> QED BY <1>1, <1>5, <1>8, <3>1 DEF n
  <2>2. ASSUME NEW m \in 1 .. n, m - 1 \in S PROVE m \in S
    <3> DEFINE k == n - m + 1
    <3>1. k \in 1 .. n /\ n - (m - 1) = k /\ n - m = k - 1
      BY <1>1 DEF n
    <3>2. Heads(f[k], t)
      BY <2>2, <3>1
    <3> HIDE DEF k
    <3>3. Len(f[k]) = Len(f[k - 1]) + Len(Escape(units[k])) /\ \A i \in 1 .. Len(f[k - 1]) : f[k][i] = f[k - 1][i]
      BY <1>9, <3>1
    <3>4. Len(f[k - 1]) \in Nat /\ Len(Escape(units[k])) \in Nat /\ Len(f[k]) \in Nat
      <4>1. k - 1 \in 0 .. n /\ k \in 0 .. n
        BY <1>1, <3>1 DEF n
      <4>2. Escape(units[k]) \in Seq(Ascii)
        BY <1>2, <3>1
      <4> QED BY <1>7, <4>1, <4>2, LenProperties
    <3>5. Heads(f[k - 1], t)
      <4>0. Len(f[k - 1]) <= Len(f[k])
        <5>1. \A a, b, c \in Nat : a = b + c => b <= a
          OBVIOUS
        <5> QED BY <3>3, <3>4, <5>1
      <4>1. \A i \in 1 .. Len(f[k - 1]) : i \in 1 .. Len(f[k])
        <5>1. \A a, b \in Nat : a <= b => \A i \in 1 .. a : i \in 1 .. b
          OBVIOUS
        <5> QED BY <3>4, <4>0, <5>1
      <4>2. Len(f[k - 1]) <= Len(t)
        <5>1. \A a, b, c \in Nat : a <= b /\ b <= c => a <= c
          OBVIOUS
        <5> QED BY <1>8, <3>2, <3>4, <4>0, <5>1
      <4> QED BY <3>2, <3>3, <4>1, <4>2
    <3>6. m \in 0 .. n
      BY <1>1 DEF n
    <3> QED BY <3>1, <3>5, <3>6
  <2> HIDE DEF S
  <2>3. n \in Nat
    BY <1>1 DEF n
  <2> QED BY <2>1, <2>2, <2>3, RangeInduction
<1>11. \A k \in 1 .. n : Heads(f[k], t)
  <2>1. \A k \in 1 .. n : n - k \in 0 .. n /\ n - (n - k) = k
    BY <1>1 DEF n
  <2>2. \A m \in 0 .. n : Heads(f[n - m], t)
    BY <1>10
  <2> HIDE DEF Heads
  <2>3. ASSUME NEW k \in 1 .. n PROVE Heads(f[k], t)
    <3>1. Heads(f[n - (n - k)], t)
      BY <2>1, <2>2
    <3> QED BY <2>1, <3>1
  <2> QED BY <2>3
<1> DEFINE at == [k \in 0 .. n |-> Len(f[k])]
<1>12. at \in [0 .. n -> Nat] /\ \A k \in 0 .. n : at[k] = Len(f[k])
  BY <1>7
<1> HIDE DEF at
<1>13. at[0] = 0 /\ at[n] = Len(t)
  <2>1. 0 \in 0 .. n /\ n \in 0 .. n
    BY <1>1 DEF n
  <2> QED BY <1>5, <1>6, <1>12, <2>1
<1>14. ASSUME NEW k \in 1 .. n
       PROVE  /\ at[k] = at[k - 1] + Len(Escape(units[k])) /\ at[k] <= Len(t)
              /\ \A i \in 1 .. Len(Escape(units[k])) : t[at[k - 1] + i] = Escape(units[k])[i]
  <2>1. k - 1 \in 0 .. n /\ k \in 0 .. n
    BY <1>1 DEF n
  <2>2. at[k] = Len(f[k]) /\ at[k - 1] = Len(f[k - 1])
    BY <1>12, <2>1
  <2>3. Escape(units[k]) \in Seq(Ascii)
    BY <1>2
  <2> DEFINE a == Len(f[k - 1])
             e == Escape(units[k])
  <2>4. a \in Nat /\ Len(e) \in Nat /\ Len(f[k]) = a + Len(e)
    BY <1>7, <1>9, <2>1, <2>3, LenProperties
  <2>5. \A i \in 1 .. Len(e) : f[k][a + i] = e[i]
    BY <1>9
  <2>6. Len(f[k]) <= Len(t) /\ \A i \in 1 .. Len(f[k]) : t[i] = f[k][i]
    BY <1>11
  <2> HIDE DEF a, e
  <2>7. \A i \in 1 .. Len(e) : a + i \in 1 .. Len(f[k])
    BY <2>4
  <2>8. \A i \in 1 .. Len(e) : t[a + i] = e[i]
    BY <2>5, <2>6, <2>7
  <2> QED BY <2>2, <2>4, <2>6, <2>8 DEF a, e
<1>15. Laid(units, t, at)
  BY <1>8, <1>12, <1>13, <1>14 DEF Laid, n
<1> QED BY <1>15 DEF t

\* The values of digits.
LEMMA NibblesAreSmall == \A x \in 0 .. 15 : x < 16
OBVIOUS

\* Code units are natural numbers.
LEMMA CodeUnitsAreNumbers == \A c \in CodeUnit : c \in Nat
BY DEF CodeUnit

\* Glue puts one text before another: texts of code units never look thrown.
LEMMA GlueIs ==
  ASSUME NEW s \in Seq(CodeUnit), NEW t \in Seq(CodeUnit)
  PROVE  Glue(s, t) = s \o t
<1>0. \A i \in 1 .. Len(t) : t[i] \in Nat
  BY CodeUnitsAreNumbers
<1>1. t # Thrown
  <2>1. ASSUME t = Thrown PROVE FALSE
    <3>1. Len(t) = 1 /\ t[1] = -1
      BY <2>1 DEF Thrown
    <3>2. t[1] \in Nat
      BY <1>0, <3>1
    <3> QED BY <3>1, <3>2
  <2> QED BY <2>1
<1> QED BY <1>1 DEF Glue

\* The loop reads one escape: before the text it gives from there on, the code
\* unit.
LEMMA OneBack ==
  ASSUME NEW t \in Seq(Ascii), NEW f, NEW p \in Nat, NEW c \in CodeUnit, c # Backslash,
         p + Len(Escape(c)) <= Len(t),
         \A i \in 1 .. Len(Escape(c)) : t[p + i] = Escape(c)[i],
         f[p + Len(Escape(c)) + 1] \in Seq(CodeUnit)
  PROVE  Onward(t, f, p + 1) = << c >> \o f[p + Len(Escape(c)) + 1]
<1>1. c \in Nat /\ Len(t) \in Nat /\ << c >> \in Seq(CodeUnit)
  <2>1. c \in Nat
    BY CodeUnitsAreNumbers
  <2>2. Len(t) \in Nat /\ << c >> \in Seq(CodeUnit)
    BY LenProperties
  <2> QED BY <2>1, <2>2
<1> DEFINE rest == f[p + Len(Escape(c)) + 1]
<1>2. Glue(<< c >>, rest) = << c >> \o rest
  BY <1>1, GlueIs
<1>3. CASE c <= 126
  <2>1. Escape(c) = << c >>
    BY <1>3, EscapeIs
  <2>2. Len(Escape(c)) = 1 /\ Escape(c)[1] = c
    BY <2>1
  <2>3. p + 1 <= Len(t) /\ t[p + 1] = c /\ rest = f[(p + 1) + 1]
    BY <2>2
  <2> HIDE DEF rest
  <2>4. Onward(t, f, p + 1) = Glue(<< c >>, rest)
    BY <1>1, <2>3 DEF Onward
  <2> QED BY <1>2, <2>4 DEF rest
<1>4. CASE c > 126
  <2> DEFINE e == Escape(c)
             h == SubSeq(t, (p + 1) + 2, (p + 1) + 5)
  <2>1. /\ Len(e) = 6 /\ e[1] = Backslash /\ e[2] = 117
        /\ \A i \in 3 .. 6 : DigitValue(e[i]) \in 0 .. 15
        /\ 4096 * DigitValue(e[3]) + 256 * DigitValue(e[4]) + 16 * DigitValue(e[5]) + DigitValue(e[6]) = c
    BY <1>4, EscapeIs
  <2>2. \A i \in 1 .. Len(e) : t[p + i] = e[i]
    OBVIOUS
  <2>3. p + Len(e) <= Len(t) /\ rest = f[p + Len(e) + 1]
    OBVIOUS
  <2> HIDE DEF e, rest
  <2>4. /\ t[p + 1] = Backslash /\ t[(p + 1) + 1] = 117 /\ (p + 1) + 5 <= Len(t)
        /\ rest = f[(p + 1) + 6]
        /\ t[p + 3] = e[3] /\ t[p + 4] = e[4] /\ t[p + 5] = e[5] /\ t[p + 6] = e[6]
    BY <2>1, <2>2, <2>3
  <2>5. Len(h) = 4 /\ h[1] = e[3] /\ h[2] = e[4] /\ h[3] = e[5] /\ h[4] = e[6] /\ DOMAIN h = 1 .. 4
    <3>1. h = [i \in 1 .. 4 |-> t[p + 2 + i]]
      <4>1. (p + 1) + 2 \in 1 .. Len(t) + 1 /\ (p + 1) + 5 <= Len(t)
        BY <1>1, <2>4
      <4> QED BY <4>1, <1>1
    <3> HIDE DEF h
    <3> QED BY <2>4, <3>1
  <2> HIDE DEF h
  <2>6. IsHex(h)
    <3>1. \A i \in 1 .. 4 : DigitValue(h[i]) \in 0 .. 15
      <4>1. \A i \in 1 .. 4 : i = 1 \/ i = 2 \/ i = 3 \/ i = 4
        OBVIOUS
      <4>2. /\ DigitValue(e[3]) \in 0 .. 15 /\ DigitValue(e[4]) \in 0 .. 15
            /\ DigitValue(e[5]) \in 0 .. 15 /\ DigitValue(e[6]) \in 0 .. 15
        BY <2>1
      <4> QED BY <2>5, <4>1, <4>2
    <3>2. \A i \in DOMAIN h : DigitValue(h[i]) < 16
      BY <2>5, <3>1, NibblesAreSmall
    <3> QED BY <3>2 DEF IsHex
  <2>7. HexValue(h) = c
    BY <2>1, <2>5 DEF HexValue
  <2>8. Onward(t, f, p + 1) = Glue(<< HexValue(h) >>, rest)
    <3>1. PICK i \in Nat : i = p + 1
      OBVIOUS
    <3>2. i + 5 <= Len(t) /\ t[i] = Backslash /\ t[i + 1] = 117 /\ rest = f[i + 6] /\ h = SubSeq(t, i + 2, i + 5)
      BY <2>4, <3>1 DEF h
    <3>3. ~(i > Len(t)) /\ i <= Len(t) /\ i # Len(t) /\ i < Len(t)
      BY <1>1, <3>2
    <3>4. Onward(t, f, i) = Glue(<< HexValue(SubSeq(t, i + 2, i + 5)) >>, f[i + 6])
      BY <2>6, <3>2, <3>3, Zenon DEF Onward
    <3> QED BY <3>1, <3>2, <3>4
  <2> QED BY <1>2, <2>7, <2>8 DEF rest, e
<1> QED BY <1>1, <1>3, <1>4

\* ascii2native gives back every text without a backslash that native2ascii
\* escaped.
THEOREM AsciiComesBack ==
  ASSUME NEW units \in Seq(CodeUnit), \A i \in DOMAIN units : units[i] # Backslash
  PROVE  ascii2native(native2ascii(units)) = units
<1> DEFINE n == Len(units)
           t == native2ascii(units)
<1>1. n \in Nat /\ DOMAIN units = 1 .. n /\ \A i \in 1 .. n : units[i] \in CodeUnit /\ units[i] # Backslash
  OBVIOUS
<1>2. PICK at : Laid(units, t, at)
  BY TextLaid
<1>3. t \in Seq(Ascii) /\ Len(t) \in Nat
  BY <1>2, LenProperties DEF Laid
<1>4. PICK f : LoopRun(t, f, 1) /\ ascii2native(t) = f[1]
  BY <1>3, LoopRuns
<1> HIDE DEF t
<1> DEFINE S == {m \in 0 .. n : f[at[n - m] + 1] = SubSeq(units, n - m + 1, n)}
<1>5. at \in [0 .. n -> Nat] /\ at[0] = 0 /\ at[n] = Len(t)
  BY <1>2 DEF Laid
<1>6. \A k \in 0 .. n : SubSeq(units, k + 1, n) \in Seq(CodeUnit)
  BY <1>1
<1>7. 0 \in S
  <2>1. f[Len(t) + 1] = << >>
    <3>1. Len(t) + 1 \in 1 .. Len(t) + 1
      BY <1>3
    <3>2. f[Len(t) + 1] = Onward(t, f, Len(t) + 1)
      BY <1>4, <3>1 DEF LoopRun
    <3>3. Onward(t, f, Len(t) + 1) = << >>
      BY <1>3 DEF Onward
    <3> QED BY <3>2, <3>3
  <2>2. SubSeq(units, n + 1, n) = << >>
    BY <1>1
  <2>3. n - 0 = n
    BY <1>1
  <2>4. 0 \in 0 .. n
    BY <1>1
  <2> HIDE DEF n
  <2>5. f[at[n - 0] + 1] = SubSeq(units, n - 0 + 1, n)
    BY <1>5, <2>1, <2>2, <2>3
  <2> QED BY <2>4, <2>5
<1>8. ASSUME NEW m \in 1 .. n, m - 1 \in S PROVE m \in S
  <2> DEFINE k == n - m + 1
             e == Escape(units[k])
  <2>1. k \in 1 .. n /\ n - (m - 1) = k /\ n - m = k - 1 /\ m \in 0 .. n /\ k - 1 \in 0 .. n /\ k \in 0 .. n
    BY <1>1
  <2>2. f[at[k] + 1] = SubSeq(units, k + 1, n)
    BY <1>8, <2>1
  <2> HIDE DEF k
  <2>3. at[k] = at[k - 1] + Len(e) /\ at[k] <= Len(t) /\ \A i \in 1 .. Len(e) : t[at[k - 1] + i] = e[i]
    BY <1>2, <2>1 DEF Laid
  <2>4. PICK p \in Nat : p = at[k - 1]
    BY <1>5, <2>1
  <2>5. Len(e) \in Nat
    <3>1. e \in Seq(Ascii)
      BY <1>1, <2>1, EscapeIs
    <3> QED BY <3>1
  <2>6. f[p + Len(e) + 1] = SubSeq(units, k + 1, n)
    BY <2>2, <2>3, <2>4
  <2>7. Onward(t, f, p + 1) = << units[k] >> \o SubSeq(units, k + 1, n)
    <3>1. p + Len(e) <= Len(t) /\ \A i \in 1 .. Len(e) : t[p + i] = e[i]
      BY <2>3, <2>4
    <3>2. f[p + Len(e) + 1] \in Seq(CodeUnit)
      BY <1>6, <2>1, <2>6
    <3>3. units[k] \in CodeUnit /\ units[k] # Backslash
      BY <1>1, <2>1
    <3>4. Onward(t, f, p + 1) = << units[k] >> \o f[p + Len(e) + 1]
      BY <1>3, <3>1, <3>2, <3>3, OneBack
    <3> QED BY <2>6, <3>4
  <2>8. << units[k] >> \o SubSeq(units, k + 1, n) = SubSeq(units, k, n)
    BY <1>1, <2>1
  <2>9. f[p + 1] = Onward(t, f, p + 1)
    <3>1. p + 1 \in 1 .. Len(t) + 1
      BY <1>3, <2>3, <2>4, <2>5
    <3> QED BY <1>4, <3>1 DEF LoopRun
  <2>10. f[at[n - m] + 1] = SubSeq(units, n - m + 1, n)
    BY <2>1, <2>4, <2>7, <2>8, <2>9 DEF k
  <2> QED BY <2>1, <2>10
<1> HIDE DEF S
<1>9. 0 .. n \subseteq S
  BY <1>1, <1>7, <1>8, RangeInduction
<1>10. n \in S
  BY <1>1, <1>9
<1>11. f[1] = SubSeq(units, 1, n)
  <2>1. n - n = 0 /\ 0 + 1 = 1
    BY <1>1
  <2> HIDE DEF n
  <2> QED BY <1>5, <1>10, <2>1 DEF S
<1>12. SubSeq(units, 1, n) = units
  BY <1>1
<1> QED BY <1>4, <1>11, <1>12 DEF t

-----------------------------------------------------------------------------
(* The states of Codecs. *)

\* What the text holds of the value, by the encoder that made it.
Carried ==
  /\ form = "none" => breaks = 0 /\ outcome = NoOutcome
  /\ form = "base64_encode" /\ ended =>
       /\ data \in Seq(Octet) /\ text \in Seq(Nat)
       /\ Kept(Values(text)) = Sextets(data)
       /\ Len(text) >= Needed(data)
       /\ breaks = 0 => text = Base64Text(data)
  /\ form = "octet_string_hex_string" =>
       /\ data \in Seq(Octet)
       /\ HexStays(text, octet_string_hex_string(data), breaks)
       /\ ended => HexTravels(text, octet_string_hex_string(data), breaks)
  /\ form = "byte2Hex" =>
       data \in Seq(Octet) /\ HexTravels(text, byte2Hex(data), breaks)
  /\ form = "native2ascii" => text = native2ascii(data)

CodecInv ==
  /\ data \in Seq(CodeUnit) /\ breaks \in Nat
  /\ form \in {"none", "base64_encode", "octet_string_hex_string", "byte2Hex", "native2ascii"}
  /\ Carried
  /\ Base64RoundTrip
  /\ TextRoundTrip

\* The text of native2ascii is ASCII.
LEMMA AsciiOnly ==
  ASSUME NEW s \in Seq(CodeUnit)
  PROVE  \A i \in DOMAIN native2ascii(s) : native2ascii(s)[i] <= 126
<1>1. native2ascii(s) \in Seq(Ascii)
  BY TextLaid DEF Laid
<1> DEFINE t == native2ascii(s)
<1> HIDE DEF t
<1>2. t \in Seq(Ascii)
  BY <1>1 DEF t
<1>3. \A i \in DOMAIN t : t[i] <= 126
  <2>1. \A i \in DOMAIN t : t[i] \in Ascii
    BY <1>2
  <2>2. \A x \in Ascii : x <= 126
    BY DEF Ascii
  <2> QED BY <2>1, <2>2
<1> QED BY <1>3 DEF t

\* CodecInv holds at the beginning.
LEMMA CodecStarts == CodecInit => CodecInv
<1> SUFFICES ASSUME CodecInit PROVE CodecInv
  OBVIOUS
<1>1. data \in Seq(CodeUnit) /\ breaks = 0 /\ form = "none" /\ outcome = NoOutcome
  BY EncodableAssumption DEF CodecInit
<1>2. outcome.by = "none"
  BY <1>1 DEF NoOutcome
<1>3. Carried
  BY <1>1 DEF Carried
<1>4. Base64RoundTrip
  BY <1>2 DEF Base64RoundTrip
<1>5. TextRoundTrip
  BY <1>1, <1>2 DEF TextRoundTrip
<1> QED BY <1>1, <1>3, <1>4, <1>5 DEF CodecInv

\* An encoder leaves CodecInv when its text is carried.
LEMMA EncoderKeeps ==
  ASSUME CodecInv, NEW encoder, NEW t, NEW fits, Encoded(encoder, t, fits), Carried',
         encoder \in {"base64_encode", "octet_string_hex_string", "byte2Hex", "native2ascii"}
  PROVE  CodecInv'
<1>1. form = "none" /\ form' = encoder /\ data' = data /\ breaks' = breaks /\ outcome' = outcome
  BY DEF Encoded
<1>2. outcome.by = "none" /\ outcome'.by = "none"
  BY <1>1 DEF CodecInv, Carried, NoOutcome
<1>3. data' \in Seq(CodeUnit) /\ breaks' \in Nat
  BY <1>1 DEF CodecInv
<1>4. Base64RoundTrip'
  BY <1>2 DEF Base64RoundTrip
<1>5. TextRoundTrip'
  <2>1. form' = "native2ascii" => \A i \in DOMAIN text' : text'[i] <= 126
    <3>1. form' = "native2ascii" => text' = native2ascii(data')
      BY DEF Carried
    <3> QED BY <1>3, <3>1, AsciiOnly
  <2> QED BY <1>2, <2>1 DEF TextRoundTrip
<1> QED BY <1>1, <1>3, <1>4, <1>5 DEF CodecInv

\* A decoder leaves CodecInv when what it gives is right.
LEMMA DecoderKeeps ==
  ASSUME CodecInv, NEW by, NEW asked, NEW result, NEW pad, Decoded(by, asked, result, pad),
         form # "none", Base64RoundTrip',
         by = "hex_string_to_octet_string" =>
           /\ Len(result.raw) = result.ret \div 2
           /\ \A k \in 1 .. Len(Printed) : k <= Len(result.raw) => result.raw[k] = Printed[k]
           /\ ended => Len(result.raw) <= Len(Printed)
           /\ breaks = 0 /\ asked >= 2 * Len(Printed) => Len(result.raw) >= Len(Printed),
         by = "hex2Byte" /\ ended => IF breaks = 0 THEN result.raw = Printed ELSE result.raw = Thrown,
         by = "ascii2native" /\ (\A i \in DOMAIN data : data[i] # Backslash) => result.raw = data
  PROVE  CodecInv'
<1>1. data' = data /\ text' = text /\ form' = form /\ ended' = ended /\ breaks' = breaks
  BY DEF Decoded
<1>2. outcome' = [by |-> by, asked |-> asked, ret |-> result.ret, raw |-> result.raw, pad |-> pad]
  BY DEF Decoded
<1>3. outcome'.by = by /\ outcome'.asked = asked /\ outcome'.ret = result.ret /\ outcome'.raw = result.raw
  BY <1>2
<1>4. Printed' = Printed
  BY <1>1 DEF Printed
<1>5. form = "native2ascii" => \A i \in DOMAIN text : text[i] <= 126
  BY DEF CodecInv, TextRoundTrip
<1>6. TextRoundTrip'
  BY <1>1, <1>3, <1>4, <1>5 DEF TextRoundTrip
<1>7. Carried'
  BY <1>1 DEF CodecInv, Carried
<1> QED BY <1>1, <1>6, <1>7 DEF CodecInv

\* The text of either hexadecimal encoder, as far as it has travelled.
LEMMA HexCarried ==
  ASSUME CodecInv, IsHexText
  PROVE  \E e : /\ HexRead(e, Printed) /\ HexStays(text, e, breaks)
                /\ ended => HexTravels(text, e, breaks)
<1>1. CASE form = "octet_string_hex_string"
  <2>1. /\ data \in Seq(Octet) /\ HexStays(text, octet_string_hex_string(data), breaks)
        /\ ended => HexTravels(text, octet_string_hex_string(data), breaks)
    BY <1>1 DEF CodecInv, Carried
  <2>2. Printed = SubSeq(data, 1, OctetsPrinted(Len(data)))
    BY <1>1 DEF Printed
  <2>3. HexRead(octet_string_hex_string(data), Printed)
    BY <2>1, <2>2, HexOfCpp
  <2> QED BY <2>1, <2>3
<1>2. CASE form = "byte2Hex"
  <2>1. data \in Seq(Octet) /\ HexTravels(text, byte2Hex(data), breaks)
    BY <1>2 DEF CodecInv, Carried
  <2>2. HexRead(byte2Hex(data), Printed)
    BY <1>2, <2>1, HexOfJava DEF Printed
  <2>3. HexStays(text, byte2Hex(data), breaks)
    BY <2>1, <2>2, TravelsStays DEF HexRead
  <2> QED BY <2>1, <2>2, <2>3
<1> QED BY <1>1, <1>2 DEF IsHexText

\* A text that leaves its encoder has no line break: it is the digits when the
\* zero that ends it is in the buffer, and begins with them otherwise.
LEMMA Untouched ==
  ASSUME NEW e, NEW v, HexRead(e, v)
  PROVE  HexTravels(e, e, 0)
BY DEF HexRead, HexTravels

LEMMA Leaves ==
  ASSUME NEW encoder, NEW e \in Seq(Nat), NEW fits \in BOOLEAN, Encoded(encoder, e, fits)
  PROVE  /\ form' = encoder /\ data' = data /\ breaks' = breaks /\ ended' = fits
         /\ HexStays(text', e, 0)
         /\ ended' => text' = e
<1>1. form' = encoder /\ data' = data /\ breaks' = breaks /\ ended' = fits
  BY DEF Encoded
<1>2. PICK tail \in IF fits THEN {<< >>} ELSE Beyond : text' = e \o tail
  BY DEF Encoded
<1>3. tail \in Seq(Nat)
  <2>1. CASE fits
    BY <1>2, <2>1
  <2>2. CASE ~fits
    <3>1. tail \in Seq(Octet)
      BY <1>2, <2>2, BeyondAssumption
    <3>2. PICK l \in Nat : l = Len(tail)
      BY <3>1, LenProperties
    <3>3. tail \in [1 .. l -> Octet]
      BY <3>1, <3>2, LenProperties
    <3>4. \A x \in Octet : x \in Nat
      BY DEF Octet
    <3>5. tail \in [1 .. l -> Nat]
      BY <3>3, <3>4
    <3> QED BY <3>5
  <2> QED BY <2>1, <2>2
<1>4. /\ text' \in Seq(Nat) /\ Len(text') = Len(e) + Len(tail)
      /\ \A i \in 1 .. Len(e) : text'[i] = e[i]
      /\ Len(e) \in Nat /\ Len(tail) \in Nat
  BY <1>2, <1>3, ConcatProperties, LenProperties
<1>5. HexStays(text', e, 0)
  BY <1>4 DEF HexStays, Begins
<1>6. ended' => text' = e
  <2>1. SUFFICES ASSUME fits PROVE text' = e
    BY <1>1
  <2>2. tail = << >>
    BY <1>2, <2>1
  <2> QED BY <1>2, <2>2, ConcatEmptySeq
<1> QED BY <1>1, <1>5, <1>6

\* Each encoder leaves CodecInv.
LEMMA EncodersKeep ==
  ASSUME CodecInv, EncodeBase64 \/ EncodeHex \/ EncodeHexJava \/ EncodeAscii
  PROVE  CodecInv'
<1>1. CASE EncodeBase64
  <2>1. PICK room \in Rooms :
          /\ data \in Seq(Octet) /\ base64_encode(room, data).ret # -1
          /\ Encoded("base64_encode", base64_encode(room, data).text, Base64Ends(room, data))
    BY <1>1 DEF EncodeBase64
  <2>2. room \in Nat
    BY RoomsAssumption
  <2>3. base64_encode(room, data).text = Base64Text(data)
    BY <2>1, <2>2, EncodeGives
  <2>4. /\ Base64Text(data) \in Seq(Nat) /\ Len(Base64Text(data)) = Needed(data) /\ Needed(data) \in Nat
        /\ Kept(Values(Base64Text(data))) = Sextets(data)
    BY <2>1, Base64TextIs, KeptOfText
  <2>5. Base64Ends(room, data) \in BOOLEAN
    BY DEF Base64Ends
  <2>6. form' = "base64_encode" /\ data' = data /\ (ended' => text' = Base64Text(data))
    BY <2>1, <2>3, <2>4, <2>5, Leaves
  <2>7. Carried'
    BY <2>1, <2>4, <2>6 DEF Carried
  <2> QED BY <2>1, <2>7, EncoderKeeps
<1>2. CASE EncodeHex
  <2>1. data \in Seq(Octet) /\ Encoded("octet_string_hex_string", octet_string_hex_string(data), HexEnds(data))
    BY <1>2 DEF EncodeHex
  <2> DEFINE e == octet_string_hex_string(data)
  <2>2. e \in Seq(Nat) /\ HexTravels(e, e, 0)
    BY <2>1, HexOfCpp, Untouched DEF HexRead
  <2>3. HexEnds(data) \in BOOLEAN
    BY DEF HexEnds
  <2>4. breaks = 0
    BY <2>1 DEF Encoded, CodecInv, Carried
  <2> HIDE DEF e
  <2>5. /\ form' = "octet_string_hex_string" /\ data' = data /\ breaks' = breaks
        /\ HexStays(text', e, 0) /\ (ended' => text' = e)
    BY <2>1, <2>2, <2>3, Leaves DEF e
  <2>6. ended' => HexTravels(text', e, 0)
    BY <2>2, <2>5
  <2>7. Carried'
    BY <2>1, <2>4, <2>5, <2>6 DEF Carried, e
  <2> QED BY <2>1, <2>7, EncoderKeeps
<1>3. CASE EncodeHexJava
  <2>1. data \in Seq(Octet) /\ Encoded("byte2Hex", byte2Hex(data), TRUE)
    BY <1>3 DEF EncodeHexJava
  <2> DEFINE e == byte2Hex(data)
  <2>2. e \in Seq(Nat) /\ HexTravels(e, e, 0)
    BY <2>1, HexOfJava, Untouched DEF HexRead
  <2>3. breaks = 0
    BY <2>1 DEF Encoded, CodecInv, Carried
  <2> HIDE DEF e
  <2>4. form' = "byte2Hex" /\ data' = data /\ breaks' = breaks /\ ended' = TRUE /\ (ended' => text' = e)
    BY <2>1, <2>2, Leaves DEF e
  <2>5. HexTravels(text', e, 0)
    BY <2>2, <2>4
  <2>6. Carried'
    BY <2>1, <2>3, <2>4, <2>5 DEF Carried, e
  <2> QED BY <2>1, <2>6, EncoderKeeps
<1>4. CASE EncodeAscii
  <2>1. Encoded("native2ascii", native2ascii(data), TRUE)
    BY <1>4 DEF EncodeAscii
  <2>2. form' = "native2ascii" /\ data' = data /\ text' = native2ascii(data) \o << >>
    BY <2>1 DEF Encoded
  <2>3. native2ascii(data) \in Seq(Ascii)
    BY TextLaid DEF CodecInv, Laid
  <2>4. text' = native2ascii(data)
    BY <2>2, <2>3, ConcatEmptySeq
  <2>5. Carried'
    BY <2>2, <2>4 DEF Carried
  <2> QED BY <2>1, <2>5, EncoderKeeps
<1> QED BY <1>1, <1>2, <1>3, <1>4

\* A line break leaves CodecInv: base64_decode skips it, and it ends what the
\* hexadecimal decoders read.
LEMMA BreakLineKeeps ==
  ASSUME CodecInv, BreakLine
  PROVE  CodecInv'
<1>1. PICK at \in 1 .. Len(text) + 1 : text' = InsertAt(text, at, LineBreak)
  BY DEF BreakLine
<1>2. /\ form \in {"base64_encode", "octet_string_hex_string", "byte2Hex"} /\ form' = form /\ data' = data /\ ended' = ended
      /\ outcome = NoOutcome /\ outcome' = outcome /\ breaks' = breaks + 1 /\ breaks \in Nat
  BY DEF BreakLine, IsHexText, CodecInv
<1>3. ASSUME form = "base64_encode", ended PROVE Carried'
  <2>1. data \in Seq(Octet) /\ text \in Seq(Nat) /\ Kept(Values(text)) = Sextets(data) /\ Len(text) >= Needed(data)
    BY <1>3 DEF CodecInv, Carried
  <2>2. text' \in Seq(Nat) /\ Len(text') = Len(text) + 1
    BY <1>1, <2>1, BreakIs
  <2>3. Values(text) \in Seq(Value) /\ Len(Values(text)) = Len(text) /\ Values(text') = InsertAt(Values(text), at, 255)
    BY <1>1, <2>1, ValuesOfInsert
  <2>4. Kept(Values(text')) = Sextets(data)
    BY <2>1, <2>3, KeptOfInsert
  <2>5. Len(text') >= Needed(data)
    <3>1. Len(text) \in Nat /\ Needed(data) \in Nat
      BY <2>1, LenProperties, Base64TextIs
    <3> QED BY <2>1, <2>2, <3>1
  <2>6. breaks' # 0
    BY <1>2
  <2>7. Carried'
    BY <1>2, <1>3, <2>1, <2>2, <2>4, <2>5, <2>6 DEF Carried
  <2> QED BY <2>7
<1>4. ASSUME form = "octet_string_hex_string" PROVE Carried'
  <2> DEFINE e == octet_string_hex_string(data)
  <2>1. data \in Seq(Octet) /\ HexStays(text, e, breaks) /\ (ended => HexTravels(text, e, breaks))
    BY <1>4 DEF CodecInv, Carried
  <2>2. e \in Seq(Nat)
    BY <2>1, HexOfCpp DEF HexRead
  <2> HIDE DEF e
  <2>3. text \in Seq(Nat)
    BY <2>1 DEF HexStays
  <2>4. HexStays(text', e, breaks + 1)
    BY <1>1, <1>2, <2>1, <2>2, <2>3, BreakStays
  <2>5. ended => HexTravels(text', e, breaks + 1)
    BY <1>1, <1>2, <2>1, <2>2, <2>3, BreakKeeps
  <2>6. Carried'
    BY <1>2, <1>4, <2>1, <2>4, <2>5 DEF e, Carried
  <2> QED BY <2>6
<1>5. ASSUME form = "byte2Hex" PROVE Carried'
  <2>1. data \in Seq(Octet) /\ HexTravels(text, byte2Hex(data), breaks)
    BY <1>5 DEF CodecInv, Carried
  <2> DEFINE e == byte2Hex(data)
  <2>2. e \in Seq(Nat)
    BY <2>1, HexOfJava DEF HexRead
  <2> HIDE DEF e
  <2>3. HexTravels(text, e, breaks)
    BY <2>1 DEF e
  <2>4. text \in Seq(Nat)
    BY <2>3 DEF HexTravels
  <2>5. HexTravels(text', e, breaks + 1)
    BY <1>1, <1>2, <2>2, <2>3, <2>4, BreakKeeps
  <2>6. Carried'
    BY <1>2, <1>5, <2>1, <2>5 DEF e, Carried
  <2> QED BY <2>6
<1>6. ASSUME form = "base64_encode", ~ended PROVE Carried'
  BY <1>2, <1>6 DEF Carried
<1>7. outcome'.by = "none"
  BY <1>2 DEF NoOutcome
<1>8. Base64RoundTrip' /\ TextRoundTrip'
  BY <1>2, <1>7 DEF Base64RoundTrip, TextRoundTrip
<1>9. data' \in Seq(CodeUnit) /\ breaks' \in Nat
  BY <1>2 DEF CodecInv
<1>10. Carried'
  BY <1>2, <1>3, <1>4, <1>5, <1>6
<1> QED BY <1>2, <1>8, <1>9, <1>10 DEF CodecInv

\* base64_decode leaves CodecInv: its text holds the digits of the encoder.
LEMMA DecodeBase64Keeps ==
  ASSUME CodecInv, DecodeBase64
  PROVE  CodecInv'
<1>1. PICK room \in Rooms : /\ form = "base64_encode" /\ room >= Len(text)
                            /\ Decoded("base64_decode", room, base64_decode(room, text), 0)
  BY DEF DecodeBase64
<1> DEFINE result == base64_decode(room, text)
<1>2. room \in Nat
  BY RoomsAssumption
<1>3. ended => /\ data \in Seq(Octet) /\ text \in Seq(Nat)
               /\ Kept(Values(text)) = Sextets(data) /\ Len(text) >= Needed(data)
  BY <1>1 DEF CodecInv, Carried
<1>4. ended => /\ result.raw = data
               /\ result.ret = IF data = << >> /\ Len(text) = 3 /\ room = 3 THEN -1 ELSE Len(data)
  BY <1>1, <1>2, <1>3, DecodeGives
<1> HIDE DEF result
<1>5. data' = data /\ text' = text /\ form' = form /\ ended' = ended
      /\ outcome' = [by |-> "base64_decode", asked |-> room, ret |-> result.ret, raw |-> result.raw, pad |-> 0]
  BY <1>1 DEF Decoded, result
<1>6. outcome'.by = "base64_decode" /\ outcome'.asked = room /\ outcome'.ret = result.ret /\ outcome'.raw = result.raw
  BY <1>5
<1>7. Base64RoundTrip'
  BY <1>4, <1>5, <1>6 DEF Base64RoundTrip
<1>8. Decoded("base64_decode", room, result, 0) /\ form # "none"
  BY <1>1 DEF result
<1> QED BY <1>7, <1>8, DecoderKeeps

\* The decoder of util.c leaves CodecInv.
LEMMA DecodeBlocksKeeps ==
  ASSUME CodecInv, DecodeBlocks
  PROVE  CodecInv'
<1> DEFINE result == base64_string_to_octet_string(text)
<1>1. form = "base64_encode" /\ Decoded("base64_string_to_octet_string", Len(text), result, result.pad)
  BY DEF DecodeBlocks
<1>2. ended => data \in Seq(Octet) /\ (breaks = 0 => text = Base64Text(data))
  BY <1>1 DEF CodecInv, Carried
<1>3. ended /\ breaks = 0 =>
                    /\ result.raw = data /\ result.ret = Len(text)
                    /\ Len(data) = (3 * result.ret) \div 4 - result.pad
  <2>1. SUFFICES ASSUME ended, breaks = 0
                 PROVE  /\ result.raw = data /\ result.ret = Len(text)
                        /\ Len(data) = (3 * result.ret) \div 4 - result.pad
    OBVIOUS
  <2>2. data \in Seq(Octet) /\ text = Base64Text(data)
    BY <1>2, <2>1
  <2> QED BY <2>2, BlocksGive
<1> HIDE DEF result
<1>4. data' = data /\ text' = text /\ ended' = ended /\ breaks' = breaks
      /\ outcome' = [by |-> "base64_string_to_octet_string", asked |-> Len(text), ret |-> result.ret,
                     raw |-> result.raw, pad |-> result.pad]
  BY <1>1 DEF Decoded
<1>5. outcome'.by = "base64_string_to_octet_string" /\ outcome'.ret = result.ret
      /\ outcome'.raw = result.raw /\ outcome'.pad = result.pad
  BY <1>4
<1>6. Base64RoundTrip'
  BY <1>3, <1>4, <1>5 DEF Base64RoundTrip
<1>7. form # "none"
  BY <1>1
<1> QED BY <1>1, <1>6, <1>7, DecoderKeeps

\* What no decoder of Base64 does leaves Base64RoundTrip.
LEMMA OtherDecoder ==
  ASSUME NEW by, NEW asked, NEW result, NEW pad, Decoded(by, asked, result, pad),
         by \notin {"base64_decode", "base64_string_to_octet_string"}
  PROVE  Base64RoundTrip'
<1>1. outcome' = [by |-> by, asked |-> asked, ret |-> result.ret, raw |-> result.raw, pad |-> pad]
  BY DEF Decoded
<1>2. outcome'.by = by
  BY <1>1
<1> QED BY <1>2 DEF Base64RoundTrip

\* The decoders of hexadecimal and of escaped text leave CodecInv.
LEMMA TextDecodersKeep ==
  ASSUME CodecInv, DecodeHex \/ DecodeHexJava \/ DecodeAscii
  PROVE  CodecInv'
<1>1. CASE DecodeHex
  <2>1. PICK len \in 0 .. Len(text) + 1 :
             IsHexText /\ Decoded("hex_string_to_octet_string", len, hex_string_to_octet_string(text, len), 0)
    BY <1>1 DEF DecodeHex
  <2>2. PICK e : /\ HexRead(e, Printed) /\ HexStays(text, e, breaks)
                 /\ ended => HexTravels(text, e, breaks)
    BY <2>1, HexCarried
  <2>3. breaks \in Nat /\ len \in Nat /\ form # "none"
    BY <2>1 DEF CodecInv, IsHexText
  <2> DEFINE result == hex_string_to_octet_string(text, len)
  <2>4. /\ Len(result.raw) = result.ret \div 2
        /\ \A k \in 1 .. Len(Printed) : k <= Len(result.raw) => result.raw[k] = Printed[k]
        /\ HexTravels(text, e, breaks) => Len(result.raw) <= Len(Printed)
        /\ breaks = 0 /\ len >= 2 * Len(Printed) => Len(result.raw) >= Len(Printed)
    BY <2>2, <2>3, HexDecodes
  <2>5. Decoded("hex_string_to_octet_string", len, result, 0)
    BY <2>1
  <2> HIDE DEF result
  <2>6. Base64RoundTrip'
    BY <2>5, OtherDecoder
  <2>7. ended => Len(result.raw) <= Len(Printed)
    BY <2>2, <2>4
  <2> QED BY <2>3, <2>4, <2>5, <2>6, <2>7, DecoderKeeps
<1>2. CASE DecodeHexJava
  <2> DEFINE result == Java(hex2Byte(text))
  <2>1. IsHexText /\ Decoded("hex2Byte", Len(text), result, 0)
    BY <1>2 DEF DecodeHexJava
  <2>2. PICK e : /\ HexRead(e, Printed) /\ HexStays(text, e, breaks)
                 /\ ended => HexTravels(text, e, breaks)
    BY <2>1, HexCarried
  <2>3. breaks \in Nat /\ form # "none"
    BY <2>1 DEF CodecInv, IsHexText
  <2>4. ended => hex2Byte(text) = IF breaks = 0 THEN Printed ELSE Thrown
    <3>1. HexTravels(text, e, breaks) => hex2Byte(text) = IF breaks = 0 THEN Printed ELSE Thrown
      BY <2>2, <2>3, HexDecodesJava
    <3> QED BY <2>2, <3>1
  <2>5. result.raw = hex2Byte(text)
    BY DEF Java
  <2> HIDE DEF result
  <2>6. Base64RoundTrip'
    BY <2>1, OtherDecoder
  <2> QED BY <2>1, <2>3, <2>4, <2>5, <2>6, DecoderKeeps
<1>3. CASE DecodeAscii
  <2> DEFINE result == Java(ascii2native(text))
  <2>1. form = "native2ascii" /\ Decoded("ascii2native", Len(text), result, 0)
    BY <1>3 DEF DecodeAscii
  <2>2. data \in Seq(CodeUnit) /\ text = native2ascii(data) /\ form # "none"
    BY <2>1 DEF CodecInv, Carried
  <2>3. (\A i \in DOMAIN data : data[i] # Backslash) => ascii2native(text) = data
    BY <2>2, AsciiComesBack
  <2>4. result.raw = ascii2native(text)
    BY DEF Java
  <2> HIDE DEF result
  <2>5. Base64RoundTrip'
    BY <2>1, OtherDecoder
  <2> QED BY <2>1, <2>2, <2>3, <2>4, <2>5, DecoderKeeps
<1> QED BY <1>1, <1>2, <1>3

\* Whatever is encoded, wherever line breaks appear, whatever memory behind a
\* buffer holds and whichever decoder is used: what the text holds of the value,
\* and that what the decoder gives is right.
THEOREM CodecsSafe == CodecSpec => []CodecInv
<1>1. CodecInit => CodecInv
  BY CodecStarts
<1>2. CodecInv /\ [CodecNext]_codecVars => CodecInv'
  <2> SUFFICES ASSUME CodecInv, [CodecNext]_codecVars PROVE CodecInv'
    OBVIOUS
  <2>1. CASE EncodeBase64 \/ EncodeHex \/ EncodeHexJava \/ EncodeAscii
    BY <2>1, EncodersKeep
  <2>2. CASE BreakLine
    BY <2>2, BreakLineKeeps
  <2>3. CASE DecodeBase64
    BY <2>3, DecodeBase64Keeps
  <2>4. CASE DecodeBlocks
    BY <2>4, DecodeBlocksKeeps
  <2>5. CASE DecodeHex \/ DecodeHexJava \/ DecodeAscii
    BY <2>5, TextDecodersKeep
  <2>6. CASE UNCHANGED codecVars
    <3>1. data' = data /\ text' = text /\ form' = form /\ ended' = ended /\ breaks' = breaks /\ outcome' = outcome
      BY <2>6 DEF codecVars
    <3>2. Carried'
      BY <3>1 DEF CodecInv, Carried
    <3>3. Base64RoundTrip' /\ Printed' = Printed
      BY <3>1 DEF CodecInv, Base64RoundTrip, Printed
    <3>4. TextRoundTrip'
      BY <3>1, <3>3 DEF CodecInv, TextRoundTrip
    <3> QED BY <3>1, <3>2, <3>3, <3>4 DEF CodecInv
  <2> QED BY <2>1, <2>2, <2>3, <2>4, <2>5, <2>6 DEF CodecNext
<1> QED BY <1>1, <1>2, PTL DEF CodecSpec

\* base64_decode gives back exactly what base64_encode was given, wherever the
\* text was broken, and the block decoder what is in an unbroken text, when the
\* room had place for the zero that ends the text.
THEOREM Base64ComesBack == CodecSpec => []Base64RoundTrip
<1>1. CodecInv => Base64RoundTrip
  BY DEF CodecInv
<1> QED BY <1>1, CodecsSafe, PTL

\* Hexadecimal text of either language is read by the decoders of both, past
\* its digits too when the print buffer had no place for the zero that ends it,
\* and ascii2native gives back what native2ascii escaped.
THEOREM TextComesBack == CodecSpec => []TextRoundTrip
<1>1. CodecInv => TextRoundTrip
  BY DEF CodecInv
<1> QED BY <1>1, CodecsSafe, PTL
=============================================================================
