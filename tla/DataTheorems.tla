---------------------------- MODULE DataTheorems ----------------------------
(***************************************************************************)
(* Facts about numbers, sequences, sequences of bytes and the rot13        *)
(* conversion that the proofs of the components rest on, and the round     *)
(* trip of the hexadecimal codec of EncodeUtils for arrays of any length.  *)
(***************************************************************************)
EXTENDS Rot13, EncodeUtils, SequenceTheorems, WellFoundedInduction, TLAPS

\* A non-empty set of naturals has a least element, and Min is that element:
\* the descriptor accept() returns and the next one of the handler loop.
LEMMA MinOfNats ==
  ASSUME NEW S, S \subseteq Nat, S # {}
  PROVE  Min(S) \in S /\ \A y \in S : Min(S) <= y
<1>1. PICK x \in S : \A y \in S : ~ (<<y, x>> \in OpToRel(<, Nat))
  BY NatLessThanWellFounded, WFMin, Zenon
<1>2. \A y \in S : ~ (y < x)
  BY <1>1, Zenon DEF OpToRel
<1>3. \A y \in S : x <= y
  BY <1>2
<1>4. QED
  BY <1>3 DEF Min

\* Min of two numbers is one of them and no larger than either.
LEMMA MinOfPair ==
  ASSUME NEW m \in Int, NEW n \in Int
  PROVE  Min({m, n}) = IF m <= n THEN m ELSE n
<1>1. Min({m, n}) \in {m, n} /\ \A y \in {m, n} : Min({m, n}) <= y
  <2>1. \E x \in {m, n} : \A y \in {m, n} : x <= y
    OBVIOUS
  <2>2. QED
    BY <2>1 DEF Min
<1>2. QED
  BY <1>1

\* A transfer count, the smaller of two positive numbers, is positive and
\* exceeds neither.
LEMMA MinOfPositives ==
  ASSUME NEW m \in Int, NEW n \in Int, m > 0, n > 0
  PROVE  /\ Min({m, n}) \in Nat \ {0}
         /\ Min({m, n}) <= m
         /\ Min({m, n}) <= n
BY MinOfPair

\* A non-empty set of positions of a sequence has a greatest element.
LEMMA MaxOfPositions ==
  ASSUME NEW n \in Nat, NEW S, S \subseteq 1 .. n, S # {}
  PROVE  Max(S) \in S /\ \A y \in S : y <= Max(S)
<1> DEFINE T == {n - x : x \in S}
<1>1. T \subseteq Nat /\ T # {}
  <2>1. \A x \in S : n - x \in Nat
    OBVIOUS
  <2>2. QED
    BY <2>1
<1>2. PICK t \in T : \A u \in T : t <= u
  BY <1>1, MinOfNats
<1>3. PICK x \in S : t = n - x
  OBVIOUS
<1>4. \A y \in S : x >= y
  <2>1. SUFFICES ASSUME NEW y \in S PROVE x >= y
    OBVIOUS
  <2>2. n - y \in T
    OBVIOUS
  <2>3. t <= n - y
    BY <1>2, <2>2
  <2>4. n - x <= n - y /\ x \in Int /\ y \in Int
    BY <1>3, <2>3
  <2>5. QED
    BY <2>4
<1>5. QED
  BY <1>4 DEF Max

\* rot13_char maps bytes to bytes, is its own inverse and fixes the newline,
\* so that applying it to an echoed line gives the line back.
THEOREM Rot13Involution ==
  \A c \in Byte : /\ rot13_char(c) \in Byte
                  /\ rot13_char(rot13_char(c)) = c
                  /\ rot13_char(c) = NewLine <=> c = NewLine
BY DEF Byte, NewLine, FirstHalf, SecondHalf, rot13_char

\* Converting a sequence of bytes keeps its length and converts each byte.
LEMMA Rot13OfSeq ==
  ASSUME NEW s \in Seq(Byte)
  PROVE  /\ Rot13Of(s) \in Seq(Byte)
         /\ Len(Rot13Of(s)) = Len(s)
         /\ \A j \in 1 .. Len(s) : Rot13Of(s)[j] = rot13_char(s[j])
BY Rot13Involution DEF Rot13Of

(***************************************************************************)
(* Pieces of sequences.                                                    *)
(***************************************************************************)
\* A piece of a sequence: its length and its elements.
LEMMA PieceIs ==
  ASSUME NEW S, NEW s \in Seq(S), NEW a \in Nat, NEW n \in Nat, a + n <= Len(s)
  PROVE  /\ SubSeq(s, a + 1, a + n) \in Seq(S)
         /\ Len(SubSeq(s, a + 1, a + n)) = n
         /\ \A i \in 1 .. n : SubSeq(s, a + 1, a + n)[i] = s[a + i]
<1>1. \A i \in a + 1 .. a + n : s[i] \in S
  BY LenProperties
<1>2. a + 1 \in Int /\ a + n \in Int
  OBVIOUS
<1> DEFINE P == SubSeq(s, a + 1, a + n)
<1>3. /\ P \in Seq(S)
      /\ Len(P) = IF a + 1 <= a + n THEN a + n - (a + 1) + 1 ELSE 0
      /\ \A i \in 1 .. a + n - (a + 1) + 1 : P[i] = s[a + 1 + i - 1]
  BY <1>1, <1>2, SubSeqProperties
<1> HIDE DEF P
<1>4. Len(P) = n
  BY <1>3
<1>5. ASSUME NEW i \in 1 .. n PROVE P[i] = s[a + i]
  <2>1. i \in 1 .. a + n - (a + 1) + 1 /\ a + 1 + i - 1 = a + i
    OBVIOUS
  <2> QED BY <1>3, <2>1
<1> QED BY <1>3, <1>4, <1>5 DEF P

\* A beginning of a sequence, and what follows it.
LEMMA BeginningIs ==
  ASSUME NEW S, NEW s \in Seq(S), NEW n \in 0 .. Len(s)
  PROVE  /\ SubSeq(s, 1, n) \in Seq(S)
         /\ Len(SubSeq(s, 1, n)) = n
         /\ \A i \in 1 .. n : SubSeq(s, 1, n)[i] = s[i]
<1>1. 0 + 1 = 1 /\ 0 + n = n /\ 0 + n <= Len(s) /\ n \in Nat /\ 0 \in Nat /\ \A i \in 1 .. n : 0 + i = i
  BY LenProperties
<1>2. /\ SubSeq(s, 0 + 1, 0 + n) \in Seq(S)
      /\ Len(SubSeq(s, 0 + 1, 0 + n)) = n
      /\ \A i \in 1 .. n : SubSeq(s, 0 + 1, 0 + n)[i] = s[0 + i]
  BY <1>1, PieceIs
<1> QED BY <1>1, <1>2

\* What follows a beginning of a sequence.
LEMMA RemainderIs ==
  ASSUME NEW S, NEW s \in Seq(S), NEW n \in 0 .. Len(s)
  PROVE  /\ SubSeq(s, n + 1, Len(s)) \in Seq(S)
         /\ Len(SubSeq(s, n + 1, Len(s))) = Len(s) - n
         /\ \A i \in 1 .. Len(s) - n : SubSeq(s, n + 1, Len(s))[i] = s[n + i]
<1>1. n \in Nat /\ Len(s) - n \in Nat /\ n + (Len(s) - n) = Len(s) /\ n + (Len(s) - n) <= Len(s)
  BY LenProperties
<1>2. /\ SubSeq(s, n + 1, n + (Len(s) - n)) \in Seq(S)
      /\ Len(SubSeq(s, n + 1, n + (Len(s) - n))) = Len(s) - n
      /\ \A i \in 1 .. Len(s) - n : SubSeq(s, n + 1, n + (Len(s) - n))[i] = s[n + i]
  BY ZenonT(40), <1>1, PieceIs
<1> QED BY <1>1, <1>2

\* Two adjacent pieces at the beginning of a sequence make one.
LEMMA BeginningGrows ==
  ASSUME NEW S, NEW s \in Seq(S), NEW a \in Nat, NEW n \in Nat, a + n <= Len(s)
  PROVE  SubSeq(s, 1, a + n) = SubSeq(s, 1, a) \o SubSeq(s, a + 1, a + n)
<1> DEFINE A == SubSeq(s, 1, a)
           P == SubSeq(s, a + 1, a + n)
           L == SubSeq(s, 1, a + n)
<1>1. Len(s) \in Nat /\ a \in 0 .. Len(s) /\ a + n \in 0 .. Len(s)
  BY LenProperties
<1>2. A \in Seq(S) /\ Len(A) = a /\ \A i \in 1 .. a : A[i] = s[i]
  BY <1>1, BeginningIs
<1>3. P \in Seq(S) /\ Len(P) = n /\ \A i \in 1 .. n : P[i] = s[a + i]
  BY PieceIs
<1>4. L \in Seq(S) /\ Len(L) = a + n /\ \A i \in 1 .. a + n : L[i] = s[i]
  BY <1>1, BeginningIs
<1> HIDE DEF A, P, L
<1>5. /\ A \o P \in Seq(S) /\ Len(A \o P) = a + n
      /\ \A i \in 1 .. a + n : (A \o P)[i] = IF i <= a THEN A[i] ELSE P[i - a]
  BY <1>2, <1>3, ConcatProperties
<1>6. ASSUME NEW i \in 1 .. a + n PROVE (A \o P)[i] = s[i]
  <2>1. CASE i <= a
    BY <1>2, <1>5, <2>1
  <2>2. CASE ~(i <= a)
    <3>1. i - a \in 1 .. n /\ a + (i - a) = i
      BY <1>1, <2>2
    <3> QED BY <1>3, <1>5, <2>2, <3>1
  <2> QED BY <2>1, <2>2
<1>7. L = A \o P
  BY <1>4, <1>5, <1>6, SeqEqual
<1> QED BY <1>7 DEF A, P, L

\* A sequence is a beginning of it and its remainder.
LEMMA BeginningAndRemainder ==
  ASSUME NEW S, NEW s \in Seq(S), NEW n \in 0 .. Len(s)
  PROVE  s = SubSeq(s, 1, n) \o SubSeq(s, n + 1, Len(s))
<1>1. n \in Nat /\ Len(s) - n \in Nat /\ n + (Len(s) - n) = Len(s) /\ n + (Len(s) - n) <= Len(s)
  BY LenProperties
<1>2. SubSeq(s, 1, n + (Len(s) - n)) = SubSeq(s, 1, n) \o SubSeq(s, n + 1, n + (Len(s) - n))
  BY <1>1, BeginningGrows
<1>3. SubSeq(s, 1, Len(s)) = s
  BY SubSeqFull
<1> QED BY <1>1, <1>2, <1>3

\* The first part of a concatenation is its beginning.
LEMMA FirstPart ==
  ASSUME NEW S, NEW s \in Seq(S), NEW t \in Seq(S)
  PROVE  SubSeq(s \o t, 1, Len(s)) = s
<1>1. /\ s \o t \in Seq(S) /\ Len(s \o t) = Len(s) + Len(t)
      /\ \A i \in 1 .. Len(s) + Len(t) : (s \o t)[i] = IF i <= Len(s) THEN s[i] ELSE t[i - Len(s)]
  BY ConcatProperties
<1>2. Len(s) \in Nat /\ Len(t) \in Nat
  BY LenProperties
<1> DEFINE c == s \o t
           L == SubSeq(c, 1, Len(s))
<1> HIDE DEF c
<1>3. L \in Seq(S) /\ Len(L) = Len(s) /\ \A i \in 1 .. Len(s) : L[i] = c[i]
  BY <1>1, <1>2, BeginningIs DEF c
<1> HIDE DEF L
<1>4. \A i \in 1 .. Len(s) : L[i] = s[i]
  BY <1>1, <1>2, <1>3 DEF c
<1>5. L = s
  BY <1>3, <1>4, SeqEqual
<1> QED BY <1>5 DEF L, c

\* Concatenation of bytes is associative.
LEMMA BytesInOrder ==
  \A a, b, c \in Seq(Byte) : (a \o b) \o c = a \o (b \o c)
BY ConcatAssociative

\* rot13 of a concatenation is the concatenation of the parts' rot13.
LEMMA Rot13OfParts ==
  ASSUME NEW s \in Seq(Byte), NEW t \in Seq(Byte)
  PROVE  Rot13Of(s \o t) = Rot13Of(s) \o Rot13Of(t)
<1>1. /\ s \o t \in Seq(Byte) /\ Len(s \o t) = Len(s) + Len(t)
      /\ \A i \in 1 .. Len(s) + Len(t) : (s \o t)[i] = IF i <= Len(s) THEN s[i] ELSE t[i - Len(s)]
  BY ConcatProperties
<1>2. /\ Rot13Of(s) \in Seq(Byte) /\ Len(Rot13Of(s)) = Len(s)
      /\ \A j \in 1 .. Len(s) : Rot13Of(s)[j] = rot13_char(s[j])
  BY Rot13OfSeq
<1>3. /\ Rot13Of(t) \in Seq(Byte) /\ Len(Rot13Of(t)) = Len(t)
      /\ \A j \in 1 .. Len(t) : Rot13Of(t)[j] = rot13_char(t[j])
  BY Rot13OfSeq
<1>4. /\ Rot13Of(s \o t) \in Seq(Byte) /\ Len(Rot13Of(s \o t)) = Len(s \o t)
      /\ \A j \in 1 .. Len(s \o t) : Rot13Of(s \o t)[j] = rot13_char((s \o t)[j])
  BY <1>1, Rot13OfSeq
<1> DEFINE A == Rot13Of(s)
           B == Rot13Of(t)
           L == Rot13Of(s \o t)
<1> HIDE DEF A, B, L
<1>5. /\ A \o B \in Seq(Byte) /\ Len(A \o B) = Len(A) + Len(B)
      /\ \A i \in 1 .. Len(A) + Len(B) : (A \o B)[i] = IF i <= Len(A) THEN A[i] ELSE B[i - Len(A)]
  <2>1. A \in Seq(Byte) /\ B \in Seq(Byte)
    BY <1>2, <1>3 DEF A, B
  <2> QED BY <2>1, ConcatProperties
<1>6. Len(s) \in Nat /\ Len(t) \in Nat
  BY LenProperties
<1>7. ASSUME NEW i \in 1 .. Len(s) + Len(t) PROVE L[i] = (A \o B)[i]
  <2>1. CASE i <= Len(s)
    BY <1>1, <1>2, <1>4, <1>5, <1>6, <2>1 DEF A, B, L
  <2>2. CASE ~(i <= Len(s))
    <3>1. i - Len(s) \in 1 .. Len(t)
      BY <1>6, <2>2
    <3> QED BY <1>1, <1>2, <1>3, <1>4, <1>5, <2>2, <3>1 DEF A, B, L
  <2> QED BY <2>1, <2>2
<1>8. L = A \o B
  BY <1>1, <1>2, <1>3, <1>4, <1>5, <1>7, SeqEqual DEF A, B, L
<1> QED BY <1>8 DEF A, B, L

\* No bytes convert to no bytes.
LEMMA Rot13OfNothing == Rot13Of(<<>>) = <<>>
<1>1. <<>> \in Seq(Byte) /\ Len(<<>>) = 0
  OBVIOUS
<1>2. Rot13Of(<<>>) \in Seq(Byte) /\ Len(Rot13Of(<<>>)) = 0
  BY <1>1, Rot13OfSeq
<1> QED BY <1>2

\* What is before a position stays when the sequence grows.
LEMMA BeginningStays ==
  ASSUME NEW S, NEW s \in Seq(S), NEW b \in S, NEW n \in 0 .. Len(s)
  PROVE  SubSeq(Append(s, b), 1, n) = SubSeq(s, 1, n)
<1>1. /\ Append(s, b) \in Seq(S) /\ Len(Append(s, b)) = Len(s) + 1
      /\ \A i \in 1 .. Len(s) : Append(s, b)[i] = s[i]
  BY AppendProperties
<1>2. Len(s) \in Nat /\ n \in 0 .. Len(Append(s, b))
  BY <1>1, LenProperties
<1> DEFINE A == SubSeq(Append(s, b), 1, n)
           B == SubSeq(s, 1, n)
<1>3. A \in Seq(S) /\ Len(A) = n /\ \A i \in 1 .. n : A[i] = Append(s, b)[i]
  BY <1>1, <1>2, BeginningIs
<1>4. B \in Seq(S) /\ Len(B) = n /\ \A i \in 1 .. n : B[i] = s[i]
  BY BeginningIs
<1> HIDE DEF A, B
<1>5. \A i \in 1 .. n : A[i] = B[i]
  BY <1>1, <1>2, <1>3, <1>4
<1>6. A = B
  BY <1>3, <1>4, <1>5, SeqEqual
<1> QED BY <1>6 DEF A, B

\* The second part of a concatenation is what follows the first.
LEMMA SecondPart ==
  ASSUME NEW S, NEW s \in Seq(S), NEW t \in Seq(S)
  PROVE  SubSeq(s \o t, Len(s) + 1, Len(s \o t)) = t
<1> DEFINE c == s \o t
           m == Len(s)
<1>1. Len(s) \in Nat /\ Len(t) \in Nat
  BY LenProperties
<1>2. /\ c \in Seq(S) /\ Len(c) = m + Len(t)
      /\ \A i \in 1 .. m + Len(t) : c[i] = IF i <= m THEN s[i] ELSE t[i - m]
  BY ConcatProperties
<1> HIDE DEF c
<1>3. m \in 0 .. Len(c) /\ Len(c) - m = Len(t)
  BY <1>1, <1>2
<1> HIDE DEF m
<1>4. /\ SubSeq(c, m + 1, Len(c)) \in Seq(S)
      /\ Len(SubSeq(c, m + 1, Len(c))) = Len(t)
      /\ \A i \in 1 .. Len(t) : SubSeq(c, m + 1, Len(c))[i] = c[m + i]
  BY <1>2, <1>3, RemainderIs
<1>5. ASSUME NEW i \in 1 .. Len(t) PROVE c[m + i] = t[i]
  <2> DEFINE k == m + i
  <2>1. m \in Nat
    BY <1>1 DEF m
  <2>2. k \in 1 .. m + Len(t) /\ ~(k <= m) /\ k - m = i
    BY <1>1, <2>1
  <2> HIDE DEF k
  <2>3. c[k] = t[k - m]
    BY <1>2, <2>2
  <2> QED BY <2>2, <2>3 DEF k
<1> DEFINE R == SubSeq(c, m + 1, Len(c))
<1> HIDE DEF R
<1>6. R = t
  BY <1>4, <1>5, SeqEqual DEF R
<1> QED BY <1>6 DEF R, c, m

\* What is added at the end comes after what remains.
LEMMA RemainderGrows ==
  ASSUME NEW S, NEW s \in Seq(S), NEW t \in Seq(S), NEW n \in 0 .. Len(s)
  PROVE  SubSeq(s \o t, n + 1, Len(s \o t)) = SubSeq(s, n + 1, Len(s)) \o t
<1> DEFINE A == SubSeq(s, 1, n)
           R == SubSeq(s, n + 1, Len(s))
<1>1. A \in Seq(S) /\ Len(A) = n /\ R \in Seq(S) /\ s = A \o R
  BY BeginningIs, RemainderIs, BeginningAndRemainder
<1> HIDE DEF A, R
<1>2. R \o t \in Seq(S)
  BY <1>1, ConcatProperties
<1>3. s \o t = A \o (R \o t)
  <2>1. (A \o R) \o t = A \o (R \o t)
    BY <1>1, ConcatAssociative
  <2> QED BY <1>1, <2>1, Zenon
<1>4. SubSeq(A \o (R \o t), Len(A) + 1, Len(A \o (R \o t))) = R \o t
  BY <1>1, <1>2, SecondPart
<1> QED BY <1>1, <1>3, <1>4 DEF R

\* What remains is the next piece and what remains after it.
LEMMA RemainderSplits ==
  ASSUME NEW S, NEW s \in Seq(S), NEW a \in Nat, NEW n \in Nat, a + n <= Len(s)
  PROVE  SubSeq(s, a + 1, Len(s)) = SubSeq(s, a + 1, a + n) \o SubSeq(s, a + n + 1, Len(s))
<1> DEFINE m == a + 1
           k == a + n
           l == Len(s)
<1>1. m \in 1 .. Len(s) + 1 /\ k \in m - 1 .. Len(s) /\ l \in k .. Len(s)
  BY LenProperties
<1> HIDE DEF m, k, l
<1>2. SubSeq(s, m, k) \o SubSeq(s, k + 1, l) = SubSeq(s, m, l)
  BY <1>1, ConcatAdjacentSubSeq
<1> QED BY <1>2 DEF m, k, l

\* RemoveAt takes one element out: the others stay, in their order.
LEMMA RemoveAtKeeps ==
  ASSUME NEW S, NEW V \in Seq(S), NEW k \in DOMAIN V
  PROVE  LET R == RemoveAt(V, k) IN
           /\ R \in Seq(S) /\ Len(R) = Len(V) - 1
           /\ \A i \in DOMAIN R : R[i] = IF i < k THEN V[i] ELSE V[i + 1]
           /\ \A j \in DOMAIN V : j # k => \E i \in DOMAIN R : R[i] = V[j]
<1> DEFINE R == RemoveAt(V, k)
           A == SubSeq(V, 1, k - 1)
           B == SubSeq(V, k + 1, Len(V))
<1>1. DOMAIN V = 1 .. Len(V) /\ Len(V) \in Nat /\ k \in 1 .. Len(V) /\ \A i \in 1 .. Len(V) : V[i] \in S
  BY LenProperties
<1>2. R = A \o B
  BY DEF RemoveAt
<1>3. A \in Seq(S) /\ Len(A) = k - 1 /\ \A i \in 1 .. k - 1 : A[i] = V[i]
  <2>1. 1 \in Int /\ k - 1 \in Int /\ \A i \in 1 .. k - 1 : V[i] \in S
    BY <1>1
  <2>2. /\ A \in Seq(S)
        /\ Len(A) = IF 1 <= k - 1 THEN (k - 1) - 1 + 1 ELSE 0
        /\ \A i \in 1 .. (k - 1) - 1 + 1 : A[i] = V[1 + i - 1]
    BY <2>1, SubSeqProperties
  <2> HIDE DEF A
  <2> QED BY <1>1, <2>2
<1>4. B \in Seq(S) /\ Len(B) = Len(V) - k /\ \A i \in 1 .. Len(V) - k : B[i] = V[k + i]
  <2>1. k + 1 \in Int /\ Len(V) \in Int /\ \A i \in k + 1 .. Len(V) : V[i] \in S
    BY <1>1
  <2>2. /\ B \in Seq(S)
        /\ Len(B) = IF k + 1 <= Len(V) THEN Len(V) - (k + 1) + 1 ELSE 0
        /\ \A i \in 1 .. Len(V) - (k + 1) + 1 : B[i] = V[k + 1 + i - 1]
    BY <2>1, SubSeqProperties
  <2> HIDE DEF B
  <2>3. ASSUME NEW i \in 1 .. Len(V) - k PROVE B[i] = V[k + i]
    <3>1. i \in 1 .. Len(V) - (k + 1) + 1 /\ k + 1 + i - 1 = k + i
      BY <1>1
    <3> QED BY <2>2, <3>1
  <2> QED BY <1>1, <2>2, <2>3
<1> HIDE DEF R, A, B
<1>5. /\ R \in Seq(S) /\ Len(R) = Len(A) + Len(B)
      /\ \A i \in 1 .. Len(A) + Len(B) : R[i] = IF i <= Len(A) THEN A[i] ELSE B[i - Len(A)]
  BY <1>2, <1>3, <1>4, ConcatProperties
<1>6. Len(R) = Len(V) - 1 /\ DOMAIN R = 1 .. Len(V) - 1
  BY <1>1, <1>3, <1>4, <1>5
<1>7. \A i \in 1 .. Len(V) - 1 : R[i] = IF i < k THEN V[i] ELSE V[i + 1]
  <2> SUFFICES ASSUME NEW i \in 1 .. Len(V) - 1 PROVE R[i] = IF i < k THEN V[i] ELSE V[i + 1]
    OBVIOUS
  <2>1. CASE i < k
    BY <1>1, <1>3, <1>4, <1>5, <2>1
  <2>2. CASE ~(i < k)
    <3>1. i - Len(A) \in 1 .. Len(V) - k /\ k + (i - Len(A)) = i + 1 /\ ~(i <= Len(A)) /\ i \in 1 .. Len(A) + Len(B)
      BY SMTT(20), <1>1, <1>3, <1>4, <2>2
    <3> QED BY <1>4, <1>5, <2>2, <3>1
  <2> QED BY <2>1, <2>2
<1>8. ASSUME NEW j \in DOMAIN V, j # k PROVE \E i \in DOMAIN R : R[i] = V[j]
  <2> DEFINE i == IF j < k THEN j ELSE j - 1
  <2>1. i \in 1 .. Len(V) - 1 /\ (IF i < k THEN i ELSE i + 1) = j
    BY <1>1, <1>8
  <2>2. R[i] = V[j]
    BY <1>7, <2>1
  <2> QED BY <1>6, <2>1, <2>2
<1> QED BY <1>5, <1>6, <1>7, <1>8 DEF R

\* The value of a capital digit is the nibble it was made from.
LEMMA DigitOfNibble ==
  ASSUME NEW n \in 0 .. 15
  PROVE  DigitValue(UpperDigit(n)) = n /\ UpperDigit(n) \in Int
  BY DEF DigitValue, UpperDigit

\* A byte is the pair of its nibbles.
LEMMA NibblesOfByte ==
  ASSUME NEW x \in Byte
  PROVE  x \div 16 \in 0 .. 15 /\ x % 16 \in 0 .. 15 /\ 16 * (x \div 16) + (x % 16) = x
  BY SMT DEF Byte

\* The text of an array of bytes: two characters for each byte, the digit of
\* the high nibble and the digit of the low one.
LEMMA TextOfBytes ==
  ASSUME NEW b \in Seq(Byte)
  PROVE  /\ byte2Hex(b) \in Seq(Int)
         /\ Len(byte2Hex(b)) = 2 * Len(b)
         /\ \A k \in 1 .. Len(b) :
              /\ byte2Hex(b)[2 * k - 1] = UpperDigit(b[k] \div 16)
              /\ byte2Hex(b)[2 * k] = UpperDigit(b[k] % 16)
<1> DEFINE n == Len(b)
           char(i) == UpperDigit(IF i % 2 = 1 THEN b[(i + 1) \div 2] \div 16 ELSE b[i \div 2] % 16)
<1>1. n \in Nat /\ \A k \in 1 .. n : b[k] \in Byte
  OBVIOUS
<1>2. byte2Hex(b) = [i \in 1 .. 2 * n |-> char(i)]
  BY DEF byte2Hex
<1>3. \A k \in 1 .. n : char(2 * k - 1) = UpperDigit(b[k] \div 16) /\ char(2 * k) = UpperDigit(b[k] % 16)
  <2>1. SUFFICES ASSUME NEW k \in 1 .. n
                 PROVE  char(2 * k - 1) = UpperDigit(b[k] \div 16) /\ char(2 * k) = UpperDigit(b[k] % 16)
    OBVIOUS
  <2>2. (2 * k - 1) % 2 = 1 /\ (2 * k - 1 + 1) \div 2 = k /\ (2 * k) % 2 = 0 /\ (2 * k) \div 2 = k
    BY <1>1, SMT
  <2> QED
    BY <2>2
<1>4. \A i \in 1 .. 2 * n : char(i) \in Int
  <2>1. SUFFICES ASSUME NEW i \in 1 .. 2 * n
                 PROVE  char(i) \in Int
    OBVIOUS
  <2>2. CASE i % 2 = 1
    <3>1. (i + 1) \div 2 \in 1 .. n
      BY <1>1, <2>2, SMT
    <3>2. b[(i + 1) \div 2] \div 16 \in 0 .. 15
      BY <1>1, <3>1, NibblesOfByte
    <3> QED
      BY <2>2, <3>2, DigitOfNibble
  <2>3. CASE i % 2 # 1
    <3>1. i \div 2 \in 1 .. n
      BY <1>1, <2>3, SMT
    <3>2. b[i \div 2] % 16 \in 0 .. 15
      BY <1>1, <3>1, NibblesOfByte
    <3> QED
      BY <2>3, <3>2, DigitOfNibble
  <2> QED
    BY <2>2, <2>3
<1> HIDE DEF char
<1>5. byte2Hex(b) \in Seq(Int) /\ Len(byte2Hex(b)) = 2 * n
  BY <1>1, <1>2, <1>4
<1>6. \A k \in 1 .. n : 2 * k - 1 \in 1 .. 2 * n /\ 2 * k \in 1 .. 2 * n
  BY <1>1
<1> QED
  BY <1>2, <1>3, <1>5, <1>6

\* hex2Byte gives back what byte2Hex was given: passwords that AccountService
\* stores as text decode to the bytes that were encrypted, and never throw.
THEOREM HexGivesBytesBack ==
  ASSUME NEW b \in Seq(Byte)
  PROVE  hex2Byte(byte2Hex(b)) = b
<1> DEFINE hex == byte2Hex(b)
           n   == Len(b)
<1>1. n \in Nat /\ \A k \in 1 .. n : b[k] \in Byte
  OBVIOUS
<1>2. hex \in Seq(Int) /\ Len(hex) = 2 * n
  BY TextOfBytes
<1>3. \A k \in 1 .. n : DigitValue(hex[2 * k - 1]) = b[k] \div 16 /\ DigitValue(hex[2 * k]) = b[k] % 16
  <2>1. SUFFICES ASSUME NEW k \in 1 .. n
                 PROVE  DigitValue(hex[2 * k - 1]) = b[k] \div 16 /\ DigitValue(hex[2 * k]) = b[k] % 16
    OBVIOUS
  <2>2. hex[2 * k - 1] = UpperDigit(b[k] \div 16) /\ hex[2 * k] = UpperDigit(b[k] % 16)
    BY TextOfBytes
  <2>3. b[k] \div 16 \in 0 .. 15 /\ b[k] % 16 \in 0 .. 15
    BY <1>1, NibblesOfByte
  <2> QED
    BY <2>2, <2>3, DigitOfNibble
<1>4. IsHex(hex)
  <2>1. SUFFICES ASSUME NEW i \in 1 .. 2 * n
                 PROVE  DigitValue(hex[i]) < 16
    BY <1>2 DEF IsHex
  <2>2. PICK k \in 1 .. n : i = 2 * k - 1 \/ i = 2 * k
    <3>1. (i + 1) \div 2 \in 1 .. n /\ (i = 2 * ((i + 1) \div 2) - 1 \/ i = 2 * ((i + 1) \div 2))
      BY <1>1, SMT
    <3> QED
      BY <3>1
  <2>3. b[k] \div 16 \in 0 .. 15 /\ b[k] % 16 \in 0 .. 15
    BY <1>1, NibblesOfByte
  <2>4. \A d \in 0 .. 15 : d < 16
    OBVIOUS
  <2> QED
    BY <1>3, <2>2, <2>3, <2>4
<1>5. Len(hex) % 2 = 0 /\ Len(hex) \div 2 = n
  BY <1>1, <1>2, SMT
<1>6. hex2Byte(hex) = [k \in 1 .. n |-> 16 * DigitValue(hex[2 * k - 1]) + DigitValue(hex[2 * k])]
  BY <1>4, <1>5 DEF hex2Byte
<1>7. \A k \in 1 .. n : 16 * DigitValue(hex[2 * k - 1]) + DigitValue(hex[2 * k]) = b[k]
  BY <1>1, <1>3, NibblesOfByte
<1>8. b = [k \in 1 .. n |-> b[k]]
  OBVIOUS
<1>9. hex2Byte(hex) = [k \in 1 .. n |-> b[k]]
  BY <1>6, <1>7
<1> QED
  BY <1>8, <1>9
=============================================================================
