--------------------------- MODULE ServersProofs ---------------------------
(***************************************************************************)
(* Theorems about the line servers under exam/libevent and about Rio.      *)
(* Line servers: what a client of the fork server or of a bufferevent      *)
(* server is sent, for any number of connections and bytes and any sizes   *)
(* of the buffers.  Rio, for any inputs, any sizes of calls and of the     *)
(* buffer, and any number of calls, signals and errors: no byte is lost,   *)
(* and every call is one step of Stream.                                   *)
(***************************************************************************)
EXTENDS ForkServer, BuffereventServer, Rio, DataTheorems

(***************************************************************************)
(* Lines.                                                                  *)
(***************************************************************************)
\* What follows the last newline of s.
RestOf(s) == SubSeq(s, Len(WholeLines(s)) + 1, Len(s))

\* n bytes of s are lines and no newline follows them.
LinesEndAt(s, n) ==
  /\ n \in 0 .. Len(s)
  /\ n = 0 \/ s[n] = NewLine
  /\ \A k \in n + 1 .. Len(s) : s[k] # NewLine

\* There is one such place, and the complete lines are what is before it.
LEMMA LinesUpTo ==
  ASSUME NEW S, NEW s \in Seq(S), NEW n, LinesEndAt(s, n)
  PROVE  WholeLines(s) = SubSeq(s, 1, n) /\ Len(WholeLines(s)) = n
<1> DEFINE ends == {j \in DOMAIN s : s[j] = NewLine}
<1>1. Len(s) \in Nat /\ DOMAIN s = 1 .. Len(s) /\ n \in 0 .. Len(s)
  BY LenProperties DEF LinesEndAt
<1>2. WholeLines(s) = IF ends = {} THEN <<>> ELSE SubSeq(s, 1, Max(ends))
  BY DEF WholeLines
<1>3. \A j \in ends : j <= n
  BY <1>1 DEF LinesEndAt
<1>4. CASE n = 0
  <2>1. ends = {}
    BY <1>1, <1>3, <1>4
  <2>2. SubSeq(s, 1, n) = <<>>
    BY <1>4, SubSeqEmpty
  <2> QED BY <1>2, <1>4, <2>1, <2>2
<1>5. CASE n # 0
  <2>1. n \in ends /\ ends \subseteq 1 .. Len(s)
    BY <1>1, <1>5 DEF LinesEndAt
  <2> HIDE DEF ends
  <2>2. Max(ends) \in ends /\ \A y \in ends : y <= Max(ends)
    BY <1>1, <2>1, MaxOfPositions
  <2>3. Max(ends) = n
    <3> DEFINE m == Max(ends)
    <3> HIDE DEF m
    <3>1. m \in ends /\ m <= n /\ n <= m
      BY <1>3, <2>1, <2>2 DEF m
    <3>2. m \in 1 .. Len(s)
      BY <2>1, <3>1
    <3>3. m = n
      BY <1>1, <3>1, <3>2
    <3> QED BY <3>3 DEF m
  <2>4. Len(SubSeq(s, 1, n)) = n
    BY <1>1, BeginningIs
  <2> QED BY <1>2, <2>1, <2>3, <2>4
<1> QED BY <1>4, <1>5

LEMMA LinesAre ==
  ASSUME NEW S, NEW s \in Seq(S)
  PROVE  /\ LinesEndAt(s, Len(WholeLines(s)))
         /\ WholeLines(s) \in Seq(S)
         /\ WholeLines(s) = SubSeq(s, 1, Len(WholeLines(s)))
         /\ RestOf(s) \in Seq(S)
         /\ Len(RestOf(s)) = Len(s) - Len(WholeLines(s))
         /\ \A k \in 1 .. Len(RestOf(s)) : RestOf(s)[k] = s[Len(WholeLines(s)) + k] /\ RestOf(s)[k] # NewLine
         /\ s = WholeLines(s) \o RestOf(s)
<1> DEFINE ends == {j \in DOMAIN s : s[j] = NewLine}
<1>1. Len(s) \in Nat /\ DOMAIN s = 1 .. Len(s)
  BY LenProperties
<1>2. \E n : LinesEndAt(s, n)
  <2>1. CASE ends = {}
    <3>1. LinesEndAt(s, 0)
      BY <1>1, <2>1 DEF LinesEndAt
    <3> QED BY <3>1
  <2>2. CASE ends # {}
    <3>1. ends \subseteq 1 .. Len(s) /\ \A j \in 1 .. Len(s) : j \in ends <=> s[j] = NewLine
      BY <1>1
    <3> HIDE DEF ends
    <3>2. Max(ends) \in ends /\ \A y \in ends : y <= Max(ends)
      BY <1>1, <2>2, <3>1, MaxOfPositions
    <3> DEFINE n == Max(ends)
    <3> HIDE DEF n
    <3>3. n \in 1 .. Len(s) /\ s[n] = NewLine /\ \A k \in 1 .. Len(s) : s[k] = NewLine => k <= n
      BY <3>1, <3>2 DEF n
    <3>4. LinesEndAt(s, n)
      BY <1>1, <3>3 DEF LinesEndAt
    <3> QED BY <3>4
  <2> QED BY <2>1, <2>2
<1>3. PICK n : LinesEndAt(s, n)
  BY <1>2
<1>4. WholeLines(s) = SubSeq(s, 1, n) /\ Len(WholeLines(s)) = n
  BY <1>3, LinesUpTo
<1>5. n \in 0 .. Len(s)
  BY <1>3 DEF LinesEndAt
<1>6. SubSeq(s, 1, n) \in Seq(S) /\ RestOf(s) = SubSeq(s, n + 1, Len(s))
  BY <1>4, <1>5, BeginningIs DEF RestOf
<1>7. /\ RestOf(s) \in Seq(S) /\ Len(RestOf(s)) = Len(s) - n
      /\ \A k \in 1 .. Len(s) - n : RestOf(s)[k] = s[n + k]
  BY <1>5, <1>6, RemainderIs
<1>8. \A k \in 1 .. Len(s) - n : s[n + k] # NewLine
  BY <1>1, <1>3, <1>5 DEF LinesEndAt
<1>9. s = SubSeq(s, 1, n) \o RestOf(s)
  BY <1>5, <1>6, BeginningAndRemainder
<1> QED BY <1>3, <1>4, <1>6, <1>7, <1>8, <1>9

\* After complete lines, the lines and the rest are those of what follows.
LEMMA LinesAfterLines ==
  ASSUME NEW S, NEW u \in Seq(S), NEW v \in Seq(S), u = <<>> \/ u[Len(u)] = NewLine
  PROVE  WholeLines(u \o v) = u \o WholeLines(v) /\ RestOf(u \o v) = RestOf(v)
<1> DEFINE c == u \o v
           p == Len(WholeLines(v))
           n == Len(u) + p
<1>1. Len(u) \in Nat /\ Len(v) \in Nat /\ (Len(u) = 0 <=> u = <<>>)
  BY LenProperties, EmptySeq
<1>2. /\ c \in Seq(S) /\ Len(c) = Len(u) + Len(v)
      /\ \A i \in 1 .. Len(u) + Len(v) : c[i] = IF i <= Len(u) THEN u[i] ELSE v[i - Len(u)]
  BY ConcatProperties
<1>3. /\ LinesEndAt(v, p) /\ WholeLines(v) \in Seq(S) /\ WholeLines(v) = SubSeq(v, 1, p)
      /\ RestOf(v) \in Seq(S) /\ Len(RestOf(v)) = Len(v) - p
      /\ \A k \in 1 .. Len(RestOf(v)) : RestOf(v)[k] = v[p + k]
  BY LinesAre
<1>4. Len(WholeLines(v)) = p
  OBVIOUS
<1> HIDE DEF c, p
<1>5. /\ p \in 0 .. Len(v) /\ (p = 0 \/ v[p] = NewLine)
      /\ \A k \in p + 1 .. Len(v) : v[k] # NewLine
  BY <1>3 DEF LinesEndAt
<1>6. LinesEndAt(c, n)
  <2>1. n \in 0 .. Len(c)
    BY <1>1, <1>2, <1>5
  <2>2. n = 0 \/ c[n] = NewLine
    <3>1. CASE p = 0
      BY <1>1, <1>2, <3>1
    <3>2. CASE p # 0
      <4>1. n - Len(u) = p /\ ~(n <= Len(u)) /\ n \in 1 .. Len(u) + Len(v)
        BY <1>1, <1>5, <3>2
      <4> QED BY <1>2, <1>5, <3>2, <4>1
    <3> QED BY <3>1, <3>2
  <2>3. ASSUME NEW k \in n + 1 .. Len(c) PROVE c[k] # NewLine
    <3>1. k - Len(u) \in p + 1 .. Len(v) /\ ~(k <= Len(u)) /\ k \in 1 .. Len(u) + Len(v)
      BY <1>1, <1>2, <1>5
    <3> QED BY <1>2, <1>5, <3>1
  <2> QED BY <2>1, <2>2, <2>3 DEF LinesEndAt
<1>7. WholeLines(c) = SubSeq(c, 1, n) /\ Len(WholeLines(c)) = n
  BY <1>2, <1>6, LinesUpTo
<1>8. n \in 0 .. Len(c)
  BY <1>6 DEF LinesEndAt
<1>9. SubSeq(c, 1, n) \in Seq(S) /\ Len(SubSeq(c, 1, n)) = n /\ \A i \in 1 .. n : SubSeq(c, 1, n)[i] = c[i]
  BY <1>2, <1>8, BeginningIs
<1>10. \A i \in 1 .. p : WholeLines(v)[i] = v[i]
  BY <1>3, <1>5, BeginningIs
<1> DEFINE W == WholeLines(v)
           P == SubSeq(c, 1, n)
<1> HIDE DEF W, P
<1>11. /\ u \o W \in Seq(S) /\ Len(u \o W) = Len(u) + p
       /\ \A i \in 1 .. Len(u) + p : (u \o W)[i] = IF i <= Len(u) THEN u[i] ELSE W[i - Len(u)]
  BY <1>3, <1>4, ConcatProperties DEF W
<1>12. ASSUME NEW i \in 1 .. n PROVE P[i] = (u \o W)[i]
  <2>1. P[i] = c[i] /\ i \in 1 .. Len(u) + Len(v)
    BY <1>1, <1>2, <1>8, <1>9 DEF P
  <2>2. CASE i <= Len(u)
    BY <1>2, <1>11, <2>1, <2>2
  <2>3. CASE ~(i <= Len(u))
    <3>1. i - Len(u) \in 1 .. p
      BY <1>1, <1>5, <2>3
    <3>2. W[i - Len(u)] = v[i - Len(u)]
      BY <1>10, <3>1 DEF W
    <3> QED BY <1>2, <1>11, <2>1, <2>3, <3>2
  <2> QED BY <2>2, <2>3
<1>13. P = u \o W
  BY <1>9, <1>11, <1>12, SeqEqual DEF P
<1>14. /\ RestOf(c) \in Seq(S) /\ Len(RestOf(c)) = Len(c) - n
       /\ \A k \in 1 .. Len(RestOf(c)) : RestOf(c)[k] = c[n + k]
  <2>1. /\ RestOf(c) \in Seq(S) /\ Len(RestOf(c)) = Len(c) - Len(WholeLines(c))
        /\ \A k \in 1 .. Len(RestOf(c)) : RestOf(c)[k] = c[Len(WholeLines(c)) + k]
    BY <1>2, LinesAre
  <2> HIDE DEF n
  <2> QED BY <1>7, <2>1
<1>15. Len(RestOf(c)) = Len(RestOf(v))
  BY <1>1, <1>2, <1>3, <1>5, <1>14
<1>16. ASSUME NEW k \in 1 .. Len(RestOf(c)) PROVE RestOf(c)[k] = RestOf(v)[k]
  <2>1. k \in 1 .. Len(v) - p
    BY <1>3, <1>15
  <2>2. c[n + k] = v[p + k]
    <3> DEFINE i == n + k
    <3>1. i \in 1 .. Len(u) + Len(v) /\ ~(i <= Len(u)) /\ i - Len(u) = p + k
      BY <1>1, <1>5, <2>1
    <3> HIDE DEF i
    <3>2. c[i] = v[i - Len(u)]
      BY <1>2, <3>1
    <3> QED BY <3>1, <3>2 DEF i
  <2> QED BY <1>3, <1>14, <1>15, <2>2
<1>17. RestOf(c) = RestOf(v)
  BY <1>3, <1>14, <1>15, <1>16, SeqEqual
<1> QED BY <1>7, <1>13, <1>17 DEF P, W, c

\* Bytes that arrive in parts: the lines of both parts are the lines of the
\* first and then those of its rest and the second.
LEMMA LinesOfParts ==
  ASSUME NEW S, NEW s \in Seq(S), NEW t \in Seq(S)
  PROVE  /\ WholeLines(s \o t) = WholeLines(s) \o WholeLines(RestOf(s) \o t)
         /\ RestOf(s \o t) = RestOf(RestOf(s) \o t)
<1> DEFINE u == WholeLines(s)
           r == RestOf(s)
<1>1. /\ u \in Seq(S) /\ r \in Seq(S) /\ s = u \o r /\ LinesEndAt(s, Len(u))
      /\ u = SubSeq(s, 1, Len(u))
  BY LinesAre
<1> HIDE DEF u, r
<1>2. u = <<>> \/ u[Len(u)] = NewLine
  <2>1. Len(u) \in 0 .. Len(s) /\ Len(u) \in Nat /\ (Len(u) = 0 \/ s[Len(u)] = NewLine)
    BY <1>1, LenProperties DEF LinesEndAt
  <2>2. CASE Len(u) = 0
    BY <1>1, <2>2, EmptySeq
  <2>3. CASE Len(u) # 0
    <3> DEFINE k == Len(u)
    <3> HIDE DEF k
    <3>1. k \in 0 .. Len(s) /\ k \in 1 .. k /\ s[k] = NewLine
      BY <2>1, <2>3 DEF k
    <3>2. \A i \in 1 .. k : SubSeq(s, 1, k)[i] = s[i]
      BY <3>1, BeginningIs
    <3>3. SubSeq(s, 1, k)[k] = NewLine /\ u = SubSeq(s, 1, k)
      BY <1>1, <3>1, <3>2 DEF k
    <3> QED BY <3>3 DEF k
  <2> QED BY <2>2, <2>3
<1>3. s \o t = u \o (r \o t)
  BY <1>1, ConcatAssociative
<1>4. r \o t \in Seq(S)
  BY <1>1, ConcatProperties
<1>5. WholeLines(u \o (r \o t)) = u \o WholeLines(r \o t) /\ RestOf(u \o (r \o t)) = RestOf(r \o t)
  BY <1>1, <1>2, <1>4, LinesAfterLines
<1> QED BY <1>3, <1>5 DEF u, r

LEMMA LinesOfNothing == WholeLines(<<>>) = <<>> /\ RestOf(<<>>) = <<>>
<1>1. <<>> \in Seq(Byte) /\ Len(<<>>) = 0
  OBVIOUS
<1>2. /\ LinesEndAt(<<>>, Len(WholeLines(<<>>))) /\ WholeLines(<<>>) \in Seq(Byte)
      /\ RestOf(<<>>) \in Seq(Byte) /\ Len(RestOf(<<>>)) = 0 - Len(WholeLines(<<>>))
  BY <1>1, LinesAre
<1>3. Len(WholeLines(<<>>)) = 0
  BY <1>1, <1>2 DEF LinesEndAt
<1> QED BY <1>2, <1>3, EmptySeq

(***************************************************************************)
(* The bufferevent servers: what a client is sent.                         *)
(***************************************************************************)
\* What the bytes s earn, and what of them readcb leaves in the input buffer.
Due(rot13, s) == IF rot13 THEN Rot13Of(WholeLines(s)) ELSE s
Left(rot13, s) == IF rot13 THEN RestOf(s) ELSE <<>>

\* A connection of which s was read: its reply and its buffers hold what s
\* earns, each byte once and in order, unless the client wrote MAX_LINE bytes
\* without a newline; the input buffer has room.
Faithful(rot13, ph, s, rep, in, out) ==
  /\ ph \in {"idle", "backlog"} => s = <<>> /\ rep = <<>> /\ in = <<>> /\ out = <<>>
  /\ rot13 => Len(in) < MAX_LINE
  /\ \/ rot13 /\ Overlong(s)
     \/ ph = "served" /\ rep \o out = Due(rot13, s) /\ in = Left(rot13, s)
     \/ ph # "served" /\ rep = SubSeq(Due(rot13, s), 1, Len(rep))

ReadOf(c) == SubSeq(request[c], 1, taken[c])

BevTypes ==
  /\ program \in {"rot13_libevent_2nd", "echo_server"}
  /\ phase \in [Connections -> {"idle", "backlog", "served", "closed"}]
  /\ request \in [Connections -> Seq(Byte)]
  /\ taken \in [Connections -> Nat]
  /\ \A c \in Connections : taken[c] <= Len(request[c])
  /\ got \in [Connections -> Nat]
  /\ reply \in [Connections -> Seq(Byte)]
  /\ input \in [Connections -> Seq(Byte)]
  /\ output \in [Connections -> Seq(Byte)]

BevFaithful == \A c \in Connections :
  Faithful(Rot13Server, phase[c], ReadOf(c), reply[c], input[c], output[c])

BevInv == BevTypes /\ BevFaithful

LEMMA DueIs ==
  ASSUME NEW rot13 \in BOOLEAN, NEW s \in Seq(Byte)
  PROVE  Due(rot13, s) \in Seq(Byte) /\ Left(rot13, s) \in Seq(Byte)
<1>1. WholeLines(s) \in Seq(Byte) /\ RestOf(s) \in Seq(Byte)
  BY LinesAre
<1>2. Rot13Of(WholeLines(s)) \in Seq(Byte)
  BY <1>1, Rot13OfSeq
<1>3. CASE rot13
  BY <1>1, <1>2, <1>3 DEF Due, Left
<1>4. CASE ~rot13
  BY <1>4 DEF Due, Left
<1> QED BY <1>3, <1>4

LEMMA DueOfNothing ==
  ASSUME NEW rot13 \in BOOLEAN
  PROVE  Due(rot13, <<>>) = <<>> /\ Left(rot13, <<>>) = <<>>
BY LinesOfNothing, Rot13OfNothing DEF Due, Left

\* A run of MAX_LINE bytes without a newline stays one.
LEMMA OverlongStays ==
  ASSUME NEW s \in Seq(Byte), NEW t \in Seq(Byte), Overlong(s)
  PROVE  Overlong(s \o t)
<1>1. MAX_LINE \in Nat
  BY BuffereventServerAssumption
<1>2. PICK j \in 0 .. Len(s) - MAX_LINE : \A k \in j + 1 .. j + MAX_LINE : s[k] # NewLine
  BY DEF Overlong
<1>3. /\ Len(s \o t) = Len(s) + Len(t)
      /\ \A i \in 1 .. Len(s) + Len(t) : (s \o t)[i] = IF i <= Len(s) THEN s[i] ELSE t[i - Len(s)]
  BY ConcatProperties
<1>4. Len(s) \in Nat /\ Len(t) \in Nat
  BY LenProperties
<1>5. j \in 0 .. Len(s \o t) - MAX_LINE
  BY <1>1, <1>2, <1>3, <1>4
<1>6. ASSUME NEW k \in j + 1 .. j + MAX_LINE PROVE (s \o t)[k] # NewLine
  <2>1. k \in 1 .. Len(s) + Len(t) /\ k <= Len(s)
    BY <1>1, <1>2, <1>4
  <2> QED BY <1>2, <1>3, <2>1
<1> QED BY <1>5, <1>6 DEF Overlong

\* readcb meets a rest of MAX_LINE bytes only if the client wrote that many
\* bytes without a newline.
LEMMA LongRestIsOverlong ==
  ASSUME NEW s \in Seq(Byte), Len(RestOf(s)) >= MAX_LINE
  PROVE  Overlong(s)
<1>1. MAX_LINE \in Nat
  BY BuffereventServerAssumption
<1> DEFINE j == Len(WholeLines(s))
<1>2. /\ LinesEndAt(s, j) /\ Len(RestOf(s)) = Len(s) - j
  BY LinesAre
<1> HIDE DEF j
<1>3. j \in 0 .. Len(s) /\ Len(s) \in Nat /\ \A k \in j + 1 .. Len(s) : s[k] # NewLine
  BY <1>2, LenProperties DEF LinesEndAt
<1>4. j \in 0 .. Len(s) - MAX_LINE
  BY <1>1, <1>2, <1>3
<1>5. \A k \in j + 1 .. j + MAX_LINE : s[k] # NewLine
  BY <1>1, <1>3, <1>4
<1> QED BY <1>4, <1>5 DEF Overlong

\* What the read callback makes of the input buffer.
Called(rot13, buf) == IF rot13 THEN readcb(buf) ELSE echo_read_cb(buf)

LEMMA CallbackIs ==
  ASSUME NEW rot13 \in BOOLEAN, NEW buf \in Seq(Byte)
  PROVE  /\ Called(rot13, buf).left \in Seq(Byte) /\ Called(rot13, buf).added \in Seq(Byte)
         /\ rot13 => Len(Called(rot13, buf).left) < MAX_LINE
         /\ \/ rot13 /\ Len(RestOf(buf)) >= MAX_LINE
            \/ Called(rot13, buf).left = Left(rot13, buf) /\ Called(rot13, buf).added = Due(rot13, buf)
<1>1. /\ WholeLines(buf) \in Seq(Byte) /\ RestOf(buf) \in Seq(Byte)
      /\ Rot13Of(buf) \in Seq(Byte)
  BY LinesAre, Rot13OfSeq
<1>2. Rot13Of(WholeLines(buf)) \in Seq(Byte) /\ <<NewLine>> \in Seq(Byte)
  BY <1>1, Rot13OfSeq DEF NewLine, Byte
<1>3. Rot13Of(buf) \o <<NewLine>> \in Seq(Byte)
  BY <1>1, <1>2, ConcatProperties
<1>4. MAX_LINE \in Nat \ {0} /\ Len(RestOf(buf)) \in Nat /\ Len(<<>>) = 0 /\ <<>> \in Seq(Byte)
  BY <1>1, BuffereventServerAssumption, LenProperties
<1> DEFINE r == Called(rot13, buf)
<1>5. CASE ~rot13
  <2>1. r = [left |-> <<>>, added |-> buf]
    BY <1>5 DEF Called, echo_read_cb
  <2> HIDE DEF r
  <2>2. r.left = <<>> /\ r.added = buf
    BY <2>1
  <2>3. r.left = Left(rot13, buf) /\ r.added = Due(rot13, buf) /\ r.left \in Seq(Byte) /\ r.added \in Seq(Byte)
    BY <1>4, <1>5, <2>2 DEF Left, Due
  <2> QED BY <1>5, <2>3 DEF r
<1>6. CASE rot13 /\ Len(RestOf(buf)) >= MAX_LINE
  <2>1. r = [left |-> <<>>, added |-> Rot13Of(buf) \o <<NewLine>>]
    BY <1>6 DEF Called, readcb, RestOf
  <2> HIDE DEF r
  <2>2. r.left = <<>> /\ r.added = Rot13Of(buf) \o <<NewLine>>
    BY <2>1
  <2>3. r.left \in Seq(Byte) /\ r.added \in Seq(Byte) /\ Len(r.left) < MAX_LINE
    BY <1>3, <1>4, <2>2
  <2> QED BY <1>6, <2>3 DEF r
<1>7. CASE rot13 /\ ~(Len(RestOf(buf)) >= MAX_LINE)
  <2>1. r = [left |-> RestOf(buf), added |-> Rot13Of(WholeLines(buf))]
    BY <1>7 DEF Called, readcb, RestOf
  <2> HIDE DEF r
  <2>2. r.left = RestOf(buf) /\ r.added = Rot13Of(WholeLines(buf))
    BY <2>1
  <2>3. /\ r.left = Left(rot13, buf) /\ r.added = Due(rot13, buf) /\ r.left \in Seq(Byte) /\ r.added \in Seq(Byte)
        /\ Len(r.left) < MAX_LINE
    BY <1>1, <1>2, <1>4, <1>7, <2>2 DEF Left, Due
  <2> QED BY <2>3 DEF r
<1> QED BY <1>5, <1>6, <1>7

\* A read and its callback.
LEMMA ReadIsFaithful ==
  ASSUME NEW rot13 \in BOOLEAN, NEW s \in Seq(Byte), NEW t \in Seq(Byte), NEW rep \in Seq(Byte),
         NEW in \in Seq(Byte), NEW out \in Seq(Byte), Faithful(rot13, "served", s, rep, in, out)
  PROVE  Faithful(rot13, "served", s \o t, rep, Called(rot13, in \o t).left, out \o Called(rot13, in \o t).added)
<1> DEFINE buf == in \o t
           left == Called(rot13, buf).left
           added == Called(rot13, buf).added
<1>1. buf \in Seq(Byte) /\ s \o t \in Seq(Byte)
  BY ConcatProperties
<1>2. /\ left \in Seq(Byte) /\ added \in Seq(Byte) /\ (rot13 => Len(left) < MAX_LINE)
      /\ (rot13 /\ Len(RestOf(buf)) >= MAX_LINE) \/ (left = Left(rot13, buf) /\ added = Due(rot13, buf))
  BY <1>1, CallbackIs
<1> HIDE DEF buf, left, added
<1>3. \/ rot13 /\ Overlong(s \o t)
      \/ rep \o (out \o added) = Due(rot13, s \o t) /\ left = Left(rot13, s \o t)
  <2>1. CASE rot13 /\ Overlong(s)
    BY <2>1, OverlongStays
  <2>2. CASE rot13 /\ ~Overlong(s)
    <3>1. rep \o out = Rot13Of(WholeLines(s)) /\ in = RestOf(s)
      BY <2>2 DEF Faithful, Due, Left
    <3>2. WholeLines(s \o t) = WholeLines(s) \o WholeLines(buf) /\ RestOf(s \o t) = RestOf(buf)
      BY <3>1, LinesOfParts DEF buf
    <3>3. CASE Len(RestOf(buf)) >= MAX_LINE
      BY <1>1, <2>2, <3>2, <3>3, LongRestIsOverlong
    <3>4. CASE ~(Len(RestOf(buf)) >= MAX_LINE)
      <4>1. left = RestOf(buf) /\ added = Rot13Of(WholeLines(buf))
        BY <1>2, <2>2, <3>4 DEF Left, Due
      <4>2. (rep \o out) \o added = rep \o (out \o added)
        <5>1. \A c \in Seq(Byte) : (rep \o out) \o c = rep \o (out \o c)
          BY BytesInOrder, Zenon
        <5> QED BY <1>2, <5>1
      <4>3. WholeLines(s) \in Seq(Byte) /\ WholeLines(buf) \in Seq(Byte)
        BY <1>1, LinesAre
      <4>4. Rot13Of(WholeLines(s \o t)) = Rot13Of(WholeLines(s)) \o added
        BY <3>2, <4>1, <4>3, Rot13OfParts
      <4> QED BY <2>2, <3>1, <3>2, <4>1, <4>2, <4>4 DEF Left, Due
    <3> QED BY <3>3, <3>4
  <2>3. CASE ~rot13
    <3>1. rep \o out = s /\ in = <<>> /\ left = <<>> /\ added = buf
      BY <1>2, <2>3 DEF Faithful, Due, Left
    <3>2. buf = t
      BY <3>1, ConcatEmptySeq DEF buf
    <3>3. (rep \o out) \o t = rep \o (out \o t)
      <4>1. \A b, c \in Seq(Byte) : (rep \o b) \o c = rep \o (b \o c)
        BY BytesInOrder, Zenon
      <4> QED BY <4>1, Zenon
    <3> QED BY <2>3, <3>1, <3>2, <3>3 DEF Left, Due
  <2> QED BY <2>1, <2>2, <2>3
<1>4. Faithful(rot13, "served", s \o t, rep, left, out \o added)
  BY <1>2, <1>3 DEF Faithful
<1> QED BY <1>4 DEF left, added, buf

\* A write of the output buffer, as far as there is room.
LEMMA WriteIsFaithful ==
  ASSUME NEW rot13 \in BOOLEAN, NEW s \in Seq(Byte), NEW rep \in Seq(Byte), NEW in \in Seq(Byte),
         NEW out \in Seq(Byte), NEW n \in 0 .. Len(out), Faithful(rot13, "served", s, rep, in, out)
  PROVE  Faithful(rot13, "served", s, rep \o SubSeq(out, 1, n), in, SubSeq(out, n + 1, Len(out)))
<1> DEFINE A == SubSeq(out, 1, n)
           B == SubSeq(out, n + 1, Len(out))
<1>1. A \in Seq(Byte) /\ B \in Seq(Byte)
  BY BeginningIs, RemainderIs
<1>2. out = A \o B
  BY BeginningAndRemainder
<1> HIDE DEF A, B
<1>3. (rep \o A) \o B = rep \o (A \o B)
  <2>1. \A b, c \in Seq(Byte) : (rep \o b) \o c = rep \o (b \o c)
    BY BytesInOrder, Zenon
  <2> QED BY <1>1, <2>1
<1>4. Faithful(rot13, "served", s, rep \o A, in, B)
  BY <1>2, <1>3 DEF Faithful
<1> QED BY <1>4 DEF A, B

\* The end of the bufferevent, or of the program: what the client was sent is
\* a beginning of what it had earned.
LEMMA FreeIsFaithful ==
  ASSUME NEW rot13 \in BOOLEAN, NEW ph, NEW s \in Seq(Byte), NEW rep \in Seq(Byte),
         NEW in \in Seq(Byte), NEW out \in Seq(Byte), Faithful(rot13, ph, s, rep, in, out)
  PROVE  Faithful(rot13, "closed", s, rep, <<>>, <<>>)
<1>1. MAX_LINE \in Nat \ {0} /\ Len(<<>>) = 0
  BY BuffereventServerAssumption
<1>2. ASSUME rep \o out = Due(rot13, s) PROVE rep = SubSeq(Due(rot13, s), 1, Len(rep))
  BY <1>2, FirstPart
<1> QED BY <1>1, <1>2 DEF Faithful

LEMMA ReadOfIs ==
  ASSUME BevTypes, NEW c \in Connections
  PROVE  ReadOf(c) \in Seq(Byte) /\ Len(ReadOf(c)) = taken[c]
<1>1. request[c] \in Seq(Byte) /\ taken[c] \in 0 .. Len(request[c])
  <2>1. request[c] \in Seq(Byte) /\ taken[c] \in Nat /\ taken[c] <= Len(request[c])
    BY DEF BevTypes
  <2> QED BY <2>1, LenProperties
<1> QED BY <1>1, BeginningIs DEF ReadOf

LEMMA BevBegins == BevInit => BevInv
<1> SUFFICES ASSUME BevInit PROVE BevInv
  OBVIOUS
<1> USE DEF BevInit, SocketsInit, EventsInit
<1>1. <<>> \in Seq(Byte) /\ Len(<<>>) = 0
  OBVIOUS
<1>2. BevTypes
  BY <1>1 DEF BevTypes, Rot13Server, EchoServer
<1>3. ASSUME NEW c \in Connections
      PROVE  Faithful(Rot13Server, phase[c], ReadOf(c), reply[c], input[c], output[c])
  <2>1. ReadOf(c) = <<>>
    BY SubSeqEmpty DEF ReadOf
  <2>2. Rot13Server \in BOOLEAN /\ MAX_LINE \in Nat \ {0}
    BY BuffereventServerAssumption DEF Rot13Server
  <2>3. Due(Rot13Server, <<>>) = <<>> /\ SubSeq(<<>>, 1, 0) = <<>>
    BY <2>2, DueOfNothing, SubSeqEmpty
  <2>4. phase[c] = "idle" /\ reply[c] = <<>> /\ input[c] = <<>> /\ output[c] = <<>>
    OBVIOUS
  <2> QED BY <1>1, <2>1, <2>2, <2>3, <2>4 DEF Faithful
<1> QED BY <1>2, <1>3 DEF BevInv, BevFaithful

\* What the clients do leaves the server's side of a connection as it is.
LEMMA BevClients ==
  ASSUME BevInv, Clients /\ UNCHANGED events
  PROVE  BevInv'
<1> USE DEF BevInv, events
<1>1. PICK d \in Connections : ClientConnects(d) \/ ClientWrites(d) \/ ClientShutsDown(d) \/ ClientAborts(d) \/ ClientReads(d)
  BY DEF Clients
<1>2. CASE ClientConnects(d)
  <2>1. BevTypes'
    BY <1>2 DEF BevTypes, ClientConnects
  <2>2. ASSUME NEW c \in Connections
        PROVE  Faithful(Rot13Server, phase[c], ReadOf(c), reply[c], input[c], output[c])'
    <3>1. Faithful(Rot13Server, phase[c], ReadOf(c), reply[c], input[c], output[c])
      BY DEF BevFaithful
    <3>2. /\ Rot13Server' = Rot13Server /\ ReadOf(c)' = ReadOf(c) /\ reply'[c] = reply[c]
          /\ input'[c] = input[c] /\ output'[c] = output[c]
      BY <1>2 DEF ClientConnects, Rot13Server, ReadOf
    <3>3. phase'[c] = phase[c] \/ (phase[c] = "idle" /\ phase'[c] = "backlog")
      BY <1>2 DEF ClientConnects, BevTypes
    <3> QED BY <3>1, <3>2, <3>3 DEF Faithful
  <2> QED BY <2>1, <2>2 DEF BevFaithful
<1>3. CASE ClientWrites(d)
  <2>1. PICK b \in Letters : request' = [request EXCEPT ![d] = Append(@, b)]
    BY <1>3 DEF ClientWrites
  <2>2. b \in Byte
    BY SocketsAssumption
  <2>3. ASSUME NEW c \in Connections
        PROVE  /\ request'[c] \in Seq(Byte) /\ taken[c] <= Len(request'[c])
               /\ SubSeq(request'[c], 1, taken[c]) = ReadOf(c)
    <3>1. request[c] \in Seq(Byte) /\ taken[c] \in Nat /\ taken[c] <= Len(request[c]) /\ Len(request[c]) \in Nat
      BY LenProperties DEF BevTypes
    <3>2. request'[c] = IF c = d THEN Append(request[c], b) ELSE request[c]
      BY <2>1 DEF BevTypes
    <3>3. /\ Append(request[c], b) \in Seq(Byte) /\ Len(Append(request[c], b)) = Len(request[c]) + 1
          /\ SubSeq(Append(request[c], b), 1, taken[c]) = SubSeq(request[c], 1, taken[c])
      BY <2>2, <3>1, AppendProperties, BeginningStays
    <3> QED BY <3>1, <3>2, <3>3 DEF ReadOf
  <2>4. BevTypes'
    <3>1. request' \in [Connections -> Seq(Byte)]
      BY <2>1, <2>3 DEF BevTypes
    <3>2. taken' = taken /\ program' = program /\ phase' = phase /\ got' = got /\ reply' = reply
      BY <1>3 DEF ClientWrites
    <3> QED BY <2>3, <3>1, <3>2 DEF BevTypes
  <2>5. ASSUME NEW c \in Connections
        PROVE  Faithful(Rot13Server, phase[c], ReadOf(c), reply[c], input[c], output[c])'
    <3>1. Faithful(Rot13Server, phase[c], ReadOf(c), reply[c], input[c], output[c])
      BY DEF BevFaithful
    <3>2. /\ Rot13Server' = Rot13Server /\ ReadOf(c)' = ReadOf(c) /\ reply'[c] = reply[c]
          /\ input'[c] = input[c] /\ output'[c] = output[c] /\ phase'[c] = phase[c]
      BY <1>3, <2>3 DEF ClientWrites, Rot13Server, ReadOf
    <3> QED BY <3>1, <3>2
  <2> QED BY <2>4, <2>5 DEF BevFaithful
<1>4. CASE ClientShutsDown(d) \/ ClientAborts(d) \/ ClientReads(d)
  <2>1. /\ program' = program /\ phase' = phase /\ request' = request /\ taken' = taken /\ reply' = reply
        /\ input' = input /\ output' = output
    BY <1>4 DEF ClientShutsDown, ClientAborts, ClientReads
  <2>2. got' \in [Connections -> Nat]
    <3>1. Len(reply[d]) \in Nat
      BY LenProperties DEF BevTypes
    <3> QED BY <1>4, <3>1 DEF ClientShutsDown, ClientAborts, ClientReads, BevTypes
  <2>3. BevTypes'
    BY <2>1, <2>2 DEF BevTypes
  <2>4. BevFaithful'
    BY <2>1 DEF BevFaithful, Rot13Server, ReadOf
  <2> QED BY <2>3, <2>4
<1> QED BY <1>1, <1>2, <1>3, <1>4

LEMMA BevAccepts ==
  ASSUME BevInv, NEW d \in Connections, BevAccept(d)
  PROVE  BevInv'
<1> USE DEF BevInv, events
<1>1. /\ program' = program /\ request' = request /\ taken' = taken /\ reply' = reply /\ got' = got
      /\ input' = input /\ output' = output /\ phase[d] = "backlog"
  BY DEF BevAccept
<1>2. PICK ph \in {"closed", "served"} : phase' = [phase EXCEPT ![d] = ph]
  BY DEF BevAccept
<1>3. BevTypes'
  BY <1>1, <1>2 DEF BevTypes
<1>4. ASSUME NEW c \in Connections
      PROVE  Faithful(Rot13Server, phase[c], ReadOf(c), reply[c], input[c], output[c])'
  <2>1. Faithful(Rot13Server, phase[c], ReadOf(c), reply[c], input[c], output[c])
    BY DEF BevFaithful
  <2>2. /\ Rot13Server' = Rot13Server /\ ReadOf(c)' = ReadOf(c) /\ reply'[c] = reply[c]
        /\ input'[c] = input[c] /\ output'[c] = output[c]
    BY <1>1 DEF Rot13Server, ReadOf
  <2>3. CASE c # d
    <3>1. phase'[c] = phase[c]
      BY <1>2, <2>3 DEF BevTypes
    <3> QED BY <2>1, <2>2, <3>1
  <2>4. CASE c = d
    <3>1. /\ ReadOf(c) = <<>> /\ reply[c] = <<>> /\ input[c] = <<>> /\ output[c] = <<>>
          /\ phase'[c] \in {"closed", "served"}
      BY <1>1, <1>2, <2>1, <2>4 DEF Faithful, BevTypes
    <3>2. Rot13Server \in BOOLEAN /\ Len(<<>>) = 0
      BY DEF Rot13Server
    <3>3. /\ Due(Rot13Server, <<>>) = <<>> /\ Left(Rot13Server, <<>>) = <<>>
          /\ SubSeq(<<>>, 1, 0) = <<>> /\ <<>> \o <<>> = <<>>
      BY <3>2, DueOfNothing, SubSeqEmpty
    <3>4. Rot13Server => Len(input[c]) < MAX_LINE
      BY <2>1 DEF Faithful
    <3> QED BY <2>2, <3>1, <3>2, <3>3, <3>4 DEF Faithful
  <2> QED BY <2>3, <2>4
<1> QED BY <1>3, <1>4 DEF BevFaithful

\* Freed bufferevents, those of the connections in D: errorcb frees one, the
\* end of echo_server all.
LEMMA BevFreed ==
  ASSUME BevInv, NEW D \in SUBSET Connections,
         UNCHANGED <<program, request, taken, reply, got>>,
         phase' = [c \in Connections |-> IF c \in D THEN "closed" ELSE phase[c]],
         \A c \in Connections \ D : input'[c] = input[c] /\ output'[c] = output[c],
         \A c \in D : input'[c] = <<>> /\ output'[c] = <<>>,
         input' \in [Connections -> Seq(Byte)], output' \in [Connections -> Seq(Byte)]
  PROVE  BevInv'
<1> USE DEF BevInv
<1>1. BevTypes'
  BY DEF BevTypes
<1>2. ASSUME NEW c \in Connections
      PROVE  Faithful(Rot13Server, phase[c], ReadOf(c), reply[c], input[c], output[c])'
  <2>1. Faithful(Rot13Server, phase[c], ReadOf(c), reply[c], input[c], output[c])
    BY DEF BevFaithful
  <2>2. Rot13Server' = Rot13Server /\ ReadOf(c)' = ReadOf(c) /\ reply'[c] = reply[c]
    BY DEF Rot13Server, ReadOf
  <2>3. CASE c \notin D
    BY <2>1, <2>2, <2>3
  <2>4. CASE c \in D
    <3>1. /\ Rot13Server \in BOOLEAN /\ ReadOf(c) \in Seq(Byte) /\ reply[c] \in Seq(Byte)
          /\ input[c] \in Seq(Byte) /\ output[c] \in Seq(Byte)
      BY ReadOfIs DEF BevTypes, Rot13Server
    <3>2. Faithful(Rot13Server, "closed", ReadOf(c), reply[c], <<>>, <<>>)
      BY <2>1, <3>1, FreeIsFaithful
    <3> QED BY <2>2, <2>4, <3>2
  <2> QED BY <2>3, <2>4
<1> QED BY <1>1, <1>2 DEF BevFaithful

LEMMA BevEnds ==
  ASSUME BevInv, EchoAcceptFails \/ \E d \in Connections : BevFree(d)
  PROVE  BevInv'
<1>1. <<>> \in Seq(Byte)
  OBVIOUS
<1>2. CASE EchoAcceptFails
  <2> DEFINE D == {c \in Connections : phase[c] # "idle"}
  <2>1. /\ UNCHANGED <<program, request, taken, reply, got>>
        /\ phase' = [c \in Connections |-> IF c \in D THEN "closed" ELSE phase[c]]
        /\ input' = [c \in Connections |-> <<>>] /\ output' = [c \in Connections |-> <<>>]
    BY <1>2 DEF EchoAcceptFails
  <2>2. ASSUME NEW c \in Connections \ D PROVE input'[c] = input[c] /\ output'[c] = output[c]
    <3>1. Faithful(Rot13Server, phase[c], ReadOf(c), reply[c], input[c], output[c])
      BY DEF BevInv, BevFaithful
    <3>2. input[c] = <<>> /\ output[c] = <<>>
      BY <3>1 DEF Faithful
    <3> QED BY <2>1, <3>2
  <2>3. /\ \A c \in D : input'[c] = <<>> /\ output'[c] = <<>>
        /\ input' \in [Connections -> Seq(Byte)] /\ output' \in [Connections -> Seq(Byte)]
        /\ D \in SUBSET Connections
    BY <1>1, <2>1
  <2> HIDE DEF D
  <2> QED BY <2>1, <2>2, <2>3, BevFreed
<1>3. ASSUME NEW d \in Connections, BevFree(d) PROVE BevInv'
  <2> DEFINE D == {d}
  <2>1. /\ UNCHANGED <<program, request, taken, reply, got>>
        /\ phase' = [phase EXCEPT ![d] = "closed"]
        /\ input' = [input EXCEPT ![d] = <<>>] /\ output' = [output EXCEPT ![d] = <<>>]
    BY <1>3 DEF BevFree
  <2>2. /\ phase' = [c \in Connections |-> IF c \in D THEN "closed" ELSE phase[c]]
        /\ \A c \in Connections \ D : input'[c] = input[c] /\ output'[c] = output[c]
        /\ \A c \in D : input'[c] = <<>> /\ output'[c] = <<>>
        /\ input' \in [Connections -> Seq(Byte)] /\ output' \in [Connections -> Seq(Byte)]
        /\ D \in SUBSET Connections
    BY <1>1, <2>1 DEF BevInv, BevTypes
  <2> HIDE DEF D
  <2> QED BY <2>1, <2>2, BevFreed
<1> QED BY <1>2, <1>3

LEMMA BevReads ==
  ASSUME BevInv, NEW d \in Connections, BevRead(d)
  PROVE  BevInv'
<1> USE DEF BevInv
<1> DEFINE n == Allowed(d)
           t == Received(d, n)
           buf == input[d] \o t
           r == Called(Rot13Server, buf)
<1>1. /\ phase[d] = "served" /\ n > 0
      /\ taken' = [taken EXCEPT ![d] = @ + n]
      /\ UNCHANGED <<program, phase, request, reply, got>>
  BY DEF BevRead, Open
<1>2. input' = [input EXCEPT ![d] = r.left] /\ output' = [output EXCEPT ![d] = @ \o r.added]
  BY DEF BevRead, Called
<1>3. /\ request[d] \in Seq(Byte) /\ taken[d] \in Nat /\ Len(request[d]) \in Nat /\ taken[d] <= Len(request[d])
      /\ input[d] \in Seq(Byte) /\ output[d] \in Seq(Byte) /\ reply[d] \in Seq(Byte) /\ Rot13Server \in BOOLEAN
      /\ Len(input[d]) \in Nat /\ MAX_LINE \in Nat
  BY LenProperties, BuffereventServerAssumption DEF BevTypes, Rot13Server
<1>4. n \in Nat /\ taken[d] + n <= Len(request[d])
  <2>1. Available(d) = Len(request[d]) - taken[d] /\ Available(d) \in Nat
    BY <1>3 DEF Available
  <2>2. n \in Nat /\ n <= Available(d)
    <3>1. CASE Rot13Server
      <4>1. n = Min({Available(d), MAX_LINE - Len(input[d])})
        BY <3>1 DEF Allowed
      <4> HIDE DEF n
      <4>2. n = IF Available(d) <= MAX_LINE - Len(input[d]) THEN Available(d) ELSE MAX_LINE - Len(input[d])
        BY <1>3, <2>1, <4>1, MinOfPair
      <4> QED BY <1>1, <1>3, <2>1, <4>2
    <3>2. CASE ~Rot13Server
      BY <2>1, <3>2 DEF Allowed
    <3> QED BY <3>1, <3>2
  <2> HIDE DEF n
  <2> QED BY <1>3, <2>1, <2>2
<1> HIDE DEF n
<1>5. t \in Seq(Byte) /\ SubSeq(request[d], 1, taken[d] + n) = ReadOf(d) \o t
  <2>1. t = SubSeq(request[d], taken[d] + 1, taken[d] + n) /\ ReadOf(d) = SubSeq(request[d], 1, taken[d])
    BY DEF Received, ReadOf
  <2> HIDE DEF t
  <2>2. PICK s \in Seq(Byte) : s = request[d]
    BY <1>3
  <2>3. PICK k \in Nat : k = taken[d]
    BY <1>3
  <2>4. k + n <= Len(s) /\ Len(s) \in Nat
    BY <1>3, <1>4, <2>2, <2>3
  <2>5. SubSeq(s, k + 1, k + n) \in Seq(Byte)
    BY <1>4, <2>4, PieceIs
  <2>6. SubSeq(s, 1, k + n) = SubSeq(s, 1, k) \o SubSeq(s, k + 1, k + n)
    BY <1>4, <2>4, BeginningGrows
  <2> QED BY <2>1, <2>2, <2>3, <2>5, <2>6
<1> HIDE DEF t
<1>6. buf \in Seq(Byte)
  BY <1>3, <1>5, ConcatProperties
<1>7. r.left \in Seq(Byte) /\ r.added \in Seq(Byte)
  <2> HIDE DEF buf
  <2> QED BY <1>3, <1>6, CallbackIs
<1>8. output[d] \o r.added \in Seq(Byte)
  <2> HIDE DEF r
  <2> QED BY <1>3, <1>7, ConcatProperties
<1>9. BevTypes'
  <2> HIDE DEF r
  <2>1. /\ taken' \in [Connections -> Nat] /\ input' \in [Connections -> Seq(Byte)]
        /\ output' \in [Connections -> Seq(Byte)]
    BY <1>1, <1>2, <1>3, <1>4, <1>7, <1>8 DEF BevTypes
  <2>2. \A c \in Connections : taken'[c] <= Len(request'[c])
    BY <1>1, <1>4 DEF BevTypes
  <2> QED BY <1>1, <2>1, <2>2 DEF BevTypes
<1>10. Faithful(Rot13Server, "served", ReadOf(d), reply[d], input[d], output[d])
  BY <1>1 DEF BevFaithful
<1>11. Faithful(Rot13Server, "served", ReadOf(d) \o t, reply[d], r.left, output[d] \o r.added)
  <2>1. ReadOf(d) \in Seq(Byte)
    BY ReadOfIs
  <2> QED BY <1>3, <1>5, <1>10, <2>1, ReadIsFaithful
<1> HIDE DEF r
<1>12. ASSUME NEW c \in Connections
       PROVE  Faithful(Rot13Server, phase[c], ReadOf(c), reply[c], input[c], output[c])'
  <2>1. Rot13Server' = Rot13Server /\ reply'[c] = reply[c] /\ phase'[c] = phase[c]
    BY <1>1 DEF Rot13Server
  <2>2. CASE c = d
    <3>1. ReadOf(c)' = ReadOf(d) \o t
      BY <1>1, <1>5, <2>2 DEF ReadOf, BevTypes
    <3>2. input'[c] = r.left /\ output'[c] = output[d] \o r.added
      BY <1>2, <2>2 DEF BevTypes
    <3> QED BY <1>1, <1>11, <2>1, <2>2, <3>1, <3>2
  <2>3. CASE c # d
    <3>1. ReadOf(c)' = ReadOf(c) /\ input'[c] = input[c] /\ output'[c] = output[c]
      BY <1>1, <1>2, <2>3 DEF ReadOf, BevTypes
    <3>2. Faithful(Rot13Server, phase[c], ReadOf(c), reply[c], input[c], output[c])
      BY DEF BevFaithful
    <3> QED BY <2>1, <3>1, <3>2
  <2> QED BY <2>2, <2>3
<1> QED BY <1>9, <1>12 DEF BevFaithful

LEMMA BevWrites ==
  ASSUME BevInv, NEW d \in Connections, BevWrite(d)
  PROVE  BevInv'
<1> USE DEF BevInv
<1> DEFINE n == Min({RoomTo(d), Len(output[d])})
           A == SubSeq(output[d], 1, n)
           B == SubSeq(output[d], n + 1, Len(output[d]))
<1>1. /\ phase[d] = "served" /\ output[d] # <<>> /\ RoomTo(d) > 0
      /\ UNCHANGED <<program, phase, request, taken, got, input>>
  BY DEF BevWrite, Open
<1>2. reply' = [reply EXCEPT ![d] = @ \o A] /\ output' = [output EXCEPT ![d] = B]
  BY DEF BevWrite, Queue, BevTypes
<1>3. /\ input[d] \in Seq(Byte) /\ output[d] \in Seq(Byte) /\ reply[d] \in Seq(Byte) /\ Rot13Server \in BOOLEAN
      /\ Len(output[d]) \in Nat /\ Len(reply[d]) \in Nat /\ got[d] \in Nat
  BY LenProperties DEF BevTypes, Rot13Server
<1>4. n \in 0 .. Len(output[d])
  <2>1. SNDBUF \in Int
    BY SocketsAssumption
  <2>2. RoomTo(d) \in Int
    BY <1>3, <2>1 DEF RoomTo
  <2>3. Len(output[d]) > 0
    BY <1>1, <1>3, EmptySeq
  <2>4. \A l \in Nat : l > 0 => Min({RoomTo(d), l}) \in 0 .. l
    BY <1>1, <2>2, MinOfPositives
  <2> QED BY <1>3, <2>3, <2>4
<1> HIDE DEF n
<1>5. A \in Seq(Byte) /\ B \in Seq(Byte)
  BY <1>3, <1>4, BeginningIs, RemainderIs
<1>6. Faithful(Rot13Server, "served", ReadOf(d), reply[d], input[d], output[d])
  BY <1>1 DEF BevFaithful
<1>7. Faithful(Rot13Server, "served", ReadOf(d), reply[d] \o A, input[d], B)
  <2>1. ReadOf(d) \in Seq(Byte)
    BY ReadOfIs
  <2> QED BY <1>3, <1>4, <1>6, <2>1, WriteIsFaithful
<1> HIDE DEF A, B
<1>8. reply[d] \o A \in Seq(Byte)
  BY <1>3, <1>5, ConcatProperties
<1>9. BevTypes'
  BY <1>1, <1>2, <1>5, <1>8 DEF BevTypes
<1>10. ASSUME NEW c \in Connections
       PROVE  Faithful(Rot13Server, phase[c], ReadOf(c), reply[c], input[c], output[c])'
  <2>1. Rot13Server' = Rot13Server /\ ReadOf(c)' = ReadOf(c) /\ input'[c] = input[c] /\ phase'[c] = phase[c]
    BY <1>1 DEF Rot13Server, ReadOf
  <2>2. CASE c = d
    <3>1. reply'[c] = reply[d] \o A /\ output'[c] = B
      BY <1>2, <2>2 DEF BevTypes
    <3> QED BY <1>1, <1>7, <2>1, <2>2, <3>1
  <2>3. CASE c # d
    <3>1. reply'[c] = reply[c] /\ output'[c] = output[c]
      BY <1>2, <2>3 DEF BevTypes
    <3>2. Faithful(Rot13Server, phase[c], ReadOf(c), reply[c], input[c], output[c])
      BY DEF BevFaithful
    <3> QED BY <2>1, <3>1, <3>2
  <2> QED BY <2>2, <2>3
<1> QED BY <1>9, <1>10 DEF BevFaithful

\* Whatever is read, written, accepted or freed in whatever order, every
\* connection of the bufferevent servers keeps what its client has earned.
THEOREM BevSafe == BevSpec => []BevInv
<1>1. ASSUME BevInv, [BevNext]_bevVars PROVE BevInv'
  <2>1. CASE Clients /\ UNCHANGED events
    BY <1>1, <2>1, BevClients
  <2>2. CASE EchoAcceptFails
    BY <1>1, <2>2, BevEnds
  <2>3. ASSUME NEW d \in Connections, BevAccept(d) \/ BevRead(d) \/ BevWrite(d) \/ BevFree(d) PROVE BevInv'
    BY <1>1, <2>3, BevAccepts, BevReads, BevWrites, BevEnds
  <2>4. CASE UNCHANGED bevVars
    BY <1>1, <2>4 DEF bevVars, sockets, BevInv, BevTypes, BevFaithful, Rot13Server, ReadOf
  <2> QED BY <1>1, <2>1, <2>2, <2>3, <2>4 DEF BevNext, BevLoop
<1> QED BY <1>1, BevBegins, PTL DEF BevSpec

\* What a client of rot13_libevent_2nd is or will be sent is the rot13 of its
\* complete lines, however they were cut on the way, unless it wrote MAX_LINE
\* bytes without a newline; a client of echo_server is sent what it wrote; one
\* whose bufferevent was freed got a beginning of that.
THEOREM RepliesMatchWhatWasRead == BevSpec => []RepliesAreWhatWasRead
<1>1. ASSUME BevInv PROVE RepliesAreWhatWasRead
  <2> SUFFICES ASSUME NEW c \in Connections, Rot13Server \/ EchoServer
               PROVE  \/ Rot13Server /\ Overlong(ReadOf(c))
                      \/ c \in Open /\ reply[c] \o output[c] = Due(Rot13Server, ReadOf(c))
                      \/ c \notin Open /\ reply[c] = SubSeq(Due(Rot13Server, ReadOf(c)), 1, Len(reply[c]))
    BY DEF RepliesAreWhatWasRead, ReadOf, Due
  <2>1. Faithful(Rot13Server, phase[c], ReadOf(c), reply[c], input[c], output[c])
    BY <1>1 DEF BevInv, BevFaithful
  <2>2. c \in Open <=> phase[c] = "served"
    BY DEF Open
  <2> QED BY <2>1, <2>2 DEF Faithful
<1> QED BY <1>1, BevSafe, PTL

\* The input buffer never fills: what a client writes can always be read.
THEOREM ReadingAlwaysGoesOn == BevSpec => []ReadingGoesOn
<1>1. ASSUME BevInv PROVE ReadingGoesOn
  <2> SUFFICES ASSUME NEW c \in Open, Available(c) > 0 PROVE Allowed(c) > 0
    BY DEF ReadingGoesOn
  <2>1. c \in Connections
    BY DEF Open
  <2>2. Faithful(Rot13Server, phase[c], ReadOf(c), reply[c], input[c], output[c])
    BY <1>1, <2>1 DEF BevInv, BevFaithful
  <2>3. /\ Len(request[c]) \in Nat /\ taken[c] \in Nat /\ Len(input[c]) \in Nat /\ MAX_LINE \in Nat
    BY <1>1, <2>1, LenProperties, BuffereventServerAssumption DEF BevInv, BevTypes
  <2>4. Available(c) \in Int
    BY <2>3 DEF Available
  <2>5. CASE Rot13Server
    <3>1. MAX_LINE - Len(input[c]) \in Int /\ MAX_LINE - Len(input[c]) > 0
      BY <2>2, <2>3, <2>5 DEF Faithful
    <3>2. Min({Available(c), MAX_LINE - Len(input[c])}) \in Nat \ {0}
      BY <2>4, <3>1, MinOfPositives
    <3> QED BY <2>5, <3>2 DEF Allowed
  <2>6. CASE ~Rot13Server
    BY <2>6 DEF Allowed
  <2> QED BY <2>5, <2>6
<1> QED BY <1>1, BevSafe, PTL

(***************************************************************************)
(* The fork server: what a child holds of what its client wrote.           *)
(***************************************************************************)
\* Fits, of any bytes: every line of q and what follows the last one fit outbuf.
FitIn(q) == \A j \in 1 .. Len(q) - OUTBUF + 1 : \E k \in j .. j + OUTBUF - 1 : q[k] = NewLine

\* send() runs in a child that serves, and has something left to queue; what
\* does not serve holds nothing.
ChildState(ph, s, rep, buf, snd, dn) ==
  /\ ph \in {"idle", "backlog"} => s = <<>> /\ rep = <<>>
  /\ ph # "served" => buf = <<>> /\ ~snd
  /\ snd => dn < Len(buf)
  /\ ~snd => dn = 0

\* The child read s.  Between two send()s outbuf holds the rest of it; during
\* one it holds the last line, whose end was just read.
Holds(s, rep, buf, snd, dn) ==
  IF snd THEN WholeLines(s) = s /\ rep \o SubSeq(buf, dn + 1, Len(buf)) = Rot13Of(s)
         ELSE rep = Rot13Of(WholeLines(s)) /\ buf = Rot13Of(RestOf(s))

ForkTypes ==
  /\ program = "rot13_fork_1st"
  /\ phase \in [Connections -> {"idle", "backlog", "served", "unserved", "exited"}]
  /\ request \in [Connections -> Seq(Byte)]
  /\ taken \in [Connections -> Nat]
  /\ \A c \in Connections : taken[c] <= Len(request[c])
  /\ shut \in [Connections -> BOOLEAN]
  /\ reset \in [Connections -> BOOLEAN]
  /\ got \in [Connections -> Nat]
  /\ reply \in [Connections -> Seq(Byte)]
  /\ outbuf \in [Connections -> Seq(Byte)]
  /\ \A c \in Connections : Len(outbuf[c]) <= OUTBUF
  /\ sending \in [Connections -> BOOLEAN]
  /\ done \in [Connections -> Nat]

\* What was read of a connection that was not aborted and whose lines fit.
Answered(ph, cut, end, q, k, rep, buf, snd, dn) ==
  ~cut /\ FitIn(q) =>
    /\ ph = "served" => Holds(SubSeq(q, 1, k), rep, buf, snd, dn)
    /\ ph = "exited" => end /\ k = Len(q) /\ rep = Rot13Of(WholeLines(q))

ChildInv(c) ==
  /\ ChildState(phase[c], ReadOf(c), reply[c], outbuf[c], sending[c], done[c])
  /\ Answered(phase[c], reset[c], shut[c], request[c], taken[c], reply[c], outbuf[c], sending[c], done[c])

ForkInv == ForkTypes /\ \A c \in Connections : ChildInv(c)

\* What fits when more is written did fit before.
LEMMA FitsBefore ==
  ASSUME NEW q \in Seq(Byte), NEW b \in Byte, FitIn(Append(q, b))
  PROVE  FitIn(q)
<1>1. OUTBUF \in Nat \ {0}
  BY ForkServerAssumption
<1>2. /\ Len(Append(q, b)) = Len(q) + 1 /\ Len(q) \in Nat
      /\ \A i \in 1 .. Len(q) : Append(q, b)[i] = q[i]
  BY AppendProperties, LenProperties
<1> SUFFICES ASSUME NEW j \in 1 .. Len(q) - OUTBUF + 1
             PROVE  \E k \in j .. j + OUTBUF - 1 : q[k] = NewLine
  BY DEF FitIn
<1>3. j \in 1 .. Len(Append(q, b)) - OUTBUF + 1
  BY <1>1, <1>2
<1>4. PICK k \in j .. j + OUTBUF - 1 : Append(q, b)[k] = NewLine
  BY <1>3 DEF FitIn
<1>5. k \in 1 .. Len(q)
  BY <1>1, <1>2
<1> QED BY <1>2, <1>4, <1>5

\* If the lines fit there is room for the byte after those read.
LEMMA FitsHasRoom ==
  ASSUME NEW q \in Seq(Byte), NEW n \in 0 .. Len(q), n < Len(q), FitIn(q)
  PROVE  Len(RestOf(SubSeq(q, 1, n))) < OUTBUF
<1> DEFINE s == SubSeq(q, 1, n)
           w == Len(WholeLines(s))
<1>1. OUTBUF \in Nat \ {0} /\ Len(q) \in Nat
  BY ForkServerAssumption, LenProperties
<1>2. s \in Seq(Byte) /\ Len(s) = n /\ \A i \in 1 .. n : s[i] = q[i]
  BY BeginningIs
<1> HIDE DEF s
<1>3. LinesEndAt(s, w) /\ Len(RestOf(s)) = n - w
  BY <1>2, LinesAre
<1> HIDE DEF w
<1>4. w \in 0 .. n /\ \A k \in w + 1 .. n : s[k] # NewLine
  BY <1>2, <1>3 DEF LinesEndAt
<1>5. ASSUME n - w >= OUTBUF PROVE FALSE
  <2>1. w + 1 \in 1 .. Len(q) - OUTBUF + 1
    BY <1>1, <1>4, <1>5
  <2>2. PICK k \in w + 1 .. w + 1 + OUTBUF - 1 : q[k] = NewLine
    BY <2>1 DEF FitIn
  <2>3. k \in w + 1 .. n /\ k \in 1 .. n
    BY <1>1, <1>4, <1>5
  <2> QED BY <1>2, <1>4, <2>2, <2>3
<1>6. Len(RestOf(s)) < OUTBUF
  BY <1>1, <1>3, <1>4, <1>5
<1> QED BY <1>6 DEF s

\* One byte more: it ends a line or joins the rest.
LEMMA LinesOfOneMore ==
  ASSUME NEW s \in Seq(Byte), NEW ch \in Byte
  PROVE  IF ch = NewLine THEN WholeLines(Append(s, ch)) = Append(s, ch)
         ELSE WholeLines(Append(s, ch)) = WholeLines(s) /\ RestOf(Append(s, ch)) = Append(RestOf(s), ch)
<1> DEFINE a == Append(s, ch)
           w == Len(WholeLines(s))
<1>1. /\ a \in Seq(Byte) /\ Len(a) = Len(s) + 1 /\ Len(s) \in Nat
      /\ \A i \in 1 .. Len(s) : a[i] = s[i]
      /\ a[Len(s) + 1] = ch
  BY AppendProperties, LenProperties
<1>2. /\ LinesEndAt(s, w) /\ WholeLines(s) = SubSeq(s, 1, w)
      /\ RestOf(s) \in Seq(Byte) /\ Len(RestOf(s)) = Len(s) - w
      /\ \A k \in 1 .. Len(RestOf(s)) : RestOf(s)[k] = s[w + k]
  BY LinesAre
<1> HIDE DEF w
<1>3. /\ w \in 0 .. Len(s) /\ (w = 0 \/ s[w] = NewLine)
      /\ \A k \in w + 1 .. Len(s) : s[k] # NewLine
  BY <1>2 DEF LinesEndAt
<1>4. SubSeq(a, 1, w) = SubSeq(s, 1, w)
  BY <1>3, BeginningStays
<1> HIDE DEF a
<1>5. CASE ch = NewLine
  <2>1. LinesEndAt(a, Len(a))
    BY <1>1, <1>5 DEF LinesEndAt
  <2>2. WholeLines(a) = SubSeq(a, 1, Len(a)) /\ SubSeq(a, 1, Len(a)) = a
    BY <1>1, <2>1, LinesUpTo, SubSeqFull
  <2> QED BY <1>5, <2>2 DEF a
<1>6. CASE ch # NewLine
  <2>1. ASSUME NEW k \in w + 1 .. Len(a) PROVE a[k] # NewLine
    <3>1. (k \in w + 1 .. Len(s) /\ k \in 1 .. Len(s)) \/ k = Len(s) + 1
      BY <1>1, <1>3
    <3> QED BY <1>1, <1>3, <1>6, <3>1
  <2>2. LinesEndAt(a, w)
    BY <1>1, <1>3, <2>1 DEF LinesEndAt
  <2>3. WholeLines(a) = SubSeq(a, 1, w) /\ Len(WholeLines(a)) = w
    BY <1>1, <2>2, LinesUpTo
  <2>4. WholeLines(a) = WholeLines(s)
    BY <1>2, <1>4, <2>3
  <2>5. /\ RestOf(a) \in Seq(Byte) /\ Len(RestOf(a)) = Len(a) - w
        /\ \A k \in 1 .. Len(RestOf(a)) : RestOf(a)[k] = a[w + k]
    <3>1. /\ RestOf(a) \in Seq(Byte) /\ Len(RestOf(a)) = Len(a) - Len(WholeLines(a))
          /\ \A k \in 1 .. Len(RestOf(a)) : RestOf(a)[k] = a[Len(WholeLines(a)) + k]
      BY <1>1, LinesAre
    <3> QED BY <2>3, <3>1
  <2> DEFINE b == Append(RestOf(s), ch)
  <2>6. /\ b \in Seq(Byte) /\ Len(b) = Len(RestOf(s)) + 1
        /\ \A i \in 1 .. Len(RestOf(s)) : b[i] = RestOf(s)[i]
        /\ b[Len(RestOf(s)) + 1] = ch
    BY <1>2, AppendProperties
  <2> HIDE DEF b
  <2>7. Len(RestOf(a)) = Len(b) /\ Len(b) = Len(s) - w + 1
    BY <1>1, <1>2, <1>3, <2>5, <2>6
  <2>8. ASSUME NEW k \in 1 .. Len(RestOf(a)) PROVE RestOf(a)[k] = b[k]
    <3>1. CASE k <= Len(s) - w
      <4>1. k \in 1 .. Len(RestOf(s)) /\ w + k \in 1 .. Len(s)
        BY <1>1, <1>2, <1>3, <3>1
      <4> QED BY <1>1, <1>2, <2>5, <2>6, <4>1
    <3>2. CASE ~(k <= Len(s) - w)
      <4>1. k = Len(RestOf(s)) + 1 /\ w + k = Len(s) + 1
        BY <1>1, <1>2, <1>3, <2>7, <3>2
      <4> QED BY <1>1, <2>5, <2>6, <4>1
    <3> QED BY <3>1, <3>2
  <2>9. RestOf(a) = b
    BY <2>5, <2>6, <2>7, <2>8, SeqEqual
  <2> QED BY <1>6, <2>4, <2>9 DEF a, b
<1> QED BY <1>5, <1>6

\* rot13, byte by byte.
LEMMA Rot13OfOneMore ==
  ASSUME NEW s \in Seq(Byte), NEW ch \in Byte
  PROVE  Rot13Of(Append(s, ch)) = Append(Rot13Of(s), rot13_char(ch))
<1>1. <<ch>> \in Seq(Byte) /\ Append(s, ch) = s \o <<ch>>
  BY AppendIsConcat
<1>2. Rot13Of(s) \in Seq(Byte) /\ rot13_char(ch) \in Byte
  BY Rot13OfSeq, Rot13Involution
<1>3. Rot13Of(<<ch>>) = <<rot13_char(ch)>>
  BY DEF Rot13Of
<1>4. Rot13Of(s \o <<ch>>) = Rot13Of(s) \o Rot13Of(<<ch>>)
  BY <1>1, Rot13OfParts
<1>5. Append(Rot13Of(s), rot13_char(ch)) = Rot13Of(s) \o <<rot13_char(ch)>>
  BY <1>2, AppendIsConcat
<1> QED BY <1>1, <1>3, <1>4, <1>5

LEMMA RecvHolds ==
  ASSUME NEW s \in Seq(Byte), NEW ch \in Byte, NEW rep \in Seq(Byte), NEW buf \in Seq(Byte),
         Holds(s, rep, buf, FALSE, 0)
  PROVE  Holds(Append(s, ch), rep, Append(buf, rot13_char(ch)), ch = NewLine, 0)
<1> DEFINE a == Append(s, ch)
           b == Append(buf, rot13_char(ch))
<1>1. rep = Rot13Of(WholeLines(s)) /\ buf = Rot13Of(RestOf(s))
  BY DEF Holds
<1>2. /\ WholeLines(s) \in Seq(Byte) /\ RestOf(s) \in Seq(Byte)
      /\ s = WholeLines(s) \o RestOf(s)
  BY LinesAre
<1>3. b = Rot13Of(Append(RestOf(s), ch))
  BY <1>1, <1>2, Rot13OfOneMore
<1>4. rot13_char(ch) \in Byte
  BY Rot13Involution
<1>5. b \in Seq(Byte) /\ SubSeq(b, 1, Len(b)) = b
  <2>1. b \in Seq(Byte)
    BY <1>4, AppendProperties
  <2> HIDE DEF b
  <2> QED BY <2>1, SubSeqFull
<1>6. CASE ch = NewLine
  <2>1. WholeLines(a) = a
    BY <1>6, LinesOfOneMore
  <2>2. rep \o b = Rot13Of(a)
    <3>1. rep \o buf = Rot13Of(s)
      BY ZenonT(40), <1>1, <1>2, Rot13OfParts
    <3>2. Rot13Of(a) = Append(Rot13Of(s), rot13_char(ch))
      BY Rot13OfOneMore
    <3>3. Append(rep \o buf, rot13_char(ch)) = (rep \o buf) \o <<rot13_char(ch)>>
      BY <1>4, ConcatProperties, AppendIsConcat
    <3>4. b = buf \o <<rot13_char(ch)>> /\ <<rot13_char(ch)>> \in Seq(Byte)
      BY <1>4, AppendIsConcat
    <3>5. (rep \o buf) \o <<rot13_char(ch)>> = rep \o (buf \o <<rot13_char(ch)>>)
      BY <3>4, BytesInOrder
    <3> QED BY <3>1, <3>2, <3>3, <3>4, <3>5
  <2> HIDE DEF a, b
  <2>3. Holds(a, rep, b, TRUE, 0)
    BY <1>5, <2>1, <2>2 DEF Holds
  <2> QED BY <1>6, <2>3 DEF a, b
<1>7. CASE ch # NewLine
  <2>1. WholeLines(a) = WholeLines(s) /\ RestOf(a) = Append(RestOf(s), ch)
    BY <1>7, LinesOfOneMore
  <2>2. rep = Rot13Of(WholeLines(a)) /\ b = Rot13Of(RestOf(a))
    BY <1>1, <1>3, <2>1
  <2> HIDE DEF a, b
  <2>3. Holds(a, rep, b, FALSE, 0)
    BY <2>2 DEF Holds
  <2> QED BY <1>7, <2>3 DEF a, b
<1> QED BY <1>6, <1>7

LEMMA SendHolds ==
  ASSUME NEW s \in Seq(Byte), NEW rep \in Seq(Byte), NEW buf \in Seq(Byte), NEW dn \in Nat, NEW n \in Nat,
         dn + n <= Len(buf), Holds(s, rep, buf, TRUE, dn)
  PROVE  LET more == rep \o SubSeq(buf, dn + 1, dn + n)
         IN  IF dn + n = Len(buf) THEN Holds(s, more, <<>>, FALSE, 0) ELSE Holds(s, more, buf, TRUE, dn + n)
<1> DEFINE A == SubSeq(buf, dn + 1, dn + n)
           B == SubSeq(buf, dn + n + 1, Len(buf))
           U == SubSeq(buf, dn + 1, Len(buf))
<1>1. WholeLines(s) = s /\ rep \o U = Rot13Of(s)
  BY DEF Holds
<1>2. Len(buf) \in Nat /\ dn + n \in 0 .. Len(buf) /\ dn \in 0 .. Len(buf)
  BY LenProperties
<1>3. A \in Seq(Byte) /\ B \in Seq(Byte) /\ U \in Seq(Byte)
  BY <1>2, PieceIs, RemainderIs
<1>4. CASE dn + n = Len(buf)
  <2>1. A = U
    BY <1>4
  <2>2. RestOf(s) \in Seq(Byte) /\ Len(RestOf(s)) = Len(s) - Len(WholeLines(s)) /\ Len(s) \in Nat
    BY LinesAre, LenProperties
  <2>3. RestOf(s) = <<>>
    BY <1>1, <2>2, EmptySeq
  <2>4. rep \o A = Rot13Of(WholeLines(s)) /\ <<>> = Rot13Of(RestOf(s))
    BY <1>1, <2>1, <2>3, Rot13OfNothing
  <2> HIDE DEF A
  <2>5. Holds(s, rep \o A, <<>>, FALSE, 0)
    BY <2>4 DEF Holds
  <2> QED BY <1>4, <2>5 DEF A
<1>5. CASE dn + n # Len(buf)
  <2>1. U = A \o B
    <3> DEFINE m == dn + 1
               k == dn + n
               l == Len(buf)
    <3>1. m \in 1 .. Len(buf) + 1 /\ k \in m - 1 .. Len(buf) /\ l \in k .. Len(buf)
      BY <1>2
    <3> HIDE DEF m, k, l
    <3>2. SubSeq(buf, m, k) \o SubSeq(buf, k + 1, l) = SubSeq(buf, m, l)
      BY <3>1, ConcatAdjacentSubSeq
    <3> QED BY <3>2 DEF m, k, l
  <2>2. (rep \o A) \o B = rep \o (A \o B)
    <3>1. \A b, c \in Seq(Byte) : (rep \o b) \o c = rep \o (b \o c)
      BY BytesInOrder, Zenon
    <3> HIDE DEF A, B
    <3> QED BY <1>3, <3>1
  <2> HIDE DEF A
  <2>3. Holds(s, rep \o A, buf, TRUE, dn + n)
    BY <1>1, <2>1, <2>2 DEF Holds
  <2> QED BY <1>5, <2>3 DEF A
<1> QED BY <1>4, <1>5

LEMMA ForkBegins == ForkInit => ForkInv
<1> SUFFICES ASSUME ForkInit PROVE ForkInv
  OBVIOUS
<1> USE DEF ForkInit, SocketsInit, BuffersInit, ForkServer
<1>1. <<>> \in Seq(Byte) /\ Len(<<>>) = 0 /\ OUTBUF \in Nat
  BY ForkServerAssumption
<1>2. ForkTypes
  BY <1>1 DEF ForkTypes
<1>3. ASSUME NEW c \in Connections PROVE ChildInv(c)
  <2>1. ReadOf(c) = <<>>
    BY SubSeqEmpty DEF ReadOf
  <2> QED BY <2>1 DEF ChildInv, ChildState, Answered
<1> QED BY <1>2, <1>3 DEF ForkInv

\* A step about one connection leaves the other children as they are.
LEMMA OneChild ==
  ASSUME ForkInv, ForkTypes', NEW d \in Connections, ChildInv(d)',
         \A c \in Connections \ {d} :
           /\ phase'[c] = phase[c] /\ request'[c] = request[c] /\ taken'[c] = taken[c] /\ shut'[c] = shut[c]
           /\ reset'[c] = reset[c] /\ reply'[c] = reply[c]
           /\ outbuf'[c] = outbuf[c] /\ sending'[c] = sending[c] /\ done'[c] = done[c]
  PROVE  ForkInv'
<1>1. ASSUME NEW c \in Connections \ {d} PROVE ChildInv(c)'
  <2>1. ChildInv(c)
    BY DEF ForkInv
  <2>2. ReadOf(c)' = ReadOf(c)
    BY DEF ReadOf
  <2> QED BY <2>1, <2>2 DEF ChildInv
<1> QED BY <1>1 DEF ForkInv

LEMMA ForkClients ==
  ASSUME ForkInv, Clients /\ UNCHANGED buffers
  PROVE  ForkInv'
<1> USE DEF buffers
<1>1. PICK d \in Connections : ClientConnects(d) \/ ClientWrites(d) \/ ClientShutsDown(d) \/ ClientAborts(d) \/ ClientReads(d)
  BY DEF Clients
<1>2. ForkTypes /\ ChildInv(d)
  BY DEF ForkInv
<1>3. CASE ClientConnects(d)
  <2>1. ForkTypes'
    BY <1>2, <1>3 DEF ForkTypes, ClientConnects
  <2>2. phase[d] = "idle" /\ phase'[d] = "backlog" /\ ReadOf(d)' = ReadOf(d)
    BY <1>2, <1>3 DEF ClientConnects, ForkTypes, ReadOf
  <2>3. ChildInv(d)'
    BY <1>2, <1>3, <2>2 DEF ChildInv, ChildState, Answered, ClientConnects
  <2> QED BY <1>2, <1>3, <2>1, <2>3, OneChild DEF ClientConnects, ForkTypes
<1>4. CASE ClientWrites(d)
  <2>1. PICK b \in Letters : request' = [request EXCEPT ![d] = Append(@, b)]
    BY <1>4 DEF ClientWrites
  <2>2. b \in Byte
    BY SocketsAssumption
  <2>3. /\ request[d] \in Seq(Byte) /\ taken[d] \in 0 .. Len(request[d]) /\ Len(request[d]) \in Nat
        /\ taken[d] <= Len(request[d])
    <3>1. request[d] \in Seq(Byte) /\ taken[d] \in Nat /\ taken[d] <= Len(request[d])
      BY <1>2 DEF ForkTypes
    <3> QED BY <3>1, LenProperties
  <2>4. /\ Append(request[d], b) \in Seq(Byte) /\ Len(Append(request[d], b)) = Len(request[d]) + 1
        /\ SubSeq(Append(request[d], b), 1, taken[d]) = SubSeq(request[d], 1, taken[d])
    BY <2>2, <2>3, AppendProperties, BeginningStays
  <2>5. request'[d] = Append(request[d], b)
    BY <1>2, <2>1 DEF ForkTypes
  <2>6. /\ program' = program /\ phase' = phase /\ taken' = taken /\ shut' = shut /\ reset' = reset /\ reply' = reply
        /\ got' = got /\ ~shut[d]
    BY <1>4 DEF ClientWrites
  <2>7. ForkTypes'
    <3>1. request' \in [Connections -> Seq(Byte)]
      BY <1>2, <2>1, <2>4 DEF ForkTypes
    <3>2. \A c \in Connections : taken'[c] <= Len(request'[c])
      <4>1. taken'[d] <= Len(request'[d])
        BY <2>3, <2>4, <2>5, <2>6
      <4> QED BY <1>2, <2>1, <2>6, <4>1 DEF ForkTypes
    <3> QED BY <1>2, <2>6, <3>1, <3>2 DEF ForkTypes
  <2>8. ReadOf(d)' = ReadOf(d)
    BY <2>4, <2>5, <2>6 DEF ReadOf
  <2>9. Answered(phase[d], reset[d], shut[d], request'[d], taken[d], reply[d], outbuf[d], sending[d], done[d])
    <3>1. SUFFICES ASSUME ~reset[d], FitIn(request'[d])
                   PROVE  /\ phase[d] = "served" => Holds(SubSeq(request'[d], 1, taken[d]), reply[d], outbuf[d], sending[d], done[d])
                          /\ phase[d] # "exited"
      BY DEF Answered
    <3>2. FitIn(request[d])
      BY <2>2, <2>3, <2>5, <3>1, FitsBefore
    <3> QED BY <1>2, <2>4, <2>5, <2>6, <3>1, <3>2 DEF ChildInv, Answered
  <2>10. ChildInv(d)'
    BY <1>2, <2>6, <2>8, <2>9 DEF ChildInv
  <2> QED BY <1>2, <2>1, <2>6, <2>7, <2>10, OneChild DEF ForkTypes
<1>5. CASE ClientShutsDown(d) \/ ClientAborts(d) \/ ClientReads(d)
  <2>1. /\ program' = program /\ phase' = phase /\ request' = request /\ taken' = taken /\ reply' = reply
    BY <1>5 DEF ClientShutsDown, ClientAborts, ClientReads
  <2>2. \A c \in Connections \ {d} : shut'[c] = shut[c] /\ reset'[c] = reset[c]
    BY <1>2, <1>5 DEF ClientShutsDown, ClientAborts, ClientReads, ForkTypes
  <2>3. (shut[d] => shut'[d]) /\ (reset[d] => reset'[d])
    BY <1>2, <1>5 DEF ClientShutsDown, ClientAborts, ClientReads, ForkTypes
  <2>4. ForkTypes'
    <3>1. Len(reply[d]) \in Nat
      BY <1>2, LenProperties DEF ForkTypes
    <3>2. got' \in [Connections -> Nat] /\ shut' \in [Connections -> BOOLEAN] /\ reset' \in [Connections -> BOOLEAN]
      BY <1>2, <1>5, <3>1 DEF ClientShutsDown, ClientAborts, ClientReads, ForkTypes
    <3> QED BY <1>2, <2>1, <3>2 DEF ForkTypes
  <2>5. ReadOf(d)' = ReadOf(d)
    BY <2>1 DEF ReadOf
  <2>6. ChildInv(d)'
    BY <1>2, <2>1, <2>3, <2>5 DEF ChildInv, ChildState, Answered
  <2> QED BY <1>2, <2>1, <2>2, <2>4, <2>6, OneChild
<1> QED BY <1>1, <1>3, <1>4, <1>5

LEMMA ForkAccepts ==
  ASSUME ForkInv, NEW d \in Connections, ForkAccept(d)
  PROVE  ForkInv'
<1>1. ForkTypes /\ ChildInv(d)
  BY DEF ForkInv
<1>2. /\ phase[d] = "backlog"
      /\ UNCHANGED <<program, request, taken, shut, reset, reply, got, outbuf, sending, done>>
  BY DEF ForkAccept, buffers
<1>3. PICK ph \in {"served", "unserved"} : phase' = [phase EXCEPT ![d] = ph]
  BY DEF ForkAccept
<1>4. ForkTypes'
  BY <1>1, <1>2, <1>3 DEF ForkTypes
<1>5. ReadOf(d)' = <<>> /\ reply'[d] = <<>> /\ outbuf'[d] = <<>> /\ ~sending'[d] /\ done'[d] = 0
  BY <1>1, <1>2 DEF ChildInv, ChildState, ReadOf
<1>6. phase'[d] = ph
  BY <1>1, <1>3 DEF ForkTypes
<1>7. Holds(<<>>, <<>>, <<>>, FALSE, 0)
  BY LinesOfNothing, Rot13OfNothing DEF Holds
<1>8. sending'[d] = FALSE
  BY <1>4, <1>5 DEF ForkTypes
<1>9. ChildInv(d)'
  <2>1. ChildState(phase[d], ReadOf(d), reply[d], outbuf[d], sending[d], done[d])'
    BY <1>5, <1>6 DEF ChildState
  <2>2. Answered(phase[d], reset[d], shut[d], request[d], taken[d], reply[d], outbuf[d], sending[d], done[d])'
    BY <1>5, <1>6, <1>7, <1>8 DEF Answered, ReadOf
  <2> QED BY <2>1, <2>2 DEF ChildInv
<1> QED BY <1>1, <1>2, <1>3, <1>4, <1>9, OneChild DEF ForkTypes

\* What recv() of one byte does.
LEMMA RecvIs ==
  ASSUME ForkInv, NEW d \in Connections, ChildRecv(d)
  PROVE  /\ taken[d] + 1 \in 1 .. Len(request[d]) /\ request[d] \in Seq(Byte)
         /\ request[d][taken[d] + 1] \in Byte
         /\ Received(d, 1) = <<request[d][taken[d] + 1]>>
         /\ outbuf' = [outbuf EXCEPT ![d] =
              IF Len(outbuf[d]) < OUTBUF THEN Append(outbuf[d], rot13_char(request[d][taken[d] + 1])) ELSE outbuf[d]]
         /\ sending' = [sending EXCEPT ![d] = (request[d][taken[d] + 1] = NewLine)]
<1>1. ForkTypes
  BY DEF ForkInv
<1>2. request[d] \in Seq(Byte) /\ taken[d] \in Nat /\ Len(request[d]) \in Nat /\ Available(d) > 0
  BY <1>1, LenProperties DEF ForkTypes, ChildRecv
<1>3. taken[d] + 1 \in 1 .. Len(request[d])
  BY <1>2 DEF Available
<1>4. request[d][taken[d] + 1] \in Byte
  BY <1>2, <1>3, ElementOfSeq
<1> DEFINE P == Received(d, 1)
<1>5. P \in Seq(Byte) /\ Len(P) = 1 /\ P[1] = request[d][taken[d] + 1]
  <2>1. taken[d] + 1 <= Len(request[d]) /\ 1 \in Nat /\ 1 \in 1 .. 1
    BY <1>3
  <2>2. /\ P \in Seq(Byte) /\ Len(P) = 1
        /\ \A i \in 1 .. 1 : P[i] = request[d][taken[d] + i]
    <3> DEFINE one == 1
    <3>1. one \in Nat /\ taken[d] + one <= Len(request[d])
      BY <2>1
    <3> HIDE DEF one
    <3>2. /\ SubSeq(request[d], taken[d] + 1, taken[d] + one) \in Seq(Byte)
          /\ Len(SubSeq(request[d], taken[d] + 1, taken[d] + one)) = one
          /\ \A i \in 1 .. one : SubSeq(request[d], taken[d] + 1, taken[d] + one)[i] = request[d][taken[d] + i]
      BY ZenonT(40), <1>2, <3>1, PieceIs
    <3> QED BY <3>2 DEF Received, one
  <2> HIDE DEF P
  <2> QED BY <2>1, <2>2
<1>6. /\ outbuf' = [outbuf EXCEPT ![d] = IF Len(@) < OUTBUF THEN Append(@, rot13_char(P[1])) ELSE @]
      /\ sending' = [sending EXCEPT ![d] = (P[1] = NewLine)]
  BY DEF ChildRecv
<1> HIDE DEF P
<1>7. P = <<request[d][taken[d] + 1]>>
  BY <1>5
<1> QED BY <1>1, <1>2, <1>3, <1>4, <1>5, <1>6, <1>7 DEF P, ForkTypes

LEMMA ChildRecvs ==
  ASSUME ForkInv, NEW d \in Connections, ChildRecv(d)
  PROVE  ForkInv'
<1> DEFINE ch == request[d][taken[d] + 1]
           s == ReadOf(d)
<1>1. ForkTypes /\ ChildInv(d)
  BY DEF ForkInv
<1>2. /\ phase[d] = "served" /\ ~sending[d] /\ ~reset[d] /\ taken' = [taken EXCEPT ![d] = @ + 1]
      /\ UNCHANGED <<program, phase, request, shut, reset, reply, got, done>>
  BY DEF ChildRecv, Reading
<1>3. /\ taken[d] + 1 \in 1 .. Len(request[d]) /\ request[d] \in Seq(Byte) /\ ch \in Byte
      /\ outbuf' = [outbuf EXCEPT ![d] = IF Len(outbuf[d]) < OUTBUF THEN Append(outbuf[d], rot13_char(ch)) ELSE outbuf[d]]
      /\ sending' = [sending EXCEPT ![d] = (ch = NewLine)]
  BY RecvIs
<1>4. /\ taken[d] \in Nat /\ Len(request[d]) \in Nat /\ OUTBUF \in Nat \ {0} /\ outbuf[d] \in Seq(Byte)
      /\ Len(outbuf[d]) \in Nat /\ Len(outbuf[d]) <= OUTBUF /\ reply[d] \in Seq(Byte) /\ done[d] = 0
  BY <1>1, <1>2, LenProperties, ForkServerAssumption DEF ForkTypes, ChildInv, ChildState
<1> HIDE DEF ch
<1>5. rot13_char(ch) \in Byte
  BY <1>3, Rot13Involution
<1>6. /\ Append(outbuf[d], rot13_char(ch)) \in Seq(Byte)
      /\ Len(Append(outbuf[d], rot13_char(ch))) = Len(outbuf[d]) + 1
  BY <1>4, <1>5, AppendProperties
<1>7. outbuf'[d] \in Seq(Byte) /\ Len(outbuf'[d]) \in 1 .. OUTBUF
  BY <1>1, <1>3, <1>4, <1>6 DEF ForkTypes
<1>8. ForkTypes'
  <2>1. outbuf' \in [Connections -> Seq(Byte)] /\ \A c \in Connections : Len(outbuf'[c]) <= OUTBUF
    BY <1>1, <1>3, <1>7 DEF ForkTypes
  <2>2. taken' \in [Connections -> Nat] /\ \A c \in Connections : taken'[c] <= Len(request'[c])
    BY <1>1, <1>2, <1>3, <1>4 DEF ForkTypes
  <2>3. sending' \in [Connections -> BOOLEAN]
    BY <1>1, <1>3 DEF ForkTypes
  <2> QED BY <1>1, <1>2, <2>1, <2>2, <2>3 DEF ForkTypes
<1>9. s \in Seq(Byte) /\ ReadOf(d)' = Append(s, ch)
  <2>1. taken[d] \in 0 .. Len(request[d]) /\ taken[d] + 1 <= Len(request[d])
    BY <1>3, <1>4
  <2>2. s \in Seq(Byte) /\ Received(d, 1) = <<ch>>
    BY <1>3, <2>1, BeginningIs, RecvIs DEF ReadOf, ch
  <2>3. SubSeq(request[d], 1, taken[d] + 1) = s \o <<ch>>
    <3> DEFINE one == 1
    <3>1. one \in Nat /\ taken[d] \in Nat /\ taken[d] + one <= Len(request[d]) /\ request[d] \in Seq(Byte)
      BY <1>3, <1>4, <2>1
    <3> HIDE DEF one
    <3>2. SubSeq(request[d], 1, taken[d] + one)
            = SubSeq(request[d], 1, taken[d]) \o SubSeq(request[d], taken[d] + 1, taken[d] + one)
      BY <3>1, BeginningGrows
    <3> QED BY <2>2, <3>2 DEF ReadOf, Received, one
  <2>4. Append(s, ch) = s \o <<ch>>
    BY <1>3, <2>2, AppendIsConcat
  <2>5. request'[d] = request[d] /\ taken'[d] = taken[d] + 1
    BY <1>1, <1>2 DEF ForkTypes
  <2> QED BY <2>2, <2>3, <2>4, <2>5 DEF ReadOf
<1>10. /\ phase'[d] = "served" /\ sending'[d] = (ch = NewLine) /\ done'[d] = 0 /\ reply'[d] = reply[d]
       /\ request'[d] = request[d]
  BY <1>1, <1>2, <1>3, <1>4 DEF ForkTypes
<1>11. ChildState(phase[d], ReadOf(d), reply[d], outbuf[d], sending[d], done[d])'
  BY <1>7, <1>10 DEF ChildState
<1>12. ASSUME FitIn(request[d])
       PROVE  Holds(ReadOf(d), reply[d], outbuf[d], sending[d], done[d])'
  <2>1. Holds(s, reply[d], outbuf[d], sending[d], done[d])
    BY <1>1, <1>2, <1>12 DEF ChildInv, Answered, ReadOf
  <2>2. sending[d] = FALSE
    BY <1>1, <1>2 DEF ForkTypes
  <2>3. Holds(s, reply[d], outbuf[d], FALSE, 0)
    BY <1>4, <2>1, <2>2
  <2>4. outbuf[d] = Rot13Of(RestOf(s)) /\ RestOf(s) \in Seq(Byte)
    BY <1>9, <2>3, LinesAre DEF Holds
  <2>5. Len(RestOf(s)) < OUTBUF
    <3>1. taken[d] \in 0 .. Len(request[d]) /\ taken[d] < Len(request[d])
      BY <1>3, <1>4
    <3> QED BY <1>3, <1>12, <3>1, FitsHasRoom DEF ReadOf
  <2>6. Len(outbuf[d]) < OUTBUF
    BY <2>4, <2>5, Rot13OfSeq
  <2>7. outbuf'[d] = Append(outbuf[d], rot13_char(ch))
    BY <1>1, <1>3, <2>6 DEF ForkTypes
  <2> HIDE DEF s
  <2>8. Holds(Append(s, ch), reply[d], Append(outbuf[d], rot13_char(ch)), ch = NewLine, 0)
    BY <1>3, <1>4, <1>9, <2>3, RecvHolds
  <2> QED BY <1>9, <1>10, <2>7, <2>8
<1>13. ChildInv(d)'
  <2>1. Answered(phase[d], reset[d], shut[d], request[d], taken[d], reply[d], outbuf[d], sending[d], done[d])'
    BY <1>10, <1>12 DEF Answered, ReadOf
  <2> QED BY <1>11, <2>1 DEF ChildInv
<1> QED BY <1>1, <1>2, <1>3, <1>8, <1>13, OneChild DEF ForkTypes

LEMMA ChildEnds ==
  ASSUME ForkInv, NEW d \in Connections, ChildEnd(d)
  PROVE  ForkInv'
<1>1. ForkTypes /\ ChildInv(d)
  BY DEF ForkInv
<1>2. /\ phase[d] = "served" /\ ~sending[d] /\ (reset[d] \/ AtEnd(d))
      /\ phase' = [phase EXCEPT ![d] = "exited"] /\ outbuf' = [outbuf EXCEPT ![d] = <<>>]
      /\ UNCHANGED <<program, request, taken, shut, reset, reply, got, sending, done>>
  BY DEF ChildEnd, Reading
<1>3. <<>> \in Seq(Byte) /\ Len(<<>>) = 0 /\ OUTBUF \in Nat
  BY ForkServerAssumption
<1>4. ForkTypes'
  BY <1>1, <1>2, <1>3 DEF ForkTypes
<1>5. phase'[d] = "exited" /\ outbuf'[d] = <<>> /\ ~sending'[d] /\ done'[d] = 0
  BY <1>1, <1>2 DEF ForkTypes, ChildInv, ChildState
<1>6. ASSUME ~reset[d], FitIn(request[d])
      PROVE  shut[d] /\ taken[d] = Len(request[d]) /\ reply[d] = Rot13Of(WholeLines(request[d]))
  <2>1. request[d] \in Seq(Byte) /\ taken[d] \in Nat /\ Len(request[d]) \in Nat
    BY <1>1, LenProperties DEF ForkTypes
  <2>2. shut[d] /\ taken[d] = Len(request[d])
    BY <1>2, <1>6, <2>1 DEF AtEnd, Available
  <2>3. SubSeq(request[d], 1, taken[d]) = request[d]
    BY <2>1, <2>2, SubSeqFull
  <2>4. Holds(request[d], reply[d], outbuf[d], sending[d], done[d])
    BY <1>1, <1>2, <1>6, <2>3 DEF ChildInv, Answered
  <2> QED BY <1>2, <2>2, <2>4 DEF Holds
<1>7. ChildInv(d)'
  <2>1. ChildState(phase[d], ReadOf(d), reply[d], outbuf[d], sending[d], done[d])'
    BY <1>5 DEF ChildState
  <2>2. Answered(phase[d], reset[d], shut[d], request[d], taken[d], reply[d], outbuf[d], sending[d], done[d])'
    BY <1>2, <1>5, <1>6 DEF Answered
  <2> QED BY <2>1, <2>2 DEF ChildInv
<1> QED BY <1>1, <1>2, <1>4, <1>7, OneChild DEF ForkTypes

\* A piece of a line is queued, the last one or not.
LEMMA ChildSends ==
  ASSUME ForkInv, NEW d \in Connections, ChildSend(d)
  PROVE  ForkInv'
<1> DEFINE n == Min({RoomTo(d), Len(outbuf[d]) - done[d]})
           more == reply[d] \o SubSeq(outbuf[d], done[d] + 1, done[d] + n)
           s == ReadOf(d)
<1>1. ForkTypes /\ ChildInv(d)
  BY DEF ForkInv
<1>2. /\ sending[d] /\ ~reset[d] /\ RoomTo(d) > 0
      /\ UNCHANGED <<program, phase, request, taken, shut, reset, got>>
  BY DEF ChildSend
<1>3. /\ reply' = [reply EXCEPT ![d] = more]
      /\ IF done[d] + n = Len(outbuf[d]) THEN SendReturns(d)
         ELSE done' = [done EXCEPT ![d] = done[d] + n] /\ UNCHANGED <<outbuf, sending>>
  BY <1>1 DEF ChildSend, Queue, ForkTypes
<1>4. /\ outbuf[d] \in Seq(Byte) /\ Len(outbuf[d]) \in Nat /\ done[d] \in Nat /\ done[d] < Len(outbuf[d])
      /\ reply[d] \in Seq(Byte) /\ Len(reply[d]) \in Nat /\ got[d] \in Nat /\ phase[d] = "served" /\ sending[d] = TRUE
  BY <1>1, <1>2, LenProperties DEF ForkTypes, ChildInv, ChildState
<1>5. n \in Nat \ {0} /\ done[d] + n <= Len(outbuf[d])
  <2>1. SNDBUF \in Int
    BY SocketsAssumption
  <2>2. RoomTo(d) \in Int
    BY <1>4, <2>1 DEF RoomTo
  <2>3. \A l \in Nat : l > 0 => Min({RoomTo(d), l}) \in Nat \ {0} /\ Min({RoomTo(d), l}) <= l
    BY <1>2, <2>2, MinOfPositives
  <2>4. Len(outbuf[d]) - done[d] \in Nat /\ Len(outbuf[d]) - done[d] > 0
    BY <1>4
  <2>5. n \in Nat \ {0} /\ n <= Len(outbuf[d]) - done[d]
    BY <2>3, <2>4
  <2> HIDE DEF n
  <2> QED BY <1>4, <2>5
<1> HIDE DEF n
<1>6. more \in Seq(Byte)
  <2>1. SubSeq(outbuf[d], done[d] + 1, done[d] + n) \in Seq(Byte)
    BY SMTT(20), <1>4, <1>5, PieceIs
  <2> QED BY <1>4, <2>1, ConcatProperties
<1>7. s \in Seq(Byte)
  <2>1. request[d] \in Seq(Byte) /\ taken[d] \in 0 .. Len(request[d])
    <3>1. request[d] \in Seq(Byte) /\ taken[d] \in Nat /\ taken[d] <= Len(request[d])
      BY <1>1 DEF ForkTypes
    <3> QED BY <3>1, LenProperties
  <2> QED BY <2>1, BeginningIs DEF ReadOf
<1>8. ASSUME FitIn(request[d])
      PROVE  IF done[d] + n = Len(outbuf[d]) THEN Holds(s, more, <<>>, FALSE, 0)
                                             ELSE Holds(s, more, outbuf[d], TRUE, done[d] + n)
  <2>1. Holds(s, reply[d], outbuf[d], TRUE, done[d])
    BY <1>1, <1>2, <1>4, <1>8 DEF ChildInv, Answered, ReadOf
  <2> HIDE DEF s
  <2> QED BY <1>4, <1>5, <1>7, <2>1, SendHolds
<1> HIDE DEF more
<1>9. reply'[d] = more /\ ReadOf(d)' = s /\ phase'[d] = "served" /\ request'[d] = request[d] /\ taken'[d] = taken[d]
  BY <1>1, <1>2, <1>3, <1>4 DEF ForkTypes, ReadOf
<1>10. SubSeq(request[d], 1, taken[d]) = s
  BY DEF ReadOf
<1> HIDE DEF s
<1>11. CASE done[d] + n = Len(outbuf[d])
  <2>1. /\ sending' = [sending EXCEPT ![d] = FALSE] /\ outbuf' = [outbuf EXCEPT ![d] = <<>>]
        /\ done' = [done EXCEPT ![d] = 0]
    BY <1>3, <1>11 DEF SendReturns
  <2>2. ForkTypes'
    <3>1. <<>> \in Seq(Byte) /\ Len(<<>>) = 0 /\ OUTBUF \in Nat
      BY ForkServerAssumption
    <3>2. reply' \in [Connections -> Seq(Byte)]
      BY <1>1, <1>3, <1>6 DEF ForkTypes
    <3>3. /\ outbuf' \in [Connections -> Seq(Byte)] /\ \A c \in Connections : Len(outbuf'[c]) <= OUTBUF
          /\ sending' \in [Connections -> BOOLEAN] /\ done' \in [Connections -> Nat]
      BY <1>1, <2>1, <3>1 DEF ForkTypes
    <3> QED BY <1>1, <1>2, <3>2, <3>3 DEF ForkTypes
  <2>3. outbuf'[d] = <<>> /\ sending'[d] = FALSE /\ done'[d] = 0
    BY <1>1, <2>1 DEF ForkTypes
  <2>4. ChildInv(d)'
    <3>1. ChildState(phase[d], ReadOf(d), reply[d], outbuf[d], sending[d], done[d])'
      BY <1>9, <2>3 DEF ChildState
    <3>2. Answered(phase[d], reset[d], shut[d], request[d], taken[d], reply[d], outbuf[d], sending[d], done[d])'
      BY <1>8, <1>9, <1>10, <1>11, <2>3 DEF Answered
    <3> QED BY <3>1, <3>2 DEF ChildInv
  <2> QED BY <1>1, <1>2, <1>3, <2>1, <2>2, <2>4, OneChild DEF ForkTypes
<1>12. CASE done[d] + n # Len(outbuf[d])
  <2>1. done' = [done EXCEPT ![d] = done[d] + n] /\ outbuf' = outbuf /\ sending' = sending
    BY <1>3, <1>12
  <2>2. ForkTypes'
    <3>1. done[d] + n \in Nat
      BY <1>4, <1>5
    <3>2. reply' \in [Connections -> Seq(Byte)] /\ done' \in [Connections -> Nat]
      BY <1>1, <1>3, <1>6, <2>1, <3>1 DEF ForkTypes
    <3> QED BY <1>1, <1>2, <2>1, <3>2 DEF ForkTypes
  <2>3. outbuf'[d] = outbuf[d] /\ sending'[d] = TRUE /\ done'[d] = done[d] + n /\ done[d] + n < Len(outbuf[d])
    BY <1>1, <1>4, <1>5, <1>12, <2>1 DEF ForkTypes
  <2>4. ChildInv(d)'
    <3>1. ChildState(phase[d], ReadOf(d), reply[d], outbuf[d], sending[d], done[d])'
      BY <1>9, <2>3 DEF ChildState
    <3>2. Answered(phase[d], reset[d], shut[d], request[d], taken[d], reply[d], outbuf[d], sending[d], done[d])'
      BY <1>8, <1>9, <1>10, <1>12, <2>3 DEF Answered
    <3> QED BY <3>1, <3>2 DEF ChildInv
  <2> QED BY <1>1, <1>2, <1>3, <2>1, <2>2, <2>4, OneChild DEF ForkTypes
<1> QED BY <1>11, <1>12

LEMMA ChildSendsNothing ==
  ASSUME ForkInv, NEW d \in Connections, ChildSendFails(d)
  PROVE  ForkInv'
<1>1. ForkTypes /\ ChildInv(d)
  BY DEF ForkInv
<1>2. /\ sending[d] /\ reset[d] /\ UNCHANGED <<program, phase, request, taken, shut, reset, reply, got>>
      /\ sending' = [sending EXCEPT ![d] = FALSE] /\ outbuf' = [outbuf EXCEPT ![d] = <<>>]
      /\ done' = [done EXCEPT ![d] = 0]
  BY DEF ChildSendFails, SendReturns, sockets
<1>3. <<>> \in Seq(Byte) /\ Len(<<>>) = 0 /\ OUTBUF \in Nat
  BY ForkServerAssumption
<1>4. ForkTypes'
  BY <1>1, <1>2, <1>3 DEF ForkTypes
<1>5. phase'[d] = "served" /\ outbuf'[d] = <<>> /\ ~sending'[d] /\ done'[d] = 0 /\ reset'[d]
  BY <1>1, <1>2 DEF ForkTypes, ChildInv, ChildState
<1>6. ChildInv(d)'
  BY <1>5 DEF ChildInv, ChildState, Answered
<1> QED BY <1>1, <1>2, <1>4, <1>6, OneChild DEF ForkTypes

\* Whatever order the parent, the children and the clients move in, each child
\* holds of its own client's bytes what it should.
THEOREM ForkSafe == ForkSpec => []ForkInv
<1>1. ASSUME ForkInv, [ForkNext]_forkVars PROVE ForkInv'
  <2>1. CASE Clients /\ UNCHANGED buffers
    BY <1>1, <2>1, ForkClients
  <2>2. ASSUME NEW d \in Connections, ForkAccept(d) \/ Child(d) PROVE ForkInv'
    BY <1>1, <2>2, ForkAccepts, ChildRecvs, ChildEnds, ChildSends, ChildSendsNothing DEF Child
  <2>3. CASE UNCHANGED forkVars
    BY <1>1, <2>3 DEF forkVars, sockets, ForkInv, ForkTypes, ChildInv, ReadOf
  <2> QED BY <1>1, <2>1, <2>2, <2>3 DEF ForkNext
<1> QED BY <1>1, ForkBegins, PTL DEF ForkSpec

\* A client that half-closes has its reply to every line it completed when the
\* child exits, if its lines fit the buffer.
THEOREM HalfClosedGetAll == ForkSpec => []HalfCloseGetsAll
<1>1. ASSUME ForkInv PROVE HalfCloseGetsAll
  <2> SUFFICES ASSUME NEW c \in Connections, phase[c] = "exited", ~reset[c], Fits(c)
               PROVE  reply[c] = Rot13Of(WholeLines(request[c]))
    BY DEF HalfCloseGetsAll
  <2>1. FitIn(request[c])
    BY DEF Fits, FitIn
  <2> QED BY <1>1, <2>1 DEF ForkInv, ChildInv, Answered
<1> QED BY <1>1, ForkSafe, PTL

(***************************************************************************)
(* The fork server is a line echo: what LineEcho sees of it.               *)
(***************************************************************************)
KeptBar == [c \in Connections |-> reply[c] \o Unsent(c)]
CommitBar == [c \in Connections |-> Len(reply[c]) + IF sending[c] THEN Len(Unsent(c)) ELSE 0]
EndedBar == [c \in Connections |-> phase[c] = "exited" \/ (reset[c] /\ outbuf[c] = <<>>)]

\* While the fork server runs, everything is seen.
LEMMA AllSeen ==
  ASSUME ForkTypes, ForkTypes'
  PROVE  /\ Seen(taken, 0) = taken /\ Seen(taken, 0)' = taken'
         /\ Seen(reply, <<>>) = reply /\ Seen(reply, <<>>)' = reply'
         /\ Seen(KeptBar, <<>>) = KeptBar /\ Seen(KeptBar, <<>>)' = KeptBar'
         /\ Seen(CommitBar, 0) = CommitBar /\ Seen(CommitBar, 0)' = CommitBar'
<1>1. ForkServer /\ ForkServer'
  BY DEF ForkTypes, ForkServer
<1>2. Seen(taken, 0) = taken /\ Seen(reply, <<>>) = reply
  BY <1>1 DEF Seen, ForkTypes
<1>3. Seen(taken, 0)' = taken' /\ Seen(reply, <<>>)' = reply'
  BY <1>1 DEF Seen, ForkTypes
<1>4. Seen(KeptBar, <<>>) = KeptBar /\ Seen(CommitBar, 0) = CommitBar
  BY <1>1 DEF Seen, KeptBar, CommitBar
<1>5. Seen(KeptBar, <<>>)' = KeptBar' /\ Seen(CommitBar, 0)' = CommitBar'
  BY <1>1 DEF Seen, KeptBar, CommitBar
<1> QED BY <1>2, <1>3, <1>4, <1>5

LEMMA EchoBegins ==
  ASSUME ForkInit
  PROVE  ForkEcho!Init
<1>1. ForkServer
  BY DEF ForkInit
<1>2. \A c \in Connections : Unsent(c) = <<>> /\ reply[c] = <<>> /\ ~sending[c]
  BY DEF ForkInit, SocketsInit, BuffersInit, Unsent
<1>3. <<>> \o <<>> = <<>> /\ Len(<<>>) = 0
  OBVIOUS
<1>4. /\ Seen(taken, 0) = [c \in Connections |-> 0]
      /\ Seen(reply, <<>>) = [c \in Connections |-> <<>>]
      /\ Seen(KeptBar, <<>>) = [c \in Connections |-> <<>>]
      /\ Seen(CommitBar, 0) = [c \in Connections |-> 0]
      /\ EndedBar = [c \in Connections |-> FALSE]
  <2>1. Seen(taken, 0) = [c \in Connections |-> 0] /\ Seen(reply, <<>>) = [c \in Connections |-> <<>>]
    BY <1>1 DEF Seen, ForkInit, SocketsInit
  <2>2. Seen(KeptBar, <<>>) = [c \in Connections |-> <<>>]
    BY <1>1, <1>2, <1>3 DEF Seen, KeptBar
  <2>3. Seen(CommitBar, 0) = [c \in Connections |-> 0]
    <3>1. ASSUME NEW c \in Connections
          PROVE  Len(reply[c]) + (IF sending[c] THEN Len(Unsent(c)) ELSE 0) = 0
      <4>1. reply[c] = <<>> /\ sending[c] = FALSE
        BY DEF ForkInit, SocketsInit, BuffersInit
      <4> QED BY <1>3, <4>1
    <3> QED BY <1>1, <3>1 DEF Seen, CommitBar
  <2>4. EndedBar = [c \in Connections |-> FALSE]
    BY DEF EndedBar, ForkInit, SocketsInit
  <2> QED BY <2>1, <2>2, <2>3, <2>4
<1> QED BY <1>4 DEF ForkEcho!Init, KeptBar, CommitBar, EndedBar, ForkInit, SocketsInit

LEMMA EchoStutters ==
  ASSUME ForkTypes, ForkTypes', request' = request, taken' = taken, reply' = reply,
         KeptBar' = KeptBar, CommitBar' = CommitBar, EndedBar' = EndedBar
  PROVE  UNCHANGED ForkEcho!vars
<1>1. /\ Seen(taken, 0)' = Seen(taken, 0) /\ Seen(reply, <<>>)' = Seen(reply, <<>>)
      /\ Seen(KeptBar, <<>>)' = Seen(KeptBar, <<>>) /\ Seen(CommitBar, 0)' = Seen(CommitBar, 0)
  BY AllSeen
<1> QED BY <1>1 DEF ForkEcho!vars, KeptBar, CommitBar, EndedBar

LEMMA EchoWrites ==
  ASSUME ForkTypes, ForkTypes', NEW d \in Connections, NEW b \in Letters, request' = [request EXCEPT ![d] = Append(@, b)],
         taken' = taken, reply' = reply, KeptBar' = KeptBar, CommitBar' = CommitBar, EndedBar' = EndedBar
  PROVE  ForkEcho!Write(d)
<1>1. /\ Seen(taken, 0)' = Seen(taken, 0) /\ Seen(reply, <<>>)' = Seen(reply, <<>>)
      /\ Seen(KeptBar, <<>>)' = Seen(KeptBar, <<>>) /\ Seen(CommitBar, 0)' = Seen(CommitBar, 0)
  BY AllSeen
<1> QED BY <1>1 DEF ForkEcho!Write, KeptBar, CommitBar, EndedBar

LEMMA EchoEnds ==
  ASSUME ForkTypes, ForkTypes', NEW d \in Connections, request' = request, taken' = taken, reply' = reply,
         ~EndedBar[d], EndedBar' = [EndedBar EXCEPT ![d] = TRUE],
         KeptBar' = [KeptBar EXCEPT ![d] = reply[d]], CommitBar' = [CommitBar EXCEPT ![d] = Len(reply[d])]
  PROVE  ForkEcho!End({d}) /\ {d} \in SUBSET Connections
<1>1. /\ Seen(taken, 0)' = Seen(taken, 0) /\ Seen(reply, <<>>)' = Seen(reply, <<>>)
      /\ Seen(KeptBar, <<>>) = KeptBar /\ Seen(KeptBar, <<>>)' = KeptBar'
      /\ Seen(CommitBar, 0) = CommitBar /\ Seen(CommitBar, 0)' = CommitBar'
      /\ Seen(reply, <<>>) = reply
  BY AllSeen
<1>2. EndedBar' = [c \in Connections |-> c \in {d} \/ EndedBar[c]]
  BY DEF EndedBar
<1>3. Seen(KeptBar, <<>>)' = [c \in Connections |-> IF c \in {d} THEN Seen(reply, <<>>)[c] ELSE Seen(KeptBar, <<>>)[c]]
  BY <1>1 DEF KeptBar
<1>4. Seen(CommitBar, 0)' = [c \in Connections |-> IF c \in {d} THEN Len(Seen(reply, <<>>)[c]) ELSE Seen(CommitBar, 0)[c]]
  BY <1>1 DEF CommitBar
<1> QED BY <1>1, <1>2, <1>3, <1>4 DEF ForkEcho!End, KeptBar, CommitBar, EndedBar

LEMMA EchoReplies ==
  ASSUME ForkTypes, ForkTypes', NEW d \in Connections, request' = request, taken' = taken,
         ~EndedBar[d], EndedBar' = EndedBar, KeptBar' = KeptBar, CommitBar' = CommitBar,
         NEW m \in Len(reply[d]) + 1 .. CommitBar[d], reply' = [reply EXCEPT ![d] = SubSeq(KeptBar[d], 1, m)]
  PROVE  ForkEcho!Reply(d)
<1>1. /\ Seen(taken, 0)' = Seen(taken, 0)
      /\ m \in Len(Seen(reply, <<>>)[d]) + 1 .. Seen(CommitBar, 0)[d]
      /\ Seen(reply, <<>>)' = [Seen(reply, <<>>) EXCEPT ![d] = SubSeq(Seen(KeptBar, <<>>)[d], 1, m)]
      /\ Seen(KeptBar, <<>>)' = Seen(KeptBar, <<>>) /\ Seen(CommitBar, 0)' = Seen(CommitBar, 0)
  BY AllSeen
<1> QED BY <1>1 DEF ForkEcho!Reply, KeptBar, CommitBar, EndedBar

LEMMA EchoTakes ==
  ASSUME ForkTypes, ForkTypes', NEW d \in Connections, NEW ch \in Byte, NEW k \in {0, 1},
         taken[d] + 1 <= Len(request[d]), SubSeq(request[d], taken[d] + 1, taken[d] + 1) = <<ch>>,
         request' = request, taken' = [taken EXCEPT ![d] = @ + 1], reply' = reply,
         ~EndedBar[d], EndedBar' = EndedBar,
         KeptBar' = [KeptBar EXCEPT ![d] = @ \o SubSeq(<<rot13_char(ch)>>, 1, k)],
         CommitBar' = IF ch = NewLine THEN [CommitBar EXCEPT ![d] = Len(KeptBar[d]) + k] ELSE CommitBar
  PROVE  ForkEcho!Take(d)
<1>1. /\ Seen(taken, 0) = taken /\ Seen(taken, 0)' = taken'
      /\ Seen(reply, <<>>)' = Seen(reply, <<>>)
      /\ Seen(KeptBar, <<>>) = KeptBar /\ Seen(KeptBar, <<>>)' = KeptBar'
      /\ Seen(CommitBar, 0) = CommitBar /\ Seen(CommitBar, 0)' = CommitBar'
  BY AllSeen
<1>2. taken[d] \in Nat /\ Len(request[d]) \in Nat /\ request[d] \in Seq(Byte)
  BY LenProperties DEF ForkTypes
<1>3. 1 \in 1 .. Len(request[d]) - taken[d] /\ k \in 0 .. 1
  BY <1>2
<1>4. ForkEcho!Rot13Of(<<ch>>) = <<rot13_char(ch)>>
  <2>1. ForkEcho!rot13_char(ch) = rot13_char(ch)
    BY DEF ForkEcho!rot13_char, ForkEcho!FirstHalf, ForkEcho!SecondHalf, rot13_char, FirstHalf, SecondHalf
  <2> HIDE DEF rot13_char
  <2>2. ForkEcho!Rot13Of(<<ch>>) = <<ForkEcho!rot13_char(ch)>>
    BY DEF ForkEcho!Rot13Of
  <2> QED BY <2>1, <2>2
<1>5. ForkEcho!NewLine = NewLine
  BY DEF ForkEcho!NewLine, NewLine
<1> DEFINE chunk == SubSeq(request[d], taken[d] + 1, taken[d] + 1)
<1>6. \/ (\A j \in 1 .. 1 : chunk[j] # ForkEcho!NewLine) /\ CommitBar' = CommitBar
      \/ /\ ~(\A j \in 1 .. 1 : chunk[j] # ForkEcho!NewLine)
         /\ \E j \in 1 .. 1 : /\ ForkEcho!LastNewLine(chunk, j)
                              /\ CommitBar' = [CommitBar EXCEPT ![d] = Len(KeptBar[d]) + IF j <= k THEN j ELSE k]
  <2>1. chunk = <<ch>>
    OBVIOUS
  <2> HIDE DEF chunk
  <2>4. chunk[1] = ch /\ Len(chunk) = 1 /\ 1 .. 1 = {1}
    BY <2>1
  <2>2. CASE ch # NewLine
    BY <1>5, <2>4, <2>2
  <2>3. CASE ch = NewLine
    <3>1. ForkEcho!LastNewLine(chunk, 1)
      BY <1>5, <2>4, <2>3 DEF ForkEcho!LastNewLine
    <3>2. (IF 1 <= k THEN 1 ELSE k) = k
      OBVIOUS
    <3> QED BY <1>5, <2>4, <2>3, <3>1, <3>2
  <2> QED BY <2>2, <2>3
<1>7. KeptBar' = [KeptBar EXCEPT ![d] = @ \o SubSeq(ForkEcho!Rot13Of(chunk), 1, k)]
  BY <1>4
<1>8. chunk = SubSeq(request[d], Seen(taken, 0)[d] + 1, Seen(taken, 0)[d] + 1)
  BY <1>1
<1> HIDE DEF chunk
<1> DEFINE Piece(n) == SubSeq(request[d], Seen(taken, 0)[d] + 1, Seen(taken, 0)[d] + n)
           Taking(n, l) ==
             /\ Seen(taken, 0)' = [Seen(taken, 0) EXCEPT ![d] = @ + n]
             /\ Seen(KeptBar, <<>>)' = [Seen(KeptBar, <<>>) EXCEPT ![d] = @ \o SubSeq(ForkEcho!Rot13Of(Piece(n)), 1, l)]
             /\ IF \A j \in 1 .. n : Piece(n)[j] # ForkEcho!NewLine
                THEN Seen(CommitBar, 0)' = Seen(CommitBar, 0)
                ELSE \E j \in 1 .. n :
                       /\ ForkEcho!LastNewLine(Piece(n), j)
                       /\ Seen(CommitBar, 0)' = [Seen(CommitBar, 0) EXCEPT ![d] =
                            Len(Seen(KeptBar, <<>>)[d]) + IF j <= l THEN j ELSE l]
<1>9. Taking(1, k)
  <2>1. Piece(1) = chunk
    BY <1>8
  <2> HIDE DEF Piece
  <2>2. Seen(taken, 0)' = [Seen(taken, 0) EXCEPT ![d] = @ + 1]
    BY <1>1
  <2>3. Seen(KeptBar, <<>>)' = [Seen(KeptBar, <<>>) EXCEPT ![d] = @ \o SubSeq(ForkEcho!Rot13Of(Piece(1)), 1, k)]
    BY <1>1, <1>7, <2>1
  <2>4. IF \A j \in 1 .. 1 : Piece(1)[j] # ForkEcho!NewLine
        THEN Seen(CommitBar, 0)' = Seen(CommitBar, 0)
        ELSE \E j \in 1 .. 1 :
               /\ ForkEcho!LastNewLine(Piece(1), j)
               /\ Seen(CommitBar, 0)' = [Seen(CommitBar, 0) EXCEPT ![d] =
                    Len(Seen(KeptBar, <<>>)[d]) + IF j <= k THEN j ELSE k]
    BY <1>1, <1>6, <2>1
  <2> QED BY <2>2, <2>3, <2>4
<1>10. \E n \in 1 .. Len(request[d]) - Seen(taken, 0)[d] : \E l \in 0 .. n : Taking(n, l)
  <2> HIDE DEF Taking
  <2> QED BY <1>1, <1>3, <1>9
<1>11. UNCHANGED <<request, Seen(reply, <<>>), EndedBar>>
  BY <1>1
<1> QED BY <1>10, <1>11 DEF ForkEcho!Take, KeptBar, CommitBar, EndedBar

\* A step about one connection changes what is seen of that connection.
LEMMA BarsOfOne ==
  ASSUME NEW d \in Connections,
         \A c \in Connections \ {d} :
           /\ phase'[c] = phase[c] /\ reset'[c] = reset[c] /\ reply'[c] = reply[c]
           /\ outbuf'[c] = outbuf[c] /\ sending'[c] = sending[c] /\ done'[c] = done[c]
  PROVE  /\ KeptBar' = [KeptBar EXCEPT ![d] = (reply[d] \o Unsent(d))']
         /\ CommitBar' = [CommitBar EXCEPT ![d] = (Len(reply[d]) + IF sending[d] THEN Len(Unsent(d)) ELSE 0)']
         /\ EndedBar' = [EndedBar EXCEPT ![d] = (phase[d] = "exited" \/ (reset[d] /\ outbuf[d] = <<>>))']
<1>1. \A c \in Connections \ {d} : Unsent(c)' = Unsent(c)
  BY DEF Unsent
<1>2. KeptBar' = [KeptBar EXCEPT ![d] = (reply[d] \o Unsent(d))']
  BY <1>1 DEF KeptBar
<1>3. CommitBar' = [CommitBar EXCEPT ![d] = (Len(reply[d]) + IF sending[d] THEN Len(Unsent(d)) ELSE 0)']
  BY <1>1 DEF CommitBar
<1>4. EndedBar' = [EndedBar EXCEPT ![d] = (phase[d] = "exited" \/ (reset[d] /\ outbuf[d] = <<>>))']
  BY DEF EndedBar
<1> QED BY <1>2, <1>3, <1>4

\* What a child that is not in send() shows: its reply and what it stored.
LEMMA BarsAre ==
  ASSUME ForkInv, NEW d \in Connections
  PROVE  /\ KeptBar[d] \in Seq(Byte) /\ Unsent(d) \in Seq(Byte) /\ KeptBar[d] = reply[d] \o Unsent(d)
         /\ outbuf[d] = <<>> => KeptBar[d] = reply[d] /\ CommitBar[d] = Len(reply[d])
         /\ ~sending[d] => Unsent(d) = outbuf[d] /\ CommitBar[d] = Len(reply[d])
         /\ EndedBar[d] = (phase[d] = "exited" \/ (reset[d] /\ outbuf[d] = <<>>))
         /\ reply[d] \in Seq(Byte) /\ outbuf[d] \in Seq(Byte) /\ Len(reply[d]) \in Nat /\ Len(outbuf[d]) \in Nat
<1>1. /\ reply[d] \in Seq(Byte) /\ outbuf[d] \in Seq(Byte) /\ Len(reply[d]) \in Nat /\ Len(outbuf[d]) \in Nat
      /\ done[d] \in Nat /\ (sending[d] => done[d] < Len(outbuf[d])) /\ (~sending[d] => done[d] = 0)
  BY LenProperties DEF ForkInv, ForkTypes, ChildInv, ChildState
<1>2. done[d] \in 0 .. Len(outbuf[d])
  BY <1>1
<1>3. Unsent(d) \in Seq(Byte) /\ Len(Unsent(d)) = Len(outbuf[d]) - done[d]
  BY <1>1, <1>2, RemainderIs DEF Unsent
<1>4. KeptBar[d] = reply[d] \o Unsent(d) /\ CommitBar[d] = Len(reply[d]) + (IF sending[d] THEN Len(Unsent(d)) ELSE 0)
  BY DEF KeptBar, CommitBar
<1>5. KeptBar[d] \in Seq(Byte)
  BY <1>1, <1>3, <1>4, ConcatProperties
<1>6. ASSUME ~sending[d] PROVE Unsent(d) = outbuf[d] /\ CommitBar[d] = Len(reply[d])
  <2>1. Unsent(d) = SubSeq(outbuf[d], 1, Len(outbuf[d]))
    BY <1>1, <1>6 DEF Unsent
  <2> QED BY <1>1, <1>4, <1>6, <2>1, SubSeqFull
<1>7. ASSUME outbuf[d] = <<>> PROVE KeptBar[d] = reply[d] /\ CommitBar[d] = Len(reply[d])
  <2>1. ~sending[d]
    BY <1>1, <1>7
  <2>2. reply[d] \o <<>> = reply[d]
    BY <1>1, ConcatEmptySeq
  <2> QED BY <1>4, <1>6, <1>7, <2>1, <2>2
<1>8. EndedBar[d] = (phase[d] = "exited" \/ (reset[d] /\ outbuf[d] = <<>>))
  BY DEF EndedBar
<1> QED BY <1>1, <1>3, <1>4, <1>5, <1>6, <1>7, <1>8

LEMMA SeenClients ==
  ASSUME ForkInv, ForkInv', Clients /\ UNCHANGED buffers
  PROVE  [ForkEcho!Next]_(ForkEcho!vars)
<1> USE DEF buffers
<1>1. ForkTypes /\ ForkTypes'
  BY DEF ForkInv
<1>2. PICK d \in Connections : ClientConnects(d) \/ ClientWrites(d) \/ ClientShutsDown(d) \/ ClientAborts(d) \/ ClientReads(d)
  BY DEF Clients
<1>3. taken' = taken /\ reply' = reply /\ outbuf' = outbuf /\ sending' = sending /\ done' = done
  BY <1>2 DEF ClientConnects, ClientWrites, ClientShutsDown, ClientAborts, ClientReads
<1>4. KeptBar' = KeptBar /\ CommitBar' = CommitBar
  BY <1>3 DEF KeptBar, CommitBar, Unsent
<1>5. CASE ClientConnects(d)
  <2>1. request' = request /\ reset' = reset /\ phase[d] = "idle" /\ phase' = [phase EXCEPT ![d] = "backlog"]
    BY <1>5 DEF ClientConnects
  <2>2. EndedBar' = EndedBar
    BY <1>1, <1>3, <2>1 DEF EndedBar, ForkTypes
  <2> QED BY <1>1, <1>3, <1>4, <2>1, <2>2, EchoStutters
<1>6. CASE ClientWrites(d)
  <2>1. PICK b \in Letters : request' = [request EXCEPT ![d] = Append(@, b)]
    BY <1>6 DEF ClientWrites
  <2>2. EndedBar' = EndedBar
    BY <1>3, <1>6 DEF EndedBar, ClientWrites
  <2>3. ForkEcho!Write(d)
    BY <1>1, <1>3, <1>4, <2>1, <2>2, EchoWrites
  <2> QED BY <2>3 DEF ForkEcho!Next
<1>7. CASE ClientShutsDown(d) \/ ClientReads(d)
  <2>1. request' = request /\ EndedBar' = EndedBar
    BY <1>3, <1>7 DEF EndedBar, ClientShutsDown, ClientReads
  <2> QED BY <1>1, <1>3, <1>4, <2>1, EchoStutters
<1>8. CASE ClientAborts(d)
  <2>1. request' = request /\ phase' = phase /\ reset' = [reset EXCEPT ![d] = TRUE] /\ ~reset[d]
    BY <1>8 DEF ClientAborts, Unended
  <2>2. CASE phase[d] = "exited" \/ outbuf[d] # <<>>
    <3>1. EndedBar' = EndedBar
      BY <1>1, <1>3, <2>1, <2>2 DEF EndedBar, ForkTypes
    <3> QED BY <1>1, <1>3, <1>4, <2>1, <3>1, EchoStutters
  <2>3. CASE ~(phase[d] = "exited" \/ outbuf[d] # <<>>)
    <3>1. ~EndedBar[d] /\ EndedBar' = [EndedBar EXCEPT ![d] = TRUE]
      <4>1. ~EndedBar[d]
        BY <2>1, <2>3 DEF EndedBar
      <4>2. reset'[d] = TRUE /\ \A c \in Connections \ {d} : reset'[c] = reset[c]
        BY <1>1, <2>1 DEF ForkTypes
      <4>3. EndedBar' = [EndedBar EXCEPT ![d] = (phase[d] = "exited" \/ (reset[d] /\ outbuf[d] = <<>>))']
        BY <1>3, <2>1, <4>2, BarsOfOne
      <4>4. (phase[d] = "exited" \/ (reset[d] /\ outbuf[d] = <<>>))' = TRUE
        BY <1>3, <2>3, <4>2
      <4> QED BY <4>1, <4>3, <4>4
    <3>2. KeptBar[d] = reply[d] /\ CommitBar[d] = Len(reply[d])
      BY <2>3, BarsAre
    <3>3. KeptBar' = [KeptBar EXCEPT ![d] = reply[d]] /\ CommitBar' = [CommitBar EXCEPT ![d] = Len(reply[d])]
      BY <1>4, <3>2 DEF KeptBar, CommitBar
    <3>4. ForkEcho!End({d}) /\ {d} \in SUBSET Connections
      BY <1>1, <1>3, <2>1, <3>1, <3>3, EchoEnds
    <3> QED BY <3>4 DEF ForkEcho!Next
  <2> QED BY <2>2, <2>3
<1> QED BY <1>2, <1>5, <1>6, <1>7, <1>8

LEMMA SeenAccept ==
  ASSUME ForkInv, ForkInv', NEW d \in Connections, ForkAccept(d)
  PROVE  [ForkEcho!Next]_(ForkEcho!vars)
<1>1. ForkTypes /\ ForkTypes'
  BY DEF ForkInv
<1>2. /\ phase[d] = "backlog" /\ UNCHANGED <<request, taken, reset, reply, outbuf, sending, done>>
  BY DEF ForkAccept, buffers
<1>3. PICK ph \in {"served", "unserved"} : phase' = [phase EXCEPT ![d] = ph]
  BY DEF ForkAccept
<1>4. KeptBar' = KeptBar /\ CommitBar' = CommitBar
  BY <1>2 DEF KeptBar, CommitBar, Unsent
<1>5. EndedBar' = EndedBar
  BY <1>1, <1>2, <1>3 DEF EndedBar, ForkTypes
<1> QED BY <1>1, <1>2, <1>4, <1>5, EchoStutters

LEMMA SeenRecv ==
  ASSUME ForkInv, ForkInv', NEW d \in Connections, ChildRecv(d)
  PROVE  [ForkEcho!Next]_(ForkEcho!vars)
<1> DEFINE ch == request[d][taken[d] + 1]
           k == IF Len(outbuf[d]) < OUTBUF THEN 1 ELSE 0
<1>1. ForkTypes /\ ForkTypes'
  BY DEF ForkInv
<1>2. /\ phase[d] = "served" /\ ~sending[d] /\ ~reset[d] /\ taken' = [taken EXCEPT ![d] = @ + 1]
      /\ UNCHANGED <<phase, request, reset, reply, done>>
  BY DEF ChildRecv, Reading
<1>3. /\ taken[d] + 1 \in 1 .. Len(request[d]) /\ ch \in Byte /\ Received(d, 1) = <<ch>>
      /\ outbuf' = [outbuf EXCEPT ![d] = IF Len(outbuf[d]) < OUTBUF THEN Append(outbuf[d], rot13_char(ch)) ELSE outbuf[d]]
      /\ sending' = [sending EXCEPT ![d] = (ch = NewLine)]
  BY RecvIs
<1> HIDE DEF ch
<1>4. rot13_char(ch) \in Byte
  BY <1>3, Rot13Involution
<1>5. /\ reply[d] \in Seq(Byte) /\ outbuf[d] \in Seq(Byte) /\ Len(reply[d]) \in Nat /\ Len(outbuf[d]) \in Nat
      /\ done[d] = 0 /\ KeptBar[d] = reply[d] \o outbuf[d] /\ CommitBar[d] = Len(reply[d]) /\ ~EndedBar[d]
  BY <1>2, BarsAre DEF ForkInv, ChildInv, ChildState
<1> DEFINE more == SubSeq(<<rot13_char(ch)>>, 1, k)
<1>6. k \in {0, 1} /\ more \in Seq(Byte) /\ Len(more) = k /\ outbuf'[d] = outbuf[d] \o more
  <2> DEFINE one == <<rot13_char(ch)>>
  <2>1. one \in Seq(Byte) /\ Len(one) = 1
    BY <1>4
  <2>2. CASE Len(outbuf[d]) < OUTBUF
    <3>1. more = one
      BY <2>1, <2>2, SubSeqFull
    <3>2. outbuf'[d] = Append(outbuf[d], rot13_char(ch))
      BY <1>1, <1>3, <2>2 DEF ForkTypes
    <3>3. Append(outbuf[d], rot13_char(ch)) = outbuf[d] \o one
      BY <1>4, <1>5, AppendIsConcat
    <3> QED BY <2>1, <2>2, <3>1, <3>2, <3>3
  <2>3. CASE ~(Len(outbuf[d]) < OUTBUF)
    <3>1. more = <<>>
      BY <2>3, SubSeqEmpty
    <3>2. outbuf'[d] = outbuf[d] /\ outbuf[d] \o <<>> = outbuf[d]
      BY <1>1, <1>3, <1>5, <2>3, ConcatEmptySeq DEF ForkTypes
    <3> HIDE DEF more
    <3> QED BY <2>3, <3>1, <3>2
  <2> QED BY <2>2, <2>3
<1> HIDE DEF k, more
<1>7. reply'[d] = reply[d] /\ done'[d] = 0 /\ phase'[d] = "served" /\ ~reset'[d] /\ sending'[d] = (ch = NewLine)
  BY <1>1, <1>2, <1>3, <1>5 DEF ForkTypes
<1>8. Unsent(d)' = outbuf'[d] /\ outbuf'[d] \in Seq(Byte) /\ Len(outbuf'[d]) = Len(outbuf[d]) + k
  <2>1. /\ outbuf'[d] \in Seq(Byte) /\ Len(outbuf'[d]) = Len(outbuf[d]) + k
    BY <1>5, <1>6, ConcatProperties
  <2>2. SubSeq(outbuf'[d], 1, Len(outbuf'[d])) = outbuf'[d]
    BY <2>1, SubSeqFull
  <2> QED BY <1>7, <2>1, <2>2 DEF Unsent
<1>9. /\ KeptBar' = [KeptBar EXCEPT ![d] = reply'[d] \o outbuf'[d]]
      /\ CommitBar' = [CommitBar EXCEPT ![d] = Len(reply'[d]) + IF sending'[d] THEN Len(outbuf'[d]) ELSE 0]
      /\ EndedBar' = [EndedBar EXCEPT ![d] = FALSE]
  <2>1. \A c \in Connections \ {d} :
          /\ phase'[c] = phase[c] /\ reset'[c] = reset[c] /\ reply'[c] = reply[c]
          /\ outbuf'[c] = outbuf[c] /\ sending'[c] = sending[c] /\ done'[c] = done[c]
    BY <1>1, <1>2, <1>3 DEF ForkTypes
  <2>2. /\ KeptBar' = [KeptBar EXCEPT ![d] = (reply[d] \o Unsent(d))']
        /\ CommitBar' = [CommitBar EXCEPT ![d] = (Len(reply[d]) + IF sending[d] THEN Len(Unsent(d)) ELSE 0)']
        /\ EndedBar' = [EndedBar EXCEPT ![d] = (phase[d] = "exited" \/ (reset[d] /\ outbuf[d] = <<>>))']
    BY <2>1, BarsOfOne
  <2> QED BY <1>7, <1>8, <2>2
<1>10. EndedBar' = EndedBar
  BY <1>5, <1>9 DEF EndedBar
<1>11. KeptBar' = [KeptBar EXCEPT ![d] = @ \o more]
  <2>1. reply[d] \o (outbuf[d] \o more) = (reply[d] \o outbuf[d]) \o more
    BY <1>5, <1>6, BytesInOrder
  <2> QED BY <1>5, <1>6, <1>7, <1>9, <2>1
<1>12. CommitBar' = IF ch = NewLine THEN [CommitBar EXCEPT ![d] = Len(KeptBar[d]) + k] ELSE CommitBar
  <2>1. Len(KeptBar[d]) = Len(reply[d]) + Len(outbuf[d])
    BY <1>5, ConcatProperties
  <2>2. CASE ch = NewLine
    <3>1. Len(reply'[d]) + Len(outbuf'[d]) = Len(KeptBar[d]) + k
      <4>1. Len(reply[d]) \in Nat /\ Len(outbuf[d]) \in Nat /\ k \in Nat
        BY <1>5, <1>6
      <4>2. reply'[d] = reply[d] /\ Len(outbuf'[d]) = Len(outbuf[d]) + k
        BY <1>7, <1>8
      <4>3. Len(reply[d]) + (Len(outbuf[d]) + k) = (Len(reply[d]) + Len(outbuf[d])) + k
        <5>1. ASSUME NEW x \in Nat, NEW y \in Nat, NEW z \in Nat PROVE x + (y + z) = (x + y) + z
          OBVIOUS
        <5> QED BY <4>1, <5>1
      <4> QED BY <2>1, <4>2, <4>3
    <3> QED BY <1>7, <1>9, <2>2, <3>1
  <2>3. CASE ch # NewLine
    <3>1. CommitBar' = [CommitBar EXCEPT ![d] = CommitBar[d]]
      <4>1. Len(reply'[d]) + (IF sending'[d] THEN Len(outbuf'[d]) ELSE 0) = CommitBar[d]
        <5>1. ~sending'[d] /\ reply'[d] = reply[d]
          BY <1>7, <2>3
        <5>2. Len(reply[d]) + 0 = Len(reply[d])
          BY <1>5
        <5> QED BY <1>5, <5>1, <5>2
      <4> QED BY <1>9, <4>1
    <3> QED BY <2>3, <3>1 DEF CommitBar
  <2> QED BY <2>2, <2>3
<1>13. taken[d] + 1 <= Len(request[d]) /\ SubSeq(request[d], taken[d] + 1, taken[d] + 1) = <<ch>>
  BY <1>3 DEF Received
<1>14. ForkEcho!Take(d)
  BY <1>1, <1>2, <1>3, <1>5, <1>6, <1>10, <1>11, <1>12, <1>13, EchoTakes DEF more
<1> QED BY <1>14 DEF ForkEcho!Next

\* The end of a child, or a send() that fails: what was stored is forgotten.
LEMMA SeenEnd ==
  ASSUME ForkInv, ForkInv', NEW d \in Connections, ChildEnd(d) \/ ChildSendFails(d)
  PROVE  [ForkEcho!Next]_(ForkEcho!vars)
<1>1. ForkTypes /\ ForkTypes'
  BY DEF ForkInv
<1>2. /\ phase[d] = "served" /\ (sending[d] => reset[d]) /\ (sending[d] => outbuf[d] # <<>>)
      /\ UNCHANGED <<request, taken, reset, reply>>
      /\ outbuf' = [outbuf EXCEPT ![d] = <<>>]
      /\ ~sending'[d] /\ \A c \in Connections \ {d} : phase'[c] = phase[c] /\ sending'[c] = sending[c] /\ done'[c] = done[c]
      /\ phase'[d] = "exited" \/ reset[d]
  <2>1. ChildInv(d)
    BY DEF ForkInv
  <2>2. CASE ChildEnd(d)
    BY <1>1, <2>2 DEF ChildEnd, Reading, ForkTypes
  <2>3. CASE ChildSendFails(d)
    <3>1. outbuf[d] # <<>> /\ phase[d] = "served"
      BY <1>1, <2>1, <2>3 DEF ChildInv, ChildState, ChildSendFails, ForkTypes
    <3> QED BY <1>1, <2>3, <3>1 DEF ChildSendFails, SendReturns, sockets, ForkTypes
  <2> QED BY <2>2, <2>3
<1>3. outbuf'[d] = <<>> /\ reply'[d] = reply[d] /\ reset'[d] = reset[d]
  BY <1>1, <1>2 DEF ForkTypes
<1>4. Unsent(d)' = <<>>
  <2>1. \A m \in Nat : SubSeq(<<>>, m + 1, 0) = <<>>
    BY SubSeqEmpty
  <2>2. done'[d] \in Nat /\ Len(<<>>) = 0
    BY <1>1 DEF ForkTypes
  <2> QED BY <1>3, <2>1, <2>2 DEF Unsent
<1>5. /\ KeptBar' = [KeptBar EXCEPT ![d] = reply[d]]
      /\ CommitBar' = [CommitBar EXCEPT ![d] = Len(reply[d])]
      /\ EndedBar' = [EndedBar EXCEPT ![d] = TRUE]
  <2>1. \A c \in Connections \ {d} :
          /\ phase'[c] = phase[c] /\ reset'[c] = reset[c] /\ reply'[c] = reply[c]
          /\ outbuf'[c] = outbuf[c] /\ sending'[c] = sending[c] /\ done'[c] = done[c]
    BY <1>1, <1>2 DEF ForkTypes
  <2>2. /\ KeptBar' = [KeptBar EXCEPT ![d] = (reply[d] \o Unsent(d))']
        /\ CommitBar' = [CommitBar EXCEPT ![d] = (Len(reply[d]) + IF sending[d] THEN Len(Unsent(d)) ELSE 0)']
        /\ EndedBar' = [EndedBar EXCEPT ![d] = (phase[d] = "exited" \/ (reset[d] /\ outbuf[d] = <<>>))']
    BY <2>1, BarsOfOne
  <2>3. reply[d] \in Seq(Byte) /\ Len(reply[d]) \in Nat
    BY <1>1, LenProperties DEF ForkTypes
  <2>4. reply[d] \o <<>> = reply[d] /\ Len(reply[d]) + 0 = Len(reply[d])
    BY <2>3, ConcatEmptySeq
  <2>5. (reply[d] \o Unsent(d))' = reply[d]
    BY <1>3, <1>4, <2>4
  <2>6. (Len(reply[d]) + IF sending[d] THEN Len(Unsent(d)) ELSE 0)' = Len(reply[d])
    BY <1>2, <1>3, <2>4
  <2>7. (phase[d] = "exited" \/ (reset[d] /\ outbuf[d] = <<>>))' = TRUE
    BY <1>2, <1>3
  <2> QED BY <2>2, <2>5, <2>6, <2>7
<1>6. CASE ~EndedBar[d]
  <2>1. ForkEcho!End({d}) /\ {d} \in SUBSET Connections
    BY <1>1, <1>2, <1>5, <1>6, EchoEnds
  <2> QED BY <2>1 DEF ForkEcho!Next
<1>7. CASE EndedBar[d]
  <2>1. outbuf[d] = <<>>
    BY <1>2, <1>7 DEF EndedBar
  <2>2. KeptBar[d] = reply[d] /\ CommitBar[d] = Len(reply[d]) /\ EndedBar[d] = TRUE
    BY <1>7, <2>1, BarsAre DEF EndedBar
  <2>3. KeptBar' = KeptBar /\ CommitBar' = CommitBar /\ EndedBar' = EndedBar
    BY ZenonT(40), <1>5, <2>2 DEF KeptBar, CommitBar, EndedBar
  <2> QED BY <1>1, <1>2, <2>3, EchoStutters
<1> QED BY <1>6, <1>7

\* A piece that is queued: what was kept is replied.
LEMMA SeenSend ==
  ASSUME ForkInv, ForkInv', NEW d \in Connections, ChildSend(d)
  PROVE  [ForkEcho!Next]_(ForkEcho!vars)
<1> DEFINE n == Min({RoomTo(d), Len(outbuf[d]) - done[d]})
           piece == SubSeq(outbuf[d], done[d] + 1, done[d] + n)
           left == SubSeq(outbuf[d], done[d] + n + 1, Len(outbuf[d]))
<1>1. ForkTypes /\ ForkTypes' /\ ChildInv(d)
  BY DEF ForkInv
<1>2. /\ sending[d] /\ ~reset[d] /\ RoomTo(d) > 0
      /\ UNCHANGED <<program, phase, request, taken, shut, reset, got>>
  BY DEF ChildSend
<1>3. /\ reply' = [reply EXCEPT ![d] = reply[d] \o piece]
      /\ IF done[d] + n = Len(outbuf[d]) THEN SendReturns(d)
         ELSE done' = [done EXCEPT ![d] = done[d] + n] /\ UNCHANGED <<outbuf, sending>>
  BY <1>1 DEF ChildSend, Queue, ForkTypes
<1>4. /\ outbuf[d] \in Seq(Byte) /\ Len(outbuf[d]) \in Nat /\ done[d] \in Nat /\ done[d] < Len(outbuf[d])
      /\ reply[d] \in Seq(Byte) /\ Len(reply[d]) \in Nat /\ got[d] \in Nat /\ phase[d] = "served" /\ sending[d] = TRUE
  BY <1>1, <1>2, LenProperties DEF ForkTypes, ChildInv, ChildState
<1>5. n \in Nat \ {0} /\ done[d] + n <= Len(outbuf[d])
  <2>1. SNDBUF \in Int
    BY SocketsAssumption
  <2>2. RoomTo(d) \in Int
    BY <1>4, <2>1 DEF RoomTo
  <2>3. \A l \in Nat : l > 0 => Min({RoomTo(d), l}) \in Nat \ {0} /\ Min({RoomTo(d), l}) <= l
    BY <1>2, <2>2, MinOfPositives
  <2>4. Len(outbuf[d]) - done[d] \in Nat /\ Len(outbuf[d]) - done[d] > 0
    BY <1>4
  <2>5. n \in Nat \ {0} /\ n <= Len(outbuf[d]) - done[d]
    BY <2>3, <2>4
  <2> HIDE DEF n
  <2> QED BY <1>4, <2>5
<1> HIDE DEF n
<1>6. piece \in Seq(Byte) /\ Len(piece) = n
  BY SMTT(20), <1>4, <1>5, PieceIs
<1>7. left \in Seq(Byte) /\ Len(left) = Len(outbuf[d]) - (done[d] + n)
  BY <1>4, <1>5, RemainderIs
<1>8. Unsent(d) = piece \o left /\ Unsent(d) \in Seq(Byte) /\ Len(Unsent(d)) = Len(outbuf[d]) - done[d]
  <2>1. Unsent(d) \in Seq(Byte) /\ Len(Unsent(d)) = Len(outbuf[d]) - done[d]
    BY SMTT(20), <1>4, RemainderIs DEF Unsent
  <2> DEFINE m == done[d] + 1
             k == done[d] + n
             l == Len(outbuf[d])
  <2>2. m \in 1 .. Len(outbuf[d]) + 1 /\ k \in m - 1 .. Len(outbuf[d]) /\ l \in k .. Len(outbuf[d])
    BY <1>4, <1>5
  <2> HIDE DEF m, k, l
  <2>3. SubSeq(outbuf[d], m, k) \o SubSeq(outbuf[d], k + 1, l) = SubSeq(outbuf[d], m, l)
    BY <1>4, <2>2, ConcatAdjacentSubSeq
  <2> QED BY <2>1, <2>3 DEF m, k, l, Unsent
<1>9. Unsent(d)' = left /\ (IF sending'[d] THEN Len(left) ELSE 0) = Len(left)
  <2>1. CASE done[d] + n = Len(outbuf[d])
    <3>1. left = <<>> /\ Len(<<>>) = 0
      BY <1>7, <2>1, EmptySeq
    <3>2. outbuf'[d] = <<>> /\ done'[d] = 0
      BY <1>1, <1>3, <2>1 DEF SendReturns, ForkTypes
    <3>3. Unsent(d)' = <<>>
      BY <3>2, SubSeqEmpty DEF Unsent
    <3> HIDE DEF left
    <3> QED BY <3>1, <3>3
  <2>2. CASE done[d] + n # Len(outbuf[d])
    <3>1. outbuf'[d] = outbuf[d] /\ done'[d] = done[d] + n /\ sending'[d]
      BY <1>1, <1>2, <1>3, <2>2 DEF ForkTypes
    <3> QED BY <3>1 DEF Unsent
  <2> QED BY <2>1, <2>2
<1>10. \A c \in Connections \ {d} :
         /\ phase'[c] = phase[c] /\ reset'[c] = reset[c] /\ reply'[c] = reply[c]
         /\ outbuf'[c] = outbuf[c] /\ sending'[c] = sending[c] /\ done'[c] = done[c]
  <2>1. CASE done[d] + n = Len(outbuf[d])
    <3>1. /\ sending' = [sending EXCEPT ![d] = FALSE] /\ outbuf' = [outbuf EXCEPT ![d] = <<>>]
          /\ done' = [done EXCEPT ![d] = 0]
      BY <1>3, <2>1 DEF SendReturns
    <3> QED BY <1>1, <1>2, <1>3, <3>1 DEF ForkTypes
  <2>2. CASE done[d] + n # Len(outbuf[d])
    <3>1. done' = [done EXCEPT ![d] = done[d] + n] /\ outbuf' = outbuf /\ sending' = sending
      BY <1>3, <2>2
    <3> QED BY <1>1, <1>2, <1>3, <3>1 DEF ForkTypes
  <2> QED BY <2>1, <2>2
<1>11. reply'[d] = reply[d] \o piece
  BY <1>1, <1>3 DEF ForkTypes
<1> HIDE DEF piece, left
<1>12. /\ KeptBar' = [KeptBar EXCEPT ![d] = (reply[d] \o Unsent(d))']
       /\ CommitBar' = [CommitBar EXCEPT ![d] = (Len(reply[d]) + IF sending[d] THEN Len(Unsent(d)) ELSE 0)']
       /\ EndedBar' = [EndedBar EXCEPT ![d] = (phase[d] = "exited" \/ (reset[d] /\ outbuf[d] = <<>>))']
  BY <1>10, BarsOfOne
<1>13. KeptBar[d] = reply[d] \o Unsent(d) /\ CommitBar[d] = Len(reply[d]) + Len(Unsent(d))
  BY <1>4 DEF KeptBar, CommitBar
<1>14. KeptBar' = KeptBar
  <2>1. (reply[d] \o piece) \o left = reply[d] \o (piece \o left)
    BY <1>4, <1>6, <1>7, BytesInOrder
  <2>2. (reply[d] \o Unsent(d))' = KeptBar[d]
    BY <1>8, <1>9, <1>11, <1>13, <2>1
  <2> QED BY <1>12, <2>2 DEF KeptBar
<1>15. Len(reply'[d]) = Len(reply[d]) + n
  BY <1>4, <1>6, <1>11, ConcatProperties
<1>16. CommitBar' = CommitBar
  <2>1. (Len(reply[d]) + IF sending[d] THEN Len(Unsent(d)) ELSE 0)' = Len(reply'[d]) + Len(left)
    BY <1>9
  <2>2. Len(reply'[d]) + Len(left) = CommitBar[d]
    <3>1. Len(left) = Len(outbuf[d]) - (done[d] + n) /\ Len(Unsent(d)) = Len(outbuf[d]) - done[d]
      BY <1>7, <1>8
    <3>2. CommitBar[d] = Len(reply[d]) + Len(Unsent(d)) /\ Len(reply'[d]) = Len(reply[d]) + n
      BY <1>13, <1>15
    <3>3. Len(outbuf[d]) \in Nat /\ done[d] \in Nat /\ n \in Nat /\ Len(reply[d]) \in Nat
      BY <1>4, <1>5
    <3>4. ASSUME NEW l \in Nat, NEW x \in Nat, NEW y \in Nat, NEW r \in Nat
          PROVE  (r + y) + (l - (x + y)) = r + (l - x)
      OBVIOUS
    <3>5. (Len(reply[d]) + n) + (Len(outbuf[d]) - (done[d] + n)) = Len(reply[d]) + (Len(outbuf[d]) - done[d])
      BY <3>3, <3>4
    <3> QED BY <3>1, <3>2, <3>5
  <2>3. CommitBar' = [CommitBar EXCEPT ![d] = CommitBar[d]]
    BY <1>12, <2>1, <2>2
  <2> QED BY <2>3 DEF CommitBar
<1>17. ~EndedBar[d] /\ EndedBar' = EndedBar
  <2>1. ~EndedBar[d]
    BY <1>2, <1>4 DEF EndedBar
  <2>2. (phase[d] = "exited" \/ (reset[d] /\ outbuf[d] = <<>>))' = EndedBar[d]
    BY <1>2, <1>4, <2>1 DEF EndedBar
  <2> QED BY <1>12, <2>1, <2>2 DEF EndedBar
<1> DEFINE m == Len(reply[d]) + n
<1>18. m \in Len(reply[d]) + 1 .. CommitBar[d]
  <2>1. Len(Unsent(d)) = Len(outbuf[d]) - done[d] /\ CommitBar[d] = Len(reply[d]) + Len(Unsent(d))
    BY <1>8, <1>13
  <2>2. Len(outbuf[d]) \in Nat /\ done[d] \in Nat /\ n \in Nat \ {0} /\ Len(reply[d]) \in Nat /\ done[d] + n <= Len(outbuf[d])
    BY <1>4, <1>5
  <2> QED BY <2>1, <2>2
<1>19. SubSeq(KeptBar[d], 1, m) = reply[d] \o piece
  <2>1. KeptBar[d] = (reply[d] \o piece) \o left
    <3>1. (reply[d] \o piece) \o left = reply[d] \o (piece \o left)
      BY <1>4, <1>6, <1>7, BytesInOrder
    <3> QED BY <1>8, <1>13, <3>1
  <2>2. reply[d] \o piece \in Seq(Byte) /\ Len(reply[d] \o piece) = m
    BY <1>4, <1>6, ConcatProperties
  <2> HIDE DEF m
  <2> QED BY <1>7, <2>1, <2>2, FirstPart
<1> HIDE DEF m
<1>20. reply' = [reply EXCEPT ![d] = SubSeq(KeptBar[d], 1, m)]
  BY <1>3, <1>19 DEF piece
<1>21. ForkEcho!Reply(d)
  BY <1>1, <1>2, <1>14, <1>16, <1>17, <1>18, <1>20, EchoReplies
<1> QED BY <1>21 DEF ForkEcho!Next

\* Every step of the parent, a child or a client is one of LineEcho's or none.
THEOREM ForkIsALineEcho == ForkSpec => ForkImplementsLineEcho
<1>1. ForkInit => ForkEcho!Init
  BY EchoBegins
<1>2. ASSUME ForkInv, ForkInv', [ForkNext]_forkVars PROVE [ForkEcho!Next]_(ForkEcho!vars)
  <2>1. CASE Clients /\ UNCHANGED buffers
    BY <1>2, <2>1, SeenClients
  <2>2. ASSUME NEW d \in Connections, ForkAccept(d) \/ Child(d) PROVE [ForkEcho!Next]_(ForkEcho!vars)
    BY <1>2, <2>2, SeenAccept, SeenRecv, SeenEnd, SeenSend DEF Child
  <2>3. CASE UNCHANGED forkVars
    <3>1. /\ request' = request /\ taken' = taken /\ reply' = reply
          /\ KeptBar' = KeptBar /\ CommitBar' = CommitBar /\ EndedBar' = EndedBar
      BY <2>3 DEF forkVars, sockets, KeptBar, CommitBar, EndedBar, Unsent
    <3> QED BY <1>2, <3>1, EchoStutters DEF ForkInv
  <2> QED BY <1>2, <2>1, <2>2, <2>3 DEF ForkNext
<1> QED BY <1>1, <1>2, ForkSafe, PTL DEF ForkSpec, ForkImplementsLineEcho, ForkEcho!Spec

(***************************************************************************)
(* Rio.                                                                    *)
(***************************************************************************)

\* What is left in rio_buf ends where rio_buf ends.
BufferOK ==
  /\ rp.rio_cnt > 0 => rp.rio_bufptr + rp.rio_cnt = Len(rp.rio_buf) + 1
  /\ Len(rp.rio_buf) <= RIO_BUFSIZE

\* What the running call has moved so far.
Progress ==
  /\ call.op = "none" => call = NoCall
  /\ call.op # "none" => call.n \in Sizes
  /\ call.op \in {"rio_readn", "rio_readnb"} => Len(call.usrbuf) = call.n - call.nleft
  /\ call.op = "rio_readlineb" =>
       /\ Len(call.usrbuf) = call.n - 1 - call.nleft
       /\ \A i \in 1 .. Len(call.usrbuf) : call.usrbuf[i] # LineFeed
  /\ call.op = "rio_readn" => Unread = <<>>
  /\ call.op = "rio_writen" =>
       /\ call.usrbuf = <<>> /\ call.nleft <= call.n
       /\ wire = sent \o [i \in 1 .. call.n - call.nleft |-> i]
  /\ call.op # "rio_writen" => wire = sent

\* What was written when no call was running.
Recorded == sent \in Seq(Nat)

RioInv == TypeOK /\ BufferOK /\ Progress /\ Recorded /\ NoByteLost

-----------------------------------------------------------------------------
(* Sequences cut in two. *)

LEMMA Cut ==
  ASSUME NEW s \in Seq(Char), NEW k \in 0 .. Len(s)
  PROVE  /\ SubSeq(s, 1, k) \in Seq(Char) /\ SubSeq(s, k + 1, Len(s)) \in Seq(Char)
         /\ Len(SubSeq(s, 1, k)) = k
         /\ SubSeq(s, 1, k) \o SubSeq(s, k + 1, Len(s)) = s
<1>1. \A i \in 1 .. Len(s) : s[i] \in Char
  OBVIOUS
<1>2. Len(s) \in Nat /\ k \in Nat /\ k <= Len(s)
  OBVIOUS
<1>3. SubSeq(s, 1, k) \in Seq(Char) /\ Len(SubSeq(s, 1, k)) = IF 1 <= k THEN k - 1 + 1 ELSE 0
  <2>1. \A i \in 1 .. k : s[i] \in Char
    BY <1>1, <1>2
  <2> QED BY <1>2, <2>1, SubSeqProperties
<1>4. SubSeq(s, k + 1, Len(s)) \in Seq(Char)
  <2>1. \A i \in k + 1 .. Len(s) : s[i] \in Char
    BY <1>1, <1>2
  <2>2. k + 1 \in Int /\ Len(s) \in Int
    BY <1>2
  <2> QED BY <2>1, <2>2, SubSeqProperties
<1>5. SubSeq(s, 1, k) \o SubSeq(s, k + 1, Len(s)) = SubSeq(s, 1, Len(s))
  <2>1. /\ 1 \in 1 .. Len(s) + 1
        /\ k \in 1 - 1 .. Len(s)
        /\ Len(s) \in k .. Len(s)
    BY <1>2
  <2> QED BY <2>1, ConcatAdjacentSubSeq
<1>6. SubSeq(s, 1, Len(s)) = s
  BY SubSeqFull
<1>7. Len(SubSeq(s, 1, k)) = k
  BY <1>2, <1>3
<1> QED BY <1>3, <1>4, <1>5, <1>6, <1>7

LEMMA Joined ==
  ASSUME NEW a \in Seq(Char), NEW b \in Seq(Char), NEW c \in Seq(Char)
  PROVE  (a \o b) \o c = a \o (b \o c)
BY ConcatAssociative

LEMMA Pasted ==
  ASSUME NEW a \in Seq(Char), NEW b \in Seq(Char)
  PROVE  /\ a \o b \in Seq(Char)
         /\ Len(a) \in 0 .. Len(a \o b)
         /\ SubSeq(a \o b, 1, Len(a)) = a
         /\ SubSeq(a \o b, Len(a) + 1, Len(a \o b)) = b
<1>1. /\ a \o b \in Seq(Char)
      /\ Len(a \o b) = Len(a) + Len(b)
  BY ConcatProperties
<1>2. Len(a) \in Nat /\ Len(b) \in Nat
  OBVIOUS
<1>3. SubSeq(a \o b, 1, Len(a)) = a
  <2>1. CASE Len(a) = 0
    BY <2>1, SubSeqEmpty, EmptySeq
  <2>2. CASE Len(a) # 0
    <3>1. 1 \in 1 .. Len(a) /\ Len(a) \in 1 .. Len(a)
      BY <1>2, <2>2
    <3>2. SubSeq(a \o b, 1, Len(a)) = SubSeq(a, 1, Len(a))
      BY <3>1, SubSeqOfConcat1
    <3> QED BY <3>2, SubSeqFull
  <2> QED BY <2>1, <2>2
<1>4. SubSeq(a \o b, Len(a) + 1, Len(a \o b)) = b
  <2>1. CASE Len(b) = 0
    BY <1>1, <1>2, <2>1, SubSeqEmpty, EmptySeq
  <2>2. CASE Len(b) # 0
    <3>1. /\ Len(a) + 1 \in Len(a) + 1 .. Len(a) + Len(b)
          /\ Len(a) + Len(b) \in Len(a) + 1 .. Len(a) + Len(b)
      BY <1>2, <2>2
    <3>2. SubSeq(a \o b, Len(a) + 1, Len(a) + Len(b))
            = SubSeq(b, Len(a) + 1 - Len(a), Len(a) + Len(b) - Len(a))
      BY <3>1, SubSeqOfConcat2
    <3>3. Len(a) + 1 - Len(a) = 1 /\ Len(a) + Len(b) - Len(a) = Len(b)
      BY <1>2
    <3> QED BY <1>1, <3>2, <3>3, SubSeqFull
  <2> QED BY <2>1, <2>2
<1> QED BY <1>1, <1>2, <1>3, <1>4

-----------------------------------------------------------------------------
(* The invariant. *)

LEMMA InitInv == Init => RioInv
<1> SUFFICES ASSUME Init PROVE RioInv
  OBVIOUS
<1>1. src \in Seq(Char)
  BY InputsAssumption DEF Init
<1>2. RIO_BUFSIZE \in Nat \ {0}
  BY SizesAssumption
<1>3. TypeOK
  BY <1>1, <1>2 DEF Init, TypeOK, NoCall, Buffered
<1>4. BufferOK
  BY <1>2 DEF Init, BufferOK
<1>5. Progress
  BY DEF Init, Progress, NoCall
<1>6. Unread = <<>> /\ call.usrbuf = <<>> /\ rest = src
  BY DEF Init, Unread, NoCall
<1>7. NoByteLost
  BY <1>1, <1>6, ConcatEmptySeq DEF NoByteLost
<1> QED BY <1>3, <1>4, <1>5, <1>7 DEF RioInv, Init, Recorded

\* A call that returns leaves nothing under way.
LEMMA ReturnInv ==
  ASSUME RioInv, NEW ret, NEW d, Return(ret, d),
         src' \in Seq(Char), wire' \in Seq(Nat), errno' \in {"none", "EINTR", "EIO"},
         rp' \in [rio_cnt : -1 .. RIO_BUFSIZE, rio_bufptr : 1 .. RIO_BUFSIZE + 1, rio_buf : Seq(Char)],
         BufferOK'
  PROVE  RioInv'
<1>1. call' = NoCall /\ sent' = wire'
  BY DEF Return
<1>2. TypeOK'
  BY <1>1 DEF TypeOK, NoCall, Buffered
<1>3. Progress'
  BY <1>1 DEF Progress, NoCall
<1>4. Unread' \in Seq(Char)
  <2>1. CASE rp'.rio_cnt > 0
    <3> DEFINE m == rp'.rio_bufptr
               n == rp'.rio_bufptr + rp'.rio_cnt - 1
    <3>1. m \in Int /\ n \in Int
      OBVIOUS
    <3>2. n = Len(rp'.rio_buf)
      BY <2>1 DEF BufferOK
    <3>3. \A i \in m .. n : rp'.rio_buf[i] \in Char
      BY <3>2
    <3>4. SubSeq(rp'.rio_buf, m, n) \in Seq(Char)
      <4> HIDE DEF m, n
      <4> QED BY <3>1, <3>3, SubSeqProperties
    <3> QED BY <2>1, <3>4 DEF Unread
  <2>2. CASE ~(rp'.rio_cnt > 0)
    BY <2>2 DEF Unread
  <2> QED BY <2>1, <2>2
<1>5. rest' = Unread' \o src' /\ call'.usrbuf = <<>>
  BY <1>1 DEF Return, Unread, NoCall
<1>6. NoByteLost'
  BY <1>4, <1>5, ConcatEmptySeq DEF NoByteLost
<1> QED BY <1>1, <1>2, <1>3, <1>6 DEF RioInv, Recorded

-----------------------------------------------------------------------------
(* A call that returns is a step of Stream. *)

LEMMA Stutter ==
  ASSUME UNCHANGED <<rest, sent, result>>
  PROVE  [Simple!Next]_(Simple!vars)
BY DEF Simple!vars

\* What the call gives is the front of what was to be read.
LEMMA GivesFront ==
  ASSUME RioInv, rest' \in Seq(Char), rest = call.usrbuf \o rest'
  PROVE  /\ Len(call.usrbuf) \in 0 .. Len(rest)
         /\ Simple!Upto(rest, Len(call.usrbuf)) = call.usrbuf
         /\ Simple!From(rest, Len(call.usrbuf)) = rest'
         /\ rest' = <<>> => Len(call.usrbuf) = Len(rest)
<1>1. call.usrbuf \in Seq(Char)
  BY DEF RioInv, TypeOK
<1>2. rest' = <<>> => Len(rest) = Len(call.usrbuf)
  BY <1>1, ConcatProperties
<1> QED BY <1>1, <1>2, Pasted DEF Simple!Upto, Simple!From

LEMMA ReadBytesReturns ==
  ASSUME RioInv, call.op \in {"rio_readn", "rio_readnb"},
         Return(call.n - call.nleft, call.usrbuf), UNCHANGED wire,
         rest' \in Seq(Char), rest = call.usrbuf \o rest',
         call.nleft = 0 \/ rest' = <<>>
  PROVE  Simple!Next
<1> DEFINE k == Len(call.usrbuf)
<1>1. /\ call.n \in Sizes /\ call.n \in Nat /\ call.nleft \in Nat
      /\ k = call.n - call.nleft /\ wire = sent
  BY DEF RioInv, TypeOK, Progress
<1>2. k \in 0 .. Len(rest) /\ (rest' = <<>> => k = Len(rest))
  BY GivesFront
<1>3. k = IF call.n < Len(rest) THEN call.n ELSE Len(rest)
  BY <1>1, <1>2
<1>4. Simple!Upto(rest, k) = call.usrbuf /\ Simple!From(rest, k) = rest'
  BY GivesFront
<1>5. call.n - call.nleft # -1
  BY <1>1, <1>2
<1>6. /\ result' = [op |-> call.op, n |-> call.n, ret |-> k, data |-> call.usrbuf, err |-> "none"]
      /\ sent' = sent
  BY <1>1, <1>5 DEF Return
<1> HIDE DEF k
<1>7. Simple!Returns(call.op, call.n, k, Simple!Upto(rest, k))
  BY <1>4, <1>6 DEF Simple!Returns
<1>8. Simple!ReadBytes(call.op, call.n)
  BY <1>3, <1>4, <1>6, <1>7 DEF Simple!ReadBytes
<1> QED BY <1>1, <1>8 DEF Simple!Next

LEMMA ReadLineReturns ==
  ASSUME RioInv, NEW d \in Seq(Char), NEW ret \in Nat,
         call.op = "rio_readlineb", Return(ret, d), UNCHANGED wire,
         Len(d) \in 0 .. Len(rest), Simple!Upto(rest, Len(d)) = d, Simple!From(rest, Len(d)) = rest',
         Len(d) < call.n,
         \A i \in 1 .. Len(d) - 1 : d[i] # LineFeed,
         \/ Len(d) > 0 /\ d[Len(d)] = LineFeed /\ ret = Len(d)
         \/ /\ Len(d) > 0 => d[Len(d)] # LineFeed
            /\ Len(d) = call.n - 1 \/ Len(d) = Len(rest)
            /\ ret = IF Len(d) = 0 /\ call.n > 1 THEN 0 ELSE Len(d) + 1
  PROVE  Simple!Next
<1> DEFINE k == Len(d)
           ends == k > 0 /\ rest[k] = LineFeed
<1>1. call.n \in Sizes /\ call.n \in Nat /\ wire = sent
  BY DEF RioInv, TypeOK, Progress
<1>2. \A i \in 1 .. k : d[i] = rest[i]
  <2> DEFINE S == {rest[i] : i \in 1 .. k}
  <2>0. d \in Seq(Char)
    OBVIOUS
  <2>1. k \in Nat /\ SubSeq(rest, 1, k) = d
    <3>1. Len(d) \in Nat
      BY <2>0
    <3>2. SubSeq(rest, 1, Len(d)) = d
      BY DEF Simple!Upto
    <3> QED BY <3>1, <3>2
  <2>2. \A i \in 1 .. k : rest[i] \in S
    OBVIOUS
  <2>3. \A i \in 1 .. k - 1 + 1 : SubSeq(rest, 1, k)[i] = rest[1 + i - 1]
    <3> HIDE DEF S, k
    <3> QED BY <2>1, <2>2, SubSeqProperties
  <2>4. \A i \in 1 .. k : d[i] = rest[1 + i - 1] /\ 1 + i - 1 = i
    <3> HIDE DEF S, k
    <3> QED BY <2>1, <2>3
  <2> QED BY <2>4
<1>3. ret = IF ends THEN k ELSE IF k = 0 /\ call.n > 1 THEN 0 ELSE k + 1
  BY <1>1, <1>2
<1>4. ends \/ k = call.n - 1 \/ k = Len(rest)
  BY <1>2
<1>5. \A i \in 1 .. k - 1 : rest[i] # LineFeed
  BY <1>2
<1>6. /\ result' = [op |-> "rio_readlineb", n |-> call.n, ret |-> ret, data |-> d, err |-> "none"]
      /\ sent' = sent
  BY <1>1 DEF Return
<1>7. Simple!Returns("rio_readlineb", call.n, ret, Simple!Upto(rest, k))
  BY <1>6 DEF Simple!Returns
<1>8. Simple!ReadLine(call.n)
  BY <1>3, <1>4, <1>5, <1>6, <1>7 DEF Simple!ReadLine
<1> QED BY <1>1, <1>8 DEF Simple!Next

LEMMA ReadFailsReturns ==
  ASSUME RioInv, call.op \in {"rio_readn", "rio_readnb", "rio_readlineb"},
         Return(-1, <<>>), UNCHANGED wire, errno' = "EIO",
         rest' \in Seq(Char), rest = call.usrbuf \o rest'
  PROVE  Simple!Next
<1>1. call.n \in Sizes /\ wire = sent /\ Len(call.usrbuf) <= call.n
  <2>1. call.n \in Sizes /\ wire = sent
    BY DEF RioInv, Progress
  <2>2. call.n \in Nat /\ call.nleft \in Nat
    BY DEF RioInv, TypeOK
  <2>3. Len(call.usrbuf) \in {call.n - call.nleft, call.n - 1 - call.nleft}
    BY DEF RioInv, Progress
  <2> QED BY SMTT(20), <2>1, <2>2, <2>3
<1>2. /\ result' = [op |-> call.op, n |-> call.n, ret |-> -1, data |-> <<>>, err |-> "EIO"]
      /\ sent' = sent
  BY <1>1 DEF Return
<1>3. Simple!Fails(call.op, call.n)
  BY <1>2 DEF Simple!Fails, Simple!Errors
<1>4. Simple!ReadFails(call.op, call.n)
  BY <1>1, <1>2, <1>3, GivesFront DEF Simple!ReadFails
<1> QED BY <1>1, <1>4 DEF Simple!Next

-----------------------------------------------------------------------------
(* Each step keeps the invariant and is a step of Stream or a stutter. *)

LEMMA UnreadType ==
  ASSUME RioInv
  PROVE  /\ Unread \in Seq(Char)
         /\ rp.rio_cnt > 0 => Unread = SubSeq(rp.rio_buf, rp.rio_bufptr, Len(rp.rio_buf))
<1>1. CASE rp.rio_cnt > 0
  <2> DEFINE m == rp.rio_bufptr
             n == Len(rp.rio_buf)
  <2>1. m \in Int /\ n \in Int /\ m >= 1
    BY DEF RioInv, TypeOK
  <2>2. rp.rio_bufptr + rp.rio_cnt - 1 = n
    BY <1>1 DEF RioInv, TypeOK, BufferOK
  <2>3. \A i \in m .. n : rp.rio_buf[i] \in Char
    BY <2>1 DEF RioInv, TypeOK
  <2>4. SubSeq(rp.rio_buf, m, n) \in Seq(Char)
    <3> HIDE DEF m, n
    <3> QED BY <2>1, <2>3, SubSeqProperties
  <2> QED BY <1>1, <2>2, <2>4 DEF Unread
<1>2. CASE ~(rp.rio_cnt > 0)
  BY <1>2 DEF Unread
<1> QED BY <1>1, <1>2

LEMMA CallStep ==
  ASSUME RioInv, Call
  PROVE  RioInv' /\ [Simple!Next]_(Simple!vars)
<1>1. PICK n \in Sizes, op \in Buffered \cup {"rio_writen"} \cup IF Unread = <<>> THEN {"rio_readn"} ELSE {} :
        call' = [op |-> op, n |-> n, nleft |-> IF op = "rio_readlineb" THEN n - 1 ELSE n, usrbuf |-> <<>>]
  BY DEF Call
<1>2. UNCHANGED <<src, wire, rp, errno, rest, sent, result>> /\ call = NoCall
  BY DEF Call
<1>3. n \in Nat \ {0}
  BY SizesAssumption
<1>4. TypeOK'
  BY <1>1, <1>2, <1>3 DEF RioInv, TypeOK, Buffered
<1>5. BufferOK'
  BY <1>2 DEF RioInv, BufferOK
<1>6. wire = sent /\ wire \in Seq(Nat) /\ Unread' = Unread
  BY <1>2 DEF RioInv, TypeOK, Progress, NoCall, Unread
<1>7. Progress'
  <2>1. sent \o [i \in 1 .. n - n |-> i] = wire
    <3>1. [i \in 1 .. n - n |-> i] = <<>>
      BY <1>3
    <3> QED BY <3>1, <1>6, ConcatEmptySeq
  <2>2. op # "none" /\ op \in Buffered \cup {"rio_writen", "rio_readn"} /\ (op = "rio_readn" => Unread = <<>>)
    BY <1>1 DEF Buffered
  <2> HIDE DEF Unread
  <2> QED BY <1>1, <1>2, <1>3, <1>6, <2>1, <2>2 DEF Progress, Buffered
<1>8. NoByteLost'
  BY <1>1, <1>2, <1>6 DEF RioInv, NoByteLost, NoCall
<1> QED BY <1>2, <1>4, <1>5, <1>7, <1>8, Stutter DEF RioInv, Recorded

\* Steps that leave the call as it is, and what was and is to be read.
LEMMA Retried ==
  ASSUME RioInv, UNCHANGED <<src, wire, call, rest, sent, result>>, errno' \in {"none", "EINTR", "EIO"},
         rp' \in [rio_cnt : -1 .. RIO_BUFSIZE, rio_bufptr : 1 .. RIO_BUFSIZE + 1, rio_buf : Seq(Char)],
         BufferOK', Unread' = Unread
  PROVE  RioInv' /\ [Simple!Next]_(Simple!vars)
<1>1. TypeOK'
  BY DEF RioInv, TypeOK
<1>2. Progress'
  BY DEF RioInv, Progress
<1>3. NoByteLost'
  BY DEF RioInv, NoByteLost
<1> QED BY <1>1, <1>2, <1>3, Stutter DEF RioInv, Recorded

LEMMA ReadnStep ==
  ASSUME RioInv, ReadnDone \/ ReadnData \/ ReadnEOF \/ ReadnFails
  PROVE  RioInv' /\ [Simple!Next]_(Simple!vars)
<1>1. /\ call.op = "rio_readn" /\ UNCHANGED <<wire, rp>>
      /\ Unread = <<>> /\ wire = sent /\ Len(call.usrbuf) = call.n - call.nleft
  BY DEF ReadnDone, ReadnData, ReadnEOF, ReadnFails, Running, RioInv, Progress
<1>2. /\ src \in Seq(Char) /\ call.usrbuf \in Seq(Char) /\ wire' \in Seq(Nat)
      /\ errno \in {"none", "EINTR", "EIO"} /\ call.n \in Nat /\ call.nleft \in Nat
      /\ rp' \in [rio_cnt : -1 .. RIO_BUFSIZE, rio_bufptr : 1 .. RIO_BUFSIZE + 1, rio_buf : Seq(Char)]
  BY <1>1 DEF RioInv, TypeOK
<1>3. BufferOK' /\ Unread' = <<>>
  BY <1>1 DEF RioInv, BufferOK, Unread
<1>4. rest = call.usrbuf \o src
  BY <1>1, <1>2, ConcatEmptySeq DEF RioInv, NoByteLost
<1>5. ASSUME UNCHANGED src, NEW ret, NEW d, Return(ret, d)
      PROVE  rest' = src /\ rest = call.usrbuf \o rest'
  <2>1. rest' = Unread' \o src'
    BY <1>5 DEF Return, Unread
  <2> QED BY <2>1, <1>2, <1>3, <1>4, <1>5, ConcatEmptySeq
<1>6. CASE ReadnDone \/ ReadnEOF
  <2>1. /\ UNCHANGED src /\ errno' = errno /\ Return(call.n - call.nleft, call.usrbuf)
        /\ call.nleft = 0 \/ src = <<>>
    BY <1>2, <1>6 DEF ReadnDone, ReadnEOF, Succeeded
  <2>2. RioInv'
    BY <1>2, <1>3, <2>1, ReturnInv
  <2>3. Simple!Next
    BY <1>1, <1>2, <1>5, <2>1, ReadBytesReturns
  <2> QED BY <2>2, <2>3
<1>7. CASE ReadnData
  <2>1. PICK k \in 1 .. Least(call.nleft, Len(src)) :
          /\ src' = SubSeq(src, k + 1, Len(src))
          /\ Continue([call EXCEPT !.nleft = @ - k, !.usrbuf = @ \o SubSeq(src, 1, k)])
    BY <1>7 DEF ReadnData
  <2>2. k \in 0 .. Len(src) /\ k \in Nat /\ k <= call.nleft
    BY <1>2 DEF Least
  <2>3. /\ SubSeq(src, 1, k) \in Seq(Char) /\ src' \in Seq(Char) /\ Len(SubSeq(src, 1, k)) = k
        /\ SubSeq(src, 1, k) \o src' = src
    BY <1>2, <2>1, <2>2, Cut
  <2>4. /\ call' = [call EXCEPT !.nleft = call.nleft - k, !.usrbuf = call.usrbuf \o SubSeq(src, 1, k)]
        /\ errno' = errno /\ UNCHANGED <<rest, sent, result>>
    BY <1>7, <2>1 DEF ReadnData, Continue, Succeeded
  <2>5. /\ call.usrbuf \o SubSeq(src, 1, k) \in Seq(Char)
        /\ Len(call.usrbuf \o SubSeq(src, 1, k)) = Len(call.usrbuf) + k
        /\ (call.usrbuf \o SubSeq(src, 1, k)) \o src' = rest
    <3> DEFINE p == SubSeq(src, 1, k)
    <3>1. p \in Seq(Char) /\ src' \in Seq(Char) /\ Len(p) = k /\ p \o src' = src
      BY <2>3
    <3> HIDE DEF p
    <3>2. (call.usrbuf \o p) \o src' = call.usrbuf \o (p \o src')
      <4>1. call.usrbuf \in Seq(Char) /\ p \in Seq(Char) /\ src' \in Seq(Char)
        BY <1>2, <3>1
      <4> QED BY <4>1, Joined
    <3>3. call.usrbuf \o p \in Seq(Char) /\ Len(call.usrbuf \o p) = Len(call.usrbuf) + k
      <4>1. call.usrbuf \in Seq(Char) /\ p \in Seq(Char) /\ Len(p) = k
        BY <1>2, <3>1
      <4>2. call.usrbuf \o p \in Seq(Char) /\ Len(call.usrbuf \o p) = Len(call.usrbuf) + Len(p)
        BY <4>1, ConcatProperties
      <4> QED BY <4>1, <4>2, Zenon
    <3>4. (call.usrbuf \o p) \o src' = rest
      BY <1>4, <3>1, <3>2
    <3> QED BY <3>3, <3>4 DEF p
  <2>6. /\ call'.op = "rio_readn" /\ call'.n = call.n /\ call'.nleft = call.nleft - k
        /\ call'.usrbuf = call.usrbuf \o SubSeq(src, 1, k)
    BY <1>1, <2>4 DEF RioInv, TypeOK
  <2>7. call'.nleft \in Nat
    BY <1>2, <2>2, <2>6
  <2>8. TypeOK'
    <3>1. call' \in [op : Buffered \cup {"none", "rio_readn", "rio_writen"}, n : Nat, nleft : Nat, usrbuf : Seq(Char)]
      BY <2>4, <2>5, <2>6, <2>7 DEF RioInv, TypeOK
    <3> QED BY <3>1, <1>2, <2>3, <2>4 DEF TypeOK
  <2>9. Progress'
    <3>1. call.n \in Sizes
      BY <1>1 DEF RioInv, Progress
    <3>2. Len(call'.usrbuf) = call'.n - call'.nleft
      BY SMTT(20), <1>1, <1>2, <2>2, <2>5, <2>6
    <3> QED BY <1>1, <1>3, <2>4, <2>6, <3>1, <3>2 DEF Progress
  <2>10. NoByteLost'
    <3>1. call'.usrbuf \o <<>> = call'.usrbuf
      BY <2>5, <2>6, ConcatEmptySeq
    <3> QED BY <1>3, <2>4, <2>5, <2>6, <3>1 DEF NoByteLost
  <2> QED BY <1>3, <2>4, <2>8, <2>9, <2>10, Stutter DEF RioInv, Recorded
<1>8. CASE ReadnFails
  <2>1. UNCHANGED src /\ errno' \in {"none", "EINTR", "EIO"}
    BY <1>8 DEF ReadnFails, Interrupted, Failed
  <2>2. CASE Continue(call)
    <3>1. UNCHANGED <<call, rest, sent, result>>
      BY <2>2 DEF Continue
    <3> QED BY <1>1, <1>2, <1>3, <2>1, <3>1, Retried
  <2>3. CASE errno' = "EIO" /\ Return(-1, <<>>)
    <3>1. RioInv'
      BY <1>2, <1>3, <2>1, <2>3, ReturnInv
    <3>2. Simple!Next
      BY <1>1, <1>2, <1>5, <2>1, <2>3, ReadFailsReturns
    <3> QED BY <3>1, <3>2
  <2> QED BY <1>8, <2>2, <2>3 DEF ReadnFails, Failed
<1> QED BY <1>6, <1>7, <1>8

LEMMA WritenStep ==
  ASSUME RioInv, WritenDone \/ WritenData \/ WritenFails
  PROVE  RioInv' /\ [Simple!Next]_(Simple!vars)
<1> DEFINE Put(j) == [i \in 1 .. j |-> i]
<1>1. /\ call.op = "rio_writen" /\ UNCHANGED <<src, rp>> /\ call.n \in Sizes
      /\ call.usrbuf = <<>> /\ call.nleft <= call.n /\ wire = sent \o Put(call.n - call.nleft)
  BY DEF WritenDone, WritenData, WritenFails, Running, RioInv, Progress
<1>2. /\ src' \in Seq(Char) /\ wire \in Seq(Nat) /\ errno \in {"none", "EINTR", "EIO"}
      /\ call.n \in Nat /\ call.nleft \in Nat
      /\ rp' \in [rio_cnt : -1 .. RIO_BUFSIZE, rio_bufptr : 1 .. RIO_BUFSIZE + 1, rio_buf : Seq(Char)]
  BY <1>1 DEF RioInv, TypeOK
<1>3. BufferOK' /\ Unread' = Unread /\ Unread \in Seq(Char)
  BY <1>1, UnreadType DEF RioInv, BufferOK, Unread
<1>4. ASSUME NEW ret, NEW d, Return(ret, d)
      PROVE  UNCHANGED rest
  <2>1. rest' = Unread' \o src'
    BY <1>4 DEF Return, Unread
  <2>2. rest = Unread \o src
    BY <1>1, <1>3, ConcatEmptySeq DEF RioInv, NoByteLost
  <2> QED BY <1>1, <1>3, <2>1, <2>2
<1>5. CASE WritenDone
  <2>1. UNCHANGED wire /\ errno' = errno /\ Return(call.n, <<>>) /\ call.nleft = 0
    BY <1>5 DEF WritenDone, Succeeded
  <2>2. RioInv'
    BY <1>2, <1>3, <2>1, ReturnInv
  <2>3. /\ result' = [op |-> "rio_writen", n |-> call.n, ret |-> call.n, data |-> <<>>, err |-> "none"]
        /\ sent' = wire
    BY <1>1, <1>2, <2>1 DEF Return
  <2>4. wire = sent \o Simple!Positions(call.n)
    <3>1. call.n - call.nleft = call.n
      BY <1>2, <2>1
    <3>2. wire = sent \o Put(call.n)
      BY <1>1, <3>1
    <3> QED BY <3>2 DEF Simple!Positions
  <2>5. Simple!Write(call.n)
    BY <1>4, <2>1, <2>3, <2>4 DEF Simple!Write, Simple!Returns
  <2> QED BY <1>1, <2>2, <2>5 DEF Simple!Next
<1>6. CASE WritenData
  <2>1. PICK k \in 1 .. call.nleft :
          /\ wire' = wire \o [i \in 1 .. k |-> call.n - call.nleft + i]
          /\ Continue([call EXCEPT !.nleft = @ - k])
    BY <1>6 DEF WritenData
  <2>2. /\ call' = [call EXCEPT !.nleft = call.nleft - k]
        /\ UNCHANGED <<errno, rest, sent, result>>
    BY <1>6, <2>1 DEF WritenData, Continue, Succeeded
  <2>3. /\ call'.op = "rio_writen" /\ call'.n = call.n /\ call'.nleft = call.nleft - k
        /\ call'.usrbuf = <<>> /\ call'.nleft \in Nat /\ call'.nleft <= call'.n
    <3>1. call \in [op : Buffered \cup {"none", "rio_readn", "rio_writen"}, n : Nat, nleft : Nat, usrbuf : Seq(Char)]
      BY DEF RioInv, TypeOK
    <3>2. /\ call'.op = call.op /\ call'.n = call.n /\ call'.usrbuf = call.usrbuf
          /\ call'.nleft = call.nleft - k
      BY <2>2, <3>1
    <3>3. call.nleft - k \in Nat /\ call.nleft - k <= call.n
      <4>1. PICK a, b \in Nat : a = call.nleft /\ b = call.n
        BY <1>2
      <4>2. k \in 1 .. a /\ a <= b
        BY <1>1, <2>1, <4>1
      <4>3. a - k \in Nat /\ a - k <= b
        BY <4>2
      <4> QED BY <4>1, <4>3, Zenon
    <3> QED BY <1>1, <1>2, <3>2, <3>3
  <2>4. wire' = sent \o Put(call.n - (call.nleft - k)) /\ wire' \in Seq(Nat)
    <3> DEFINE j == call.n - call.nleft
               more == [i \in 1 .. k |-> j + i]
    <3>1. j \in Nat /\ k \in Nat /\ call.n - (call.nleft - k) = j + k
      BY SMTT(20), <1>1, <1>2
    <3>2. more \in Seq(Nat) /\ Put(j) \in Seq(Nat)
      BY <3>1
    <3>3. Put(j) \o more = Put(j + k)
      BY <3>1
    <3>4. wire' = wire \o more /\ wire = sent \o Put(j)
      BY <1>1, <2>1
    <3>5. sent \in Seq(Nat)
      BY DEF RioInv, Recorded
    <3> HIDE DEF j, more, Put
    <3>6. (sent \o Put(j)) \o more = sent \o (Put(j) \o more)
      BY <3>2, <3>5, ConcatAssociative
    <3>7. wire' \in Seq(Nat)
      BY <1>2, <3>2, <3>4, ConcatProperties
    <3> QED BY <3>1, <3>3, <3>4, <3>6, <3>7
  <2>5. TypeOK'
    BY <1>2, <2>2, <2>3, <2>4 DEF RioInv, TypeOK
  <2>6. Progress'
    BY <1>1, <2>2, <2>3, <2>4 DEF Progress
  <2>7. NoByteLost'
    BY <1>1, <1>3, <2>2, <2>3 DEF RioInv, NoByteLost
  <2> QED BY <1>3, <2>2, <2>5, <2>6, <2>7, Stutter DEF RioInv, Recorded
<1>7. CASE WritenFails
  <2>1. UNCHANGED wire /\ errno' \in {"none", "EINTR", "EIO"} /\ call.nleft > 0
    BY <1>2, <1>7 DEF WritenFails, Interrupted, Failed
  <2>2. CASE Continue(call)
    <3>1. UNCHANGED <<call, rest, sent, result>>
      BY <2>2 DEF Continue
    <3> QED BY <1>1, <1>2, <1>3, <2>1, <3>1, Retried
  <2>3. CASE errno' # "EINTR" /\ Return(-1, <<>>)
    <3>1. RioInv'
      BY <1>2, <1>3, <2>1, <2>3, ReturnInv
    <3>2. /\ result' = [op |-> "rio_writen", n |-> call.n, ret |-> -1, data |-> <<>>, err |-> errno']
          /\ sent' = wire
      BY <1>1, <2>1, <2>3 DEF Return
    <3>3. Simple!Fails("rio_writen", call.n)
      BY <2>1, <2>3, <3>2 DEF Simple!Fails, Simple!Errors
    <3>4. wire = sent \o Simple!Positions(call.n - call.nleft) /\ call.n - call.nleft \in 0 .. call.n - 1
      BY <1>1, <1>2, <2>1 DEF Simple!Positions
    <3>5. Simple!WriteFails(call.n)
      BY <1>4, <2>3, <3>2, <3>3, <3>4 DEF Simple!WriteFails
    <3> QED BY <1>1, <3>1, <3>5 DEF Simple!Next
  <2> QED BY <1>7, <2>2, <2>3 DEF WritenFails, Failed
<1> QED BY <1>5, <1>6, <1>7

\* A line without a newline is given back.
LEMMA ShortLine ==
  ASSUME RioInv, call.op = "rio_readlineb", UNCHANGED wire, NEW ret \in Nat, Return(ret, call.usrbuf),
         rest' \in Seq(Char), rest = call.usrbuf \o rest',
         Len(call.usrbuf) = call.n - 1 \/ rest' = <<>>,
         ret = IF Len(call.usrbuf) = 0 /\ call.n > 1 THEN 0 ELSE Len(call.usrbuf) + 1
  PROVE  Simple!Next
<1> DEFINE d == call.usrbuf
<1>1. d \in Seq(Char) /\ Len(d) \in Nat /\ call.n \in Nat /\ call.nleft \in Nat
  BY DEF RioInv, TypeOK
<1>2. Len(d) = call.n - 1 - call.nleft /\ \A i \in 1 .. Len(d) : d[i] # LineFeed
  BY DEF RioInv, Progress
<1>3. /\ Len(d) \in 0 .. Len(rest) /\ Simple!Upto(rest, Len(d)) = d /\ Simple!From(rest, Len(d)) = rest'
      /\ Len(d) = call.n - 1 \/ Len(d) = Len(rest)
  BY GivesFront
<1>4. /\ Len(d) < call.n
      /\ \A i \in 1 .. Len(d) - 1 : d[i] # LineFeed
      /\ Len(d) > 0 => d[Len(d)] # LineFeed
  <2> DEFINE k == Len(d)
  <2>1. k \in Nat /\ k = call.n - 1 - call.nleft /\ call.n \in Nat /\ call.nleft \in Nat
    BY <1>1, <1>2
  <2>2. \A i \in 1 .. k : d[i] # LineFeed
    BY <1>2
  <2> HIDE DEF k, d
  <2>3. k < call.n /\ (k > 0 => k \in 1 .. k) /\ \A i \in 1 .. k - 1 : i \in 1 .. k
    BY SMTT(20), <2>1
  <2> QED BY <2>2, <2>3 DEF k
<1> HIDE DEF d
<1>5. Return(ret, d) /\ ret = IF Len(d) = 0 /\ call.n > 1 THEN 0 ELSE Len(d) + 1
  BY DEF d
<1> QED BY <1>1, <1>3, <1>4, <1>5, ReadLineReturns

LEMMA RefillStep ==
  ASSUME RioInv, RefillData \/ RefillEOF \/ RefillFails
  PROVE  RioInv' /\ [Simple!Next]_(Simple!vars)
<1>1. /\ call.op \in Buffered /\ call.nleft > 0 /\ ~(rp.rio_cnt > 0) /\ UNCHANGED wire
      /\ Unread = <<>>
  BY DEF RefillData, RefillEOF, RefillFails, Wants, Running, Unread, RioInv, TypeOK
<1>2. /\ src \in Seq(Char) /\ call.usrbuf \in Seq(Char) /\ wire' \in Seq(Nat)
      /\ errno \in {"none", "EINTR", "EIO"} /\ call.n \in Nat /\ call.nleft \in Nat
      /\ rp \in [rio_cnt : -1 .. RIO_BUFSIZE, rio_bufptr : 1 .. RIO_BUFSIZE + 1, rio_buf : Seq(Char)]
      /\ RIO_BUFSIZE \in Nat \ {0}
  BY <1>1, SizesAssumption DEF RioInv, TypeOK
<1>3. rest = call.usrbuf \o src
  BY <1>1, <1>2, ConcatEmptySeq DEF RioInv, NoByteLost
<1>4. CASE RefillData
  <2>1. PICK k \in 1 .. Least(RIO_BUFSIZE, Len(src)) :
          /\ rp' = [rio_cnt |-> k, rio_bufptr |-> 1, rio_buf |-> SubSeq(src, 1, k)]
          /\ src' = SubSeq(src, k + 1, Len(src))
    BY <1>4 DEF RefillData
  <2>2. UNCHANGED <<wire, errno, call, rest, sent, result>>
    BY <1>4 DEF RefillData, Continue, Succeeded
  <2>3. k \in 0 .. Len(src) /\ k \in Nat /\ k <= RIO_BUFSIZE /\ k >= 1
    BY <1>2 DEF Least
  <2> DEFINE p == SubSeq(src, 1, k)
  <2>4. p \in Seq(Char) /\ src' \in Seq(Char) /\ Len(p) = k /\ p \o src' = src
    BY <1>2, <2>1, <2>3, Cut
  <2>5. rp' = [rio_cnt |-> k, rio_bufptr |-> 1, rio_buf |-> p]
    BY <2>1
  <2> HIDE DEF p
  <2>6. TypeOK' /\ BufferOK'
    <3>1. k \in -1 .. RIO_BUFSIZE /\ 1 \in 1 .. RIO_BUFSIZE + 1
      BY <1>2, <2>3
    <3>2. rp' \in [rio_cnt : -1 .. RIO_BUFSIZE, rio_bufptr : 1 .. RIO_BUFSIZE + 1, rio_buf : Seq(Char)]
      BY <2>4, <2>5, <3>1
    <3>3. TypeOK'
      BY <1>2, <2>2, <2>4, <3>2 DEF RioInv, TypeOK
    <3>4. rp'.rio_cnt = k /\ rp'.rio_bufptr = 1 /\ rp'.rio_buf = p
      BY <2>5
    <3>5. 1 + k = Len(p) + 1 /\ Len(p) <= RIO_BUFSIZE
      BY <2>3, <2>4
    <3> QED BY <3>3, <3>4, <3>5 DEF BufferOK
  <2>7. Unread' = p
    <3>1. Unread' = SubSeq(p, 1, 1 + k - 1) /\ 1 + k - 1 = Len(p)
      BY <2>3, <2>4, <2>5 DEF Unread
    <3>2. SubSeq(p, 1, Len(p)) = p
      BY <2>4, SubSeqFull
    <3> QED BY <3>1, <3>2
  <2>8. Progress'
    BY <1>1, <2>2 DEF RioInv, Progress, Buffered
  <2>9. NoByteLost'
    <3>1. (call.usrbuf \o p) \o src' = call.usrbuf \o (p \o src')
      <4>1. call.usrbuf \in Seq(Char) /\ p \in Seq(Char) /\ src' \in Seq(Char)
        BY <1>2, <2>4
      <4> QED BY <4>1, Joined
    <3> QED BY <1>3, <2>2, <2>4, <2>7, <3>1 DEF NoByteLost
  <2> QED BY <2>2, <2>6, <2>8, <2>9, Stutter DEF RioInv, Recorded
<1>5. ASSUME rp'.rio_cnt \in {0, -1}, rp' = [rp EXCEPT !.rio_cnt = rp'.rio_cnt]
      PROVE  /\ rp' \in [rio_cnt : -1 .. RIO_BUFSIZE, rio_bufptr : 1 .. RIO_BUFSIZE + 1, rio_buf : Seq(Char)]
             /\ BufferOK' /\ Unread' = <<>>
  BY <1>2, <1>5 DEF RioInv, BufferOK, Unread
<1>6. ASSUME UNCHANGED src, NEW ret, NEW d, Return(ret, d), Unread' = <<>>
      PROVE  rest' = src /\ rest = call.usrbuf \o rest'
  <2>1. rest' = Unread' \o src'
    BY <1>6 DEF Return, Unread
  <2> QED BY <2>1, <1>2, <1>3, <1>6, ConcatEmptySeq
<1>7. CASE RefillEOF
  <2>1. src = <<>> /\ rp' = [rp EXCEPT !.rio_cnt = 0] /\ UNCHANGED <<src, errno>>
    BY <1>7 DEF RefillEOF, Succeeded
  <2>2. rp'.rio_cnt = 0 /\ rp' = [rp EXCEPT !.rio_cnt = rp'.rio_cnt]
    BY <1>2, <2>1
  <2>3. CASE call.op = "rio_readnb"
    <3>1. Return(call.n - call.nleft, call.usrbuf)
      BY <1>7, <2>3 DEF RefillEOF
    <3>2. RioInv'
      BY <1>2, <1>5, <2>1, <2>2, <3>1, ReturnInv
    <3>3. Simple!Next
      BY <1>1, <1>2, <1>5, <1>6, <2>1, <2>2, <2>3, <3>1, ReadBytesReturns
    <3> QED BY <3>2, <3>3
  <2>4. CASE call.op # "rio_readnb"
    <3> DEFINE ret == IF call.usrbuf = <<>> THEN 0 ELSE Len(call.usrbuf) + 1
    <3>1. Return(ret, call.usrbuf) /\ call.op = "rio_readlineb"
      BY <1>1, <1>7, <2>4 DEF RefillEOF, Buffered
    <3>2. RioInv'
      BY <1>2, <1>5, <2>1, <2>2, <3>1, ReturnInv
    <3>3. Len(call.usrbuf) = call.n - 1 - call.nleft
      BY <3>1 DEF RioInv, Progress
    <3>4. ret \in Nat /\ ret = IF Len(call.usrbuf) = 0 /\ call.n > 1 THEN 0 ELSE Len(call.usrbuf) + 1
      <4> DEFINE u == Len(call.usrbuf)
                 n == call.n
                 nleft == call.nleft
      <4>1. u = n - 1 - nleft /\ n \in Nat /\ nleft \in Nat /\ nleft > 0 /\ u \in Nat
        BY <1>1, <1>2, <3>3
      <4>2. call.usrbuf = <<>> <=> u = 0
        BY <1>2, EmptySeq
      <4>3. ret = IF u = 0 THEN 0 ELSE u + 1
        BY <4>2
      <4> HIDE DEF u, n, nleft, ret
      <4>4. ret \in Nat /\ ret = IF u = 0 /\ n > 1 THEN 0 ELSE u + 1
        BY <4>1, <4>3
      <4> QED BY <4>4 DEF u, n
    <3>5. rest' = <<>> /\ rest' \in Seq(Char) /\ rest = call.usrbuf \o rest'
      BY <1>2, <1>5, <1>6, <2>1, <2>2, <3>1
    <3> HIDE DEF ret
    <3>6. Simple!Next
      BY <1>1, <3>1, <3>4, <3>5, ShortLine
    <3> QED BY <3>2, <3>6
  <2> QED BY <2>3, <2>4
<1>8. CASE RefillFails
  <2>1. /\ rp' = [rp EXCEPT !.rio_cnt = -1] /\ UNCHANGED src /\ errno' \in {"none", "EINTR", "EIO"}
    BY <1>8 DEF RefillFails, Interrupted, Failed
  <2>2. rp'.rio_cnt = -1 /\ rp' = [rp EXCEPT !.rio_cnt = rp'.rio_cnt]
    BY <1>2, <2>1
  <2>3. CASE Continue(call)
    <3>1. UNCHANGED <<call, rest, sent, result>>
      BY <2>3 DEF Continue
    <3> QED BY <1>1, <1>2, <1>5, <2>1, <2>2, <3>1, Retried
  <2>4. CASE errno' = "EIO" /\ Return(-1, <<>>)
    <3>1. RioInv'
      BY <1>2, <1>5, <2>1, <2>2, <2>4, ReturnInv
    <3>2. Simple!Next
      BY <1>1, <1>2, <1>5, <1>6, <2>1, <2>2, <2>4, ReadFailsReturns DEF Buffered
    <3> QED BY <3>1, <3>2
  <2> QED BY <1>8, <2>3, <2>4 DEF RefillFails, Failed
<1> QED BY <1>4, <1>7, <1>8

LEMMA CopyStep ==
  ASSUME RioInv, Copy
  PROVE  RioInv' /\ [Simple!Next]_(Simple!vars)
<1> DEFINE buf == rp.rio_buf
           ptr == rp.rio_bufptr
           cnt == rp.rio_cnt
           n == Copied
           bytes == SubSeq(buf, ptr, ptr + n - 1)
           left == SubSeq(buf, ptr + n, Len(buf))
           d == call.usrbuf \o bytes
<1>1. /\ call.op \in Buffered /\ call.nleft > 0 /\ cnt > 0
      /\ rp' = [rp EXCEPT !.rio_cnt = cnt - n, !.rio_bufptr = ptr + n]
      /\ UNCHANGED <<src, wire, errno>>
      /\ IF call.op = "rio_readlineb" /\ bytes = <<LineFeed>>
         THEN Return(Len(call.usrbuf) + 1, d)
         ELSE Continue([call EXCEPT !.nleft = call.nleft - n, !.usrbuf = d])
  BY DEF Copy, Wants, Running, Succeeded
<1>2. /\ src \in Seq(Char) /\ call.usrbuf \in Seq(Char) /\ wire' \in Seq(Nat)
      /\ errno' \in {"none", "EINTR", "EIO"} /\ call.n \in Nat /\ call.nleft \in Nat
      /\ buf \in Seq(Char) /\ ptr \in Nat /\ ptr >= 1 /\ cnt \in Nat
      /\ cnt <= RIO_BUFSIZE /\ RIO_BUFSIZE \in Nat
      /\ ptr + cnt = Len(buf) + 1 /\ Len(buf) <= RIO_BUFSIZE /\ Len(buf) \in Nat
      /\ Len(call.usrbuf) \in Nat
  BY SMTT(20), <1>1, SizesAssumption DEF RioInv, TypeOK, BufferOK
<1>3. /\ n \in Nat /\ n >= 1 /\ n <= cnt /\ n <= call.nleft
      /\ call.op = "rio_readlineb" => n = 1
  BY <1>1, <1>2 DEF Copied, Least
<1> HIDE DEF n
<1>4. /\ bytes \in Seq(Char) /\ left \in Seq(Char) /\ Len(bytes) = n
      /\ bytes \o left = SubSeq(buf, ptr, Len(buf))
  <2> DEFINE z == Len(buf)
             k == ptr + n - 1
  <2>1. /\ z \in Nat /\ k \in Nat /\ ptr \in 1 .. z + 1 /\ k \in ptr - 1 .. z /\ z \in k .. z
        /\ k + 1 = ptr + n /\ ptr <= k /\ k - ptr + 1 = n /\ k <= z
    <3>1. z \in Nat /\ ptr \in Nat /\ ptr >= 1 /\ cnt \in Nat /\ ptr + cnt = z + 1
      BY <1>2
    <3> HIDE DEF buf, ptr, cnt, z
    <3> QED BY <1>3, <3>1
  <2>2. \A i \in 1 .. z : buf[i] \in Char
    BY <1>2
  <2> HIDE DEF z, k
  <2>3. SubSeq(buf, ptr, k) \o SubSeq(buf, k + 1, z) = SubSeq(buf, ptr, z)
    BY <1>2, <2>1, ConcatAdjacentSubSeq DEF z
  <2>4. SubSeq(buf, ptr, k) \in Seq(Char) /\ Len(SubSeq(buf, ptr, k)) = IF ptr <= k THEN k - ptr + 1 ELSE 0
    <3>1. \A i \in ptr .. k : buf[i] \in Char
      BY <1>2, <2>1, <2>2
    <3>2. ptr \in Int /\ k \in Int
      BY <1>2, <2>1
    <3> HIDE DEF buf, ptr
    <3> QED BY <3>1, <3>2, SubSeqProperties
  <2>5. SubSeq(buf, k + 1, z) \in Seq(Char)
    <3>1. \A i \in k + 1 .. z : buf[i] \in Char
      BY <2>1, <2>2
    <3>2. k + 1 \in Int /\ z \in Int
      BY <2>1
    <3> HIDE DEF buf
    <3> QED BY <3>1, <3>2, SubSeqProperties
  <2>6. Len(SubSeq(buf, ptr, k)) = n
    BY <2>1, <2>4
  <2> QED BY <2>1, <2>3, <2>4, <2>5, <2>6 DEF z, k
<1>5. Unread = bytes \o left
  BY <1>1, <1>4, UnreadType
<1>6. Unread' = left
  <2>1. rp'.rio_buf = buf /\ rp'.rio_cnt = cnt - n /\ rp'.rio_bufptr = ptr + n
    BY <1>1 DEF RioInv, TypeOK
  <2>2. CASE cnt - n > 0
    <3>1. (ptr + n) + (cnt - n) - 1 = Len(buf)
      <4> DEFINE z == Len(buf)
      <4>1. ptr \in Nat /\ cnt \in Nat /\ z \in Nat /\ ptr + cnt = z + 1 /\ n \in Nat
        BY <1>2, <1>3
      <4> HIDE DEF buf, ptr, cnt, z
      <4>2. (ptr + n) + (cnt - n) - 1 = z
        BY <4>1
      <4> QED BY <4>2 DEF z
    <3> HIDE DEF buf, ptr, cnt
    <3> QED BY <2>1, <2>2, <3>1 DEF Unread
  <2>3. CASE ~(cnt - n > 0)
    <3>1. ptr + n \in Int /\ Len(buf) \in Int /\ Len(buf) < ptr + n
      BY <1>2, <1>3, <2>3
    <3>2. left = <<>>
      BY <3>1, SubSeqEmpty
    <3> HIDE DEF buf, ptr, cnt, left
    <3> QED BY <2>1, <2>3, <3>2 DEF Unread
  <2> QED BY <2>2, <2>3
<1>7. rp' \in [rio_cnt : -1 .. RIO_BUFSIZE, rio_bufptr : 1 .. RIO_BUFSIZE + 1, rio_buf : Seq(Char)] /\ BufferOK'
  <2>1. cnt - n \in -1 .. RIO_BUFSIZE /\ ptr + n \in 1 .. RIO_BUFSIZE + 1 /\ (ptr + n) + (cnt - n) = Len(buf) + 1
    <3> DEFINE z == Len(buf)
    <3>1. /\ ptr \in Nat /\ ptr >= 1 /\ cnt \in Nat /\ z \in Nat /\ RIO_BUFSIZE \in Nat
          /\ cnt <= RIO_BUFSIZE /\ ptr + cnt = z + 1 /\ z <= RIO_BUFSIZE
      BY <1>2
    <3>2. n \in Nat /\ n >= 1 /\ n <= cnt
      BY <1>3
    <3> HIDE DEF buf, ptr, cnt, z
    <3>3. cnt - n \in -1 .. RIO_BUFSIZE /\ ptr + n \in 1 .. RIO_BUFSIZE + 1 /\ (ptr + n) + (cnt - n) = z + 1
      BY <3>1, <3>2
    <3> QED BY <3>3 DEF z
  <2>2. rp' = [rio_cnt |-> cnt - n, rio_bufptr |-> ptr + n, rio_buf |-> buf]
    BY <1>1 DEF RioInv, TypeOK
  <2> HIDE DEF buf, ptr, cnt
  <2> QED BY <1>2, <2>1, <2>2 DEF BufferOK
<1>8. rest = (d \o left) \o src
  <2>1. call.usrbuf \in Seq(Char) /\ bytes \in Seq(Char) /\ left \in Seq(Char)
    BY <1>2, <1>4
  <2>2. call.usrbuf \o (bytes \o left) = (call.usrbuf \o bytes) \o left
    BY <2>1, Joined
  <2> QED BY <1>5, <2>2 DEF RioInv, NoByteLost
<1>9. d \in Seq(Char) /\ Len(d) = Len(call.usrbuf) + n
      /\ \A i \in 1 .. Len(d) : d[i] = IF i <= Len(call.usrbuf) THEN call.usrbuf[i] ELSE bytes[i - Len(call.usrbuf)]
  <2>1. call.usrbuf \in Seq(Char) /\ bytes \in Seq(Char) /\ Len(bytes) = n
    BY <1>2, <1>4
  <2> HIDE DEF bytes
  <2>2. /\ call.usrbuf \o bytes \in Seq(Char)
        /\ Len(call.usrbuf \o bytes) = Len(call.usrbuf) + Len(bytes)
        /\ \A i \in 1 .. Len(call.usrbuf) + Len(bytes) :
              (call.usrbuf \o bytes)[i] = IF i <= Len(call.usrbuf) THEN call.usrbuf[i]
                                         ELSE bytes[i - Len(call.usrbuf)]
    BY <2>1, ConcatProperties
  <2> QED BY <2>1, <2>2
<1> HIDE DEF bytes, left, buf, ptr, cnt
<1>10. CASE call.op = "rio_readlineb" /\ bytes = <<LineFeed>>
  <2>1. Return(Len(call.usrbuf) + 1, d)
    BY <1>1, <1>10
  <2>2. RioInv'
    BY <1>1, <1>2, <1>7, <2>1, ReturnInv
  <2>3. rest' = left \o src
    <3>1. rest' = Unread' \o src'
      BY <2>1 DEF Return, Unread
    <3> QED BY <1>1, <1>6, <3>1
  <2>4. rest' \in Seq(Char) /\ rest = d \o rest'
    <3>1. d \in Seq(Char) /\ left \in Seq(Char) /\ src \in Seq(Char)
      BY <1>2, <1>4, <1>9
    <3>2. (d \o left) \o src = d \o (left \o src)
      BY <3>1, Joined
    <3>3. left \o src \in Seq(Char)
      BY <3>1, ConcatProperties
    <3> QED BY <1>8, <2>3, <3>2, <3>3
  <2>5. /\ Len(d) \in 0 .. Len(rest)
        /\ Simple!Upto(rest, Len(d)) = d /\ Simple!From(rest, Len(d)) = rest'
    BY <1>9, <2>4, Pasted DEF Simple!Upto, Simple!From
  <2>6. /\ Len(call.usrbuf) = call.n - 1 - call.nleft
        /\ \A i \in 1 .. Len(call.usrbuf) : call.usrbuf[i] # LineFeed
    BY <1>10 DEF RioInv, Progress
  <2>7. Len(call.usrbuf) \in Nat /\ n = 1 /\ Len(d) = Len(call.usrbuf) + 1
    BY <1>2, <1>3, <1>9, <1>10
  <2>8. Len(d) < call.n /\ Len(d) > 0 /\ Len(call.usrbuf) + 1 \in Nat
    <3> DEFINE m == Len(d)
               u == Len(call.usrbuf)
    <3>1. m = u + 1 /\ u \in Nat /\ u = call.n - 1 - call.nleft
      BY <2>6, <2>7
    <3> HIDE DEF m, u
    <3>2. call.n \in Nat /\ call.nleft \in Nat /\ call.nleft > 0
      BY <1>1, <1>2
    <3>3. m < call.n /\ m > 0 /\ u + 1 \in Nat
      BY <3>1, <3>2
    <3> QED BY <3>3 DEF m, u
  <2>9. d[Len(d)] = LineFeed /\ \A i \in 1 .. Len(d) - 1 : d[i] # LineFeed
    <3>1. Len(d) \in 1 .. Len(d) /\ ~(Len(d) <= Len(call.usrbuf)) /\ Len(d) - Len(call.usrbuf) = 1
      BY <2>7
    <3>2. \A i \in 1 .. Len(d) - 1 : i \in 1 .. Len(d) /\ i <= Len(call.usrbuf) /\ i \in 1 .. Len(call.usrbuf)
      BY <2>7
    <3>3. bytes[1] = LineFeed
      BY <1>10
    <3> HIDE DEF d
    <3> QED BY <1>9, <2>6, <3>1, <3>2, <3>3
  <2> HIDE DEF d
  <2>10. Simple!Next
    BY <1>1, <1>9, <1>10, <2>1, <2>5, <2>7, <2>8, <2>9, ReadLineReturns
  <2> QED BY <2>2, <2>10
<1>11. CASE ~(call.op = "rio_readlineb" /\ bytes = <<LineFeed>>)
  <2>1. call' = [call EXCEPT !.nleft = call.nleft - n, !.usrbuf = d] /\ UNCHANGED <<rest, sent, result>>
    BY <1>1, <1>11 DEF Continue
  <2> HIDE DEF d
  <2>2. /\ call'.op = call.op /\ call'.n = call.n /\ call'.nleft = call.nleft - n /\ call'.usrbuf = d
        /\ call.nleft - n \in Nat
    <3>1. call \in [op : Buffered \cup {"none", "rio_readn", "rio_writen"}, n : Nat, nleft : Nat, usrbuf : Seq(Char)]
      BY DEF RioInv, TypeOK
    <3>2. /\ call'.op = call.op /\ call'.n = call.n /\ call'.nleft = call.nleft - n /\ call'.usrbuf = d
      BY <2>1, <3>1
    <3>3. call.nleft - n \in Nat
      BY <1>2, <1>3
    <3> QED BY <3>2, <3>3
  <2>3. TypeOK'
    BY <1>1, <1>2, <1>7, <1>9, <2>1, <2>2 DEF RioInv, TypeOK
  <2>4. Progress'
    <3>1. call.n \in Sizes /\ wire = sent /\ wire' = sent'
      BY <1>1, <2>1 DEF RioInv, Progress, Buffered
    <3>2. call.op = "rio_readnb" => Len(d) = call.n - (call.nleft - n)
      <4> DEFINE m == Len(d)
                 u == Len(call.usrbuf)
      <4>1. m = u + n /\ u \in Nat /\ (call.op = "rio_readnb" => u = call.n - call.nleft)
        BY <1>2, <1>9 DEF RioInv, Progress
      <4> HIDE DEF m, u
      <4>2. call.op = "rio_readnb" => m = call.n - (call.nleft - n)
        BY SMTT(20), <1>2, <1>3, <4>1
      <4> QED BY <4>2 DEF m
    <3>3. ASSUME call.op = "rio_readlineb"
          PROVE  Len(d) = call.n - 1 - (call.nleft - n) /\ \A i \in 1 .. Len(d) : d[i] # LineFeed
      <4>1. /\ Len(call.usrbuf) = call.n - 1 - call.nleft /\ Len(call.usrbuf) \in Nat
            /\ \A i \in 1 .. Len(call.usrbuf) : call.usrbuf[i] # LineFeed
        BY <1>2, <3>3 DEF RioInv, Progress
      <4>2. n = 1 /\ Len(bytes) = 1 /\ Len(d) = Len(call.usrbuf) + 1
        BY <1>3, <1>4, <1>9, <3>3
      <4>3. bytes[1] # LineFeed
        <5>1. bytes = <<bytes[1]>>
          BY <1>4, <4>2
        <5> QED BY <1>11, <3>3, <5>1
      <4>4. Len(d) = call.n - 1 - (call.nleft - n)
        <5> DEFINE m == Len(d)
                   u == Len(call.usrbuf)
        <5>1. m = u + 1 /\ u \in Nat /\ u = call.n - 1 - call.nleft /\ n = 1
          BY <4>1, <4>2
        <5> HIDE DEF m, u
        <5>2. call.n \in Nat /\ call.nleft \in Nat
          BY <1>2
        <5>3. m = call.n - 1 - (call.nleft - n)
          BY <5>1, <5>2
        <5> QED BY <5>3 DEF m
      <4>5. \A i \in 1 .. Len(d) : (i <= Len(call.usrbuf) /\ i \in 1 .. Len(call.usrbuf)) \/ (~(i <= Len(call.usrbuf)) /\ i - Len(call.usrbuf) = 1)
        BY <4>1, <4>2
      <4> QED BY <1>9, <4>1, <4>3, <4>4, <4>5
    <3> QED BY <1>1, <2>2, <3>1, <3>2, <3>3 DEF Progress, Buffered
  <2>5. NoByteLost'
    BY <1>1, <1>6, <1>8, <2>1, <2>2 DEF NoByteLost, d
  <2> QED BY <1>7, <2>1, <2>3, <2>4, <2>5, Stutter DEF RioInv, Recorded
<1> QED BY <1>10, <1>11

LEMMA BufferedDoneStep ==
  ASSUME RioInv, BufferedDone
  PROVE  RioInv' /\ [Simple!Next]_(Simple!vars)
<1>1. /\ call.op \in Buffered /\ call.nleft = 0 /\ UNCHANGED <<src, wire, rp, errno>>
      /\ Return(call.n, call.usrbuf)
  BY DEF BufferedDone, Running, Succeeded
<1>2. /\ src \in Seq(Char) /\ call.usrbuf \in Seq(Char) /\ wire' \in Seq(Nat)
      /\ errno' \in {"none", "EINTR", "EIO"} /\ call.n \in Nat
      /\ rp' \in [rio_cnt : -1 .. RIO_BUFSIZE, rio_bufptr : 1 .. RIO_BUFSIZE + 1, rio_buf : Seq(Char)]
  BY <1>1 DEF RioInv, TypeOK
<1>3. BufferOK' /\ Unread' = Unread /\ Unread \in Seq(Char)
  BY <1>1, UnreadType DEF RioInv, BufferOK, Unread
<1>4. RioInv'
  BY <1>1, <1>2, <1>3, ReturnInv
<1>5. rest' = Unread \o src
  <2>1. rest' = Unread' \o src'
    BY <1>1 DEF Return, Unread
  <2> QED BY <1>1, <1>3, <2>1
<1>6. rest' \in Seq(Char) /\ rest = call.usrbuf \o rest'
  <2>1. (call.usrbuf \o Unread) \o src = call.usrbuf \o (Unread \o src)
    BY <1>2, <1>3, Joined
  <2>2. Unread \o src \in Seq(Char)
    BY <1>2, <1>3, ConcatProperties
  <2> QED BY <1>5, <2>1, <2>2 DEF RioInv, NoByteLost
<1>7. CASE call.op = "rio_readnb"
  <2>1. call.n - call.nleft = call.n
    BY <1>1, <1>2
  <2>2. Return(call.n - call.nleft, call.usrbuf)
    BY <1>1, <2>1
  <2>3. Simple!Next
    BY <1>1, <1>6, <1>7, <2>2, ReadBytesReturns
  <2> QED BY <1>4, <2>3
<1>8. CASE call.op = "rio_readlineb"
  <2>1. Len(call.usrbuf) = call.n - 1 /\ Len(call.usrbuf) \in Nat
    BY <1>1, <1>2, <1>8 DEF RioInv, Progress
  <2>2. call.n = IF Len(call.usrbuf) = 0 /\ call.n > 1 THEN 0 ELSE Len(call.usrbuf) + 1
    BY <1>2, <2>1
  <2>3. Simple!Next
    BY <1>1, <1>2, <1>6, <1>8, <2>1, <2>2, ShortLine
  <2> QED BY <1>4, <2>3
<1> QED BY <1>1, <1>7, <1>8 DEF Buffered

LEMMA RioStep ==
  ASSUME RioInv, [Next]_vars
  PROVE  RioInv' /\ [Simple!Next]_(Simple!vars)
<1>1. CASE UNCHANGED vars
  <2>1. UNCHANGED <<src, wire, rp, call, errno, rest, sent, result>>
    BY <1>1 DEF vars
  <2>2. rp \in [rio_cnt : -1 .. RIO_BUFSIZE, rio_bufptr : 1 .. RIO_BUFSIZE + 1, rio_buf : Seq(Char)]
    BY DEF RioInv, TypeOK
  <2>3. errno \in {"none", "EINTR", "EIO"} /\ BufferOK' /\ Unread' = Unread
    BY <2>1 DEF RioInv, TypeOK, BufferOK, Unread
  <2> QED BY <2>1, <2>2, <2>3, Retried
<1>2. CASE Call
  BY <1>2, CallStep
<1>3. CASE ReadnDone \/ ReadnData \/ ReadnEOF \/ ReadnFails
  BY <1>3, ReadnStep
<1>4. CASE WritenDone \/ WritenData \/ WritenFails
  BY <1>4, WritenStep
<1>5. CASE RefillData \/ RefillEOF \/ RefillFails
  BY <1>5, RefillStep
<1>6. CASE Copy
  BY <1>6, CopyStep
<1>7. CASE BufferedDone
  BY <1>7, BufferedDoneStep
<1> QED BY <1>1, <1>2, <1>3, <1>4, <1>5, <1>6, <1>7 DEF Next, Step

-----------------------------------------------------------------------------
\* The inductive invariant of rio_readn, rio_writen and rio_read with their
\* buffer holds of every behaviour.
THEOREM RioSafe == Spec => []RioInv
<1>1. RioInv /\ [Next]_vars => RioInv'
  BY RioStep
<1> QED BY InitInv, <1>1, PTL DEF Spec

\* Whatever is cut short, interrupted or fails, rio_read's buffer skips and
\* repeats no byte.
THEOREM NoByteIsLost == Spec => []NoByteLost
<1>1. RioInv => NoByteLost
  BY DEF RioInv
<1> QED BY RioSafe, <1>1, PTL

\* Every call of the package is one step of the abstract Stream.
THEOREM RioImplementsStream == Spec => ImplementsStream
<1>1. Init => Simple!Init
  BY DEF Init, Simple!Init
<1>2. RioInv /\ [Next]_vars => [Simple!Next]_(Simple!vars)
  BY RioStep
<1> QED BY RioSafe, <1>1, <1>2, PTL DEF Spec, ImplementsStream, Simple!Spec
=============================================================================
