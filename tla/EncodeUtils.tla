----------------------------- MODULE EncodeUtils -----------------------------
(***************************************************************************)
(* The codecs written out in src/java/account/common/src/main/java/com/    *)
(* github/walterfan/util/EncodeUtils.java.  A Java string is the sequence  *)
(* of its UTF-16 code units, a byte is a number of 0..255.  A call that    *)
(* throws returns Thrown.                                                  *)
(***************************************************************************)
EXTENDS Integers, Sequences, SequencesExt

Backslash == 92
CodeUnit  == {c \in Nat : c < 65536}

\* No string: what a call that throws leaves.
Thrown == << -1 >>

\* The value of a hexadecimal digit of either case, 16 for anything else.
DigitValue(c) ==
  CASE c \in 48 .. 57  -> c - 48
    [] c \in 65 .. 70  -> c - 55
    [] c \in 97 .. 102 -> c - 87
    [] OTHER           -> 16

IsHex(s) == \A i \in DOMAIN s : DigitValue(s[i]) < 16

UpperDigit(n) == IF n < 10 THEN 48 + n ELSE 55 + n
LowerDigit(n) == IF n < 10 THEN 48 + n ELSE 87 + n

\* Two capital digits for each byte.
byte2Hex(b) ==
  [i \in 1 .. 2 * Len(b) |->
     UpperDigit(IF i % 2 = 1 THEN b[(i + 1) \div 2] \div 16 ELSE b[i \div 2] % 16)]

\* An odd number of characters, or a character that is no digit, throws.
hex2Byte(hex) ==
  IF Len(hex) % 2 # 0 \/ ~ IsHex(hex)
  THEN Thrown
  ELSE [i \in 1 .. Len(hex) \div 2 |-> 16 * DigitValue(hex[2 * i - 1]) + DigitValue(hex[2 * i])]

\* Mutant: the digits are not padded with zeros to four.
EscapeShort(c) ==
  IF c <= 126
  THEN << c >>
  ELSE LET n == CHOOSE n \in 1 .. 4 : c < 16 ^ n /\ c >= 16 ^ (n - 1)
       IN  << Backslash, 117 >> \o [i \in 1 .. n |-> LowerDigit((c \div 16 ^ (n - i)) % 16)]

\* A code unit beyond '~' becomes \u and four digits.
Escape(c) ==
  IF c <= 126
  THEN << c >>
  ELSE << Backslash, 117, LowerDigit(c \div 4096), LowerDigit((c \div 256) % 16),
          LowerDigit((c \div 16) % 16), LowerDigit(c % 16) >>

native2ascii(input) == FlattenSeq([i \in DOMAIN input |-> Escape(input[i])])

\* What the character after a backslash stands for, \u apart.
Control(c) ==
  CASE c = 102 -> 12      \* \f
    [] c = 110 -> 10      \* \n
    [] c = 114 -> 13      \* \r
    [] c = 116 -> 9       \* \t
    [] OTHER   -> c

HexValue(h) ==
  4096 * DigitValue(h[1]) + 256 * DigitValue(h[2]) + 16 * DigitValue(h[3]) + DigitValue(h[4])

\* A text before what follows it, which may throw.
Glue(s, t) == IF t = Thrown THEN Thrown ELSE s \o t

\* The loop of ascii2native: what character i gives, before what the characters
\* after it give.  Backslashes that stand alone at the end are dropped, a \u
\* without four digits throws (the sign that parseInt would take as the first
\* of them is left out).
Onward(input, from, i) ==
  LET n == Len(input)
  IN  CASE i > n -> << >>
        [] i <= n /\ input[i] # Backslash -> Glue(<< input[i] >>, from[i + 1])
        [] i = n /\ input[i] = Backslash -> << >>
        [] i < n /\ input[i] = Backslash /\ input[i + 1] # 117 ->
             Glue(<< Control(input[i + 1]) >>, from[i + 2])
        [] i < n /\ input[i] = Backslash /\ input[i + 1] = 117 ->
             IF i + 5 <= n /\ IsHex(SubSeq(input, i + 2, i + 5))
             THEN Glue(<< HexValue(SubSeq(input, i + 2, i + 5)) >>, from[i + 6])
             ELSE Thrown

ascii2native(input) ==
  LET from[i \in 1 .. Len(input) + 1] == Onward(input, from, i)
  IN  from[1]
=============================================================================
