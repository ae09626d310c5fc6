------------------------------- MODULE Rot13 -------------------------------
(***************************************************************************)
(* The character conversion every rot13 server of the repository applies   *)
(* (util/TinyServer.cpp and the three servers under exam/libevent).  A     *)
(* byte is its code, 0..255; only the ASCII letters move.                  *)
(***************************************************************************)
EXTENDS Integers, Sequences

Byte == 0 .. 255
NewLine == 10

FirstHalf  == (97 .. 109) \cup (65 .. 77)     \* a..m, A..M
SecondHalf == (110 .. 122) \cup (78 .. 90)    \* n..z, N..Z

rot13_char(c) ==
  IF c \in FirstHalf THEN c + 13 ELSE IF c \in SecondHalf THEN c - 13 ELSE c

Rot13Of(s) == [j \in 1 .. Len(s) |-> rot13_char(s[j])]
=============================================================================
