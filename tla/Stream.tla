------------------------------- MODULE Stream -------------------------------
(***************************************************************************)
(* What the Rio package promises its caller, one step per call: reads hand *)
(* out successive pieces of the input, as long as asked for or up to the   *)
(* end of a line or of the input; a write puts out everything.  Only an    *)
(* error other than an interrupted system call ends a call early, and what *)
(* it had moved by then is gone for the caller.                            *)
(***************************************************************************)
EXTENDS Integers, Sequences

CONSTANTS Inputs, Sizes, LineFeed

\* errno after a failed call: an interrupted system call is never the reason.
Errors == {"none", "EIO"}

VARIABLES
  rest,     \* the input not yet handed out
  wire,     \* the output: positions in the buffers that were written
  result    \* the last call: its name, its size, what it returned and gave

vars == <<rest, wire, result>>

Init ==
  /\ rest \in Inputs
  /\ wire = <<>>
  /\ result = [op |-> "none", n |-> 0, ret |-> 0, data |-> <<>>, err |-> "none"]

Upto(s, k) == SubSeq(s, 1, k)
From(s, k) == SubSeq(s, k + 1, Len(s))
Positions(n) == [i \in 1 .. n |-> i]

Returns(op, n, ret, data) == result' = [op |-> op, n |-> n, ret |-> ret, data |-> data, err |-> "none"]
Fails(op, n) == \E err \in Errors : result' = [op |-> op, n |-> n, ret |-> -1, data |-> <<>>, err |-> err]

ReadBytes(op, n) ==
  LET k == IF n < Len(rest) THEN n ELSE Len(rest) IN
    /\ Returns(op, n, k, Upto(rest, k))
    /\ rest' = From(rest, k)
    /\ UNCHANGED wire

\* The line is the shortest piece that ends in a newline, fills the buffer but
\* for its terminating zero, or is all there is.  A line without a newline is
\* counted one byte too long; nothing but 0 tells the end of the input.
ReadLine(maxlen) ==
  \E k \in 0 .. Len(rest) :
    LET ends == k > 0 /\ rest[k] = LineFeed IN
    /\ k < maxlen
    /\ \A i \in 1 .. k - 1 : rest[i] # LineFeed
    /\ ends \/ k = maxlen - 1 \/ k = Len(rest)
    /\ Returns("rio_readlineb", maxlen,
               IF ends THEN k ELSE IF k = 0 /\ maxlen > 1 THEN 0 ELSE k + 1, Upto(rest, k))
    /\ rest' = From(rest, k)
    /\ UNCHANGED wire

ReadFails(op, n) ==
  /\ \E k \in 0 .. Len(rest) : k <= n /\ rest' = From(rest, k)
  /\ Fails(op, n)
  /\ UNCHANGED wire

Write(n) ==
  /\ wire' = wire \o Positions(n)
  /\ Returns("rio_writen", n, n, <<>>)
  /\ UNCHANGED rest

WriteFails(n) ==
  /\ \E k \in 0 .. n - 1 : wire' = wire \o Positions(k)
  /\ Fails("rio_writen", n)
  /\ UNCHANGED rest

Next ==
  \E n \in Sizes :
    \/ \E op \in {"rio_readn", "rio_readnb"} : ReadBytes(op, n)
    \/ ReadLine(n)
    \/ \E op \in {"rio_readn", "rio_readnb", "rio_readlineb"} : ReadFails(op, n)
    \/ Write(n) \/ WriteFails(n)

Spec == Init /\ [][Next]_vars
=============================================================================
