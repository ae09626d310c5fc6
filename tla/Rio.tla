-------------------------------- MODULE Rio --------------------------------
(***************************************************************************)
(* The robust I/O package: rio_readn and rio_writen over read(2) and       *)
(* write(2), and rio_readnb and rio_readlineb over rio_read, which keeps   *)
(* unread bytes in rio_buf.  A step is one system call, or one transfer    *)
(* from the internal buffer.  A system call may move fewer bytes than      *)
(* asked, be interrupted by a signal, or fail.                             *)
(***************************************************************************)
EXTENDS Integers, Sequences

CONSTANTS
  Inputs,        \* what the peer may have sent before it closed
  LineFeed,
  Sizes,         \* the sizes callers pass, at least 1
  RIO_BUFSIZE,
  MaxCalls, MaxSignals, MaxErrors   \* bounds on a behaviour

Char == 0 .. 255
ASSUME InputsAssumption == Inputs \subseteq Seq(Char)
ASSUME SizesAssumption ==
  /\ Sizes \subseteq Nat \ {0}
  /\ RIO_BUFSIZE \in Nat \ {0}
  /\ MaxCalls \in Nat /\ MaxSignals \in Nat /\ MaxErrors \in Nat

VARIABLES
  src,       \* what the kernel still holds for the descriptor
  wire,      \* what was written: positions in the callers' buffers
  rp,        \* the rio_t: [rio_cnt, rio_bufptr, rio_buf]
  call,      \* the call that runs: [op, n, nleft, usrbuf], op "none" between calls
  errno,
  calls, signals, errors,
  rest,      \* history: the input not handed out by a finished call
  sent,      \* history: wire as it was when no call was running
  result     \* the last finished call

vars == <<src, wire, rp, call, errno, calls, signals, errors, rest, sent, result>>

NoCall == [op |-> "none", n |-> 0, nleft |-> 0, usrbuf |-> <<>>]

Init ==
  /\ src \in Inputs
  /\ wire = <<>>
  /\ rp = [rio_cnt |-> 0, rio_bufptr |-> 1, rio_buf |-> <<>>]
  /\ call = NoCall
  /\ errno = "none"
  /\ calls = 0 /\ signals = 0 /\ errors = 0
  /\ rest = src /\ sent = wire
  /\ result = [op |-> "none", n |-> 0, ret |-> 0, data |-> <<>>, err |-> "none"]

Least(i, j) == IF i < j THEN i ELSE j
Unread == IF rp.rio_cnt > 0 THEN SubSeq(rp.rio_buf, rp.rio_bufptr, rp.rio_bufptr + rp.rio_cnt - 1) ELSE <<>>
Running(ops) == call.op \in ops
Buffered == {"rio_readnb", "rio_readlineb"}

\* A caller that reads line by line or in buffered pieces does not read the
\* descriptor behind the buffer's back.
Call ==
  /\ call = NoCall /\ calls < MaxCalls
  /\ calls' = calls + 1
  /\ \E n \in Sizes, op \in Buffered \cup {"rio_writen"} \cup IF Unread = <<>> THEN {"rio_readn"} ELSE {} :
       call' = [op |-> op, n |-> n, nleft |-> IF op = "rio_readlineb" THEN n - 1 ELSE n, usrbuf |-> <<>>]
  /\ UNCHANGED <<src, wire, rp, errno, signals, errors, rest, sent, result>>

Return(ret, data) ==
  /\ call' = NoCall
  /\ result' = [op |-> call.op, n |-> call.n, ret |-> ret, data |-> data, err |-> IF ret = -1 THEN errno' ELSE "none"]
  /\ rest' = (IF rp'.rio_cnt > 0 THEN SubSeq(rp'.rio_buf, rp'.rio_bufptr, rp'.rio_bufptr + rp'.rio_cnt - 1) ELSE <<>>) \o src'
  /\ sent' = wire'

Continue(c) == call' = c /\ UNCHANGED <<rest, sent, result>>

\* A system call that fails with EINTR is made again; one that fails otherwise ends the call.
Interrupted == signals < MaxSignals /\ signals' = signals + 1 /\ errno' = "EINTR" /\ UNCHANGED errors
Failed == errors < MaxErrors /\ errors' = errors + 1 /\ errno' = "EIO" /\ UNCHANGED signals
Succeeded == UNCHANGED <<errno, signals, errors>>

(***************************************************************************)
(* rio_readn                                                               *)
(***************************************************************************)
ReadnDone ==
  /\ Running({"rio_readn"}) /\ call.nleft = 0
  /\ Succeeded /\ UNCHANGED <<src, wire, rp, calls>>
  /\ Return(call.n, call.usrbuf)

ReadnData ==
  /\ Running({"rio_readn"}) /\ call.nleft > 0
  /\ \E k \in 1 .. Least(call.nleft, Len(src)) :
       /\ src' = SubSeq(src, k + 1, Len(src))
       /\ Continue([call EXCEPT !.nleft = @ - k, !.usrbuf = @ \o SubSeq(src, 1, k)])
  /\ Succeeded /\ UNCHANGED <<wire, rp, calls>>

ReadnEOF ==
  /\ Running({"rio_readn"}) /\ call.nleft > 0 /\ src = <<>>
  /\ Succeeded /\ UNCHANGED <<src, wire, rp, calls>>
  /\ Return(call.n - call.nleft, call.usrbuf)

\* Mutant: an interrupted read ends the call.
ReadnFailsInterrupted ==
  /\ Running({"rio_readn"}) /\ call.nleft > 0
  /\ UNCHANGED <<src, wire, rp, calls>>
  /\ Interrupted \/ Failed
  /\ Return(-1, <<>>)

ReadnFails ==
  /\ Running({"rio_readn"}) /\ call.nleft > 0
  /\ UNCHANGED <<src, wire, rp, calls>>
  /\ \/ Interrupted /\ Continue(call)
     \/ Failed /\ Return(-1, <<>>)

(***************************************************************************)
(* rio_writen.  write(2) may also return 0 and leave errno as it was.      *)
(***************************************************************************)
WritenDone ==
  /\ Running({"rio_writen"}) /\ call.nleft = 0
  /\ Succeeded /\ UNCHANGED <<src, wire, rp, calls>>
  /\ Return(call.n, <<>>)

WritenData ==
  /\ Running({"rio_writen"}) /\ call.nleft > 0
  /\ \E k \in 1 .. call.nleft :
       /\ wire' = wire \o [i \in 1 .. k |-> call.n - call.nleft + i]
       /\ Continue([call EXCEPT !.nleft = @ - k])
  /\ Succeeded /\ UNCHANGED <<src, rp, calls>>

WritenFails ==
  /\ Running({"rio_writen"}) /\ call.nleft > 0
  /\ UNCHANGED <<src, wire, rp, calls>>
  /\ \/ Interrupted /\ Continue(call)
     \/ Failed /\ Return(-1, <<>>)
     \/ /\ errors < MaxErrors /\ errors' = errors + 1 /\ UNCHANGED <<errno, signals>>
        /\ IF errno = "EINTR" THEN Continue(call) ELSE Return(-1, <<>>)

(***************************************************************************)
(* rio_read: refill while the buffer is empty, then copy.                  *)
(***************************************************************************)
Wants == Running(Buffered) /\ call.nleft > 0

RefillData ==
  /\ Wants /\ rp.rio_cnt <= 0
  /\ \E k \in 1 .. Least(RIO_BUFSIZE, Len(src)) :
       /\ rp' = [rio_cnt |-> k, rio_bufptr |-> 1, rio_buf |-> SubSeq(src, 1, k)]
       /\ src' = SubSeq(src, k + 1, Len(src))
  /\ Continue(call) /\ Succeeded /\ UNCHANGED <<wire, calls>>

\* Mutant: the end of the input is read again.
RefillEOFAgain ==
  /\ Wants /\ rp.rio_cnt <= 0 /\ src = <<>>
  /\ rp' = [rp EXCEPT !.rio_cnt = 0]
  /\ Continue(call) /\ Succeeded /\ UNCHANGED <<src, wire, calls>>

\* The end of the input: 0 from rio_read.
RefillEOF ==
  /\ Wants /\ rp.rio_cnt <= 0 /\ src = <<>>
  /\ rp' = [rp EXCEPT !.rio_cnt = 0]
  /\ Succeeded /\ UNCHANGED <<src, wire, calls>>
  /\ IF call.op = "rio_readnb"
     THEN Return(call.n - call.nleft, call.usrbuf)
     ELSE Return(IF call.usrbuf = <<>> THEN 0 ELSE Len(call.usrbuf) + 1, call.usrbuf)

\* rio_cnt is left at -1; the next refill tests for <= 0.
RefillFails ==
  /\ Wants /\ rp.rio_cnt <= 0
  /\ rp' = [rp EXCEPT !.rio_cnt = -1]
  /\ UNCHANGED <<src, wire, calls>>
  /\ \/ Interrupted /\ Continue(call)
     \/ Failed /\ Return(-1, <<>>)

\* min(n, rio_cnt) bytes; rio_readlineb asks for one at a time.
Copied == IF call.op = "rio_readnb" THEN Least(call.nleft, rp.rio_cnt) ELSE 1

\* Mutant: rio_bufptr stays where it is.
CopyStuck ==
  /\ Wants /\ rp.rio_cnt > 0
  /\ LET bytes == SubSeq(rp.rio_buf, rp.rio_bufptr, rp.rio_bufptr + Copied - 1) IN
       /\ rp' = [rp EXCEPT !.rio_cnt = @ - Copied]
       /\ Succeeded /\ UNCHANGED <<src, wire, calls>>
       /\ IF call.op = "rio_readlineb" /\ bytes = <<LineFeed>>
          THEN Return(Len(call.usrbuf) + 1, call.usrbuf \o bytes)
          ELSE Continue([call EXCEPT !.nleft = @ - Copied, !.usrbuf = @ \o bytes])

Copy ==
  /\ Wants /\ rp.rio_cnt > 0
  /\ LET bytes == SubSeq(rp.rio_buf, rp.rio_bufptr, rp.rio_bufptr + Copied - 1) IN
       /\ rp' = [rp EXCEPT !.rio_cnt = @ - Copied, !.rio_bufptr = @ + Copied]
       /\ Succeeded /\ UNCHANGED <<src, wire, calls>>
       /\ IF call.op = "rio_readlineb" /\ bytes = <<LineFeed>>
          THEN Return(Len(call.usrbuf) + 1, call.usrbuf \o bytes)
          ELSE Continue([call EXCEPT !.nleft = @ - Copied, !.usrbuf = @ \o bytes])

\* The buffer of the caller is full.
BufferedDone ==
  /\ Running(Buffered) /\ call.nleft = 0
  /\ Succeeded /\ UNCHANGED <<src, wire, rp, calls>>
  /\ Return(call.n, call.usrbuf)

Step ==
  \/ ReadnDone \/ ReadnData \/ ReadnEOF \/ ReadnFails
  \/ WritenDone \/ WritenData \/ WritenFails
  \/ RefillData \/ RefillEOF \/ RefillFails \/ Copy \/ BufferedDone

Next == Call \/ Step

Spec == Init /\ [][Next]_vars

\* The caller's thread runs; signals and errors do not go on for ever.
RioFair == WF_vars(Step)
FairSpec == Spec /\ RioFair

(***************************************************************************)
(* Properties.                                                             *)
(***************************************************************************)
\* The types of what the kernel holds, of the rio_t and of the running call.
TypeOK ==
  /\ src \in Seq(Char) /\ wire \in Seq(Nat)
  /\ rp \in [rio_cnt : -1 .. RIO_BUFSIZE, rio_bufptr : 1 .. RIO_BUFSIZE + 1, rio_buf : Seq(Char)]
  /\ call \in [op : Buffered \cup {"none", "rio_readn", "rio_writen"}, n : Nat, nleft : Nat, usrbuf : Seq(Char)]
  /\ errno \in {"none", "EINTR", "EIO"}

\* At any moment, what finished calls have not handed out is what the running
\* call has in the user's buffer, then what is unread in rio_buf, then what
\* the kernel holds: no byte is skipped, repeated or read behind the end of
\* rio_buf, whatever is cut short, interrupted or fails.
NoByteLost == rest = call.usrbuf \o Unread \o src

\* Every call is one step of Stream: full pieces, whole lines, whole writes,
\* a short count only at the end of the input, -1 only for a real error.
Simple == INSTANCE Stream WITH wire <- sent
ImplementsStream == Simple!Spec

\* Every call returns: neither an interrupted call nor an empty buffer is
\* retried without end.
CallsReturn == call # NoCall ~> call = NoCall
=============================================================================
