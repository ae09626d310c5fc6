----------------------------- MODULE ForkServer -----------------------------
(***************************************************************************)
(* exam/libevent/rot13_fork_1st.cpp: the parent accepts a connection and   *)
(* forks a child that serves it with blocking calls, a byte at a time, and *)
(* replies to each line after rot13.  The parent keeps the descriptor of   *)
(* every connection it accepted.  A step is one system call of the parent  *)
(* or of a child; a send() that has to wait for room goes on in steps.     *)
(***************************************************************************)
EXTENDS Sockets

CONSTANTS
  OUTBUF,       \* sizeof(outbuf), which is MAX_LINE + 1
  ForkFails     \* whether fork() may fail

ASSUME ForkServerAssumption == OUTBUF \in Nat \ {0} /\ ForkFails \in BOOLEAN

VARIABLES
  outbuf,    \* outbuf[c]: the child's buffer, its first outbuf_used bytes
  sending,   \* sending[c]: the child is in send()
  done       \* done[c]: how many bytes of outbuf that send() has queued

forkVars == <<sockets, outbuf, sending, done>>
buffers == <<outbuf, sending, done>>

ForkServer == program = "rot13_fork_1st"

BuffersInit ==
  /\ outbuf = [c \in Connections |-> <<>>]
  /\ sending = [c \in Connections |-> FALSE]
  /\ done = [c \in Connections |-> 0]

\* 0 .. 2 and the listener aside, the parent holds one descriptor for every
\* connection it ever accepted.
Held == Cardinality({c \in Connections : phase[c] \notin {"idle", "backlog"}})

\* accept() fails once nofile descriptors are held; the loop then calls it
\* again at once.  A connection whose fork() fails is kept but never served.
ForkAccept(c) ==
  /\ ForkServer /\ phase[c] = "backlog"
  /\ Held < nofile - 1
  /\ \/ phase' = [phase EXCEPT ![c] = "served"]
     \/ ForkFails /\ phase' = [phase EXCEPT ![c] = "unserved"]
  /\ UNCHANGED <<program, nofile, request, taken, shut, reset, reply, got, buffers>>

Reading(c) == ForkServer /\ phase[c] = "served" /\ ~sending[c]

\* A byte is stored while there is room in outbuf, and dropped after; a
\* newline, stored or not, starts send().
ChildRecv(c) ==
  /\ Reading(c) /\ ~reset[c] /\ Available(c) > 0
  /\ LET ch == Received(c, 1)[1] IN
       /\ outbuf' = [outbuf EXCEPT ![c] = IF Len(@) < OUTBUF THEN Append(@, rot13_char(ch)) ELSE @]
       /\ sending' = [sending EXCEPT ![c] = (ch = NewLine)]
  /\ taken' = [taken EXCEPT ![c] = @ + 1]
  /\ UNCHANGED <<program, nofile, phase, request, shut, reset, reply, got, done>>

\* Mutant: the end of the stream is seen before the bytes before it.
ChildEndEarly(c) ==
  /\ Reading(c) /\ (reset[c] \/ shut[c])
  /\ phase' = [phase EXCEPT ![c] = "exited"]
  /\ outbuf' = [outbuf EXCEPT ![c] = <<>>]
  /\ UNCHANGED <<program, nofile, request, taken, shut, reset, reply, got, sending, done>>

\* recv() returns 0 or -1: the child exits and what it has stored is gone.
ChildEnd(c) ==
  /\ Reading(c) /\ (reset[c] \/ AtEnd(c))
  /\ phase' = [phase EXCEPT ![c] = "exited"]
  /\ outbuf' = [outbuf EXCEPT ![c] = <<>>]
  /\ UNCHANGED <<program, nofile, request, taken, shut, reset, reply, got, sending, done>>

\* send() has queued everything, or the connection failed: its result is not
\* looked at, and outbuf_used is 0 again.
SendReturns(c) ==
  /\ sending' = [sending EXCEPT ![c] = FALSE]
  /\ outbuf' = [outbuf EXCEPT ![c] = <<>>]
  /\ done' = [done EXCEPT ![c] = 0]

\* Mutant: send() is taken for done after what found room.
ChildSendShort(c) ==
  /\ sending[c] /\ ~reset[c] /\ RoomTo(c) > 0
  /\ LET n == Min({RoomTo(c), Len(outbuf[c]) - done[c]}) IN Queue(c, SubSeq(outbuf[c], done[c] + 1, done[c] + n))
  /\ SendReturns(c)
  /\ UNCHANGED <<program, nofile, phase, request, taken, shut, reset, got>>

\* Mutant: the children take turns, as if one buffer served them all.
ChildSendInTurn(c) ==
  /\ sending[c] /\ ~reset[c] /\ RoomTo(c) > 0
  /\ \A d \in Connections \ {c} : done[d] = 0
  /\ LET n == Min({RoomTo(c), Len(outbuf[c]) - done[c]}) IN
       /\ Queue(c, SubSeq(outbuf[c], done[c] + 1, done[c] + n))
       /\ IF done[c] + n = Len(outbuf[c]) THEN SendReturns(c)
          ELSE done' = [done EXCEPT ![c] = @ + n] /\ UNCHANGED <<outbuf, sending>>
  /\ UNCHANGED <<program, nofile, phase, request, taken, shut, reset, got>>

ChildSend(c) ==
  /\ sending[c] /\ ~reset[c] /\ RoomTo(c) > 0
  /\ LET n == Min({RoomTo(c), Len(outbuf[c]) - done[c]}) IN
       /\ Queue(c, SubSeq(outbuf[c], done[c] + 1, done[c] + n))
       /\ IF done[c] + n = Len(outbuf[c]) THEN SendReturns(c)
          ELSE done' = [done EXCEPT ![c] = @ + n] /\ UNCHANGED <<outbuf, sending>>
  /\ UNCHANGED <<program, nofile, phase, request, taken, shut, reset, got>>

ChildSendFails(c) ==
  /\ sending[c] /\ reset[c]
  /\ SendReturns(c)
  /\ UNCHANGED sockets

Child(c) == ChildRecv(c) \/ ChildEnd(c) \/ ChildSend(c) \/ ChildSendFails(c)

ForkNext ==
  \/ Clients /\ UNCHANGED buffers
  \/ \E c \in Connections : ForkAccept(c) \/ Child(c)

ForkInit == SocketsInit /\ ForkServer /\ BuffersInit

ForkSpec == ForkInit /\ [][ForkNext]_forkVars

\* Each child is a process of its own.
ForkFair == \A c \in Connections : WF_forkVars(Child(c))

(***************************************************************************)
(* Properties.                                                             *)
(***************************************************************************)
Unsent(c) == SubSeq(outbuf[c], done[c] + 1, Len(outbuf[c]))

\* Every step of the parent and its children is a step of LineEcho or none:
\* each reply is the rot13 of what its own client wrote, in order, and no
\* further than the last newline read, although all children share one text.
\* An aborted connection with nothing stored has ended, read or not.  What the
\* servers of BuffereventServer do is not seen.
Seen(f, none) == [c \in Connections |-> IF ForkServer THEN f[c] ELSE none]
ForkEcho == INSTANCE LineEcho WITH
  Conns <- Connections, Bytes <- Letters, sent <- request, taken <- Seen(taken, 0), out <- Seen(reply, <<>>),
  kept <- Seen([c \in Connections |-> reply[c] \o Unsent(c)], <<>>),
  commit <- Seen([c \in Connections |-> Len(reply[c]) + IF sending[c] THEN Len(Unsent(c)) ELSE 0], 0),
  ended <- [c \in Connections |-> phase[c] = "exited" \/ (reset[c] /\ outbuf[c] = <<>>)]

ForkImplementsLineEcho == ForkEcho!Spec

\* A client that half-closes gets the reply to every line it completed, if its
\* lines fit the buffer: the child is out of send() before it sees the end.
Fits(c) == \A j \in 1 .. Len(request[c]) - OUTBUF + 1 :
             \E k \in j .. j + OUTBUF - 1 : request[c][k] = NewLine
HalfCloseGetsAll ==
  \A c \in Connections : phase[c] = "exited" /\ ~reset[c] /\ Fits(c) =>
    reply[c] = Rot13Of(WholeLines(request[c]))

\* A line that a child has read is answered if its own client reads, whether
\* or not the clients of other children do.
LineAnsweredAlone ==
  \A c \in Connections : WF_got(ClientReads(c)) => (sending[c] ~> ~sending[c])
=============================================================================
