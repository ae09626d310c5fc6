------------------------- MODULE BuffereventServer -------------------------
(***************************************************************************)
(* exam/libevent/rot13_libevent_2nd.cpp and exam/libevent/echo_server.cpp: *)
(* one event loop, a bufferevent per connection.  libevent reads what      *)
(* there is into the input buffer, up to the high watermark, and calls the *)
(* read callback; it writes the output buffer when there is room; at the   *)
(* end of the stream or an error it calls the event callback, which frees  *)
(* the bufferevent with whatever its buffers still hold.                   *)
(***************************************************************************)
EXTENDS Sockets

CONSTANTS
  MAX_LINE,     \* the longest rest readcb leaves in the input buffer is shorter
  FD_SETSIZE    \* the highest descriptor kept, numbered from the listener

ASSUME BuffereventServerAssumption == {MAX_LINE, FD_SETSIZE} \subseteq Nat \ {0}

VARIABLES
  loop,      \* whether the event loop runs
  input,     \* input[c]: the input buffer
  output     \* output[c]: the output buffer

bevVars == <<sockets, loop, input, output>>

events == <<loop, input, output>>

Rot13Server == program = "rot13_libevent_2nd"
EchoServer == program = "echo_server"

EventsInit ==
  /\ loop = TRUE
  /\ input = [c \in Connections |-> <<>>]
  /\ output = [c \in Connections |-> <<>>]

Open == {c \in Connections : (Rot13Server \/ EchoServer) /\ phase[c] = "served"}

\* do_accept closes a connection whose descriptor is above FD_SETSIZE;
\* accept_conn_cb takes every one.
BevAccept(c) ==
  /\ loop /\ (Rot13Server \/ EchoServer) /\ phase[c] = "backlog"
  /\ Cardinality(Open) < nofile - 1
  /\ phase' = [phase EXCEPT ![c] = IF Rot13Server /\ Cardinality(Open) = FD_SETSIZE THEN "closed" ELSE "served"]
  /\ UNCHANGED <<program, nofile, request, taken, shut, reset, reply, got, events>>

\* accept() fails.  do_accept goes on, accept_error_cb leaves the loop and the
\* program ends.
EchoAcceptFails ==
  /\ loop /\ EchoServer
  /\ \E c \in Connections : phase[c] = "backlog"
  /\ Cardinality(Open) = nofile - 1
  /\ loop' = FALSE
  /\ phase' = [c \in Connections |-> IF phase[c] = "idle" THEN "idle" ELSE "closed"]
  /\ input' = [c \in Connections |-> <<>>] /\ output' = [c \in Connections |-> <<>>]
  /\ UNCHANGED <<program, nofile, request, taken, shut, reset, reply, got>>

\* readcb on an input buffer: what is left in it, and what it adds to the
\* output.  Whole lines are converted; a rest of MAX_LINE bytes or more is
\* converted too, and a newline added that nobody sent.
\* Mutant: a rest of exactly MAX_LINE bytes is left alone.
readcbKeepsFull(buf) ==
  LET lines == WholeLines(buf)
      rest == SubSeq(buf, Len(lines) + 1, Len(buf))
  IN IF Len(rest) > MAX_LINE THEN [left |-> <<>>, added |-> Rot13Of(buf) \o <<NewLine>>]
                             ELSE [left |-> rest, added |-> Rot13Of(lines)]
\* Mutant: the rest is converted and sent line or not.
readcbEager(buf) == [left |-> <<>>, added |-> Rot13Of(buf) \o <<NewLine>>]

readcb(buf) ==
  LET lines == WholeLines(buf)
      rest == SubSeq(buf, Len(lines) + 1, Len(buf))
  IN IF Len(rest) >= MAX_LINE THEN [left |-> <<>>, added |-> Rot13Of(buf) \o <<NewLine>>]
                              ELSE [left |-> rest, added |-> Rot13Of(lines)]

\* The input buffer becomes the output.
echo_read_cb(buf) == [left |-> <<>>, added |-> buf]

\* The high watermark of rot13_libevent_2nd is MAX_LINE, echo_server has none.
Allowed(c) == IF Rot13Server THEN Min({Available(c), MAX_LINE - Len(input[c])}) ELSE Available(c)

BevRead(c) ==
  /\ loop /\ c \in Open /\ ~reset[c] /\ Allowed(c) > 0
  /\ LET buf == input[c] \o Received(c, Allowed(c))
         result == IF Rot13Server THEN readcb(buf) ELSE echo_read_cb(buf)
     IN /\ taken' = [taken EXCEPT ![c] = @ + Allowed(c)]
        /\ input' = [input EXCEPT ![c] = result.left]
        /\ output' = [output EXCEPT ![c] = @ \o result.added]
  /\ UNCHANGED <<program, nofile, phase, request, shut, reset, reply, got, loop>>

BevWrite(c) ==
  /\ loop /\ c \in Open /\ ~reset[c] /\ output[c] # <<>> /\ RoomTo(c) > 0
  /\ LET n == Min({RoomTo(c), Len(output[c])}) IN
       /\ Queue(c, SubSeq(output[c], 1, n))
       /\ output' = [output EXCEPT ![c] = SubSeq(@, n + 1, Len(@))]
  /\ UNCHANGED <<program, nofile, phase, request, taken, shut, reset, got, loop, input>>

\* errorcb, echo_event_cb
BevFree(c) ==
  /\ loop /\ c \in Open /\ (reset[c] \/ AtEnd(c))
  /\ phase' = [phase EXCEPT ![c] = "closed"]
  /\ input' = [input EXCEPT ![c] = <<>>] /\ output' = [output EXCEPT ![c] = <<>>]
  /\ UNCHANGED <<program, nofile, request, taken, shut, reset, reply, got, loop>>

BevLoop == EchoAcceptFails \/ \E c \in Connections : BevAccept(c) \/ BevRead(c) \/ BevWrite(c) \/ BevFree(c)

BevNext == BevLoop \/ (Clients /\ UNCHANGED events)

BevInit == SocketsInit /\ (Rot13Server \/ EchoServer) /\ EventsInit

BevSpec == BevInit /\ [][BevNext]_bevVars

(***************************************************************************)
(* Properties.                                                             *)
(***************************************************************************)
\* "Too long; just process what there is": the newline that readcb adds ends a
\* line only where the client wrote MAX_LINE bytes without one.  What a client
\* with shorter lines is or will be sent is the rot13 of its complete lines,
\* however they arrived, and the echo is what was read, byte for byte; once the
\* bufferevent is freed, a client has been sent a beginning of that.
Overlong(s) == \E j \in 0 .. Len(s) - MAX_LINE : \A k \in j + 1 .. j + MAX_LINE : s[k] # NewLine
RepliesAreWhatWasRead ==
  \A c \in Connections :
    LET read == SubSeq(request[c], 1, taken[c])
        due == IF Rot13Server THEN Rot13Of(WholeLines(read)) ELSE read
    IN Rot13Server \/ EchoServer =>
       \/ Rot13Server /\ Overlong(read)
       \/ c \in Open /\ reply[c] \o output[c] = due
       \/ c \notin Open /\ reply[c] = SubSeq(due, 1, Len(reply[c]))

\* What a client writes can always be read: between two callbacks the input
\* buffer is below the high watermark, at which libevent would stop reading the
\* connection, with no callback left to empty the buffer.
ReadingGoesOn == \A c \in Open : Available(c) > 0 => Allowed(c) > 0
=============================================================================
