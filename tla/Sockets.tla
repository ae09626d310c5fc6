------------------------------ MODULE Sockets ------------------------------
(***************************************************************************)
(* The clients of the line servers under exam/libevent, and the socket     *)
(* buffers between them and a server.  A client connects, writes bytes,    *)
(* reads or lets the reply pile up, shuts down its writing side or aborts, *)
(* in any order.                                                           *)
(***************************************************************************)
EXTENDS Integers, Sequences, FiniteSetsExt, Rot13

CONSTANTS
  Connections,   \* the connections clients may open, each once
  Letters,       \* the bytes clients write
  Longest,       \* bound: Longest[c] bytes are written by the client of c
  SNDBUF,        \* the bytes the kernel queues towards one client
  Limits         \* how many descriptors a server may hold, the listener's included

ASSUME SocketsAssumption ==
  /\ Letters \subseteq Byte
  /\ Longest \in [Connections -> Nat]
  /\ {SNDBUF} \cup Limits \subseteq Nat \ {0}

VARIABLES
  program,   \* the server that runs
  nofile,    \* the limit it runs under
  phase,     \* phase[c]: idle, in the backlog, served, or what the server made of it
  request,   \* request[c]: every byte the client wrote
  taken,     \* taken[c]: how many of them the server read
  shut,      \* shut[c]: the client shut down its writing side
  reset,     \* reset[c]: the client aborted
  reply,     \* reply[c]: every byte queued towards the client
  got        \* got[c]: how many of them the client read

sockets == <<program, nofile, phase, request, taken, shut, reset, reply, got>>

Programs == {"rot13_fork_1st", "rot13_libevent_2nd", "echo_server"}

SocketsInit ==
  /\ program \in Programs
  /\ nofile \in Limits
  /\ phase = [c \in Connections |-> "idle"]
  /\ request = [c \in Connections |-> <<>>]
  /\ taken = [c \in Connections |-> 0]
  /\ shut = [c \in Connections |-> FALSE]
  /\ reset = [c \in Connections |-> FALSE]
  /\ reply = [c \in Connections |-> <<>>]
  /\ got = [c \in Connections |-> 0]

Unended(c) == phase[c] \notin {"idle", "closed"} /\ ~reset[c]

ClientConnects(c) ==
  /\ phase[c] = "idle"
  /\ phase' = [phase EXCEPT ![c] = "backlog"]
  /\ UNCHANGED <<program, nofile, request, taken, shut, reset, reply, got>>

ClientWrites(c) ==
  /\ Unended(c) /\ ~shut[c] /\ Len(request[c]) < Longest[c]
  /\ \E b \in Letters : request' = [request EXCEPT ![c] = Append(@, b)]
  /\ UNCHANGED <<program, nofile, phase, taken, shut, reset, reply, got>>

ClientShutsDown(c) ==
  /\ Unended(c) /\ ~shut[c]
  /\ shut' = [shut EXCEPT ![c] = TRUE]
  /\ UNCHANGED <<program, nofile, phase, request, taken, reset, reply, got>>

ClientAborts(c) ==
  /\ Unended(c)
  /\ reset' = [reset EXCEPT ![c] = TRUE]
  /\ UNCHANGED <<program, nofile, phase, request, taken, shut, reply, got>>

ClientReads(c) ==
  /\ got[c] < Len(reply[c]) /\ ~reset[c]
  /\ got' = [got EXCEPT ![c] = Len(reply[c])]
  /\ UNCHANGED <<program, nofile, phase, request, taken, shut, reset, reply>>

Clients == \E c \in Connections :
  ClientConnects(c) \/ ClientWrites(c) \/ ClientShutsDown(c) \/ ClientAborts(c) \/ ClientReads(c)

Available(c) == Len(request[c]) - taken[c]
RoomTo(c) == SNDBUF - (Len(reply[c]) - got[c])
AtEnd(c) == shut[c] /\ Available(c) = 0

\* n bytes are read from c; n bytes of s are queued towards c.
Received(c, n) == SubSeq(request[c], taken[c] + 1, taken[c] + n)
Queue(c, s) == reply' = [reply EXCEPT ![c] = @ \o s]

\* The complete lines of a sequence, the last newline included.
WholeLines(s) ==
  LET ends == {j \in DOMAIN s : s[j] = NewLine} IN IF ends = {} THEN <<>> ELSE SubSeq(s, 1, Max(ends))
=============================================================================
