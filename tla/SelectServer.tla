---------------------------- MODULE SelectServer ----------------------------
(***************************************************************************)
(* The select() loop of util/TinyServer.cpp (run, do_read, do_write; the   *)
(* servers exam/libevent/rot13_select_1st.cpp and rot13_libevent_1st.cpp   *)
(* are copies of it): one thread, non-blocking sockets, a table of         *)
(* per-descriptor states, an echo of every line after rot13.               *)
(*                                                                         *)
(* The thread advances one system call at a time, so that clients write,   *)
(* read, half-close and abort between any two of its calls.  Descriptors   *)
(* are numbered from the listener, which is 0; the table has the indices   *)
(* 0 .. FD_SETSIZE - 1 and the process may open NOFILE descriptors.        *)
(***************************************************************************)
EXTENDS Integers, Sequences, FiniteSetsExt, Rot13

CONSTANTS Conns,        \* the connections clients may open, each once
          Bytes,        \* the bytes clients write
          MAX_LINE,     \* size of fd_state.buffer
          RECV_MAX,     \* size of do_read's local buffer
          FD_SETSIZE,   \* size of the state table
          NOFILE,       \* number of descriptors the process may hold
          SNDBUF,       \* bytes the kernel queues towards one client
          MaxSent,      \* bound: bytes one client writes
          SelectFails,  \* whether select() may return an error
          NULL

\* buffer_used is Len(buffer): the code never reads past it.
FdState == [buffer : Seq(Byte), writing : BOOLEAN,
            n_written : Nat, write_upto : Nat]

ASSUME ServerAssumption ==
  /\ Bytes \subseteq Byte
  /\ {MAX_LINE, RECV_MAX, FD_SETSIZE, NOFILE, SNDBUF} \subseteq Nat \ {0}
  /\ MaxSent \in Nat
  /\ SelectFails \in BOOLEAN
  /\ NULL \notin FdState

VARIABLES
  state,    \* state[f]: the fd_state of descriptor f, or NULL
  fd,       \* fd[c]: descriptor of connection c in the process, 0 if none
  phase,    \* phase[c]: where connection c is in its life
  sent,     \* sent[c]: every byte the client of c wrote
  taken,    \* taken[c]: how many of them recv() returned
  shut,     \* shut[c]: the client shut down its writing side
  reset,    \* reset[c]: the client aborted
  out,      \* out[c]: every byte send() accepted for c
  got,      \* got[c]: how many of them the client read
  rushed,   \* history: c's client once wrote before it had its last reply
  pc, i,    \* what the server thread does next, and for which descriptor
  rset, wset

server  == <<state, fd, phase, pc, i, rset, wset>>
channel == <<sent, taken, shut, reset, out, got, rushed>>
vars    == <<server, channel>>

Slots == 0 .. FD_SETSIZE - 1

TypeOK ==
  /\ state \in [Slots -> FdState \cup {NULL}]
  /\ fd \in [Conns -> 0 .. NOFILE - 1]
  /\ phase \in [Conns -> {"idle", "backlog", "open", "closed"}]
  /\ sent \in [Conns -> Seq(Bytes)]
  /\ taken \in [Conns -> Nat]
  /\ shut \in [Conns -> BOOLEAN]
  /\ reset \in [Conns -> BOOLEAN]
  /\ out \in [Conns -> Seq(Byte)]
  /\ got \in [Conns -> Nat]
  /\ rushed \in [Conns -> BOOLEAN]
  /\ pc \in {"select", "accept", "read", "write", "ended"}
  /\ i \in Slots
  /\ rset \subseteq Slots
  /\ wset \subseteq Slots

alloc_fd_state ==
  [buffer |-> <<>>, writing |-> FALSE, n_written |-> 0, write_upto |-> 0]

Init ==
  /\ state = [f \in Slots |-> NULL]
  /\ fd = [c \in Conns |-> 0]
  /\ phase = [c \in Conns |-> "idle"]
  /\ sent = [c \in Conns |-> <<>>]
  /\ taken = [c \in Conns |-> 0]
  /\ shut = [c \in Conns |-> FALSE]
  /\ reset = [c \in Conns |-> FALSE]
  /\ out = [c \in Conns |-> <<>>]
  /\ got = [c \in Conns |-> 0]
  /\ rushed = [c \in Conns |-> FALSE]
  /\ pc = "select" /\ i = 0 /\ rset = {} /\ wset = {}

-----------------------------------------------------------------------------
(* Clients and the kernel's socket buffers. *)

ClientConnect(c) ==
  /\ phase[c] = "idle" /\ pc # "ended"
  /\ phase' = [phase EXCEPT ![c] = "backlog"]
  /\ UNCHANGED <<state, fd, pc, i, rset, wset, channel>>

Writable(c) == phase[c] \in {"backlog", "open"} /\ ~shut[c] /\ ~reset[c]

NewLinesIn(text) == {j \in 1 .. Len(text) : text[j] = NewLine}

\* The client has not read all of the reply to a line it completed.
Waits(c) == \E j \in NewLinesIn(sent[c]) : j > got[c]

\* rushed only records what happened; no step looks at it.
ClientWrite(c) ==
  /\ Writable(c)
  /\ Len(sent[c]) < MaxSent
  /\ \E b \in Bytes : sent' = [sent EXCEPT ![c] = Append(@, b)]
  /\ rushed' = [rushed EXCEPT ![c] = @ \/ Waits(c)]
  /\ UNCHANGED <<server, taken, shut, reset, out, got>>

ClientShutdown(c) ==
  /\ Writable(c)
  /\ shut' = [shut EXCEPT ![c] = TRUE]
  /\ UNCHANGED <<server, sent, taken, reset, out, got, rushed>>

ClientAbort(c) ==
  /\ phase[c] \in {"backlog", "open"} /\ ~reset[c]
  /\ reset' = [reset EXCEPT ![c] = TRUE]
  /\ UNCHANGED <<server, sent, taken, shut, out, got, rushed>>

ClientRead(c) ==
  /\ got[c] < Len(out[c]) /\ ~reset[c]
  /\ got' = [got EXCEPT ![c] = Len(out[c])]
  /\ UNCHANGED <<server, sent, taken, shut, reset, out, rushed>>

Client(c) == \/ ClientConnect(c) \/ ClientWrite(c) \/ ClientShutdown(c)
             \/ ClientAbort(c) \/ ClientRead(c)

\* What select() reports of a connection, and the room send() finds.
HasInput(c) == taken[c] < Len(sent[c]) \/ shut[c] \/ reset[c]
Room(c)     == SNDBUF - (Len(out[c]) - got[c])
HasRoom(c)  == Room(c) > 0 \/ reset[c]

-----------------------------------------------------------------------------
(* The server thread. *)

ConnOf(f) == CHOOSE c \in Conns : fd[c] = f

\* Mutant: the loop visits f once more.
ContinueTwice(f, R, W) ==
  LET later == {g \in R \cup W : g >= f}
  IN  IF later = {}
      THEN pc' = "select" /\ i' = 0 /\ rset' = {} /\ wset' = {}
      ELSE /\ i' = Min(later)
           /\ pc' = IF i' \in R THEN "read" ELSE "write"
           /\ rset' = R /\ wset' = W

\* The rest of the handler loop after descriptor f: the next descriptor that
\* select() reported, or a new round.
Continue(f, R, W) ==
  LET later == {g \in R \cup W : g > f}
  IN  IF later = {}
      THEN pc' = "select" /\ i' = 0 /\ rset' = {} /\ wset' = {}
      ELSE /\ i' = Min(later)
           /\ pc' = IF i' \in R THEN "read" ELSE "write"
           /\ rset' = R /\ wset' = W

Backlog == {c \in Conns : phase[c] = "backlog"}

\* Mutant: the write set follows the read set.
WriteReadyIfReadable(f) == state[f].writing /\ HasInput(ConnOf(f))
WriteReady(f) == state[f].writing /\ HasRoom(ConnOf(f))

Select ==
  /\ pc = "select"
  /\ LET R == {f \in Slots : state[f] # NULL /\ HasInput(ConnOf(f))}
         W == {f \in Slots : state[f] # NULL /\ WriteReady(f)}
     IN  \/ /\ Backlog # {}
            /\ pc' = "accept" /\ i' = 0 /\ rset' = R /\ wset' = W
         \/ /\ Backlog = {}
            /\ R \cup W # {}
            /\ Continue(0, R, W)
  /\ UNCHANGED <<state, fd, phase, channel>>

\* The process is no more: the kernel closes its sockets, the listener and
\* the connections nobody accepted yet included.
ProcessEnds ==
  /\ state' = [f \in Slots |-> NULL]
  /\ fd' = [c \in Conns |-> 0]
  /\ phase' = [c \in Conns |->
                 IF phase[c] = "idle" THEN "idle" ELSE "closed"]
  /\ pc' = "ended" /\ i' = 0 /\ rset' = {} /\ wset' = {}

\* run() returns, and with it main().
SelectError ==
  /\ pc = "select" /\ SelectFails
  /\ ProcessEnds
  /\ UNCHANGED channel

FreeFds == (1 .. NOFILE - 1) \ {fd[c] : c \in Conns}

\* accept() fails when the process has no descriptor left.
AcceptError ==
  /\ pc = "accept"
  /\ FreeFds = {}
  /\ Continue(0, rset, wset)
  /\ UNCHANGED <<state, fd, phase, channel>>

\* The descriptor fits the table.
AcceptOpen(c) ==
  /\ pc = "accept" /\ phase[c] = "backlog"
  /\ FreeFds # {}
  /\ Min(FreeFds) < FD_SETSIZE
  /\ fd' = [fd EXCEPT ![c] = Min(FreeFds)]
  /\ phase' = [phase EXCEPT ![c] = "open"]
  /\ state' = [state EXCEPT ![Min(FreeFds)] = alloc_fd_state]
  /\ Continue(0, rset, wset)
  /\ UNCHANGED channel

\* fd > FD_SETSIZE: closed at once.
AcceptRefuse(c) ==
  /\ pc = "accept" /\ phase[c] = "backlog"
  /\ FreeFds # {}
  /\ Min(FreeFds) > FD_SETSIZE
  /\ phase' = [phase EXCEPT ![c] = "closed"]
  /\ Continue(0, rset, wset)
  /\ UNCHANGED <<state, fd, channel>>

\* fd = FD_SETSIZE passes the test and is stored past the end of the table:
\* either the process goes on, with a connection no round will ever look at,
\* or the overwritten word makes it crash.
AcceptPastEnd(c) ==
  /\ pc = "accept" /\ phase[c] = "backlog"
  /\ FreeFds # {}
  /\ Min(FreeFds) = FD_SETSIZE
  /\ \/ /\ fd' = [fd EXCEPT ![c] = FD_SETSIZE]
        /\ phase' = [phase EXCEPT ![c] = "open"]
        /\ Continue(0, rset, wset)
        /\ UNCHANGED state
     \/ ProcessEnds
  /\ UNCHANGED channel

\* Mutant: the table keeps its pointer to the freed state.
CloseDangling(f, c) ==
  /\ state' = state
  /\ fd' = [fd EXCEPT ![c] = 0]
  /\ phase' = [phase EXCEPT ![c] = "closed"]
  /\ Continue(f, rset, wset)
Close(f, c) ==
  /\ state' = [state EXCEPT ![f] = NULL]
  /\ fd' = [fd EXCEPT ![c] = 0]
  /\ phase' = [phase EXCEPT ![c] = "closed"]
  /\ Continue(f, rset, wset)

\* What one chunk returned by recv() does to a state: every byte is converted
\* and stored while there is room and dropped after; a newline, stored or
\* not, moves write_upto to the end of what is stored by then.
\* Mutant: the whole chunk counts as a line.
UptoEndOfChunk(s, chunk) == Min({Len(s.buffer) + Len(chunk), MAX_LINE})
Stored(s, chunk) ==
  SubSeq(Rot13Of(chunk), 1, Min({Len(chunk), MAX_LINE - Len(s.buffer)}))
UptoAfter(s, chunk) ==
  Min({Len(s.buffer) + Max(NewLinesIn(chunk)), MAX_LINE})

Absorb(s, chunk) ==
  [s EXCEPT !.buffer = s.buffer \o Stored(s, chunk),
            !.writing = s.writing \/ NewLinesIn(chunk) # {},
            !.write_upto = IF NewLinesIn(chunk) = {} THEN s.write_upto
                                                     ELSE UptoAfter(s, chunk)]

\* recv() > 0: any part of what has arrived, also of what a client that
\* aborted wrote before; the loop of do_read stays at this descriptor.
RecvData(c) ==
  /\ pc = "read" /\ fd[c] = i
  /\ \E n \in 1 .. Min({RECV_MAX, Len(sent[c]) - taken[c]}) :
       LET chunk == SubSeq(sent[c], taken[c] + 1, taken[c] + n)
       IN  /\ taken' = [taken EXCEPT ![c] = @ + n]
           /\ state' = [state EXCEPT ![i] = Absorb(@, chunk)]
  /\ UNCHANGED <<fd, phase, pc, i, rset, wset,
                 sent, shut, reset, out, got, rushed>>

\* recv() = 0 after everything was read, or an error: do_read returns non-zero
\* and run drops the state, whatever it still holds.
\* Mutant: the end is taken for EAGAIN.
RecvEndIgnored(c) ==
  /\ pc = "read" /\ fd[c] = i
  /\ reset[c] \/ (shut[c] /\ taken[c] = Len(sent[c]))
  /\ Continue(i, rset, wset)
  /\ UNCHANGED <<state, fd, phase, channel>>
RecvEnd(c) ==
  /\ pc = "read" /\ fd[c] = i
  /\ reset[c] \/ (shut[c] /\ taken[c] = Len(sent[c]))
  /\ Close(i, c)
  /\ UNCHANGED channel

\* EAGAIN: do_read returns 0, do_write follows if select() reported it.
RecvAgain(c) ==
  /\ pc = "read" /\ fd[c] = i
  /\ ~reset[c] /\ ~shut[c] /\ taken[c] = Len(sent[c])
  /\ IF i \in wset THEN pc' = "write" /\ UNCHANGED <<i, rset, wset>>
                   ELSE Continue(i, rset, wset)
  /\ UNCHANGED <<state, fd, phase, channel>>

Unsent(s) == s.write_upto - s.n_written

SendData(c) ==
  /\ pc = "write" /\ fd[c] = i
  /\ ~reset[c] /\ Unsent(state[i]) > 0 /\ Room(c) > 0
  /\ LET n == Min({Unsent(state[i]), Room(c)})
         w == state[i].n_written
     IN  /\ out' = [out EXCEPT ![c] = @ \o SubSeq(state[i].buffer, w + 1, w + n)]
         /\ state' = [state EXCEPT ![i].n_written = w + n]
  /\ UNCHANGED <<fd, phase, pc, i, rset, wset,
                 sent, taken, shut, reset, got, rushed>>

\* send() to a client that aborted: ECONNRESET, or EPIPE and with it the
\* signal SIGPIPE, which nothing here ignores and which ends the process.
SendError(c) ==
  /\ pc = "write" /\ fd[c] = i
  /\ reset[c] /\ Unsent(state[i]) > 0
  /\ Close(i, c) \/ ProcessEnds
  /\ UNCHANGED channel

\* Mutant: EAGAIN leaves the loop like completion does.
SendAgainForgets(c) ==
  /\ pc = "write" /\ fd[c] = i
  /\ ~reset[c] /\ Unsent(state[i]) > 0 /\ Room(c) <= 0
  /\ state' = [state EXCEPT ![i].writing = FALSE]
  /\ Continue(i, rset, wset)
  /\ UNCHANGED <<fd, phase, channel>>
\* EAGAIN: return 0, still writing.
SendAgain(c) ==
  /\ pc = "write" /\ fd[c] = i
  /\ ~reset[c] /\ Unsent(state[i]) > 0 /\ Room(c) <= 0
  /\ Continue(i, rset, wset)
  /\ UNCHANGED <<state, fd, phase, channel>>

\* Mutant: the buffer starts afresh although a partial line is stored in it.
SendDoneDropsTail(c) ==
  /\ pc = "write" /\ fd[c] = i
  /\ Unsent(state[i]) <= 0
  /\ state' = [state EXCEPT ![i] = alloc_fd_state]
  /\ Continue(i, rset, wset)
  /\ UNCHANGED <<fd, phase, channel>>
\* Mutant: the buffer never starts afresh.
SendDoneKeepsBuffer(c) ==
  /\ pc = "write" /\ fd[c] = i
  /\ Unsent(state[i]) <= 0
  /\ state' = [state EXCEPT ![i].writing = FALSE]
  /\ Continue(i, rset, wset)
  /\ UNCHANGED <<fd, phase, channel>>
\* Everything up to write_upto is out; the buffer starts afresh only if
\* nothing else is stored in it.
SendDone(c) ==
  /\ pc = "write" /\ fd[c] = i
  /\ Unsent(state[i]) <= 0
  /\ state' = [state EXCEPT ![i] =
       IF state[i].n_written = Len(state[i].buffer)
       THEN alloc_fd_state
       ELSE [state[i] EXCEPT !.writing = FALSE]]
  /\ Continue(i, rset, wset)
  /\ UNCHANGED <<fd, phase, channel>>

Accept(c) == AcceptOpen(c) \/ AcceptRefuse(c) \/ AcceptPastEnd(c)
do_read(c) == RecvData(c) \/ RecvEnd(c) \/ RecvAgain(c)
do_write(c) == SendData(c) \/ SendError(c) \/ SendAgain(c) \/ SendDone(c)

run == \/ Select \/ SelectError \/ AcceptError
       \/ \E c \in Conns : Accept(c) \/ do_read(c) \/ do_write(c)

Next == run \/ \E c \in Conns : Client(c)

Spec == Init /\ [][Next]_vars

\* The loop is never descheduled for ever, and clients read their replies.
Fairness == /\ WF_vars(run)
            /\ \A c \in Conns : WF_vars(ClientRead(c))

FairSpec == Spec /\ Fairness

-----------------------------------------------------------------------------
(* Properties. *)

Serving(c) == phase[c] = "open" /\ fd[c] < FD_SETSIZE
StateOf(c) == state[fd[c]]

\* What do_read stored of a served connection and send() did not take yet.
Rest(c) == SubSeq(StateOf(c).buffer, StateOf(c).n_written + 1,
                  Len(StateOf(c).buffer))

\* The cursors of every state stay ordered inside the buffer
\* (n_written <= write_upto <= buffer_used <= MAX_LINE), so that no send() of
\* do_write reads outside what do_read stored, across partial sends, dropped
\* bytes and restarts of the buffer.
Ordered(s) == /\ s.n_written <= s.write_upto
              /\ s.write_upto <= Len(s.buffer)
              /\ Len(s.buffer) <= MAX_LINE

CursorsOrdered == \A f \in Slots : state[f] # NULL => Ordered(state[f])

\* The table and the kernel's descriptors agree: a slot holds a state exactly
\* when one open connection has that descriptor, also when descriptors are
\* closed and handed out again between rounds.
TableMatchesDescriptors ==
  /\ \A f \in Slots : state[f] # NULL <=> \E c \in Conns : fd[c] = f /\ f # 0
  /\ \A c, d \in Conns : fd[c] = fd[d] /\ fd[c] # 0 => c = d
  /\ \A c \in Conns : phase[c] = "open" <=> fd[c] # 0

\* The handler loop only dereferences states that exist: every descriptor of
\* the round that is still to be handled has one, although states are freed
\* during the round and accept() ran after select() filled the sets.
HandlersHaveState ==
  pc \in {"read", "write"} =>
    \A f \in rset \cup wset : f >= i => state[f] # NULL

\* What the round in progress knows: accept() comes before any handler, so
\* every reported descriptor still has its state then; a handler runs for a
\* reported descriptor, never for the listener.
RoundConsistent ==
  /\ pc = "accept" => \A f \in rset \cup wset : state[f] # NULL
  /\ pc \in {"read", "write"} => i \in rset \cup wset /\ i # 0
  /\ HandlersHaveState

\* The inductive invariant of the loop.
LoopInvariant ==
  TypeOK /\ CursorsOrdered /\ TableMatchesDescriptors /\ RoundConsistent

\* A state that is not writing has no complete line waiting: everything up to
\* its last newline was sent.  Otherwise the reply would wait, unreported by
\* select(), until the client happens to end another line.
NoStrandedLine ==
  \A c \in Conns : Serving(c) /\ ~StateOf(c).writing =>
    /\ StateOf(c).n_written = StateOf(c).write_upto
    /\ NewLinesIn(Rest(c)) = {}

\* do_read drops bytes only when the buffer is full; a connection whose client
\* wrote no more than MAX_LINE bytes gets all of them back.
NoLossWithinBuffer ==
  \A c \in Conns : Serving(c) /\ taken[c] <= MAX_LINE =>
    out[c] \o Rest(c) = Rot13Of(SubSeq(sent[c], 1, taken[c]))

\* Every line of a text, with its newline, fits the buffer.
ShortLines(text) ==
  \A j, k \in 0 .. Len(text) :
    k - j > MAX_LINE => \E l \in j + 1 .. k - 1 : text[l] = NewLine

\* A client that reads each reply before it writes on, and whose lines fit
\* the buffer, never loses a byte, however many lines it writes: do_write
\* restarts the buffer before do_read needs it again.
PatientClientsLoseNothing ==
  \A c \in Conns : Serving(c) /\ ~rushed[c] /\ ShortLines(sent[c]) =>
    out[c] \o Rest(c) = Rot13Of(SubSeq(sent[c], 1, taken[c]))

\* What the server promises whatever its buffers do: see LineEcho.
Echo == INSTANCE LineEcho WITH
  kept   <- [c \in Conns |-> IF Serving(c) THEN out[c] \o Rest(c) ELSE out[c]],
  commit <- [c \in Conns |-> Len(out[c]) +
               IF Serving(c) THEN Unsent(StateOf(c)) ELSE 0],
  ended  <- [c \in Conns |-> phase[c] = "closed"]

\* Every step of the loop is a step of LineEcho or none: replies are the
\* rot13 of what was read, in order, and only up to the last newline.
ImplementsLineEcho == Echo!Spec

\* Once a line of a client that goes on reading is complete, it is sent, or
\* the connection ends: writing stays set until do_write got it all out.
LinesAnswered ==
  \A c \in Conns : Serving(c) /\ StateOf(c).writing ~>
                   (Serving(c) => ~StateOf(c).writing)

\* A client that half-closes or aborts is eventually let go of, so that its
\* descriptor can serve another connection.
EndedConnectionsClosed ==
  \A c \in Conns : Serving(c) /\ (shut[c] \/ reset[c]) ~> phase[c] = "closed"
=============================================================================
