------------------------- MODULE SelectServerProofs -------------------------
(***************************************************************************)
(* The select() loop for any number of connections and any buffer, table   *)
(* and descriptor limits: its inductive invariant, the lines it answers,   *)
(* the bytes it keeps and the line echo it implements.                     *)
(***************************************************************************)
EXTENDS SelectServer, DataTheorems

USE ServerAssumption

\* What select() leaves to the handlers: R and W hold descriptors with a
\* state, and Continue goes to the next of them or to a new round.
LEMMA ContinueProceeds ==
  ASSUME NEW f \in Slots, NEW R \in SUBSET Slots, NEW W \in SUBSET Slots,
         Continue(f, R, W)
  PROVE  /\ pc' \in {"select", "read", "write"}
         /\ i' \in Slots /\ rset' \subseteq Slots /\ wset' \subseteq Slots
         /\ pc' \in {"read", "write"} =>
              /\ rset' = R /\ wset' = W
              /\ i' \in R \cup W /\ i' > f
<1> DEFINE later == {g \in R \cup W : g > f}
<1>0. Slots \subseteq Nat /\ 0 \in Slots
  BY DEF Slots
<1>1. CASE later = {}
  BY <1>0, <1>1 DEF Continue
<1>2. CASE later # {}
  <2>1. Min(later) \in later
    BY <1>0, <1>2, MinOfNats
  <2>2. /\ i' = Min(later) /\ rset' = R /\ wset' = W
        /\ pc' = IF i' \in R THEN "read" ELSE "write"
    BY <1>2 DEF Continue
  <2>3. QED
    BY <2>1, <2>2
<1>3. QED
  BY <1>1, <1>2

\* The descriptor accept() returns: one of the process's limit, used by no
\* connection.
LEMMA FreshDescriptor ==
  ASSUME TypeOK, FreeFds # {}
  PROVE  /\ Min(FreeFds) \in 1 .. NOFILE - 1
         /\ \A c \in Conns : fd[c] # Min(FreeFds)
<1>1. FreeFds \subseteq Nat
  BY DEF FreeFds
<1>2. Min(FreeFds) \in FreeFds
  BY <1>1, MinOfNats
<1>3. QED
  BY <1>2 DEF FreeFds

\* One chunk of input keeps a state well formed and its cursors ordered,
\* whether it fits the buffer or not.
LEMMA AbsorbKeepsOrder ==
  ASSUME NEW s \in FdState, Ordered(s), NEW chunk \in Seq(Byte)
  PROVE  /\ Absorb(s, chunk) \in FdState
         /\ Ordered(Absorb(s, chunk))
<1> DEFINE n == Min({Len(chunk), MAX_LINE - Len(s.buffer)})
<1>1. /\ s.buffer \in Seq(Byte) /\ Len(s.buffer) \in Nat
      /\ s.n_written \in Nat /\ s.write_upto \in Nat
      /\ s.writing \in BOOLEAN /\ MAX_LINE \in Nat
      /\ s.n_written <= s.write_upto /\ s.write_upto <= Len(s.buffer)
      /\ Len(s.buffer) <= MAX_LINE
  BY DEF FdState, Ordered
<1>2. n = IF Len(chunk) <= MAX_LINE - Len(s.buffer)
          THEN Len(chunk) ELSE MAX_LINE - Len(s.buffer)
  <2>1. Len(chunk) \in Int /\ MAX_LINE - Len(s.buffer) \in Int
    BY <1>1
  <2>2. QED
    BY <2>1, MinOfPair, Zenon
<1>3. /\ n \in Nat /\ n <= Len(chunk) /\ Len(s.buffer) + n <= MAX_LINE
      /\ n < Len(chunk) => Len(s.buffer) + n = MAX_LINE
  BY SMTT(30), <1>1, <1>2
<1> HIDE DEF n
<1>4. Stored(s, chunk) \in Seq(Byte) /\ Len(Stored(s, chunk)) = n
  <2>1. /\ Rot13Of(chunk) \in Seq(Byte)
        /\ Len(Rot13Of(chunk)) = Len(chunk)
    BY Rot13OfSeq
  <2>2. \A j \in 1 .. n : Rot13Of(chunk)[j] \in Byte
    BY <1>3, <2>1
  <2>3. /\ SubSeq(Rot13Of(chunk), 1, n) \in Seq(Byte)
        /\ Len(SubSeq(Rot13Of(chunk), 1, n)) = IF 1 <= n THEN n - 1 + 1 ELSE 0
    BY <1>3, <2>2, SubSeqProperties
  <2>4. Len(SubSeq(Rot13Of(chunk), 1, n)) = n
    BY <1>3, <2>3
  <2>5. Stored(s, chunk) = SubSeq(Rot13Of(chunk), 1, n)
    BY DEF Stored, n
  <2>6. QED
    BY <2>3, <2>4, <2>5
<1>5. /\ s.buffer \o Stored(s, chunk) \in Seq(Byte)
      /\ Len(s.buffer \o Stored(s, chunk)) = Len(s.buffer) + n
  BY <1>1, <1>4, ConcatProperties
<1>6. ASSUME NewLinesIn(chunk) # {}
      PROVE  /\ UptoAfter(s, chunk) \in Nat
             /\ Len(s.buffer) <= UptoAfter(s, chunk)
             /\ UptoAfter(s, chunk) <= Len(s.buffer) + n
  <2> DEFINE last == Max(NewLinesIn(chunk))
  <2>1. last \in 1 .. Len(chunk)
    <3>1. NewLinesIn(chunk) \subseteq 1 .. Len(chunk) /\ Len(chunk) \in Nat
      BY DEF NewLinesIn
    <3>2. QED
      BY <1>6, <3>1, MaxOfPositions
  <2>2. UptoAfter(s, chunk) = IF Len(s.buffer) + last <= MAX_LINE
                              THEN Len(s.buffer) + last ELSE MAX_LINE
    <3>1. Len(s.buffer) + last \in Int /\ MAX_LINE \in Int
      BY <1>1, <2>1
    <3>2. QED
      BY <3>1, MinOfPair, Zenon DEF UptoAfter
  <2> HIDE DEF last
  <2>3. QED
    BY SMTT(30), <1>1, <1>3, <2>1, <2>2
<1>7. /\ Absorb(s, chunk) \in FdState
      /\ Absorb(s, chunk).buffer = s.buffer \o Stored(s, chunk)
      /\ Absorb(s, chunk).n_written = s.n_written
      /\ Absorb(s, chunk).write_upto =
           IF NewLinesIn(chunk) = {} THEN s.write_upto ELSE UptoAfter(s, chunk)
  BY <1>1, <1>5, <1>6 DEF Absorb, FdState
<1>8. /\ s.write_upto <= Absorb(s, chunk).write_upto
      /\ Absorb(s, chunk).write_upto <= Len(s.buffer) + n
      /\ Absorb(s, chunk).write_upto \in Nat
  <2>1. CASE NewLinesIn(chunk) = {}
    BY <2>1, <1>1, <1>3, <1>7
  <2>2. CASE NewLinesIn(chunk) # {}
    BY SMTT(30), <2>2, <1>1, <1>3, <1>6, <1>7
  <2>3. QED
    BY <2>1, <2>2
<1>9. QED
  <2>1. Len(Absorb(s, chunk).buffer) = Len(s.buffer) + n
    BY <1>5, <1>7
  <2>2. QED
    BY <1>1, <1>3, <1>7, <1>8, <2>1 DEF Ordered

\* The handlers Continue leaves to run have their states, provided every
\* reported descriptor after f keeps one.
LEMMA ContinueIsConsistent ==
  ASSUME NEW f \in Slots, NEW R \in SUBSET Slots, NEW W \in SUBSET Slots,
         Continue(f, R, W),
         \A g \in R \cup W : g > f => state'[g] # NULL
  PROVE  RoundConsistent'
<1>0. Slots \subseteq Int
  BY DEF Slots
<1>1. pc' \in {"select", "read", "write"}
  BY ContinueProceeds
<1>2. CASE pc' = "select"
  BY <1>2 DEF RoundConsistent, HandlersHaveState
<1>3. CASE pc' \in {"read", "write"}
  <2>1. /\ rset' = R /\ wset' = W
        /\ i' \in R \cup W /\ i' > f
    BY <1>3, ContinueProceeds
  <2>2. \A g \in R \cup W : g >= i' => g > f
    BY <1>0, <2>1
  <2>3. i' # 0
    BY <1>0, <2>1 DEF Slots
  <2>4. HandlersHaveState'
    BY <2>1, <2>2 DEF HandlersHaveState
  <2>5. QED
    BY <1>3, <2>1, <2>3, <2>4 DEF RoundConsistent
<1>4. QED
  BY <1>1, <1>2, <1>3

\* The descriptor of the running handler belongs to exactly one open
\* connection and has a state.
LEMMA HandlerOfConnection ==
  ASSUME LoopInvariant, NEW c \in Conns, fd[c] = i, pc \in {"read", "write"}
  PROVE  /\ i \in Slots /\ i # 0
         /\ state[i] \in FdState /\ Ordered(state[i])
         /\ phase[c] = "open"
         /\ \A d \in Conns : fd[d] = i => d = c
         /\ \A g \in rset \cup wset : g > i => state[g] # NULL
<1>1. i \in rset \cup wset /\ i # 0 /\ i \in Slots /\ Slots \subseteq Nat
  BY DEF LoopInvariant, RoundConsistent, TypeOK, Slots
<1>2. state[i] # NULL /\ \A g \in rset \cup wset : g > i => state[g] # NULL
  BY <1>1 DEF LoopInvariant, RoundConsistent, HandlersHaveState, TypeOK
<1>3. state[i] \in FdState
  BY <1>1, <1>2 DEF LoopInvariant, TypeOK
<1>4. Ordered(state[i])
  BY <1>1, <1>2 DEF LoopInvariant, CursorsOrdered
<1>5. phase[c] = "open" /\ \A d \in Conns : fd[d] = i => d = c
  BY <1>1 DEF LoopInvariant, TableMatchesDescriptors
<1>6. QED
  BY <1>1, <1>2, <1>3, <1>4, <1>5

\* When the process ends, table and descriptors are empty together.
LEMMA EndKeepsInvariant ==
  ASSUME LoopInvariant, ProcessEnds, UNCHANGED channel
  PROVE  LoopInvariant'
<1>1. /\ state' = [f \in Slots |-> NULL] /\ fd' = [c \in Conns |-> 0]
      /\ phase' = [c \in Conns |-> IF phase[c] = "idle" THEN "idle" ELSE "closed"]
      /\ pc' = "ended" /\ i' = 0 /\ rset' = {} /\ wset' = {}
  BY DEF ProcessEnds
<1>2. 0 \in Slots /\ 0 \in 0 .. NOFILE - 1
  BY DEF Slots
<1>3. TypeOK'
  <2>1. phase' \in [Conns -> {"idle", "backlog", "open", "closed"}]
    BY <1>1
  <2>2. QED
    BY <1>1, <1>2, <2>1 DEF LoopInvariant, TypeOK, channel
<1>4. CursorsOrdered' /\ RoundConsistent'
  BY <1>1 DEF CursorsOrdered, RoundConsistent, HandlersHaveState
<1>5. TableMatchesDescriptors'
  BY <1>1 DEF TableMatchesDescriptors
<1>6. QED
  BY <1>3, <1>4, <1>5 DEF LoopInvariant

\* What a client does changes no state of the server's table and loop, and
\* connects only a connection that has no descriptor.
LEMMA ClientKeepsInvariant ==
  ASSUME LoopInvariant, NEW c \in Conns, Client(c)
  PROVE  LoopInvariant'
<1>1. CASE ClientConnect(c)
  <2>1. TypeOK'
    BY <1>1 DEF LoopInvariant, TypeOK, ClientConnect, channel
  <2>2. CursorsOrdered' /\ RoundConsistent'
    BY <1>1 DEF LoopInvariant, ClientConnect, CursorsOrdered, RoundConsistent,
                HandlersHaveState
  <2>3. TableMatchesDescriptors'
    BY <1>1 DEF LoopInvariant, ClientConnect, TableMatchesDescriptors, TypeOK
  <2>4. QED
    BY <2>1, <2>2, <2>3 DEF LoopInvariant
<1>2. ASSUME UNCHANGED server, TypeOK'
      PROVE  LoopInvariant'
  BY <1>2 DEF LoopInvariant, server, CursorsOrdered, TableMatchesDescriptors,
              RoundConsistent, HandlersHaveState
<1>3. CASE ClientWrite(c)
  <2>1. TypeOK'
    BY SMTT(30), <1>3 DEF LoopInvariant, TypeOK, ClientWrite, server
  <2>2. QED
    BY <1>2, <1>3, <2>1 DEF ClientWrite
<1>4. CASE ClientShutdown(c)
  <2>1. TypeOK'
    BY <1>4 DEF LoopInvariant, TypeOK, ClientShutdown, server
  <2>2. QED
    BY <1>2, <1>4, <2>1 DEF ClientShutdown
<1>5. CASE ClientAbort(c)
  <2>1. TypeOK'
    BY <1>5 DEF LoopInvariant, TypeOK, ClientAbort, server
  <2>2. QED
    BY <1>2, <1>5, <2>1 DEF ClientAbort
<1>6. CASE ClientRead(c)
  <2>1. TypeOK'
    BY <1>6 DEF LoopInvariant, TypeOK, ClientRead, server
  <2>2. QED
    BY <1>2, <1>6, <2>1 DEF ClientRead
<1>7. QED
  BY <1>1, <1>3, <1>4, <1>5, <1>6 DEF Client

\* select() and a failed accept() leave table and connections as they are;
\* select() reports only descriptors that have a state.
LEMMA SelectKeepsInvariant ==
  ASSUME LoopInvariant, Select \/ AcceptError
  PROVE  LoopInvariant'
<1>1. UNCHANGED <<state, fd, phase, channel>>
  BY DEF Select, AcceptError
<1>2. CursorsOrdered' /\ TableMatchesDescriptors'
  BY <1>1 DEF LoopInvariant, CursorsOrdered, TableMatchesDescriptors
<1>3. /\ RoundConsistent' /\ rset' \subseteq Slots /\ wset' \subseteq Slots
      /\ i' \in Slots
      /\ pc' \in {"select", "accept", "read", "write"}
  <2>0. 0 \in Slots
    BY DEF Slots
  <2>1. CASE Select
    <3> DEFINE R == {f \in Slots : state[f] # NULL /\ HasInput(ConnOf(f))}
               W == {f \in Slots : state[f] # NULL /\ WriteReady(f)}
    <3>1. \A f \in R \cup W : state'[f] # NULL
      BY <1>1
    <3>2. R \in SUBSET Slots /\ W \in SUBSET Slots
      OBVIOUS
    <3>3. CASE /\ pc' = "accept" /\ i' = 0 /\ rset' = R /\ wset' = W
      BY <2>0, <3>1, <3>2, <3>3 DEF RoundConsistent, HandlersHaveState
    <3>4. CASE Continue(0, R, W)
      <4> HIDE DEF R, W
      <4>1. RoundConsistent'
        BY <2>0, <3>1, <3>2, <3>4, ContinueIsConsistent
      <4>2. QED
        BY <2>0, <3>2, <3>4, <4>1, ContinueProceeds
    <3>5. QED
      BY <2>1, <3>3, <3>4 DEF Select
  <2>2. CASE AcceptError
    <3>1. \A g \in rset \cup wset : state'[g] # NULL
      BY <1>1, <2>2 DEF LoopInvariant, RoundConsistent, AcceptError
    <3>2. rset \in SUBSET Slots /\ wset \in SUBSET Slots /\ Continue(0, rset, wset)
      BY <2>2 DEF LoopInvariant, TypeOK, AcceptError
    <3>3. RoundConsistent'
      BY <2>0, <3>1, <3>2, ContinueIsConsistent
    <3>4. QED
      BY <2>0, <3>2, <3>3, ContinueProceeds
  <2>3. QED
    BY <2>1, <2>2
<1>4. TypeOK'
  BY <1>1, <1>3 DEF LoopInvariant, TypeOK, channel
<1>5. QED
  BY <1>2, <1>3, <1>4 DEF LoopInvariant

\* accept() hands out a descriptor no connection has; the state it allocates
\* is the first of that slot, or lands outside the table.
LEMMA AcceptKeepsInvariant ==
  ASSUME LoopInvariant, NEW c \in Conns, Accept(c)
  PROVE  LoopInvariant'
<1> DEFINE new == Min(FreeFds)
<1>0. 0 \in Slots /\ Slots \subseteq Nat /\ alloc_fd_state \in FdState
      /\ Ordered(alloc_fd_state) /\ NULL \notin FdState
  BY DEF Slots, alloc_fd_state, FdState, Ordered
<1>1. /\ phase[c] = "backlog" /\ fd[c] = 0
      /\ pc = "accept" /\ UNCHANGED channel
      /\ FreeFds # {}
  BY DEF Accept, AcceptOpen, AcceptRefuse, AcceptPastEnd, LoopInvariant,
         TableMatchesDescriptors
<1>2. new \in 1 .. NOFILE - 1 /\ \A d \in Conns : fd[d] # new
  BY <1>1, FreshDescriptor DEF LoopInvariant
<1>3. /\ \A f \in rset \cup wset : state[f] # NULL
      /\ rset \in SUBSET Slots /\ wset \in SUBSET Slots
  BY <1>1 DEF LoopInvariant, RoundConsistent, TypeOK
<1> HIDE DEF new
<1>4. CASE AcceptOpen(c)
  <2>1. /\ fd' = [fd EXCEPT ![c] = new]
        /\ phase' = [phase EXCEPT ![c] = "open"]
        /\ state' = [state EXCEPT ![new] = alloc_fd_state]
        /\ Continue(0, rset, wset)
        /\ new < FD_SETSIZE
    BY <1>4 DEF AcceptOpen, new
  <2>2. new \in Slots
    BY <1>2, <2>1 DEF Slots
  <2>3. /\ state' \in [Slots -> FdState \cup {NULL}]
        /\ CursorsOrdered'
    BY <1>0, <2>1, <2>2 DEF LoopInvariant, TypeOK, CursorsOrdered
  <2>4. TableMatchesDescriptors'
    <3>1. \A d \in Conns : fd'[d] = IF d = c THEN new ELSE fd[d]
      BY <2>1 DEF LoopInvariant, TypeOK
    <3>2. \A d \in Conns : phase'[d] = IF d = c THEN "open" ELSE phase[d]
      BY <2>1 DEF LoopInvariant, TypeOK
    <3>3. \A f \in Slots : state'[f] = IF f = new THEN alloc_fd_state ELSE state[f]
      BY <2>1 DEF LoopInvariant, TypeOK
    <3>4. new # 0 /\ alloc_fd_state # NULL
      BY <1>0, <1>2
    <3>5. QED
      BY <1>1, <1>2, <3>1, <3>2, <3>3, <3>4
      DEF LoopInvariant, TableMatchesDescriptors
  <2>5. \A f \in rset \cup wset : state'[f] # NULL
    BY <1>0, <1>3, <2>1, <2>2 DEF LoopInvariant, TypeOK
  <2>6. RoundConsistent'
    BY <1>0, <1>3, <2>1, <2>5, ContinueIsConsistent
  <2>7. TypeOK'
    <3>1. /\ pc' \in {"select", "read", "write"}
          /\ i' \in Slots /\ rset' \subseteq Slots /\ wset' \subseteq Slots
      BY <1>0, <1>3, <2>1, ContinueProceeds
    <3>2. new \in 0 .. NOFILE - 1
      BY <1>2
    <3>3. QED
      BY <1>1, <2>1, <2>3, <3>1, <3>2 DEF LoopInvariant, TypeOK, channel
  <2>8. QED
    BY <2>3, <2>4, <2>6, <2>7 DEF LoopInvariant
<1>5. CASE AcceptRefuse(c)
  <2>1. /\ phase' = [phase EXCEPT ![c] = "closed"]
        /\ UNCHANGED <<state, fd>>
        /\ Continue(0, rset, wset)
    BY <1>5 DEF AcceptRefuse
  <2>2. CursorsOrdered'
    BY <2>1 DEF LoopInvariant, CursorsOrdered
  <2>3. TableMatchesDescriptors'
    BY <1>1, <2>1 DEF LoopInvariant, TableMatchesDescriptors, TypeOK
  <2>4. RoundConsistent'
    BY <1>0, <1>3, <2>1, ContinueIsConsistent
  <2>5. TypeOK'
    <3>1. /\ pc' \in {"select", "read", "write"}
          /\ i' \in Slots /\ rset' \subseteq Slots /\ wset' \subseteq Slots
      BY <1>0, <1>3, <2>1, ContinueProceeds
    <3>2. QED
      BY <1>1, <2>1, <3>1 DEF LoopInvariant, TypeOK, channel
  <2>6. QED
    BY <2>2, <2>3, <2>4, <2>5 DEF LoopInvariant
<1>6. CASE ProcessEnds
  BY <1>1, <1>6, EndKeepsInvariant
<1>7. CASE AcceptPastEnd(c) /\ ~ProcessEnds
  <2>1. /\ fd' = [fd EXCEPT ![c] = FD_SETSIZE]
        /\ phase' = [phase EXCEPT ![c] = "open"]
        /\ UNCHANGED state
        /\ new = FD_SETSIZE
        /\ Continue(0, rset, wset)
    BY <1>7 DEF AcceptPastEnd, new
  <2>2. CursorsOrdered'
    BY <2>1 DEF LoopInvariant, CursorsOrdered
  <2>3. TableMatchesDescriptors'
    <3>1. \A d \in Conns : fd'[d] = IF d = c THEN new ELSE fd[d]
      BY <2>1 DEF LoopInvariant, TypeOK
    <3>2. \A d \in Conns : phase'[d] = IF d = c THEN "open" ELSE phase[d]
      BY <2>1 DEF LoopInvariant, TypeOK
    <3>3. new # 0 /\ new \notin Slots
      BY <1>2, <2>1 DEF Slots
    <3>4. QED
      BY <1>1, <1>2, <2>1, <3>1, <3>2, <3>3
      DEF LoopInvariant, TableMatchesDescriptors
  <2>4. /\ RoundConsistent' /\ i' \in Slots
        /\ pc' \in {"select", "read", "write"}
        /\ rset' \subseteq Slots /\ wset' \subseteq Slots
    <3>1. RoundConsistent'
      BY <1>0, <1>3, <2>1, ContinueIsConsistent
    <3>2. QED
      BY <1>0, <1>3, <2>1, <3>1, ContinueProceeds
  <2>5. TypeOK'
    <3>1. new \in 0 .. NOFILE - 1
      BY <1>2
    <3>2. QED
      BY <1>1, <2>1, <2>4, <3>1 DEF LoopInvariant, TypeOK, channel
  <2>6. QED
    BY <2>2, <2>3, <2>4, <2>5 DEF LoopInvariant
<1>8. QED
  BY <1>4, <1>5, <1>6, <1>7 DEF Accept

\* Closing frees the slot and the descriptor together; the descriptors still
\* to be handled in the round are others.
LEMMA CloseKeepsInvariant ==
  ASSUME LoopInvariant, NEW c \in Conns, RecvEnd(c) \/ SendError(c), ~ProcessEnds
  PROVE  LoopInvariant'
<1>1. /\ pc \in {"read", "write"} /\ fd[c] = i
      /\ state' = [state EXCEPT ![i] = NULL]
      /\ fd' = [fd EXCEPT ![c] = 0]
      /\ phase' = [phase EXCEPT ![c] = "closed"]
      /\ Continue(i, rset, wset)
      /\ UNCHANGED channel
  BY DEF RecvEnd, SendError, Close
<1>2. /\ i \in Slots /\ i # 0
      /\ \A d \in Conns : fd[d] = i => d = c
      /\ \A g \in rset \cup wset : g > i => state[g] # NULL
  BY <1>1, HandlerOfConnection
<1>3. rset \in SUBSET Slots /\ wset \in SUBSET Slots /\ Slots \subseteq Nat
  BY DEF LoopInvariant, TypeOK, Slots
<1>4. state' \in [Slots -> FdState \cup {NULL}] /\ CursorsOrdered'
  BY <1>1, <1>2 DEF LoopInvariant, TypeOK, CursorsOrdered
<1>5. TableMatchesDescriptors'
  <2>1. \A d \in Conns : fd'[d] = IF d = c THEN 0 ELSE fd[d]
    BY <1>1 DEF LoopInvariant, TypeOK
  <2>2. \A d \in Conns : phase'[d] = IF d = c THEN "closed" ELSE phase[d]
    BY <1>1 DEF LoopInvariant, TypeOK
  <2>3. \A f \in Slots : state'[f] = IF f = i THEN NULL ELSE state[f]
    BY <1>1 DEF LoopInvariant, TypeOK
  <2>4. QED
    BY <1>1, <1>2, <2>1, <2>2, <2>3 DEF LoopInvariant, TableMatchesDescriptors
<1>6. \A g \in rset \cup wset : g > i => state'[g] # NULL
  BY <1>1, <1>2, <1>3 DEF LoopInvariant, TypeOK
<1>7. RoundConsistent'
  BY <1>1, <1>2, <1>3, <1>6, ContinueIsConsistent
<1>8. TypeOK'
  <2>1. /\ pc' \in {"select", "read", "write"}
        /\ i' \in Slots /\ rset' \subseteq Slots /\ wset' \subseteq Slots
    BY <1>1, <1>2, <1>3, ContinueProceeds
  <2>2. 0 \in 0 .. NOFILE - 1
    OBVIOUS
  <2>3. QED
    BY <1>1, <1>4, <2>1, <2>2 DEF LoopInvariant, TypeOK, channel
<1>9. QED
  BY <1>4, <1>5, <1>7, <1>8 DEF LoopInvariant

\* Replacing the running handler's state by another ordered one.
LEMMA UpdateKeepsInvariant ==
  ASSUME LoopInvariant, NEW c \in Conns, fd[c] = i, pc \in {"read", "write"},
         NEW s \in FdState, Ordered(s),
         state' = [state EXCEPT ![i] = s], UNCHANGED <<fd, phase>>
  PROVE  /\ state' \in [Slots -> FdState \cup {NULL}]
         /\ CursorsOrdered' /\ TableMatchesDescriptors'
         /\ \A g \in Slots : state[g] # NULL => state'[g] # NULL
<1>1. i \in Slots /\ state[i] # NULL /\ s # NULL
  BY HandlerOfConnection
<1>2. \A g \in Slots : state'[g] = IF g = i THEN s ELSE state[g]
  BY DEF LoopInvariant, TypeOK
<1>3. state' \in [Slots -> FdState \cup {NULL}]
  BY <1>1 DEF LoopInvariant, TypeOK
<1>4. CursorsOrdered'
  BY <1>1, <1>2 DEF LoopInvariant, CursorsOrdered
<1>5. TableMatchesDescriptors'
  BY <1>1, <1>2 DEF LoopInvariant, TableMatchesDescriptors
<1>6. QED
  BY <1>1, <1>2, <1>3, <1>4, <1>5

\* What recv() returns in one call.
LEMMA ChunkIs ==
  ASSUME LoopInvariant, NEW c \in Conns, RecvData(c)
  PROVE  \E n \in 1 .. Len(sent[c]) - taken[c] :
           LET chunk == SubSeq(sent[c], taken[c] + 1, taken[c] + n)
           IN  /\ chunk \in Seq(Byte) /\ Len(chunk) = n /\ chunk # <<>>
               /\ taken' = [taken EXCEPT ![c] = @ + n]
               /\ state' = [state EXCEPT ![i] = Absorb(state[i], chunk)]
<1>1. /\ sent[c] \in Seq(Byte) /\ taken[c] \in Nat /\ Len(sent[c]) \in Nat
      /\ RECV_MAX \in Int
  <2>1. sent[c] \in Seq(Bytes) /\ Bytes \subseteq Byte
    BY DEF LoopInvariant, TypeOK
  <2>2. sent[c] \in Seq(Byte)
    BY <2>1
  <2>3. QED
    BY <2>2, LenProperties DEF LoopInvariant, TypeOK
<1>2. PICK n \in 1 .. Min({RECV_MAX, Len(sent[c]) - taken[c]}) :
         /\ taken' = [taken EXCEPT ![c] = @ + n]
         /\ state' = [state EXCEPT ![i] = Absorb(state[i], SubSeq(sent[c], taken[c] + 1, taken[c] + n))]
  BY DEF RecvData
<1>3. n \in 1 .. Len(sent[c]) - taken[c] /\ n \in Nat
  <2>1. /\ Min({RECV_MAX, Len(sent[c]) - taken[c]}) \in {RECV_MAX, Len(sent[c]) - taken[c]}
        /\ Min({RECV_MAX, Len(sent[c]) - taken[c]}) <= Len(sent[c]) - taken[c]
    BY <1>1, MinOfPair
  <2>2. QED
    BY <1>1, <2>1
<1>4. SubSeq(sent[c], taken[c] + 1, taken[c] + n) \in Seq(Byte)
      /\ Len(SubSeq(sent[c], taken[c] + 1, taken[c] + n)) = n
  <2> DEFINE q == sent[c]
             a == taken[c]
  <2>1. q \in Seq(Byte) /\ a \in Nat /\ n \in Nat /\ a + n <= Len(q)
    BY <1>1, <1>3
  <2> HIDE DEF q, a
  <2>2. SubSeq(q, a + 1, a + n) \in Seq(Byte) /\ Len(SubSeq(q, a + 1, a + n)) = n
    BY <2>1, PieceIs
  <2>3. QED
    BY <2>2 DEF q, a
<1>5. SubSeq(sent[c], taken[c] + 1, taken[c] + n) # <<>>
  <2> DEFINE chunk == SubSeq(sent[c], taken[c] + 1, taken[c] + n)
  <2>1. Len(chunk) = n /\ n > 0
    BY <1>3, <1>4
  <2> HIDE DEF chunk
  <2>2. chunk # <<>>
    BY <2>1
  <2>3. QED
    BY <2>2 DEF chunk
<1>6. QED
  BY <1>2, <1>3, <1>4, <1>5

LEMMA RecvDataKeepsInvariant ==
  ASSUME LoopInvariant, NEW c \in Conns, RecvData(c)
  PROVE  LoopInvariant'
<1>1. PICK n \in 1 .. Len(sent[c]) - taken[c] :
         LET chunk == SubSeq(sent[c], taken[c] + 1, taken[c] + n)
         IN  /\ chunk \in Seq(Byte) /\ Len(chunk) = n /\ chunk # <<>>
             /\ taken' = [taken EXCEPT ![c] = @ + n]
             /\ state' = [state EXCEPT ![i] = Absorb(state[i], chunk)]
  BY ChunkIs
<1> DEFINE chunk == SubSeq(sent[c], taken[c] + 1, taken[c] + n)
<1>2. taken[c] \in Nat /\ n \in Nat /\ taken[c] + n \in Nat
  BY DEF LoopInvariant, TypeOK
<1>3. chunk \in Seq(Byte)
  BY <1>1
<1>4. /\ pc = "read" /\ fd[c] = i
      /\ taken' = [taken EXCEPT ![c] = taken[c] + n]
      /\ state' = [state EXCEPT ![i] = Absorb(state[i], chunk)]
      /\ UNCHANGED <<fd, phase, pc, i, rset, wset, sent, shut, reset, out, got, rushed>>
  BY <1>1 DEF RecvData
<1> HIDE DEF chunk
<1>5. Absorb(state[i], chunk) \in FdState /\ Ordered(Absorb(state[i], chunk))
  BY <1>3, <1>4, HandlerOfConnection, AbsorbKeepsOrder
<1>6. /\ state' \in [Slots -> FdState \cup {NULL}]
      /\ CursorsOrdered' /\ TableMatchesDescriptors'
      /\ \A g \in Slots : state[g] # NULL => state'[g] # NULL
  BY <1>4, <1>5, UpdateKeepsInvariant
<1>7. RoundConsistent'
  BY <1>4, <1>6 DEF LoopInvariant, TypeOK, RoundConsistent, HandlersHaveState
<1>8. TypeOK'
  <2>1. taken' \in [Conns -> Nat]
    BY <1>2, <1>4 DEF LoopInvariant, TypeOK
  <2>2. QED
    BY <1>4, <1>6, <2>1 DEF LoopInvariant, TypeOK
<1>9. QED
  BY <1>6, <1>7, <1>8 DEF LoopInvariant

LEMMA SendDataKeepsInvariant ==
  ASSUME LoopInvariant, NEW c \in Conns, SendData(c)
  PROVE  LoopInvariant'
<1> DEFINE n == Min({Unsent(state[i]), Room(c)})
           w == state[i].n_written
           s == [state[i] EXCEPT !.n_written = w + n]
<1>1. /\ pc = "write" /\ fd[c] = i
      /\ Unsent(state[i]) > 0 /\ Room(c) > 0
      /\ out' = [out EXCEPT ![c] = out[c] \o SubSeq(state[i].buffer, w + 1, w + n)]
      /\ state' = [state EXCEPT ![i] = s]
      /\ UNCHANGED <<fd, phase, pc, i, rset, wset, sent, taken, shut, reset, got, rushed>>
  BY DEF SendData
<1>2. state[i] \in FdState /\ Ordered(state[i]) /\ i \in Slots
  BY <1>1, HandlerOfConnection
<1>3. /\ state[i].buffer \in Seq(Byte) /\ Len(state[i].buffer) \in Nat
      /\ w \in Nat /\ state[i].write_upto \in Nat
      /\ w <= state[i].write_upto
      /\ state[i].write_upto <= Len(state[i].buffer)
      /\ Len(state[i].buffer) <= MAX_LINE
  BY <1>2 DEF FdState, Ordered
<1>4. n \in Nat /\ w + n <= state[i].write_upto
  <2>1. Unsent(state[i]) = state[i].write_upto - w
    BY DEF Unsent
  <2>2. Unsent(state[i]) \in Int
    BY <1>3, <2>1
  <2>3. Room(c) \in Int
    BY DEF Room, LoopInvariant, TypeOK
  <2>4. n \in Nat \ {0} /\ n <= Unsent(state[i])
    BY <1>1, <2>2, <2>3, MinOfPositives, Zenon
  <2> HIDE DEF n, w
  <2>5. QED
    BY <1>3, <2>1, <2>4
<1> HIDE DEF n, w
<1>5. s \in FdState /\ Ordered(s)
  <2>1. w + n \in Nat
    BY <1>3, <1>4
  <2>2. /\ s \in FdState /\ s.n_written = w + n
        /\ s.buffer = state[i].buffer /\ s.write_upto = state[i].write_upto
    BY <1>2, <2>1 DEF FdState
  <2>3. QED
    BY <1>3, <1>4, <2>2 DEF Ordered
<1> HIDE DEF s
<1>6. /\ state' \in [Slots -> FdState \cup {NULL}]
      /\ CursorsOrdered' /\ TableMatchesDescriptors'
      /\ \A g \in Slots : state[g] # NULL => state'[g] # NULL
  BY <1>1, <1>5, UpdateKeepsInvariant
<1>7. out' \in [Conns -> Seq(Byte)]
  <2>1. SubSeq(state[i].buffer, w + 1, w + n) \in Seq(Byte)
    <3>1. \A j \in w + 1 .. w + n : state[i].buffer[j] \in Byte
      BY <1>3, <1>4
    <3>2. w + 1 \in Int /\ w + n \in Int
      BY <1>3, <1>4
    <3>3. QED
      BY <3>1, <3>2, SubSeqProperties
  <2>2. out[c] \o SubSeq(state[i].buffer, w + 1, w + n) \in Seq(Byte)
    BY <2>1, ConcatProperties DEF LoopInvariant, TypeOK
  <2>3. QED
    BY <1>1, <2>2 DEF LoopInvariant, TypeOK
<1>8. RoundConsistent'
  BY <1>1, <1>6 DEF LoopInvariant, TypeOK, RoundConsistent, HandlersHaveState
<1>9. TypeOK'
  BY <1>1, <1>6, <1>7 DEF LoopInvariant, TypeOK
<1>10. QED
  BY <1>6, <1>8, <1>9 DEF LoopInvariant

LEMMA SendDoneKeepsInvariant ==
  ASSUME LoopInvariant, NEW c \in Conns, SendDone(c)
  PROVE  LoopInvariant'
<1> DEFINE s == IF state[i].n_written = Len(state[i].buffer)
                THEN alloc_fd_state
                ELSE [state[i] EXCEPT !.writing = FALSE]
<1>1. /\ pc = "write" /\ fd[c] = i
      /\ state' = [state EXCEPT ![i] = s]
      /\ Continue(i, rset, wset)
      /\ UNCHANGED <<fd, phase, channel>>
  BY DEF SendDone
<1>2. /\ state[i] \in FdState /\ Ordered(state[i]) /\ i \in Slots
      /\ \A g \in rset \cup wset : g > i => state[g] # NULL
  BY <1>1, HandlerOfConnection
<1>3. s \in FdState /\ Ordered(s)
  <2>1. alloc_fd_state \in FdState /\ Ordered(alloc_fd_state)
    BY DEF alloc_fd_state, FdState, Ordered
  <2>2. /\ [state[i] EXCEPT !.writing = FALSE] \in FdState
        /\ Ordered([state[i] EXCEPT !.writing = FALSE])
    BY <1>2 DEF FdState, Ordered
  <2>3. QED
    BY <2>1, <2>2
<1> HIDE DEF s
<1>4. /\ state' \in [Slots -> FdState \cup {NULL}]
      /\ CursorsOrdered' /\ TableMatchesDescriptors'
      /\ \A g \in Slots : state[g] # NULL => state'[g] # NULL
  BY <1>1, <1>3, UpdateKeepsInvariant
<1>5. rset \in SUBSET Slots /\ wset \in SUBSET Slots
  BY DEF LoopInvariant, TypeOK
<1>6. RoundConsistent'
  BY <1>1, <1>2, <1>4, <1>5, ContinueIsConsistent
<1>7. TypeOK'
  <2>1. /\ pc' \in {"select", "read", "write"}
        /\ i' \in Slots /\ rset' \subseteq Slots /\ wset' \subseteq Slots
    BY <1>1, <1>2, <1>5, ContinueProceeds
  <2>2. QED
    BY <1>1, <1>4, <2>1 DEF LoopInvariant, TypeOK, channel
<1>8. QED
  BY <1>4, <1>6, <1>7 DEF LoopInvariant

\* EAGAIN of recv() or send(): only the place in the round changes.
LEMMA AgainKeepsInvariant ==
  ASSUME LoopInvariant, NEW c \in Conns, RecvAgain(c) \/ SendAgain(c)
  PROVE  LoopInvariant'
<1>1. /\ pc \in {"read", "write"} /\ fd[c] = i
      /\ UNCHANGED <<state, fd, phase, channel>>
      /\ \/ Continue(i, rset, wset)
         \/ pc' = "write" /\ UNCHANGED <<i, rset, wset>>
  BY DEF RecvAgain, SendAgain
<1>2. CursorsOrdered' /\ TableMatchesDescriptors'
  BY <1>1 DEF LoopInvariant, CursorsOrdered, TableMatchesDescriptors
<1>3. /\ RoundConsistent' /\ i' \in Slots
      /\ pc' \in {"select", "read", "write"}
      /\ rset' \subseteq Slots /\ wset' \subseteq Slots
  <2>1. CASE Continue(i, rset, wset)
    <3>1. /\ i \in Slots /\ \A g \in rset \cup wset : g > i => state'[g] # NULL
          /\ rset \in SUBSET Slots /\ wset \in SUBSET Slots
      BY <1>1, HandlerOfConnection DEF LoopInvariant, TypeOK
    <3>2. RoundConsistent'
      BY <2>1, <3>1, ContinueIsConsistent
    <3>3. QED
      BY <2>1, <3>1, <3>2, ContinueProceeds
  <2>2. CASE pc' = "write" /\ UNCHANGED <<i, rset, wset>>
    BY <1>1, <2>2 DEF LoopInvariant, TypeOK, RoundConsistent, HandlersHaveState
  <2>3. QED
    BY <1>1, <2>1, <2>2
<1>4. TypeOK'
  BY <1>1, <1>3 DEF LoopInvariant, TypeOK, channel
<1>5. QED
  BY <1>2, <1>3, <1>4 DEF LoopInvariant

LEMMA InitEstablishesInvariant == Init => LoopInvariant
<1> SUFFICES ASSUME Init PROVE LoopInvariant
  OBVIOUS
<1>1. 0 \in Slots /\ 0 \in 0 .. NOFILE - 1 /\ NULL \notin FdState
  BY DEF Slots
<1>2. TypeOK
  BY <1>1 DEF Init, TypeOK
<1>3. CursorsOrdered /\ TableMatchesDescriptors /\ RoundConsistent
  BY <1>1 DEF Init, CursorsOrdered, TableMatchesDescriptors, RoundConsistent,
              HandlersHaveState
<1>4. QED
  BY <1>2, <1>3 DEF LoopInvariant

LEMMA StepKeepsInvariant == LoopInvariant /\ [Next]_vars => LoopInvariant'
<1> SUFFICES ASSUME LoopInvariant, [Next]_vars PROVE LoopInvariant'
  OBVIOUS
<1>1. CASE run
  <2>1. CASE Select \/ SelectError \/ AcceptError
    BY <2>1, SelectKeepsInvariant, EndKeepsInvariant DEF SelectError
  <2>2. ASSUME NEW c \in Conns, Accept(c) \/ do_read(c) \/ do_write(c)
        PROVE  LoopInvariant'
    BY <2>2, EndKeepsInvariant, AcceptKeepsInvariant, CloseKeepsInvariant, RecvDataKeepsInvariant,
       SendDataKeepsInvariant, SendDoneKeepsInvariant, AgainKeepsInvariant
    DEF do_read, do_write, RecvEnd, SendError
  <2>3. QED
    BY <1>1, <2>1, <2>2 DEF run
<1>2. CASE \E c \in Conns : Client(c)
  BY <1>2, ClientKeepsInvariant
<1>3. CASE UNCHANGED vars
  BY <1>3 DEF vars, server, channel, LoopInvariant, TypeOK, CursorsOrdered,
              TableMatchesDescriptors, RoundConsistent, HandlersHaveState
<1>4. QED
  BY <1>1, <1>2, <1>3 DEF Next

\* The loop keeps its table, cursors and round consistent for ever: run's
\* handlers never meet an empty slot, do_write never sends bytes that were
\* not stored, and no two open connections share a descriptor.
THEOREM LoopSafe == Spec => []LoopInvariant
BY InitEstablishesInvariant, StepKeepsInvariant, PTL DEF Spec

\* The parts of the invariant the runs check, for every value of the
\* constants.
THEOREM TypeCorrect == Spec => []TypeOK
<1>1. LoopInvariant => TypeOK
  BY DEF LoopInvariant
<1>2. QED
  BY <1>1, LoopSafe, PTL

\* do_read and do_write keep n_written, write_upto and buffer_used ordered.
THEOREM CursorsStayOrdered == Spec => []CursorsOrdered
<1>1. LoopInvariant => CursorsOrdered
  BY DEF LoopInvariant
<1>2. QED
  BY <1>1, LoopSafe, PTL

\* The table of run and the descriptors of the process stay in step.
THEOREM TableStaysMatched == Spec => []TableMatchesDescriptors
<1>1. LoopInvariant => TableMatchesDescriptors
  BY DEF LoopInvariant
<1>2. QED
  BY <1>1, LoopSafe, PTL

\* No handler of a round dereferences a NULL state.
THEOREM HandlersAlwaysHaveState == Spec => []HandlersHaveState
<1>1. LoopInvariant => HandlersHaveState
  BY DEF LoopInvariant, RoundConsistent
<1>2. QED
  BY <1>1, LoopSafe, PTL

-----------------------------------------------------------------------------
(* No line is left behind. *)

\* Behind write_upto no line ends, and a state that is not writing has sent
\* everything before it.
Settled(s) ==
  /\ \A k \in s.write_upto + 1 .. Len(s.buffer) : s.buffer[k] # NewLine
  /\ ~s.writing => s.n_written = s.write_upto

LinesSettled == \A f \in Slots : state[f] # NULL => Settled(state[f])

\* Bytes stored behind the last newline of a chunk end no line, and a chunk
\* with a newline sets writing.
LEMMA AbsorbSettles ==
  ASSUME NEW s \in FdState, Ordered(s), Settled(s), NEW chunk \in Seq(Byte)
  PROVE  Settled(Absorb(s, chunk))
<1> DEFINE n == Min({Len(chunk), MAX_LINE - Len(s.buffer)})
<1>1. /\ s.buffer \in Seq(Byte) /\ Len(s.buffer) \in Nat
      /\ s.n_written \in Nat /\ s.write_upto \in Nat
      /\ s.writing \in BOOLEAN /\ MAX_LINE \in Nat
      /\ s.n_written <= s.write_upto /\ s.write_upto <= Len(s.buffer)
      /\ Len(s.buffer) <= MAX_LINE
  BY DEF FdState, Ordered
<1>2. n = IF Len(chunk) <= MAX_LINE - Len(s.buffer)
          THEN Len(chunk) ELSE MAX_LINE - Len(s.buffer)
  <2>1. Len(chunk) \in Int /\ MAX_LINE - Len(s.buffer) \in Int
    BY <1>1
  <2>2. QED
    BY <2>1, MinOfPair, Zenon
<1> HIDE DEF n
<1>3. n \in Nat /\ n <= Len(chunk) /\ Len(s.buffer) + n <= MAX_LINE
  <2> DEFINE l == Len(chunk)
             b == Len(s.buffer)
  <2>1. /\ l \in Nat /\ b \in Nat /\ MAX_LINE \in Nat /\ b <= MAX_LINE
        /\ n = IF l <= MAX_LINE - b THEN l ELSE MAX_LINE - b
    BY <1>1, <1>2
  <2> HIDE DEF l, b
  <2>2. n \in Nat /\ n <= l /\ b + n <= MAX_LINE
    BY <2>1
  <2>3. QED
    BY <2>2 DEF l, b
<1> DEFINE a == Absorb(s, chunk)
<1>4. /\ Stored(s, chunk) \in Seq(Byte) /\ Len(Stored(s, chunk)) = n
      /\ \A k \in 1 .. n : Stored(s, chunk)[k] = rot13_char(chunk[k])
  <2>1. /\ Rot13Of(chunk) \in Seq(Byte)
        /\ Len(Rot13Of(chunk)) = Len(chunk)
        /\ \A k \in 1 .. Len(chunk) : Rot13Of(chunk)[k] = rot13_char(chunk[k])
    BY Rot13OfSeq
  <2>2. Stored(s, chunk) = SubSeq(Rot13Of(chunk), 1, n)
    BY DEF Stored, n
  <2>3. /\ SubSeq(Rot13Of(chunk), 1, n) \in Seq(Byte)
        /\ Len(SubSeq(Rot13Of(chunk), 1, n)) = n
        /\ \A k \in 1 .. n : SubSeq(Rot13Of(chunk), 1, n)[k] = Rot13Of(chunk)[k]
    BY <1>3, <2>1
  <2>4. QED
    BY <1>3, <2>1, <2>2, <2>3
<1>5. /\ a.buffer = s.buffer \o Stored(s, chunk)
      /\ a.n_written = s.n_written
      /\ a.writing = (s.writing \/ NewLinesIn(chunk) # {})
      /\ a.write_upto = IF NewLinesIn(chunk) = {} THEN s.write_upto ELSE UptoAfter(s, chunk)
  BY DEF Absorb, FdState
<1> HIDE DEF a
<1>6. /\ Len(a.buffer) = Len(s.buffer) + n
      /\ \A k \in 1 .. Len(s.buffer) : a.buffer[k] = s.buffer[k]
      /\ \A k \in Len(s.buffer) + 1 .. Len(a.buffer) :
            a.buffer[k] = rot13_char(chunk[k - Len(s.buffer)]) /\ k - Len(s.buffer) \in 1 .. n
  <2> DEFINE t == Stored(s, chunk)
             u == s.buffer \o t
  <2>1. t \in Seq(Byte) /\ Len(t) = n /\ \A k \in 1 .. n : t[k] = rot13_char(chunk[k])
    BY <1>4
  <2>2. a.buffer = u
    BY <1>5
  <2> HIDE DEF t
  <2>3. Len(u) = Len(s.buffer) + n
    BY <1>1, <2>1, ConcatProperties
  <2>4. \A k \in 1 .. Len(s.buffer) : u[k] = s.buffer[k]
    BY <1>1, <2>1
  <2>5. ASSUME NEW k \in Len(s.buffer) + 1 .. Len(s.buffer) + n
        PROVE  u[k] = t[k - Len(s.buffer)] /\ k - Len(s.buffer) \in 1 .. n
    BY SMTT(20), <1>1, <1>3, <2>1
  <2> HIDE DEF u
  <2>6. QED
    BY <2>1, <2>2, <2>3, <2>4, <2>5
<1>7. \A k \in 1 .. n : chunk[k] \in Byte /\ (k \notin NewLinesIn(chunk) => rot13_char(chunk[k]) # NewLine)
  BY <1>3, Rot13Involution DEF NewLinesIn
<1>8. ASSUME NewLinesIn(chunk) = {} PROVE Settled(a)
  <2>1. ASSUME NEW k \in a.write_upto + 1 .. Len(a.buffer)
        PROVE  a.buffer[k] # NewLine
    <3>1. CASE k <= Len(s.buffer)
      <4>1. k \in s.write_upto + 1 .. Len(s.buffer) /\ k \in 1 .. Len(s.buffer)
        BY <1>1, <1>3, <1>5, <1>6, <1>8, <3>1
      <4>2. QED
        BY <1>6, <4>1 DEF Settled
    <3>2. CASE k > Len(s.buffer)
      <4>1. k \in Len(s.buffer) + 1 .. Len(a.buffer)
        BY <1>1, <1>3, <1>5, <1>6, <1>8, <3>2
      <4>2. QED
        BY <1>6, <1>7, <1>8, <4>1
    <3>3. QED
      BY <1>1, <1>5, <1>8, <3>1, <3>2
  <2>2. ~a.writing => a.n_written = a.write_upto
    BY <1>5, <1>8 DEF Settled
  <2>3. QED
    BY <2>1, <2>2 DEF Settled
<1>9. ASSUME NewLinesIn(chunk) # {} PROVE Settled(a)
  <2> DEFINE last == Max(NewLinesIn(chunk))
  <2>1. last \in 1 .. Len(chunk) /\ \A k \in NewLinesIn(chunk) : k <= last
    <3>1. NewLinesIn(chunk) \subseteq 1 .. Len(chunk) /\ Len(chunk) \in Nat
      BY DEF NewLinesIn
    <3>2. QED
      BY <1>9, <3>1, MaxOfPositions
  <2>2. a.write_upto = IF Len(s.buffer) + last <= MAX_LINE THEN Len(s.buffer) + last ELSE MAX_LINE
    <3>1. Len(s.buffer) + last \in Int /\ MAX_LINE \in Int
      BY <1>1, <2>1
    <3>2. QED
      BY <1>5, <1>9, <3>1, MinOfPair, Zenon DEF UptoAfter
  <2> HIDE DEF last
  <2>3. ASSUME NEW k \in a.write_upto + 1 .. Len(a.buffer)
        PROVE  a.buffer[k] # NewLine
    <3>1. k > Len(s.buffer) + last /\ k \in Len(s.buffer) + 1 .. Len(a.buffer)
      <4>1. /\ k \in Int /\ k > a.write_upto /\ k <= MAX_LINE
            /\ k <= Len(a.buffer) /\ Len(a.buffer) \in Int
        BY <1>1, <1>3, <1>6, <2>1, <2>2
      <4>2. Len(s.buffer) + last <= MAX_LINE
        BY <1>1, <2>1, <2>2, <4>1
      <4>3. QED
        BY <1>1, <2>1, <2>2, <4>1, <4>2
    <3>2. k - Len(s.buffer) > last /\ k - Len(s.buffer) \in 1 .. n
      BY <1>1, <1>6, <2>1, <3>1
    <3>3. k - Len(s.buffer) \notin NewLinesIn(chunk)
      BY <1>3, <2>1, <3>2
    <3>4. QED
      BY <1>6, <1>7, <3>1, <3>2, <3>3
  <2>4. a.writing
    BY <1>5, <1>9
  <2>5. QED
    BY <2>3, <2>4 DEF Settled
<1>10. QED
  BY <1>8, <1>9 DEF a

LEMMA StepKeepsLinesSettled ==
  LoopInvariant /\ LinesSettled /\ [Next]_vars => LinesSettled'
<1> SUFFICES ASSUME LoopInvariant, LinesSettled, [Next]_vars PROVE LinesSettled'
  OBVIOUS
<1>1. ASSUME UNCHANGED state PROVE LinesSettled'
  BY <1>1 DEF LinesSettled
<1>2. ASSUME NEW f \in Slots, NEW s, state' = [state EXCEPT ![f] = s], s = NULL \/ Settled(s)
      PROVE  LinesSettled'
  BY <1>2 DEF LinesSettled, LoopInvariant, TypeOK
<1>3. CASE run
  <2>0. CASE ProcessEnds
    BY <2>0 DEF ProcessEnds, LinesSettled
  <2>1. CASE Select \/ SelectError \/ AcceptError
    BY <1>1, <2>0, <2>1 DEF Select, SelectError, AcceptError
  <2>2. ASSUME NEW c \in Conns, Accept(c) PROVE LinesSettled'
    <3>1. CASE AcceptOpen(c)
      <4>1. Settled(alloc_fd_state)
        BY DEF Settled, alloc_fd_state
      <4>2. Min(FreeFds) \in Slots /\ state' = [state EXCEPT ![Min(FreeFds)] = alloc_fd_state]
        BY <3>1, FreshDescriptor DEF AcceptOpen, LoopInvariant, Slots
      <4>3. QED
        BY <1>2, <4>1, <4>2
    <3>2. QED
      BY <1>1, <2>0, <2>2, <3>1 DEF Accept, AcceptRefuse, AcceptPastEnd
  <2>3. ASSUME NEW c \in Conns, RecvEnd(c) \/ SendError(c) PROVE LinesSettled'
    BY <1>2, <2>0, <2>3, HandlerOfConnection DEF RecvEnd, SendError, Close
  <2>4. ASSUME NEW c \in Conns, RecvAgain(c) \/ SendAgain(c) PROVE LinesSettled'
    BY <1>1, <2>4 DEF RecvAgain, SendAgain
  <2>5. ASSUME NEW c \in Conns, RecvData(c) PROVE LinesSettled'
    <3>1. PICK n \in 1 .. Len(sent[c]) - taken[c] :
             LET chunk == SubSeq(sent[c], taken[c] + 1, taken[c] + n)
             IN  /\ chunk \in Seq(Byte) /\ Len(chunk) = n /\ chunk # <<>>
                 /\ taken' = [taken EXCEPT ![c] = @ + n]
                 /\ state' = [state EXCEPT ![i] = Absorb(state[i], chunk)]
      BY <2>5, ChunkIs
    <3> DEFINE chunk == SubSeq(sent[c], taken[c] + 1, taken[c] + n)
    <3>2. state[i] \in FdState /\ Ordered(state[i]) /\ i \in Slots /\ state[i] # NULL
      BY <2>5, HandlerOfConnection DEF RecvData
    <3>3. chunk \in Seq(Byte) /\ state' = [state EXCEPT ![i] = Absorb(state[i], chunk)]
      BY <3>1
    <3> HIDE DEF chunk
    <3>4. Settled(Absorb(state[i], chunk))
      BY <3>2, <3>3, AbsorbSettles DEF LinesSettled
    <3>5. QED
      BY <1>2, <3>2, <3>3, <3>4
  <2>6. ASSUME NEW c \in Conns, SendData(c) PROVE LinesSettled'
    <3> DEFINE n == Min({Unsent(state[i]), Room(c)})
               s == [state[i] EXCEPT !.n_written = state[i].n_written + n]
    <3>1. /\ pc = "write" /\ fd[c] = i /\ Unsent(state[i]) > 0
          /\ state' = [state EXCEPT ![i] = s]
      BY <2>6 DEF SendData
    <3>2. state[i] \in FdState /\ i \in Slots /\ state[i] # NULL
      BY <3>1, HandlerOfConnection
    <3>3. Settled(state[i])
      BY <3>2 DEF LinesSettled
    <3>4. state[i].writing
      BY <3>1, <3>2, <3>3 DEF Settled, Unsent, FdState
    <3>5. s.writing = state[i].writing /\ s.buffer = state[i].buffer /\ s.write_upto = state[i].write_upto
      BY <3>2 DEF FdState
    <3> HIDE DEF s
    <3>6. Settled(s)
      BY <3>3, <3>4, <3>5 DEF Settled
    <3>7. QED
      BY <1>2, <3>1, <3>2, <3>6
  <2>7. ASSUME NEW c \in Conns, SendDone(c) PROVE LinesSettled'
    <3> DEFINE s == [state[i] EXCEPT !.writing = FALSE]
    <3>1. /\ pc = "write" /\ fd[c] = i /\ Unsent(state[i]) <= 0
          /\ state' = [state EXCEPT ![i] = IF state[i].n_written = Len(state[i].buffer)
                                            THEN alloc_fd_state ELSE s]
      BY <2>7 DEF SendDone
    <3>2. state[i] \in FdState /\ Ordered(state[i]) /\ i \in Slots /\ state[i] # NULL
      BY <3>1, HandlerOfConnection
    <3>3. Settled(alloc_fd_state)
      BY DEF Settled, alloc_fd_state
    <3>4. /\ s.buffer = state[i].buffer /\ s.write_upto = state[i].write_upto
          /\ s.n_written = state[i].n_written
      BY <3>2 DEF FdState
    <3>5. state[i].n_written = state[i].write_upto
      BY <3>1, <3>2 DEF Ordered, Unsent, FdState
    <3> HIDE DEF s
    <3>6. Settled(s)
      BY <3>2, <3>4, <3>5 DEF Settled, LinesSettled
    <3>7. QED
      BY <1>2, <3>1, <3>2, <3>3, <3>6
  <2>8. QED
    BY <1>3, <2>0, <2>1, <2>2, <2>3, <2>4, <2>5, <2>6, <2>7 DEF run, do_read, do_write
<1>4. CASE \E c \in Conns : Client(c)
  BY <1>1, <1>4 DEF Client, ClientConnect, ClientWrite, ClientShutdown, ClientAbort, ClientRead, server
<1>5. CASE UNCHANGED vars
  BY <1>1, <1>5 DEF vars, server
<1>6. QED
  BY <1>3, <1>4, <1>5 DEF Next

LEMMA SettledServing ==
  LoopInvariant /\ LinesSettled => NoStrandedLine
<1> SUFFICES ASSUME LoopInvariant, LinesSettled, NEW c \in Conns, Serving(c), ~StateOf(c).writing
             PROVE  /\ StateOf(c).n_written = StateOf(c).write_upto
                    /\ NewLinesIn(Rest(c)) = {}
  BY DEF NoStrandedLine
<1> DEFINE s == state[fd[c]]
<1>1. fd[c] \in Slots /\ fd[c] # 0
  BY DEF Serving, Slots, LoopInvariant, TypeOK, TableMatchesDescriptors
<1>2. s # NULL
  BY <1>1 DEF LoopInvariant, TableMatchesDescriptors
<1>3. s \in FdState /\ Settled(s)
  BY <1>1, <1>2 DEF LoopInvariant, TypeOK, LinesSettled
<1>4. s.n_written = s.write_upto /\ StateOf(c) = s
  BY <1>3 DEF Settled, StateOf
<1> HIDE DEF s
<1>5. NewLinesIn(Rest(c)) = {}
  <2>1. Rest(c) = SubSeq(s.buffer, s.write_upto + 1, Len(s.buffer))
    BY <1>4 DEF Rest
  <2>2. s.buffer \in Seq(Byte) /\ s.write_upto \in Nat
    BY <1>3 DEF FdState
  <2>3. \A k \in 1 .. Len(Rest(c)) : s.write_upto + k \in s.write_upto + 1 .. Len(s.buffer)
                                    /\ Rest(c)[k] = s.buffer[s.write_upto + k]
    <3>1. s.write_upto + 1 \in Int /\ Len(s.buffer) \in Int
          /\ \A k \in s.write_upto + 1 .. Len(s.buffer) : s.buffer[k] \in Byte
      BY <2>2
    <3>2. /\ Len(Rest(c)) = IF s.write_upto + 1 <= Len(s.buffer)
                            THEN Len(s.buffer) - (s.write_upto + 1) + 1 ELSE 0
          /\ \A k \in 1 .. Len(s.buffer) - (s.write_upto + 1) + 1 :
                Rest(c)[k] = s.buffer[s.write_upto + 1 + k - 1]
      <4> DEFINE b == s.buffer
                 m == s.write_upto + 1
                 l == Len(s.buffer)
      <4>1. m \in Int /\ l \in Int /\ \A k \in m .. l : b[k] \in Byte
        BY <3>1
      <4>2. Rest(c) = SubSeq(b, m, l)
        BY <2>1
      <4> HIDE DEF b, m, l
      <4>3. /\ Len(SubSeq(b, m, l)) = IF m <= l THEN l - m + 1 ELSE 0
            /\ \A k \in 1 .. l - m + 1 : SubSeq(b, m, l)[k] = b[m + k - 1]
        BY <4>1, SubSeqProperties
      <4>4. QED
        BY <4>2, <4>3 DEF b, m, l
    <3>3. ASSUME NEW k \in 1 .. Len(Rest(c))
          PROVE  /\ k \in 1 .. Len(s.buffer) - (s.write_upto + 1) + 1
                 /\ s.write_upto + k \in s.write_upto + 1 .. Len(s.buffer)
                 /\ s.write_upto + 1 + k - 1 = s.write_upto + k
      <4> DEFINE w == s.write_upto
                 l == Len(s.buffer)
                 q == Len(Rest(c))
      <4>1. w \in Nat /\ l \in Nat /\ q = IF w + 1 <= l THEN l - (w + 1) + 1 ELSE 0
        BY <2>2, <3>2
      <4>2. k \in 1 .. q
        OBVIOUS
      <4> HIDE DEF w, l, q
      <4>3. /\ k \in 1 .. l - (w + 1) + 1 /\ w + k \in w + 1 .. l
            /\ w + 1 + k - 1 = w + k
        BY <4>1, <4>2
      <4>4. QED
        BY <4>3 DEF w, l
    <3>4. QED
      BY <3>2, <3>3
  <2>4. QED
    BY <1>3, <2>3 DEF Settled, NewLinesIn
<1>6. QED
  BY <1>4, <1>5

\* For any buffer and any way the input is cut: what do_write leaves behind
\* when it stops writing ends no line.
THEOREM NoLineIsStranded == Spec => []NoStrandedLine
<1>1. Init => LinesSettled
  BY DEF Init, LinesSettled
<1>2. QED
  BY <1>1, LoopSafe, StepKeepsLinesSettled, SettledServing, PTL DEF Spec

-----------------------------------------------------------------------------
(* What a client is sent: nothing is lost within the buffer, and the loop is *)
(* a line echo.                                                              *)

\* What a state holds that send() did not take yet.
RestIn(s) == SubSeq(s.buffer, s.n_written + 1, Len(s.buffer))

\* Of a chunk the first k bytes are stored, all of them if they fit; the last
\* newline, or the end of what is stored, becomes the end of what is sent.
LEMMA AbsorbIs ==
  ASSUME NEW s \in FdState, Ordered(s), NEW chunk \in Seq(Byte), chunk # <<>>
  PROVE  \E k \in 0 .. Len(chunk) :
           LET more == SubSeq(Rot13Of(chunk), 1, k)
               a    == Absorb(s, chunk)
           IN  /\ Len(s.buffer) + Len(chunk) <= MAX_LINE => k = Len(chunk)
               /\ more \in Seq(Byte) /\ Len(more) = k
               /\ a.buffer = s.buffer \o more
               /\ a.n_written = s.n_written
               /\ \/ (\A j \in 1 .. Len(chunk) : chunk[j] # NewLine) /\ a.write_upto = s.write_upto
                  \/ \E j \in 1 .. Len(chunk) :
                       /\ chunk[j] = NewLine /\ \A l \in j + 1 .. Len(chunk) : chunk[l] # NewLine
                       /\ a.write_upto = Len(s.buffer) + IF j <= k THEN j ELSE k
<1> DEFINE k == Min({Len(chunk), MAX_LINE - Len(s.buffer)})
<1>1. /\ s.buffer \in Seq(Byte) /\ Len(s.buffer) \in Nat
      /\ MAX_LINE \in Nat /\ Len(s.buffer) <= MAX_LINE /\ Len(chunk) \in Nat
  BY LenProperties DEF FdState, Ordered
<1>2. k = IF Len(chunk) <= MAX_LINE - Len(s.buffer)
          THEN Len(chunk) ELSE MAX_LINE - Len(s.buffer)
  <2>1. Len(chunk) \in Int /\ MAX_LINE - Len(s.buffer) \in Int
    BY <1>1
  <2>2. QED
    BY <2>1, MinOfPair, Zenon
<1> DEFINE more == SubSeq(Rot13Of(chunk), 1, k)
           a == Absorb(s, chunk)
<1>3. /\ a.buffer = s.buffer \o more /\ a.n_written = s.n_written
      /\ a.write_upto = IF NewLinesIn(chunk) = {} THEN s.write_upto ELSE UptoAfter(s, chunk)
  BY DEF Absorb, Stored, FdState
<1> HIDE DEF a, k
<1>4. ASSUME NEW x \in Nat, NEW y \in Nat, NEW z \in Nat, y <= z,
             k = IF x <= z - y THEN x ELSE z - y
      PROVE  /\ k \in 0 .. x /\ (y + x <= z => k = x)
             /\ \A j \in 1 .. x : (IF y + j <= z THEN y + j ELSE z) = y + IF j <= k THEN j ELSE k
  BY <1>4
<1>5. /\ k \in 0 .. Len(chunk)
      /\ Len(s.buffer) + Len(chunk) <= MAX_LINE => k = Len(chunk)
      /\ \A j \in 1 .. Len(chunk) : (IF Len(s.buffer) + j <= MAX_LINE THEN Len(s.buffer) + j ELSE MAX_LINE)
                                      = Len(s.buffer) + IF j <= k THEN j ELSE k
  BY <1>1, <1>2, <1>4
<1>6. more \in Seq(Byte) /\ Len(more) = k
  <2>1. Rot13Of(chunk) \in Seq(Byte) /\ Len(Rot13Of(chunk)) = Len(chunk)
    BY Rot13OfSeq
  <2>2. QED
    BY <1>5, <2>1, BeginningIs
<1> HIDE DEF more
<1>7. \/ (\A j \in 1 .. Len(chunk) : chunk[j] # NewLine) /\ a.write_upto = s.write_upto
      \/ \E j \in 1 .. Len(chunk) :
           /\ chunk[j] = NewLine /\ \A l \in j + 1 .. Len(chunk) : chunk[l] # NewLine
           /\ a.write_upto = Len(s.buffer) + IF j <= k THEN j ELSE k
  <2>1. CASE NewLinesIn(chunk) = {}
    BY <1>3, <2>1 DEF NewLinesIn
  <2>2. CASE NewLinesIn(chunk) # {}
    <3> DEFINE last == Max(NewLinesIn(chunk))
    <3>1. last \in NewLinesIn(chunk) /\ \A l \in NewLinesIn(chunk) : l <= last
      <4>1. NewLinesIn(chunk) \subseteq 1 .. Len(chunk)
        BY DEF NewLinesIn
      <4>2. QED
        BY <1>1, <2>2, <4>1, MaxOfPositions
    <3>2. UptoAfter(s, chunk) = Min({Len(s.buffer) + last, MAX_LINE})
      BY DEF UptoAfter
    <3> HIDE DEF last
    <3>3. last \in 1 .. Len(chunk) /\ chunk[last] = NewLine
      BY <3>1 DEF NewLinesIn
    <3>4. \A l \in last + 1 .. Len(chunk) : chunk[l] # NewLine
      <4>1. ASSUME NEW l \in last + 1 .. Len(chunk) PROVE l \in 1 .. Len(chunk) /\ ~(l <= last)
        BY <1>1, <3>3
      <4>2. QED
        BY <3>1, <4>1 DEF NewLinesIn
    <3>5. Min({Len(s.buffer) + last, MAX_LINE}) =
            IF Len(s.buffer) + last <= MAX_LINE THEN Len(s.buffer) + last ELSE MAX_LINE
      <4>1. Len(s.buffer) + last \in Int /\ MAX_LINE \in Int
        BY <1>1, <3>3
      <4>2. QED
        BY <4>1, MinOfPair, Zenon
    <3>6. a.write_upto = Len(s.buffer) + IF last <= k THEN last ELSE k
      BY <1>3, <1>5, <2>2, <3>2, <3>3, <3>5
    <3>7. QED
      BY <3>3, <3>4, <3>6
  <2>3. QED
    BY <2>1, <2>2
<1>8. QED
  BY <1>3, <1>5, <1>6, <1>7 DEF a, more

\* What LineEcho is shown of the loop, and how full each buffer is.
KeptBar == [c \in Conns |-> IF Serving(c) THEN out[c] \o Rest(c) ELSE out[c]]
CommitBar == [c \in Conns |-> Len(out[c]) + IF Serving(c) THEN Unsent(StateOf(c)) ELSE 0]
EndedBar == [c \in Conns |-> phase[c] = "closed"]
StoredBar == [c \in Conns |-> IF Serving(c) THEN Len(StateOf(c).buffer) ELSE 0]

\* A served connection has a state whose cursors are ordered.
LEMMA ServedState ==
  ASSUME LoopInvariant, NEW c \in Conns, Serving(c)
  PROVE  /\ fd[c] \in Slots /\ StateOf(c) \in FdState /\ Ordered(StateOf(c))
         /\ \A d \in Conns : fd[d] = fd[c] => d = c
<1>1. fd[c] \in Slots /\ fd[c] # 0
  BY DEF Serving, Slots, LoopInvariant, TypeOK, TableMatchesDescriptors
<1>2. state[fd[c]] # NULL
  BY <1>1 DEF LoopInvariant, TableMatchesDescriptors
<1>3. state[fd[c]] \in FdState /\ Ordered(state[fd[c]])
  BY <1>1, <1>2 DEF LoopInvariant, TypeOK, CursorsOrdered
<1>4. QED
  BY <1>1, <1>3 DEF StateOf, LoopInvariant, TableMatchesDescriptors

\* What is shown of a connection.
LEMMA BarsAre ==
  ASSUME LoopInvariant, NEW c \in Conns
  PROVE  /\ out[c] \in Seq(Byte) /\ Len(out[c]) \in Nat
         /\ KeptBar[c] \in Seq(Byte) /\ StoredBar[c] \in Nat
         /\ EndedBar[c] = (phase[c] = "closed")
         /\ Serving(c) =>
              /\ ~EndedBar[c] /\ RestIn(StateOf(c)) \in Seq(Byte)
              /\ KeptBar[c] = out[c] \o RestIn(StateOf(c))
              /\ CommitBar[c] = Len(out[c]) + Unsent(StateOf(c))
              /\ StoredBar[c] = Len(StateOf(c).buffer)
              /\ Len(KeptBar[c]) = Len(out[c]) + (Len(StateOf(c).buffer) - StateOf(c).n_written)
         /\ ~Serving(c) => KeptBar[c] = out[c] /\ CommitBar[c] = Len(out[c]) /\ StoredBar[c] = 0
<1>1. out[c] \in Seq(Byte) /\ Len(out[c]) \in Nat /\ EndedBar[c] = (phase[c] = "closed")
  BY LenProperties DEF LoopInvariant, TypeOK, EndedBar
<1>2. ASSUME Serving(c)
      PROVE  /\ ~EndedBar[c] /\ RestIn(StateOf(c)) \in Seq(Byte)
             /\ KeptBar[c] = out[c] \o RestIn(StateOf(c)) /\ KeptBar[c] \in Seq(Byte)
             /\ CommitBar[c] = Len(out[c]) + Unsent(StateOf(c))
             /\ StoredBar[c] = Len(StateOf(c).buffer) /\ StoredBar[c] \in Nat
             /\ Len(KeptBar[c]) = Len(out[c]) + (Len(StateOf(c).buffer) - StateOf(c).n_written)
  <2> DEFINE s == StateOf(c)
  <2>1. s \in FdState /\ Ordered(s)
    BY <1>2, ServedState
  <2>2. KeptBar[c] = out[c] \o RestIn(s) /\ StoredBar[c] = Len(s.buffer)
    BY <1>2 DEF KeptBar, StoredBar, Rest, RestIn
  <2>3. CommitBar[c] = Len(out[c]) + Unsent(s) /\ ~EndedBar[c]
    BY <1>1, <1>2 DEF CommitBar, Serving
  <2> HIDE DEF s
  <2>4. s.buffer \in Seq(Byte) /\ Len(s.buffer) \in Nat /\ s.n_written \in 0 .. Len(s.buffer)
    BY <2>1, LenProperties DEF FdState, Ordered
  <2>5. RestIn(s) \in Seq(Byte) /\ Len(RestIn(s)) = Len(s.buffer) - s.n_written
    BY <2>4, RemainderIs DEF RestIn
  <2>6. out[c] \o RestIn(s) \in Seq(Byte) /\ Len(out[c] \o RestIn(s)) = Len(out[c]) + Len(RestIn(s))
    BY <1>1, <2>5, ConcatProperties
  <2>7. QED
    BY <2>2, <2>3, <2>4, <2>5, <2>6 DEF s
<1>3. ASSUME ~Serving(c) PROVE KeptBar[c] = out[c] /\ CommitBar[c] = Len(out[c]) /\ StoredBar[c] = 0
  <2>1. Len(out[c]) + 0 = Len(out[c])
    BY <1>1
  <2>2. QED
    BY <1>3, <2>1 DEF KeptBar, CommitBar, StoredBar
<1>4. QED
  BY <1>1, <1>2, <1>3

\* A step about connection c shows nothing new of the others.
LEMMA BarsOfOne ==
  ASSUME NEW c \in Conns,
         \A d \in Conns \ {c} :
           /\ phase'[d] = phase[d] /\ fd'[d] = fd[d] /\ out'[d] = out[d]
           /\ Serving(d) => state'[fd[d]] = state[fd[d]]
  PROVE  /\ KeptBar' = [KeptBar EXCEPT ![c] = KeptBar'[c]]
         /\ CommitBar' = [CommitBar EXCEPT ![c] = CommitBar'[c]]
         /\ EndedBar' = [EndedBar EXCEPT ![c] = EndedBar'[c]]
         /\ StoredBar' = [StoredBar EXCEPT ![c] = StoredBar'[c]]
<1>1. ASSUME NEW d \in Conns \ {c}
      PROVE  /\ KeptBar'[d] = KeptBar[d] /\ CommitBar'[d] = CommitBar[d]
             /\ EndedBar'[d] = EndedBar[d] /\ StoredBar'[d] = StoredBar[d]
  <2>1. Serving(d)' = Serving(d) /\ EndedBar'[d] = EndedBar[d] /\ out'[d] = out[d]
    BY DEF Serving, EndedBar
  <2>2. CASE Serving(d)
    <3>1. StateOf(d)' = StateOf(d)
      BY <2>2 DEF StateOf
    <3>2. Rest(d)' = Rest(d)
      BY <3>1 DEF Rest
    <3>3. QED
      BY <2>1, <2>2, <3>1, <3>2 DEF KeptBar, CommitBar, StoredBar
  <2>3. CASE ~Serving(d)
    BY <2>1, <2>3 DEF KeptBar, CommitBar, StoredBar
  <2>4. QED
    BY <2>1, <2>2, <2>3
<1>2. KeptBar' = [KeptBar EXCEPT ![c] = KeptBar'[c]]
  BY <1>1 DEF KeptBar
<1>3. CommitBar' = [CommitBar EXCEPT ![c] = CommitBar'[c]]
  BY <1>1 DEF CommitBar
<1>4. EndedBar' = [EndedBar EXCEPT ![c] = EndedBar'[c]]
  BY <1>1 DEF EndedBar
<1>5. StoredBar' = [StoredBar EXCEPT ![c] = StoredBar'[c]]
  BY <1>1 DEF StoredBar
<1>6. QED
  BY <1>2, <1>3, <1>4, <1>5

\* A step that shows nothing: at most a buffer starts afresh.
Quiet == /\ UNCHANGED <<sent, taken, out, KeptBar, CommitBar, EndedBar>>
         /\ \A c \in Conns : StoredBar'[c] <= StoredBar[c]

\* Everything shown is built from these.
LEMMA NothingTouched ==
  ASSUME LoopInvariant, UNCHANGED <<state, fd, phase, sent, taken, out>>
  PROVE  Quiet
<1>1. UNCHANGED <<KeptBar, CommitBar, EndedBar, StoredBar>>
  BY DEF KeptBar, CommitBar, EndedBar, StoredBar, Serving, StateOf, Rest, Unsent
<1>2. \A c \in Conns : StoredBar[c] \in Nat
  BY BarsAre
<1>3. \A c \in Conns : StoredBar'[c] <= StoredBar[c]
  BY <1>1, <1>2 DEF StoredBar
<1>4. QED
  BY <1>1, <1>3 DEF Quiet

\* A step about one connection that shows nothing of it either.
LEMMA QuietOfOne ==
  ASSUME NEW c \in Conns, LoopInvariant, UNCHANGED <<sent, taken, out>>,
         \A d \in Conns \ {c} :
           /\ phase'[d] = phase[d] /\ fd'[d] = fd[d]
           /\ Serving(d) => state'[fd[d]] = state[fd[d]],
         KeptBar'[c] = KeptBar[c], CommitBar'[c] = CommitBar[c],
         EndedBar'[c] = EndedBar[c], StoredBar'[c] <= StoredBar[c]
  PROVE  Quiet
<1>1. /\ KeptBar' = [KeptBar EXCEPT ![c] = KeptBar'[c]]
      /\ CommitBar' = [CommitBar EXCEPT ![c] = CommitBar'[c]]
      /\ EndedBar' = [EndedBar EXCEPT ![c] = EndedBar'[c]]
      /\ StoredBar' = [StoredBar EXCEPT ![c] = StoredBar'[c]]
  BY BarsOfOne
<1>2. UNCHANGED KeptBar
  BY <1>1 DEF KeptBar
<1>3. UNCHANGED CommitBar
  BY <1>1 DEF CommitBar
<1>4. UNCHANGED EndedBar
  BY <1>1 DEF EndedBar
<1>5. \A d \in Conns : StoredBar'[d] <= StoredBar[d]
  <2>1. ASSUME NEW d \in Conns, d # c PROVE StoredBar'[d] <= StoredBar[d]
    <3>1. StoredBar'[d] = StoredBar[d]
      BY <1>1, <2>1 DEF StoredBar
    <3>2. StoredBar[d] \in Nat
      BY BarsAre
    <3>3. QED
      BY <3>1, <3>2
  <2>2. QED
    BY <2>1
<1>6. QED
  BY <1>2, <1>3, <1>4, <1>5 DEF Quiet

\* A connection that connects, or that accept() opens, has nothing yet; one
\* that is stored past the table is never served.
LEMMA OpeningIsQuiet ==
  ASSUME LoopInvariant, LoopInvariant', NEW c \in Conns,
         ClientConnect(c) \/ AcceptOpen(c) \/ AcceptPastEnd(c), ~ProcessEnds
  PROVE  Quiet
<1>1. CASE ClientConnect(c)
  <2>1. /\ phase[c] = "idle" /\ phase' = [phase EXCEPT ![c] = "backlog"]
        /\ UNCHANGED <<state, fd, sent, taken, out>>
    BY <1>1 DEF ClientConnect, channel
  <2>2. phase'[c] = "backlog" /\ \A d \in Conns \ {c} : phase'[d] = phase[d]
    BY <2>1 DEF LoopInvariant, TypeOK
  <2>3. ~Serving(c) /\ ~Serving(c)' /\ out'[c] = out[c]
    BY <2>1, <2>2 DEF Serving
  <2>4. /\ KeptBar'[c] = KeptBar[c] /\ CommitBar'[c] = CommitBar[c]
        /\ EndedBar'[c] = EndedBar[c] /\ StoredBar'[c] = 0 /\ StoredBar[c] = 0
    BY <2>1, <2>2, <2>3, BarsAre DEF KeptBar, CommitBar, EndedBar, StoredBar
  <2>5. QED
    BY <2>1, <2>2, <2>4, QuietOfOne
<1>2. CASE AcceptOpen(c)
  <2> DEFINE new == Min(FreeFds)
  <2>1. /\ phase[c] = "backlog" /\ phase' = [phase EXCEPT ![c] = "open"]
        /\ fd' = [fd EXCEPT ![c] = new] /\ state' = [state EXCEPT ![new] = alloc_fd_state]
        /\ new < FD_SETSIZE /\ FreeFds # {} /\ UNCHANGED <<sent, taken, out>>
    BY <1>2 DEF AcceptOpen, channel
  <2>2. new \in Slots /\ \A d \in Conns : fd[d] # new
    BY <2>1, FreshDescriptor DEF LoopInvariant, Slots
  <2> HIDE DEF new
  <2>3. phase'[c] = "open" /\ fd'[c] = new /\ \A d \in Conns \ {c} : phase'[d] = phase[d] /\ fd'[d] = fd[d]
    BY <2>1 DEF LoopInvariant, TypeOK
  <2>4. state'[new] = alloc_fd_state /\ \A d \in Conns : state'[fd[d]] = state[fd[d]]
    BY <2>1, <2>2 DEF LoopInvariant, TypeOK
  <2>5. ~Serving(c) /\ Serving(c)' /\ StateOf(c)' = alloc_fd_state
    BY <2>1, <2>3, <2>4 DEF Serving, StateOf
  <2>6. KeptBar'[c] = out[c] \o <<>>
    <3>1. Rest(c)' = <<>>
      <4>1. SubSeq(<<>>, 1, 0) = <<>>
        BY SubSeqEmpty
      <4>2. QED
        BY <2>5, <4>1 DEF Rest, alloc_fd_state
    <3>2. QED
      BY <2>1, <2>5, <3>1 DEF KeptBar
  <2>7. CommitBar'[c] = Len(out[c]) + 0 /\ StoredBar'[c] = 0
    BY <2>1, <2>5 DEF CommitBar, StoredBar, Unsent, alloc_fd_state
  <2>8. /\ KeptBar[c] = out[c] /\ CommitBar[c] = Len(out[c]) /\ StoredBar[c] = 0
        /\ out[c] \in Seq(Byte) /\ Len(out[c]) \in Nat
    BY <2>5, BarsAre
  <2>9. out[c] \o <<>> = out[c] /\ Len(out[c]) + 0 = Len(out[c])
    BY <2>8, ConcatEmptySeq
  <2>10. EndedBar'[c] = EndedBar[c]
    BY <2>1, <2>3 DEF EndedBar
  <2>11. QED
    BY <2>1, <2>3, <2>4, <2>6, <2>7, <2>8, <2>9, <2>10, QuietOfOne
<1>3. CASE AcceptPastEnd(c)
  <2>1. /\ phase[c] = "backlog" /\ phase' = [phase EXCEPT ![c] = "open"]
        /\ fd' = [fd EXCEPT ![c] = FD_SETSIZE]
        /\ UNCHANGED <<state, sent, taken, out>>
    BY <1>3 DEF AcceptPastEnd, channel
  <2>2. /\ phase'[c] = "open" /\ fd'[c] = FD_SETSIZE
        /\ \A d \in Conns \ {c} : phase'[d] = phase[d] /\ fd'[d] = fd[d]
    BY <2>1 DEF LoopInvariant, TypeOK
  <2>3. ~Serving(c) /\ ~Serving(c)' /\ out'[c] = out[c]
    BY <2>1, <2>2 DEF Serving
  <2>4. /\ KeptBar'[c] = KeptBar[c] /\ CommitBar'[c] = CommitBar[c]
        /\ EndedBar'[c] = EndedBar[c] /\ StoredBar'[c] = 0 /\ StoredBar[c] = 0
    BY <2>1, <2>2, <2>3, BarsAre DEF KeptBar, CommitBar, EndedBar, StoredBar
  <2>5. QED
    BY <2>1, <2>2, <2>4, QuietOfOne
<1>4. QED
  BY <1>1, <1>2, <1>3

\* The handler's connection is the only one with that descriptor.
LEMMA HandlerServes ==
  ASSUME LoopInvariant, NEW c \in Conns, fd[c] = i, pc \in {"read", "write"}
  PROVE  /\ Serving(c) /\ StateOf(c) = state[i] /\ state[i] \in FdState /\ Ordered(state[i])
         /\ i \in Slots
         /\ \A d \in Conns \ {c} : fd[d] # i
<1>1. /\ i \in Slots /\ state[i] \in FdState /\ Ordered(state[i]) /\ phase[c] = "open"
      /\ \A d \in Conns : fd[d] = i => d = c
  BY HandlerOfConnection
<1>2. i < FD_SETSIZE
  BY <1>1 DEF Slots
<1>3. QED
  BY <1>1, <1>2 DEF Serving, StateOf

\* A finished do_write shows nothing: a buffer that starts afresh had nothing
\* left in it.
LEMMA SendDoneIsQuiet ==
  ASSUME LoopInvariant, LoopInvariant', NEW c \in Conns, SendDone(c)
  PROVE  Quiet
<1> DEFINE s == state[i]
           t == IF s.n_written = Len(s.buffer) THEN alloc_fd_state ELSE [s EXCEPT !.writing = FALSE]
<1>1. /\ pc = "write" /\ fd[c] = i /\ Unsent(s) <= 0
      /\ state' = [state EXCEPT ![i] = t]
      /\ UNCHANGED <<fd, phase, sent, taken, out>>
  BY DEF SendDone, channel
<1>2. /\ Serving(c) /\ StateOf(c) = s /\ s \in FdState /\ Ordered(s) /\ i \in Slots
      /\ \A d \in Conns \ {c} : fd[d] # i
  BY <1>1, HandlerServes
<1>3. /\ s.buffer \in Seq(Byte) /\ Len(s.buffer) \in Nat /\ s.n_written \in Nat /\ s.write_upto \in Nat
      /\ s.n_written = s.write_upto /\ s.write_upto <= Len(s.buffer)
  BY <1>1, <1>2, LenProperties DEF FdState, Ordered, Unsent
<1>4. RestIn(t) = RestIn(s) /\ Unsent(t) = 0 /\ Unsent(s) = 0 /\ Len(t.buffer) <= Len(s.buffer)
  <2>1. CASE s.n_written = Len(s.buffer)
    <3>1. t = alloc_fd_state
      BY <2>1
    <3>2. RestIn(alloc_fd_state) = <<>> /\ Unsent(alloc_fd_state) = 0 /\ Len(alloc_fd_state.buffer) = 0
      BY SubSeqEmpty DEF RestIn, Unsent, alloc_fd_state
    <3>3. RestIn(s) = <<>>
      BY <1>3, <2>1, SubSeqEmpty DEF RestIn
    <3>4. Unsent(s) = 0
      BY <1>3 DEF Unsent
    <3> HIDE DEF s, t
    <3>5. QED
      BY <1>3, <3>1, <3>2, <3>3, <3>4
  <2>2. CASE s.n_written # Len(s.buffer)
    <3>1. /\ t.buffer = s.buffer /\ t.n_written = s.n_written /\ t.write_upto = s.write_upto
      BY <1>2, <2>2 DEF FdState
    <3> HIDE DEF s, t
    <3>2. QED
      BY <1>3, <3>1 DEF RestIn, Unsent
  <2>3. QED
    BY <2>1, <2>2
<1> HIDE DEF s, t
<1>5. Serving(c)' /\ StateOf(c)' = t /\ \A d \in Conns \ {c} : Serving(d) => state'[fd[d]] = state[fd[d]]
  <2>1. Serving(c)' /\ state'[i] = t /\ fd'[c] = i
    BY <1>1, <1>2 DEF Serving, LoopInvariant, TypeOK
  <2>2. ASSUME NEW d \in Conns \ {c}, Serving(d) PROVE state'[fd[d]] = state[fd[d]]
    <3>1. fd[d] \in Slots /\ fd[d] # i
      BY <1>2, <2>2, ServedState
    <3>2. QED
      BY <1>1, <3>1 DEF LoopInvariant, TypeOK
  <2>3. QED
    BY <2>1, <2>2 DEF StateOf
<1>6. /\ KeptBar[c] = out[c] \o RestIn(s) /\ CommitBar[c] = Len(out[c]) + Unsent(s)
      /\ StoredBar[c] = Len(s.buffer)
  BY <1>2, BarsAre
<1>7. /\ KeptBar'[c] = out[c] \o RestIn(t) /\ CommitBar'[c] = Len(out[c]) + Unsent(t)
      /\ StoredBar'[c] = Len(t.buffer) /\ EndedBar'[c] = EndedBar[c]
  BY <1>1, <1>5 DEF KeptBar, CommitBar, StoredBar, EndedBar, Rest, RestIn
<1>8. QED
  BY ZenonT(40), <1>1, <1>4, <1>5, <1>6, <1>7, QuietOfOne

\* The bytes n of a chunk are read; k of them are kept behind what was kept,
\* all of them if there is room; the last newline commits what is kept by it.
Reads(c, n, k) ==
  LET chunk == SubSeq(sent[c], taken[c] + 1, taken[c] + n)
  IN  /\ taken' = [taken EXCEPT ![c] = @ + n]
      /\ KeptBar' = [KeptBar EXCEPT ![c] = @ \o SubSeq(Rot13Of(chunk), 1, k)]
      /\ StoredBar' = [StoredBar EXCEPT ![c] = @ + k]
      /\ StoredBar[c] + n <= MAX_LINE => k = n
      /\ \/ (\A j \in 1 .. n : chunk[j] # NewLine) /\ CommitBar' = CommitBar
         \/ \E j \in 1 .. n :
              /\ chunk[j] = NewLine /\ \A l \in j + 1 .. n : chunk[l] # NewLine
              /\ CommitBar' = [CommitBar EXCEPT ![c] = Len(KeptBar[c]) + IF j <= k THEN j ELSE k]
      /\ UNCHANGED <<sent, out, EndedBar>>

\* One chunk: the cursors move as far as what is shown of the connection.
LEMMA RecvDataReads ==
  ASSUME LoopInvariant, LoopInvariant', NEW c \in Conns, RecvData(c)
  PROVE  \E n \in 1 .. Len(sent[c]) - taken[c] : \E k \in 0 .. n : Reads(c, n, k)
<1> DEFINE s == state[i]
<1>1. pc = "read" /\ fd[c] = i /\ UNCHANGED <<fd, phase, sent, out>>
  BY DEF RecvData
<1>2. /\ Serving(c) /\ StateOf(c) = s /\ s \in FdState /\ Ordered(s) /\ i \in Slots
      /\ \A d \in Conns \ {c} : fd[d] # i
  BY <1>1, HandlerServes
<1>3. PICK n \in 1 .. Len(sent[c]) - taken[c] :
         LET chunk == SubSeq(sent[c], taken[c] + 1, taken[c] + n)
         IN  /\ chunk \in Seq(Byte) /\ Len(chunk) = n /\ chunk # <<>>
             /\ taken' = [taken EXCEPT ![c] = @ + n]
             /\ state' = [state EXCEPT ![i] = Absorb(state[i], chunk)]
  BY ChunkIs
<1> DEFINE chunk == SubSeq(sent[c], taken[c] + 1, taken[c] + n)
           a     == Absorb(s, chunk)
<1>4. /\ chunk \in Seq(Byte) /\ Len(chunk) = n /\ chunk # <<>>
      /\ taken' = [taken EXCEPT ![c] = @ + n]
      /\ state' = [state EXCEPT ![i] = a]
  BY <1>3
<1> HIDE DEF chunk
<1>5. PICK k \in 0 .. n :
         /\ Len(s.buffer) + n <= MAX_LINE => k = n
         /\ SubSeq(Rot13Of(chunk), 1, k) \in Seq(Byte) /\ Len(SubSeq(Rot13Of(chunk), 1, k)) = k
         /\ a.buffer = s.buffer \o SubSeq(Rot13Of(chunk), 1, k)
         /\ a.n_written = s.n_written
         /\ \/ (\A j \in 1 .. n : chunk[j] # NewLine) /\ a.write_upto = s.write_upto
            \/ \E j \in 1 .. n :
                 /\ chunk[j] = NewLine /\ \A l \in j + 1 .. n : chunk[l] # NewLine
                 /\ a.write_upto = Len(s.buffer) + IF j <= k THEN j ELSE k
  BY ZenonT(40), <1>2, <1>4, AbsorbIs
<1> DEFINE more == SubSeq(Rot13Of(chunk), 1, k)
<1>6. /\ more \in Seq(Byte) /\ Len(more) = k
      /\ a.buffer = s.buffer \o more /\ a.n_written = s.n_written
  BY <1>5
<1> HIDE DEF more, s, a
<1>7. /\ s.buffer \in Seq(Byte) /\ Len(s.buffer) \in Nat /\ s.n_written \in 0 .. Len(s.buffer)
      /\ s.n_written \in Nat /\ s.write_upto \in Nat /\ k \in Nat
  BY <1>2, LenProperties DEF FdState, Ordered
<1>8. /\ RestIn(a) = RestIn(s) \o more /\ RestIn(s) \in Seq(Byte)
      /\ Len(a.buffer) = Len(s.buffer) + k
  <2> DEFINE b == s.buffer
             w == s.n_written
  <2>1. b \in Seq(Byte) /\ w \in 0 .. Len(b)
    BY <1>7
  <2>2. a.buffer = b \o more /\ a.n_written = w /\ RestIn(s) = SubSeq(b, w + 1, Len(b))
    BY <1>6 DEF RestIn
  <2> HIDE DEF b, w
  <2>3. SubSeq(b \o more, w + 1, Len(b \o more)) = SubSeq(b, w + 1, Len(b)) \o more
    BY <1>6, <2>1, RemainderGrows
  <2>4. SubSeq(b, w + 1, Len(b)) \in Seq(Byte)
    BY <2>1, RemainderIs
  <2>5. Len(b \o more) = Len(b) + k
    BY <1>6, <2>1, ConcatProperties
  <2>6. QED
    BY <2>2, <2>3, <2>4, <2>5 DEF RestIn, b
<1>9. Serving(c)' /\ StateOf(c)' = a /\ \A d \in Conns \ {c} : Serving(d) => state'[fd[d]] = state[fd[d]]
  <2>1. Serving(c)' /\ state'[i] = a /\ fd'[c] = i
    BY <1>1, <1>2, <1>4 DEF Serving, LoopInvariant, TypeOK
  <2>2. ASSUME NEW d \in Conns \ {c}, Serving(d) PROVE state'[fd[d]] = state[fd[d]]
    <3>1. fd[d] \in Slots /\ fd[d] # i
      BY <1>2, <2>2, ServedState
    <3>2. QED
      BY <1>4, <3>1 DEF LoopInvariant, TypeOK
  <2>3. QED
    BY <2>1, <2>2 DEF StateOf
<1>10. /\ KeptBar[c] = out[c] \o RestIn(s) /\ CommitBar[c] = Len(out[c]) + Unsent(s)
       /\ StoredBar[c] = Len(s.buffer) /\ out[c] \in Seq(Byte) /\ Len(out[c]) \in Nat
       /\ Len(KeptBar[c]) = Len(out[c]) + (Len(s.buffer) - s.n_written)
  BY <1>2, BarsAre
<1>11. /\ KeptBar'[c] = out[c] \o RestIn(a) /\ CommitBar'[c] = Len(out[c]) + Unsent(a)
       /\ StoredBar'[c] = Len(a.buffer) /\ EndedBar' = EndedBar
  BY <1>1, <1>9 DEF KeptBar, CommitBar, StoredBar, EndedBar, Rest, RestIn
<1>12. /\ KeptBar' = [KeptBar EXCEPT ![c] = KeptBar'[c]]
       /\ CommitBar' = [CommitBar EXCEPT ![c] = CommitBar'[c]]
       /\ StoredBar' = [StoredBar EXCEPT ![c] = StoredBar'[c]]
  BY <1>1, <1>9, BarsOfOne
<1>13. KeptBar' = [KeptBar EXCEPT ![c] = @ \o more]
  <2>1. out[c] \o (RestIn(s) \o more) = (out[c] \o RestIn(s)) \o more
    BY <1>6, <1>8, <1>10, BytesInOrder
  <2>2. QED
    BY <1>8, <1>10, <1>11, <1>12, <2>1
<1>14. StoredBar' = [StoredBar EXCEPT ![c] = @ + k] /\ (StoredBar[c] + n <= MAX_LINE => k = n)
  BY <1>5, <1>8, <1>10, <1>11, <1>12
<1>15. \/ (\A j \in 1 .. n : chunk[j] # NewLine) /\ CommitBar' = CommitBar
       \/ \E j \in 1 .. n :
            /\ chunk[j] = NewLine /\ \A l \in j + 1 .. n : chunk[l] # NewLine
            /\ CommitBar' = [CommitBar EXCEPT ![c] = Len(KeptBar[c]) + IF j <= k THEN j ELSE k]
  <2>1. CASE (\A j \in 1 .. n : chunk[j] # NewLine) /\ a.write_upto = s.write_upto
    <3>1. CommitBar'[c] = CommitBar[c]
      BY <1>6, <1>10, <1>11, <2>1 DEF Unsent
    <3>2. CommitBar' = CommitBar
      BY <1>12, <3>1 DEF CommitBar
    <3>3. QED
      BY <2>1, <3>2
  <2>2. CASE \E j \in 1 .. n :
               /\ chunk[j] = NewLine /\ \A l \in j + 1 .. n : chunk[l] # NewLine
               /\ a.write_upto = Len(s.buffer) + IF j <= k THEN j ELSE k
    <3>1. PICK j \in 1 .. n :
               /\ chunk[j] = NewLine /\ \A l \in j + 1 .. n : chunk[l] # NewLine
               /\ a.write_upto = Len(s.buffer) + IF j <= k THEN j ELSE k
      BY <2>2
    <3> DEFINE m == IF j <= k THEN j ELSE k
    <3>2. m \in Nat /\ a.write_upto = Len(s.buffer) + m
      BY <1>7, <3>1
    <3> HIDE DEF m
    <3>3. ASSUME NEW x \in Nat, NEW y \in Nat, NEW z \in Nat PROVE x + ((y + m) - z) = (x + (y - z)) + m
      BY <3>2
    <3>4. CommitBar'[c] = Len(KeptBar[c]) + m
      <4>1. Len(out[c]) + ((Len(s.buffer) + m) - s.n_written)
              = (Len(out[c]) + (Len(s.buffer) - s.n_written)) + m
        <5> DEFINE x == Len(out[c])
                   y == Len(s.buffer)
                   z == s.n_written
        <5>1. x \in Nat /\ y \in Nat /\ z \in Nat
          BY <1>7, <1>10
        <5> HIDE DEF x, y, z
        <5>2. x + ((y + m) - z) = (x + (y - z)) + m
          BY <3>3, <5>1
        <5>3. QED
          BY <5>2 DEF x, y, z
      <4>2. Unsent(a) = (Len(s.buffer) + m) - s.n_written
        BY <1>6, <3>2 DEF Unsent
      <4>3. QED
        BY <1>10, <1>11, <4>1, <4>2
    <3>5. CommitBar' = [CommitBar EXCEPT ![c] = Len(KeptBar[c]) + m]
      BY <1>12, <3>4
    <3>6. QED
      BY <3>1, <3>5 DEF m
  <2>3. QED
    BY <1>5, <2>1, <2>2
<1>16. Reads(c, n, k)
  BY <1>1, <1>4, <1>11, <1>13, <1>14, <1>15 DEF Reads, chunk, more
<1>17. QED
  BY <1>16

\* m bytes of what was kept are sent.
Replies(c, m) ==
  /\ m \in Len(out[c]) + 1 .. CommitBar[c]
  /\ out' = [out EXCEPT ![c] = SubSeq(KeptBar[c], 1, m)]
  /\ UNCHANGED <<sent, taken, KeptBar, CommitBar, EndedBar, StoredBar>>

\* A send() moves bytes from the buffer to the client: what was kept stays.
LEMMA SendDataReplies ==
  ASSUME LoopInvariant, LoopInvariant', NEW c \in Conns, SendData(c)
  PROVE  \E m \in Nat : Replies(c, m)
<1> DEFINE s == state[i]
           n == Min({Unsent(s), Room(c)})
           w == s.n_written
           t == [s EXCEPT !.n_written = w + n]
           piece == SubSeq(s.buffer, w + 1, w + n)
<1>1. /\ pc = "write" /\ fd[c] = i
      /\ Unsent(s) > 0 /\ Room(c) > 0
      /\ out' = [out EXCEPT ![c] = out[c] \o piece]
      /\ state' = [state EXCEPT ![i] = t]
      /\ UNCHANGED <<fd, phase, sent, taken>>
  BY DEF SendData
<1>2. /\ Serving(c) /\ StateOf(c) = s /\ s \in FdState /\ Ordered(s) /\ i \in Slots
      /\ \A d \in Conns \ {c} : fd[d] # i
  BY <1>1, HandlerServes
<1>3. /\ s.buffer \in Seq(Byte) /\ Len(s.buffer) \in Nat /\ w \in Nat /\ s.write_upto \in Nat
      /\ w <= s.write_upto /\ s.write_upto <= Len(s.buffer)
  BY <1>2, LenProperties DEF FdState, Ordered
<1>4. n \in Nat \ {0} /\ n <= s.write_upto - w
  <2>1. Unsent(s) = s.write_upto - w
    BY DEF Unsent
  <2>2. Unsent(s) \in Int
    BY <1>3, <2>1
  <2>3. Room(c) \in Int
    BY SMTT(20) DEF Room, LoopInvariant, TypeOK
  <2>4. n \in Nat \ {0} /\ n <= Unsent(s)
    BY <1>1, <2>2, <2>3, MinOfPositives, Zenon
  <2>5. QED
    BY <2>1, <2>4
<1>5. t.buffer = s.buffer /\ t.write_upto = s.write_upto /\ t.n_written = w + n
  BY <1>2 DEF FdState
<1> HIDE DEF s, n, t
<1>6. w + n <= s.write_upto /\ w + n <= Len(s.buffer) /\ n \in Nat
  BY <1>3, <1>4
<1> DEFINE b == s.buffer
<1>7. /\ piece \in Seq(Byte) /\ Len(piece) = n
      /\ RestIn(t) \in Seq(Byte) /\ RestIn(s) = piece \o RestIn(t)
  <2>1. b \in Seq(Byte) /\ w \in Nat /\ n \in Nat /\ w + n <= Len(b) /\ w + n \in 0 .. Len(b)
    BY <1>3, <1>6
  <2>2. RestIn(s) = SubSeq(b, w + 1, Len(b)) /\ RestIn(t) = SubSeq(b, w + n + 1, Len(b))
    BY <1>5 DEF RestIn
  <2> HIDE DEF b, w
  <2>3. SubSeq(b, w + 1, w + n) \in Seq(Byte) /\ Len(SubSeq(b, w + 1, w + n)) = n
    BY <2>1, PieceIs
  <2>4. SubSeq(b, w + n + 1, Len(b)) \in Seq(Byte)
    <3> DEFINE v == w + n
    <3> HIDE DEF v
    <3>1. SubSeq(b, v + 1, Len(b)) \in Seq(Byte)
      BY <2>1, RemainderIs DEF v
    <3>2. QED
      BY <3>1 DEF v
  <2>5. SubSeq(b, w + 1, Len(b)) = SubSeq(b, w + 1, w + n) \o SubSeq(b, w + n + 1, Len(b))
    BY <2>1, RemainderSplits
  <2>6. QED
    BY <2>2, <2>3, <2>4, <2>5 DEF b
<1> HIDE DEF piece
<1>8. Serving(c)' /\ StateOf(c)' = t /\ \A d \in Conns \ {c} : Serving(d) => state'[fd[d]] = state[fd[d]]
  <2>1. Serving(c)' /\ state'[i] = t /\ fd'[c] = i
    BY <1>1, <1>2 DEF Serving, LoopInvariant, TypeOK
  <2>2. ASSUME NEW d \in Conns \ {c}, Serving(d) PROVE state'[fd[d]] = state[fd[d]]
    <3>1. fd[d] \in Slots /\ fd[d] # i
      BY <1>2, <2>2, ServedState
    <3>2. QED
      BY <1>1, <3>1 DEF LoopInvariant, TypeOK
  <2>3. QED
    BY <2>1, <2>2 DEF StateOf
<1>9. out'[c] = out[c] \o piece /\ \A d \in Conns \ {c} : out'[d] = out[d]
  BY <1>1 DEF LoopInvariant, TypeOK
<1>10. /\ KeptBar[c] = out[c] \o RestIn(s) /\ CommitBar[c] = Len(out[c]) + Unsent(s)
       /\ StoredBar[c] = Len(s.buffer) /\ out[c] \in Seq(Byte) /\ Len(out[c]) \in Nat
  BY <1>2, BarsAre
<1>11. /\ KeptBar'[c] = (out[c] \o piece) \o RestIn(t) /\ CommitBar'[c] = Len(out[c] \o piece) + Unsent(t)
       /\ StoredBar'[c] = Len(t.buffer) /\ EndedBar' = EndedBar
  BY <1>1, <1>8, <1>9 DEF KeptBar, CommitBar, StoredBar, EndedBar, Rest, RestIn
<1>12. /\ KeptBar' = [KeptBar EXCEPT ![c] = KeptBar'[c]]
       /\ CommitBar' = [CommitBar EXCEPT ![c] = CommitBar'[c]]
       /\ StoredBar' = [StoredBar EXCEPT ![c] = StoredBar'[c]]
  BY <1>1, <1>8, <1>9, BarsOfOne
<1>13. Len(out[c] \o piece) = Len(out[c]) + n /\ out[c] \o piece \in Seq(Byte)
  BY ZenonT(40), <1>7, <1>10, ConcatProperties
<1>14. (out[c] \o piece) \o RestIn(t) = KeptBar[c]
  <2>1. (out[c] \o piece) \o RestIn(t) = out[c] \o (piece \o RestIn(t))
    BY <1>7, <1>10, BytesInOrder
  <2>2. QED
    BY <1>7, <1>10, <2>1
<1>15. KeptBar' = KeptBar
  BY <1>11, <1>12, <1>14 DEF KeptBar
<1>16. StoredBar' = StoredBar
  BY <1>5, <1>10, <1>11, <1>12 DEF StoredBar
<1>17. CommitBar' = CommitBar /\ Len(out[c]) + n \in Len(out[c]) + 1 .. CommitBar[c]
  <2> DEFINE x == Len(out[c])
             u == s.write_upto
  <2>1. x \in Nat /\ u \in Nat /\ w \in Nat /\ n \in Nat \ {0} /\ w + n <= u
    BY <1>3, <1>4, <1>6, <1>10
  <2>2. /\ CommitBar[c] = x + (u - w) /\ CommitBar'[c] = (x + n) + (u - (w + n))
    BY <1>5, <1>10, <1>11, <1>13 DEF Unsent
  <2> HIDE DEF x, u, w
  <2>3. CommitBar'[c] = CommitBar[c] /\ x + n \in x + 1 .. CommitBar[c]
    BY <2>1, <2>2
  <2>4. CommitBar' = CommitBar
    BY <1>12, <2>3 DEF CommitBar
  <2>5. QED
    BY <2>3, <2>4 DEF x
<1>18. SubSeq(KeptBar[c], 1, Len(out[c]) + n) = out[c] \o piece
  <2> DEFINE o == out[c] \o piece
  <2>1. o \in Seq(Byte) /\ Len(o) = Len(out[c]) + n /\ KeptBar[c] = o \o RestIn(t)
    BY <1>13, <1>14
  <2> HIDE DEF o
  <2>2. SubSeq(o \o RestIn(t), 1, Len(o)) = o
    BY <1>7, <2>1, FirstPart
  <2>3. QED
    BY <2>1, <2>2 DEF o
<1>19. Replies(c, Len(out[c]) + n)
  BY <1>1, <1>11, <1>15, <1>16, <1>17, <1>18 DEF Replies, piece
<1>20. Len(out[c]) + n \in Nat
  BY <1>6, <1>10
<1>21. QED
  BY <1>19, <1>20

\* Connections end: what was kept of them and not sent is forgotten.
Ends(C) ==
  /\ \A c \in C : ~EndedBar[c]
  /\ EndedBar' = [c \in Conns |-> c \in C \/ EndedBar[c]]
  /\ KeptBar' = [c \in Conns |-> IF c \in C THEN out[c] ELSE KeptBar[c]]
  /\ CommitBar' = [c \in Conns |-> IF c \in C THEN Len(out[c]) ELSE CommitBar[c]]
  /\ StoredBar' = [c \in Conns |-> IF c \in C THEN 0 ELSE StoredBar[c]]
  /\ UNCHANGED <<sent, taken, out>>

\* The process ends, and with it every connection that had begun.
LEMMA EndingEndsAll ==
  ASSUME LoopInvariant, ProcessEnds, UNCHANGED channel
  PROVE  \E C \in SUBSET Conns : Ends(C)
<1> DEFINE C == {c \in Conns : phase[c] \in {"backlog", "open"}}
<1>1. /\ fd' = [c \in Conns |-> 0] /\ UNCHANGED <<sent, taken, out>>
      /\ phase' = [c \in Conns |-> IF phase[c] = "idle" THEN "idle" ELSE "closed"]
  BY DEF ProcessEnds, channel
<1>2. ASSUME NEW c \in Conns
      PROVE  /\ c \in C => /\ ~EndedBar[c] /\ EndedBar'[c] = TRUE /\ KeptBar'[c] = out[c]
                            /\ CommitBar'[c] = Len(out[c]) /\ StoredBar'[c] = 0
             /\ c \notin C => /\ EndedBar'[c] = EndedBar[c] /\ KeptBar'[c] = KeptBar[c]
                               /\ CommitBar'[c] = CommitBar[c] /\ StoredBar'[c] = StoredBar[c]
  <2>1. phase[c] \in {"idle", "backlog", "open", "closed"} /\ Len(out[c]) + 0 = Len(out[c])
    BY BarsAre DEF LoopInvariant, TypeOK
  <2>2. ~Serving(c)' /\ phase'[c] = IF phase[c] = "idle" THEN "idle" ELSE "closed"
    BY <1>1 DEF Serving
  <2>3. KeptBar'[c] = out[c] /\ CommitBar'[c] = Len(out[c]) /\ StoredBar'[c] = 0
    BY <1>1, <2>1, <2>2 DEF KeptBar, CommitBar, StoredBar
  <2>4. EndedBar[c] = (phase[c] = "closed") /\ EndedBar'[c] = (phase[c] # "idle")
    BY <2>2 DEF EndedBar
  <2>5. CASE c \in C
    BY <2>3, <2>4, <2>5
  <2>6. CASE c \notin C
    <3>1. phase[c] \in {"idle", "closed"} /\ ~Serving(c)
      BY <2>1, <2>6 DEF Serving
    <3>2. KeptBar[c] = out[c] /\ CommitBar[c] = Len(out[c]) /\ StoredBar[c] = 0
      BY <3>1, BarsAre
    <3>3. QED
      BY <2>3, <2>4, <2>6, <3>1, <3>2
  <2>7. QED
    BY <2>5, <2>6
<1> HIDE DEF C
<1>3. EndedBar' = [c \in Conns |-> c \in C \/ EndedBar[c]]
  BY <1>2 DEF EndedBar
<1>4. /\ KeptBar' = [c \in Conns |-> IF c \in C THEN out[c] ELSE KeptBar[c]]
      /\ CommitBar' = [c \in Conns |-> IF c \in C THEN Len(out[c]) ELSE CommitBar[c]]
      /\ StoredBar' = [c \in Conns |-> IF c \in C THEN 0 ELSE StoredBar[c]]
  BY <1>2 DEF KeptBar, CommitBar, StoredBar
<1>5. Ends(C)
  <2>1. \A c \in C : ~EndedBar[c]
    BY <1>2 DEF C
  <2>2. QED
    BY <1>1, <1>3, <1>4, <2>1 DEF Ends
<1>6. QED
  BY <1>5 DEF C

\* recv() at the end or failing, send() failing, a descriptor too large.
LEMMA ClosingEnds ==
  ASSUME LoopInvariant, LoopInvariant', NEW c \in Conns,
         RecvEnd(c) \/ SendError(c) \/ AcceptRefuse(c), ~ProcessEnds
  PROVE  Ends({c})
<1>1. /\ phase[c] # "closed" /\ phase' = [phase EXCEPT ![c] = "closed"]
      /\ UNCHANGED <<sent, taken, out>>
      /\ \A d \in Conns \ {c} : fd'[d] = fd[d] /\ (Serving(d) => state'[fd[d]] = state[fd[d]])
  <2>1. CASE RecvEnd(c) \/ SendError(c)
    <3>1. /\ pc \in {"read", "write"} /\ fd[c] = i /\ UNCHANGED <<sent, taken, out>>
          /\ phase' = [phase EXCEPT ![c] = "closed"]
          /\ fd' = [fd EXCEPT ![c] = 0] /\ state' = [state EXCEPT ![i] = NULL]
      BY <2>1 DEF RecvEnd, SendError, Close, channel
    <3>2. Serving(c) /\ i \in Slots /\ \A d \in Conns \ {c} : fd[d] # i
      BY <3>1, HandlerServes
    <3>3. ASSUME NEW d \in Conns \ {c}
          PROVE  fd'[d] = fd[d] /\ (Serving(d) => state'[fd[d]] = state[fd[d]])
      <4>1. fd'[d] = fd[d] /\ fd[d] # i
        BY <3>1, <3>2 DEF LoopInvariant, TypeOK
      <4>2. Serving(d) => fd[d] \in Slots
        BY ServedState
      <4>3. QED
        BY <3>1, <4>1, <4>2 DEF LoopInvariant, TypeOK
    <3>4. phase[c] # "closed"
      BY <3>2 DEF Serving
    <3>5. QED
      BY <3>1, <3>3, <3>4
  <2>2. CASE AcceptRefuse(c)
    BY <2>2 DEF AcceptRefuse, channel
  <2>3. QED
    BY <2>1, <2>2
<1>2. phase'[c] = "closed" /\ \A d \in Conns \ {c} : phase'[d] = phase[d]
  BY <1>1 DEF LoopInvariant, TypeOK
<1>3. ~Serving(c)' /\ ~EndedBar[c] /\ EndedBar'[c] = TRUE
  BY <1>1, <1>2 DEF Serving, EndedBar
<1>4. Len(out[c]) + 0 = Len(out[c])
  BY BarsAre
<1>5. KeptBar'[c] = out[c] /\ CommitBar'[c] = Len(out[c]) /\ StoredBar'[c] = 0
  BY <1>1, <1>3, <1>4 DEF KeptBar, CommitBar, StoredBar
<1>6. /\ KeptBar' = [KeptBar EXCEPT ![c] = KeptBar'[c]]
      /\ CommitBar' = [CommitBar EXCEPT ![c] = CommitBar'[c]]
      /\ EndedBar' = [EndedBar EXCEPT ![c] = EndedBar'[c]]
      /\ StoredBar' = [StoredBar EXCEPT ![c] = StoredBar'[c]]
  BY <1>1, <1>2, BarsOfOne
<1>7. EndedBar' = [d \in Conns |-> d \in {c} \/ EndedBar[d]]
  BY <1>3, <1>6 DEF EndedBar
<1>8. /\ KeptBar' = [d \in Conns |-> IF d \in {c} THEN out[d] ELSE KeptBar[d]]
      /\ CommitBar' = [d \in Conns |-> IF d \in {c} THEN Len(out[d]) ELSE CommitBar[d]]
      /\ StoredBar' = [d \in Conns |-> IF d \in {c} THEN 0 ELSE StoredBar[d]]
  BY <1>5, <1>6 DEF KeptBar, CommitBar, StoredBar
<1>9. QED
  BY <1>1, <1>3, <1>7, <1>8 DEF Ends

\* A step of the program, as what it shows.
LEMMA StepShows ==
  ASSUME LoopInvariant, LoopInvariant', [Next]_vars
  PROVE  \/ Quiet
         \/ \E c \in Conns :
              \/ ClientWrite(c)
              \/ \E n \in 1 .. Len(sent[c]) - taken[c] : \E k \in 0 .. n : ~EndedBar[c] /\ Reads(c, n, k)
              \/ \E m \in Nat : ~EndedBar[c] /\ Replies(c, m)
         \/ \E C \in SUBSET Conns : Ends(C)
<1>0. CASE ProcessEnds /\ UNCHANGED channel
  BY <1>0, EndingEndsAll
<1>1. CASE run /\ ~(ProcessEnds /\ UNCHANGED channel)
  <2>1. CASE Select \/ SelectError \/ AcceptError
    BY <1>1, <2>1, NothingTouched DEF Select, SelectError, AcceptError, channel
  <2>2. ASSUME NEW c \in Conns, Accept(c)
        PROVE  Quiet \/ Ends({c})
    <3>1. UNCHANGED channel
      BY <2>2 DEF Accept, AcceptOpen, AcceptRefuse, AcceptPastEnd
    <3>2. QED
      BY <1>1, <2>2, <3>1, OpeningIsQuiet, ClosingEnds DEF Accept
  <2>3. ASSUME NEW c \in Conns, do_read(c) \/ do_write(c)
        PROVE  \/ Quiet \/ Ends({c})
               \/ \E n \in 1 .. Len(sent[c]) - taken[c] : \E k \in 0 .. n : ~EndedBar[c] /\ Reads(c, n, k)
               \/ \E m \in Nat : ~EndedBar[c] /\ Replies(c, m)
    <3>1. ~EndedBar[c]
      <4>1. fd[c] = i /\ pc \in {"read", "write"}
        BY <2>3 DEF do_read, do_write, RecvData, RecvEnd, RecvAgain, SendData, SendError, SendAgain, SendDone
      <4>2. QED
        BY <4>1, HandlerServes, BarsAre
    <3>2. CASE RecvAgain(c) \/ SendAgain(c)
      BY <3>2, NothingTouched DEF RecvAgain, SendAgain, channel
    <3>3. CASE RecvEnd(c) \/ SendError(c)
      <4>1. UNCHANGED channel
        BY <3>3 DEF RecvEnd, SendError
      <4>2. QED
        BY <1>1, <3>3, <4>1, ClosingEnds
    <3>4. QED
      BY <2>3, <3>1, <3>2, <3>3, RecvDataReads, SendDataReplies, SendDoneIsQuiet DEF do_read, do_write
  <2>4. QED
    BY <1>1, <2>1, <2>2, <2>3 DEF run
<1>2. ASSUME NEW c \in Conns, Client(c)
      PROVE  Quiet \/ ClientWrite(c)
  <2>1. CASE ClientShutdown(c) \/ ClientAbort(c) \/ ClientRead(c)
    BY <2>1, NothingTouched DEF ClientShutdown, ClientAbort, ClientRead, server
  <2>2. CASE ClientConnect(c)
    <3>1. ~ProcessEnds
      <4>1. phase[c] = "idle" /\ phase' = [phase EXCEPT ![c] = "backlog"]
        BY <2>2 DEF ClientConnect
      <4>2. phase'[c] = "backlog"
        BY <4>1 DEF LoopInvariant, TypeOK
      <4>3. QED
        BY <4>1, <4>2 DEF ProcessEnds
    <3>2. QED
      BY <2>2, <3>1, OpeningIsQuiet
  <2>3. QED
    BY <1>2, <2>1, <2>2 DEF Client
<1>3. CASE UNCHANGED vars
  BY <1>3, NothingTouched DEF vars, server, channel
<1>4. QED
  BY <1>0, <1>1, <1>2, <1>3 DEF Next

\* The next n bytes of a text, converted, behind the conversion of the first a.
LEMMA ConversionGrows ==
  ASSUME NEW q \in Seq(Byte), NEW a \in Nat, NEW n \in Nat, a + n <= Len(q)
  PROVE  Rot13Of(SubSeq(q, 1, a)) \o SubSeq(Rot13Of(SubSeq(q, a + 1, a + n)), 1, n)
           = Rot13Of(SubSeq(q, 1, a + n))
<1>1. SubSeq(q, 1, a) \in Seq(Byte)
  <2>1. a \in 0 .. Len(q)
    BY LenProperties
  <2>2. QED
    BY <2>1, BeginningIs
<1>2. SubSeq(q, a + 1, a + n) \in Seq(Byte) /\ Len(SubSeq(q, a + 1, a + n)) = n
  BY PieceIs
<1>3. SubSeq(q, 1, a + n) = SubSeq(q, 1, a) \o SubSeq(q, a + 1, a + n)
  BY BeginningGrows
<1>4. Rot13Of(SubSeq(q, 1, a + n)) = Rot13Of(SubSeq(q, 1, a)) \o Rot13Of(SubSeq(q, a + 1, a + n))
  BY <1>1, <1>2, <1>3, Rot13OfParts
<1> DEFINE chunk == SubSeq(q, a + 1, a + n)
<1>5. Rot13Of(chunk) \in Seq(Byte) /\ Len(Rot13Of(chunk)) = n
  BY <1>2, Rot13OfSeq
<1> HIDE DEF chunk
<1>6. SubSeq(Rot13Of(chunk), 1, n) = Rot13Of(chunk)
  BY <1>5, SubSeqFull
<1>7. QED
  BY <1>4, <1>6 DEF chunk

\* How full a buffer is, is a number in the next state too.
LEMMA StoredNext ==
  ASSUME LoopInvariant', NEW c \in Conns
  PROVE  StoredBar'[c] \in Nat
<1>1. CASE Serving(c)'
  <2>1. StateOf(c)' \in FdState
    <3>1. fd'[c] \in Slots /\ fd'[c] # 0
      <4>1. phase'[c] = "open" /\ fd'[c] < FD_SETSIZE
        BY <1>1 DEF Serving
      <4>2. fd'[c] \in 0 .. NOFILE - 1
        <5>1. fd' \in [Conns -> 0 .. NOFILE - 1]
          BY DEF LoopInvariant, TypeOK
        <5>2. QED
          BY <5>1
      <4>3. fd'[c] # 0
        BY <4>1 DEF LoopInvariant, TableMatchesDescriptors
      <4>4. QED
        BY <4>1, <4>2, <4>3, ServerAssumption DEF Slots
    <3>2. state'[fd'[c]] # NULL
      BY <3>1 DEF LoopInvariant, TableMatchesDescriptors
    <3>3. QED
      BY <3>1, <3>2 DEF LoopInvariant, TypeOK, StateOf
  <2>2. StoredBar'[c] = Len(StateOf(c)'.buffer)
    BY <1>1 DEF StoredBar
  <2>3. QED
    BY <2>1, <2>2, LenProperties DEF FdState
<1>2. CASE ~Serving(c)'
  BY <1>2 DEF StoredBar
<1>3. QED
  BY <1>1, <1>2

\* Of a connection that has not ended, what was read and fits the buffer was
\* kept, and the buffer never holds more than was read.
Whole(c) ==
  /\ taken[c] <= Len(sent[c])
  /\ StoredBar[c] \in Nat /\ StoredBar[c] <= taken[c]
  /\ taken[c] <= MAX_LINE => KeptBar[c] = Rot13Of(SubSeq(sent[c], 1, taken[c]))

AllWhole == \A c \in Conns : ~EndedBar[c] => Whole(c)

\* The beginning of the history of every connection is kept by every step.
LEMMA StepKeepsWhole ==
  ASSUME LoopInvariant, LoopInvariant', AllWhole, [Next]_vars
  PROVE  AllWhole'
<1>0. /\ \A c \in Conns : /\ sent[c] \in Seq(Byte) /\ Len(sent[c]) \in Nat /\ taken[c] \in Nat
                          /\ KeptBar[c] \in Seq(Byte)
      /\ MAX_LINE \in Nat /\ DOMAIN KeptBar = Conns /\ DOMAIN StoredBar = Conns /\ DOMAIN EndedBar = Conns
      /\ taken \in [Conns -> Nat] /\ sent \in [Conns -> Seq(Byte)]
      /\ \A c \in Conns : StoredBar'[c] \in Nat
  <2>1. \A c \in Conns : sent[c] \in Seq(Byte) /\ Len(sent[c]) \in Nat
    BY SMTT(20), LenProperties DEF LoopInvariant, TypeOK
  <2>2. \A c \in Conns : StoredBar'[c] \in Nat
    BY StoredNext
  <2>3. taken \in [Conns -> Nat] /\ sent \in [Conns -> Seq(Byte)]
    BY <2>1 DEF LoopInvariant, TypeOK
  <2>4. QED
    BY <2>1, <2>2, <2>3, BarsAre DEF KeptBar, StoredBar, EndedBar
<1>1. CASE Quiet
  <2>1. UNCHANGED <<sent, taken, KeptBar, EndedBar>> /\ \A c \in Conns : StoredBar'[c] <= StoredBar[c]
    BY <1>1 DEF Quiet
  <2>2. ASSUME NEW c \in Conns, ~EndedBar'[c] PROVE Whole(c)'
    <3>1. Whole(c)
      BY <2>1, <2>2 DEF AllWhole
    <3>2. StoredBar'[c] \in Nat /\ StoredBar'[c] <= taken[c]
      BY <1>0, <2>1, <3>1 DEF Whole
    <3>3. QED
      BY <2>1, <3>1, <3>2 DEF Whole
  <2>3. QED
    BY <2>2 DEF AllWhole
<1>2. ASSUME NEW c \in Conns, ClientWrite(c) PROVE AllWhole'
  <2>1. PICK b \in Bytes : sent' = [sent EXCEPT ![c] = Append(@, b)]
    BY <1>2 DEF ClientWrite
  <2>2. UNCHANGED <<taken, KeptBar, EndedBar, StoredBar>>
    BY <1>2 DEF ClientWrite, server, KeptBar, EndedBar, StoredBar, Serving, StateOf, Rest
  <2>3. ASSUME NEW d \in Conns, ~EndedBar'[d] PROVE Whole(d)'
    <3>1. Whole(d)
      BY <2>2, <2>3 DEF AllWhole
    <3>2. CASE d # c
      <4>1. sent'[d] = sent[d]
        BY <1>0, <2>1, <3>2
      <4>2. QED
        BY <2>2, <3>1, <4>1 DEF Whole
    <3>3. CASE d = c
      <4>1. sent'[c] = Append(sent[c], b) /\ b \in Byte
        BY <1>0, <2>1
      <4>2. Len(sent'[c]) = Len(sent[c]) + 1
        BY <1>0, <4>1, AppendProperties
      <4>3. taken[c] \in 0 .. Len(sent[c])
        BY <1>0, <3>1, <3>3 DEF Whole
      <4>4. SubSeq(sent'[c], 1, taken[c]) = SubSeq(sent[c], 1, taken[c])
        BY <1>0, <4>1, <4>3, BeginningStays
      <4>5. taken[c] <= Len(sent'[c])
        BY <1>0, <4>2, <4>3
      <4>6. QED
        BY <2>2, <3>1, <3>3, <4>4, <4>5 DEF Whole
    <3>4. QED
      BY <3>2, <3>3
  <2>4. QED
    BY <2>3 DEF AllWhole
<1>3. ASSUME NEW c \in Conns, NEW n \in 1 .. Len(sent[c]) - taken[c], NEW k \in 0 .. n, ~EndedBar[c], Reads(c, n, k)
      PROVE  AllWhole'
  <2> DEFINE chunk == SubSeq(sent[c], taken[c] + 1, taken[c] + n)
             more == SubSeq(Rot13Of(chunk), 1, k)
  <2>1. /\ taken' = [taken EXCEPT ![c] = @ + n]
        /\ KeptBar' = [KeptBar EXCEPT ![c] = @ \o more]
        /\ StoredBar' = [StoredBar EXCEPT ![c] = @ + k]
        /\ StoredBar[c] + n <= MAX_LINE => k = n
        /\ UNCHANGED <<sent, EndedBar>>
    BY <1>3 DEF Reads
  <2> HIDE DEF more
  <2>2. Whole(c)
    BY <1>3 DEF AllWhole
  <2>3. /\ taken'[c] = taken[c] + n /\ KeptBar'[c] = KeptBar[c] \o more /\ StoredBar'[c] = StoredBar[c] + k
        /\ \A d \in Conns \ {c} : taken'[d] = taken[d] /\ KeptBar'[d] = KeptBar[d] /\ StoredBar'[d] = StoredBar[d]
    BY <1>0, <2>1
  <2>4. /\ taken[c] + n <= Len(sent[c]) /\ n \in Nat /\ k \in Nat
        /\ StoredBar[c] + k \in Nat /\ StoredBar[c] + k <= taken[c] + n
    BY <1>0, <2>2 DEF Whole
  <2>5. ASSUME taken[c] + n <= MAX_LINE
        PROVE  KeptBar[c] \o more = Rot13Of(SubSeq(sent[c], 1, taken[c] + n))
    <3>1. taken[c] <= MAX_LINE /\ StoredBar[c] + n <= MAX_LINE
      BY SMTT(20), <1>0, <2>2, <2>4, <2>5 DEF Whole
    <3>2. KeptBar[c] = Rot13Of(SubSeq(sent[c], 1, taken[c])) /\ k = n
      BY <2>1, <2>2, <3>1 DEF Whole
    <3>3. more = SubSeq(Rot13Of(SubSeq(sent[c], taken[c] + 1, taken[c] + n)), 1, n)
      BY <3>2 DEF more
    <3> DEFINE q == sent[c]
               a == taken[c]
    <3>4. q \in Seq(Byte) /\ a \in Nat /\ n \in Nat /\ a + n <= Len(q)
      BY <1>0, <2>4
    <3>5. /\ KeptBar[c] = Rot13Of(SubSeq(q, 1, a))
          /\ more = SubSeq(Rot13Of(SubSeq(q, a + 1, a + n)), 1, n)
      BY <3>2, <3>3
    <3> HIDE DEF q, a
    <3>6. Rot13Of(SubSeq(q, 1, a)) \o SubSeq(Rot13Of(SubSeq(q, a + 1, a + n)), 1, n)
            = Rot13Of(SubSeq(q, 1, a + n))
      BY <3>4, ConversionGrows
    <3>7. KeptBar[c] \o more = Rot13Of(SubSeq(q, 1, a + n))
      BY <3>5, <3>6, Zenon
    <3>8. QED
      BY <3>7 DEF q, a
  <2>6. Whole(c)'
    BY <2>1, <2>3, <2>4, <2>5 DEF Whole
  <2>7. ASSUME NEW d \in Conns \ {c}, ~EndedBar'[d] PROVE Whole(d)'
    BY <2>1, <2>3, <2>7 DEF AllWhole, Whole
  <2>8. QED
    BY <2>6, <2>7 DEF AllWhole
<1>4. ASSUME NEW c \in Conns, NEW m \in Nat, Replies(c, m) PROVE AllWhole'
  BY <1>4 DEF Replies, AllWhole, Whole
<1>5. ASSUME NEW C \in SUBSET Conns, Ends(C) PROVE AllWhole'
  <2>1. /\ UNCHANGED <<sent, taken>> /\ \A c \in C : EndedBar'[c] = TRUE
        /\ \A d \in Conns \ C : EndedBar'[d] = EndedBar[d] /\ KeptBar'[d] = KeptBar[d] /\ StoredBar'[d] = StoredBar[d]
    <3>1. /\ EndedBar' = [c \in Conns |-> c \in C \/ EndedBar[c]]
          /\ KeptBar' = [c \in Conns |-> IF c \in C THEN out[c] ELSE KeptBar[c]]
          /\ StoredBar' = [c \in Conns |-> IF c \in C THEN 0 ELSE StoredBar[c]]
          /\ UNCHANGED <<sent, taken>>
      BY <1>5 DEF Ends
    <3>2. ASSUME NEW d \in Conns PROVE EndedBar[d] \in BOOLEAN
      BY DEF EndedBar
    <3>3. QED
      BY <3>1, <3>2
  <2>2. QED
    BY <2>1 DEF AllWhole, Whole
<1>6. QED
  BY <1>1, <1>2, <1>3, <1>4, <1>5, StepShows

\* do_read keeps every byte of a client that wrote no more than MAX_LINE, in
\* whatever pieces it comes and whatever was sent in between.
THEOREM NothingIsLostWithinBuffer == Spec => []NoLossWithinBuffer
<1>1. Init => AllWhole
  <2> SUFFICES ASSUME Init, NEW c \in Conns PROVE Whole(c)
    BY DEF AllWhole
  <2>1. taken[c] = 0 /\ sent[c] = <<>> /\ out[c] = <<>> /\ ~Serving(c)
    BY DEF Init, Serving
  <2>2. KeptBar[c] = <<>> /\ StoredBar[c] = 0
    BY <2>1 DEF KeptBar, StoredBar
  <2>3. Rot13Of(SubSeq(<<>>, 1, 0)) = <<>>
    <3>1. SubSeq(<<>>, 1, 0) = <<>>
      BY SubSeqEmpty
    <3>2. QED
      BY <3>1, Rot13OfNothing
  <2>4. 0 <= Len(<<>>) /\ 0 \in Nat
    OBVIOUS
  <2>5. QED
    BY <2>1, <2>2, <2>3, <2>4 DEF Whole
<1>2. ASSUME LoopInvariant, AllWhole PROVE NoLossWithinBuffer
  <2> SUFFICES ASSUME NEW c \in Conns, Serving(c), taken[c] <= MAX_LINE
               PROVE  out[c] \o Rest(c) = Rot13Of(SubSeq(sent[c], 1, taken[c]))
    BY DEF NoLossWithinBuffer
  <2>1. ~EndedBar[c] /\ KeptBar[c] = out[c] \o Rest(c)
    BY DEF EndedBar, KeptBar, Serving
  <2>2. QED
    BY <1>2, <2>1 DEF AllWhole, Whole
<1>3. LoopInvariant /\ LoopInvariant' /\ AllWhole /\ [Next]_vars => AllWhole'
  BY StepKeepsWhole
<1>4. QED
  BY <1>1, <1>2, <1>3, LoopSafe, PTL DEF Spec

-----------------------------------------------------------------------------
(* A client that waits for its replies never meets a full buffer.            *)

\* A buffer whose bytes are all sent: only between the last send() and the
\* end of do_write.
Drained(s) == Len(s.buffer) > 0 /\ s.n_written = Len(s.buffer)

DrainedInWrite ==
  \A f \in Slots : state[f] # NULL /\ Drained(state[f]) => pc = "write" /\ i = f

LEMMA StepKeepsDrained ==
  ASSUME LoopInvariant, DrainedInWrite, [Next]_vars
  PROVE  DrainedInWrite'
<1>0. /\ pc # "write" => \A f \in Slots : state[f] # NULL => ~Drained(state[f])
      /\ \A f \in Slots : f # i /\ state[f] # NULL => ~Drained(state[f])
  BY DEF DrainedInWrite
<1>1. ASSUME UNCHANGED state, pc # "write" \/ (UNCHANGED <<pc, i>>) PROVE DrainedInWrite'
  BY <1>0, <1>1 DEF DrainedInWrite
<1>2. ASSUME NEW f \in Slots, NEW s, state' = [state EXCEPT ![f] = s], s = NULL \/ ~Drained(s),
             pc # "write" \/ f = i
      PROVE  DrainedInWrite'
  <2>1. \A g \in Slots : state'[g] = IF g = f THEN s ELSE state[g]
    BY <1>2 DEF LoopInvariant, TypeOK
  <2>2. ASSUME NEW g \in Slots, state'[g] # NULL PROVE ~Drained(state'[g])
    BY <1>0, <1>2, <2>1, <2>2
  <2>3. QED
    BY <2>2 DEF DrainedInWrite
<1>3. CASE ProcessEnds
  BY <1>3 DEF ProcessEnds, DrainedInWrite
<1>4. CASE run /\ ~ProcessEnds
  <2>1. CASE Select \/ SelectError \/ AcceptError
    BY <1>1, <1>4, <2>1 DEF Select, SelectError, AcceptError
  <2>2. ASSUME NEW c \in Conns, Accept(c) PROVE DrainedInWrite'
    <3>1. CASE AcceptOpen(c)
      <4>1. ~Drained(alloc_fd_state)
        BY DEF Drained, alloc_fd_state
      <4>2. Min(FreeFds) \in Slots /\ state' = [state EXCEPT ![Min(FreeFds)] = alloc_fd_state] /\ pc = "accept"
        BY <3>1, FreshDescriptor DEF AcceptOpen, LoopInvariant, Slots
      <4>3. QED
        BY <1>2, <4>1, <4>2
    <3>2. QED
      BY <1>1, <1>4, <2>2, <3>1 DEF Accept, AcceptRefuse, AcceptPastEnd
  <2>3. ASSUME NEW c \in Conns, RecvEnd(c) \/ SendError(c) PROVE DrainedInWrite'
    BY <1>2, <1>4, <2>3, HandlerOfConnection DEF RecvEnd, SendError, Close
  <2>4. ASSUME NEW c \in Conns, RecvAgain(c) PROVE DrainedInWrite'
    BY <1>1, <2>4 DEF RecvAgain
  <2>5. ASSUME NEW c \in Conns, SendAgain(c) \/ SendData(c) PROVE fd[c] = i /\ pc = "write" /\ Unsent(state[i]) > 0
    BY <2>5 DEF SendAgain, SendData
  <2>6. ASSUME NEW c \in Conns, SendAgain(c) PROVE DrainedInWrite'
    <3>1. state[i] \in FdState /\ Ordered(state[i]) /\ Unsent(state[i]) > 0
      BY <2>5, <2>6, HandlerOfConnection
    <3>2. ~Drained(state[i])
      BY <3>1 DEF FdState, Ordered, Unsent, Drained
    <3>3. UNCHANGED state
      BY <2>6 DEF SendAgain
    <3>4. QED
      BY <1>0, <3>2, <3>3 DEF DrainedInWrite
  <2>7. ASSUME NEW c \in Conns, SendData(c) PROVE DrainedInWrite'
    <3>1. UNCHANGED <<pc, i>> /\ pc = "write" /\ \E s : state' = [state EXCEPT ![i] = s]
      BY <2>7 DEF SendData
    <3>2. \A g \in Slots : g # i => state'[g] = state[g]
      BY <3>1 DEF LoopInvariant, TypeOK
    <3>3. QED
      BY <1>0, <3>1, <3>2 DEF DrainedInWrite
  <2>8. ASSUME NEW c \in Conns, SendDone(c) PROVE DrainedInWrite'
    <3> DEFINE s == [state[i] EXCEPT !.writing = FALSE]
    <3>1. /\ pc = "write" /\ fd[c] = i
          /\ state' = [state EXCEPT ![i] = IF state[i].n_written = Len(state[i].buffer)
                                            THEN alloc_fd_state ELSE s]
      BY <2>8 DEF SendDone
    <3>2. state[i] \in FdState /\ i \in Slots
      BY <3>1, HandlerOfConnection
    <3>3. ~Drained(alloc_fd_state)
      BY DEF Drained, alloc_fd_state
    <3>4. s.buffer = state[i].buffer /\ s.n_written = state[i].n_written
      BY <3>2 DEF FdState
    <3> HIDE DEF s
    <3>5. state[i].n_written # Len(state[i].buffer) => ~Drained(s)
      BY <3>4 DEF Drained
    <3>6. QED
      BY <1>2, <3>1, <3>2, <3>3, <3>5
  <2>9. ASSUME NEW c \in Conns, RecvData(c) PROVE DrainedInWrite'
    <3>1. PICK n \in 1 .. Len(sent[c]) - taken[c] :
             LET chunk == SubSeq(sent[c], taken[c] + 1, taken[c] + n)
             IN  /\ chunk \in Seq(Byte) /\ Len(chunk) = n /\ chunk # <<>>
                 /\ taken' = [taken EXCEPT ![c] = @ + n]
                 /\ state' = [state EXCEPT ![i] = Absorb(state[i], chunk)]
      BY <2>9, ChunkIs
    <3> DEFINE chunk == SubSeq(sent[c], taken[c] + 1, taken[c] + n)
               s == state[i]
               a == Absorb(s, chunk)
    <3>2. /\ s \in FdState /\ Ordered(s) /\ i \in Slots /\ s # NULL /\ pc = "read"
      BY <2>9, HandlerOfConnection DEF RecvData
    <3>3. chunk \in Seq(Byte) /\ chunk # <<>> /\ state' = [state EXCEPT ![i] = a]
      BY <3>1
    <3> HIDE DEF chunk
    <3>4. ~Drained(s)
      BY <1>0, <3>2
    <3> HIDE DEF s
    <3>5. PICK k \in 0 .. Len(chunk) :
             LET more == SubSeq(Rot13Of(chunk), 1, k)
             IN  /\ more \in Seq(Byte) /\ Len(more) = k
                 /\ a.buffer = s.buffer \o more
                 /\ a.n_written = s.n_written
      BY <3>2, <3>3, AbsorbIs
    <3> HIDE DEF a
    <3>6. /\ s.buffer \in Seq(Byte) /\ Len(s.buffer) \in Nat /\ s.n_written \in Nat
          /\ s.n_written <= Len(s.buffer)
      BY <3>2 DEF FdState, Ordered
    <3>7. Len(a.buffer) = Len(s.buffer) + k /\ k \in Nat
      <4> DEFINE more == SubSeq(Rot13Of(chunk), 1, k)
      <4>1. more \in Seq(Byte) /\ Len(more) = k /\ a.buffer = s.buffer \o more
        BY <3>5
      <4> HIDE DEF more
      <4>2. QED
        BY <3>6, <4>1, ConcatProperties, LenProperties
    <3>8. ~Drained(a)
      <4> DEFINE w == s.n_written
                 l == Len(s.buffer)
      <4>1. w \in Nat /\ l \in Nat /\ w <= l /\ k \in Nat /\ ~(l > 0 /\ w = l)
        BY <3>4, <3>6, <3>7 DEF Drained
      <4>2. Len(a.buffer) = l + k /\ a.n_written = w
        BY <3>5, <3>7
      <4> HIDE DEF w, l
      <4>3. ~(l + k > 0 /\ w = l + k)
        BY <4>1
      <4>4. QED
        BY <4>2, <4>3 DEF Drained
    <3>9. QED
      BY <1>2, <3>2, <3>3, <3>8
  <2>10. QED
    BY <1>4, <2>1, <2>2, <2>3, <2>4, <2>6, <2>7, <2>8, <2>9 DEF run, do_read, do_write
<1>5. CASE \E c \in Conns : Client(c)
  <2>1. UNCHANGED <<state, pc, i>>
    BY <1>5 DEF Client, ClientConnect, ClientWrite, ClientShutdown, ClientAbort, ClientRead, server
  <2>2. QED
    BY <1>1, <2>1
<1>6. CASE UNCHANGED vars
  BY <1>1, <1>6 DEF vars, server
<1>7. QED
  BY <1>3, <1>4, <1>5, <1>6 DEF Next

\* do_write of c has sent everything and not returned yet.
Flushed(c) == Serving(c) /\ pc = "write" /\ i = fd[c] /\ Drained(StateOf(c))

\* From there do_write can only return, with a buffer that starts afresh.
LEMMA FlushedStep ==
  ASSUME LoopInvariant, LoopInvariant', NEW c \in Conns, Flushed(c), [Next]_vars
  PROVE  UNCHANGED taken /\ (Flushed(c)' \/ StoredBar'[c] = 0)
<1>1. /\ pc = "write" /\ fd[c] = i /\ phase[c] = "open" /\ Drained(state[i])
      /\ state[i] \in FdState /\ Ordered(state[i]) /\ i \in Slots
      /\ \A d \in Conns \ {c} : fd[d] # i
  BY HandlerServes DEF Flushed, Serving, StateOf
<1>2. Unsent(state[i]) <= 0 /\ state[i].n_written = Len(state[i].buffer)
  BY <1>1 DEF FdState, Ordered, Unsent, Drained
<1>3. CASE run
  <2>1. SendDone(c)
    <3>1. PICK d \in Conns : do_read(d) \/ do_write(d)
      BY <1>1, <1>3 DEF run, Select, SelectError, AcceptError, Accept, AcceptOpen, AcceptRefuse, AcceptPastEnd
    <3>2. d = c
      BY <1>1, <3>1 DEF do_read, do_write, RecvData, RecvEnd, RecvAgain, SendData, SendError, SendAgain, SendDone
    <3>3. Unsent(state[i]) \in Int
      BY <1>1 DEF Unsent, FdState
    <3>4. ~(Unsent(state[i]) > 0)
      BY <1>2, <3>3
    <3>5. QED
      BY <1>1, <3>1, <3>2, <3>4 DEF do_read, do_write, RecvData, RecvEnd, RecvAgain, SendData, SendError, SendAgain
  <2>2. /\ state' = [state EXCEPT ![i] = alloc_fd_state]
        /\ UNCHANGED <<fd, phase, taken>>
    BY <1>2, <2>1 DEF SendDone, channel
  <2>3. Serving(c)' /\ StateOf(c)' = alloc_fd_state
    BY <1>1, <2>2 DEF Flushed, Serving, StateOf, LoopInvariant, TypeOK
  <2>4. StoredBar'[c] = 0
    BY <2>3 DEF StoredBar, alloc_fd_state
  <2>5. QED
    BY <2>2, <2>4
<1>4. ASSUME UNCHANGED <<state, fd, pc, i, taken>>, phase'[c] = phase[c]
      PROVE  UNCHANGED taken /\ Flushed(c)'
  BY <1>4 DEF Flushed, Serving, StateOf
<1>5. ASSUME NEW d \in Conns, Client(d) PROVE UNCHANGED taken /\ Flushed(c)'
  <2>1. CASE ClientConnect(d)
    <3>1. phase[d] = "idle" /\ phase' = [phase EXCEPT ![d] = "backlog"] /\ UNCHANGED <<state, fd, pc, i, taken>>
      BY <2>1 DEF ClientConnect, channel
    <3>2. phase'[c] = phase[c]
      BY <1>1, <3>1 DEF LoopInvariant, TypeOK
    <3>3. QED
      BY <1>4, <3>1, <3>2
  <2>2. QED
    BY <1>4, <1>5, <2>1 DEF Client, ClientWrite, ClientShutdown, ClientAbort, ClientRead, server
<1>6. CASE UNCHANGED vars
  BY <1>4, <1>6 DEF vars, server, channel
<1>7. QED
  BY <1>3, <1>5, <1>6 DEF Next

\* Behind position n of a text, only its last byte may end a line.
OneLineFrom(text, n) == \A l \in n + 1 .. Len(text) - 1 : text[l] # NewLine

\* Of a client that has not rushed and whose lines fit: nothing was lost; the
\* buffer holds a part of one line, or do_write is about to restart it.
Patient(c) ==
  /\ taken[c] <= Len(sent[c]) /\ StoredBar[c] <= taken[c]
  /\ KeptBar[c] = Rot13Of(SubSeq(sent[c], 1, taken[c]))
  /\ \/ OneLineFrom(sent[c], taken[c] - StoredBar[c])
     \/ Flushed(c) /\ OneLineFrom(sent[c], taken[c])

ReadNoMore == \A c \in Conns : got[c] <= Len(out[c])

AllPatient ==
  /\ ReadNoMore /\ DrainedInWrite
  /\ \A c \in Conns : ~EndedBar[c] /\ ~rushed[c] /\ ShortLines(sent[c]) => Patient(c)

\* Clients read only what was sent to them.
LEMMA StepKeepsReadNoMore ==
  ASSUME LoopInvariant, LoopInvariant', ReadNoMore, [Next]_vars
  PROVE  ReadNoMore'
<1>0. \A c \in Conns : out[c] \in Seq(Byte) /\ Len(out[c]) \in Nat /\ got[c] \in Nat
  BY BarsAre DEF LoopInvariant, TypeOK
<1>1. ASSUME UNCHANGED <<got, out>> PROVE ReadNoMore'
  BY <1>1 DEF ReadNoMore
<1>2. ASSUME NEW c \in Conns, ClientRead(c) PROVE ReadNoMore'
  <2>1. got' = [got EXCEPT ![c] = Len(out[c])] /\ UNCHANGED out
    BY <1>2 DEF ClientRead
  <2>2. QED
    BY <1>0, <2>1 DEF ReadNoMore, LoopInvariant, TypeOK
<1>3. ASSUME NEW c \in Conns, SendData(c) PROVE ReadNoMore'
  <2>1. PICK m \in Nat : Replies(c, m)
    BY <1>3, SendDataReplies
  <2>2. m \in Len(out[c]) + 1 .. CommitBar[c] /\ out' = [out EXCEPT ![c] = SubSeq(KeptBar[c], 1, m)]
    BY <2>1 DEF Replies
  <2>3. m <= Len(KeptBar[c]) /\ KeptBar[c] \in Seq(Byte)
    <3>1. Serving(c) /\ StateOf(c) \in FdState /\ Ordered(StateOf(c))
      BY <1>3, HandlerServes DEF SendData
    <3> DEFINE s == StateOf(c)
               o == Len(out[c])
    <3>2. /\ CommitBar[c] = o + (s.write_upto - s.n_written)
          /\ Len(KeptBar[c]) = o + (Len(s.buffer) - s.n_written) /\ KeptBar[c] \in Seq(Byte)
      BY <3>1, BarsAre DEF Unsent
    <3>3. s.write_upto \in Nat /\ s.n_written \in Nat /\ Len(s.buffer) \in Nat /\ s.write_upto <= Len(s.buffer)
      BY <3>1 DEF FdState, Ordered
    <3>4. o \in Nat
      BY <1>0
    <3>5. CommitBar[c] \in Int /\ CommitBar[c] <= Len(KeptBar[c]) /\ Len(KeptBar[c]) \in Int
      <4> DEFINE u == s.write_upto
                 w == s.n_written
                 l == Len(s.buffer)
      <4>1. /\ CommitBar[c] = o + (u - w) /\ Len(KeptBar[c]) = o + (l - w)
            /\ u \in Nat /\ w \in Nat /\ l \in Nat /\ o \in Nat /\ u <= l
        BY <3>2, <3>3, <3>4
      <4> HIDE DEF u, w, l, o
      <4>2. QED
        BY <4>1
    <3>6. QED
      BY <2>2, <3>2, <3>5
  <2>4. Len(SubSeq(KeptBar[c], 1, m)) = m
    <3>1. m \in 0 .. Len(KeptBar[c])
      BY <2>3, LenProperties
    <3>2. QED
      BY <2>3, <3>1, BeginningIs
  <2>5. Len(out'[c]) = m /\ \A d \in Conns \ {c} : out'[d] = out[d]
    BY <2>2, <2>4 DEF LoopInvariant, TypeOK
  <2>6. got' = got
    BY <1>3 DEF SendData
  <2>7. QED
    BY <1>0, <2>2, <2>5, <2>6 DEF ReadNoMore
<1>4. QED
  BY <1>1, <1>2, <1>3 DEF Next, run, Select, SelectError, AcceptError, Accept, AcceptOpen, AcceptRefuse, AcceptPastEnd,
     do_read, do_write, RecvData, RecvEnd, RecvAgain, SendError, SendAgain, SendDone, Client, ClientConnect,
     ClientWrite, ClientShutdown, ClientAbort, server, channel, vars

\* Only a write can rush a client.
LEMMA RushedByWriting ==
  ASSUME [Next]_vars
  PROVE  UNCHANGED rushed \/ \E c \in Conns : ClientWrite(c)
BY DEF Next, run, Select, SelectError, AcceptError, Accept, AcceptOpen, AcceptRefuse, AcceptPastEnd,
   do_read, do_write, RecvData, RecvEnd, RecvAgain, SendData, SendError, SendAgain, SendDone, Client, ClientConnect,
   ClientShutdown, ClientAbort, ClientRead, server, channel, vars

\* Every step keeps what is known of the clients that do not rush.
LEMMA StepKeepsPatient ==
  ASSUME LoopInvariant, LoopInvariant', AllPatient, [Next]_vars
  PROVE  AllPatient'
<1>0. /\ \A c \in Conns : /\ sent[c] \in Seq(Byte) /\ Len(sent[c]) \in Nat /\ taken[c] \in Nat
                          /\ KeptBar[c] \in Seq(Byte) /\ StoredBar[c] \in Nat /\ StoredBar'[c] \in Nat
                          /\ out[c] \in Seq(Byte) /\ Len(out[c]) \in Nat /\ got[c] \in Nat
      /\ DOMAIN KeptBar = Conns /\ DOMAIN StoredBar = Conns /\ DOMAIN EndedBar = Conns
      /\ taken \in [Conns -> Nat] /\ sent \in [Conns -> Seq(Byte)] /\ rushed \in [Conns -> BOOLEAN]
  <2>1. sent \in [Conns -> Seq(Byte)] /\ rushed \in [Conns -> BOOLEAN] /\ taken \in [Conns -> Nat] /\ got \in [Conns -> Nat]
    <3>1. sent \in [Conns -> Seq(Bytes)] /\ Bytes \subseteq Byte
      BY DEF LoopInvariant, TypeOK
    <3>2. sent \in [Conns -> Seq(Byte)]
      BY <3>1
    <3>3. QED
      BY <3>2 DEF LoopInvariant, TypeOK
  <2>2. \A c \in Conns : StoredBar'[c] \in Nat
    BY StoredNext
  <2>3. \A c \in Conns : Len(sent[c]) \in Nat
    BY <2>1, LenProperties
  <2>4. QED
    BY <2>1, <2>2, <2>3, BarsAre DEF KeptBar, StoredBar, EndedBar
<1>1. ReadNoMore' /\ DrainedInWrite'
  BY StepKeepsReadNoMore, StepKeepsDrained DEF AllPatient
\* What is known of a connection that the step neither reads nor writes.
<1>2. ASSUME NEW c \in Conns, UNCHANGED <<sent, taken>>, KeptBar'[c] = KeptBar[c],
             StoredBar'[c] <= StoredBar[c], Patient(c)
      PROVE  Patient(c)'
  <2>1. /\ taken[c] <= Len(sent[c]) /\ StoredBar'[c] <= taken[c]
        /\ KeptBar'[c] = Rot13Of(SubSeq(sent[c], 1, taken[c]))
    BY <1>0, <1>2 DEF Patient
  <2>2. CASE OneLineFrom(sent[c], taken[c] - StoredBar[c])
    <3> DEFINE x == taken[c] - StoredBar[c]
               y == taken[c] - StoredBar'[c]
               q == sent[c]
               n == Len(sent[c])
    <3>1. x \in Int /\ y \in Int /\ x <= y /\ n \in Nat
      BY <1>0, <1>2
    <3>2. \A l \in x + 1 .. n - 1 : q[l] # NewLine
      BY <2>2 DEF OneLineFrom
    <3> HIDE DEF x, y, q, n
    <3>3. \A l \in y + 1 .. n - 1 : q[l] # NewLine
      BY <3>1, <3>2
    <3>4. OneLineFrom(sent[c], taken[c] - StoredBar'[c])
      BY <3>3 DEF OneLineFrom, x, y, q, n
    <3>5. QED
      BY <1>2, <2>1, <3>4 DEF Patient
  <2>3. CASE Flushed(c) /\ OneLineFrom(sent[c], taken[c])
    <3>1. Flushed(c)' \/ StoredBar'[c] = 0
      BY <2>3, FlushedStep
    <3>2. taken[c] - 0 = taken[c]
      BY <1>0
    <3>3. QED
      BY <1>2, <2>1, <2>3, <3>1, <3>2 DEF Patient
  <2>4. QED
    BY <1>2, <2>2, <2>3 DEF Patient
<1>3. ASSUME UNCHANGED <<sent, taken, rushed, KeptBar, EndedBar>>,
             \A c \in Conns : StoredBar'[c] <= StoredBar[c]
      PROVE  AllPatient'
  <2>1. ASSUME NEW c \in Conns, ~EndedBar'[c], ~rushed'[c], ShortLines(sent'[c])
        PROVE  Patient(c)'
    BY <1>2, <1>3, <2>1 DEF AllPatient
  <2>2. QED
    BY <1>1, <2>1 DEF AllPatient
<1>4. CASE Quiet /\ UNCHANGED rushed
  BY <1>3, <1>4 DEF Quiet
<1>5. ASSUME NEW c \in Conns, NEW m \in Nat, Replies(c, m), UNCHANGED rushed PROVE AllPatient'
  BY <1>0, <1>3, <1>5 DEF Replies
<1>6. ASSUME NEW C \in SUBSET Conns, Ends(C), UNCHANGED rushed PROVE AllPatient'
  <2>1. /\ EndedBar' = [c \in Conns |-> c \in C \/ EndedBar[c]]
        /\ KeptBar' = [c \in Conns |-> IF c \in C THEN out[c] ELSE KeptBar[c]]
        /\ StoredBar' = [c \in Conns |-> IF c \in C THEN 0 ELSE StoredBar[c]]
        /\ UNCHANGED <<sent, taken>>
    BY <1>6 DEF Ends
  <2>2. ASSUME NEW c \in Conns, ~EndedBar'[c], ~rushed'[c], ShortLines(sent'[c])
        PROVE  Patient(c)'
    <3>1. c \notin C /\ ~EndedBar[c] /\ ~rushed[c] /\ ShortLines(sent[c])
      BY <1>6, <2>1, <2>2 DEF EndedBar
    <3>2. KeptBar'[c] = KeptBar[c] /\ StoredBar'[c] <= StoredBar[c]
      BY <1>0, <2>1, <3>1
    <3>3. Patient(c)
      BY <3>1 DEF AllPatient
    <3>4. QED
      BY <1>2, <2>1, <3>2, <3>3
  <2>3. QED
    BY <1>1, <2>2 DEF AllPatient
<1>7. ASSUME NEW c \in Conns, NEW n \in 1 .. Len(sent[c]) - taken[c], NEW k \in 0 .. n, ~EndedBar[c],
             Reads(c, n, k), UNCHANGED rushed
      PROVE  AllPatient'
  <2> DEFINE chunk == SubSeq(sent[c], taken[c] + 1, taken[c] + n)
             more == SubSeq(Rot13Of(chunk), 1, k)
  <2>1. /\ taken' = [taken EXCEPT ![c] = @ + n]
        /\ KeptBar' = [KeptBar EXCEPT ![c] = @ \o more]
        /\ StoredBar' = [StoredBar EXCEPT ![c] = @ + k]
        /\ StoredBar[c] + n <= MAX_LINE => k = n
        /\ UNCHANGED <<sent, EndedBar>>
    BY <1>7 DEF Reads
  <2> HIDE DEF more
  <2>2. /\ taken'[c] = taken[c] + n /\ KeptBar'[c] = KeptBar[c] \o more /\ StoredBar'[c] = StoredBar[c] + k
        /\ \A d \in Conns \ {c} : taken'[d] = taken[d] /\ KeptBar'[d] = KeptBar[d] /\ StoredBar'[d] = StoredBar[d]
        /\ n \in Nat /\ n > 0
    BY <1>0, <2>1
  <2>3. \A d \in Conns : ~Flushed(d)
    <3>1. taken' # taken
      <4>1. taken'[c] # taken[c]
        BY <1>0, <2>2
      <4>2. QED
        BY <4>1
    <3>2. QED
      BY <3>1, FlushedStep
  <2>4. ASSUME ~rushed[c], ShortLines(sent[c]) PROVE Patient(c)'
    <3> DEFINE q == sent[c]
               a == taken[c]
               r == StoredBar[c]
    <3>1. /\ a <= Len(q) /\ r <= a /\ KeptBar[c] = Rot13Of(SubSeq(q, 1, a)) /\ OneLineFrom(q, a - r)
          /\ a + n <= Len(q)
      <4>1. Patient(c)
        BY <1>7, <2>4 DEF AllPatient
      <4>2. a + n <= Len(q)
        BY <1>0
      <4>3. QED
        BY <2>3, <4>1, <4>2 DEF Patient
    <3>2. q \in Seq(Byte) /\ Len(q) \in Nat /\ a \in Nat /\ r \in Nat /\ MAX_LINE \in Nat
      BY <1>0
    <3>3. r + n <= MAX_LINE
      <4>1. \A j, l \in 0 .. Len(q) : l - j > MAX_LINE => \E h \in j + 1 .. l - 1 : q[h] = NewLine
        BY <2>4 DEF ShortLines
      <4>2. \A l \in (a - r) + 1 .. Len(q) - 1 : q[l] # NewLine
        BY <3>1 DEF OneLineFrom
      <4> HIDE DEF q, a, r
      <4>3. a - r \in 0 .. Len(q) /\ Len(q) \in 0 .. Len(q)
        BY <3>1, <3>2
      <4>4. ~(Len(q) - (a - r) > MAX_LINE)
        BY <4>1, <4>2, <4>3
      <4>5. QED
        BY <2>2, <3>1, <3>2, <4>4
    <3>4. k = n
      BY <2>1, <3>3
    <3>5. more = SubSeq(Rot13Of(SubSeq(q, a + 1, a + n)), 1, n)
      BY <3>4 DEF more
    <3> HIDE DEF q, a, r
    <3>6. KeptBar[c] \o more = Rot13Of(SubSeq(q, 1, a + n))
      BY <2>2, <3>1, <3>2, <3>5, ConversionGrows
    <3>7. (a + n) - (r + n) = a - r /\ r + n <= a + n
      BY <2>2, <3>1, <3>2
    <3>8. /\ taken'[c] = a + n /\ StoredBar'[c] = r + n /\ sent' = sent
          /\ KeptBar'[c] = Rot13Of(SubSeq(q, 1, a + n)) /\ sent[c] = q
      BY <2>1, <2>2, <3>4, <3>6 DEF q, a, r
    <3>9. QED
      BY <3>1, <3>7, <3>8 DEF Patient
  <2>5. ASSUME NEW d \in Conns \ {c}, ~EndedBar[d], ~rushed[d], ShortLines(sent[d]) PROVE Patient(d)'
    <3>1. Patient(d) /\ ~Flushed(d)
      BY <2>3, <2>5 DEF AllPatient
    <3>2. taken'[d] = taken[d] /\ KeptBar'[d] = KeptBar[d] /\ StoredBar'[d] = StoredBar[d] /\ sent' = sent
      BY <2>1, <2>2
    <3>3. QED
      BY <3>1, <3>2 DEF Patient
  <2>6. ASSUME NEW d \in Conns, ~EndedBar'[d], ~rushed'[d], ShortLines(sent'[d]) PROVE Patient(d)'
    BY <1>7, <2>1, <2>4, <2>5, <2>6
  <2>7. QED
    BY <1>1, <2>6 DEF AllPatient
<1>8. ASSUME NEW c \in Conns, ClientWrite(c) PROVE AllPatient'
  <2>1. PICK b \in Bytes : sent' = [sent EXCEPT ![c] = Append(@, b)]
    BY <1>8 DEF ClientWrite
  <2>2. /\ UNCHANGED <<taken, KeptBar, EndedBar, StoredBar, got, out, pc, i, fd, state, phase>>
        /\ rushed' = [rushed EXCEPT ![c] = @ \/ Waits(c)]
    BY <1>8 DEF ClientWrite, server, KeptBar, EndedBar, StoredBar, Serving, StateOf, Rest
  <2>3. ASSUME NEW d \in Conns PROVE Flushed(d)' = Flushed(d)
    BY <2>2 DEF Flushed, Serving, StateOf
  <2>4. ASSUME NEW d \in Conns, d # c, ~EndedBar'[d], ~rushed'[d], ShortLines(sent'[d]) PROVE Patient(d)'
    <3>1. sent'[d] = sent[d] /\ rushed'[d] = rushed[d]
      BY <1>0, <2>1, <2>2, <2>4
    <3>2. Patient(d)
      BY <2>2, <2>4, <3>1 DEF AllPatient
    <3>3. QED
      BY <2>2, <2>3, <3>1, <3>2 DEF Patient
  <2>5. ASSUME ~EndedBar'[c], ~rushed'[c], ShortLines(sent'[c]) PROVE Patient(c)'
    <3> DEFINE q == sent[c]
               r == sent'[c]
               n == Len(sent[c])
               x == taken[c] - StoredBar[c]
    <3>1. /\ r = Append(q, b) /\ b \in Byte /\ Len(r) = n + 1 /\ n \in Nat
          /\ \A l \in 1 .. n : r[l] = q[l]
      <4>1. r = Append(q, b) /\ b \in Byte /\ q \in Seq(Byte)
        BY <1>0, <2>1
      <4>2. QED
        BY <1>0, <4>1, AppendProperties
    <3>2. ~rushed[c] /\ ~Waits(c)
      BY <1>0, <2>2, <2>5
    <3>3. ShortLines(q)
      <4>1. \A j, k \in 0 .. n + 1 : k - j > MAX_LINE => \E l \in j + 1 .. k - 1 : r[l] = NewLine
        BY <2>5, <3>1 DEF ShortLines
      <4>2. ASSUME NEW j \in 0 .. n, NEW k \in 0 .. n, k - j > MAX_LINE PROVE \E l \in j + 1 .. k - 1 : q[l] = NewLine
        <5>0. j \in 0 .. n + 1 /\ k \in 0 .. n + 1
          <6> HIDE DEF n
          <6>1. QED
            BY <3>1
        <5>1. PICK l \in j + 1 .. k - 1 : r[l] = NewLine
          BY <4>1, <4>2, <5>0, Zenon
        <5>2. l \in 1 .. n
          BY <3>1
        <5>3. QED
          BY <3>1, <5>1, <5>2
      <4>3. QED
        BY <4>2 DEF ShortLines
    <3>4. Patient(c)
      BY <2>2, <2>5, <3>2, <3>3 DEF AllPatient
    <3>5. /\ taken[c] <= n /\ StoredBar[c] <= taken[c] /\ KeptBar[c] = Rot13Of(SubSeq(q, 1, taken[c]))
      BY <3>4 DEF Patient
    <3>6. KeptBar[c] = Rot13Of(SubSeq(r, 1, taken[c])) /\ taken[c] <= Len(r)
      <4>1. taken[c] \in 0 .. Len(q) /\ q \in Seq(Byte)
        BY <1>0, <3>5
      <4>2. SubSeq(r, 1, taken[c]) = SubSeq(q, 1, taken[c])
        BY <3>1, <4>1, BeginningStays
      <4>3. taken[c] <= Len(r)
        <5> DEFINE t == taken[c]
                   l == Len(r)
        <5>1. t \in Nat /\ l = n + 1 /\ n \in Nat /\ t <= n
          BY <1>0, <3>1, <3>5
        <5> HIDE DEF t, l, n
        <5>2. t <= l
          BY <5>1
        <5>3. QED
          BY <5>2 DEF t, l
      <4>4. QED
        BY <3>5, <4>2, <4>3, Zenon
    <3>7. \A l \in 1 .. n : q[l] = NewLine => l <= got[c]
      BY <1>0, <3>2 DEF Waits, NewLinesIn
    <3>8. got[c] <= Len(out[c])
      BY DEF AllPatient, ReadNoMore
    <3>9. Len(KeptBar[c]) = taken[c]
      <4>1. taken[c] \in 0 .. Len(q) /\ q \in Seq(Byte)
        BY <1>0, <3>5
      <4>2. SubSeq(q, 1, taken[c]) \in Seq(Byte) /\ Len(SubSeq(q, 1, taken[c])) = taken[c]
        BY <4>1, BeginningIs
      <4>3. QED
        BY <3>5, <4>2, Rot13OfSeq
    <3>10. x \in Nat /\ x <= taken[c]
      BY <1>0, <3>5
    <3> HIDE DEF q, r, n, x
    <3>11. CASE OneLineFrom(q, x) /\ ~(q[n] = NewLine /\ x < n)
      <4>1. \A l \in x + 1 .. n - 1 : q[l] # NewLine
        BY <3>11 DEF OneLineFrom, n, q
      <4>2. \A l \in x + 1 .. (n + 1) - 1 : r[l] # NewLine
        BY <3>1, <3>10, <3>11, <4>1
      <4>3. OneLineFrom(r, x)
        BY <3>1, <4>2 DEF OneLineFrom
      <4>4. QED
        BY <2>2, <3>5, <3>6, <4>3 DEF Patient, x, r
    <3>12. CASE q[n] = NewLine /\ x < n
      <4>1. n \in 1 .. n
        BY <3>1, <3>10, <3>12
      <4>2. n <= got[c]
        BY <3>7, <3>12, <4>1
      <4>3. KeptBar[c] \in Seq(Byte) /\ Len(out[c]) = n /\ taken[c] = n /\ StoredBar[c] > 0
        <5>1. Len(out[c]) <= Len(KeptBar[c])
          <6>1. CASE Serving(c)
            <7>1. /\ Len(KeptBar[c]) = Len(out[c]) + (Len(StateOf(c).buffer) - StateOf(c).n_written)
                  /\ StateOf(c) \in FdState /\ Ordered(StateOf(c))
              BY <6>1, BarsAre, ServedState
            <7>2. Len(StateOf(c).buffer) \in Nat /\ StateOf(c).n_written \in Nat
                  /\ StateOf(c).n_written <= Len(StateOf(c).buffer)
              BY <7>1 DEF FdState, Ordered
            <7>3. QED
              BY <1>0, <7>1, <7>2
          <6>2. CASE ~Serving(c)
            BY <1>0, <6>2, BarsAre
          <6>3. QED
            BY <6>1, <6>2
        <5>2. taken[c] <= n
          BY <3>5
        <5>3. taken[c] = n /\ Len(out[c]) = n
          BY <1>0, <3>1, <3>8, <3>9, <4>2, <5>1, <5>2
        <5>4. StoredBar[c] > 0
          BY <1>0, <3>12, <5>3 DEF x
        <5>5. QED
          BY <1>0, <5>3, <5>4
      <4>4. Serving(c)
        BY <4>3, BarsAre
      <4>5. Drained(StateOf(c))
        <5>1. /\ Len(KeptBar[c]) = Len(out[c]) + (Len(StateOf(c).buffer) - StateOf(c).n_written)
              /\ StoredBar[c] = Len(StateOf(c).buffer) /\ StateOf(c) \in FdState
          BY <4>4, BarsAre, ServedState
        <5>2. StateOf(c).n_written \in Nat
          BY <5>1 DEF FdState
        <5>3. StateOf(c).n_written = Len(StateOf(c).buffer)
          BY <1>0, <3>9, <4>3, <5>1, <5>2
        <5>4. QED
          BY <4>3, <5>1, <5>3 DEF Drained
      <4>6. Flushed(c)
        <5>1. fd[c] \in Slots /\ state[fd[c]] # NULL
          <6>1. StateOf(c) \in FdState /\ fd[c] \in Slots
            BY <4>4, ServedState
          <6>2. QED
            BY <6>1 DEF StateOf
        <5>2. QED
          BY <4>4, <4>5, <5>1 DEF AllPatient, DrainedInWrite, Flushed, StateOf
      <4>7. OneLineFrom(r, taken[c])
        BY <3>1, <4>3 DEF OneLineFrom
      <4>8. QED
        BY <2>2, <2>3, <3>5, <3>6, <4>6, <4>7 DEF Patient, r
    <3>13. CASE Flushed(c) /\ OneLineFrom(q, taken[c])
      <4>1. \A l \in taken[c] + 1 .. n - 1 : q[l] # NewLine
        BY <3>13 DEF OneLineFrom, n, q
      <4>2. Len(out[c]) = taken[c]
        <5>1. /\ Len(KeptBar[c]) = Len(out[c]) + (Len(StateOf(c).buffer) - StateOf(c).n_written)
              /\ StateOf(c) \in FdState /\ Ordered(StateOf(c))
          BY <3>13, BarsAre, ServedState DEF Flushed
        <5>2. StateOf(c).n_written = Len(StateOf(c).buffer) /\ Len(StateOf(c).buffer) \in Nat
          BY <3>13, <5>1 DEF Flushed, Drained, FdState
        <5>3. QED
          BY <1>0, <3>9, <5>1, <5>2
      <4>3. \A l \in taken[c] + 1 .. (n + 1) - 1 : r[l] # NewLine
        BY <1>0, <3>1, <3>7, <3>8, <4>1, <4>2
      <4>4. OneLineFrom(r, taken[c])
        BY <3>1, <4>3 DEF OneLineFrom
      <4>5. QED
        BY <2>2, <2>3, <3>5, <3>6, <3>13, <4>4 DEF Patient, r
    <3>14. OneLineFrom(q, x) \/ (Flushed(c) /\ OneLineFrom(q, taken[c]))
      BY <3>4 DEF Patient, x, q
    <3>15. QED
      BY <3>11, <3>12, <3>13, <3>14
  <2>6. QED
    BY <1>1, <2>4, <2>5 DEF AllPatient
<1>9. QED
  BY <1>4, <1>5, <1>6, <1>7, <1>8, StepShows, RushedByWriting

\* A client that waits for each reply before it writes on can write as many
\* lines as it likes: the loop keeps every byte, for any MAX_LINE its lines
\* fit, however they are cut and however slowly its replies are taken.
THEOREM PatientLosesNothing == Spec => []PatientClientsLoseNothing
<1>1. ASSUME Init PROVE AllPatient
  <2>1. ReadNoMore
    BY <1>1 DEF Init, ReadNoMore
  <2>2. DrainedInWrite
    BY <1>1 DEF Init, DrainedInWrite
  <2>3. ASSUME NEW c \in Conns PROVE Patient(c)
    <3>1. taken[c] = 0 /\ sent[c] = <<>> /\ out[c] = <<>> /\ ~Serving(c)
      BY <1>1 DEF Init, Serving
    <3>2. KeptBar[c] = <<>> /\ StoredBar[c] = 0
      BY <3>1 DEF KeptBar, StoredBar
    <3>3. Rot13Of(SubSeq(<<>>, 1, 0)) = <<>>
      <4>1. SubSeq(<<>>, 1, 0) = <<>>
        BY SubSeqEmpty
      <4>2. QED
        BY <4>1, Rot13OfNothing
    <3>4. OneLineFrom(<<>>, 0 - 0) /\ 0 <= Len(<<>>)
      BY DEF OneLineFrom
    <3>5. QED
      BY <3>1, <3>2, <3>3, <3>4 DEF Patient
  <2>4. QED
    BY <2>1, <2>2, <2>3 DEF AllPatient
<1>2. ASSUME LoopInvariant, AllPatient PROVE PatientClientsLoseNothing
  <2> SUFFICES ASSUME NEW c \in Conns, Serving(c), ~rushed[c], ShortLines(sent[c])
               PROVE  out[c] \o Rest(c) = Rot13Of(SubSeq(sent[c], 1, taken[c]))
    BY DEF PatientClientsLoseNothing
  <2>1. ~EndedBar[c] /\ KeptBar[c] = out[c] \o Rest(c)
    BY DEF EndedBar, KeptBar, Serving
  <2>2. QED
    BY <1>2, <2>1 DEF AllPatient, Patient
<1>3. LoopInvariant /\ LoopInvariant' /\ AllPatient /\ [Next]_vars => AllPatient'
  BY StepKeepsPatient
<1>4. QED
  BY <1>1, <1>2, <1>3, LoopSafe, PTL DEF Spec

-----------------------------------------------------------------------------
(* The loop is a line echo.                                                  *)

\* LineEcho converts bytes as the loop does.
LEMMA SameConversion ==
  ASSUME NEW s \in Seq(Byte)
  PROVE  Echo!Rot13Of(s) = Rot13Of(s) /\ Echo!NewLine = NewLine
<1>1. ASSUME NEW b PROVE Echo!rot13_char(b) = rot13_char(b)
  BY DEF Echo!rot13_char, Echo!FirstHalf, Echo!SecondHalf, rot13_char, FirstHalf, SecondHalf
<1>2. Echo!NewLine = NewLine
  BY DEF Echo!NewLine, NewLine
<1>3. QED
  BY <1>1, <1>2 DEF Echo!Rot13Of, Rot13Of

\* What is shown of a read is what LineEcho takes.
LEMMA ReadsIsTake ==
  ASSUME LoopInvariant, NEW c \in Conns, NEW n \in 1 .. Len(sent[c]) - taken[c], NEW k \in 0 .. n,
         ~EndedBar[c], Reads(c, n, k)
  PROVE  Echo!Take(c)
<1> DEFINE Piece(m) == SubSeq(sent[c], taken[c] + 1, taken[c] + m)
           Taking(m, l) ==
             /\ taken' = [taken EXCEPT ![c] = @ + m]
             /\ KeptBar' = [KeptBar EXCEPT ![c] = @ \o SubSeq(Echo!Rot13Of(Piece(m)), 1, l)]
             /\ IF \A j \in 1 .. m : Piece(m)[j] # Echo!NewLine
                THEN CommitBar' = CommitBar
                ELSE \E j \in 1 .. m :
                       /\ Echo!LastNewLine(Piece(m), j)
                       /\ CommitBar' = [CommitBar EXCEPT ![c] =
                            Len(KeptBar[c]) + IF j <= l THEN j ELSE l]
<1>1. Piece(n) \in Seq(Byte) /\ Len(Piece(n)) = n
  <2> DEFINE q == sent[c]
             a == taken[c]
  <2>1. q \in Seq(Byte) /\ Len(q) \in Nat /\ a \in Nat /\ n \in Nat
    BY LenProperties DEF LoopInvariant, TypeOK
  <2>2. a + n <= Len(q)
    BY <2>1
  <2> HIDE DEF q, a
  <2>3. SubSeq(q, a + 1, a + n) \in Seq(Byte) /\ Len(SubSeq(q, a + 1, a + n)) = n
    BY <2>1, <2>2, PieceIs
  <2>4. QED
    BY <2>3 DEF q, a
<1> DEFINE chunk == Piece(n)
<1>2. /\ taken' = [taken EXCEPT ![c] = @ + n]
      /\ KeptBar' = [KeptBar EXCEPT ![c] = @ \o SubSeq(Rot13Of(chunk), 1, k)]
      /\ \/ (\A j \in 1 .. n : chunk[j] # NewLine) /\ CommitBar' = CommitBar
         \/ \E j \in 1 .. n :
              /\ chunk[j] = NewLine /\ \A l \in j + 1 .. n : chunk[l] # NewLine
              /\ CommitBar' = [CommitBar EXCEPT ![c] = Len(KeptBar[c]) + IF j <= k THEN j ELSE k]
      /\ UNCHANGED <<sent, out, EndedBar>>
  BY DEF Reads
<1> HIDE DEF Piece
<1>3. Echo!Rot13Of(chunk) = Rot13Of(chunk) /\ Echo!NewLine = NewLine
  BY <1>1, SameConversion
<1>4. IF \A j \in 1 .. n : chunk[j] # Echo!NewLine
      THEN CommitBar' = CommitBar
      ELSE \E j \in 1 .. n :
             /\ Echo!LastNewLine(chunk, j)
             /\ CommitBar' = [CommitBar EXCEPT ![c] = Len(KeptBar[c]) + IF j <= k THEN j ELSE k]
  <2>1. \A j \in 1 .. n : chunk[j] = NewLine /\ (\A l \in j + 1 .. n : chunk[l] # NewLine) => Echo!LastNewLine(chunk, j)
    BY <1>1, <1>3 DEF Echo!LastNewLine
  <2>2. QED
    BY <1>2, <1>3, <2>1
<1>5. Taking(n, k)
  BY <1>2, <1>3, <1>4
<1> HIDE DEF Taking
<1>6. \E m \in 1 .. Len(sent[c]) - taken[c] : \E l \in 0 .. m : Taking(m, l)
  BY <1>5
<1>7. QED
  BY <1>2, <1>6 DEF Echo!Take, KeptBar, CommitBar, EndedBar, Taking, Piece

\* Every step of the loop is one of LineEcho's or none: what a client is sent
\* is the rot13 of a part of each chunk it wrote, in order, and no more than
\* up to the last newline.
THEOREM LoopIsALineEcho == Spec => ImplementsLineEcho
<1>1. ASSUME Init PROVE Echo!Init
  <2>1. \A c \in Conns : ~Serving(c) /\ out[c] = <<>> /\ phase[c] # "closed"
    BY <1>1 DEF Init, Serving
  <2>2. Len(<<>>) + 0 = 0
    OBVIOUS
  <2>3. /\ KeptBar = [c \in Conns |-> <<>>] /\ CommitBar = [c \in Conns |-> 0]
        /\ EndedBar = [c \in Conns |-> FALSE]
    BY <2>1, <2>2 DEF KeptBar, CommitBar, EndedBar
  <2>4. QED
    BY <1>1, <2>3 DEF Echo!Init, Init, KeptBar, CommitBar, EndedBar
<1>2. ASSUME LoopInvariant, LoopInvariant', [Next]_vars PROVE [Echo!Next]_(Echo!vars)
  <2>1. CASE Quiet
    <3>1. UNCHANGED <<sent, taken, KeptBar, CommitBar, out, EndedBar>>
      BY <2>1 DEF Quiet
    <3>2. QED
      BY <3>1 DEF Echo!vars, KeptBar, CommitBar, EndedBar
  <2>2. ASSUME NEW c \in Conns, ClientWrite(c) PROVE Echo!Write(c)
    <3>1. UNCHANGED <<taken, KeptBar, CommitBar, out, EndedBar>>
      BY <2>2 DEF ClientWrite, server, KeptBar, CommitBar, EndedBar, Serving, StateOf, Rest, Unsent
    <3>2. \E b \in Bytes : sent' = [sent EXCEPT ![c] = Append(@, b)]
      BY <2>2 DEF ClientWrite
    <3>3. QED
      BY <3>1, <3>2 DEF Echo!Write, KeptBar, CommitBar, EndedBar
  <2>3. ASSUME NEW c \in Conns, NEW n \in 1 .. Len(sent[c]) - taken[c], NEW k \in 0 .. n, ~EndedBar[c], Reads(c, n, k)
        PROVE  Echo!Take(c)
    BY <1>2, <2>3, ReadsIsTake
  <2>4. ASSUME NEW c \in Conns, NEW m \in Nat, ~EndedBar[c], Replies(c, m) PROVE Echo!Reply(c)
    <3>1. /\ ~EndedBar[c] /\ UNCHANGED <<sent, taken, KeptBar, CommitBar, EndedBar>>
          /\ m \in Len(out[c]) + 1 .. CommitBar[c]
          /\ out' = [out EXCEPT ![c] = SubSeq(KeptBar[c], 1, m)]
      BY <2>4 DEF Replies
    <3>2. QED
      BY <3>1 DEF Echo!Reply, KeptBar, CommitBar, EndedBar
  <2>5. ASSUME NEW C \in SUBSET Conns, Ends(C) PROVE Echo!End(C)
    BY <2>5 DEF Ends, Echo!End, KeptBar, CommitBar, EndedBar
  <2>6. QED
    BY <1>2, <2>1, <2>2, <2>3, <2>4, <2>5, StepShows DEF Echo!Next
<1>3. QED
  BY <1>1, <1>2, LoopSafe, PTL DEF Spec, ImplementsLineEcho, Echo!Spec
=============================================================================
