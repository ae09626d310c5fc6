---------------------------- MODULE SundryProofs ----------------------------
(***************************************************************************)
(* Chat server: why no client is sent a word before it is greeted, why no  *)
(* member of the group is forgotten by a broadcast, and why what a client  *)
(* is sent of another has no gap and no change of order, for any number of *)
(* connections, any assignment to event loops and any number of lines.     *)
(* The first invariant says which connections a broadcast can be about or  *)
(* has reached; the second numbers what is sent and queued between two     *)
(* clients.  Book queries: why the assertions of the test hold for all     *)
(* authors, sleeps, threads and limits within the bounds of WellTimed.     *)
(***************************************************************************)
EXTENDS ChatServer, BookQueries, DataTheorems, FiniteSetTheorems

Early == {"none", "added", "handshake"}
Unheard == Early \cup {"failed", "bare"}    \* never sent anything

\* What GreetedFirst says of one connection.
Fits(c) ==
  /\ c \in channels => (state[c] \in {"secured", "closing"} /\ Greeted(c)) \/ (state[c] = "failed" /\ out[c] = <<>>)
  /\ out[c] # <<>> => state[c] \notin Unheard /\ Greeted(c)

Secured == \A c \in Clients : state[c] = "secured" => Greeted(c)

\* A broadcast of a join or a leave is about a connection that waits for it.
FramesMatch ==
  \A l \in Loops : run[l] # Idle =>
    /\ run[l].op = "added" => state[run[l].chan] = "added"
    /\ run[l].op = "removed" => state[run[l].chan] = "leaving"

\* The members a broadcast has still to visit or has visited have been through
\* the handshake, and those it visited are served.
Reached(f, r) ==
  /\ state[r] \notin Early
  /\ r \in f.seen /\ state[r] = "secured" => Sent(r, f.chan, f.k) \/ InQueue(r, f.chan, f.k)
Serving == \A l \in Loops : run[l] # Idle => \A r \in run[l].seen \cup run[l].due : Reached(run[l], r)

ChatInv == TypeOK /\ GreetedFirst /\ Secured /\ FramesMatch /\ Serving

(***************************************************************************)
(* Frames, loops and writes.                                               *)
(***************************************************************************)
\* The loop of a connection is a loop.
LEMMA LoopType == \A c \in Clients : LoopOf[c] \in Loops
BY DEF Loops

\* A loop that is in a broadcast has its record.
LEMMA FrameType ==
  ASSUME TypeOK, NEW l \in Loops, run[l] # Idle
  PROVE  /\ run[l] \in Frames
         /\ run[l].chan \in Clients /\ run[l].k \in Nat /\ run[l].kind \in Kinds
         /\ run[l].op \in {"added", "read", "removed"}
         /\ run[l].seen \subseteq Clients /\ run[l].due \subseteq Clients
         /\ LoopOf[run[l].chan] = l
<1>1. run[l] \in Frames /\ LoopOf[run[l].chan] = l
  BY DEF TypeOK
<1> QED BY <1>1 DEF Frames

\* A greeted client stays greeted when it is sent more.
LEMMA GreetedGrows ==
  ASSUME NEW c, NEW s \in Seq(Messages), NEW m \in Messages,
         Len(s) >= 2 /\ \A i \in 1 .. 2 : s[i] = Greeting(c)[i]
  PROVE  Len(Append(s, m)) >= 2 /\ \A i \in 1 .. 2 : Append(s, m)[i] = Greeting(c)[i]
<1> DEFINE g == Greeting(c)
<1>1. Len(s) >= 2 /\ \A i \in 1 .. 2 : s[i] = g[i]
  OBVIOUS
<1> HIDE DEF g
<1>2. Len(Append(s, m)) >= 2 /\ \A i \in 1 .. 2 : Append(s, m)[i] = g[i]
  BY <1>1
<1> QED BY <1>2 DEF g

\* The first two lines of a client that has none yet are its greeting.
LEMMA GreetingType ==
  ASSUME NEW c \in Clients
  PROVE  /\ Greeting(c) \in Seq(Messages) /\ Len(Greeting(c)) = 2
         /\ <<>> \o Greeting(c) = Greeting(c)
<1>1. Message(c, 0, "welcome") \in Messages /\ Message(c, 0, "cipher") \in Messages
  BY DEF Message, Messages, Kinds
<1> QED BY <1>1 DEF Greeting

\* What a write to a connection on its own loop does.
LEMMA DeliverEffect ==
  ASSUME TypeOK, GreetedFirst, Secured, NEW r \in Clients, NEW m \in Messages, Deliver(r, m)
  PROVE  /\ channels' \subseteq channels /\ state' \in [Clients -> States]
         /\ out' \in [Clients -> Seq(Messages)]
         /\ \A c \in Clients : state'[c] = state[c] \/ (c \notin channels' /\ state[c] = "secured" /\ state'[c] = "closed")
         /\ \A c \in Clients : out'[c] = out[c] \/ (c = r /\ state[c] = "secured" /\ out'[c] = Append(out[c], m))
         /\ state'[r] = "secured" => out'[r] = Append(out[r], m)
         /\ GreetedFirst' /\ Secured'
<1>1. /\ channels' \subseteq channels /\ state' \in [Clients -> States]
      /\ out' \in [Clients -> Seq(Messages)]
      /\ \A c \in Clients : state'[c] = state[c] \/ (c \notin channels' /\ state[c] = "secured" /\ state'[c] = "closed")
      /\ \A c \in Clients : out'[c] = out[c] \/ (c = r /\ state[c] = "secured" /\ out'[c] = Append(out[c], m))
      /\ state'[r] = "secured" => out'[r] = Append(out[r], m)
  <2>1. CASE state[r] = "secured" /\ out' = [out EXCEPT ![r] = Append(@, m)] /\ UNCHANGED <<channels, state>>
    BY <2>1 DEF TypeOK
  <2>2. CASE state[r] = "secured" /\ state' = [state EXCEPT ![r] = "closed"] /\ channels' = channels \ {r} /\ UNCHANGED out
    BY <2>2 DEF TypeOK, States
  <2>3. CASE state[r] # "secured" /\ UNCHANGED <<channels, state, out>>
    BY <2>3 DEF TypeOK
  <2> QED BY <2>1, <2>2, <2>3 DEF Deliver
<1>2. \A c \in Clients : Greeted(c) => Greeted(c)'
  <2> SUFFICES ASSUME NEW c \in Clients, Greeted(c) PROVE Greeted(c)'
    OBVIOUS
  <2>1. CASE out'[c] = out[c]
    BY <2>1 DEF Greeted, Greeting, Message
  <2>2. CASE out'[c] = Append(out[c], m)
    <3>1. out[c] \in Seq(Messages)
      BY DEF TypeOK
    <3> QED BY <2>2, <3>1, GreetedGrows DEF Greeted, Greeting, Message
  <2> QED BY <1>1, <2>1, <2>2
<1>3. Secured'
  BY <1>1, <1>2 DEF Secured
<1>4. GreetedFirst'
  <2> SUFFICES ASSUME NEW c \in Clients PROVE Fits(c)'
    BY DEF GreetedFirst, Fits, Unheard, Early
  <2>0. Fits(c)
    BY DEF GreetedFirst, Fits, Unheard, Early
  <2>1. CASE out'[c] = out[c] /\ state'[c] = state[c]
    BY <1>1, <1>2, <2>0, <2>1 DEF Fits
  <2>2. CASE out'[c] = out[c] /\ c \notin channels' /\ state'[c] = "closed"
    BY <1>2, <2>0, <2>2 DEF Fits, Unheard, Early
  <2>3. CASE state[c] = "secured" /\ out'[c] = Append(out[c], m)
    <3>1. Greeted(c)'
      BY <1>2, <2>3 DEF Secured
    <3>2. state'[c] = "secured" \/ (c \notin channels' /\ state'[c] = "closed")
      BY <1>1, <2>3
    <3> QED BY <3>1, <3>2 DEF Fits, Unheard, Early
  <2> QED BY <1>1, <2>1, <2>2, <2>3
<1> QED BY <1>1, <1>3, <1>4

\* What was sent stays sent.
LEMMA SentGrows ==
  ASSUME NEW r, NEW c, NEW k, NEW m \in Messages, out[r] \in Seq(Messages),
         out'[r] = out[r] \/ out'[r] = Append(out[r], m), Sent(r, c, k)
  PROVE  Sent(r, c, k)'
<1>1. PICK i \in DOMAIN out[r] : out[r][i].from = c /\ out[r][i].k = k
  BY DEF Sent
<1>2. i \in DOMAIN out'[r] /\ out'[r][i] = out[r][i]
  BY <1>1
<1> QED BY <1>1, <1>2 DEF Sent

\* What was just appended is sent.
LEMMA SentNow ==
  ASSUME NEW r, NEW m \in Messages, out[r] \in Seq(Messages), out'[r] = Append(out[r], m)
  PROVE  Sent(r, m.from, m.k)'
<1>1. Len(out[r]) + 1 \in DOMAIN out'[r] /\ out'[r][Len(out[r]) + 1] = m
  OBVIOUS
<1> QED BY <1>1 DEF Sent

\* Queues stay queues.
LEMMA QueueType ==
  ASSUME NEW L, NEW S, NEW T, NEW f \in [L -> Seq(S \X T)], NEW j \in L, NEW r \in S, NEW m \in T
  PROVE  [f EXCEPT ![j] = Append(@, <<r, m>>)] \in [L -> Seq(S \X T)]
<1> DEFINE P == S \X T
           x == <<r, m>>
<1>1. x \in P /\ f \in [L -> Seq(P)]
  OBVIOUS
<1> HIDE DEF P, x
<1>2. Append(f[j], x) \in Seq(P)
  BY <1>1
<1>3. [f EXCEPT ![j] = Append(@, x)] \in [L -> Seq(P)]
  BY <1>1, <1>2
<1> QED BY <1>3 DEF P, x

\* A task for a loop: the queue keeps what it had, and has the new one.
LEMMA QueueGrows ==
  ASSUME TypeOK, NEW l \in Loops, NEW r \in Clients, NEW m \in Messages, LoopOf[r] = l,
         tasks' = [tasks EXCEPT ![l] = Append(@, <<r, m>>)]
  PROVE  /\ \A q \in Clients : \A c, k : InQueue(q, c, k) => InQueue(q, c, k)'
         /\ InQueue(r, m.from, m.k)'
<1>1. \A j \in Loops : tasks[j] \in Seq(Clients \X Messages)
  BY DEF TypeOK
<1>2. tasks'[l] = Append(tasks[l], <<r, m>>) /\ \A j \in Loops : j # l => tasks'[j] = tasks[j]
  BY DEF TypeOK
<1>3. ASSUME NEW q \in Clients, NEW c, NEW k, InQueue(q, c, k) PROVE InQueue(q, c, k)'
  <2> DEFINE j == LoopOf[q]
  <2>1. j \in Loops
    BY LoopType
  <2>2. PICK i \in DOMAIN tasks[j] : tasks[j][i][1] = q /\ tasks[j][i][2].from = c /\ tasks[j][i][2].k = k
    BY <1>3 DEF InQueue
  <2> HIDE DEF j
  <2>3. i \in DOMAIN tasks'[j] /\ tasks'[j][i] = tasks[j][i]
    BY <1>1, <1>2, <2>1, <2>2
  <2> QED BY <2>2, <2>3 DEF InQueue, j
<1>4. InQueue(r, m.from, m.k)'
  <2>1. Len(tasks[l]) + 1 \in DOMAIN tasks'[l] /\ tasks'[l][Len(tasks[l]) + 1] = <<r, m>>
    BY <1>1, <1>2
  <2>2. /\ tasks'[l][Len(tasks[l]) + 1][1] = r
        /\ tasks'[l][Len(tasks[l]) + 1][2].from = m.from /\ tasks'[l][Len(tasks[l]) + 1][2].k = m.k
    BY <2>1
  <2> QED BY <2>1, <2>2 DEF InQueue
<1> QED BY <1>3, <1>4

\* What a write does, whichever loop it is for.
LEMMA WriteEffect ==
  ASSUME TypeOK, GreetedFirst, Secured, NEW l \in Loops, NEW r \in Clients, NEW m \in Messages, Write(l, r, m)
  PROVE  /\ channels' \subseteq channels /\ state' \in [Clients -> States]
         /\ out' \in [Clients -> Seq(Messages)]
         /\ tasks' \in [Loops -> Seq(Clients \X Messages)]
         /\ \A j \in Loops : \A i \in DOMAIN tasks'[j] : LoopOf[tasks'[j][i][1]] = j
         /\ \A c \in Clients : state'[c] = state[c] \/ (c \notin channels' /\ state[c] = "secured" /\ state'[c] = "closed")
         /\ \A q \in Clients : \A c, k : Sent(q, c, k) \/ InQueue(q, c, k) => (Sent(q, c, k) \/ InQueue(q, c, k))'
         /\ state'[r] = "secured" => (Sent(r, m.from, m.k) \/ InQueue(r, m.from, m.k))'
         /\ GreetedFirst' /\ Secured'
<1>0. \A q \in Clients : out[q] \in Seq(Messages)
  BY DEF TypeOK
<1>1. CASE LoopOf[r] = l /\ Deliver(r, m) /\ UNCHANGED tasks
  <2>1. /\ channels' \subseteq channels /\ state' \in [Clients -> States]
        /\ out' \in [Clients -> Seq(Messages)]
        /\ \A c \in Clients : state'[c] = state[c] \/ (c \notin channels' /\ state[c] = "secured" /\ state'[c] = "closed")
        /\ \A c \in Clients : out'[c] = out[c] \/ out'[c] = Append(out[c], m)
        /\ state'[r] = "secured" => out'[r] = Append(out[r], m)
        /\ GreetedFirst' /\ Secured'
    BY <1>1, DeliverEffect
  <2>2. \A q \in Clients : \A c, k : Sent(q, c, k) => Sent(q, c, k)'
    BY <1>0, <2>1, SentGrows
  <2>3. \A q \in Clients : \A c, k : InQueue(q, c, k) => InQueue(q, c, k)'
    BY <1>1 DEF InQueue
  <2>4. state'[r] = "secured" => Sent(r, m.from, m.k)'
    BY <1>0, <2>1, SentNow
  <2>5. /\ tasks' \in [Loops -> Seq(Clients \X Messages)]
        /\ \A j \in Loops : \A i \in DOMAIN tasks'[j] : LoopOf[tasks'[j][i][1]] = j
    BY <1>1 DEF TypeOK
  <2> QED BY <2>1, <2>2, <2>3, <2>4, <2>5
<1>2. CASE LoopOf[r] # l /\ tasks' = [tasks EXCEPT ![LoopOf[r]] = Append(@, <<r, m>>)] /\ UNCHANGED <<channels, state, out>>
  <2> DEFINE j == LoopOf[r]
  <2>0. j \in Loops /\ LoopOf[r] = j
    BY LoopType
  <2>1. tasks' = [tasks EXCEPT ![j] = Append(@, <<r, m>>)]
    BY <1>2
  <2> HIDE DEF j
  <2>2. /\ \A q \in Clients : \A c, k : InQueue(q, c, k) => InQueue(q, c, k)'
        /\ InQueue(r, m.from, m.k)'
    BY <2>0, <2>1, QueueGrows
  <2>3. \A q, c, k : Sent(q, c, k) => Sent(q, c, k)'
    BY <1>2 DEF Sent
  <2>4. tasks' \in [Loops -> Seq(Clients \X Messages)]
    BY <2>1, <2>0, QueueType DEF TypeOK
  <2>5. ASSUME NEW h \in Loops, NEW i \in DOMAIN tasks'[h] PROVE LoopOf[tasks'[h][i][1]] = h
    <3>1. tasks[h] \in Seq(Clients \X Messages) /\ \A n \in DOMAIN tasks[h] : LoopOf[tasks[h][n][1]] = h
      BY DEF TypeOK
    <3>2. tasks'[h] = tasks[h] \/ (h = j /\ tasks'[h] = Append(tasks[h], <<r, m>>))
      BY <2>1 DEF TypeOK
    <3>3. CASE tasks'[h] = tasks[h]
      BY <2>5, <3>1, <3>3
    <3>4. CASE h = j /\ tasks'[h] = Append(tasks[h], <<r, m>>)
      <4>1. (i \in DOMAIN tasks[h] /\ tasks'[h][i] = tasks[h][i]) \/ tasks'[h][i] = <<r, m>>
        BY <2>5, <3>1, <3>4
      <4>2. CASE i \in DOMAIN tasks[h] /\ tasks'[h][i] = tasks[h][i]
        BY <3>1, <4>2
      <4>3. CASE tasks'[h][i] = <<r, m>>
        BY <4>3, <2>0, <3>4
      <4> QED BY <4>1, <4>2, <4>3
    <3> QED BY <3>2, <3>3, <3>4
  <2>6. GreetedFirst' /\ Secured'
    BY <1>2 DEF GreetedFirst, Secured, Greeted, Greeting, Message
  <2>7. \A c \in Clients : state'[c] = state[c]
    BY <1>2
  <2>8. channels' \subseteq channels /\ state' \in [Clients -> States] /\ out' \in [Clients -> Seq(Messages)]
    BY <1>2 DEF TypeOK
  <2> QED BY <2>2, <2>3, <2>4, <2>5, <2>6, <2>7, <2>8
<1> QED BY <1>1, <1>2 DEF Write

(***************************************************************************)
(* Steps that neither write nor change the membership.                     *)
(***************************************************************************)

\* Frames match and serve as before when no join or leave is touched, nothing
\* that was sent or queued is lost, and whoever gets secured was not yet.
LEMMA FramesKept ==
  ASSUME ChatInv, run' = run,
         \A c \in Clients : \/ state'[c] = state[c]
                            \/ /\ state[c] \notin {"added", "leaving"} /\ state'[c] \notin Early
                               /\ state'[c] = "secured" => state[c] \in Early,
         \A q \in Clients : \A c, k : state'[q] = "secured" =>
            (Sent(q, c, k) \/ InQueue(q, c, k) => (Sent(q, c, k) \/ InQueue(q, c, k))')
  PROVE  FramesMatch' /\ Serving'
<1>1. FramesMatch'
  <2> SUFFICES ASSUME NEW l \in Loops, run[l] # Idle
               PROVE  /\ run[l].op = "added" => state'[run[l].chan] = "added"
                      /\ run[l].op = "removed" => state'[run[l].chan] = "leaving"
    BY DEF FramesMatch
  <2>1. run[l].chan \in Clients
    BY FrameType DEF ChatInv
  <2> QED BY <2>1 DEF ChatInv, FramesMatch
<1>2. Serving'
  <2> SUFFICES ASSUME NEW l \in Loops, run[l] # Idle, NEW r \in run[l].seen \cup run[l].due
               PROVE  Reached(run[l], r)'
    BY DEF Serving
  <2>1. r \in Clients
    BY FrameType DEF ChatInv
  <2>2. Reached(run[l], r)
    BY DEF ChatInv, Serving
  <2> QED BY <2>1, <2>2 DEF Reached
<1> QED BY <1>1, <1>2

\* A broadcast begins.
LEMMA BeginKept ==
  ASSUME ChatInv, NEW c \in Clients, NEW op \in {"added", "read", "removed"}, NEW kind \in Kinds, Begin(c, op, kind),
         \A d \in Clients : \/ state'[d] = state[d]
                            \/ d = c /\ state[c] = "none" /\ state'[c] = "added"
                            \/ d = c /\ state[c] = "closed" /\ state'[c] = "leaving",
         op = "added" => state'[c] = "added", op = "removed" => state'[c] = "leaving",
         UNCHANGED <<channels, out, tasks>>
  PROVE  /\ run' \in [Loops -> Frames \cup {Idle}] /\ said' \in [Clients -> Nat]
         /\ \A l \in Loops : run'[l] # Idle => LoopOf[run'[l].chan] = l
         /\ FramesMatch' /\ Serving'
<1> DEFINE j == LoopOf[c]
           f == [op |-> op, chan |-> c, k |-> said[c] + 1, kind |-> kind, seen |-> {}, due |-> channels]
<1>1. j \in Loops /\ LoopOf[c] = j /\ run[j] = Idle
  BY LoopType DEF Begin, Free
<1>2. f \in Frames
  BY DEF ChatInv, TypeOK, Frames
<1>3. f.chan = c /\ f.op = op /\ f.seen = {} /\ f.due = channels
  OBVIOUS
<1>4. run' = [run EXCEPT ![j] = f] /\ run \in [Loops -> Frames \cup {Idle}]
  BY DEF Begin, ChatInv, TypeOK
<1> HIDE DEF j, f
<1>5. run'[j] = f /\ \A l \in Loops : l # j => run'[l] = run[l]
  BY <1>1, <1>4
<1>6. run' \in [Loops -> Frames \cup {Idle}]
  BY <1>1, <1>2, <1>4
<1>7. said' \in [Clients -> Nat]
  BY DEF Begin, ChatInv, TypeOK
<1>8. ASSUME NEW l \in Loops, run'[l] # Idle PROVE LoopOf[run'[l].chan] = l
  <2>1. CASE l = j
    BY <2>1, <1>1, <1>3, <1>5
  <2>2. CASE l # j
    BY <2>2, <1>5, <1>8, FrameType DEF ChatInv
  <2> QED BY <2>1, <2>2
<1>9. FramesMatch'
  <2> SUFFICES ASSUME NEW l \in Loops, run'[l] # Idle
               PROVE  /\ run'[l].op = "added" => state'[run'[l].chan] = "added"
                      /\ run'[l].op = "removed" => state'[run'[l].chan] = "leaving"
    BY DEF FramesMatch
  <2>1. CASE l = j
    BY <2>1, <1>3, <1>5
  <2>2. CASE l # j
    <3>1. run[l] # Idle /\ run'[l] = run[l]
      BY <2>2, <1>5
    <3>2. run[l].chan \in Clients
      BY <3>1, FrameType DEF ChatInv
    <3> QED BY <3>1, <3>2 DEF ChatInv, FramesMatch
  <2> QED BY <2>1, <2>2
<1>10. Serving'
  <2> SUFFICES ASSUME NEW l \in Loops, run'[l] # Idle, NEW r \in run'[l].seen \cup run'[l].due
               PROVE  Reached(run[l], r)'
    BY DEF Serving
  <2>1. CASE l = j
    <3>1. r \in channels /\ r \in Clients /\ r \notin run'[l].seen
      BY <2>1, <1>3, <1>5 DEF ChatInv, TypeOK
    <3>2. state[r] \in {"secured", "closing", "failed"}
      BY <3>1 DEF ChatInv, GreetedFirst
    <3> QED BY <3>1, <3>2 DEF Reached, Early
  <2>2. CASE l # j
    <3>1. run[l] # Idle /\ run'[l] = run[l]
      BY <2>2, <1>5
    <3>2. r \in Clients /\ Reached(run[l], r)
      BY <3>1, FrameType DEF ChatInv, Serving
    <3>3. \A q, d, k : Sent(q, d, k) \/ InQueue(q, d, k) => (Sent(q, d, k) \/ InQueue(q, d, k))'
      BY DEF Sent, InQueue
    <3> QED BY <3>1, <3>2, <3>3 DEF Reached, Early
  <2> QED BY <2>1, <2>2
<1> QED BY <1>6, <1>7, <1>8, <1>9, <1>10

(***************************************************************************)
(* One lemma per action.                                                   *)
(***************************************************************************)
\* Initially nobody is there.
LEMMA InitChat == ASSUME Init PROVE ChatInv
<1>1. TypeOK
  <2>1. state \in [Clients -> States] /\ typed \in 0 .. MaxLines
    BY ChatAssumption DEF Init, States
  <2>2. run \in [Loops -> Frames \cup {Idle}] /\ \A l \in Loops : run[l] = Idle
    BY DEF Init
  <2>3. \A l \in Loops : tasks[l] = <<>>
    BY DEF Init
  <2>4. \A l \in Loops : DOMAIN tasks[l] = {}
    BY <2>3
  <2>5. /\ lines \in [Clients -> Seq(Lines)] /\ out \in [Clients -> Seq(Messages)]
        /\ tasks \in [Loops -> Seq(Clients \X Messages)] /\ said \in [Clients -> Nat]
        /\ channels \subseteq Clients /\ gone \subseteq Clients
    BY DEF Init
  <2> QED BY <2>1, <2>2, <2>4, <2>5 DEF TypeOK
<1>2. GreetedFirst /\ Secured
  BY DEF Init, GreetedFirst, Secured
<1>3. FramesMatch /\ Serving
  BY DEF Init, FramesMatch, Serving
<1> QED BY <1>1, <1>2, <1>3 DEF ChatInv

\* A task is run: what was queued is now sent, or its connection is not open.
LEMMA TaskChat ==
  ASSUME ChatInv, NEW l \in Loops, RunTask(l), UNCHANGED typed
  PROVE  ChatInv'
<1> DEFINE q == tasks[l]
<1>1. q \in Seq(Clients \X Messages) /\ q # <<>> /\ \A i \in DOMAIN q : LoopOf[q[i][1]] = l
  BY DEF RunTask, ChatInv, TypeOK
<1>2. Head(q) = q[1] /\ 1 \in DOMAIN q /\ q[1] \in Clients \X Messages
  BY <1>1
<1>3. PICK r \in Clients, m \in Messages : q[1] = <<r, m>>
  BY <1>2
<1>4. Deliver(r, m) /\ tasks' = [tasks EXCEPT ![l] = Tail(q)] /\ UNCHANGED <<lines, gone, run, said, typed>>
  BY <1>2, <1>3 DEF RunTask
<1>5. TypeOK /\ GreetedFirst /\ Secured
  BY DEF ChatInv
<1>6. /\ channels' \subseteq channels /\ state' \in [Clients -> States]
      /\ out' \in [Clients -> Seq(Messages)]
      /\ \A c \in Clients : state'[c] = state[c] \/ (c \notin channels' /\ state[c] = "secured" /\ state'[c] = "closed")
      /\ \A c \in Clients : out'[c] = out[c] \/ (c = r /\ state[c] = "secured" /\ out'[c] = Append(out[c], m))
      /\ state'[r] = "secured" => out'[r] = Append(out[r], m)
      /\ GreetedFirst' /\ Secured'
  BY <1>4, <1>5, DeliverEffect
<1> HIDE DEF q
<1>7. /\ Tail(q) \in Seq(Clients \X Messages)
      /\ \A i \in DOMAIN Tail(q) : i + 1 \in DOMAIN q /\ Tail(q)[i] = q[i + 1]
      /\ \A i \in DOMAIN q : i = 1 \/ (i - 1 \in DOMAIN Tail(q) /\ Tail(q)[i - 1] = q[i])
  <2> DEFINE P == Clients \X Messages
  <2> HIDE DEF P
  <2>1. q \in Seq(P) /\ q # <<>>
    BY <1>1 DEF P
  <2>2. /\ Tail(q) \in Seq(P)
        /\ \A i \in DOMAIN Tail(q) : i + 1 \in DOMAIN q /\ Tail(q)[i] = q[i + 1]
        /\ \A i \in DOMAIN q : i = 1 \/ (i - 1 \in DOMAIN Tail(q) /\ Tail(q)[i - 1] = q[i])
    BY <2>1
  <2> QED BY <2>2 DEF P
<1>8. tasks'[l] = Tail(q) /\ (\A h \in Loops : h # l => tasks'[h] = tasks[h]) /\ tasks[l] = q
  BY <1>4 DEF ChatInv, TypeOK, q
<1>9. TypeOK'
  <2>1. tasks' \in [Loops -> Seq(Clients \X Messages)]
    <3> DEFINE S == Seq(Clients \X Messages)
    <3>1. tasks \in [Loops -> S] /\ Tail(q) \in S
      BY <1>5, <1>7 DEF TypeOK
    <3> HIDE DEF S
    <3>2. tasks' \in [Loops -> S]
      BY <1>4, <3>1
    <3> QED BY <3>2 DEF S
  <2>2. \A h \in Loops : \A i \in DOMAIN tasks'[h] : LoopOf[tasks'[h][i][1]] = h
    <3> SUFFICES ASSUME NEW h \in Loops, NEW i \in DOMAIN tasks'[h] PROVE LoopOf[tasks'[h][i][1]] = h
      OBVIOUS
    <3>1. CASE h = l
      BY <3>1, <1>1, <1>7, <1>8
    <3>2. CASE h # l
      BY <3>2, <1>5, <1>8 DEF TypeOK
    <3> QED BY <3>1, <3>2
  <2> QED BY <1>4, <1>5, <1>6, <2>1, <2>2 DEF TypeOK
<1>10. ASSUME NEW p \in Clients, NEW c, NEW k, state'[p] = "secured", Sent(p, c, k) \/ InQueue(p, c, k)
       PROVE  (Sent(p, c, k) \/ InQueue(p, c, k))'
  <2>0. \A d \in Clients : out[d] \in Seq(Messages)
    BY <1>5 DEF TypeOK
  <2>1. CASE Sent(p, c, k)
    BY <2>1, <2>0, <1>6, SentGrows
  <2>2. CASE InQueue(p, c, k)
    <3> DEFINE h == LoopOf[p]
    <3>1. h \in Loops
      BY LoopType
    <3>2. PICK i \in DOMAIN tasks[h] : tasks[h][i][1] = p /\ tasks[h][i][2].from = c /\ tasks[h][i][2].k = k
      BY <2>2 DEF InQueue
    <3> HIDE DEF h
    <3>3. CASE h # l
      <4>1. tasks'[h] = tasks[h]
        BY <3>1, <3>3, <1>8
      <4> QED BY <3>2, <4>1 DEF InQueue, h
    <3>4. CASE h = l /\ i = 1
      <4>1. p = r /\ m.from = c /\ m.k = k
        BY <3>2, <3>4, <1>3, <1>8 DEF q
      <4> QED BY <4>1, <1>6, <1>10, <2>0, SentNow
    <3>5. CASE h = l /\ i # 1
      <4>1. i - 1 \in DOMAIN tasks'[h] /\ tasks'[h][i - 1] = tasks[h][i]
        BY <3>2, <3>5, <1>7, <1>8
      <4> QED BY <3>2, <4>1 DEF InQueue, h
    <3> QED BY <3>3, <3>4, <3>5
  <2> QED BY <1>10, <2>1, <2>2
<1>11. FramesMatch' /\ Serving'
  <2>1. run' = run
    BY <1>4
  <2>2. \A c \in Clients : \/ state'[c] = state[c]
                           \/ /\ state[c] \notin {"added", "leaving"} /\ state'[c] \notin Early
                              /\ state'[c] = "secured" => state[c] \in Early
    BY <1>6 DEF Early
  <2> QED BY <1>10, <2>1, <2>2, FramesKept
<1> QED BY <1>6, <1>9, <1>11 DEF ChatInv

\* One turn of the for loop.
LEMMA VisitChat ==
  ASSUME ChatInv, NEW l \in Loops, Visit(l), UNCHANGED typed
  PROVE  ChatInv'
<1> DEFINE f == run[l]
<1>1. TypeOK /\ GreetedFirst /\ Secured /\ f # Idle
  BY DEF ChatInv, Visit
<1>2. /\ f \in Frames /\ f.chan \in Clients /\ f.k \in Nat /\ f.kind \in Kinds
      /\ f.seen \subseteq Clients /\ f.due \subseteq Clients /\ LoopOf[f.chan] = l
  BY <1>1, FrameType
<1>3. PICK r \in (channels \cup f.due) \ f.seen :
         /\ run' = [run EXCEPT ![l].seen = @ \cup {r}]
         /\ Write(l, r, Message(f.chan, f.k, IF f.op = "read" /\ r = f.chan THEN "you" ELSE f.kind))
  BY DEF Visit
<1>4. PICK m \in Messages : m.from = f.chan /\ m.k = f.k /\ Write(l, r, m)
  <2> DEFINE w == Message(f.chan, f.k, IF f.op = "read" /\ r = f.chan THEN "you" ELSE f.kind)
  <2>1. w \in Messages /\ w.from = f.chan /\ w.k = f.k
    BY <1>2 DEF Message, Messages, Kinds
  <2> QED BY <2>1, <1>3
<1>5. UNCHANGED <<lines, gone, said, typed>>
  BY DEF Visit
<1>6. r \in Clients /\ state[r] \notin Early
  <2>1. CASE r \in channels
    BY <2>1, <1>1 DEF TypeOK, GreetedFirst, Early
  <2>2. CASE r \in f.due
    BY <2>2, <1>1, <1>2 DEF ChatInv, Serving, Reached
  <2> QED BY <1>3, <2>1, <2>2
<1>7. /\ channels' \subseteq channels /\ state' \in [Clients -> States]
      /\ out' \in [Clients -> Seq(Messages)]
      /\ tasks' \in [Loops -> Seq(Clients \X Messages)]
      /\ \A j \in Loops : \A i \in DOMAIN tasks'[j] : LoopOf[tasks'[j][i][1]] = j
      /\ \A c \in Clients : state'[c] = state[c] \/ (c \notin channels' /\ state[c] = "secured" /\ state'[c] = "closed")
      /\ \A q \in Clients : \A c, k : Sent(q, c, k) \/ InQueue(q, c, k) => (Sent(q, c, k) \/ InQueue(q, c, k))'
      /\ state'[r] = "secured" => (Sent(r, m.from, m.k) \/ InQueue(r, m.from, m.k))'
      /\ GreetedFirst' /\ Secured'
  BY <1>1, <1>4, <1>6, WriteEffect
<1>8. /\ run'[l] \in Frames /\ run'[l].chan = f.chan /\ run'[l].op = f.op /\ run'[l].k = f.k
      /\ run'[l].seen = f.seen \cup {r} /\ run'[l].due = f.due
      /\ \A j \in Loops : j # l => run'[j] = run[j]
  <2>1. run'[l] = [f EXCEPT !.seen = @ \cup {r}]
    BY <1>1, <1>3 DEF TypeOK
  <2>2. \A j \in Loops : j # l => run'[j] = run[j]
    BY <1>1, <1>3 DEF TypeOK
  <2> HIDE DEF f
  <2>3. [f EXCEPT !.seen = @ \cup {r}] \in Frames
    BY <1>2, <1>6 DEF Frames
  <2>4. /\ [f EXCEPT !.seen = @ \cup {r}].seen = f.seen \cup {r} /\ [f EXCEPT !.seen = @ \cup {r}].due = f.due
        /\ [f EXCEPT !.seen = @ \cup {r}].chan = f.chan /\ [f EXCEPT !.seen = @ \cup {r}].op = f.op
        /\ [f EXCEPT !.seen = @ \cup {r}].k = f.k
    BY <1>2 DEF Frames
  <2> QED BY <2>1, <2>2, <2>3, <2>4
<1>9. TypeOK'
  <2>1. run' \in [Loops -> Frames \cup {Idle}]
    <3> DEFINE R == Frames \cup {Idle}
    <3>1. run \in [Loops -> R] /\ run'[l] \in R
      BY <1>1, <1>8 DEF TypeOK
    <3>2. run' = [run EXCEPT ![l] = [run[l] EXCEPT !.seen = run[l].seen \cup {r}]]
      BY <1>3
    <3> DEFINE g == [run[l] EXCEPT !.seen = run[l].seen \cup {r}]
    <3>4. run' = [run EXCEPT ![l] = g] /\ g \in R
      BY <3>1, <3>2
    <3> HIDE DEF R, g
    <3>3. run' \in [Loops -> R]
      BY <3>1, <3>4
    <3> QED BY <3>3 DEF R
  <2>2. \A j \in Loops : run'[j] # Idle => LoopOf[run'[j].chan] = j
    <3> SUFFICES ASSUME NEW j \in Loops, run'[j] # Idle PROVE LoopOf[run'[j].chan] = j
      OBVIOUS
    <3>1. CASE j = l
      BY <3>1, <1>2, <1>8
    <3>2. CASE j # l
      BY <3>2, <1>1, <1>8 DEF TypeOK
    <3> QED BY <3>1, <3>2
  <2>3. channels' \subseteq Clients
    BY <1>1, <1>7 DEF TypeOK
  <2> QED BY <1>1, <1>5, <1>7, <2>1, <2>2, <2>3 DEF TypeOK
<1>10. FramesMatch'
  <2> SUFFICES ASSUME NEW j \in Loops, run'[j] # Idle
               PROVE  /\ run'[j].op = "added" => state'[run'[j].chan] = "added"
                      /\ run'[j].op = "removed" => state'[run'[j].chan] = "leaving"
    BY DEF FramesMatch
  <2>1. run[j] # Idle /\ run'[j].op = run[j].op /\ run'[j].chan = run[j].chan
    BY <1>1, <1>8
  <2>2. run[j].chan \in Clients
    BY <1>1, <2>1, FrameType
  <2> QED BY <1>7, <2>1, <2>2 DEF ChatInv, FramesMatch
<1>11. Serving'
  <2> SUFFICES ASSUME NEW j \in Loops, run'[j] # Idle, NEW p \in run'[j].seen \cup run'[j].due
               PROVE  Reached(run[j], p)'
    BY DEF Serving
  <2>1. CASE j = l /\ p = r
    BY <2>1, <1>4, <1>6, <1>7, <1>8 DEF Reached, Early
  <2>2. CASE ~(j = l /\ p = r)
    <3>1. /\ run[j] # Idle /\ p \in run[j].seen \cup run[j].due /\ run'[j].chan = run[j].chan /\ run'[j].k = run[j].k
          /\ p \in run'[j].seen => p \in run[j].seen
      BY <2>2, <1>1, <1>8
    <3>2. p \in Clients /\ Reached(run[j], p)
      BY <1>1, <3>1, FrameType DEF ChatInv, Serving
    <3> QED BY <1>7, <3>1, <3>2 DEF Reached, Early
  <2> QED BY <2>1, <2>2
<1> QED BY <1>7, <1>9, <1>10, <1>11 DEF ChatInv

\* A broadcast ends.
LEMMA EndChat ==
  ASSUME ChatInv, NEW l \in Loops, End(l), UNCHANGED typed
  PROVE  ChatInv'
<1> DEFINE f == run[l]
           d == f.chan
<1>1. TypeOK /\ GreetedFirst /\ Secured /\ f # Idle
  BY DEF ChatInv, End, Over
<1>2. d \in Clients /\ LoopOf[d] = l /\ f.op \in {"added", "read", "removed"}
  BY <1>1, FrameType
<1>3. /\ f.op = "added" => state[d] = "added"
      /\ f.op = "removed" => state[d] = "leaving"
  BY <1>1 DEF ChatInv, FramesMatch
<1>4. /\ \A c \in Clients : c # d => state'[c] = state[c]
      /\ \/ state[d] = "added" /\ state'[d] = "handshake"
         \/ state[d] = "leaving" /\ state'[d] = "removed"
         \/ state[d] \in {"secured", "bare"} /\ state'[d] = "closing"
         \/ state'[d] = state[d]
      /\ state' \in [Clients -> States]
  <2> DEFINE new == CASE f.op = "added" -> "handshake"
                      [] f.op = "removed" -> "removed"
                      [] f.kind = "bye" /\ state[d] \in {"secured", "bare"} -> "closing"
                      [] OTHER -> state[d]
  <2>1. state' = [state EXCEPT ![d] = new] /\ state \in [Clients -> States]
    BY <1>1 DEF End, TypeOK
  <2>2. /\ new \in States
        /\ \/ state[d] = "added" /\ new = "handshake"
           \/ state[d] = "leaving" /\ new = "removed"
           \/ state[d] \in {"secured", "bare"} /\ new = "closing"
           \/ new = state[d]
    BY <1>2, <1>3, <2>1 DEF States
  <2> HIDE DEF new
  <2> QED BY <1>2, <2>1, <2>2
<1>5. /\ run' = [run EXCEPT ![l] = Idle] /\ UNCHANGED <<lines, gone, tasks, out, said, typed>>
      /\ channels' \subseteq channels
  BY DEF End
<1>6. run'[l] = Idle /\ (\A j \in Loops : j # l => run'[j] = run[j]) /\ run' \in [Loops -> Frames \cup {Idle}]
  BY <1>1, <1>5 DEF TypeOK
<1>7. TypeOK'
  BY <1>1, <1>4, <1>5, <1>6 DEF TypeOK
<1>8. GreetedFirst' /\ Secured'
  <2>1. \A c : Greeted(c)' = Greeted(c)
    BY <1>5 DEF Greeted, Greeting, Message
  <2>2. Secured'
    BY <1>1, <1>4, <2>1 DEF Secured
  <2> SUFFICES ASSUME NEW c \in Clients PROVE Fits(c)'
    BY <2>2 DEF GreetedFirst, Fits, Unheard, Early
  <2>3. Fits(c)
    BY <1>1 DEF GreetedFirst, Fits, Unheard, Early
  <2> QED BY <1>4, <1>5, <2>1, <2>3 DEF Fits, Unheard, Early
<1>9. FramesMatch'
  <2> SUFFICES ASSUME NEW j \in Loops, run'[j] # Idle
               PROVE  /\ run'[j].op = "added" => state'[run'[j].chan] = "added"
                      /\ run'[j].op = "removed" => state'[run'[j].chan] = "leaving"
    BY DEF FramesMatch
  <2>1. j # l /\ run'[j] = run[j] /\ run[j] # Idle
    BY <1>6
  <2>2. run[j].chan \in Clients /\ run[j].chan # d
    BY <1>1, <1>2, <2>1, FrameType
  <2> QED BY <1>4, <2>1, <2>2 DEF ChatInv, FramesMatch
<1>10. Serving'
  <2> SUFFICES ASSUME NEW j \in Loops, run'[j] # Idle, NEW r \in run'[j].seen \cup run'[j].due
               PROVE  Reached(run[j], r)'
    BY DEF Serving
  <2>1. j # l /\ run'[j] = run[j] /\ run[j] # Idle
    BY <1>6
  <2>2. r \in Clients /\ Reached(run[j], r)
    BY <1>1, <2>1, FrameType DEF ChatInv, Serving
  <2>3. \A c, k : Sent(r, c, k) \/ InQueue(r, c, k) => (Sent(r, c, k) \/ InQueue(r, c, k))'
    BY <1>5 DEF Sent, InQueue
  <2> QED BY <1>4, <2>1, <2>2, <2>3 DEF Reached, Early
<1> QED BY <1>7, <1>8, <1>9, <1>10 DEF ChatInv

\* A handler begins a broadcast.
LEMMA BeginChat ==
  ASSUME ChatInv, NEW c \in Clients, handlerAdded(c) \/ channelRead0(c) \/ handlerRemoved(c), UNCHANGED typed
  PROVE  ChatInv'
<1>1. TypeOK /\ GreetedFirst /\ Secured
  BY DEF ChatInv
<1>2. PICK op \in {"added", "read", "removed"}, kind \in Kinds :
        /\ Begin(c, op, kind)
        /\ op = "added" => state'[c] = "added"
        /\ op = "removed" => state'[c] = "leaving"
        /\ \A d \in Clients : \/ state'[d] = state[d]
                              \/ d = c /\ state[c] = "none" /\ state'[c] = "added"
                              \/ d = c /\ state[c] = "closed" /\ state'[c] = "leaving"
        /\ state' \in [Clients -> States] /\ lines' \in [Clients -> Seq(Lines)]
        /\ UNCHANGED <<channels, gone, tasks, out>>
  <2>1. CASE handlerAdded(c)
    <3>1. Begin(c, "added", "joined") /\ "joined" \in Kinds
      BY <2>1 DEF handlerAdded, Kinds
    <3> QED BY <2>1, <3>1, <1>1 DEF handlerAdded, TypeOK, States
  <2>2. CASE channelRead0(c)
    <3>1. lines[c] \in Seq(Lines) /\ lines[c] # <<>>
      BY <2>2, <1>1 DEF channelRead0, TypeOK
    <3>2. Head(lines[c]) \in Lines /\ Tail(lines[c]) \in Seq(Lines)
      BY <3>1
    <3>3. Begin(c, "read", Head(lines[c])) /\ Head(lines[c]) \in Kinds
      BY <2>2, <3>2 DEF channelRead0, Kinds
    <3>4. lines' \in [Clients -> Seq(Lines)]
      BY <2>2, <3>2, <1>1 DEF channelRead0, TypeOK
    <3> QED BY <2>2, <3>3, <3>4, <1>1 DEF channelRead0, TypeOK
  <2>3. CASE handlerRemoved(c)
    <3>1. Begin(c, "removed", "left") /\ "left" \in Kinds
      BY <2>3 DEF handlerRemoved, Kinds
    <3> QED BY <2>3, <3>1, <1>1 DEF handlerRemoved, TypeOK, States
  <2> QED BY <2>1, <2>2, <2>3
<1>3. /\ run' \in [Loops -> Frames \cup {Idle}] /\ said' \in [Clients -> Nat]
      /\ \A l \in Loops : run'[l] # Idle => LoopOf[run'[l].chan] = l
      /\ FramesMatch' /\ Serving'
  BY <1>2, BeginKept
<1>4. TypeOK'
  BY <1>1, <1>2, <1>3 DEF TypeOK
<1>5. GreetedFirst' /\ Secured'
  <2>1. \A d : Greeted(d)' = Greeted(d)
    BY <1>2 DEF Greeted, Greeting, Message
  <2>2. Secured'
    BY <1>1, <1>2, <2>1 DEF Secured
  <2> SUFFICES ASSUME NEW d \in Clients PROVE Fits(d)'
    BY <2>2 DEF GreetedFirst, Fits, Unheard, Early
  <2>3. Fits(d)
    BY <1>1 DEF GreetedFirst, Fits, Unheard, Early
  <2> QED BY <1>2, <2>1, <2>3 DEF Fits, Unheard, Early
<1> QED BY <1>3, <1>4, <1>5 DEF ChatInv

\* The handshake completes: the greeting is the first thing sent.
LEMMA CompleteChat ==
  ASSUME ChatInv, NEW c \in Clients, operationComplete(c), UNCHANGED typed
  PROVE  ChatInv'
<1>1. TypeOK /\ GreetedFirst /\ Secured /\ state[c] = "handshake"
  BY DEF ChatInv, operationComplete
<1>2. out[c] = <<>> /\ Greeting(c) \in Seq(Messages) /\ Len(Greeting(c)) = 2 /\ <<>> \o Greeting(c) = Greeting(c)
  BY <1>1, GreetingType DEF GreetedFirst
<1>3. /\ out'[c] = Greeting(c) /\ (\A d \in Clients : d # c => out'[d] = out[d])
      /\ out' \in [Clients -> Seq(Messages)]
  BY <1>1, <1>2 DEF operationComplete, TypeOK
<1>4. /\ state'[c] = "secured" /\ (\A d \in Clients : d # c => state'[d] = state[d])
      /\ state' \in [Clients -> States] /\ channels' = channels \cup {c}
      /\ UNCHANGED <<lines, gone, run, tasks, said, typed>>
  BY <1>1 DEF operationComplete, TypeOK, States
<1>5. TypeOK'
  BY <1>1, <1>3, <1>4 DEF TypeOK
<1>6. Greeted(c)' /\ \A d \in Clients : d # c => Greeted(d)' = Greeted(d)
  BY <1>2, <1>3 DEF Greeted, Greeting, Message
<1>7. GreetedFirst' /\ Secured'
  BY <1>1, <1>3, <1>4, <1>6 DEF GreetedFirst, Secured
<1>8. ASSUME NEW q \in Clients, NEW d, NEW k, Sent(q, d, k) \/ InQueue(q, d, k)
      PROVE  (Sent(q, d, k) \/ InQueue(q, d, k))'
  <2>1. CASE q = c
    <3>1. ~Sent(q, d, k)
      BY <2>1, <1>2 DEF Sent
    <3> QED BY <3>1, <1>4, <1>8 DEF InQueue
  <2>2. CASE q # c
    BY <2>2, <1>3, <1>4, <1>8 DEF InQueue, Sent
  <2> QED BY <2>1, <2>2
<1>9. FramesMatch' /\ Serving'
  <2>1. \A d \in Clients : \/ state'[d] = state[d]
                           \/ /\ state[d] \notin {"added", "leaving"} /\ state'[d] \notin Early
                              /\ state'[d] = "secured" => state[d] \in Early
    BY <1>1, <1>4 DEF Early
  <2>2. run' = run
    BY <1>4
  <2> QED BY <1>8, <2>1, <2>2, FramesKept
<1> QED BY <1>5, <1>7, <1>9 DEF ChatInv

\* A connection closes, or is going to, or its listener does not greet.
Ending(c) == operationFailed(c) \/ operationThrows(c) \/ exceptionCaught(c) \/ Close(c)

\* What such a step makes of the connection and of the group.
LEMMA EndingEffect ==
  ASSUME TypeOK, GreetedFirst, NEW c \in Clients, Ending(c)
  PROVE  /\ \A d \in Clients : d # c => state'[d] = state[d]
         /\ state[c] \in {"handshake", "failed", "bare", "secured", "closing"}
         /\ state'[c] \in {"failed", "bare", "closing", "closed"}
         /\ state' \in [Clients -> States]
         /\ channels' \subseteq channels \cup {c} /\ channels \subseteq channels' \cup {c}
         /\ c \in channels' => state'[c] = "failed" \/ (state'[c] = "closing" /\ c \in channels /\ state[c] # "failed")
         /\ state'[c] \in {"failed", "bare"} => state[c] = "handshake"
         /\ state'[c] = "closing" => state[c] \in {"bare", "secured", "closing"}
         /\ UNCHANGED <<gone, run, tasks, out, said>>
<1>0. c \in channels => state[c] \in {"secured", "closing", "failed"}
  BY DEF GreetedFirst
<1>1. CASE operationFailed(c)
  BY <1>1 DEF operationFailed, TypeOK, States
<1>2. CASE operationThrows(c)
  <2>1. PICK s \in {"bare", "closed"} : state' = [state EXCEPT ![c] = s]
    BY <1>2 DEF operationThrows
  <2> QED BY <1>0, <1>2, <2>1 DEF operationThrows, TypeOK, States
<1>3. CASE exceptionCaught(c)
  BY <1>3 DEF exceptionCaught, TypeOK, States
<1>4. CASE Close(c)
  BY <1>4 DEF Close, TypeOK, States
<1> QED BY <1>1, <1>2, <1>3, <1>4 DEF Ending

\* Such a step keeps the invariant.
LEMMA ClosingChat ==
  ASSUME ChatInv, NEW c \in Clients, Ending(c), UNCHANGED typed
  PROVE  ChatInv'
<1>1. TypeOK /\ GreetedFirst /\ Secured
  BY DEF ChatInv
<1>2. /\ \A d \in Clients : d # c => state'[d] = state[d]
      /\ state[c] \in {"handshake", "failed", "bare", "secured", "closing"}
      /\ state'[c] \in {"failed", "bare", "closing", "closed"}
      /\ state' \in [Clients -> States] /\ channels' \subseteq channels \cup {c}
      /\ c \in channels' => state'[c] = "failed" \/ (state'[c] = "closing" /\ c \in channels /\ state[c] # "failed")
      /\ state'[c] \in {"failed", "bare"} => state[c] = "handshake"
      /\ state'[c] = "closing" => state[c] \in {"bare", "secured", "closing"}
      /\ UNCHANGED <<gone, run, tasks, out, said, typed>>
  BY <1>1, EndingEffect
<1>3. lines' \in [Clients -> Seq(Lines)]
  <2>1. CASE operationFailed(c) \/ operationThrows(c) \/ Close(c)
    BY <2>1, <1>1 DEF operationFailed, operationThrows, Close, TypeOK
  <2>2. CASE exceptionCaught(c)
    <3>1. lines[c] \in Seq(Lines) /\ lines[c] # <<>>
      BY <2>2, <1>1 DEF exceptionCaught, TypeOK
    <3>2. Tail(lines[c]) \in Seq(Lines)
      BY <3>1
    <3> QED BY <2>2, <3>2, <1>1 DEF exceptionCaught, TypeOK
  <2> QED BY <2>1, <2>2 DEF Ending
<1>4. TypeOK'
  BY <1>1, <1>2, <1>3 DEF TypeOK
<1>5. \A d : Greeted(d)' = Greeted(d)
  BY <1>2 DEF Greeted, Greeting, Message
<1>6. GreetedFirst' /\ Secured'
  <2>1. Secured'
    BY <1>1, <1>2, <1>5 DEF Secured
  <2> SUFFICES ASSUME NEW d \in Clients PROVE Fits(d)'
    BY <2>1 DEF GreetedFirst, Fits, Unheard, Early
  <2>3. Fits(d)
    BY <1>1 DEF GreetedFirst, Fits, Unheard, Early
  <2>4. CASE d # c
    <3>1. state'[d] = state[d] /\ out'[d] = out[d] /\ (d \in channels' => d \in channels)
      BY <1>2, <2>4
    <3> QED BY <1>5, <2>3, <3>1 DEF Fits
  <2>5. CASE d = c
    <3>1. out[c] # <<>> => state[c] \notin Unheard /\ Greeted(c)
      BY <2>3, <2>5 DEF Fits
    <3>2. c \in channels' => (state'[c] = "closing" /\ Greeted(c)) \/ (state'[c] = "failed" /\ out[c] = <<>>)
      BY <1>2, <2>3, <2>5, <3>1 DEF Fits, Unheard, Early
    <3> QED BY <1>2, <1>5, <2>5, <3>1, <3>2 DEF Fits, Unheard, Early
  <2> QED BY <2>4, <2>5
<1>7. FramesMatch' /\ Serving'
  <2>1. \A d \in Clients : \/ state'[d] = state[d]
                           \/ /\ state[d] \notin {"added", "leaving"} /\ state'[d] \notin Early
                              /\ state'[d] = "secured" => state[d] \in Early
    BY <1>2 DEF Early
  <2>2. \A q \in Clients : \A d, k : Sent(q, d, k) \/ InQueue(q, d, k) => (Sent(q, d, k) \/ InQueue(q, d, k))'
    BY <1>2 DEF Sent, InQueue
  <2>3. run' = run
    BY <1>2
  <2> QED BY <2>1, <2>2, <2>3, FramesKept
<1> QED BY <1>4, <1>6, <1>7 DEF ChatInv

\* What clients do, and a stutter.
LEMMA ClientChat ==
  ASSUME ChatInv, \/ \E c \in Clients : Type(c) \/ HangUp(c)
                  \/ UNCHANGED vars
  PROVE  ChatInv'
<1>1. /\ TypeOK /\ GreetedFirst /\ Secured
      /\ UNCHANGED <<channels, state, run, tasks, out, said>>
  BY DEF ChatInv, Type, HangUp, vars
<1>2. lines' \in [Clients -> Seq(Lines)] /\ typed' \in 0 .. MaxLines /\ gone' \subseteq Clients
  <2>1. CASE \E c \in Clients : Type(c)
    <3>1. PICK c \in Clients, line \in Lines : lines' = [lines EXCEPT ![c] = Append(@, line)]
      BY <2>1 DEF Type
    <3>2. Append(lines[c], line) \in Seq(Lines)
      BY <1>1 DEF TypeOK
    <3>3. lines' \in [Clients -> Seq(Lines)]
      BY <1>1, <3>1, <3>2 DEF TypeOK
    <3>4. typed' \in 0 .. MaxLines /\ gone' = gone
      <4>1. typed < MaxLines /\ typed' = typed + 1 /\ gone' = gone
        BY <2>1 DEF Type
      <4>2. typed \in 0 .. MaxLines /\ MaxLines \in Nat
        BY <1>1, ChatAssumption DEF TypeOK
      <4> QED BY <4>1, <4>2
    <3> QED BY <3>3, <3>4, <1>1 DEF TypeOK
  <2>2. CASE (\E c \in Clients : HangUp(c)) \/ UNCHANGED vars
    BY <2>2, <1>1 DEF HangUp, vars, TypeOK
  <2> QED BY <2>1, <2>2
<1>3. TypeOK'
  BY <1>1, <1>2 DEF TypeOK
<1>4. GreetedFirst' /\ Secured'
  BY <1>1 DEF GreetedFirst, Secured, Greeted, Greeting, Message
<1>5. FramesMatch' /\ Serving'
  <2>1. \A c \in Clients : state'[c] = state[c]
    BY <1>1
  <2>2. \A q \in Clients : \A d, k : Sent(q, d, k) \/ InQueue(q, d, k) => (Sent(q, d, k) \/ InQueue(q, d, k))'
    BY <1>1 DEF Sent, InQueue
  <2>3. run' = run
    BY <1>1
  <2> QED BY <2>1, <2>2, <2>3, FramesKept
<1> QED BY <1>3, <1>4, <1>5 DEF ChatInv

(***************************************************************************)
(* The order of what one client is sent of another.  Between two clients   *)
(* the messages are numbered; s is what the client has been sent and q the *)
(* queue of its loop.                                                      *)
(***************************************************************************)
HeardIn(s, c) == {i \in DOMAIN s : s[i].from = c /\ s[i].k > 0}
AwaitedIn(q, r, c) == {i \in DOMAIN q : q[i][1] = r /\ q[i][2].from = c}
NumbersHeard(s, c) == {s[i].k : i \in HeardIn(s, c)}
NumbersAwaited(q, r, c) == {q[i][2].k : i \in AwaitedIn(q, r, c)}
Numbers(s, q, r, c) == NumbersHeard(s, c) \cup NumbersAwaited(q, r, c)

Unbroken(K) == \A x, y \in K : \A z \in Nat : x < z /\ z < y => z \in K
UpTo(K, n) == K # {} => n \in K /\ \A x \in K : x <= n

InOrder(s, c) == \A i, j \in HeardIn(s, c) : i < j => s[i].k < s[j].k
AwaitedInOrder(q, r, c) == \A i, j \in AwaitedIn(q, r, c) : i < j => q[i][2].k < q[j][2].k
HeardInOrder(s, c) == InOrder(s, c) /\ Unbroken(NumbersHeard(s, c))

\* What is queued goes on where what was sent ends, up to the number n.
Lane(s, q, r, c, n) ==
  /\ AwaitedInOrder(q, r, c)
  /\ \A x \in NumbersHeard(s, c), y \in NumbersAwaited(q, r, c) : x < y
  /\ Unbroken(Numbers(s, q, r, c)) /\ UpTo(Numbers(s, q, r, c), n)

\* The last number an open connection should have of another: that of the
\* broadcast under way only once it was visited.
Visiting(c) == run[LoopOf[c]] # Idle /\ run[LoopOf[c]].chan = c
Before(r, c) == Visiting(c) /\ r \notin run[LoopOf[c]].seen
LastFor(r, c) == IF Before(r, c) THEN said[c] - 1 ELSE said[c]

OpenLane(r, c) ==
  /\ Lane(out[r], tasks[LoopOf[r]], r, c, LastFor(r, c))
  /\ Before(r, c) /\ Numbers(out[r], tasks[LoopOf[r]], r, c) # {} => r \in run[LoopOf[c]].due

Lanes == \A r, c \in Clients : HeardInOrder(out[r], c) /\ (state[r] = "secured" => OpenLane(r, c))

\* The note that a connection left is the last of it.
LastWord(m) == m.kind = "left" => m.k = said[m.from] /\ state[m.from] \in {"leaving", "removed"}
SentAreSaid == \A r \in Clients : \A i \in DOMAIN out[r] : LastWord(out[r][i]) /\ out[r][i].k <= said[out[r][i].from]
TaskFits(l, t) ==
  /\ t[2].k > 0 /\ t[2].k <= said[t[2].from] /\ LastWord(t[2])
  /\ LoopOf[t[2].from] # l /\ state[t[1]] \notin Early
TasksFit == \A l \in Loops : \A i \in DOMAIN tasks[l] : TaskFits(l, tasks[l][i])
FrameFits(f) == f.k = said[f.chan] /\ f.k > 0 /\ (f.kind = "left" => f.op = "removed")
FramesFit == \A l \in Loops : run[l] # Idle => FrameFits(run[l])
OpenAreMembers == \A r \in Clients : state[r] = "secured" => r \in channels

OrderInv == Lanes /\ SentAreSaid /\ TasksFit /\ FramesFit /\ OpenAreMembers

\* An unbroken set of numbers that ends right before the next one, and that one.
LEMMA NumbersGrow ==
  ASSUME NEW K \in SUBSET Nat, NEW k \in Nat, Unbroken(K), UpTo(K, k - 1)
  PROVE  Unbroken(K \cup {k}) /\ UpTo(K \cup {k}, k) /\ \A x \in K : x < k
BY DEF Unbroken, UpTo

\* The first of what is queued follows what was sent.
LEMMA NumbersMove ==
  ASSUME NEW A \in SUBSET Nat, NEW B \in SUBSET Nat, NEW h \in Nat,
         Unbroken(A \cup ({h} \cup B)), \A x \in A, y \in {h} \cup B : x < y, \A y \in B : h < y
  PROVE  /\ Unbroken(A \cup {h}) /\ \A x \in A \cup {h}, y \in B : x < y
         /\ (A \cup {h}) \cup B = A \cup ({h} \cup B)
BY DEF Unbroken

\* A client is sent one more message.
LEMMA HeardGrows ==
  ASSUME NEW s \in Seq(Messages), NEW m \in Messages, NEW c
  PROVE  /\ ~(m.from = c /\ m.k > 0) => HeardIn(Append(s, m), c) = HeardIn(s, c)
         /\ m.from = c /\ m.k > 0 => HeardIn(Append(s, m), c) = HeardIn(s, c) \cup {Len(s) + 1}
         /\ \A i \in HeardIn(s, c) : i \in 1 .. Len(s) /\ Append(s, m)[i] = s[i]
         /\ Append(s, m)[Len(s) + 1] = m
<1>0. PICK a : a = Append(s, m)
  OBVIOUS
<1>1. /\ DOMAIN a = 1 .. Len(s) + 1 /\ DOMAIN s = 1 .. Len(s) /\ Len(s) \in Nat
      /\ a[Len(s) + 1] = m /\ \A i \in 1 .. Len(s) : a[i] = s[i]
  BY <1>0
<1>2. ~(m.from = c /\ m.k > 0) => HeardIn(a, c) = HeardIn(s, c)
  BY <1>1 DEF HeardIn
<1>3. m.from = c /\ m.k > 0 => HeardIn(a, c) = HeardIn(s, c) \cup {Len(s) + 1}
  BY <1>1 DEF HeardIn
<1>4. \A i \in HeardIn(s, c) : i \in 1 .. Len(s) /\ a[i] = s[i]
  BY <1>1 DEF HeardIn
<1>5. a[Len(s) + 1] = m
  BY <1>1
<1> QED BY <1>0, <1>2, <1>3, <1>4, <1>5, Zenon

\* A message of another sender, or the greeting, changes no lane.
LEMMA HeardOther ==
  ASSUME NEW s \in Seq(Messages), NEW m \in Messages, NEW c, ~(m.from = c /\ m.k > 0)
  PROVE  NumbersHeard(Append(s, m), c) = NumbersHeard(s, c) /\ (InOrder(s, c) => InOrder(Append(s, m), c))
<1>0. PICK a : a = Append(s, m)
  OBVIOUS
<1>1. HeardIn(a, c) = HeardIn(s, c) /\ \A i \in HeardIn(s, c) : a[i] = s[i]
  BY <1>0, HeardGrows
<1>2. NumbersHeard(a, c) = NumbersHeard(s, c) /\ (InOrder(s, c) => InOrder(a, c))
  BY <1>1 DEF NumbersHeard, InOrder
<1> QED BY <1>0, <1>2

\* A message behind all others of its sender.
LEMMA HeardNext ==
  ASSUME NEW s \in Seq(Messages), NEW m \in Messages, m.k > 0, \A x \in NumbersHeard(s, m.from) : x < m.k
  PROVE  /\ NumbersHeard(Append(s, m), m.from) = NumbersHeard(s, m.from) \cup {m.k}
         /\ InOrder(s, m.from) => InOrder(Append(s, m), m.from)
<1>0. PICK a : a = Append(s, m)
  OBVIOUS
<1> DEFINE c == m.from
           z == Len(s) + 1
<1>1. /\ HeardIn(a, c) = HeardIn(s, c) \cup {z} /\ a[z] = m
      /\ \A i \in HeardIn(s, c) : i \in 1 .. Len(s) /\ a[i] = s[i]
  BY <1>0, HeardGrows
<1>2. \A i \in HeardIn(s, c) : i \in Nat /\ i < z /\ s[i].k < m.k
  BY <1>1 DEF NumbersHeard
<1>3. z \in Nat
  OBVIOUS
<1> HIDE DEF c, z
<1>4. NumbersHeard(a, c) = NumbersHeard(s, c) \cup {m.k}
  BY <1>1 DEF NumbersHeard
<1>5. ASSUME InOrder(s, c), NEW i \in HeardIn(a, c), NEW j \in HeardIn(a, c), i < j PROVE a[i].k < a[j].k
  <2>1. i \in HeardIn(s, c)
    BY <1>1, <1>2, <1>3, <1>5
  <2>2. CASE j \in HeardIn(s, c)
    BY <2>1, <2>2, <1>1, <1>5 DEF InOrder
  <2>3. CASE j = z
    BY <2>1, <2>3, <1>1, <1>2
  <2> QED BY <2>2, <2>3, <1>1
<1>6. InOrder(s, c) => InOrder(a, c)
  BY <1>5 DEF InOrder
<1> QED BY <1>0, <1>4, <1>6 DEF c

\* A task more in a queue.
LEMMA AwaitedGrows ==
  ASSUME NEW S, NEW q \in Seq(S), NEW t \in S, NEW r, NEW c
  PROVE  /\ ~(t[1] = r /\ t[2].from = c) => AwaitedIn(Append(q, t), r, c) = AwaitedIn(q, r, c)
         /\ t[1] = r /\ t[2].from = c => AwaitedIn(Append(q, t), r, c) = AwaitedIn(q, r, c) \cup {Len(q) + 1}
         /\ \A i \in AwaitedIn(q, r, c) : i \in 1 .. Len(q) /\ Append(q, t)[i] = q[i]
         /\ Append(q, t)[Len(q) + 1] = t
<1>0. PICK a : a = Append(q, t)
  OBVIOUS
<1>1. /\ DOMAIN a = 1 .. Len(q) + 1 /\ DOMAIN q = 1 .. Len(q) /\ Len(q) \in Nat
      /\ a[Len(q) + 1] = t /\ \A i \in 1 .. Len(q) : a[i] = q[i]
  BY <1>0
<1>2. ~(t[1] = r /\ t[2].from = c) => AwaitedIn(a, r, c) = AwaitedIn(q, r, c)
  BY <1>1 DEF AwaitedIn
<1>3. t[1] = r /\ t[2].from = c => AwaitedIn(a, r, c) = AwaitedIn(q, r, c) \cup {Len(q) + 1}
  BY <1>1 DEF AwaitedIn
<1>4. \A i \in AwaitedIn(q, r, c) : i \in 1 .. Len(q) /\ a[i] = q[i]
  BY <1>1 DEF AwaitedIn
<1>5. a[Len(q) + 1] = t
  BY <1>1
<1> QED BY <1>0, <1>2, <1>3, <1>4, <1>5, Zenon

\* A task for another connection or of another sender.
LEMMA AwaitedOther ==
  ASSUME NEW S, NEW q \in Seq(S), NEW t \in S, NEW r, NEW c, ~(t[1] = r /\ t[2].from = c)
  PROVE  /\ NumbersAwaited(Append(q, t), r, c) = NumbersAwaited(q, r, c)
         /\ AwaitedInOrder(q, r, c) => AwaitedInOrder(Append(q, t), r, c)
<1>0. PICK a : a = Append(q, t)
  OBVIOUS
<1>1. AwaitedIn(a, r, c) = AwaitedIn(q, r, c) /\ \A i \in AwaitedIn(q, r, c) : a[i] = q[i]
  BY <1>0, AwaitedGrows
<1>2. NumbersAwaited(a, r, c) = NumbersAwaited(q, r, c) /\ (AwaitedInOrder(q, r, c) => AwaitedInOrder(a, r, c))
  BY <1>1 DEF NumbersAwaited, AwaitedInOrder
<1> QED BY <1>0, <1>2

\* A task behind all others of its sender for its connection.
LEMMA AwaitedNext ==
  ASSUME NEW S, NEW q \in Seq(S), NEW t \in S, NEW r, NEW c, t[1] = r, t[2].from = c,
         \A x \in NumbersAwaited(q, r, c) : x < t[2].k
  PROVE  /\ NumbersAwaited(Append(q, t), r, c) = NumbersAwaited(q, r, c) \cup {t[2].k}
         /\ AwaitedInOrder(q, r, c) => AwaitedInOrder(Append(q, t), r, c)
<1>0. PICK a : a = Append(q, t)
  OBVIOUS
<1> DEFINE z == Len(q) + 1
<1>1. /\ AwaitedIn(a, r, c) = AwaitedIn(q, r, c) \cup {z} /\ a[z] = t
      /\ \A i \in AwaitedIn(q, r, c) : i \in 1 .. Len(q) /\ a[i] = q[i]
  BY <1>0, AwaitedGrows
<1>2. \A i \in AwaitedIn(q, r, c) : i \in Nat /\ i < z /\ q[i][2].k < t[2].k
  BY <1>1 DEF NumbersAwaited
<1>3. z \in Nat
  OBVIOUS
<1> HIDE DEF z
<1>4. NumbersAwaited(a, r, c) = NumbersAwaited(q, r, c) \cup {t[2].k}
  BY <1>1 DEF NumbersAwaited
<1>5. ASSUME AwaitedInOrder(q, r, c), NEW i \in AwaitedIn(a, r, c), NEW j \in AwaitedIn(a, r, c), i < j
      PROVE  a[i][2].k < a[j][2].k
  <2>1. i \in AwaitedIn(q, r, c)
    BY <1>1, <1>2, <1>3, <1>5
  <2>2. CASE j \in AwaitedIn(q, r, c)
    BY <2>1, <2>2, <1>1, <1>5 DEF AwaitedInOrder
  <2>3. CASE j = z
    BY <2>1, <2>3, <1>1, <1>2
  <2> QED BY <2>2, <2>3, <1>1
<1>6. AwaitedInOrder(q, r, c) => AwaitedInOrder(a, r, c)
  BY <1>5 DEF AwaitedInOrder
<1> QED BY <1>0, <1>4, <1>6

\* The first task of a queue is taken.
LEMMA AwaitedTaken ==
  ASSUME NEW S, NEW q \in Seq(S), q # <<>>, NEW r, NEW c, AwaitedInOrder(q, r, c)
  PROVE  /\ AwaitedInOrder(Tail(q), r, c)
         /\ ~(q[1][1] = r /\ q[1][2].from = c) => NumbersAwaited(Tail(q), r, c) = NumbersAwaited(q, r, c)
         /\ q[1][1] = r /\ q[1][2].from = c =>
              /\ NumbersAwaited(q, r, c) = {q[1][2].k} \cup NumbersAwaited(Tail(q), r, c)
              /\ \A y \in NumbersAwaited(Tail(q), r, c) : q[1][2].k < y
<1> DEFINE p == Tail(q)
<1>1. /\ DOMAIN q = 1 .. Len(q) /\ DOMAIN p = 1 .. Len(q) - 1 /\ Len(q) \in Nat /\ Len(q) > 0
      /\ \A i \in DOMAIN p : p[i] = q[i + 1]
  OBVIOUS
<1> HIDE DEF p
<1>2. \A i \in DOMAIN p : i + 1 \in DOMAIN q /\ i < i + 1 /\ 1 < i + 1 /\ i \in Nat
  BY <1>1
<1>3. \A i \in DOMAIN q : i # 1 => i - 1 \in DOMAIN p /\ p[i - 1] = q[i]
  BY <1>1
<1>4. 1 \in DOMAIN q
  BY <1>1
<1>5. \A i \in AwaitedIn(p, r, c) : i + 1 \in AwaitedIn(q, r, c)
  BY <1>1, <1>2 DEF AwaitedIn
<1>6. \A i \in AwaitedIn(q, r, c) : i # 1 => i - 1 \in AwaitedIn(p, r, c)
  BY <1>3 DEF AwaitedIn
<1>7. AwaitedInOrder(p, r, c)
  <2> SUFFICES ASSUME NEW i \in AwaitedIn(p, r, c), NEW j \in AwaitedIn(p, r, c), i < j
               PROVE  p[i][2].k < p[j][2].k
    BY DEF AwaitedInOrder
  <2>1. i \in DOMAIN p /\ j \in DOMAIN p
    BY DEF AwaitedIn
  <2>2. i + 1 < j + 1
    BY <1>2, <2>1
  <2> QED BY <1>1, <1>5, <2>1, <2>2 DEF AwaitedInOrder
<1>8. \A y \in NumbersAwaited(p, r, c) : \E i \in AwaitedIn(q, r, c) : 1 < i /\ q[i][2].k = y
  <2> SUFFICES ASSUME NEW i \in AwaitedIn(p, r, c) PROVE \E h \in AwaitedIn(q, r, c) : 1 < h /\ q[h][2].k = p[i][2].k
    BY DEF NumbersAwaited
  <2>1. i \in DOMAIN p
    BY DEF AwaitedIn
  <2> QED BY <1>1, <1>2, <1>5, <2>1
<1>9. \A i \in AwaitedIn(q, r, c) : i # 1 => q[i][2].k \in NumbersAwaited(p, r, c)
  <2> SUFFICES ASSUME NEW i \in AwaitedIn(q, r, c), i # 1 PROVE q[i][2].k \in NumbersAwaited(p, r, c)
    OBVIOUS
  <2>1. i \in DOMAIN q
    BY DEF AwaitedIn
  <2>2. i - 1 \in AwaitedIn(p, r, c) /\ p[i - 1] = q[i]
    BY <1>3, <1>6, <2>1
  <2> QED BY <2>2 DEF NumbersAwaited
<1>10. 1 \in AwaitedIn(q, r, c) <=> q[1][1] = r /\ q[1][2].from = c
  BY <1>4 DEF AwaitedIn
<1>11. ASSUME ~(q[1][1] = r /\ q[1][2].from = c) PROVE NumbersAwaited(p, r, c) = NumbersAwaited(q, r, c)
  <2>1. \A i \in AwaitedIn(q, r, c) : i # 1
    BY <1>10, <1>11
  <2>2. NumbersAwaited(q, r, c) \subseteq NumbersAwaited(p, r, c)
    BY <1>9, <2>1 DEF NumbersAwaited
  <2>3. NumbersAwaited(p, r, c) \subseteq NumbersAwaited(q, r, c)
    BY <1>8 DEF NumbersAwaited
  <2> QED BY <2>2, <2>3
<1>12. ASSUME q[1][1] = r /\ q[1][2].from = c
       PROVE  /\ NumbersAwaited(q, r, c) = {q[1][2].k} \cup NumbersAwaited(p, r, c)
              /\ \A y \in NumbersAwaited(p, r, c) : q[1][2].k < y
  <2>1. 1 \in AwaitedIn(q, r, c)
    BY <1>10, <1>12
  <2>2. NumbersAwaited(q, r, c) \subseteq {q[1][2].k} \cup NumbersAwaited(p, r, c)
    BY <1>9 DEF NumbersAwaited
  <2>3. {q[1][2].k} \cup NumbersAwaited(p, r, c) \subseteq NumbersAwaited(q, r, c)
    BY <1>8, <2>1 DEF NumbersAwaited
  <2>4. \A y \in NumbersAwaited(p, r, c) : q[1][2].k < y
    BY <1>8, <2>1 DEF AwaitedInOrder
  <2> QED BY <2>2, <2>3, <2>4
<1> QED BY <1>7, <1>11, <1>12 DEF p

\* The numbers are natural.
LEMMA NumbersType ==
  ASSUME NEW s \in Seq(Messages), NEW q \in Seq(Clients \X Messages), NEW r, NEW c
  PROVE  NumbersHeard(s, c) \in SUBSET Nat /\ NumbersAwaited(q, r, c) \in SUBSET Nat
<1>1. \A i \in DOMAIN s : s[i].k \in Nat
  <2>1. \A i \in DOMAIN s : s[i] \in Messages
    OBVIOUS
  <2> QED BY <2>1 DEF Messages
<1>2. \A i \in DOMAIN q : q[i][2].k \in Nat
  <2>1. \A i \in DOMAIN q : q[i] \in Clients \X Messages
    OBVIOUS
  <2> QED BY <2>1 DEF Messages
<1>3. NumbersHeard(s, c) \in SUBSET Nat
  BY <1>1 DEF NumbersHeard, HeardIn
<1>4. NumbersAwaited(q, r, c) \in SUBSET Nat
  BY <1>2 DEF NumbersAwaited, AwaitedIn
<1> QED BY <1>3, <1>4

\* A lane depends on its numbers and the order of the queue only.
LEMMA LaneSame ==
  ASSUME NEW s, NEW q, NEW r, NEW c, NEW n, NEW a, NEW b, Lane(s, q, r, c, n),
         NumbersHeard(a, c) = NumbersHeard(s, c), NumbersAwaited(b, r, c) = NumbersAwaited(q, r, c), AwaitedInOrder(b, r, c)
  PROVE  Lane(a, b, r, c, n) /\ Numbers(a, b, r, c) = Numbers(s, q, r, c)
BY DEF Lane, Numbers

\* The next message is sent at once: nothing is queued before it.
LEMMA LaneSent ==
  ASSUME NEW s \in Seq(Messages), NEW q \in Seq(Clients \X Messages), NEW r, NEW m \in Messages,
         m.k > 0, NumbersAwaited(q, r, m.from) = {}, HeardInOrder(s, m.from), Lane(s, q, r, m.from, m.k - 1)
  PROVE  HeardInOrder(Append(s, m), m.from) /\ Lane(Append(s, m), q, r, m.from, m.k)
<1> DEFINE c == m.from
           A == NumbersHeard(s, c)
<1>1. A \in SUBSET Nat /\ m.k \in Nat
  BY NumbersType DEF Messages
<1>2. Unbroken(A) /\ UpTo(A, m.k - 1) /\ AwaitedInOrder(q, r, c)
  BY DEF Lane, Numbers
<1>3. Unbroken(A \cup {m.k}) /\ UpTo(A \cup {m.k}, m.k) /\ \A x \in A : x < m.k
  BY <1>1, <1>2, NumbersGrow
<1>4. NumbersHeard(Append(s, m), c) = A \cup {m.k} /\ InOrder(Append(s, m), c)
  BY <1>3, HeardNext DEF HeardInOrder
<1>5. Numbers(Append(s, m), q, r, c) = A \cup {m.k}
  BY <1>4 DEF Numbers
<1> QED BY <1>2, <1>3, <1>4, <1>5 DEF HeardInOrder, Lane

\* The next message is queued.
LEMMA LaneQueued ==
  ASSUME NEW s \in Seq(Messages), NEW q \in Seq(Clients \X Messages), NEW r \in Clients, NEW m \in Messages,
         Lane(s, q, r, m.from, m.k - 1)
  PROVE  Lane(s, Append(q, <<r, m>>), r, m.from, m.k)
<1> DEFINE c == m.from
           t == <<r, m>>
           P == Clients \X Messages
           A == NumbersHeard(s, c)
           B == NumbersAwaited(q, r, c)
<1>1. A \in SUBSET Nat /\ B \in SUBSET Nat /\ m.k \in Nat
  BY NumbersType DEF Messages
<1>2. t \in P /\ t[1] = r /\ t[2] = m /\ q \in Seq(P)
  OBVIOUS
<1>3. /\ Unbroken(A \cup B) /\ UpTo(A \cup B, m.k - 1) /\ AwaitedInOrder(q, r, c)
      /\ \A x \in A, y \in B : x < y
  BY DEF Lane, Numbers
<1>4. Unbroken((A \cup B) \cup {m.k}) /\ UpTo((A \cup B) \cup {m.k}, m.k) /\ \A x \in A \cup B : x < m.k
  BY <1>1, <1>3, NumbersGrow
<1>5. NumbersAwaited(Append(q, t), r, c) = B \cup {m.k} /\ AwaitedInOrder(Append(q, t), r, c)
  <2>1. t[1] = r /\ t[2].from = c /\ t[2].k = m.k /\ \A x \in NumbersAwaited(q, r, c) : x < t[2].k
    BY <1>2, <1>4
  <2>2. t \in P /\ q \in Seq(P) /\ AwaitedInOrder(q, r, c)
    BY <1>2, <1>3
  <2> HIDE DEF t, P, c, B
  <2>3. /\ NumbersAwaited(Append(q, t), r, c) = NumbersAwaited(q, r, c) \cup {t[2].k}
        /\ AwaitedInOrder(q, r, c) => AwaitedInOrder(Append(q, t), r, c)
    BY <2>1, <2>2, AwaitedNext
  <2> QED BY <2>1, <2>2, <2>3 DEF B
<1> HIDE DEF t, P
<1>6. Numbers(s, Append(q, t), r, c) = (A \cup B) \cup {m.k}
  BY <1>5 DEF Numbers
<1>7. Lane(s, Append(q, t), r, c, m.k)
  BY <1>3, <1>4, <1>5, <1>6 DEF Lane
<1> QED BY <1>7 DEF t

\* The first task of the queue is done: its message is sent.
LEMMA LaneMoves ==
  ASSUME NEW s \in Seq(Messages), NEW q \in Seq(Clients \X Messages), q # <<>>, NEW r, NEW m \in Messages, NEW n,
         q[1][1] = r, q[1][2] = m, m.k > 0, HeardInOrder(s, m.from), Lane(s, q, r, m.from, n)
  PROVE  /\ HeardInOrder(Append(s, m), m.from) /\ Lane(Append(s, m), Tail(q), r, m.from, n)
         /\ Numbers(Append(s, m), Tail(q), r, m.from) = Numbers(s, q, r, m.from)
<1> DEFINE c == m.from
           P == Clients \X Messages
           A == NumbersHeard(s, c)
           B == NumbersAwaited(Tail(q), r, c)
<1>1. q \in Seq(P) /\ Tail(q) \in Seq(P)
  <2> HIDE DEF P
  <2>1. q \in Seq(P)
    BY DEF P
  <2> QED BY <2>1
<1>2. A \in SUBSET Nat /\ B \in SUBSET Nat /\ m.k \in Nat
  BY <1>1, NumbersType DEF Messages
<1>3. AwaitedInOrder(q, r, c) /\ \A x \in A, y \in NumbersAwaited(q, r, c) : x < y
  BY DEF Lane
<1>4. /\ AwaitedInOrder(Tail(q), r, c) /\ NumbersAwaited(q, r, c) = {m.k} \cup B
      /\ \A y \in B : m.k < y
  <2> HIDE DEF P
  <2> QED BY <1>1, <1>3, AwaitedTaken
<1>5. Unbroken(A \cup ({m.k} \cup B)) /\ \A x \in A, y \in {m.k} \cup B : x < y
  BY <1>3, <1>4 DEF Lane, Numbers
<1>6. /\ Unbroken(A \cup {m.k}) /\ \A x \in A \cup {m.k}, y \in B : x < y
      /\ (A \cup {m.k}) \cup B = A \cup ({m.k} \cup B)
  <2> HIDE DEF A, B
  <2> QED BY <1>2, <1>4, <1>5, NumbersMove
<1>7. \A x \in A : x < m.k
  BY <1>5
<1>8. NumbersHeard(Append(s, m), c) = A \cup {m.k} /\ InOrder(Append(s, m), c)
  BY <1>7, HeardNext DEF HeardInOrder
<1>9. Numbers(Append(s, m), Tail(q), r, c) = Numbers(s, q, r, c)
  BY <1>4, <1>6, <1>8 DEF Numbers
<1> QED BY <1>4, <1>6, <1>8, <1>9 DEF HeardInOrder, Lane

(***************************************************************************)
(* Steps that send and queue nothing.                                      *)
(***************************************************************************)
\* No lane changes when the ends of those in use stay where they are.
LEMMA LanesStay ==
  ASSUME Lanes, UNCHANGED <<out, tasks>>,
         \A r \in Clients : state'[r] = "secured" => state[r] = "secured",
         \A r, c \in Clients : state[r] = "secured" /\ Numbers(out[r], tasks[LoopOf[r]], r, c) # {} =>
            LastFor(r, c)' = LastFor(r, c) /\ (Before(r, c)' => r \in run'[LoopOf[c]].due)
  PROVE  Lanes'
<1> SUFFICES ASSUME NEW r \in Clients, NEW c \in Clients
             PROVE  HeardInOrder(out[r], c) /\ (state'[r] = "secured" => OpenLane(r, c)')
  BY DEF Lanes
<1>1. HeardInOrder(out[r], c) /\ (state'[r] = "secured" => OpenLane(r, c))
  BY DEF Lanes
<1>2. CASE Numbers(out[r], tasks[LoopOf[r]], r, c) = {}
  BY <1>1, <1>2 DEF OpenLane, Lane, UpTo
<1>3. CASE Numbers(out[r], tasks[LoopOf[r]], r, c) # {}
  BY <1>1, <1>3 DEF OpenLane
<1> QED BY <1>2, <1>3

\* Nor do the messages stop fitting when nobody who left says more.
LEMMA MessagesStay ==
  ASSUME TypeOK, SentAreSaid, TasksFit, UNCHANGED <<out, tasks>>,
         \A c \in Clients : /\ said[c] <= said'[c] /\ said'[c] \in Nat
                            /\ state[c] \in {"leaving", "removed"} => said'[c] = said[c] /\ state'[c] \in {"leaving", "removed"}
                            /\ state[c] \notin Early => state'[c] \notin Early
  PROVE  SentAreSaid' /\ TasksFit'
<1>1. ASSUME NEW m \in Messages, LastWord(m), m.k <= said[m.from] PROVE LastWord(m)' /\ m.k <= said'[m.from]
  <2>1. m.from \in Clients /\ m.k \in Nat /\ said[m.from] \in Nat
    BY DEF Messages, TypeOK
  <2> QED BY <1>1, <2>1 DEF LastWord
<1>2. SentAreSaid'
  <2> SUFFICES ASSUME NEW r \in Clients, NEW i \in DOMAIN out[r]
               PROVE  LastWord(out[r][i])' /\ out[r][i].k <= said'[out[r][i].from]
    BY DEF SentAreSaid
  <2>1. out[r][i] \in Messages
    BY DEF TypeOK
  <2>2. LastWord(out[r][i]) /\ out[r][i].k <= said[out[r][i].from]
    BY DEF SentAreSaid
  <2>3. PICK m \in Messages : m = out[r][i]
    BY <2>1
  <2>4. LastWord(m)' /\ m.k <= said'[m.from] /\ m = out'[r][i]
    BY <1>1, <2>2, <2>3
  <2> QED BY <2>3, <2>4 DEF LastWord
<1>3. TasksFit'
  <2> SUFFICES ASSUME NEW l \in Loops, NEW i \in DOMAIN tasks[l] PROVE TaskFits(l, tasks[l][i])'
    BY DEF TasksFit
  <2>1. tasks[l][i] \in Clients \X Messages
    BY DEF TypeOK
  <2>2. PICK t \in Clients \X Messages : t = tasks[l][i] /\ t = tasks'[l][i]
    BY <2>1
  <2>3. TaskFits(l, t) /\ t[1] \in Clients /\ t[2] \in Messages
    BY <2>2 DEF TasksFit
  <2>4. LastWord(t[2])' /\ t[2].k <= said'[t[2].from]
    BY <1>1, <2>3 DEF TaskFits
  <2>5. TaskFits(l, t)'
    BY <2>3, <2>4 DEF TaskFits
  <2> QED BY <2>2, <2>5 DEF TaskFits, LastWord
<1> QED BY <1>2, <1>3

(***************************************************************************)
(* One lemma per kind of step, for the order.                              *)
(***************************************************************************)
\* What a write on the connection's own loop means for the order.
LEMMA DeliverShows ==
  ASSUME TypeOK, OpenAreMembers, NEW r \in Clients, NEW m \in Messages, Deliver(r, m)
  PROVE  /\ OpenAreMembers'
         /\ \A c \in Clients : /\ state[c] \in {"leaving", "removed"} => state'[c] = state[c]
                               /\ state[c] \notin Early => state'[c] \notin Early
                               /\ state'[c] = "secured" => state[c] = "secured"
                               /\ c # r => out'[c] = out[c]
         /\ \/ state[r] = "secured" /\ out'[r] = Append(out[r], m)
            \/ state'[r] # "secured" /\ out'[r] = out[r]
<1>0. state \in [Clients -> States] /\ out \in [Clients -> Seq(Messages)]
  BY DEF TypeOK
<1>1. CASE state[r] = "secured" /\ out' = [out EXCEPT ![r] = Append(@, m)] /\ UNCHANGED <<channels, state>>
  BY <1>0, <1>1 DEF OpenAreMembers
<1>2. CASE state[r] = "secured" /\ state' = [state EXCEPT ![r] = "closed"] /\ channels' = channels \ {r} /\ UNCHANGED out
  BY <1>0, <1>2 DEF OpenAreMembers, Early
<1>3. CASE state[r] # "secured" /\ UNCHANGED <<channels, state, out>>
  BY <1>3 DEF OpenAreMembers
<1> QED BY <1>1, <1>2, <1>3 DEF Deliver

\* A message more is sent: it is said, and those sent before still are.
LEMMA SentStaySaid ==
  ASSUME TypeOK, SentAreSaid, NEW r \in Clients, NEW m \in Messages, LastWord(m), m.k <= said[m.from], said' = said,
         \A c \in Clients : /\ state[c] \in {"leaving", "removed"} => state'[c] = state[c]
                            /\ c # r => out'[c] = out[c],
         out'[r] = Append(out[r], m) \/ out'[r] = out[r]
  PROVE  SentAreSaid'
<1> SUFFICES ASSUME NEW p \in Clients, NEW i \in DOMAIN out'[p]
             PROVE  LastWord(out[p][i])' /\ out'[p][i].k <= said[out'[p][i].from]
  BY DEF SentAreSaid
<1>1. out[p] \in Seq(Messages)
  BY DEF TypeOK
<1>2. (i \in DOMAIN out[p] /\ out'[p][i] = out[p][i]) \/ out'[p][i] = m
  BY <1>1
<1>3. PICK x \in Messages : x = out'[p][i] /\ LastWord(x) /\ x.k <= said[x.from]
  <2>1. CASE i \in DOMAIN out[p] /\ out'[p][i] = out[p][i]
    BY <1>1, <2>1 DEF SentAreSaid
  <2>2. CASE out'[p][i] = m
    BY <2>2
  <2> QED BY <1>2, <2>1, <2>2
<1>4. x.from \in Clients
  BY DEF Messages
<1>5. LastWord(x)'
  BY <1>3, <1>4 DEF LastWord
<1> QED BY <1>3, <1>5 DEF LastWord

\* A task goes on fitting its queue.
LEMMA TaskStaysFit ==
  ASSUME NEW l \in Loops, NEW t \in Clients \X Messages, TaskFits(l, t), said' = said,
         \A c \in Clients : /\ state[c] \in {"leaving", "removed"} => state'[c] = state[c]
                            /\ state[c] \notin Early => state'[c] \notin Early
  PROVE  TaskFits(l, t)'
<1>1. t[1] \in Clients /\ t[2].from \in Clients
  BY DEF Messages
<1> QED BY <1>1 DEF TaskFits, LastWord

\* A task is run: its message moves from the queue to what was sent.
LEMMA TaskOrder ==
  ASSUME ChatInv, OrderInv, NEW l \in Loops, RunTask(l)
  PROVE  OrderInv'
<1> DEFINE q == tasks[l]
<1>0. TypeOK /\ Lanes /\ SentAreSaid /\ TasksFit /\ FramesFit /\ OpenAreMembers
  BY DEF ChatInv, OrderInv
<1>1. q \in Seq(Clients \X Messages) /\ q # <<>> /\ \A i \in DOMAIN q : LoopOf[q[i][1]] = l
  BY <1>0 DEF RunTask, TypeOK
<1>2. Head(q) = q[1] /\ 1 \in DOMAIN q /\ q[1] \in Clients \X Messages
  BY <1>1
<1>3. PICK r \in Clients, m \in Messages : q[1] = <<r, m>>
  BY <1>2
<1>4. Deliver(r, m) /\ tasks' = [tasks EXCEPT ![l] = Tail(q)] /\ UNCHANGED <<run, said>>
  BY <1>2, <1>3 DEF RunTask
<1>5. tasks'[l] = Tail(q) /\ (\A h \in Loops : h # l => tasks'[h] = tasks[h]) /\ tasks[l] = q
  BY <1>0, <1>4 DEF TypeOK
<1>6. LoopOf[r] = l /\ q[1][1] = r /\ q[1][2] = m
  BY <1>1, <1>2, <1>3
<1>7. TaskFits(l, q[1])
  BY <1>0, <1>2 DEF TasksFit
<1>8. m.k > 0 /\ m.k <= said[m.from] /\ LastWord(m)
  BY <1>6, <1>7 DEF TaskFits
<1> HIDE DEF q
<1>9. /\ OpenAreMembers'
      /\ \A c \in Clients : /\ state[c] \in {"leaving", "removed"} => state'[c] = state[c]
                            /\ state[c] \notin Early => state'[c] \notin Early
                            /\ state'[c] = "secured" => state[c] = "secured"
                            /\ c # r => out'[c] = out[c]
      /\ \/ state[r] = "secured" /\ out'[r] = Append(out[r], m)
         \/ state'[r] # "secured" /\ out'[r] = out[r]
  BY <1>0, <1>4, DeliverShows
<1>10. Lanes'
  <2> SUFFICES ASSUME NEW p \in Clients, NEW c \in Clients
               PROVE  HeardInOrder(out'[p], c) /\ (state'[p] = "secured" => OpenLane(p, c)')
    BY DEF Lanes
  <2> DEFINE s == out[p]
             w == tasks[LoopOf[p]]
             n == LastFor(p, c)
             a == out'[p]
             b == tasks'[LoopOf[p]]
  <2>1. s \in Seq(Messages) /\ w \in Seq(Clients \X Messages) /\ LoopOf[p] \in Loops
    BY <1>0, LoopType DEF TypeOK
  <2>2. HeardInOrder(s, c) /\ (state'[p] = "secured" => Lane(s, w, p, c, n))
    BY <1>0, <1>9 DEF Lanes, OpenLane
  <2>3. ASSUME state'[p] = "secured", Lane(a, b, p, c, n), Numbers(a, b, p, c) = Numbers(s, w, p, c)
        PROVE  OpenLane(p, c)'
    BY <2>3, <1>0, <1>4, <1>9 DEF Lanes, OpenLane, Before, Visiting, LastFor
  <2>4. w = b \/ (LoopOf[p] = l /\ w = q /\ b = Tail(q))
    BY <2>1, <1>5
  <2> HIDE DEF s, w, n, a, b
  <2>5. CASE p = r /\ c = m.from /\ a = Append(s, m)
    <3>1. w = q /\ b = Tail(q)
      BY <2>5, <1>5, <1>6 DEF w, b
    <3>2. state[r] = "secured"
      <4>1. Len(Append(s, m)) # Len(s)
        BY <2>1
      <4> QED BY <2>5, <4>1, <1>9 DEF s, a
    <3>3. Lane(s, w, p, c, n)
      BY <2>5, <3>2, <1>0 DEF Lanes, OpenLane, s, w, n
    <3>4. HeardInOrder(a, c) /\ Lane(a, b, p, c, n) /\ Numbers(a, b, p, c) = Numbers(s, w, p, c)
      BY ZenonT(40), <3>1, <3>3, <2>1, <2>2, <2>5, <1>1, <1>6, <1>8, LaneMoves
    <3> QED BY <2>3, <3>4 DEF a
  <2>6. CASE p = r /\ c # m.from /\ a = Append(s, m)
    <3>1. w = q /\ b = Tail(q)
      BY <2>6, <1>5, <1>6 DEF w, b
    <3>2. NumbersHeard(a, c) = NumbersHeard(s, c) /\ (InOrder(s, c) => InOrder(a, c))
      BY <2>1, <2>6, HeardOther
    <3>3. HeardInOrder(a, c)
      BY <2>2, <3>2 DEF HeardInOrder
    <3>4. ASSUME state'[p] = "secured" PROVE OpenLane(p, c)'
      <4>1. AwaitedInOrder(w, p, c)
        BY <2>2, <3>4 DEF Lane
      <4>2. AwaitedInOrder(b, p, c) /\ NumbersAwaited(b, p, c) = NumbersAwaited(w, p, c)
        BY <3>1, <4>1, <1>1, <1>6, <2>6, AwaitedTaken
      <4>3. Lane(a, b, p, c, n) /\ Numbers(a, b, p, c) = Numbers(s, w, p, c)
        BY <2>2, <3>2, <3>4, <4>2, LaneSame
      <4> QED BY <2>3, <3>4, <4>3
    <3> QED BY <3>3, <3>4 DEF a
  <2>7. CASE p = r /\ state'[r] # "secured" /\ a = s
    BY <2>2, <2>7 DEF a
  <2>8. CASE p # r
    <3>1. a = s
      BY <2>8, <1>9 DEF a, s
    <3>2. ASSUME state'[p] = "secured" PROVE OpenLane(p, c)'
      <4>1. AwaitedInOrder(w, p, c)
        BY <2>2, <3>2 DEF Lane
      <4>2. AwaitedInOrder(b, p, c) /\ NumbersAwaited(b, p, c) = NumbersAwaited(w, p, c)
        <5>1. CASE w = b
          BY <4>1, <5>1
        <5>2. CASE w = q /\ b = Tail(q)
          BY <5>2, <4>1, <1>1, <1>6, <2>8, AwaitedTaken
        <5> QED BY <5>1, <5>2, <2>4
      <4>3. Lane(a, b, p, c, n) /\ Numbers(a, b, p, c) = Numbers(s, w, p, c)
        BY <2>2, <3>1, <3>2, <4>2, LaneSame
      <4> QED BY <2>3, <3>2, <4>3
    <3> QED BY <2>2, <3>1, <3>2 DEF a
  <2> QED BY <1>9, <2>5, <2>6, <2>7, <2>8 DEF a, s
<1>11. SentAreSaid'
  BY <1>0, <1>4, <1>8, <1>9, SentStaySaid
<1>12. TasksFit'
  <2> SUFFICES ASSUME NEW h \in Loops, NEW i \in DOMAIN tasks'[h] PROVE TaskFits(h, tasks[h][i])'
    BY DEF TasksFit
  <2>1. tasks[h] \in Seq(Clients \X Messages)
    BY <1>0 DEF TypeOK
  <2>2. PICK j \in DOMAIN tasks[h] : tasks'[h][i] = tasks[h][j]
    <3> DEFINE P == Clients \X Messages
    <3>1. q \in Seq(P) /\ tasks[h] \in Seq(P)
      BY <1>1, <2>1
    <3> HIDE DEF P
    <3>2. CASE h = l
      <4>1. i \in DOMAIN Tail(q)
        BY <3>2, <1>5
      <4>2. i + 1 \in DOMAIN q /\ Tail(q)[i] = q[i + 1]
        BY <4>1, <3>1, <1>1
      <4> QED BY <3>2, <4>2, <1>5
    <3>3. CASE h # l
      BY <3>3, <1>5
    <3> QED BY <3>2, <3>3
  <2>3. PICK t \in Clients \X Messages : t = tasks'[h][i] /\ TaskFits(h, t)
    BY <1>0, <2>1, <2>2 DEF TasksFit
  <2>4. TaskFits(h, t)'
    BY <1>4, <1>9, <2>3, TaskStaysFit
  <2> QED BY <2>3, <2>4 DEF TaskFits, LastWord
<1>13. FramesFit'
  BY <1>0, <1>4 DEF FramesFit, FrameFits
<1> QED BY <1>9, <1>10, <1>11, <1>12, <1>13 DEF OrderInv

\* Before a turn of the for loop: whom it visits, with which message.
LEMMA VisitShows ==
  ASSUME ChatInv, OrderInv, NEW l \in Loops, Visit(l)
  PROVE  \E r \in Clients, m \in Messages :
           /\ m.from = run[l].chan /\ m.k = run[l].k /\ m.k = said[m.from] /\ m.k > 0 /\ LastWord(m)
           /\ LoopOf[m.from] = l /\ Before(r, m.from)
           /\ Write(l, r, m) /\ state[r] \notin Early
           /\ run' = [run EXCEPT ![l].seen = @ \cup {r}] /\ said' = said
<1> DEFINE f == run[l]
<1>1. TypeOK /\ GreetedFirst /\ f # Idle
  BY DEF ChatInv, Visit
<1>2. /\ f \in Frames /\ f.chan \in Clients /\ f.k \in Nat /\ f.kind \in Kinds
      /\ f.due \subseteq Clients /\ LoopOf[f.chan] = l
  BY <1>1, FrameType
<1>3. PICK r \in (channels \cup f.due) \ f.seen :
         /\ run' = [run EXCEPT ![l].seen = @ \cup {r}]
         /\ Write(l, r, Message(f.chan, f.k, IF f.op = "read" /\ r = f.chan THEN "you" ELSE f.kind))
  BY DEF Visit
<1>4. r \in Clients /\ state[r] \notin Early
  <2>1. CASE r \in channels
    BY <2>1, <1>1 DEF TypeOK, GreetedFirst, Early
  <2>2. CASE r \in f.due
    BY <2>2, <1>1, <1>2 DEF ChatInv, Serving, Reached
  <2> QED BY <1>3, <2>1, <2>2
<1>5. FrameFits(f) /\ (f.op = "removed" => state[f.chan] = "leaving")
  BY <1>1 DEF OrderInv, FramesFit, ChatInv, FramesMatch
<1> DEFINE w == Message(f.chan, f.k, IF f.op = "read" /\ r = f.chan THEN "you" ELSE f.kind)
<1>6. w \in Messages /\ w.from = f.chan /\ w.k = f.k /\ (w.kind = "left" => f.kind = "left")
  BY <1>2 DEF Message, Messages, Kinds
<1>7. Write(l, r, w)
  BY <1>3
<1>8. Before(r, f.chan)
  BY <1>1, <1>2, <1>3 DEF Before, Visiting
<1>9. said' = said
  BY DEF Visit
<1> HIDE DEF w
<1>10. LastWord(w) /\ w.k = said[w.from] /\ w.k > 0
  BY <1>5, <1>6 DEF FrameFits, LastWord
<1> QED BY <1>2, <1>3, <1>4, <1>6, <1>7, <1>8, <1>9, <1>10

\* One turn of the for loop: the member gets the next message of the sender.
LEMMA VisitOrder ==
  ASSUME ChatInv, OrderInv, NEW l \in Loops, Visit(l)
  PROVE  OrderInv'
<1>0. /\ TypeOK /\ Lanes /\ SentAreSaid /\ TasksFit /\ FramesFit /\ OpenAreMembers
      /\ run[l] # Idle /\ run[l] \in Frames
  BY FrameType DEF ChatInv, OrderInv, Visit
<1>1. PICK r \in Clients, m \in Messages :
         /\ m.from = run[l].chan /\ m.k = run[l].k /\ m.k = said[m.from] /\ m.k > 0 /\ LastWord(m)
         /\ LoopOf[m.from] = l /\ Before(r, m.from)
         /\ Write(l, r, m) /\ state[r] \notin Early
         /\ run' = [run EXCEPT ![l].seen = @ \cup {r}] /\ said' = said
  BY VisitShows
<1> DEFINE d == m.from
<1>2. d \in Clients /\ m.k \in Nat /\ m.k <= said[d]
  BY <1>0, <1>1 DEF Messages, TypeOK
<1>3. /\ run'[l].chan = run[l].chan /\ run'[l].op = run[l].op /\ run'[l].k = run[l].k /\ run'[l].kind = run[l].kind
      /\ run'[l].seen = run[l].seen \cup {r} /\ run'[l].due = run[l].due
      /\ \A j \in Loops : j # l => run'[j] = run[j]
  <2> DEFINE f == run[l]
  <2>1. run'[l] = [f EXCEPT !.seen = @ \cup {r}] /\ \A j \in Loops : j # l => run'[j] = run[j]
    BY <1>0, <1>1 DEF TypeOK
  <2>2. f \in Frames
    BY <1>0
  <2> HIDE DEF f
  <2>3. /\ [f EXCEPT !.seen = @ \cup {r}].seen = f.seen \cup {r} /\ [f EXCEPT !.seen = @ \cup {r}].due = f.due
        /\ [f EXCEPT !.seen = @ \cup {r}].chan = f.chan /\ [f EXCEPT !.seen = @ \cup {r}].op = f.op
        /\ [f EXCEPT !.seen = @ \cup {r}].k = f.k /\ [f EXCEPT !.seen = @ \cup {r}].kind = f.kind
    BY <2>2 DEF Frames
  <2> QED BY <2>1, <2>3 DEF f
<1>4. run'[l] # Idle
  <2>1. run[l].op # "idle"
    BY <1>0 DEF Frames
  <2> QED BY <2>1, <1>3 DEF Idle
<1>5. ASSUME NEW p \in Clients, NEW c \in Clients, ~(p = r /\ c = d)
      PROVE  /\ LastFor(p, c)' = LastFor(p, c) /\ Before(p, c)' = Before(p, c)
             /\ Before(p, c) => run'[LoopOf[c]].due = run[LoopOf[c]].due
  <2>0. LoopOf[c] \in Loops
    BY LoopType
  <2>1. CASE LoopOf[c] # l
    BY <2>0, <2>1, <1>1, <1>3 DEF LastFor, Before, Visiting
  <2>2. CASE LoopOf[c] = l /\ c # d
    BY <2>2, <1>1, <1>3 DEF LastFor, Before, Visiting
  <2>3. CASE LoopOf[c] = l /\ c = d /\ p # r
    BY <2>3, <1>0, <1>1, <1>3, <1>4 DEF LastFor, Before, Visiting
  <2> QED BY <1>5, <2>1, <2>2, <2>3
<1>6. LastFor(r, d) = m.k - 1 /\ LastFor(r, d)' = m.k /\ ~Before(r, d)'
  BY <1>1, <1>3 DEF LastFor, Before, Visiting
<1>7. Before(r, d)' = FALSE
  BY <1>6
<1>8. FramesFit'
  <2> SUFFICES ASSUME NEW j \in Loops, run'[j] # Idle PROVE FrameFits(run[j])'
    BY DEF FramesFit
  <2>1. CASE j = l
    BY <2>1, <1>0, <1>1, <1>3 DEF FramesFit, FrameFits
  <2>2. CASE j # l
    BY <2>2, <1>0, <1>1, <1>3 DEF FramesFit, FrameFits
  <2> QED BY <2>1, <2>2
<1> HIDE DEF d
<1>9. CASE LoopOf[r] = l /\ Deliver(r, m) /\ UNCHANGED tasks
  <2>1. /\ OpenAreMembers'
        /\ \A c \in Clients : /\ state[c] \in {"leaving", "removed"} => state'[c] = state[c]
                              /\ state[c] \notin Early => state'[c] \notin Early
                              /\ state'[c] = "secured" => state[c] = "secured"
                              /\ c # r => out'[c] = out[c]
        /\ \/ state[r] = "secured" /\ out'[r] = Append(out[r], m)
           \/ state'[r] # "secured" /\ out'[r] = out[r]
    BY <1>0, <1>9, DeliverShows
  <2>2. SentAreSaid'
    BY <1>0, <1>1, <1>2, <2>1, SentStaySaid DEF d
  <2>3. TasksFit'
    <3> SUFFICES ASSUME NEW h \in Loops, NEW i \in DOMAIN tasks[h] PROVE TaskFits(h, tasks[h][i])'
      BY <1>9 DEF TasksFit
    <3>1. PICK t \in Clients \X Messages : t = tasks[h][i] /\ t = tasks'[h][i]
      BY <1>0, <1>9 DEF TypeOK
    <3>2. TaskFits(h, t)
      BY <1>0, <3>1 DEF TasksFit
    <3>3. TaskFits(h, t)'
      BY <1>1, <2>1, <3>2, TaskStaysFit
    <3> QED BY <3>1, <3>3 DEF TaskFits, LastWord
  <2>4. Lanes'
    <3> SUFFICES ASSUME NEW p \in Clients, NEW c \in Clients
                 PROVE  HeardInOrder(out'[p], c) /\ (state'[p] = "secured" => OpenLane(p, c)')
      BY DEF Lanes
    <3> DEFINE s == out[p]
               w == tasks[LoopOf[p]]
               n == LastFor(p, c)
               a == out'[p]
    <3>1. s \in Seq(Messages) /\ w \in Seq(Clients \X Messages) /\ LoopOf[p] \in Loops
      BY <1>0, LoopType DEF TypeOK
    <3>2. HeardInOrder(s, c) /\ (state[p] = "secured" => OpenLane(p, c)) /\ (state'[p] = "secured" => state[p] = "secured")
      BY <1>0, <2>1 DEF Lanes
    <3>3. CASE p = r /\ c = d /\ state[r] = "secured" /\ a = Append(s, m)
      <4>1. Lane(s, w, r, d, m.k - 1)
        BY <3>2, <3>3, <1>6 DEF OpenLane
      <4>2. NumbersAwaited(w, r, d) = {}
        <5>1. ASSUME NEW i \in AwaitedIn(w, r, d) PROVE FALSE
          <6>1. i \in DOMAIN tasks[l] /\ tasks[l][i][2].from = d
            BY <3>3, <1>9 DEF AwaitedIn
          <6>2. TaskFits(l, tasks[l][i])
            BY <6>1, <1>0 DEF TasksFit
          <6> QED BY <6>1, <6>2, <1>1 DEF TaskFits, d
        <5> QED BY <5>1 DEF NumbersAwaited
      <4> HIDE DEF s, w
      <4>3. HeardInOrder(Append(s, m), d) /\ Lane(Append(s, m), w, r, d, m.k)
        BY <3>1, <3>2, <3>3, <1>1, <4>1, <4>2, LaneSent DEF d
      <4>4. OpenLane(p, c)'
        BY <4>3, <3>3, <1>6, <1>7, <1>9 DEF OpenLane, w
      <4> QED BY <4>3, <4>4, <3>3
    <3>4. CASE p = r /\ state'[r] # "secured" /\ a = s
      BY <3>2, <3>4
    <3>5. CASE p # r \/ (c # d /\ state[r] = "secured" /\ a = Append(s, m))
      <4>1. NumbersHeard(a, c) = NumbersHeard(s, c) /\ (InOrder(s, c) => InOrder(a, c))
        <5>1. CASE p # r
          BY <5>1, <2>1
        <5>2. CASE c # d /\ a = Append(s, m)
          <6> HIDE DEF s, a
          <6> QED BY <5>2, <3>1, HeardOther DEF d
        <5> QED BY <5>1, <5>2, <3>5
      <4>2. HeardInOrder(a, c)
        BY <3>2, <4>1 DEF HeardInOrder
      <4>3. ASSUME state'[p] = "secured" PROVE OpenLane(p, c)'
        <5>1. Lane(s, w, p, c, n) /\ AwaitedInOrder(w, p, c)
          BY <3>2, <4>3 DEF OpenLane, Lane
        <5> HIDE DEF s, w, n, a
        <5>2. Lane(a, w, p, c, n) /\ Numbers(a, w, p, c) = Numbers(s, w, p, c)
          BY <4>1, <5>1, LaneSame
        <5>3. /\ LastFor(p, c)' = LastFor(p, c) /\ Before(p, c)' = Before(p, c)
              /\ Before(p, c) => run'[LoopOf[c]].due = run[LoopOf[c]].due
          BY <1>5, <3>5
        <5> QED BY <5>2, <5>3, <3>2, <4>3, <1>9 DEF OpenLane, s, w, n, a
      <4> QED BY <4>2, <4>3
    <3> QED BY <2>1, <3>3, <3>4, <3>5
  <2> QED BY <1>8, <2>1, <2>2, <2>3, <2>4 DEF OrderInv
<1>10. CASE LoopOf[r] # l /\ tasks' = [tasks EXCEPT ![LoopOf[r]] = Append(@, <<r, m>>)] /\ UNCHANGED <<channels, state, out>>
  <2> DEFINE g == LoopOf[r]
             t == <<r, m>>
  <2>1. /\ g \in Loops /\ tasks[g] \in Seq(Clients \X Messages) /\ t \in Clients \X Messages /\ t[1] = r /\ t[2] = m
        /\ tasks'[g] = Append(tasks[g], t) /\ \A h \in Loops : h # g => tasks'[h] = tasks[h]
    BY <1>0, <1>10, LoopType DEF TypeOK
  <2> HIDE DEF t
  <2>2. SentAreSaid'
    <3> SUFFICES ASSUME NEW p \in Clients, NEW i \in DOMAIN out[p]
                 PROVE  LastWord(out[p][i])' /\ out[p][i].k <= said[out[p][i].from]
      BY <1>1, <1>10 DEF SentAreSaid
    <3> QED BY <1>0, <1>1, <1>10 DEF SentAreSaid, LastWord
  <2>3. TasksFit'
    <3> SUFFICES ASSUME NEW h \in Loops, NEW i \in DOMAIN tasks'[h] PROVE TaskFits(h, tasks[h][i])'
      BY DEF TasksFit
    <3>1. (i \in DOMAIN tasks[h] /\ tasks'[h][i] = tasks[h][i]) \/ (h = g /\ tasks'[h][i] = t)
      <4> DEFINE P == Clients \X Messages
      <4>1. tasks[h] \in Seq(P) /\ tasks[g] \in Seq(P) /\ t \in P
        BY <1>0, <2>1 DEF TypeOK
      <4> HIDE DEF P, g
      <4>2. CASE h = g
        BY <4>1, <4>2, <2>1
      <4>3. CASE h # g
        BY <4>3, <2>1
      <4> QED BY <4>2, <4>3
    <3>2. TaskFits(g, t)
      BY <1>1, <1>2, <1>10, <2>1 DEF TaskFits, d
    <3>3. PICK x : x = tasks'[h][i] /\ TaskFits(h, x)
      <4>1. CASE i \in DOMAIN tasks[h] /\ tasks'[h][i] = tasks[h][i]
        BY <4>1, <1>0 DEF TasksFit
      <4>2. CASE h = g /\ tasks'[h][i] = t
        BY <4>2, <3>2
      <4> QED BY <3>1, <4>1, <4>2
    <3> QED BY <3>3, <1>1, <1>10 DEF TaskFits, LastWord
  <2>4. Lanes'
    <3> SUFFICES ASSUME NEW p \in Clients, NEW c \in Clients
                 PROVE  HeardInOrder(out[p], c) /\ (state[p] = "secured" => OpenLane(p, c)')
      BY <1>10 DEF Lanes
    <3> DEFINE s == out[p]
               w == tasks[LoopOf[p]]
               n == LastFor(p, c)
               b == tasks'[LoopOf[p]]
    <3>1. s \in Seq(Messages) /\ w \in Seq(Clients \X Messages) /\ LoopOf[p] \in Loops
      BY <1>0, LoopType DEF TypeOK
    <3>2. HeardInOrder(s, c) /\ (state[p] = "secured" => OpenLane(p, c))
      BY <1>0 DEF Lanes
    <3>3. ASSUME p = r, c = d, state[p] = "secured" PROVE OpenLane(p, c)'
      <4>1. Lane(s, w, r, d, m.k - 1)
        BY <3>2, <3>3, <1>6 DEF OpenLane
      <4>2. b = Append(w, <<r, m>>)
        BY <3>3, <2>1 DEF t
      <4> HIDE DEF s, w, b
      <4>3. Lane(s, b, r, d, m.k)
        BY <3>1, <4>1, <4>2, LaneQueued DEF d
      <4> QED BY <4>3, <3>3, <1>6, <1>7, <1>10 DEF OpenLane, s, b
    <3>4. ASSUME ~(p = r /\ c = d), state[p] = "secured" PROVE OpenLane(p, c)'
      <4>1. Lane(s, w, p, c, n) /\ AwaitedInOrder(w, p, c)
        BY <3>2, <3>4 DEF OpenLane, Lane
      <4>2. w = b \/ b = Append(w, t)
        BY <2>1, <3>1
      <4>3. ~(t[1] = p /\ t[2].from = c)
        BY <3>4, <2>1 DEF d
      <4> HIDE DEF s, w, n, b
      <4>4. NumbersAwaited(b, p, c) = NumbersAwaited(w, p, c) /\ AwaitedInOrder(b, p, c)
        <5>1. CASE w = b
          BY <5>1, <4>1
        <5>2. CASE b = Append(w, t)
          <6> DEFINE P == Clients \X Messages
          <6>1. w \in Seq(P) /\ t \in P
            BY <2>1, <3>1
          <6> HIDE DEF P
          <6> QED BY <6>1, <5>2, <4>1, <4>3, AwaitedOther
        <5> QED BY <5>1, <5>2, <4>2
      <4>5. Lane(s, b, p, c, n) /\ Numbers(s, b, p, c) = Numbers(s, w, p, c)
        BY <4>1, <4>4, LaneSame
      <4>6. /\ LastFor(p, c)' = LastFor(p, c) /\ Before(p, c)' = Before(p, c)
            /\ Before(p, c) => run'[LoopOf[c]].due = run[LoopOf[c]].due
        BY <1>5, <3>4
      <4> QED BY <4>5, <4>6, <3>2, <3>4, <1>10 DEF OpenLane, s, w, n, b
    <3> QED BY <3>2, <3>3, <3>4
  <2>5. OpenAreMembers'
    BY <1>0, <1>10 DEF OpenAreMembers
  <2> QED BY <1>8, <2>2, <2>3, <2>4, <2>5 DEF OrderInv
<1> QED BY <1>1, <1>9, <1>10 DEF Write

\* A handler begins a broadcast: nobody is to have its message yet.
LEMMA BeginOrder ==
  ASSUME ChatInv, OrderInv, NEW c \in Clients, handlerAdded(c) \/ channelRead0(c) \/ handlerRemoved(c)
  PROVE  OrderInv'
<1>0. /\ TypeOK /\ GreetedFirst /\ Lanes /\ SentAreSaid /\ TasksFit /\ FramesFit /\ OpenAreMembers
  BY DEF ChatInv, OrderInv
<1>1. PICK op \in {"added", "read", "removed"}, kind \in Kinds :
        /\ Begin(c, op, kind) /\ (kind = "left" => op = "removed")
        /\ \A d \in Clients : \/ state'[d] = state[d]
                              \/ d = c /\ state[c] = "none" /\ state'[c] = "added"
                              \/ d = c /\ state[c] = "closed" /\ state'[c] = "leaving"
        /\ state[c] \notin {"leaving", "removed"}
        /\ UNCHANGED <<channels, tasks, out>>
  <2>1. CASE handlerAdded(c)
    <3>1. Begin(c, "added", "joined") /\ "joined" \in Kinds
      BY <2>1 DEF handlerAdded, Kinds
    <3> QED BY <2>1, <3>1, <1>0 DEF handlerAdded, TypeOK
  <2>2. CASE channelRead0(c)
    <3>1. lines[c] \in Seq(Lines) /\ lines[c] # <<>>
      BY <2>2, <1>0 DEF channelRead0, TypeOK
    <3>2. Head(lines[c]) \in Lines
      BY <3>1
    <3>3. Begin(c, "read", Head(lines[c])) /\ Head(lines[c]) \in Kinds /\ Head(lines[c]) # "left"
      BY <2>2, <3>2 DEF channelRead0, Kinds, Lines
    <3> QED BY <2>2, <3>3, <1>0 DEF channelRead0
  <2>3. CASE handlerRemoved(c)
    <3>1. Begin(c, "removed", "left") /\ "left" \in Kinds
      BY <2>3 DEF handlerRemoved, Kinds
    <3> QED BY <2>3, <3>1, <1>0 DEF handlerRemoved, TypeOK
  <2> QED BY <2>1, <2>2, <2>3
<1> DEFINE l == LoopOf[c]
           f == [op |-> op, chan |-> c, k |-> said[c] + 1, kind |-> kind, seen |-> {}, due |-> channels]
<1>2. /\ l \in Loops /\ run[l] = Idle
      /\ run' = [run EXCEPT ![l] = f] /\ run \in [Loops -> Frames \cup {Idle}]
      /\ said' = [said EXCEPT ![c] = @ + 1] /\ said \in [Clients -> Nat]
  BY <1>0, <1>1, LoopType DEF Begin, Free, TypeOK
<1>3. /\ f.chan = c /\ f.op = op /\ f.kind = kind /\ f.k = said[c] + 1 /\ f.seen = {} /\ f.due = channels
      /\ f # Idle
  <2>1. f.op # Idle.op
    BY DEF Idle
  <2> QED BY <2>1
<1> HIDE DEF f, l
<1>4. run'[l] = f /\ \A j \in Loops : j # l => run'[j] = run[j]
  BY <1>2
<1>5. said'[c] = said[c] + 1 /\ said[c] \in Nat /\ \A d \in Clients : d # c => said'[d] = said[d]
  BY <1>2
<1>6. Lanes'
  <2>1. \A r \in Clients : state'[r] = "secured" => state[r] = "secured"
    BY <1>1
  <2>2. ASSUME NEW r \in Clients, NEW d \in Clients, state[r] = "secured"
        PROVE  \/ LastFor(r, d)' = LastFor(r, d) /\ (Before(r, d) => r \in run[LoopOf[d]].due)'
               \/ Numbers(out[r], tasks[LoopOf[r]], r, d) = {}
    <3>1. LoopOf[d] \in Loops
      BY LoopType
    <3>2. CASE d = c
      <4>1. ~Visiting(d) /\ Visiting(d)' /\ ~Before(r, d) /\ Before(r, d)'
        BY <3>2, <1>2, <1>3, <1>4 DEF Visiting, Before, l
      <4>2. LastFor(r, d) = said[c] /\ LastFor(r, d)' = said[c] + 1 - 1
        BY <3>2, <4>1, <1>5 DEF LastFor
      <4>3. LastFor(r, d)' = LastFor(r, d)
        BY <4>2, <1>5
      <4>4. r \in run'[LoopOf[d]].due
        BY <3>2, <2>2, <1>0, <1>3, <1>4 DEF OpenAreMembers, l
      <4> QED BY <4>3, <4>4
    <3>3. CASE d # c /\ LoopOf[d] = l
      <4>1. ~Visiting(d) /\ ~Visiting(d)'
        BY <3>3, <1>2, <1>3, <1>4 DEF Visiting
      <4> QED BY <4>1, <3>3, <1>5 DEF LastFor, Before
    <3>4. CASE d # c /\ LoopOf[d] # l
      <4>1. run'[LoopOf[d]] = run[LoopOf[d]] /\ said'[d] = said[d]
        BY <3>1, <3>4, <1>4, <1>5
      <4>2. OpenLane(r, d)
        BY <1>0, <2>2 DEF Lanes
      <4> QED BY <4>1, <4>2 DEF LastFor, Before, Visiting, OpenLane
    <3> QED BY <3>2, <3>3, <3>4
  <2>3. UNCHANGED <<out, tasks>>
    BY <1>1
  <2> QED BY <1>0, <2>1, <2>2, <2>3, LanesStay
<1>7. SentAreSaid' /\ TasksFit'
  <2>1. \A d \in Clients : /\ said[d] <= said'[d] /\ said'[d] \in Nat
                           /\ state[d] \in {"leaving", "removed"} => said'[d] = said[d] /\ state'[d] \in {"leaving", "removed"}
                           /\ state[d] \notin Early => state'[d] \notin Early
    <3> SUFFICES ASSUME NEW d \in Clients
                 PROVE  /\ said[d] <= said'[d] /\ said'[d] \in Nat
                        /\ state[d] \in {"leaving", "removed"} => said'[d] = said[d] /\ state'[d] \in {"leaving", "removed"}
                        /\ state[d] \notin Early => state'[d] \notin Early
      OBVIOUS
    <3>1. said[d] \in Nat
      BY <1>2
    <3>2. said[d] <= said'[d] /\ said'[d] \in Nat /\ (d # c => said'[d] = said[d])
      BY <3>1, <1>5
    <3> QED BY <3>2, <1>1 DEF Early
  <2> QED BY <1>0, <1>1, <2>1, MessagesStay
<1>8. FramesFit'
  <2> SUFFICES ASSUME NEW j \in Loops, run'[j] # Idle PROVE FrameFits(run[j])'
    BY DEF FramesFit
  <2>1. CASE j = l
    BY <2>1, <1>1, <1>3, <1>4, <1>5 DEF FrameFits
  <2>2. CASE j # l
    <3>1. run'[j] = run[j] /\ run[j] # Idle /\ FrameFits(run[j])
      BY <2>2, <1>0, <1>4 DEF FramesFit
    <3>2. run[j].chan \in Clients /\ LoopOf[run[j].chan] = j
      BY <3>1, <1>0, FrameType
    <3>3. run[j].chan # c
      BY <3>2, <2>2 DEF l
    <3> QED BY <3>1, <3>2, <3>3, <1>5 DEF FrameFits
  <2> QED BY <2>1, <2>2
<1>9. OpenAreMembers'
  BY <1>0, <1>1 DEF OpenAreMembers
<1> QED BY <1>6, <1>7, <1>8, <1>9 DEF OrderInv

\* A broadcast ends: every connection that has heard of the sender was visited.
LEMMA EndOrder ==
  ASSUME ChatInv, OrderInv, NEW l \in Loops, End(l)
  PROVE  OrderInv'
<1> DEFINE f == run[l]
           d == f.chan
<1>0. /\ TypeOK /\ Lanes /\ SentAreSaid /\ TasksFit /\ FramesFit /\ OpenAreMembers /\ f # Idle
      /\ f.due \cap channels \subseteq f.seen
  BY DEF ChatInv, OrderInv, End, Over
<1>1. d \in Clients /\ LoopOf[d] = l /\ f.op \in {"added", "read", "removed"}
  BY <1>0, FrameType
<1>2. /\ f.op = "added" => state[d] = "added"
      /\ f.op = "removed" => state[d] = "leaving"
  BY <1>0 DEF ChatInv, FramesMatch
<1>3. /\ \A c \in Clients : c # d => state'[c] = state[c]
      /\ \/ state[d] = "added" /\ state'[d] = "handshake"
         \/ state[d] = "leaving" /\ state'[d] = "removed"
         \/ state[d] \in {"secured", "bare"} /\ state'[d] = "closing"
         \/ state'[d] = state[d] /\ f.op # "removed"
  <2> DEFINE new == CASE f.op = "added" -> "handshake"
                      [] f.op = "removed" -> "removed"
                      [] f.kind = "bye" /\ state[d] \in {"secured", "bare"} -> "closing"
                      [] OTHER -> state[d]
  <2>1. state' = [state EXCEPT ![d] = new] /\ state \in [Clients -> States]
    BY <1>0 DEF End, TypeOK
  <2>2. \/ state[d] = "added" /\ new = "handshake"
        \/ state[d] = "leaving" /\ new = "removed"
        \/ state[d] \in {"secured", "bare"} /\ new = "closing"
        \/ new = state[d] /\ f.op # "removed"
    BY <1>1, <1>2
  <2> HIDE DEF new
  <2> QED BY <1>1, <2>1, <2>2
<1>4. /\ run' = [run EXCEPT ![l] = Idle] /\ UNCHANGED <<tasks, out, said>>
      /\ channels' = IF f.op = "removed" THEN channels \ {d} ELSE channels
  BY DEF End
<1>5. run'[l] = Idle /\ \A j \in Loops : j # l => run'[j] = run[j]
  BY <1>0, <1>4 DEF TypeOK
<1> HIDE DEF d
<1>6. Lanes'
  <2>1. \A r \in Clients : state'[r] = "secured" => state[r] = "secured"
    BY <1>3
  <2>2. ASSUME NEW r \in Clients, NEW c \in Clients, state[r] = "secured", Numbers(out[r], tasks[LoopOf[r]], r, c) # {}
        PROVE  LastFor(r, c)' = LastFor(r, c) /\ (Before(r, c)' => r \in run'[LoopOf[c]].due)
    <3>1. LoopOf[c] \in Loops
      BY LoopType
    <3>2. OpenLane(r, c) /\ r \in channels
      BY <1>0, <2>2 DEF Lanes, OpenAreMembers
    <3>3. CASE LoopOf[c] = l
      <4>1. ~Before(r, c)
        BY <3>2, <3>3, <2>2, <1>0 DEF OpenLane, Before
      <4>2. ~Before(r, c)'
        BY <3>3, <1>5 DEF Before, Visiting
      <4> QED BY <4>1, <4>2, <1>4 DEF LastFor
    <3>4. CASE LoopOf[c] # l
      <4>1. run'[LoopOf[c]] = run[LoopOf[c]] /\ said' = said
        BY <3>1, <3>4, <1>4, <1>5
      <4> QED BY <4>1, <3>2, <2>2 DEF LastFor, Before, Visiting, OpenLane
    <3> QED BY <3>3, <3>4
  <2>3. UNCHANGED <<out, tasks>>
    BY <1>4
  <2> QED BY <1>0, <2>1, <2>2, <2>3, LanesStay
<1>7. SentAreSaid' /\ TasksFit'
  <2>1. \A c \in Clients : said[c] \in Nat
    BY <1>0 DEF TypeOK
  <2>2. \A c \in Clients : /\ said[c] <= said'[c] /\ said'[c] \in Nat
                           /\ state[c] \in {"leaving", "removed"} => said'[c] = said[c] /\ state'[c] \in {"leaving", "removed"}
                           /\ state[c] \notin Early => state'[c] \notin Early
    BY <1>3, <1>4, <2>1 DEF Early
  <2>3. UNCHANGED <<out, tasks>>
    BY <1>4
  <2> QED BY <1>0, <2>2, <2>3, MessagesStay
<1>8. FramesFit'
  BY <1>0, <1>4, <1>5 DEF FramesFit, FrameFits
<1>9. OpenAreMembers'
  BY <1>0, <1>1, <1>2, <1>3, <1>4 DEF OpenAreMembers
<1> QED BY <1>6, <1>7, <1>8, <1>9 DEF OrderInv

\* The handshake completes: a lane opens, and nothing is on it.
LEMMA CompleteOrder ==
  ASSUME ChatInv, OrderInv, NEW p \in Clients, operationComplete(p)
  PROVE  OrderInv'
<1>0. /\ TypeOK /\ GreetedFirst /\ Lanes /\ SentAreSaid /\ TasksFit /\ FramesFit /\ OpenAreMembers
      /\ state[p] = "handshake"
  BY DEF ChatInv, OrderInv, operationComplete
<1>1. out[p] = <<>> /\ Greeting(p) \in Seq(Messages) /\ Len(Greeting(p)) = 2 /\ <<>> \o Greeting(p) = Greeting(p)
  BY <1>0, GreetingType DEF GreetedFirst
<1>2. /\ out'[p] = Greeting(p) /\ \A d \in Clients : d # p => out'[d] = out[d]
      /\ state'[p] = "secured" /\ \A d \in Clients : d # p => state'[d] = state[d]
      /\ channels' = channels \cup {p} /\ UNCHANGED <<run, tasks, said>>
  BY <1>0, <1>1 DEF operationComplete, TypeOK
<1>3. DOMAIN Greeting(p) = 1 .. 2 /\ \A i \in 1 .. 2 : Greeting(p)[i].k = 0 /\ Greeting(p)[i].kind # "left" /\ Greeting(p)[i].from = p
  BY DEF Greeting, Message
<1>4. Lanes'
  <2> SUFFICES ASSUME NEW r \in Clients, NEW c \in Clients
               PROVE  HeardInOrder(out'[r], c) /\ (state'[r] = "secured" => OpenLane(r, c)')
    BY DEF Lanes
  <2>1. CASE r = p
    <3>1. HeardIn(out'[r], c) = {}
      BY <2>1, <1>2, <1>3 DEF HeardIn
    <3>2. NumbersHeard(out'[r], c) = {} /\ HeardInOrder(out'[r], c)
      BY <3>1 DEF NumbersHeard, HeardInOrder, InOrder, Unbroken
    <3>3. AwaitedIn(tasks[LoopOf[r]], r, c) = {}
      <4> SUFFICES ASSUME NEW i \in AwaitedIn(tasks[LoopOf[r]], r, c) PROVE FALSE
        OBVIOUS
      <4>1. LoopOf[r] \in Loops /\ i \in DOMAIN tasks[LoopOf[r]] /\ tasks[LoopOf[r]][i][1] = r
        BY LoopType DEF AwaitedIn
      <4>2. TaskFits(LoopOf[r], tasks[LoopOf[r]][i])
        BY <4>1, <1>0 DEF TasksFit
      <4> QED BY <4>1, <4>2, <2>1, <1>0 DEF TaskFits, Early
    <3>4. NumbersAwaited(tasks[LoopOf[r]], r, c) = {} /\ AwaitedInOrder(tasks[LoopOf[r]], r, c)
      BY <3>3 DEF NumbersAwaited, AwaitedInOrder
    <3>5. tasks' = tasks
      BY <1>2
    <3> QED BY <3>2, <3>4, <3>5 DEF OpenLane, Lane, Numbers, Unbroken, UpTo
  <2>2. CASE r # p
    <3>1. out'[r] = out[r] /\ state'[r] = state[r] /\ UNCHANGED <<run, tasks, said>>
      BY <2>2, <1>2
    <3> QED BY <3>1, <1>0 DEF Lanes, OpenLane, LastFor, Before, Visiting
  <2> QED BY <2>1, <2>2
<1>5. \A c \in Clients : /\ state[c] \in {"leaving", "removed"} => state'[c] = state[c]
                         /\ state[c] \notin Early => state'[c] \notin Early
  BY <1>0, <1>2 DEF Early
<1>6. SentAreSaid'
  <2> SUFFICES ASSUME NEW r \in Clients, NEW i \in DOMAIN out'[r]
               PROVE  LastWord(out[r][i])' /\ out'[r][i].k <= said[out'[r][i].from]
    BY <1>2 DEF SentAreSaid
  <2>1. CASE r = p
    <3>1. out'[r][i].k = 0 /\ out'[r][i].kind # "left" /\ out'[r][i].from = p
      BY <2>1, <1>2, <1>3
    <3>2. said[p] \in Nat
      BY <1>0 DEF TypeOK
    <3> QED BY <3>1, <3>2 DEF LastWord
  <2>2. CASE r # p
    <3>1. out'[r] = out[r] /\ i \in DOMAIN out[r] /\ said' = said
      BY <2>2, <1>2
    <3>2. PICK x \in Messages : x = out'[r][i] /\ LastWord(x) /\ x.k <= said[x.from]
      BY <3>1, <1>0 DEF SentAreSaid, TypeOK
    <3>3. x.from \in Clients
      BY DEF Messages
    <3>4. LastWord(x)'
      BY <3>1, <3>2, <3>3, <1>5 DEF LastWord
    <3> QED BY <3>2, <3>4 DEF LastWord
  <2> QED BY <2>1, <2>2
<1>7. TasksFit'
  <2> SUFFICES ASSUME NEW h \in Loops, NEW i \in DOMAIN tasks[h] PROVE TaskFits(h, tasks[h][i])'
    BY <1>2 DEF TasksFit
  <2>1. PICK t \in Clients \X Messages : t = tasks[h][i] /\ t = tasks'[h][i]
    BY <1>0, <1>2 DEF TypeOK
  <2>2. TaskFits(h, t)
    BY <1>0, <2>1 DEF TasksFit
  <2>3. TaskFits(h, t)'
    BY <1>2, <1>5, <2>2, TaskStaysFit
  <2> QED BY <2>1, <2>3 DEF TaskFits, LastWord
<1>8. FramesFit' /\ OpenAreMembers'
  BY <1>0, <1>2 DEF FramesFit, FrameFits, OpenAreMembers
<1> QED BY <1>4, <1>6, <1>7, <1>8 DEF OrderInv

\* What else there is: a connection closes or is going to, a client does
\* something, or nothing happens.
LEMMA OtherOrder ==
  ASSUME ChatInv, OrderInv,
         \/ \E c \in Clients : Ending(c) \/ Type(c) \/ HangUp(c)
         \/ UNCHANGED vars
  PROVE  OrderInv'
<1>0. /\ TypeOK /\ GreetedFirst /\ Lanes /\ SentAreSaid /\ TasksFit /\ FramesFit /\ OpenAreMembers
  BY DEF ChatInv, OrderInv
<1> DEFINE Closing ==
      \A d \in Clients : /\ \/ state'[d] = state[d]
                            \/ state[d] \notin {"leaving", "removed"} /\ state'[d] \in {"failed", "bare", "closing", "closed"}
                         /\ state'[d] = "secured" /\ d \in channels => d \in channels'
<1>1. UNCHANGED <<run, tasks, out, said>> /\ Closing
  <2>1. ASSUME NEW c \in Clients, Ending(c) PROVE UNCHANGED <<run, tasks, out, said>> /\ Closing
    <3>1. /\ \A d \in Clients : d # c => state'[d] = state[d]
          /\ state[c] \in {"handshake", "failed", "bare", "secured", "closing"}
          /\ state'[c] \in {"failed", "bare", "closing", "closed"}
          /\ channels \subseteq channels' \cup {c}
          /\ UNCHANGED <<run, tasks, out, said>>
      BY <2>1, <1>0, EndingEffect
    <3> QED BY <3>1
  <2>2. CASE (\E c \in Clients : Type(c) \/ HangUp(c)) \/ UNCHANGED vars
    BY <2>2 DEF Type, HangUp, vars
  <2> QED BY <2>1, <2>2
<1>2. Lanes'
  <2>1. \A r, c \in Clients : LastFor(r, c)' = LastFor(r, c) /\ Before(r, c)' = Before(r, c)
    BY <1>1 DEF LastFor, Before, Visiting
  <2>2. \A r \in Clients : state'[r] = "secured" => state[r] = "secured"
    BY <1>1
  <2>3. \A r, c \in Clients : state[r] = "secured" /\ Numbers(out[r], tasks[LoopOf[r]], r, c) # {} =>
          LastFor(r, c)' = LastFor(r, c) /\ (Before(r, c)' => r \in run'[LoopOf[c]].due)
    BY <1>0, <1>1, <2>1 DEF Lanes, OpenLane
  <2> QED BY <1>0, <1>1, <2>2, <2>3, LanesStay
<1>3. SentAreSaid' /\ TasksFit'
  <2>1. \A c \in Clients : said[c] \in Nat
    BY <1>0 DEF TypeOK
  <2>2. \A c \in Clients : /\ said[c] <= said'[c] /\ said'[c] \in Nat
                           /\ state[c] \in {"leaving", "removed"} => said'[c] = said[c] /\ state'[c] \in {"leaving", "removed"}
                           /\ state[c] \notin Early => state'[c] \notin Early
    BY <1>1, <2>1 DEF Early
  <2> QED BY <1>0, <1>1, <2>2, MessagesStay
<1>4. FramesFit' /\ OpenAreMembers'
  BY <1>0, <1>1 DEF FramesFit, FrameFits, OpenAreMembers
<1> QED BY <1>2, <1>3, <1>4 DEF OrderInv

\* Initially no lane is open.
LEMMA InitOrder == ASSUME Init PROVE OrderInv
<1>1. \A r \in Clients : DOMAIN out[r] = {} /\ state[r] = "none"
  BY DEF Init
<1>2. \A l \in Loops : tasks[l] = <<>> /\ run[l] = Idle
  BY DEF Init
<1>3. \A l \in Loops : DOMAIN tasks[l] = {}
  BY <1>2
<1>4. Lanes
  <2> SUFFICES ASSUME NEW r \in Clients, NEW c \in Clients PROVE HeardInOrder(out[r], c) /\ state[r] # "secured"
    BY DEF Lanes
  <2>1. HeardIn(out[r], c) = {}
    BY <1>1 DEF HeardIn
  <2> QED BY <1>1, <2>1 DEF HeardInOrder, InOrder, Unbroken, NumbersHeard
<1>5. SentAreSaid /\ TasksFit
  BY <1>1, <1>3 DEF SentAreSaid, TasksFit
<1>6. FramesFit /\ OpenAreMembers
  BY <1>1, <1>2 DEF FramesFit, OpenAreMembers
<1> QED BY <1>4, <1>5, <1>6 DEF OrderInv

\* Every step keeps the order.
LEMMA NextOrder == ASSUME ChatInv, OrderInv, [Next]_vars PROVE OrderInv'
<1>1. ASSUME NEW l \in Loops, Loop(l) PROVE OrderInv'
  <2>1. CASE RunTask(l)
    BY <2>1, TaskOrder
  <2>2. CASE Visit(l)
    BY <2>2, VisitOrder
  <2>3. CASE End(l)
    BY <2>3, EndOrder
  <2>4. CASE \E c \in Clients : LoopOf[c] = l /\ Handler(c)
    <3>1. PICK c \in Clients : Handler(c)
      BY <2>4
    <3>2. CASE operationComplete(c)
      BY <3>2, CompleteOrder
    <3>3. CASE channelRead0(c) \/ handlerRemoved(c)
      BY <3>3, BeginOrder
    <3>4. CASE Ending(c)
      BY <3>4, OtherOrder
    <3> QED BY <3>1, <3>2, <3>3, <3>4 DEF Handler, Ending
  <2> QED BY <1>1, <2>1, <2>2, <2>3, <2>4 DEF Loop
<1>2. ASSUME NEW c \in Clients, handlerAdded(c) PROVE OrderInv'
  BY <1>2, BeginOrder
<1>3. CASE (\E c \in Clients : Type(c) \/ HangUp(c)) \/ UNCHANGED vars
  BY <1>3, OtherOrder
<1> QED BY <1>1, <1>2, <1>3 DEF Next

(***************************************************************************)
(* The theorems.                                                           *)
(***************************************************************************)
\* Every step keeps the invariant.
LEMMA NextChat == ASSUME ChatInv, [Next]_vars PROVE ChatInv'
<1>1. ASSUME NEW l \in Loops, Loop(l) PROVE ChatInv'
  <2>1. CASE RunTask(l)
    BY <1>1, <2>1, TaskChat DEF Loop
  <2>2. CASE Visit(l)
    BY <1>1, <2>2, VisitChat DEF Loop
  <2>3. CASE End(l)
    BY <1>1, <2>3, EndChat DEF Loop
  <2>4. CASE \E c \in Clients : LoopOf[c] = l /\ Handler(c)
    <3>1. PICK c \in Clients : Handler(c)
      BY <2>4
    <3>2. CASE operationComplete(c)
      BY <1>1, <3>2, CompleteChat DEF Loop
    <3>3. CASE channelRead0(c) \/ handlerRemoved(c)
      BY <1>1, <3>3, BeginChat DEF Loop
    <3>4. CASE Ending(c)
      BY <1>1, <3>4, ClosingChat DEF Loop
    <3> QED BY <3>1, <3>2, <3>3, <3>4 DEF Handler, Ending
  <2> QED BY <1>1, <2>1, <2>2, <2>3, <2>4 DEF Loop
<1>2. ASSUME NEW c \in Clients, handlerAdded(c), UNCHANGED typed PROVE ChatInv'
  BY <1>2, BeginChat
<1>3. CASE (\E c \in Clients : Type(c) \/ HangUp(c)) \/ UNCHANGED vars
  BY <1>3, ClientChat
<1> QED BY <1>1, <1>2, <1>3 DEF Next

\* The invariant holds of every behaviour of the chat server.
THEOREM ChatSafe == Spec => []ChatInv
<1>1. Init => ChatInv
  BY InitChat
<1>2. ChatInv /\ [Next]_vars => ChatInv'
  BY NextChat
<1> QED BY <1>1, <1>2, PTL DEF Spec

\* The types of the group, the connections and the loops.
THEOREM TypeCorrect == Spec => []TypeOK
<1>1. ChatInv => TypeOK
  BY DEF ChatInv
<1> QED BY <1>1, ChatSafe, PTL

\* Members of the group have been greeted, unless their handshake failed, and
\* are not closed; the greeting is the first thing any client is sent.
THEOREM AlwaysGreetedFirst == Spec => []GreetedFirst
<1>1. ChatInv => GreetedFirst
  BY DEF ChatInv
<1> QED BY <1>1, ChatSafe, PTL

\* A broadcast that ends has reached every connection that was in the group
\* all the while: the message is sent to it or queued for it.
THEOREM NobodyIsForgotten == Spec => NobodyForgotten
<1> DEFINE A == \A l \in Loops : (run[l] # Idle /\ run'[l] = Idle) => Served(run[l])
<1>1. ASSUME ChatInv, [Next]_vars PROVE [A]_vars
  <2> SUFFICES ASSUME NEW l \in Loops, run[l] # Idle, run'[l] = Idle PROVE Served(run[l])
    OBVIOUS
  <2>1. TypeOK /\ run \in [Loops -> Frames \cup {Idle}]
    BY <1>1 DEF ChatInv, TypeOK
  <2>2. run[l].due \cap channels \subseteq run[l].seen
    <3>1. ASSUME NEW j \in Loops, Loop(j) PROVE run[l].due \cap channels \subseteq run[l].seen
      <4>1. CASE End(j)
        <5>1. j = l
          BY <2>1, <4>1 DEF End
        <5> QED BY <4>1, <5>1 DEF End, Over
      <4>2. CASE Visit(j)
        <5>1. PICK r : run' = [run EXCEPT ![j].seen = @ \cup {r}]
          BY <4>2 DEF Visit
        <5>2. run'[l] = run[l] \/ (j = l /\ run'[l] = [run[l] EXCEPT !.seen = @ \cup {r}])
          BY <2>1, <5>1
        <5>3. run[l] \in Frames
          BY <2>1
        <5>4. run'[l].chan = run[l].chan /\ run'[l].op = run[l].op
          BY <5>2, <5>3 DEF Frames
        <5>5. run[l].op \in {"added", "read", "removed"} /\ Idle.op = "idle"
          BY <5>3 DEF Frames, Idle
        <5> QED BY <5>4, <5>5
      <4>3. CASE RunTask(j)
        BY <4>3 DEF RunTask
      <4>4. CASE \E c \in Clients : Handler(c)
        <5>1. PICK c \in Clients : Handler(c)
          BY <4>4
        <5>2. UNCHANGED run \/ \E op, kind : Begin(c, op, kind)
          BY <5>1 DEF Handler, operationComplete, operationFailed, operationThrows, channelRead0, exceptionCaught, Close, handlerRemoved
        <5> QED BY <5>2, <2>1 DEF Begin, Free, Idle
      <4> QED BY <3>1, <4>1, <4>2, <4>3, <4>4 DEF Loop
    <3>2. ASSUME NEW c \in Clients, handlerAdded(c) PROVE FALSE
      BY <3>2, <2>1 DEF handlerAdded, Begin, Free, Idle
    <3>3. CASE (\E c \in Clients : Type(c) \/ HangUp(c)) \/ UNCHANGED vars
      BY <3>3 DEF Type, HangUp, vars
    <3> QED BY <1>1, <3>1, <3>2, <3>3 DEF Next
  <2>3. ASSUME NEW r \in run[l].due \cap channels PROVE Reached(run[l], r) /\ r \in run[l].seen
    BY <1>1, <2>2, <2>3 DEF ChatInv, Serving
  <2> QED BY <2>3 DEF Served, Reached
<1>2. ChatInv /\ [Next]_vars => [A]_vars
  BY <1>1
<1> HIDE DEF A
<1>3. Spec => [][A]_vars
  BY <1>2, ChatSafe, PTL DEF Spec
<1> QED BY <1>3 DEF NobodyForgotten, A

\* With the order of the lanes, the invariant still holds of every behaviour.
LEMMA OrderSafe == Spec => []OrderInv
<1>1. Init => ChatInv /\ OrderInv
  BY InitChat, InitOrder
<1>2. (ChatInv /\ OrderInv) /\ [Next]_vars => (ChatInv /\ OrderInv)'
  BY NextChat, NextOrder
<1> QED BY <1>1, <1>2, PTL DEF Spec

\* What a client is sent of another is a contiguous run of what that one's
\* handler broadcast, for any number of event loops whose tasks overtake each
\* other in any way, and its leaving is the last of it.
THEOREM HeardInARow == Spec => []ContiguousPerSender
<1>1. ASSUME TypeOK, OrderInv PROVE ContiguousPerSender
  <2> SUFFICES ASSUME NEW r \in Clients, NEW c \in Clients, NEW i \in Heard(r, c), NEW j \in Heard(r, c),
                      i < j, \A h \in Heard(r, c) : h <= i \/ j <= h
               PROVE  out[r][j].k = out[r][i].k + 1 /\ out[r][i].kind # "left"
    BY DEF ContiguousPerSender
  <2> DEFINE s == out[r]
             x == s[i].k
             y == s[j].k
  <2>1. s \in Seq(Messages) /\ Heard(r, c) = HeardIn(s, c)
    BY <1>1 DEF TypeOK, Heard, HeardIn
  <2>2. HeardInOrder(s, c) /\ LastWord(s[i]) /\ s[i].from = c /\ s[j].from = c /\ y <= said[c]
    BY <1>1, <2>1 DEF OrderInv, Lanes, SentAreSaid, HeardIn
  <2>3. \A h \in HeardIn(s, c) : h \in Nat /\ s[h] \in Messages
    BY <2>1 DEF HeardIn
  <2>4. x \in Nat /\ y \in Nat /\ said[c] \in Nat
    BY <1>1, <2>1, <2>3 DEF Messages, TypeOK
  <2> HIDE DEF s
  <2>5. x < y
    BY <2>1, <2>2 DEF HeardInOrder, InOrder
  <2>6. s[i].kind # "left"
    BY <2>2, <2>4, <2>5 DEF LastWord
  <2>7. ASSUME x + 1 # y PROVE FALSE
    <3>1. x \in NumbersHeard(s, c) /\ y \in NumbersHeard(s, c)
      BY <2>1 DEF NumbersHeard
    <3>2. x + 1 \in Nat /\ x < x + 1 /\ x + 1 < y
      BY <2>4, <2>5, <2>7
    <3>3. x + 1 \in NumbersHeard(s, c)
      BY <3>1, <3>2, <2>2 DEF HeardInOrder, Unbroken
    <3>4. PICK h \in HeardIn(s, c) : s[h].k = x + 1
      BY <3>3 DEF NumbersHeard
    <3>5. h <= i \/ j <= h
      BY <2>1, <3>4
    <3>6. i \in Nat /\ j \in Nat /\ h \in Nat
      BY <2>1, <2>3, <3>4
    <3>7. CASE h <= i
      <4>1. h < i \/ h = i
        BY <3>6, <3>7
      <4>2. s[h].k < s[i].k \/ s[h].k = s[i].k
        BY <4>1, <2>1, <2>2, <3>4 DEF HeardInOrder, InOrder
      <4> QED BY <4>2, <3>4, <2>4
    <3>8. CASE j <= h
      <4>1. j < h \/ h = j
        BY <3>6, <3>8
      <4>2. s[j].k < s[h].k \/ s[j].k = s[h].k
        BY <4>1, <2>1, <2>2, <3>4 DEF HeardInOrder, InOrder
      <4> QED BY <4>2, <3>2, <3>4, <2>4
    <3> QED BY <3>5, <3>7, <3>8
  <2> QED BY <2>6, <2>7, <2>4 DEF s
<1> QED BY <1>1, TypeCorrect, OrderSafe, PTL

(***************************************************************************)
(* The book queries.                                                       *)
(***************************************************************************)
\* What a call of queryBook can be at, and how long it can have left.
BookTypes(longest) ==
  /\ query \in Queries \cup {"clean", "end"}
  /\ elapsed \in Nat /\ limit \in Nat /\ caller \in 0 .. Len(Sleep) /\ ret \in Int
  /\ job \in [Queries -> [authors -> [at : {"none", "queued", "running", "done"}, left : 0 .. longest]]]
  /\ answer \in [Queries -> Int] /\ duration \in [Queries -> Nat]

\* The concurrent query took no longer than one call, the other two longer, the
\* parallel one when it cannot ask all authors at once.
Timed(longest) ==
  /\ duration["concurrent"] <= longest
  /\ \A q \in {"sequential", "parallel"} :
       Returned(q) => duration[q] > longest \/ (q = "parallel" /\ Workers >= Len(Sleep))

\* One author after the other is asked, up to the wanted one, and the second
\* takes as long again as the first.
InTurn(shortest) ==
  query = "sequential" =>
    LET owed == IF caller = 1 THEN shortest ELSE 2 * shortest IN
    /\ caller <= AUTHOR_NAME
    /\ \A i \in authors : i > caller => job["sequential"][i].at = "none"
    /\ caller >= 2 => elapsed >= shortest
    /\ caller >= 1 => job["sequential"][caller].at # "queued"
    /\ caller >= 1 /\ job["sequential"][caller].at = "running" => elapsed + job["sequential"][caller].left >= owed
    /\ caller >= 1 /\ job["sequential"][caller].at = "done" => elapsed >= owed

\* The pool starts the tasks of its threads at once, the get() of the wanted
\* book begins when the others have taken time, and so cannot time out.
InPool(longest) ==
  query = "concurrent" =>
    /\ caller <= AUTHOR_NAME /\ elapsed <= longest
    /\ caller = 0 => elapsed = 0
    /\ caller = 1 => limit + elapsed = Patience
    /\ caller >= 2 => elapsed >= 1
    /\ caller >= 1 =>
         /\ \A i \in authors : job["concurrent"][i].at # "none"
         /\ \A i, j \in authors : i < j /\ job["concurrent"][i].at = "queued" => job["concurrent"][j].at = "queued"
         /\ \A i \in authors : i <= CorePool =>
              /\ job["concurrent"][i].at = "queued" => elapsed = 0
              /\ job["concurrent"][i].at = "running" =>
                   elapsed + job["concurrent"][i].left \in 1 .. (Sleep[i] + Jitter)
              /\ job["concurrent"][i].at = "done" => elapsed >= 1
    /\ caller = AUTHOR_NAME /\ job["concurrent"][caller].at = "running" => job["concurrent"][caller].left < limit

\* While a stream of too few workers has not taken as long as two calls, some
\* author is yet to be asked or was asked late.
TakesTwo(shortest) ==
  \/ Workers >= Len(Sleep)
  \/ elapsed >= 2 * shortest
  \/ \E i \in authors : \/ job["parallel"][i].at = "queued"
                        \/ job["parallel"][i].at = "running" /\ elapsed + job["parallel"][i].left >= 2 * shortest

\* Nobody is asked before the stream begins.
Unasked ==
  query \in {"sequential", "concurrent"} \/ (query = "parallel" /\ caller = 0) =>
    \A i \in authors : job["parallel"][i].at = "none"

InStream(shortest) ==
  query = "parallel" =>
    /\ caller = 0 => elapsed = 0
    /\ caller >= 1 =>
         /\ \A i \in authors :
              /\ job["parallel"][i].at # "none"
              /\ job["parallel"][i].at = "running" => elapsed + job["parallel"][i].left >= shortest
              /\ job["parallel"][i].at = "done" => elapsed >= shortest
         /\ TakesTwo(shortest)

\* What the pool has still to do takes no longer than one thread would take for
\* all tasks.
Load(longest) == Cardinality(Jobs("concurrent", "queued")) * longest
Draining(longest) ==
  /\ query = "clean" =>
       /\ elapsed + Load(longest) <= Len(Sleep) * longest
       /\ \A i \in Jobs("concurrent", "running") :
            elapsed + Load(longest) + job["concurrent"][i].left <= Len(Sleep) * longest
  /\ query = "end" => PoolIdle

BookInv(shortest, longest) ==
  /\ BookTypes(longest) /\ AnswersAreExpected /\ Timed(longest) /\ InTurn(shortest) /\ InPool(longest)
  /\ Unasked /\ InStream(shortest) /\ Draining(longest)

\* The authors are numbered from 1 up to their count.
LEMMA AuthorsAre ==
  /\ authors = 1 .. Len(Sleep) /\ Len(Sleep) \in Nat /\ \A i \in authors : Sleep[i] \in Nat
  /\ {CorePool, Workers, Patience, Grace, Jitter, MaxDuration} \subseteq Nat
BY BooksAssumption DEF authors

\* The numbers of a well-timed test.
Paced(shortest, longest) ==
  /\ WellTimed /\ WithinTimes(shortest, longest)
  /\ shortest \in 1 .. MaxDuration /\ longest \in 1 .. MaxDuration

LEMMA TimesAre ==
  ASSUME NEW shortest, NEW longest, Paced(shortest, longest)
  PROVE  /\ shortest \in Nat /\ longest \in Nat /\ 1 <= shortest /\ shortest <= longest
         /\ AUTHOR_NAME \in authors /\ AUTHOR_NAME >= 2 /\ AUTHOR_NAME <= CorePool
         /\ AUTHOR_NAME \notin WithoutBook
         /\ \A i \in authors : i < AUTHOR_NAME => i \in WithoutBook
         /\ \A i \in authors : shortest <= Sleep[i] /\ Sleep[i] + Jitter <= longest
         /\ Sleep[AUTHOR_NAME] + Jitter <= Patience /\ 1 <= Patience
         /\ longest < 2 * shortest /\ longest < MaxDuration /\ Len(Sleep) * longest < Grace
<1>1. AUTHOR_NAME \in authors /\ AUTHOR_NAME \in Nat
  BY AuthorsAre, BooksAssumption DEF authors
<1>2. \A i \in authors : i \in Nat /\ 1 <= i /\ Sleep[i] \in Nat /\ Jitter \in Nat /\ MaxDuration \in Nat
  BY AuthorsAre
<1>3. \A i \in authors : i < AUTHOR_NAME => i \in WithoutBook
  BY <1>1, <1>2 DEF WellTimed, Paced
<1>4. AUTHOR_NAME >= 2 /\ AUTHOR_NAME <= CorePool /\ AUTHOR_NAME \notin WithoutBook
  BY AuthorsAre DEF WellTimed, Paced
<1>5. Sleep[AUTHOR_NAME] + Jitter <= Patience
  BY DEF WellTimed, Paced
<1>6. shortest <= Sleep[AUTHOR_NAME] /\ Sleep[AUTHOR_NAME] + Jitter <= longest
  BY <1>1 DEF WithinTimes, Paced
<1>7. shortest \in Nat /\ longest \in Nat /\ 1 <= shortest /\ shortest <= longest /\ Sleep[AUTHOR_NAME] \in Nat /\ 1 <= Patience
  BY <1>1, <1>2, <1>5, <1>6, AuthorsAre DEF Paced
<1>8. QED
  BY <1>1, <1>3, <1>4, <1>5, <1>7 DEF WithinTimes, Paced

\* The first author of a set of them.
LEMMA FirstAuthor ==
  ASSUME NEW S, S \subseteq authors, S # {}
  PROVE  Min(S) \in S /\ \A i \in S : Min(S) <= i
<1>1. S \subseteq Nat
  BY AuthorsAre
<1>2. QED
  BY <1>1, MinOfNats

\* What changes when one call is at something else.
LEMMA JobSet ==
  ASSUME NEW longest, BookTypes(longest), NEW q \in Queries, NEW i \in authors, NEW v,
         job' = [job EXCEPT ![q][i] = v]
  PROVE  /\ job'[q][i] = v
         /\ \A p \in Queries, j \in authors : ~(p = q /\ j = i) => job'[p][j] = job[p][j]
         /\ v \in [at : {"none", "queued", "running", "done"}, left : 0 .. longest] =>
              job' \in [Queries -> [authors -> [at : {"none", "queued", "running", "done"}, left : 0 .. longest]]]
<1>1. job \in [Queries -> [authors -> [at : {"none", "queued", "running", "done"}, left : 0 .. longest]]]
  BY DEF BookTypes
<1>2. QED
  BY <1>1

\* Numbers of calls.
LEMMA JobsFinite ==
  ASSUME NEW q, NEW at
  PROVE  /\ Jobs(q, at) \subseteq authors /\ IsFiniteSet(Jobs(q, at))
         /\ Cardinality(Jobs(q, at)) \in Nat /\ Cardinality(Jobs(q, at)) <= Len(Sleep)
<1>1. IsFiniteSet(authors) /\ Cardinality(authors) = Len(Sleep)
  <2>1. IsFiniteSet(1 .. Len(Sleep)) /\ Cardinality(1 .. Len(Sleep)) = Len(Sleep)
    <3>1. PICK n \in Nat : n = Len(Sleep)
      BY AuthorsAre
    <3>2. IsFiniteSet(1 .. n) /\ Cardinality(1 .. n) = IF 1 > n THEN 0 ELSE n - 1 + 1
      BY FS_Interval
    <3>3. Cardinality(1 .. n) = n
      BY <3>2
    <3>4. QED
      BY <3>1, <3>2, <3>3
  <2>2. QED
    BY <2>1, AuthorsAre
<1>2. Jobs(q, at) \subseteq authors
  BY DEF Jobs
<1>3. QED
  BY <1>1, <1>2, FS_Subset, FS_CardinalityType

\* What the wall clock of a query that returns says.
LEMMA DurationIs ==
  ASSUME NEW longest \in Nat, longest < MaxDuration, elapsed \in Nat
  PROVE  /\ Min({elapsed, MaxDuration}) \in Nat
         /\ elapsed <= longest => Min({elapsed, MaxDuration}) <= longest
         /\ elapsed > longest => Min({elapsed, MaxDuration}) > longest
BY SMTT(20), AuthorsAre, MinOfPair

\* The sets of calls after one of them has moved.
LEMMA JobsMoved ==
  ASSUME NEW longest, BookTypes(longest), NEW q \in Queries, NEW i \in authors, NEW v,
         job' = [job EXCEPT ![q][i] = v]
  PROVE  /\ \A p \in Queries : \A at : p # q => Jobs(p, at)' = Jobs(p, at)
         /\ \A at : at # v.at => Jobs(q, at)' = Jobs(q, at) \ {i}
         /\ Jobs(q, v.at)' = Jobs(q, v.at) \cup {i}
<1>1. /\ job'[q][i] = v
      /\ \A p \in Queries, j \in authors : ~(p = q /\ j = i) => job'[p][j] = job[p][j]
  <2>1. job \in [Queries -> [authors -> [at : {"none", "queued", "running", "done"}, left : 0 .. longest]]]
    BY DEF BookTypes
  <2>2. QED
    BY <2>1
<1>2. \A p, at : Jobs(p, at)' = {j \in authors : job'[p][j].at = at}
  BY DEF Jobs, authors
<1>3. \A p \in Queries : \A at : p # q => Jobs(p, at)' = Jobs(p, at)
  BY <1>1, <1>2 DEF Jobs
<1>4. \A at : at # v.at => Jobs(q, at)' = Jobs(q, at) \ {i}
  BY <1>1, <1>2 DEF Jobs
<1>5. Jobs(q, v.at)' = Jobs(q, v.at) \cup {i}
  BY <1>1, <1>2 DEF Jobs
<1>6. QED
  BY <1>3, <1>4, <1>5

\* Products of counts.
LEMMA Products ==
  ASSUME NEW m \in Nat, NEW n \in Nat, NEW k \in Nat
  PROVE  /\ m * k \in Nat /\ (m + 1) * k = m * k + k
         /\ m <= n => m * k <= n * k
<1>1. m * k \in Nat /\ (m + 1) * k = m * k + k
  OBVIOUS
<1>2. m <= n => m * k <= n * k
  OBVIOUS
<1>3. QED
  BY <1>1, <1>2

\* Tasks in the queue count for less than all authors, and one that leaves it
\* takes its share away.
LEMMA LoadIs ==
  ASSUME NEW longest \in Nat, NEW S \in SUBSET authors
  PROVE  /\ Cardinality(S) * longest \in Nat /\ Len(Sleep) * longest \in Nat
         /\ Cardinality(S) * longest <= Len(Sleep) * longest
         /\ \A i \in authors \ S : Cardinality(S) * longest + longest <= Len(Sleep) * longest
         /\ \A i \in S : Cardinality(S \ {i}) * longest + longest = Cardinality(S) * longest
<1>1. IsFiniteSet(authors) /\ Cardinality(authors) = Len(Sleep) /\ Len(Sleep) \in Nat
  <2>1. PICK n \in Nat : n = Len(Sleep)
    BY AuthorsAre
  <2>2. IsFiniteSet(1 .. n) /\ Cardinality(1 .. n) = IF 1 > n THEN 0 ELSE n - 1 + 1
    BY FS_Interval
  <2>3. Cardinality(1 .. n) = n
    BY <2>2
  <2>4. QED
    BY <2>1, <2>2, <2>3, AuthorsAre
<1>2. IsFiniteSet(S) /\ Cardinality(S) \in Nat /\ Cardinality(S) <= Len(Sleep)
  BY <1>1, FS_Subset, FS_CardinalityType
<1>3. ASSUME NEW i \in authors \ S
      PROVE  Cardinality(S) * longest + longest <= Len(Sleep) * longest
  <2>1. IsFiniteSet(S \cup {i}) /\ Cardinality(S \cup {i}) = Cardinality(S) + 1
    BY <1>2, FS_AddElement
  <2>2. Cardinality(S \cup {i}) <= Len(Sleep)
    <3>1. S \cup {i} \subseteq authors
      OBVIOUS
    <3>2. QED
      BY <3>1, <1>1, FS_Subset
  <2>3. Cardinality(S) + 1 <= Len(Sleep) /\ Cardinality(S) + 1 \in Nat
    BY <2>1, <2>2, <1>2
  <2>4. (Cardinality(S) + 1) * longest <= Len(Sleep) * longest
    BY <2>3, <1>1, Products
  <2>5. (Cardinality(S) + 1) * longest = Cardinality(S) * longest + longest
    BY <1>2, Products
  <2>6. QED
    BY <2>4, <2>5
<1>4. ASSUME NEW i \in S
      PROVE  Cardinality(S \ {i}) * longest + longest = Cardinality(S) * longest
  <2>1. IsFiniteSet(S \ {i}) /\ Cardinality(S \ {i}) = Cardinality(S) - 1
    BY <1>2, FS_RemoveElement
  <2>2. Cardinality(S \ {i}) \in Nat /\ Cardinality(S) = Cardinality(S \ {i}) + 1
    BY <2>1, <1>2, FS_CardinalityType
  <2>3. QED
    BY <2>2, Products
<1>5. Cardinality(S) * longest \in Nat /\ Len(Sleep) * longest \in Nat
      /\ Cardinality(S) * longest <= Len(Sleep) * longest
  BY <1>1, <1>2, Products
<1>6. QED
  BY <1>3, <1>4, <1>5

(***************************************************************************)
(* The steps.                                                              *)
(***************************************************************************)
\* A query begins.
LEMMA BookBegins ==
  ASSUME NEW shortest, NEW longest, Paced(shortest, longest), BookInv(shortest, longest), BeginQuery
  PROVE  BookInv(shortest, longest)'
<1>1. /\ query \in Queries /\ caller = 0 /\ caller' = 1 /\ limit' = Patience
      /\ query' = query /\ elapsed' = elapsed /\ ret' = ret /\ answer' = answer /\ duration' = duration
  BY DEF BeginQuery
<1>2. shortest \in Nat /\ longest \in Nat /\ AUTHOR_NAME \in authors /\ AUTHOR_NAME >= 2 /\ AUTHOR_NAME \in Nat
      /\ 1 <= longest
  BY TimesAre, AuthorsAre
<1>3. BookTypes(longest)'
  <2>1. 1 \in 0 .. Len(Sleep)
    BY <1>2, AuthorsAre
  <2>2. job' \in [Queries -> [authors -> [at : {"none", "queued", "running", "done"}, left : 0 .. longest]]]
    <3>1. [at |-> "queued", left |-> 0] \in [at : {"none", "queued", "running", "done"}, left : 0 .. longest]
      BY <1>2
    <3>2. job' = IF query = "sequential" THEN job ELSE [job EXCEPT ![query] = [i \in authors |-> [at |-> "queued", left |-> 0]]]
      BY DEF BeginQuery, Job
    <3>3. job \in [Queries -> [authors -> [at : {"none", "queued", "running", "done"}, left : 0 .. longest]]]
      BY DEF BookInv, BookTypes
    <3>4. QED
      BY <3>1, <3>2, <3>3, <1>1
  <2>3. QED
    BY <1>1, <2>1, <2>2, AuthorsAre DEF BookInv, BookTypes, Queries, authors
<1>4. InTurn(shortest)'
  <2>1. query = "sequential" => job' = job
    BY DEF BeginQuery
  <2>2. 1 \in authors
    BY <1>2, AuthorsAre
  <2>3. QED
    BY SMTT(20), <1>1, <1>2, <2>1, <2>2, AuthorsAre DEF InTurn, BookInv, authors
<1>5. query \in {"concurrent", "parallel"} => \A i \in authors : job'[query][i] = [at |-> "queued", left |-> 0]
  BY DEF BeginQuery, BookInv, BookTypes, Queries, Job
<1>6. InPool(longest)'
  <2>1. query = "concurrent" => elapsed = 0
    BY <1>1 DEF InPool, BookInv
  <2>2. QED
    BY SMTT(20), <1>1, <1>2, <1>5, <2>1, AuthorsAre DEF InPool, authors
<1>7. InStream(shortest)'
  BY SMTT(20), <1>1, <1>2, <1>5, AuthorsAre DEF InStream, TakesTwo, authors
<1>8. Draining(longest)'
  BY <1>1 DEF Draining, Queries
<1>9. AnswersAreExpected' /\ Timed(longest)'
  BY <1>1 DEF AnswersAreExpected, Timed, Returned, BookInv, Queries
<1>10. Unasked'
  <2>1. query # "parallel" => \A i \in authors : job'["parallel"][i] = job["parallel"][i]
    BY DEF BeginQuery, BookInv, BookTypes, Queries
  <2>2. QED
    BY <1>1, <2>1 DEF Unasked, BookInv, authors
<1>11. QED
  BY <1>3, <1>4, <1>6, <1>7, <1>8, <1>9, <1>10 DEF BookInv

\* A call of queryBook starts: within the pool at once, in the stream late only
\* if another call is over.
LEMMA BookStarts ==
  ASSUME NEW shortest, NEW longest, Paced(shortest, longest), BookInv(shortest, longest),
         NEW q \in Queries, NEW i \in authors, queryBook(q, i)
  PROVE  BookInv(shortest, longest)'
<1>1. PICK late \in 0 .. Jitter : job' = [job EXCEPT ![q][i] = [at |-> "running", left |-> Sleep[i] + late]]
  BY DEF queryBook
<1>2. /\ query' = query /\ elapsed' = elapsed /\ caller' = caller /\ limit' = limit
      /\ ret' = ret /\ answer' = answer /\ duration' = duration
  BY DEF queryBook
<1>3. /\ shortest \in Nat /\ longest \in Nat /\ 1 <= shortest /\ shortest <= longest
      /\ AUTHOR_NAME \in authors /\ AUTHOR_NAME >= 2 /\ AUTHOR_NAME \in Nat
      /\ \A j \in authors : j \in Nat /\ Sleep[j] \in Nat /\ shortest <= Sleep[j] /\ Sleep[j] + Jitter <= longest
      /\ Jitter \in Nat /\ Workers \in Nat
  BY SMTT(20), TimesAre, AuthorsAre
<1>4. PICK L \in Nat : L = Sleep[i] + late
  BY <1>3
<1>5. L \in 0 .. longest /\ shortest <= L /\ 1 <= L /\ L <= Sleep[i] + Jitter
  BY <1>3, <1>4
<1>6. job \in [Queries -> [authors -> [at : {"none", "queued", "running", "done"}, left : 0 .. longest]]]
  BY DEF BookInv, BookTypes
<1>7. job' = [job EXCEPT ![q][i] = [at |-> "running", left |-> L]]
  BY <1>1, <1>4
<1>8. /\ job'[q][i] = [at |-> "running", left |-> L]
      /\ \A p \in Queries, j \in authors : ~(p = q /\ j = i) => job'[p][j] = job[p][j]
  BY <1>6, <1>7
<1>9. ThreadFor(q, i)
  BY DEF queryBook
<1>10. BookTypes(longest)'
  <2>1. [at |-> "running", left |-> L] \in [at : {"none", "queued", "running", "done"}, left : 0 .. longest]
    BY <1>5
  <2>2. job' \in [Queries -> [authors -> [at : {"none", "queued", "running", "done"}, left : 0 .. longest]]]
    BY <1>6, <1>7, <2>1
  <2>3. QED
    BY <1>2, <2>2 DEF BookInv, BookTypes, Queries, authors
<1>11. InTurn(shortest)'
  <2>1. SUFFICES ASSUME query = "sequential" PROVE InTurn(shortest)'
    BY <1>2 DEF InTurn
  <2>2. CASE q = "sequential"
    <3>1. caller = i /\ job["sequential"][i].at = "none"
      BY <1>9, <2>2 DEF ThreadFor
    <3>2. job'["sequential"][i].at = "running" /\ job'["sequential"][i].left = L
          /\ \A j \in authors : j # i => job'["sequential"][j] = job["sequential"][j]
      BY <1>8, <2>2
    <3>3. elapsed \in Nat
      BY DEF BookInv, BookTypes
    <3>4. caller <= AUTHOR_NAME /\ (caller >= 2 => elapsed >= shortest) /\ caller \in Nat
          /\ \A j \in authors : j > caller => job["sequential"][j].at = "none"
      BY <1>3, <2>1, <3>1 DEF InTurn, BookInv
    <3>5. \A j \in authors : j > caller => job'["sequential"][j].at = "none"
      <4>1. SUFFICES ASSUME NEW j \in authors, j > caller PROVE job'["sequential"][j].at = "none"
        OBVIOUS
      <4>2. j # i /\ job["sequential"][j].at = "none"
        BY <3>1, <3>4, <4>1
      <4>3. QED
        BY <3>2, <4>2
    <3>6. elapsed + L >= IF caller = 1 THEN shortest ELSE 2 * shortest
      BY SMTT(20), <1>3, <1>5, <3>1, <3>3, <3>4, AuthorsAre
    <3>7. QED
      BY <1>2, <3>1, <3>2, <3>4, <3>5, <3>6 DEF InTurn, authors
  <2>3. CASE q # "sequential"
    <3>1. \A j \in authors : job'["sequential"][j] = job["sequential"][j]
      BY <1>8, <2>3 DEF Queries
    <3>2. caller >= 1 => caller \in authors
      BY AuthorsAre DEF BookInv, BookTypes
    <3>3. QED
      BY <1>2, <2>1, <3>1, <3>2 DEF InTurn, BookInv, authors
  <2>4. QED
    BY <2>2, <2>3
<1>12. InPool(longest)'
  <2>1. SUFFICES ASSUME query = "concurrent" PROVE InPool(longest)'
    BY <1>2 DEF InPool
  <2>2. caller \in Nat /\ (caller >= 1 => caller \in authors) /\ elapsed \in Nat /\ limit \in Nat
    BY AuthorsAre DEF BookInv, BookTypes
  <2>3. CASE q = "concurrent"
    <3>1. job["concurrent"][i].at = "queued" /\ i = Min(Jobs("concurrent", "queued"))
      BY <1>9, <2>3 DEF ThreadFor
    <3>2. \A j \in Jobs("concurrent", "queued") : i <= j
      BY <3>1, FirstAuthor DEF Jobs
    <3>3. /\ job'["concurrent"][i].at = "running" /\ job'["concurrent"][i].left = L
          /\ \A j \in authors : j # i => job'["concurrent"][j] = job["concurrent"][j]
      BY <1>8, <2>3
    <3>4. \A j, k \in authors : caller >= 1 /\ j < k /\ job'["concurrent"][j].at = "queued" => job'["concurrent"][k].at = "queued"
      <4>1. SUFFICES ASSUME NEW j \in authors, NEW k \in authors, caller >= 1, j < k, job'["concurrent"][j].at = "queued"
                     PROVE  job'["concurrent"][k].at = "queued"
        OBVIOUS
      <4>2. j # i /\ job["concurrent"][j].at = "queued"
        BY <3>3, <4>1
      <4>3. job["concurrent"][k].at = "queued" /\ i <= j
        BY <2>1, <3>2, <4>1, <4>2 DEF InPool, BookInv, Jobs
      <4>4. k # i
        BY <4>1, <4>3, <1>3
      <4>5. QED
        BY <3>3, <4>3, <4>4
    <3>5. i <= CorePool /\ caller >= 1 => elapsed = 0
      BY <2>1, <3>1 DEF InPool, BookInv
    <3>6. caller = AUTHOR_NAME => caller # i
      <4>1. AUTHOR_NAME <= CorePool
        BY TimesAre
      <4>2. QED
        BY <1>3, <2>1, <2>2, <3>5, <4>1 DEF InPool, BookInv
    <3>7. \A j \in authors : j <= CorePool /\ caller >= 1 =>
              /\ job'["concurrent"][j].at = "queued" => elapsed = 0
              /\ job'["concurrent"][j].at = "running" =>
                   elapsed + job'["concurrent"][j].left \in 1 .. (Sleep[j] + Jitter)
              /\ job'["concurrent"][j].at = "done" => elapsed >= 1
      <4>1. SUFFICES ASSUME NEW j \in authors, j <= CorePool, caller >= 1
                     PROVE  /\ job'["concurrent"][j].at = "queued" => elapsed = 0
                            /\ job'["concurrent"][j].at = "running" =>
                                 elapsed + job'["concurrent"][j].left \in 1 .. (Sleep[j] + Jitter)
                            /\ job'["concurrent"][j].at = "done" => elapsed >= 1
        OBVIOUS
      <4>2. CASE j = i
        BY SMTT(20), <1>3, <1>5, <3>3, <3>5, <4>1, <4>2
      <4>3. CASE j # i
        BY <2>1, <3>3, <4>1, <4>3 DEF InPool, BookInv
      <4>4. QED
        BY <4>2, <4>3
    <3>8. \A j \in authors : caller >= 1 => job'["concurrent"][j].at # "none"
      BY <2>1, <3>3 DEF InPool, BookInv
    <3>9. caller = AUTHOR_NAME /\ job'["concurrent"][caller].at = "running" => job'["concurrent"][caller].left < limit
      BY <1>3, <2>1, <2>2, <3>3, <3>6 DEF InPool, BookInv
    <3>10. QED
      BY <1>2, <2>1, <3>4, <3>7, <3>8, <3>9 DEF InPool, BookInv, authors
  <2>4. CASE q # "concurrent"
    <3>1. \A j \in authors : job'["concurrent"][j] = job["concurrent"][j]
      BY <1>8, <2>4 DEF Queries
    <3>2. QED
      BY <1>2, <1>3, <2>1, <2>2, <3>1 DEF InPool, BookInv, authors
  <2>5. QED
    BY <2>3, <2>4
<1>13. InStream(shortest)'
  <2>1. SUFFICES ASSUME query = "parallel", caller >= 1 PROVE InStream(shortest)'
    BY <1>2, AuthorsAre DEF InStream, BookInv, BookTypes
  <2>2. elapsed \in Nat /\ \A j \in authors : job["parallel"][j].left \in Nat
    BY <1>6 DEF BookInv, BookTypes, Queries
  <2>3. CASE q = "parallel"
    <3>1. /\ job'["parallel"][i].at = "running" /\ job'["parallel"][i].left = L
          /\ \A j \in authors : j # i => job'["parallel"][j] = job["parallel"][j]
      BY <1>8, <2>3
    <3>2. job["parallel"][i].at = "queued" /\ Cardinality(Jobs("parallel", "running")) < Workers
      BY <1>9, <2>3 DEF ThreadFor
    <3>3. \A j \in authors :
              /\ job'["parallel"][j].at # "none"
              /\ job'["parallel"][j].at = "running" => elapsed + job'["parallel"][j].left >= shortest
              /\ job'["parallel"][j].at = "done" => elapsed >= shortest
      <4>1. SUFFICES ASSUME NEW j \in authors
                     PROVE  /\ job'["parallel"][j].at # "none"
                            /\ job'["parallel"][j].at = "running" => elapsed + job'["parallel"][j].left >= shortest
                            /\ job'["parallel"][j].at = "done" => elapsed >= shortest
        OBVIOUS
      <4>2. CASE j = i
        BY SMTT(20), <1>3, <1>5, <2>2, <3>1, <4>2
      <4>3. CASE j # i
        BY <2>1, <3>1, <4>3 DEF InStream, BookInv
      <4>4. QED
        BY <4>2, <4>3
    <3>4. ASSUME elapsed >= shortest PROVE TakesTwo(shortest)'
      <4>1. elapsed + job'["parallel"][i].left >= 2 * shortest
        BY <1>3, <1>5, <2>2, <3>1, <3>4
      <4>2. QED
        BY <1>2, <3>1, <4>1 DEF TakesTwo, authors
    <3>5. ASSUME ~(elapsed >= shortest), ~(Workers >= Len(Sleep)) PROVE TakesTwo(shortest)'
      <4>1. \A j \in authors : job["parallel"][j].at \in {"queued", "running"}
        BY <1>6, <2>1, <3>5 DEF InStream, BookInv, Queries
      <4>2. \E j \in authors : j # i /\ job["parallel"][j].at = "queued"
        <5>1. SUFFICES ASSUME \A j \in authors : j # i => job["parallel"][j].at = "running" PROVE FALSE
          BY <4>1
        <5>2. authors \subseteq Jobs("parallel", "running") \cup {i} /\ i \notin Jobs("parallel", "running")
          BY <3>2, <5>1 DEF Jobs
        <5>3. IsFiniteSet(Jobs("parallel", "running")) /\ Cardinality(Jobs("parallel", "running")) \in Nat
          BY JobsFinite
        <5>4. /\ IsFiniteSet(Jobs("parallel", "running") \cup {i})
              /\ Cardinality(Jobs("parallel", "running") \cup {i}) = Cardinality(Jobs("parallel", "running")) + 1
          BY <5>2, <5>3, FS_AddElement
        <5>5. Cardinality(authors) <= Cardinality(Jobs("parallel", "running") \cup {i})
          BY <5>2, <5>4, FS_Subset
        <5>6. Cardinality(authors) = Len(Sleep) /\ Len(Sleep) \in Nat
          <6>1. PICK n \in Nat : n = Len(Sleep)
            BY AuthorsAre
          <6>2. Cardinality(1 .. n) = IF 1 > n THEN 0 ELSE n - 1 + 1
            BY FS_Interval
          <6>3. Cardinality(1 .. n) = n
            BY <6>2
          <6>4. QED
            BY <6>1, <6>3, AuthorsAre
        <5>7. QED
          BY <1>3, <3>2, <3>5, <5>3, <5>4, <5>5, <5>6
      <4>3. PICK j \in authors : j # i /\ job["parallel"][j].at = "queued"
        BY <4>2
      <4>4. job'["parallel"][j].at = "queued"
        BY <3>1, <4>3
      <4>5. QED
        BY <4>4 DEF TakesTwo, authors
    <3>6. TakesTwo(shortest)'
      <4>1. CASE Workers >= Len(Sleep)
        BY <4>1 DEF TakesTwo
      <4>2. QED
        BY <3>4, <3>5, <4>1
    <3>7. QED
      BY <1>2, <2>1, <3>3, <3>6 DEF InStream, authors
  <2>4. CASE q # "parallel"
    <3>1. \A j \in authors : job'["parallel"][j] = job["parallel"][j]
      BY <1>8, <2>4 DEF Queries
    <3>2. QED
      BY <1>2, <2>1, <3>1 DEF InStream, TakesTwo, BookInv, authors
  <2>5. QED
    BY <2>3, <2>4
<1>14. Draining(longest)'
  <2>1. elapsed \in Nat /\ \A j \in authors : job["concurrent"][j].left \in Nat
    BY <1>6 DEF BookInv, BookTypes, Queries
  <2>2. Load(longest) \in Nat /\ Len(Sleep) * longest \in Nat
    BY <1>3, JobsFinite, LoadIs DEF Load
  <2>3. CASE q = "concurrent"
    <3>1. i \in Jobs("concurrent", "queued")
      BY <1>9, <2>3 DEF ThreadFor, Jobs
    <3>2. query # "end"
      BY <3>1 DEF BookInv, Draining, PoolIdle
    <3>3. /\ Jobs("concurrent", "queued")' = Jobs("concurrent", "queued") \ {i}
          /\ Jobs("concurrent", "running")' = Jobs("concurrent", "running") \cup {i}
      <4>1. \A at : Jobs("concurrent", at)' = {j \in authors : job'["concurrent"][j].at = at}
        BY DEF Jobs, authors
      <4>2. /\ job'["concurrent"][i].at = "running"
            /\ \A j \in authors : j # i => job'["concurrent"][j] = job["concurrent"][j]
        BY <1>8, <2>3
      <4>3. QED
        BY <3>1, <4>1, <4>2 DEF Jobs
    <3>4. Load(longest)' + longest = Load(longest) /\ Load(longest)' \in Nat
      <4>1. Jobs("concurrent", "queued") \in SUBSET authors /\ Jobs("concurrent", "queued") \ {i} \in SUBSET authors
        BY JobsFinite
      <4>2. Cardinality(Jobs("concurrent", "queued") \ {i}) * longest + longest = Cardinality(Jobs("concurrent", "queued")) * longest
        BY <1>3, <3>1, <4>1, LoadIs
      <4>3. Cardinality(Jobs("concurrent", "queued") \ {i}) * longest \in Nat
        BY <1>3, <4>1, LoadIs
      <4>4. Load(longest)' = Cardinality(Jobs("concurrent", "queued") \ {i}) * longest
        BY <3>3 DEF Load
      <4>5. QED
        BY <4>2, <4>3, <4>4 DEF Load
    <3>5. ASSUME query = "clean" PROVE elapsed + Load(longest)' <= Len(Sleep) * longest
      BY SMTT(20), <1>3, <2>1, <2>2, <3>4, <3>5 DEF BookInv, Draining
    <3>6. ASSUME query = "clean", NEW j \in Jobs("concurrent", "running")'
          PROVE  elapsed + Load(longest)' + job'["concurrent"][j].left <= Len(Sleep) * longest
      <4>1. CASE j = i
        <5>1. job'["concurrent"][j].left = L
          BY <1>8, <2>3, <4>1
        <5>2. elapsed + Load(longest) <= Len(Sleep) * longest
          BY <3>6 DEF BookInv, Draining
        <5>3. L <= longest /\ L \in Nat /\ longest \in Nat
          BY <1>3, <1>5
        <5>4. PICK m \in Nat : m = Len(Sleep) * longest
          BY <2>2
        <5>5. elapsed \in Nat /\ elapsed + Load(longest) <= m
          BY <2>1, <5>2, <5>4
        <5>6. elapsed + Load(longest)' + L <= m
          BY <2>2, <3>4, <5>3, <5>5
        <5>7. QED
          BY <5>1, <5>4, <5>6, Zenon
      <4>2. CASE j # i
        <5>1. j \in Jobs("concurrent", "running") /\ j \in authors
          BY <3>3, <4>2 DEF Jobs
        <5>2. job'["concurrent"][j] = job["concurrent"][j]
          BY <1>8, <2>3, <4>2, <5>1
        <5>3. elapsed + Load(longest) + job["concurrent"][j].left <= Len(Sleep) * longest
          BY <3>6, <5>1 DEF BookInv, Draining
        <5>4. PICK m \in Nat : m = Len(Sleep) * longest
          BY <2>2
        <5>5. PICK k \in Nat : k = job["concurrent"][j].left
          BY <2>1, <5>1
        <5>6. elapsed + Load(longest)' + k <= m
          <6>1. elapsed + Load(longest) + k <= m
            BY <5>3, <5>4, <5>5, Zenon
          <6>2. elapsed \in Nat /\ longest \in Nat
            BY <1>3, <2>1
          <6>3. QED
            BY <2>2, <3>4, <6>1, <6>2
        <5>7. QED
          BY <5>2, <5>4, <5>5, <5>6, Zenon
      <4>3. QED
        BY <4>1, <4>2
    <3>7. QED
      BY <1>2, <3>2, <3>5, <3>6 DEF Draining
  <2>4. CASE q # "concurrent"
    <3>1. \A at : Jobs("concurrent", at)' = Jobs("concurrent", at)
      <4>1. BookTypes(longest)
        BY DEF BookInv
      <4>2. QED
        BY <1>7, <2>4, <4>1, JobsMoved DEF Queries
    <3>2. \A j \in authors : job'["concurrent"][j] = job["concurrent"][j]
      BY <1>8, <2>4 DEF Queries
    <3>3. Load(longest)' = Load(longest)
      BY <3>1 DEF Load
    <3>4. PoolIdle' = PoolIdle
      BY <3>1 DEF PoolIdle
    <3>5. \A j \in Jobs("concurrent", "running") : j \in authors
      BY DEF Jobs
    <3>6. QED
      BY <1>2, <3>1, <3>2, <3>3, <3>4, <3>5 DEF BookInv, Draining
  <2>5. QED
    BY <2>3, <2>4
<1>15. AnswersAreExpected' /\ Timed(longest)'
  BY <1>2 DEF AnswersAreExpected, Timed, Returned, BookInv, Queries
<1>16. Unasked'
  <2>1. q = "parallel" => job["parallel"][i].at = "queued"
    BY <1>9 DEF ThreadFor
  <2>2. q # "parallel" => \A j \in authors : job'["parallel"][j] = job["parallel"][j]
    BY <1>8 DEF Queries
  <2>3. QED
    BY <1>2, <2>1, <2>2 DEF Unasked, BookInv, authors
<1>17. QED
  BY <1>10, <1>11, <1>12, <1>13, <1>14, <1>15, <1>16 DEF BookInv

\* A thread wakes up: by then the call has taken its time.
LEMMA BookWakes ==
  ASSUME NEW shortest, NEW longest, Paced(shortest, longest), BookInv(shortest, longest),
         NEW q \in Queries, NEW i \in authors, Wake(q, i)
  PROVE  BookInv(shortest, longest)'
<1>1. /\ query' = query /\ elapsed' = elapsed /\ caller' = caller /\ limit' = limit
      /\ ret' = ret /\ answer' = answer /\ duration' = duration
  BY DEF Wake
<1>2. shortest \in Nat /\ longest \in Nat /\ elapsed \in Nat
  BY TimesAre DEF BookInv, BookTypes
<1>3. job \in [Queries -> [authors -> [at : {"none", "queued", "running", "done"}, left : 0 .. longest]]]
  BY DEF BookInv, BookTypes
<1>4. job' = [job EXCEPT ![q][i] = [at |-> "done", left |-> 0]]
  BY DEF Wake, Job
<1>5. /\ job'[q][i] = [at |-> "done", left |-> 0]
      /\ \A p \in Queries, j \in authors : ~(p = q /\ j = i) => job'[p][j] = job[p][j]
  BY <1>3, <1>4
<1>6. job[q][i].at = "running" /\ job[q][i].left = 0
  BY DEF Wake, Due
<1>7. BookTypes(longest)'
  <2>1. [at |-> "done", left |-> 0] \in [at : {"none", "queued", "running", "done"}, left : 0 .. longest]
    BY <1>2
  <2>2. job' \in [Queries -> [authors -> [at : {"none", "queued", "running", "done"}, left : 0 .. longest]]]
    BY <1>3, <1>4, <2>1
  <2>3. QED
    BY <1>1, <2>2 DEF BookInv, BookTypes, Queries, authors
<1>8. InTurn(shortest)'
  <2>1. SUFFICES ASSUME query = "sequential" PROVE InTurn(shortest)'
    BY <1>1 DEF InTurn
  <2>2. caller >= 1 => caller \in authors
    BY AuthorsAre DEF BookInv, BookTypes
  <2>3. CASE q = "sequential" /\ i = caller
    <3>1. /\ job'["sequential"][i].at = "done"
          /\ \A j \in authors : j # i => job'["sequential"][j] = job["sequential"][j]
      BY <1>5, <2>3
    <3>2. caller >= 1 /\ \A j \in authors : j > caller => j # i
      BY <2>3, AuthorsAre
    <3>3. elapsed + 0 >= IF caller = 1 THEN shortest ELSE 2 * shortest
      BY <1>6, <2>1, <2>3, <3>2 DEF InTurn, BookInv
    <3>4. QED
      BY <1>1, <1>2, <2>1, <2>3, <3>1, <3>2, <3>3 DEF InTurn, BookInv, authors
  <2>4. CASE q = "sequential" /\ i # caller
    <3>1. ~(i > caller)
      BY <1>6, <2>1, <2>4 DEF InTurn, BookInv
    <3>2. \A j \in authors : j >= caller => job'["sequential"][j] = job["sequential"][j]
      <4>1. SUFFICES ASSUME NEW j \in authors, j >= caller, j = i PROVE FALSE
        BY <1>5, <2>4
      <4>2. QED
        BY <2>4, <3>1, <4>1, AuthorsAre DEF BookInv, BookTypes
    <3>3. /\ \A j \in authors : j > caller => job'["sequential"][j] = job["sequential"][j]
          /\ caller >= 1 => job'["sequential"][caller] = job["sequential"][caller]
      BY <2>2, <3>2, AuthorsAre DEF BookInv, BookTypes
    <3>4. QED
      BY <1>1, <2>1, <2>2, <3>3 DEF InTurn, BookInv, authors
  <2>5. CASE q # "sequential"
    <3>1. \A j \in authors : job'["sequential"][j] = job["sequential"][j]
      BY <1>5, <2>5 DEF Queries
    <3>2. QED
      BY <1>1, <2>1, <2>2, <3>1 DEF InTurn, BookInv, authors
  <2>6. QED
    BY <2>3, <2>4, <2>5
<1>9. InPool(longest)'
  <2>1. SUFFICES ASSUME query = "concurrent" PROVE InPool(longest)'
    BY <1>1 DEF InPool
  <2>2. caller \in Nat /\ (caller >= 1 => caller \in authors)
    BY AuthorsAre DEF BookInv, BookTypes
  <2>3. CASE q = "concurrent"
    <3>1. /\ job'["concurrent"][i].at = "done"
          /\ \A j \in authors : j # i => job'["concurrent"][j] = job["concurrent"][j]
      BY <1>5, <2>3
    <3>2. i <= CorePool /\ caller >= 1 => elapsed >= 1
      BY <1>2, <1>6, <2>1, <2>3 DEF InPool, BookInv
    <3>3. \A j \in authors : job'["concurrent"][j].at = "queued" <=> job["concurrent"][j].at = "queued"
      BY <1>6, <2>3, <3>1
    <3>4. \A j \in authors : j <= CorePool /\ caller >= 1 =>
              /\ job'["concurrent"][j].at = "queued" => elapsed = 0
              /\ job'["concurrent"][j].at = "running" =>
                   elapsed + job'["concurrent"][j].left \in 1 .. (Sleep[j] + Jitter)
              /\ job'["concurrent"][j].at = "done" => elapsed >= 1
      <4>1. SUFFICES ASSUME NEW j \in authors, j <= CorePool, caller >= 1
                     PROVE  /\ job'["concurrent"][j].at = "queued" => elapsed = 0
                            /\ job'["concurrent"][j].at = "running" =>
                                 elapsed + job'["concurrent"][j].left \in 1 .. (Sleep[j] + Jitter)
                            /\ job'["concurrent"][j].at = "done" => elapsed >= 1
        OBVIOUS
      <4>2. CASE j = i
        BY <3>1, <3>2, <4>1, <4>2
      <4>3. CASE j # i
        BY <2>1, <3>1, <4>1, <4>3 DEF InPool, BookInv
      <4>4. QED
        BY <4>2, <4>3
    <3>5. \A j \in authors : caller >= 1 => job'["concurrent"][j].at # "none"
      BY <2>1, <3>1 DEF InPool, BookInv
    <3>6. caller >= 1 /\ job'["concurrent"][caller].at = "running" => job'["concurrent"][caller] = job["concurrent"][caller]
      BY <2>2, <3>1
    <3>7. AUTHOR_NAME >= 1
      BY TimesAre, AuthorsAre, BooksAssumption
    <3>8. QED
      BY <1>1, <2>1, <2>2, <3>3, <3>4, <3>5, <3>6, <3>7 DEF InPool, BookInv, authors
  <2>4. CASE q # "concurrent"
    <3>1. \A j \in authors : job'["concurrent"][j] = job["concurrent"][j]
      BY <1>5, <2>4 DEF Queries
    <3>2. AUTHOR_NAME >= 1
      BY TimesAre, AuthorsAre, BooksAssumption
    <3>3. QED
      BY <1>1, <2>1, <2>2, <3>1, <3>2 DEF InPool, BookInv, authors
  <2>5. QED
    BY <2>3, <2>4
<1>10. InStream(shortest)'
  <2>1. SUFFICES ASSUME query = "parallel", caller >= 1 PROVE InStream(shortest)'
    BY <1>1, AuthorsAre DEF InStream, BookInv, BookTypes
  <2>2. CASE q = "parallel"
    <3>1. /\ job'["parallel"][i].at = "done"
          /\ \A j \in authors : j # i => job'["parallel"][j] = job["parallel"][j]
      BY <1>5, <2>2
    <3>2. elapsed + 0 >= shortest
      BY <1>6, <2>1, <2>2 DEF InStream, BookInv
    <3>3. \A j \in authors :
              /\ job'["parallel"][j].at # "none"
              /\ job'["parallel"][j].at = "running" => elapsed + job'["parallel"][j].left >= shortest
              /\ job'["parallel"][j].at = "done" => elapsed >= shortest
      BY <1>2, <2>1, <3>1, <3>2 DEF InStream, BookInv
    <3>4. CASE elapsed >= 2 * shortest \/ Workers >= Len(Sleep)
      BY <1>1, <2>1, <3>3, <3>4 DEF InStream, TakesTwo, authors
    <3>5. CASE ~(elapsed >= 2 * shortest \/ Workers >= Len(Sleep))
      <4>1. PICK j \in authors : \/ job["parallel"][j].at = "queued"
                                 \/ job["parallel"][j].at = "running" /\ elapsed + job["parallel"][j].left >= 2 * shortest
        BY <2>1, <3>5 DEF InStream, TakesTwo, BookInv
      <4>2. j # i
        BY <1>2, <1>6, <2>2, <3>5, <4>1
      <4>3. job'["parallel"][j] = job["parallel"][j]
        BY <3>1, <4>2
      <4>4. TakesTwo(shortest)'
        BY <1>1, <4>1, <4>3 DEF TakesTwo, authors
      <4>5. QED
        BY <1>1, <2>1, <3>3, <4>4 DEF InStream, authors
    <3>6. QED
      BY <3>4, <3>5
  <2>3. CASE q # "parallel"
    <3>1. \A j \in authors : job'["parallel"][j] = job["parallel"][j]
      BY <1>5, <2>3 DEF Queries
    <3>2. QED
      BY <1>1, <2>1, <3>1 DEF InStream, TakesTwo, BookInv, authors
  <2>4. QED
    BY <2>2, <2>3
<1>11. Draining(longest)'
  <2>1. /\ Jobs("concurrent", "queued")' = Jobs("concurrent", "queued")
        /\ Jobs("concurrent", "running")' \subseteq Jobs("concurrent", "running")
        /\ \A j \in Jobs("concurrent", "running")' : job'["concurrent"][j] = job["concurrent"][j]
    <3>1. \A at : Jobs("concurrent", at)' = {j \in authors : job'["concurrent"][j].at = at}
      BY DEF Jobs, authors
    <3>2. CASE q = "concurrent"
      <4>1. /\ job'["concurrent"][i].at = "done" /\ job["concurrent"][i].at = "running"
            /\ \A j \in authors : j # i => job'["concurrent"][j] = job["concurrent"][j]
        BY <1>5, <1>6, <3>2
      <4>2. QED
        BY <3>1, <4>1 DEF Jobs
    <3>3. CASE q # "concurrent"
      <4>1. \A j \in authors : job'["concurrent"][j] = job["concurrent"][j]
        BY <1>5, <3>3 DEF Queries
      <4>2. QED
        BY <3>1, <4>1 DEF Jobs
    <3>4. QED
      BY <3>2, <3>3
  <2>2. Load(longest)' = Load(longest)
    BY <2>1 DEF Load
  <2>3. PoolIdle => PoolIdle'
    BY <2>1 DEF PoolIdle
  <2>4. QED
    BY <1>1, <2>1, <2>2, <2>3 DEF BookInv, Draining
<1>12. AnswersAreExpected' /\ Timed(longest)'
  BY <1>1 DEF AnswersAreExpected, Timed, Returned, BookInv, Queries
<1>13. Unasked'
  <2>1. q # "parallel" => \A j \in authors : job'["parallel"][j] = job["parallel"][j]
    BY <1>5 DEF Queries
  <2>2. QED
    BY <1>1, <1>6, <2>1 DEF Unasked, BookInv, authors
<1>14. QED
  BY <1>7, <1>8, <1>9, <1>10, <1>11, <1>12, <1>13 DEF BookInv

\* A query returns the wanted author after its time, and the next begins.
LEMMA BookReturns ==
  ASSUME NEW shortest, NEW longest, Paced(shortest, longest), BookInv(shortest, longest),
         query \in Queries, Return(AUTHOR_NAME), ret' \in Int,
         query = "concurrent" => elapsed <= longest,
         query # "concurrent" => elapsed >= 2 * shortest \/ (query = "parallel" /\ Workers >= Len(Sleep))
  PROVE  BookInv(shortest, longest)'
<1>1. /\ answer' = [answer EXCEPT ![query] = AUTHOR_NAME]
      /\ duration' = [duration EXCEPT ![query] = Min({elapsed, MaxDuration})]
      /\ query' = After[query] /\ elapsed' = 0 /\ caller' = 0 /\ limit' = 0 /\ job' = job
  BY DEF Return
<1>2. /\ shortest \in Nat /\ longest \in Nat /\ elapsed \in Nat /\ longest < 2 * shortest /\ longest < MaxDuration
      /\ AUTHOR_NAME \in Int /\ AUTHOR_NAME >= 2 /\ Len(Sleep) \in Nat
  BY TimesAre, AuthorsAre DEF BookInv, BookTypes
<1>3. PICK d : d = Min({elapsed, MaxDuration})
  OBVIOUS
<1>4. d \in Nat /\ (elapsed <= longest => d <= longest) /\ (elapsed > longest => d > longest)
  BY <1>2, <1>3, DurationIs
<1>5. query' \in {"concurrent", "parallel", "clean"} /\ query' # "end"
      /\ (query' = "concurrent" => query = "sequential") /\ (query' = "parallel" => query = "concurrent")
  BY <1>1 DEF After, Queries
<1>6. BookTypes(longest)'
  BY <1>1, <1>2, <1>3, <1>4, <1>5 DEF BookInv, BookTypes, Queries, authors
<1>7. AnswersAreExpected'
  <2>1. \A q \in Queries : q # query => answer'[q] = answer[q] /\ duration'[q] = duration[q]
    BY <1>1 DEF BookInv, BookTypes
  <2>2. answer'[query] = AUTHOR_NAME
    BY <1>1 DEF BookInv, BookTypes
  <2>3. QED
    BY <2>1, <2>2 DEF AnswersAreExpected, Returned, BookInv
<1>8. Timed(longest)'
  <2>1. \A q \in Queries : duration'[q] = IF q = query THEN d ELSE duration[q]
    BY <1>1, <1>3 DEF BookInv, BookTypes
  <2>2. query # "concurrent" => d > longest \/ (query = "parallel" /\ Workers >= Len(Sleep))
    BY <1>2, <1>4
  <2>3. query = "concurrent" => d <= longest
    BY <1>4
  <2>4. QED
    BY <2>1, <2>2, <2>3 DEF Timed, Returned, BookInv, Queries
<1>9. InTurn(shortest)' /\ InStream(shortest)'
  BY <1>1, <1>5 DEF InTurn, InStream
<1>10. InPool(longest)'
  BY <1>1, <1>2, <1>5 DEF InPool
<1>11. Unasked'
  <2>1. \A i \in authors : query' \in {"concurrent", "parallel"} => job["parallel"][i].at = "none"
    BY <1>5 DEF Unasked, BookInv
  <2>2. QED
    BY <1>1, <1>5, <2>1 DEF Unasked, authors
<1>12. Draining(longest)'
  <2>1. Jobs("concurrent", "queued") \in SUBSET authors /\ Jobs("concurrent", "running") \in SUBSET authors
    BY JobsFinite
  <2>2. Load(longest) \in Nat /\ Load(longest) <= Len(Sleep) * longest /\ Len(Sleep) * longest \in Nat
    BY <1>2, <2>1, LoadIs DEF Load
  <2>3. ASSUME NEW i \in Jobs("concurrent", "running")
        PROVE  Load(longest) + job["concurrent"][i].left <= Len(Sleep) * longest
    <3>1. i \in authors \ Jobs("concurrent", "queued")
      BY DEF Jobs
    <3>2. Load(longest) + longest <= Len(Sleep) * longest
      BY <1>2, <2>1, <3>1, LoadIs DEF Load
    <3>3. job["concurrent"][i].left \in Nat /\ job["concurrent"][i].left <= longest
      BY <1>2, <3>1 DEF BookInv, BookTypes, Queries
    <3>4. PICK m \in Nat : m = Len(Sleep) * longest
      BY <2>2, Zenon
    <3>5. PICK q \in Nat : q = Load(longest)
      BY <2>2, Zenon
    <3>6. PICK l \in Nat : l = job["concurrent"][i].left
      BY <3>3, Zenon
    <3>7. q + longest <= m /\ l <= longest /\ longest \in Nat
      BY <1>2, <3>2, <3>3, <3>4, <3>5, <3>6, Zenon
    <3>8. q + l <= m
      BY <3>7
    <3>9. QED
      BY <3>4, <3>5, <3>6, <3>8, Zenon
  <2>4. \A at : Jobs("concurrent", at)' = Jobs("concurrent", at)
    BY <1>1 DEF Jobs, authors
  <2>5. Load(longest)' = Load(longest)
    BY <2>4 DEF Load
  <2>6. 0 + Load(longest) <= Len(Sleep) * longest
    BY <2>2
  <2>7. \A i \in Jobs("concurrent", "running") : job["concurrent"][i].left \in Nat
    BY <1>2 DEF BookInv, BookTypes, Queries, Jobs
  <2>8. \A i \in Jobs("concurrent", "running") : 0 + Load(longest) + job["concurrent"][i].left <= Len(Sleep) * longest
    BY <2>2, <2>3, <2>7
  <2>9. QED
    BY <1>1, <1>5, <2>4, <2>5, <2>6, <2>8 DEF Draining
<1>13. QED
  BY <1>6, <1>7, <1>8, <1>9, <1>10, <1>11, <1>12 DEF BookInv

\* The sequential query returns or asks the next author.
LEMMA BookAsksOn ==
  ASSUME NEW shortest, NEW longest, Paced(shortest, longest), BookInv(shortest, longest), querySequentially
  PROVE  BookInv(shortest, longest)'
<1>1. query = "sequential" /\ caller \in authors /\ job["sequential"][caller].at = "done" /\ ret' = ret
  BY DEF querySequentially, Jobs
<1>2. /\ shortest \in Nat /\ longest \in Nat /\ elapsed \in Nat /\ AUTHOR_NAME \in authors
      /\ AUTHOR_NAME >= 2 /\ AUTHOR_NAME \notin WithoutBook /\ caller <= AUTHOR_NAME
      /\ \A i \in authors : i < AUTHOR_NAME => i \in WithoutBook
      /\ \A i \in authors : i \in Nat /\ i >= 1
  <2>1. caller <= AUTHOR_NAME /\ elapsed \in Nat
    BY <1>1 DEF BookInv, BookTypes, InTurn
  <2>2. \A i \in authors : i \in Nat /\ i >= 1
    BY AuthorsAre
  <2>3. QED
    BY <2>1, <2>2, TimesAre
<1>3. elapsed >= IF caller = 1 THEN shortest ELSE 2 * shortest
  BY <1>1, <1>2 DEF BookInv, InTurn
<1>4. CASE caller \notin WithoutBook
  <2>1. caller = AUTHOR_NAME
    BY <1>1, <1>2, <1>4
  <2>2. Return(AUTHOR_NAME)
    BY <1>4, <2>1 DEF querySequentially
  <2>3. elapsed >= 2 * shortest
    BY <1>2, <1>3, <2>1
  <2>4. query \in Queries /\ ret' \in Int
    BY <1>1 DEF Queries, BookInv, BookTypes
  <2>5. QED
    BY <1>1, <2>2, <2>3, <2>4, BookReturns
<1>5. CASE caller \in WithoutBook
  <2>1. caller < AUTHOR_NAME
    BY <1>1, <1>2, <1>5
  <2>2. caller + 1 \in authors /\ caller + 1 <= AUTHOR_NAME /\ caller + 1 >= 2
    BY <1>1, <1>2, <2>1, AuthorsAre
  <2>3. /\ caller' = caller + 1 /\ limit' = Patience /\ query' = query /\ elapsed' = elapsed /\ job' = job
        /\ answer' = answer /\ duration' = duration
    BY <1>5, <2>2 DEF querySequentially, NextOr
  <2>4. BookTypes(longest)'
    <3>1. caller' \in 0 .. Len(Sleep) /\ limit' \in Nat /\ elapsed' \in Nat /\ ret' \in Int
      BY <1>1, <1>2, <2>2, <2>3, AuthorsAre DEF BookInv, BookTypes
    <3>2. QED
      BY <2>3, <3>1 DEF BookInv, BookTypes, authors
  <2>5. InTurn(shortest)'
    <3>1. elapsed >= shortest
      BY <1>2, <1>3
    <3>2. job["sequential"][caller + 1].at = "none"
      BY <1>1, <1>2, <2>2 DEF BookInv, InTurn
    <3>3. \A i \in authors : i > caller + 1 => job["sequential"][i].at = "none"
      BY <1>1, <1>2 DEF BookInv, InTurn
    <3>4. QED
      BY <2>2, <2>3, <3>1, <3>2, <3>3 DEF InTurn, authors
  <2>6. InPool(longest)' /\ InStream(shortest)' /\ Draining(longest)' /\ Timed(longest)' /\ AnswersAreExpected'
    BY <1>1, <2>3 DEF BookInv, InPool, InStream, Draining, Timed, Returned, AnswersAreExpected
  <2>7. Unasked'
    BY <1>1, <2>3 DEF BookInv, Unasked, authors
  <2>8. QED
    BY <2>4, <2>5, <2>6, <2>7 DEF BookInv
<1>6. QED
  BY <1>4, <1>5

\* The next get() begins when the pool has worked for a while, so that the
\* wanted book is less than one limit away.
LEMMA NextGet ==
  ASSUME NEW shortest, NEW longest, Paced(shortest, longest), BookInv(shortest, longest),
         query = "concurrent", caller \in authors, caller < AUTHOR_NAME, elapsed >= 1,
         NEW v, NextOr(v), ret' \in Int
  PROVE  BookInv(shortest, longest)'
<1>1. /\ shortest \in Nat /\ longest \in Nat /\ elapsed \in Nat /\ AUTHOR_NAME \in authors
      /\ AUTHOR_NAME >= 2 /\ AUTHOR_NAME <= CorePool /\ Sleep[AUTHOR_NAME] + Jitter <= Patience
  BY TimesAre DEF BookInv, BookTypes
<1>2. /\ caller \in Nat /\ AUTHOR_NAME \in Nat /\ CorePool \in Nat /\ Patience \in Nat /\ Jitter \in Nat
      /\ Sleep[AUTHOR_NAME] \in Nat /\ caller >= 1
  BY <1>1, AuthorsAre
<1>3. caller + 1 \in authors /\ caller + 1 <= AUTHOR_NAME /\ caller + 1 >= 2
  BY <1>1, <1>2, AuthorsAre
<1>4. /\ caller' = caller + 1 /\ limit' = Patience /\ query' = query /\ elapsed' = elapsed /\ job' = job
      /\ answer' = answer /\ duration' = duration
  BY <1>3 DEF NextOr
<1>5. BookTypes(longest)'
  <2>1. caller' \in 0 .. Len(Sleep) /\ limit' \in Nat
    BY <1>2, <1>3, <1>4, AuthorsAre
  <2>2. QED
    BY <1>4, <2>1 DEF BookInv, BookTypes, authors
<1>6. InPool(longest)'
  <2>1. caller + 1 = AUTHOR_NAME /\ job["concurrent"][AUTHOR_NAME].at = "running" => job["concurrent"][AUTHOR_NAME].left < Patience
    <3>1. job["concurrent"][AUTHOR_NAME].at = "running" =>
            elapsed + job["concurrent"][AUTHOR_NAME].left \in 1 .. (Sleep[AUTHOR_NAME] + Jitter)
      BY <1>1, <1>2 DEF BookInv, InPool
    <3>2. job["concurrent"][AUTHOR_NAME].left \in Nat
      BY <1>1 DEF BookInv, BookTypes, Queries
    <3>3. QED
      BY <1>1, <1>2, <3>1, <3>2
  <2>2. elapsed <= longest /\ caller + 1 # 0 /\ caller + 1 # 1
    BY <1>2 DEF BookInv, InPool
  <2>3. /\ \A i \in authors : job["concurrent"][i].at # "none"
        /\ \A i, j \in authors : i < j /\ job["concurrent"][i].at = "queued" => job["concurrent"][j].at = "queued"
        /\ \A i \in authors : i <= CorePool =>
              /\ job["concurrent"][i].at = "queued" => elapsed = 0
              /\ job["concurrent"][i].at = "running" =>
                   elapsed + job["concurrent"][i].left \in 1 .. (Sleep[i] + Jitter)
              /\ job["concurrent"][i].at = "done" => elapsed >= 1
    BY <1>2 DEF BookInv, InPool
  <2>4. QED
    BY <1>3, <1>4, <2>1, <2>2, <2>3 DEF InPool, authors
<1>7. /\ InTurn(shortest)' /\ InStream(shortest)' /\ Draining(longest)' /\ Timed(longest)' /\ AnswersAreExpected'
  BY <1>4 DEF BookInv, InTurn, InStream, Draining, Timed, Returned, AnswersAreExpected
<1>8. Unasked'
  BY <1>4 DEF BookInv, Unasked, authors
<1>9. QED
  BY <1>5, <1>6, <1>7, <1>8 DEF BookInv

\* A get() returns: with the wanted author, or with null before it.
LEMMA BookGets ==
  ASSUME NEW shortest, NEW longest, Paced(shortest, longest), BookInv(shortest, longest), GetReturns
  PROVE  BookInv(shortest, longest)'
<1>1. query = "concurrent" /\ caller \in authors /\ job["concurrent"][caller].at = "done"
  BY DEF GetReturns, Jobs
<1>2. /\ caller \in Nat /\ caller >= 1 /\ CorePool \in Nat
      /\ \A i \in authors : i \in Int
  BY <1>1, AuthorsAre
<1>3. /\ AUTHOR_NAME \in authors /\ AUTHOR_NAME <= CorePool /\ AUTHOR_NAME \notin WithoutBook
      /\ \A i \in authors : i < AUTHOR_NAME => i \in WithoutBook
  BY TimesAre
<1>4. caller <= AUTHOR_NAME /\ elapsed <= longest
  BY <1>1 DEF BookInv, InPool
<1>5. caller <= CorePool /\ AUTHOR_NAME \in Int
  BY <1>2, <1>3, <1>4
<1>6. elapsed >= 1
  BY <1>1, <1>2, <1>5 DEF BookInv, InPool
<1>7. CASE caller \notin WithoutBook
  <2>1. caller = AUTHOR_NAME
    BY <1>1, <1>2, <1>3, <1>4, <1>5, <1>7
  <2>2. Return(AUTHOR_NAME) /\ ret' \in Int
    BY <1>5, <1>7, <2>1 DEF GetReturns
  <2>3. query \in Queries
    BY <1>1 DEF Queries
  <2>4. QED
    BY <1>1, <1>4, <2>2, <2>3, BookReturns
<1>8. CASE caller \in WithoutBook
  <2>1. caller < AUTHOR_NAME
    BY <1>2, <1>3, <1>4, <1>5, <1>8
  <2>2. NextOr(empty) /\ ret' \in Int
    BY <1>8 DEF GetReturns, empty
  <2>3. QED
    BY <1>1, <1>6, <2>1, <2>2, NextGet
<1>9. QED
  BY <1>7, <1>8

\* A get() times out, never that of the wanted author.
LEMMA BookTimesOut ==
  ASSUME NEW shortest, NEW longest, Paced(shortest, longest), BookInv(shortest, longest), GetTimesOut
  PROVE  BookInv(shortest, longest)'
<1>1. query = "concurrent" /\ caller \in authors /\ job["concurrent"][caller].at # "done" /\ limit = 0
  BY DEF GetTimesOut, Expired, Jobs
<1>2. /\ caller \in Nat /\ caller >= 1 /\ CorePool \in Nat /\ Patience \in Nat
  BY <1>1, AuthorsAre
<1>3. AUTHOR_NAME \in authors /\ AUTHOR_NAME \in Nat /\ AUTHOR_NAME >= 2 /\ AUTHOR_NAME <= CorePool /\ 1 <= Patience
      /\ elapsed \in Nat /\ longest \in Nat
  BY TimesAre, AuthorsAre DEF BookInv, BookTypes
<1>4. caller <= AUTHOR_NAME
  BY <1>1 DEF BookInv, InPool
<1>5. elapsed >= 1
  <2>1. caller = 1 => limit + elapsed = Patience
    BY <1>1 DEF BookInv, InPool
  <2>2. caller >= 2 => elapsed >= 1
    BY <1>1 DEF BookInv, InPool
  <2>3. QED
    BY <1>1, <1>2, <1>3, <2>1, <2>2
<1>6. caller # AUTHOR_NAME
  <2>1. SUFFICES ASSUME caller = AUTHOR_NAME PROVE FALSE
    OBVIOUS
  <2>2. job["concurrent"][caller].at \in {"none", "queued", "running", "done"} /\ job["concurrent"][caller].left \in Nat
    BY SMTT(20), <1>1, <1>3 DEF BookInv, BookTypes, Queries
  <2>3. job["concurrent"][caller].at # "none"
    BY <1>1, <1>2 DEF BookInv, InPool
  <2>4. job["concurrent"][caller].at # "queued"
    BY <1>1, <1>2, <1>3, <1>5, <2>1 DEF BookInv, InPool
  <2>5. job["concurrent"][caller].at = "running" => job["concurrent"][caller].left < 0
    BY <1>1, <1>2, <2>1 DEF BookInv, InPool
  <2>6. QED
    BY <1>1, <2>2, <2>3, <2>4, <2>5
<1>7. NextOr(ret) /\ ret' \in Int
  BY DEF GetTimesOut, BookInv, BookTypes
<1>8. caller < AUTHOR_NAME
  BY <1>2, <1>3, <1>4, <1>6
<1>9. QED
  BY <1>1, <1>5, <1>7, <1>8, NextGet

\* The stream returns when all are done, which takes as long as two calls.
LEMMA BookCollects ==
  ASSUME NEW shortest, NEW longest, Paced(shortest, longest), BookInv(shortest, longest), queryParallelly
  PROVE  BookInv(shortest, longest)'
<1>1. query = "parallel" /\ ret' = ret /\ \A i \in authors : job["parallel"][i].at = "done"
  BY DEF queryParallelly, Jobs
<1>2. /\ AUTHOR_NAME \in authors /\ AUTHOR_NAME \notin WithoutBook
      /\ \A i \in authors : i < AUTHOR_NAME => i \in WithoutBook
  BY TimesAre
<1>3. caller >= 1
  BY <1>1, <1>2, AuthorsAre DEF BookInv, Unasked, BookTypes
<1>4. elapsed >= 2 * shortest \/ Workers >= Len(Sleep)
  BY <1>1, <1>3 DEF BookInv, InStream, TakesTwo
<1>5. Min(authors \ WithoutBook) = AUTHOR_NAME
  <2>1. authors \ WithoutBook \subseteq authors /\ authors \ WithoutBook # {}
    BY <1>2
  <2>2. /\ Min(authors \ WithoutBook) \in authors \ WithoutBook
        /\ \A i \in authors \ WithoutBook : Min(authors \ WithoutBook) <= i
    BY <2>1, FirstAuthor
  <2>3. PICK m \in authors \ WithoutBook : m = Min(authors \ WithoutBook)
    BY <2>2
  <2>4. m <= AUTHOR_NAME /\ ~(m < AUTHOR_NAME)
    BY <1>2, <2>2, <2>3
  <2>5. m \in Nat /\ AUTHOR_NAME \in Nat
    BY <1>2, AuthorsAre
  <2>6. QED
    BY <2>3, <2>4, <2>5
<1>6. Return(AUTHOR_NAME)
  BY <1>2, <1>5 DEF queryParallelly
<1>7. query \in Queries /\ ret' \in Int
  BY <1>1 DEF Queries, BookInv, BookTypes
<1>8. QED
  BY <1>1, <1>4, <1>6, <1>7, BookReturns

\* The pool is shut down when its tasks are done: the grace is long enough.
LEMMA BookCleans ==
  ASSUME NEW shortest, NEW longest, Paced(shortest, longest), BookInv(shortest, longest), clean
  PROVE  BookInv(shortest, longest)'
<1>1. /\ query = "clean" /\ query' = "end" /\ elapsed' = elapsed /\ caller' = caller /\ limit' = limit
      /\ ret' = ret /\ answer' = answer /\ duration' = duration
  BY DEF clean, CleanEnds
<1>2. longest \in Nat /\ elapsed \in Nat /\ Grace \in Nat /\ Len(Sleep) * longest < Grace
  BY TimesAre, AuthorsAre DEF BookInv, BookTypes
<1>3. PoolIdle
  <2>1. Jobs("concurrent", "queued") \in SUBSET authors
    BY JobsFinite
  <2>2. Load(longest) \in Nat /\ Len(Sleep) * longest \in Nat
    BY <1>2, <2>1, LoadIs DEF Load
  <2>3. elapsed + Load(longest) <= Len(Sleep) * longest
    BY <1>1 DEF BookInv, Draining
  <2>4. PICK m \in Nat : m = Len(Sleep) * longest
    BY <2>2
  <2>5. elapsed # Grace
    BY <1>2, <2>2, <2>3, <2>4
  <2>6. QED
    BY <2>5 DEF clean, CleanEnds
<1>4. \A i \in authors : job["concurrent"][i].at \notin {"queued", "running"}
  BY <1>3 DEF PoolIdle, Jobs
<1>5. job' = [job EXCEPT !["concurrent"] = [i \in authors |-> IF @[i].at = "queued" THEN [at |-> "none", left |-> 0] ELSE @[i]]]
  BY DEF clean, Job
<1>6. job' = job
  <2>1. job \in [Queries -> [authors -> [at : {"none", "queued", "running", "done"}, left : 0 .. longest]]]
    BY DEF BookInv, BookTypes
  <2>2. [i \in authors |-> IF job["concurrent"][i].at = "queued" THEN [at |-> "none", left |-> 0] ELSE job["concurrent"][i]]
        = job["concurrent"]
    BY <1>4, <2>1 DEF Queries
  <2>3. QED
    BY <1>5, <2>1, <2>2
<1>7. PoolIdle'
  BY <1>3, <1>6 DEF PoolIdle, Jobs, authors
<1>8. BookTypes(longest)'
  BY <1>1, <1>6 DEF BookInv, BookTypes, authors
<1>9. Draining(longest)'
  BY <1>1, <1>7 DEF Draining
<1>10. /\ InTurn(shortest)' /\ InPool(longest)' /\ InStream(shortest)' /\ Unasked' /\ Timed(longest)' /\ AnswersAreExpected'
  BY <1>1 DEF BookInv, InTurn, InPool, InStream, Unasked, Timed, Returned, AnswersAreExpected
<1>11. QED
  BY <1>8, <1>9, <1>10 DEF BookInv

\* The pool leaves no task of its first threads waiting while time passes: the
\* first that waits would find a thread.
LEMMA PoolIsPrompt ==
  ASSUME NEW longest, BookTypes(longest), InPool(longest), query = "concurrent", caller >= 1,
         \A i \in authors : ~ThreadFor("concurrent", i),
         NEW i \in authors, i <= CorePool
  PROVE  job["concurrent"][i].at # "queued"
<1>1. SUFFICES ASSUME job["concurrent"][i].at = "queued" PROVE FALSE
  OBVIOUS
<1>2. Jobs("concurrent", "queued") \subseteq authors /\ i \in Jobs("concurrent", "queued")
  BY <1>1 DEF Jobs
<1>3. PICK m : m = Min(Jobs("concurrent", "queued"))
  OBVIOUS
<1>4. m \in Jobs("concurrent", "queued") /\ \A j \in Jobs("concurrent", "queued") : m <= j
  <2>1. Jobs("concurrent", "queued") # {}
    BY <1>2
  <2>2. QED
    BY <1>2, <1>3, <2>1, FirstAuthor
<1>5. m \in authors /\ m \in Nat /\ m >= 1 /\ m <= CorePool /\ CorePool \in Nat
  <2>1. m \in authors /\ m <= i
    BY <1>2, <1>4
  <2>2. QED
    BY <2>1, AuthorsAre
<1>6. \A j \in Jobs("concurrent", "running") : j \in 1 .. (m - 1)
  <2>1. SUFFICES ASSUME NEW j \in Jobs("concurrent", "running") PROVE j \in 1 .. (m - 1)
    OBVIOUS
  <2>2. j \in authors /\ job["concurrent"][j].at = "running" /\ job["concurrent"][m].at = "queued"
    BY <1>4 DEF Jobs
  <2>3. ~(m < j) /\ j # m
    BY <1>5, <2>2 DEF InPool
  <2>4. QED
    BY <1>5, <2>2, <2>3, AuthorsAre
<1>7. Cardinality(Jobs("concurrent", "running")) <= m - 1
  <2>1. PICK k \in Nat : k = m - 1
    BY <1>5
  <2>2. IsFiniteSet(1 .. k) /\ Cardinality(1 .. k) = IF 1 > k THEN 0 ELSE k - 1 + 1
    BY FS_Interval
  <2>3. Cardinality(1 .. k) = k
    BY <2>2
  <2>4. Jobs("concurrent", "running") \subseteq 1 .. k
    BY <1>6, <2>1
  <2>5. Cardinality(Jobs("concurrent", "running")) <= Cardinality(1 .. k)
    BY <2>2, <2>4, FS_Subset
  <2>6. QED
    BY <2>1, <2>3, <2>5
<1>8. Cardinality(Jobs("concurrent", "running")) < CorePool
  BY <1>5, <1>7, JobsFinite
<1>9. ThreadFor("concurrent", m)
  <2>1. job["concurrent"][m].at = "queued"
    BY <1>4 DEF Jobs
  <2>2. QED
    BY <1>3, <1>8, <2>1 DEF ThreadFor
<1>10. QED
  BY <1>5, <1>9

\* Time passes: running calls come nearer to their end, nothing else changes.
LEMMA BookTicks ==
  ASSUME NEW shortest, NEW longest, Paced(shortest, longest), BookInv(shortest, longest), Tick
  PROVE  BookInv(shortest, longest)'
<1>1. /\ ~Urgent /\ query # "end" /\ elapsed' = elapsed + 1 /\ query' = query /\ caller' = caller
      /\ ret' = ret /\ answer' = answer /\ duration' = duration
      /\ limit' = IF query = "concurrent" THEN limit - 1 ELSE limit
  BY DEF Tick
<1>2. /\ shortest \in Nat /\ longest \in Nat /\ 1 <= shortest /\ shortest <= longest
      /\ elapsed \in Nat /\ limit \in Nat /\ caller \in Nat
      /\ AUTHOR_NAME \in Nat /\ AUTHOR_NAME >= 2 /\ CorePool \in Nat /\ AUTHOR_NAME <= CorePool
      /\ (caller >= 1 => caller \in authors)
  BY TimesAre, AuthorsAre, BooksAssumption DEF BookInv, BookTypes
<1>3. job \in [Queries -> [authors -> [at : {"none", "queued", "running", "done"}, left : 0 .. longest]]]
  BY DEF BookInv, BookTypes
<1>4. ASSUME NEW q \in Queries, NEW i \in authors
      PROVE  /\ job[q][i].left \in Nat
             /\ job'[q][i].at = job[q][i].at
             /\ job[q][i].at = "running" =>
                  job[q][i].left >= 1 /\ job'[q][i].left = job[q][i].left - 1
             /\ ~ThreadFor(q, i)
  <2>1. ~Due(q, i) /\ ~ThreadFor(q, i)
    BY <1>1 DEF Urgent
  <2>2. job[q][i] \in [at : {"none", "queued", "running", "done"}, left : 0 .. longest]
    BY <1>3
  <2>3. job'[q][i] = IF job[q][i].at = "running" THEN [job[q][i] EXCEPT !.left = @ - 1] ELSE job[q][i]
    BY DEF Tick
  <2>4. QED
    BY <1>2, <2>1, <2>2, <2>3 DEF Due
<1>5. query \in Queries => caller >= 1
  BY <1>1, <1>2 DEF Urgent
<1>6. query = "concurrent" => job["concurrent"][caller].at # "done" /\ limit >= 1
  BY <1>1, <1>2, <1>5 DEF Urgent, Expired, Jobs, Queries
<1>7. BookTypes(longest)'
  <2>1. job' \in [Queries -> [authors -> [at : {"none", "queued", "running", "done"}, left : 0 .. longest]]]
    <3>1. SUFFICES ASSUME NEW q \in Queries, NEW i \in authors
                   PROVE  job'[q][i] \in [at : {"none", "queued", "running", "done"}, left : 0 .. longest]
      BY DEF Tick
    <3>2. job[q][i] \in [at : {"none", "queued", "running", "done"}, left : 0 .. longest]
      BY <1>3
    <3>3. job'[q][i] = IF job[q][i].at = "running" THEN [job[q][i] EXCEPT !.left = @ - 1] ELSE job[q][i]
      BY DEF Tick
    <3>4. job[q][i].at = "running" => job[q][i].left - 1 \in 0 .. longest
      BY <1>2, <1>4, <3>2
    <3>5. QED
      BY <3>2, <3>3, <3>4
  <2>2. limit' \in Nat /\ elapsed' \in Nat
    BY <1>1, <1>2, <1>6
  <2>3. QED
    BY <1>1, <2>1, <2>2 DEF BookInv, BookTypes, authors
<1>8. InTurn(shortest)'
  <2>1. SUFFICES ASSUME query = "sequential" PROVE InTurn(shortest)'
    BY <1>1 DEF InTurn
  <2>2. caller >= 1 /\ caller \in authors
    BY <1>2, <1>5, <2>1 DEF Queries
  <2>3. /\ \A i \in authors : job'["sequential"][i].at = job["sequential"][i].at
        /\ job["sequential"][caller].at = "running" =>
             elapsed + 1 + job'["sequential"][caller].left = elapsed + job["sequential"][caller].left
    BY <1>2, <1>4, <2>2 DEF Queries
  <2>4. elapsed >= shortest => elapsed + 1 >= shortest
    BY <1>2
  <2>5. \A n \in {shortest, 2 * shortest} : elapsed >= n => elapsed + 1 >= n
    BY <1>2
  <2>6. QED
    BY <1>1, <2>1, <2>2, <2>3, <2>4, <2>5 DEF InTurn, BookInv, authors
<1>9. InPool(longest)'
  <2>1. SUFFICES ASSUME query = "concurrent" PROVE InPool(longest)'
    BY <1>1 DEF InPool
  <2>2. caller >= 1 /\ caller \in authors /\ caller <= AUTHOR_NAME /\ caller <= CorePool
    BY <1>2, <1>5, <2>1 DEF Queries, InPool, BookInv
  <2>3. \A i \in authors : i <= CorePool => job["concurrent"][i].at # "queued"
    <3>1. \A i \in authors : ~ThreadFor("concurrent", i)
      BY <1>4 DEF Queries
    <3>2. BookTypes(longest) /\ InPool(longest)
      BY DEF BookInv
    <3>3. QED
      BY <2>1, <2>2, <3>1, <3>2, PoolIsPrompt
  <2>4. \A i \in authors : /\ job'["concurrent"][i].at = job["concurrent"][i].at
                           /\ job["concurrent"][i].at = "running" =>
                                /\ job["concurrent"][i].left >= 1
                                /\ job'["concurrent"][i].left = job["concurrent"][i].left - 1
                                /\ job["concurrent"][i].left \in Nat
    BY <1>4 DEF Queries
  <2>5. job["concurrent"][caller].at = "running"
    <3>1. job["concurrent"][caller].at \in {"none", "queued", "running", "done"}
      BY <1>3, <2>2 DEF Queries
    <3>2. job["concurrent"][caller].at # "none"
      BY <2>1, <2>2 DEF InPool, BookInv
    <3>3. QED
      BY <1>6, <2>1, <2>2, <2>3, <3>1, <3>2
  <2>6. elapsed + 1 <= longest
    <3>1. elapsed + job["concurrent"][caller].left \in 1 .. (Sleep[caller] + Jitter)
      BY <2>1, <2>2, <2>5 DEF InPool, BookInv
    <3>2. Sleep[caller] + Jitter <= longest /\ Sleep[caller] \in Nat /\ Jitter \in Nat
      BY <2>2, TimesAre, AuthorsAre
    <3>3. job["concurrent"][caller].left >= 1 /\ job["concurrent"][caller].left \in Nat
      BY <2>2, <2>4, <2>5
    <3>4. QED
      BY <1>2, <3>1, <3>2, <3>3
  <2>7. caller = 1 => limit - 1 + (elapsed + 1) = Patience
    BY <1>2, <2>1 DEF InPool, BookInv
  <2>8. \A i \in authors : i <= CorePool =>
              /\ job'["concurrent"][i].at # "queued"
              /\ job'["concurrent"][i].at = "running" =>
                   elapsed + 1 + job'["concurrent"][i].left \in 1 .. (Sleep[i] + Jitter)
    <3>1. SUFFICES ASSUME NEW i \in authors, i <= CorePool
                   PROVE  /\ job'["concurrent"][i].at # "queued"
                          /\ job'["concurrent"][i].at = "running" =>
                               elapsed + 1 + job'["concurrent"][i].left \in 1 .. (Sleep[i] + Jitter)
      OBVIOUS
    <3>2. job["concurrent"][i].at = "running" =>
            elapsed + 1 + job'["concurrent"][i].left = elapsed + job["concurrent"][i].left
      BY <1>2, <2>4
    <3>3. job["concurrent"][i].at = "running" => elapsed + job["concurrent"][i].left \in 1 .. (Sleep[i] + Jitter)
      BY <2>1, <2>2, <3>1 DEF InPool, BookInv
    <3>4. job'["concurrent"][i].at = job["concurrent"][i].at
      BY <2>4
    <3>5. QED
      BY <2>3, <3>1, <3>2, <3>3, <3>4
  <2>9. caller = AUTHOR_NAME => job'["concurrent"][caller].left < limit - 1
    BY <1>2, <2>1, <2>2, <2>4, <2>5 DEF InPool, BookInv
  <2>10. /\ \A i \in authors : job'["concurrent"][i].at # "none"
         /\ \A i, j \in authors : i < j /\ job'["concurrent"][i].at = "queued" => job'["concurrent"][j].at = "queued"
    BY <2>1, <2>2, <2>4 DEF InPool, BookInv
  <2>11. elapsed + 1 >= 1 /\ caller # 0
    BY <1>2, <2>2
  <2>12. limit' = limit - 1
    BY <1>1, <2>1
  <2>13. QED
    BY <1>1, <2>2, <2>6, <2>7, <2>8, <2>9, <2>10, <2>11, <2>12 DEF InPool, authors
<1>10. InStream(shortest)'
  <2>1. SUFFICES ASSUME query = "parallel" PROVE InStream(shortest)'
    BY <1>1 DEF InStream
  <2>2. caller >= 1 /\ caller # 0
    BY <1>2, <1>5, <2>1 DEF Queries
  <2>3. \A i \in authors : /\ job'["parallel"][i].at = job["parallel"][i].at
                           /\ job["parallel"][i].at = "running" =>
                                elapsed + 1 + job'["parallel"][i].left = elapsed + job["parallel"][i].left
    BY <1>2, <1>4 DEF Queries
  <2>4. \A n \in {shortest, 2 * shortest} : elapsed >= n => elapsed + 1 >= n
    BY <1>2
  <2>5. TakesTwo(shortest)'
    <3>1. TakesTwo(shortest)
      BY <2>1, <2>2 DEF InStream, BookInv
    <3>2. QED
      BY <1>1, <2>3, <2>4, <3>1 DEF TakesTwo, authors
  <2>6. \A i \in authors :
              /\ job'["parallel"][i].at # "none"
              /\ job'["parallel"][i].at = "running" => elapsed + 1 + job'["parallel"][i].left >= shortest
              /\ job'["parallel"][i].at = "done" => elapsed + 1 >= shortest
    BY <2>1, <2>2, <2>3, <2>4 DEF InStream, BookInv
  <2>7. QED
    BY <1>1, <2>2, <2>5, <2>6 DEF InStream, authors
<1>11. Draining(longest)'
  <2>1. SUFFICES ASSUME query = "clean" PROVE Draining(longest)'
    BY <1>1 DEF Draining
  <2>2. \A at : Jobs("concurrent", at)' = Jobs("concurrent", at)
    BY <1>4 DEF Jobs, authors, Queries
  <2>3. Load(longest)' = Load(longest)
    BY <2>2 DEF Load
  <2>4. Jobs("concurrent", "queued") \in SUBSET authors
    BY JobsFinite
  <2>5. Load(longest) \in Nat /\ Len(Sleep) * longest \in Nat
    BY <1>2, <2>4, LoadIs DEF Load
  <2>6. PICK m \in Nat : m = Len(Sleep) * longest
    BY <2>5
  <2>7. \A i \in Jobs("concurrent", "running") :
          /\ elapsed + Load(longest) + job["concurrent"][i].left <= m
          /\ job["concurrent"][i].left >= 1 /\ job["concurrent"][i].left \in Nat
          /\ job'["concurrent"][i].left = job["concurrent"][i].left - 1
    BY <1>4, <2>1, <2>6 DEF BookInv, Draining, Jobs, Queries
  <2>8. \A i \in Jobs("concurrent", "running") : elapsed + 1 + Load(longest) + job'["concurrent"][i].left <= m
    <3>1. SUFFICES ASSUME NEW i \in Jobs("concurrent", "running")
                   PROVE  elapsed + 1 + Load(longest) + job'["concurrent"][i].left <= m
      OBVIOUS
    <3>2. PICK k \in Nat : k = job["concurrent"][i].left
      BY <2>7
    <3>3. k >= 1 /\ elapsed + Load(longest) + k <= m /\ job'["concurrent"][i].left = k - 1
      BY <2>7, <3>2
    <3>4. elapsed + 1 + Load(longest) + (k - 1) <= m
      BY <1>2, <2>5, <3>3
    <3>5. QED
      BY <3>3, <3>4
  <2>9. Jobs("concurrent", "running") # {}
    <3>1. SUFFICES ASSUME Jobs("concurrent", "running") = {} PROVE FALSE
      OBVIOUS
    <3>2. Jobs("concurrent", "queued") # {}
      BY <1>1, <2>1, <3>1 DEF Urgent, CleanEnds, PoolIdle
    <3>3. PICK j : j = Min(Jobs("concurrent", "queued"))
      OBVIOUS
    <3>4. j \in Jobs("concurrent", "queued")
      BY <2>4, <3>2, <3>3, FirstAuthor
    <3>5. j \in authors /\ job["concurrent"][j].at = "queued"
      BY <3>4 DEF Jobs
    <3>6. Cardinality(Jobs("concurrent", "running")) < CorePool
      <4>1. Cardinality({}) = 0
        BY FS_EmptySet
      <4>2. QED
        BY <1>2, <3>1, <4>1
    <3>7. ThreadFor("concurrent", j)
      BY <3>3, <3>5, <3>6 DEF ThreadFor
    <3>8. QED
      BY <1>4, <3>5, <3>7 DEF Queries
  <2>10. elapsed + 1 + Load(longest) <= m
    BY SMTT(20), <1>2, <2>5, <2>7, <2>9
  <2>11. QED
    BY <1>1, <2>1, <2>2, <2>3, <2>6, <2>8, <2>10 DEF Draining
<1>12. Unasked'
  BY <1>1, <1>4 DEF BookInv, Unasked, authors, Queries
<1>13. Timed(longest)' /\ AnswersAreExpected'
  BY <1>1 DEF BookInv, Timed, Returned, AnswersAreExpected
<1>14. QED
  BY <1>7, <1>8, <1>9, <1>10, <1>11, <1>12, <1>13 DEF BookInv

\* The test begins.
LEMMA BookInitInv ==
  ASSUME NEW shortest, NEW longest, Paced(shortest, longest), BookInit
  PROVE  BookInv(shortest, longest)
<1>1. /\ shortest \in Nat /\ longest \in Nat /\ 0 \in 0 .. Len(Sleep) /\ AUTHOR_NAME \in Nat
  BY TimesAre, AuthorsAre, BooksAssumption
<1>2. /\ query = "sequential" /\ elapsed = 0 /\ caller = 0 /\ limit = 0 /\ ret = -1
      /\ job = [q \in Queries |-> [i \in authors |-> [at |-> "none", left |-> 0]]]
      /\ answer = [q \in Queries |-> -1] /\ duration = [q \in Queries |-> 0]
  BY DEF BookInit, Job, null
<1>3. BookTypes(longest)
  BY <1>1, <1>2 DEF BookTypes, Queries
<1>4. Timed(longest) /\ AnswersAreExpected
  BY <1>1, <1>2 DEF Timed, Returned, AnswersAreExpected, Queries
<1>5. InTurn(shortest)
  BY <1>1, <1>2 DEF InTurn, Queries
<1>6. Unasked
  BY <1>2 DEF Unasked, Queries
<1>7. InPool(longest) /\ InStream(shortest) /\ Draining(longest)
  BY <1>2 DEF InPool, InStream, Draining
<1>8. QED
  BY <1>3, <1>4, <1>5, <1>6, <1>7 DEF BookInv

\* Every step keeps the invariant.
LEMMA BookNextInv ==
  ASSUME NEW shortest, NEW longest, Paced(shortest, longest), BookInv(shortest, longest), [BookNext]_bookVars
  PROVE  BookInv(shortest, longest)'
<1>1. CASE BeginQuery
  BY <1>1, BookBegins
<1>2. CASE querySequentially
  BY <1>2, BookAsksOn
<1>3. CASE GetReturns
  BY <1>3, BookGets
<1>4. CASE GetTimesOut
  BY <1>4, BookTimesOut
<1>5. CASE queryParallelly
  BY <1>5, BookCollects
<1>6. CASE clean
  BY <1>6, BookCleans
<1>7. ASSUME NEW q \in Queries, NEW i \in authors, queryBook(q, i)
      PROVE  BookInv(shortest, longest)'
  BY <1>7, BookStarts
<1>8. ASSUME NEW q \in Queries, NEW i \in authors, Wake(q, i)
      PROVE  BookInv(shortest, longest)'
  BY <1>8, BookWakes
<1>9. CASE Tick
  BY <1>9, BookTicks
<1>10. CASE UNCHANGED bookVars
  <2>1. /\ query' = query /\ elapsed' = elapsed /\ job' = job /\ caller' = caller /\ limit' = limit
        /\ ret' = ret /\ answer' = answer /\ duration' = duration
    BY <1>10 DEF bookVars
  <2>2. \A q, at : Jobs(q, at)' = Jobs(q, at)
    BY <2>1 DEF Jobs, authors
  <2>3. BookTypes(longest)' /\ AnswersAreExpected' /\ Timed(longest)'
    BY <2>1 DEF BookInv, BookTypes, AnswersAreExpected, Timed, Returned, authors
  <2>4. InTurn(shortest)' /\ InPool(longest)'
    BY <2>1 DEF BookInv, InTurn, InPool, authors
  <2>5. Unasked' /\ InStream(shortest)'
    BY <2>1 DEF BookInv, Unasked, InStream, TakesTwo, authors
  <2>6. Draining(longest)'
    BY <2>1, <2>2 DEF BookInv, Draining, Load, PoolIdle
  <2>7. QED
    BY <2>3, <2>4, <2>5, <2>6 DEF BookInv
<1>11. QED
  BY <1>1, <1>2, <1>3, <1>4, <1>5, <1>6, <1>7, <1>8, <1>9, <1>10 DEF BookNext, AtOnce

\* For any authors, threads and limits within which a test of this kind can
\* hold, and however late threads wake up: where every call of every query is,
\* and how much time it has taken.
THEOREM BooksSafe ==
  ASSUME NEW CONSTANT shortest, NEW CONSTANT longest, Paced(shortest, longest)
  PROVE  BookSpec => []BookInv(shortest, longest)
<1>1. BookInit => BookInv(shortest, longest)
  BY BookInitInv
<1>2. BookInv(shortest, longest) /\ [BookNext]_bookVars => BookInv(shortest, longest)'
  BY BookNextInv
<1>3. QED
  BY <1>1, <1>2, PTL DEF BookSpec

\* recordExecutionTime never sees an answer it does not expect.
THEOREM AnswersAlwaysExpected == WellTimed => (BookSpec => []AnswersAreExpected)
<1>1. SUFFICES ASSUME WellTimed PROVE BookSpec => []AnswersAreExpected
  OBVIOUS
<1>2. PICK shortest \in 1 .. MaxDuration, longest \in 1 .. MaxDuration : WithinTimes(shortest, longest)
  BY <1>1 DEF WellTimed
<1>3. Paced(shortest, longest)
  BY <1>1, <1>2 DEF Paced
<1>4. BookSpec => []BookInv(shortest, longest)
  BY <1>3, BooksSafe
<1>5. BookInv(shortest, longest) => AnswersAreExpected
  BY DEF BookInv
<1>6. QED
  BY <1>4, <1>5, PTL

\* However many workers the stream has, the concurrent query takes less time
\* than the sequential one, and less than a stream that cannot ask all authors
\* at once; shutdownNow finds nothing to do.
THEOREM ConcurrentAlwaysFastest == WellTimed => (BookSpec => []ConcurrentIsFastest)
<1>1. SUFFICES ASSUME WellTimed PROVE BookSpec => []ConcurrentIsFastest
  OBVIOUS
<1>2. PICK shortest \in 1 .. MaxDuration, longest \in 1 .. MaxDuration : WithinTimes(shortest, longest)
  BY <1>1 DEF WellTimed
<1>3. Paced(shortest, longest)
  BY <1>1, <1>2 DEF Paced
<1>4. BookSpec => []BookInv(shortest, longest)
  BY <1>3, BooksSafe
<1>5. BookInv(shortest, longest) => ConcurrentIsFastest
  <2>1. SUFFICES ASSUME BookInv(shortest, longest) PROVE ConcurrentIsFastest
    OBVIOUS
  <2>2. ASSUME NEW q \in {"sequential", "parallel"}, Returned(q), q = "parallel" => Workers < Len(Sleep)
        PROVE  duration["concurrent"] < duration[q]
    <3>1. duration["concurrent"] <= longest
      BY <2>1 DEF BookInv, Timed
    <3>2. duration[q] > longest
      <4>1. duration[q] > longest \/ (q = "parallel" /\ Workers >= Len(Sleep))
        BY <2>1, <2>2 DEF BookInv, Timed
      <4>2. Workers \in Nat /\ Len(Sleep) \in Nat
        BY AuthorsAre
      <4>3. QED
        BY <2>2, <4>1, <4>2
    <3>3. duration["concurrent"] \in Nat /\ duration[q] \in Nat /\ longest \in Nat
      BY <1>3, <2>1, <2>2, TimesAre DEF BookInv, BookTypes, Queries
    <3>4. QED
      BY <3>1, <3>2, <3>3
  <2>3. query = "end" => PoolIdle
    BY <2>1 DEF BookInv, Draining
  <2>4. QED
    BY <2>2, <2>3 DEF ConcurrentIsFastest
<1>6. QED
  BY <1>4, <1>5, PTL
=============================================================================
