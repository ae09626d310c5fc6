----------------------------- MODULE ChatServer -----------------------------
(***************************************************************************)
(* The secure chat server: one handler object per connection, all of them  *)
(* writing to the members of one shared channel group.  A connection       *)
(* belongs to one event loop, a thread that runs one handler or one task   *)
(* at a time.  A write to a connection of another loop is a task for that  *)
(* loop.  A step is one handler without a broadcast, one turn of the for   *)
(* loop of a broadcast, or one task.                                       *)
(***************************************************************************)
EXTENDS Integers, Sequences

CONSTANTS
  Clients,       \* the connections there may be
  LoopOf,        \* the event loop of each
  Talkers,       \* those whose clients type lines; the others only listen
  MaxLines,      \* how many lines are typed in a behaviour
  Unreliable     \* those that may hang up, fail the handshake, or be met by an unknown host name

ASSUME ChatAssumption ==
  /\ MaxLines \in Nat
  /\ Talkers \subseteq Clients /\ Unreliable \subseteq Clients
  /\ LoopOf \in [Clients -> {LoopOf[c] : c \in Clients}]

Loops == {LoopOf[c] : c \in Clients}

VARIABLES
  channels,      \* the group
  state,         \* of a connection
  lines,         \* what its client typed and no handler has read
  gone,          \* clients that have hung up
  run,           \* the broadcast an event loop is in, or Idle
  tasks,         \* the writes other loops handed to a loop
  out,           \* what a client was sent
  said,          \* how many broadcasts a connection's handler has begun
  typed          \* how many lines were typed in all

vars == <<channels, state, lines, gone, run, tasks, out, said, typed>>

Idle == [op |-> "idle"]
Lines == {"text", "bye", "long"}

Init ==
  /\ channels = {}
  /\ state = [c \in Clients |-> "none"]
  /\ lines = [c \in Clients |-> <<>>]
  /\ gone = {}
  /\ run = [l \in Loops |-> Idle]
  /\ tasks = [l \in Loops |-> <<>>]
  /\ out = [c \in Clients |-> <<>>]
  /\ said = [c \in Clients |-> 0]
  /\ typed = 0

Message(c, k, kind) == [from |-> c, k |-> k, kind |-> kind]
Free(c) == run[LoopOf[c]] = Idle

(***************************************************************************)
(* Writing.                                                                *)
(***************************************************************************)
\* On its own loop.  A write to a connection that is closing fails; one to a
\* client that has hung up may find that out and close the connection.
Deliver(r, m) ==
  \/ /\ state[r] = "secured"
     /\ out' = [out EXCEPT ![r] = Append(@, m)]
     /\ UNCHANGED <<channels, state>>
  \/ /\ state[r] = "secured" /\ r \in gone
     /\ state' = [state EXCEPT ![r] = "closed"]
     /\ channels' = channels \ {r}
     /\ UNCHANGED out
  \/ state[r] # "secured" /\ UNCHANGED <<channels, state, out>>

\* Mutant: a task overtakes those already queued.
WriteFirst(l, r, m) ==
  IF LoopOf[r] = l THEN Deliver(r, m) /\ UNCHANGED tasks
  ELSE tasks' = [tasks EXCEPT ![LoopOf[r]] = <<<<r, m>>>> \o @] /\ UNCHANGED <<channels, state, out>>

Write(l, r, m) ==
  IF LoopOf[r] = l THEN Deliver(r, m) /\ UNCHANGED tasks
  ELSE tasks' = [tasks EXCEPT ![LoopOf[r]] = Append(@, <<r, m>>)] /\ UNCHANGED <<channels, state, out>>

RunTask(l) ==
  /\ run[l] = Idle /\ tasks[l] # <<>>
  /\ Deliver(Head(tasks[l])[1], Head(tasks[l])[2])
  /\ tasks' = [tasks EXCEPT ![l] = Tail(@)]
  /\ UNCHANGED <<lines, gone, run, said>>

(***************************************************************************)
(* A broadcast: the iterator over the group sees every member that stays,  *)
(* once, and may or may not see those that come or go meanwhile.           *)
(***************************************************************************)
Begin(c, op, kind) ==
  /\ Free(c)
  /\ run' = [run EXCEPT ![LoopOf[c]] =
       [op |-> op, chan |-> c, k |-> said[c] + 1, kind |-> kind, seen |-> {}, due |-> channels]]
  /\ said' = [said EXCEPT ![c] = @ + 1]

Visit(l) ==
  /\ run[l] # Idle
  /\ \E r \in (channels \cup run[l].due) \ run[l].seen :
       /\ run' = [run EXCEPT ![l].seen = @ \cup {r}]
       /\ Write(l, r, Message(run[l].chan, run[l].k,
                  IF run[l].op = "read" /\ r = run[l].chan THEN "you" ELSE run[l].kind))
  /\ UNCHANGED <<lines, gone, said>>

\* Mutant: the loop stops at the first member.
OverEarly(l) == run[l] # Idle /\ (run[l].due \cap channels = {} \/ run[l].seen # {})

Over(l) == run[l] # Idle /\ run[l].due \cap channels \subseteq run[l].seen

\* Mutant: bye is not recognised after the broadcast.
EndIgnoringBye(l) ==
  /\ Over(l)
  /\ run' = [run EXCEPT ![l] = Idle]
  /\ state' = [state EXCEPT ![run[l].chan] =
       CASE run[l].op = "added" -> "handshake"
         [] run[l].op = "removed" -> "removed"
         [] OTHER -> @]
  /\ channels' = IF run[l].op = "removed" THEN channels \ {run[l].chan} ELSE channels
  /\ UNCHANGED <<lines, gone, tasks, out, said>>

\* What follows the for loop in handlerAdded, channelRead0 and handlerRemoved.
End(l) ==
  /\ Over(l)
  /\ run' = [run EXCEPT ![l] = Idle]
  /\ state' = [state EXCEPT ![run[l].chan] =
       CASE run[l].op = "added" -> "handshake"
         [] run[l].op = "removed" -> "removed"
         [] run[l].kind = "bye" /\ @ \in {"secured", "bare"} -> "closing"
         [] OTHER -> @]
  /\ channels' = IF run[l].op = "removed" THEN channels \ {run[l].chan} ELSE channels
  /\ UNCHANGED <<lines, gone, tasks, out, said>>

(***************************************************************************)
(* The handlers.                                                           *)
(***************************************************************************)
\* Mutant: the connection is registered as soon as it is there.
handlerAddedRegisters(c) ==
  /\ state[c] = "none"
  /\ Begin(c, "added", "joined")
  /\ state' = [state EXCEPT ![c] = "secured"]
  /\ channels' = channels \cup {c}
  /\ UNCHANGED <<lines, gone, tasks, out>>

handlerAdded(c) ==
  /\ state[c] = "none"
  /\ Begin(c, "added", "joined")
  /\ state' = [state EXCEPT ![c] = "added"]
  /\ UNCHANGED <<channels, lines, gone, tasks, out>>

Greeting(c) == <<Message(c, 0, "welcome"), Message(c, 0, "cipher")>>

\* The listener of the handshake: two lines of greeting, then the group.
operationComplete(c) ==
  /\ state[c] = "handshake" /\ Free(c)
  /\ state' = [state EXCEPT ![c] = "secured"]
  /\ out' = [out EXCEPT ![c] = @ \o Greeting(c)]
  /\ channels' = channels \cup {c}
  /\ UNCHANGED <<lines, gone, run, tasks, said>>

\* The listener runs too when the handshake fails or takes too long, and does
\* not ask: the writes of the greeting fail, the connection is registered all
\* the same, and stays in the group until it is closed.
operationFailed(c) ==
  /\ state[c] = "handshake" /\ Free(c)
  /\ c \in Unreliable
  /\ state' = [state EXCEPT ![c] = "failed"]
  /\ channels' = channels \cup {c}
  /\ UNCHANGED <<lines, gone, run, tasks, out, said>>

\* The name of the host is not found: the listener ends before the greeting
\* and the registration.  After a handshake the client may chat on, unheard of
\* by the group; without one the connection is closed.
operationThrows(c) ==
  /\ state[c] = "handshake" /\ Free(c)
  /\ c \in Unreliable
  /\ \E s \in {"bare", "closed"} : state' = [state EXCEPT ![c] = s]
  /\ UNCHANGED <<channels, lines, gone, run, tasks, out, said>>

\* Lines of one read are handled one after the other, even after a bye.
channelRead0(c) ==
  /\ state[c] \in {"secured", "bare", "closing"}
  /\ lines[c] # <<>> /\ Head(lines[c]) # "long"
  /\ Begin(c, "read", Head(lines[c]))
  /\ lines' = [lines EXCEPT ![c] = Tail(@)]
  /\ UNCHANGED <<channels, state, gone, tasks, out>>

\* A line longer than the frame decoder takes.
exceptionCaught(c) ==
  /\ state[c] \in {"secured", "bare", "closing"} /\ Free(c)
  /\ lines[c] # <<>> /\ Head(lines[c]) = "long"
  /\ lines' = [lines EXCEPT ![c] = Tail(@)]
  /\ state' = [state EXCEPT ![c] = "closing"]
  /\ UNCHANGED <<channels, gone, run, tasks, out, said>>

\* The close of a connection takes it out of the group; lines not yet read
\* may be lost.
Close(c) ==
  /\ Free(c)
  /\ state[c] \in {"closing", "failed"} \/ (state[c] \in {"secured", "bare"} /\ c \in gone)
  /\ state' = [state EXCEPT ![c] = "closed"]
  /\ channels' = channels \ {c}
  /\ UNCHANGED <<lines, gone, run, tasks, out, said>>

handlerRemoved(c) ==
  /\ state[c] = "closed"
  /\ Begin(c, "removed", "left")
  /\ state' = [state EXCEPT ![c] = "leaving"]
  /\ UNCHANGED <<channels, lines, gone, tasks, out>>

(***************************************************************************)
(* The clients.                                                            *)
(***************************************************************************)
Type(c) ==
  /\ c \in Talkers
  /\ state[c] \in {"secured", "bare"} /\ c \notin gone /\ typed < MaxLines
  /\ typed' = typed + 1
  /\ \E line \in Lines : lines' = [lines EXCEPT ![c] = Append(@, line)]
  /\ UNCHANGED <<channels, state, gone, run, tasks, out, said>>

HangUp(c) ==
  /\ state[c] \in {"secured", "bare", "closing"} /\ c \notin gone
  /\ c \in Unreliable
  /\ gone' = gone \cup {c}
  /\ UNCHANGED <<channels, state, lines, run, tasks, out, said, typed>>

Handler(c) ==
  \/ operationComplete(c) \/ operationFailed(c) \/ operationThrows(c)
  \/ channelRead0(c) \/ exceptionCaught(c) \/ Close(c) \/ handlerRemoved(c)

Loop(l) ==
  /\ RunTask(l) \/ Visit(l) \/ End(l) \/ \E c \in Clients : LoopOf[c] = l /\ Handler(c)
  /\ UNCHANGED typed

Next ==
  \/ \E l \in Loops : Loop(l)
  \/ \E c \in Clients : (handlerAdded(c) /\ UNCHANGED typed) \/ Type(c) \/ HangUp(c)

Spec == Init /\ [][Next]_vars

\* Every event loop goes on while it has something to do; a handshake ends, as
\* it is given up after a time, and so does the flush before a close.
ChatFair == \A l \in Loops : WF_vars(Loop(l))
FairSpec == Spec /\ ChatFair

(***************************************************************************)
(* Properties.                                                             *)
(***************************************************************************)
States == {"none", "added", "handshake", "failed", "bare", "secured", "closing", "closed", "leaving", "removed"}
Kinds == Lines \cup {"joined", "left", "you", "welcome", "cipher"}
Messages == [from : Clients, k : Nat, kind : Kinds]
Frames == [op : {"added", "read", "removed"}, chan : Clients, k : Nat, kind : Kinds,
           seen : SUBSET Clients, due : SUBSET Clients]

\* The types of the group, the connections and the loops; a loop broadcasts
\* for one of its own connections.
TypeOK ==
  /\ channels \subseteq Clients /\ gone \subseteq Clients
  /\ state \in [Clients -> States]
  /\ lines \in [Clients -> Seq(Lines)]
  /\ run \in [Loops -> Frames \cup {Idle}]
  /\ \A l \in Loops : run[l] # Idle => LoopOf[run[l].chan] = l
  /\ tasks \in [Loops -> Seq(Clients \X Messages)]
  /\ \A l \in Loops : \A i \in DOMAIN tasks[l] : LoopOf[tasks[l][i][1]] = l
  /\ out \in [Clients -> Seq(Messages)]
  /\ said \in [Clients -> Nat]
  /\ typed \in 0 .. MaxLines

\* A member of the group has been sent its greeting, unless its handshake
\* failed, and then it has been sent nothing; no client is sent anything before
\* its greeting, whatever the other loops are in the middle of writing.
Greeted(c) == Len(out[c]) >= 2 /\ \A i \in 1 .. 2 : out[c][i] = Greeting(c)[i]
GreetedFirst ==
  \A c \in Clients :
    /\ c \in channels => (state[c] \in {"secured", "closing"} /\ Greeted(c)) \/ (state[c] = "failed" /\ out[c] = <<>>)
    /\ out[c] # <<>> => state[c] \notin {"none", "added", "handshake", "failed", "bare"} /\ Greeted(c)

\* "Once session is secured, send a greeting and register the channel to the
\* global channel list": no other connection is in the list.
MembersSecured == \A c \in channels : state[c] \in {"secured", "closing"}

\* What a client is sent of another is a contiguous run of what that one's
\* handler broadcast: nothing twice, in another order or left out in the
\* middle, and nothing after it has left.
Heard(r, c) == {i \in DOMAIN out[r] : out[r][i].from = c /\ out[r][i].k > 0}
ContiguousPerSender ==
  \A r, c \in Clients : \A i, j \in Heard(r, c) :
    i < j /\ (\A h \in Heard(r, c) : h <= i \/ j <= h) =>
      out[r][j].k = out[r][i].k + 1 /\ out[r][i].kind # "left"

\* When a broadcast is over, every connection that was in the group all the
\* while has been sent the message or has it in the queue of its loop.
Sent(r, c, k) == \E i \in DOMAIN out[r] : out[r][i].from = c /\ out[r][i].k = k
InQueue(r, c, k) ==
  LET q == tasks[LoopOf[r]] IN \E i \in DOMAIN q : q[i][1] = r /\ q[i][2].from = c /\ q[i][2].k = k
Served(f) == \A r \in f.due \cap channels : Sent(r, f.chan, f.k) \/ InQueue(r, f.chan, f.k) \/ state[r] # "secured"
NobodyForgotten == [][\A l \in Loops : (run[l] # Idle /\ run'[l] = Idle) => Served(run[l])]_vars

\* A client that said bye is disconnected, and no word from it, the note that
\* it left included, stays unsent for ever.
SaysBye(c) == \E l \in Loops : run[l] # Idle /\ run[l].chan = c /\ run[l].kind = "bye"
Unsent(c) == \E l \in Loops : \E i \in DOMAIN tasks[l] : tasks[l][i][2].from = c
ByeCloses == \A c \in Talkers : SaysBye(c) ~> (state[c] = "removed" /\ ~Unsent(c))
=============================================================================
