----------------------------- MODULE MCServers -----------------------------
(***************************************************************************)
(* The line servers, the Rio package and the codecs, one per behaviour.    *)
(* Two clients: one writes three bytes, the other one, the letter a or a   *)
(* newline each; the child's buffer has two bytes, as has the high         *)
(* watermark; the limit on descriptors lets one connection in or both. Rio *)
(* reads no bytes, or three with a newline nowhere, in the middle, or at   *)
(* both ends: more than the internal buffer and one call take.  Codecs:    *)
(* every value of up to five of the octets 0 and 255, which is two groups  *)
(* of three, and every value of up to three of the code units '\', 'n',    *)
(* 'u', '~', 127 and the euro sign; a print buffer of eight holds the      *)
(* digits of three octets and their zero, a room of four the digits of     *)
(* three octets and of nine those of five, the latter with their zero; the *)
(* memory behind holds a zero or two digits.                               *)
(***************************************************************************)
EXTENDS ForkServer, BuffereventServer, Rio, Codecs

VARIABLE part    \* the program that runs

MCLetters == {97, NewLine}
MCLongest == <<3, 1>>
SeqsUpTo(S, n) == UNION {[1 .. k -> S] : k \in 0 .. n}
MCEncodable == SeqsUpTo({0, 255}, 5) \cup SeqsUpTo({92, 110, 117, 126, 127, 8364}, 3)
MCRooms == {4, 9}
MCBeyond == {<<>>, <<65, 65>>}

MCInputs == {<<>>, <<1, 2, 3>>, <<1, LineFeed, 2>>, <<LineFeed, 1, LineFeed>>}

\* What does not run is as it begins, and begins in one way; do_accept goes on
\* after a failed accept(), so one limit is enough for it.
ServersInit ==
  /\ part \in {"server", "rio", "codecs"}
  /\ SocketsInit /\ (part # "server" => program = "echo_server" /\ nofile = 2)
                 /\ (program = "rot13_libevent_2nd" => nofile = 3)
  /\ BuffersInit /\ EventsInit
  /\ Init /\ (part # "rio" => src = <<>>)
  /\ CodecInit /\ (part # "codecs" => data = <<>>)

ServersNext ==
  \/ part = "server" /\ ForkNext /\ UNCHANGED <<part, vars, codecVars, events>>
  \/ part = "server" /\ BevLoop /\ UNCHANGED <<part, vars, codecVars, buffers>>
  \/ part = "rio" /\ Next /\ UNCHANGED <<part, codecVars, sockets, buffers, events>>
  \/ part = "codecs" /\ CodecNext /\ UNCHANGED <<part, vars, sockets, buffers, events>>

ServersSpec ==
  /\ ServersInit /\ [][ServersNext]_<<part, vars, codecVars, sockets, buffers, events>>
  /\ ForkFair /\ RioFair
=============================================================================
