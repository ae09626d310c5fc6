------------------------------ MODULE MCSundry ------------------------------
(***************************************************************************)
(* The chat server and the book queries, one per behaviour.  Chat: three   *)
(* clients on two event loops, two of them share one, of whom one is       *)
(* unreliable and one only listens.  Books: six authors, the third takes   *)
(* 120 ms, the others 80.                                                  *)
(***************************************************************************)
EXTENDS ChatServer, BookQueries

CONSTANTS c1, c2, c3

VARIABLE part    \* the program that runs

MCClients == {c1, c2, c3}
MCLoopOf == [c \in MCClients |-> IF c = c3 THEN 2 ELSE 1]

MCSleep == [i \in 1 .. 6 |-> IF i = 3 THEN 6 ELSE 4]

\* The delays of the test are such.
ASSUME TestIsWellTimed == WellTimed

SundryInit == part \in {"chat", "books"} /\ Init /\ BookInit

SundryNext ==
  \/ part = "chat" /\ Next /\ UNCHANGED <<part, bookVars>>
  \/ part = "books" /\ BookNext /\ UNCHANGED <<part, vars>>

SundrySpec == SundryInit /\ [][SundryNext]_<<part, vars, bookVars>> /\ ChatFair
=============================================================================
