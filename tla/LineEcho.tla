------------------------------ MODULE LineEcho ------------------------------
(***************************************************************************)
(* What a line echo server promises each connection, without buffers,      *)
(* cursors or descriptors: of each chunk of input it keeps a prefix,       *)
(* converted by rot13; it replies with what it kept, in order, and never   *)
(* beyond the last newline it saw; when a connection ends, what was not    *)
(* replied is forgotten.                                                   *)
(***************************************************************************)
EXTENDS Integers, Sequences, Rot13

CONSTANTS Conns, Bytes

VARIABLES
  sent,     \* sent[c]: what the client of c wrote
  taken,    \* taken[c]: how much of it the server has read
  kept,     \* kept[c]: the converted bytes the server kept
  commit,   \* commit[c]: how many of them may be replied
  out,      \* out[c]: the reply
  ended     \* ended[c]: the server closed the connection

vars == <<sent, taken, kept, commit, out, ended>>

Init ==
  /\ sent = [c \in Conns |-> <<>>]
  /\ taken = [c \in Conns |-> 0]
  /\ kept = [c \in Conns |-> <<>>]
  /\ commit = [c \in Conns |-> 0]
  /\ out = [c \in Conns |-> <<>>]
  /\ ended = [c \in Conns |-> FALSE]

Write(c) ==
  /\ \E b \in Bytes : sent' = [sent EXCEPT ![c] = Append(@, b)]
  /\ UNCHANGED <<taken, kept, commit, out, ended>>

LastNewLine(s, j) == s[j] = NewLine /\ \A k \in j + 1 .. Len(s) : s[k] # NewLine

\* n bytes are read and the first k of them kept.
Take(c) ==
  /\ ~ended[c]
  /\ \E n \in 1 .. Len(sent[c]) - taken[c] : \E k \in 0 .. n :
       LET chunk == SubSeq(sent[c], taken[c] + 1, taken[c] + n)
       IN  /\ taken' = [taken EXCEPT ![c] = @ + n]
           /\ kept' = [kept EXCEPT ![c] = @ \o SubSeq(Rot13Of(chunk), 1, k)]
           /\ IF \A j \in 1 .. n : chunk[j] # NewLine
              THEN commit' = commit
              ELSE \E j \in 1 .. n :
                     /\ LastNewLine(chunk, j)
                     /\ commit' = [commit EXCEPT ![c] =
                          Len(kept[c]) + IF j <= k THEN j ELSE k]
  /\ UNCHANGED <<sent, out, ended>>

Reply(c) ==
  /\ ~ended[c]
  /\ \E m \in Len(out[c]) + 1 .. commit[c] :
       out' = [out EXCEPT ![c] = SubSeq(kept[c], 1, m)]
  /\ UNCHANGED <<sent, taken, kept, commit, ended>>

\* One connection ends, or several at once when the server does.
End(C) ==
  /\ \A c \in C : ~ended[c]
  /\ ended' = [c \in Conns |-> c \in C \/ ended[c]]
  /\ kept' = [c \in Conns |-> IF c \in C THEN out[c] ELSE kept[c]]
  /\ commit' = [c \in Conns |-> IF c \in C THEN Len(out[c]) ELSE commit[c]]
  /\ UNCHANGED <<sent, taken, out>>

Next == \/ \E c \in Conns : Write(c) \/ Take(c) \/ Reply(c)
        \/ \E C \in SUBSET Conns : End(C)

Spec == Init /\ [][Next]_vars
=============================================================================
