--------------------------- MODULE MCSelectServer ---------------------------
\* Clients that write the letter a and newlines, or newlines only; of the
\* clients of the table run at most two write.
EXTENDS SelectServer, TLC

MCBytes == {97, NewLine}
MCNewLines == {NewLine}
MCSymmetry == Permutations(Conns)
TwoWrite == Cardinality({c \in Conns : sent[c] # <<>>}) <= 2
=============================================================================
