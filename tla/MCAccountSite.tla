--------------------------- MODULE MCAccountSite ---------------------------
\* A password that is trimmed to another.
EXTENDS AccountSite

MCTrimmed == [t \in Passwords |-> IF t = "pass " THEN "pass" ELSE t]
=============================================================================
