---------------------------- MODULE MCUserClient ----------------------------
\* One page over a registry of two users.
EXTENDS UserClient

Body(name, address) == [username |-> name, address |-> address, email |-> "e"]

MCDummies == <<Body("sam", "ny"), Body("tomy", "al")>>
MCBodies == {Body("Tomy", "sh"), Body("ann", "sh")}
MCCaseFold == [name \in {"sam", "tomy", "Tomy", "ann"} |-> IF name = "Tomy" THEN "tomy" ELSE name]
=============================================================================
