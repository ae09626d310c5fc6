---------------------------- MODULE MCUserService ----------------------------
\* Small registries of two or three users and the duties of the threads.
EXTENDS UserService

Body(name, address) == [username |-> name, address |-> address, email |-> "e"]

MCDummies == <<Body("sam", "ny"), Body("tomy", "al"), Body("kelly", "ne")>>
MCOneDummy == <<Body("sam", "ny")>>
MCTwoDummies == <<Body("sam", "ny"), Body("tomy", "al")>>
MCBodies == {Body("Tomy", "sh"), Body("ann", "sh"), Body("null", "sh")}
MCOneBody == {Body("ann", "sh")}
MCTwoBodies == {Body("ann", "sh"), Body("bob", "bj")}

MCCaseFold ==
  [name \in {"sam", "tomy", "Tomy", "kelly", "ann", "bob", "null"} |-> IF name = "Tomy" THEN "tomy" ELSE name]

Reads == {"listAllUsers", "getUser"}

MCAll == [t \in Threads |-> Writes \cup Reads]
MCFirstWrites == [t \in Threads |-> IF t = 1 THEN Writes ELSE Reads]
=============================================================================
