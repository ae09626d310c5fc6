------------------------------ MODULE Registry ------------------------------
(***************************************************************************)
(* What the REST interface promises of its writes when they do not         *)
(* overlap: each is one atomic step on a list of users, answered by a      *)
(* status.  New users get ids never seen before and go to the end; an      *)
(* update keeps the user's place and id; nothing else changes.             *)
(***************************************************************************)
EXTENDS Integers, Sequences, SequencesExt

CONSTANTS Dummies, Bodies, Ids, NoName, CaseFold

VARIABLES
  registry,   \* the users, in the order they are listed
  issued,     \* the ids handed out so far
  reply       \* the last write: [op, id, body, status]

vars == <<registry, issued, reply>>

WithId(id, body) == [id |-> id, username |-> body.username, address |-> body.address, email |-> body.email]
NoBody == [username |-> NoName, address |-> NoName, email |-> NoName]

Init ==
  /\ registry = [i \in DOMAIN Dummies |-> WithId(i, Dummies[i])]
  /\ issued = DOMAIN Dummies
  /\ reply = [op |-> "none", id |-> 0, body |-> NoBody, status |-> 0]

Listed(id) == \E i \in DOMAIN registry : registry[i].id = id
\* equalsIgnoreCase() of the name and that of a listed user.
Taken(name) ==
  /\ name # NoName
  /\ \E i \in DOMAIN registry :
       registry[i].username # NoName /\ CaseFold[registry[i].username] = CaseFold[name]

Replied(op, id, body, status) == reply' = [op |-> op, id |-> id, body |-> body, status |-> status]

Nameless == \E i \in DOMAIN registry : registry[i].username = NoName

\* A user without a name makes a lookup by name fail before it reaches the end.
Create(body) ==
  \/ /\ ~Taken(body.username) /\ ~Nameless
     /\ \E id \in Ids \ issued :
          /\ registry' = Append(registry, WithId(id, body))
          /\ issued' = issued \cup {id}
          /\ Replied("createUser", id, body, 201)
  \/ /\ Taken(body.username)
     /\ Replied("createUser", 0, body, 409)
     /\ UNCHANGED <<registry, issued>>
  \/ /\ Nameless
     /\ Replied("createUser", 0, body, 500)
     /\ UNCHANGED <<registry, issued>>

Update(id, body) ==
  /\ Replied("updateUser", id, body, IF Listed(id) THEN 200 ELSE 404)
  /\ registry' = [i \in DOMAIN registry |-> IF registry[i].id = id THEN WithId(id, body) ELSE registry[i]]
  /\ UNCHANGED issued

Delete(id) ==
  /\ Replied("deleteUser", id, NoBody, IF Listed(id) THEN 204 ELSE 404)
  /\ IF Listed(id)
     THEN \E i \in DOMAIN registry : registry[i].id = id /\ registry' = RemoveAt(registry, i)
     ELSE UNCHANGED registry
  /\ UNCHANGED issued

DeleteAll ==
  /\ Replied("deleteAllUsers", 0, NoBody, 204)
  /\ registry' = <<>>
  /\ UNCHANGED issued

Next ==
  \/ \E body \in Bodies : Create(body) \/ \E id \in Ids : Update(id, body)
  \/ \E id \in Ids : Delete(id)
  \/ DeleteAll

Spec == Init /\ [][Next]_vars
=============================================================================
