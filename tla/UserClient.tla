----------------------------- MODULE UserClient -----------------------------
(***************************************************************************)
(* The Angular pages of the user registry, UserController with its         *)
(* UserService, in one or several browsers, over a server that behaves as  *)
(* Registry.  $http calls run side by side: requests are served in any     *)
(* order, answers come back in any order, and either may be lost.          *)
(***************************************************************************)
EXTENDS Integers, Sequences, FiniteSets

CONSTANTS
  Clients,     \* the open pages
  Dummies, Bodies, Ids, NoName, CaseFold,
  MaxClicks    \* bound on the submits and removals of a behaviour

ASSUME PagesAssumption ==
  LET Representations == [username : STRING, address : STRING, email : STRING]
  IN  /\ NoName \in STRING /\ Dummies \in Seq(Representations) /\ Bodies \subseteq Representations
      /\ Ids \subseteq Nat \ {0} /\ DOMAIN Dummies \subseteq Ids
      /\ MaxClicks \in Nat

VARIABLES
  registry, issued, reply,   \* the server
  users,       \* users[c]: self.users, the list on page c
  form,        \* form[c]: self.user, the user in the form of page c
  net,         \* calls in flight: requests not yet served and answers not yet delivered
  clicks,      \* how many submits and removals were made
  past,        \* history: every list the registry ever held
  calm         \* history: nobody clicked while a call of the page was in flight, and no call was lost

server == <<registry, issued, reply>>
vars == <<server, users, form, net, clicks, past, calm>>

Server == INSTANCE Registry

Blank == Server!WithId(0, Server!NoBody)
BodyOf(user) == [username |-> user.username, address |-> user.address, email |-> user.email]
Pending(c) == {m \in net : m.page = c}

\* status is 0 until the server has handled the request.
Call(c, n, op, id, body) == [page |-> c, n |-> n, op |-> op, id |-> id, body |-> body, status |-> 0, users |-> <<>>]
Fetch(c, n) == Call(c, n, "fetchAllUsers", 0, Server!NoBody)

\* The controller fetches the list when it is built.
Init ==
  /\ Server!Init
  /\ users = [c \in Clients |-> <<>>]
  /\ form = [c \in Clients |-> Blank]
  /\ net = {Fetch(c, 0) : c \in Clients}
  /\ clicks = 0
  /\ past = {<<>>, registry}
  /\ calm = TRUE

Send(c, op, id, body) ==
  /\ clicks < MaxClicks
  /\ clicks' = clicks + 1
  /\ net' = net \cup {Call(c, clicks', op, id, body)}
  /\ calm' = (calm /\ Pending(c) = {})

(***************************************************************************)
(* The page.                                                               *)
(***************************************************************************)
Reset(c) == form' = [form EXCEPT ![c] = Blank]

\* The button is enabled only while the form is dirty and not blank.
ResetForm(c) ==
  /\ form[c] # Blank
  /\ Reset(c)
  /\ UNCHANGED <<server, users, net, clicks, past, calm>>

\* Mutant: the form shares its object with the list.
TypeInList(c) ==
  /\ \E body \in Bodies :
       /\ form' = [form EXCEPT ![c] = Server!WithId(@.id, body)]
       /\ users' = [users EXCEPT ![c] = [i \in DOMAIN @ |-> IF @[i].id = form[c].id THEN form'[c] ELSE @[i]]]
  /\ UNCHANGED <<server, net, clicks, past, calm>>

Type(c) ==
  /\ \E body \in Bodies : form' = [form EXCEPT ![c] = Server!WithId(@.id, body)]
  /\ UNCHANGED <<server, users, net, clicks, past, calm>>

\* The submit button is disabled while the form is invalid.
Submit(c) ==
  /\ form[c].username # NoName
  /\ IF form[c].id = 0
     THEN Send(c, "createUser", 0, BodyOf(form[c]))
     ELSE Send(c, "updateUser", form[c].id, BodyOf(form[c]))
  /\ Reset(c)
  /\ UNCHANGED <<server, users, past>>

\* edit(id): the form gets a copy of the first listed user with that id.
Edit(c) ==
  /\ \E i \in DOMAIN users[c] :
       /\ \A j \in 1 .. i - 1 : users[c][j].id # users[c][i].id
       /\ form' = [form EXCEPT ![c] = users[c][i]]
  /\ calm' = (calm /\ Pending(c) = {})
  /\ UNCHANGED <<server, users, net, clicks, past>>

\* Mutant: the form stays as it is.
RemoveKeepsForm(c) ==
  /\ \E i \in DOMAIN users[c] : Send(c, "deleteUser", users[c][i].id, Server!NoBody)
  /\ UNCHANGED <<server, users, form, past>>

\* remove(id): the form is cleaned if it shows the user to be deleted.
RemoveUser(c) ==
  /\ \E i \in DOMAIN users[c] :
       LET id == users[c][i].id IN
         /\ IF form[c].id = id THEN Reset(c) ELSE form' = form
         /\ Send(c, "deleteUser", id, Server!NoBody)
  /\ UNCHANGED <<server, users, past>>

(***************************************************************************)
(* The server handles a request; its answer travels back.                  *)
(***************************************************************************)
Changes == {"createUser", "updateUser", "deleteUser"}

Handle(m) ==
  CASE m.op = "createUser" -> Server!Create(m.body)
    [] m.op = "updateUser" -> Server!Update(m.id, m.body)
    [] m.op = "deleteUser" -> Server!Delete(m.id)

ServeChange ==
  /\ \E m \in net :
       /\ m.status = 0 /\ m.op \in Changes
       /\ Handle(m)
       /\ net' = (net \ {m}) \cup {[m EXCEPT !.status = reply'.status]}
  /\ past' = past \cup {registry'}
  /\ UNCHANGED <<users, form, clicks, calm>>

\* An empty registry is answered 204 without data.
ServeFetch ==
  /\ \E m \in net :
       /\ m.status = 0 /\ m.op = "fetchAllUsers"
       /\ net' = (net \ {m}) \cup {[m EXCEPT !.status = IF registry = <<>> THEN 204 ELSE 200, !.users = registry]}
  /\ UNCHANGED <<server, users, form, clicks, past, calm>>

(***************************************************************************)
(* Answers: a change that succeeded fetches the list again, one that       *)
(* failed is only logged; a fetched list replaces the list on the page.    *)
(***************************************************************************)
Succeeded(m) == m.status \in 200 .. 299

\* Mutant: the list is not fetched again after a removal.
ChangeDoneQuietly ==
  /\ \E m \in net :
       /\ m.status # 0 /\ m.op \in Changes
       /\ net' = (net \ {m}) \cup (IF m.status \in {200, 201} THEN {Fetch(m.page, m.n)} ELSE {})
  /\ UNCHANGED <<server, users, form, clicks, past, calm>>

ChangeDone ==
  /\ \E m \in net :
       /\ m.status # 0 /\ m.op \in Changes
       /\ net' = (net \ {m}) \cup (IF Succeeded(m) THEN {Fetch(m.page, m.n)} ELSE {})
  /\ UNCHANGED <<server, users, form, clicks, past, calm>>

FetchDone ==
  /\ \E m \in net :
       /\ m.status # 0 /\ m.op = "fetchAllUsers"
       /\ net' = net \ {m}
       /\ users' = [users EXCEPT ![m.page] = m.users]
  /\ UNCHANGED <<server, form, clicks, past, calm>>

\* The connection fails before or after the server handled the request.
Lose ==
  /\ \E m \in net : net' = net \ {m}
  /\ calm' = FALSE
  /\ UNCHANGED <<server, users, form, clicks, past>>

Network == ServeChange \/ ServeFetch \/ ChangeDone \/ FetchDone

Next ==
  \/ \E c \in Clients : ResetForm(c) \/ Type(c) \/ Submit(c) \/ Edit(c) \/ RemoveUser(c)
  \/ Network
  \/ Lose

Spec == Init /\ [][Next]_vars

\* Calls that are not lost are served and answered; users need do nothing.
FairSpec == Spec /\ WF_vars(Network)

(***************************************************************************)
(* Properties.                                                             *)
(***************************************************************************)
IdsIn(list) == {list[i].id : i \in DOMAIN list}
Settled(c) == Pending(c) = {}

\* A page never shows what no registry held: not what is being typed over a
\* listed user, nor an optimistic guess at the outcome of a call.
PageShowsRegistry == \A c \in Clients : users[c] \in past

\* With one page whose user waits for each call, the page is true to the
\* registry whenever nothing is in flight, also after a call that failed: its
\* list is the registry, and its form shows no user who is gone.
SettledPageFresh ==
  \A c \in Clients : Clients = {c} /\ calm /\ Settled(c) =>
    users[c] = registry /\ form[c].id \in {0} \cup IdsIn(registry)

\* With one page whose user waits, every change comes to be shown.
ChangesShown ==
  \A c \in Clients : Clients = {c} /\ []calm => []<>(users[c] = registry)
=============================================================================
