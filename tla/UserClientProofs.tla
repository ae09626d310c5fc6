-------------------------- MODULE UserClientProofs --------------------------
(***************************************************************************)
(* What the pages of the user registry show, for any number of pages,      *)
(* users and clicks: only lists the registry held, and, on a single page   *)
(* whose user waits for each call, the registry itself once the page has   *)
(* heard of everything.                                                    *)
(***************************************************************************)
EXTENDS UserClient, DataTheorems

Representation == [username : STRING, address : STRING, email : STRING]
User == [id : Ids, username : STRING, address : STRING, email : STRING]
Shown == [id : Ids \cup {0}, username : STRING, address : STRING, email : STRING]
Calls == [page : Clients, n : Nat, op : Changes \cup {"fetchAllUsers"}, id : Ids \cup {0}, body : Representation,
          status : Nat, users : Seq(User)]

ClientTypeOK ==
  /\ registry \in Seq(User)
  /\ users \in [Clients -> Seq(User)]
  /\ form \in [Clients -> Shown]
  /\ net \subseteq Calls
  /\ clicks \in Nat

\* Every list a page shows, or is about to show, is one the registry held.
PastInv ==
  /\ ClientTypeOK
  /\ registry \in past
  /\ PageShowsRegistry
  /\ \A m \in net : m.status # 0 /\ m.op = "fetchAllUsers" => m.users \in past

\* The only page, while its user waits: at most one call is in flight, and what
\* the call and the page know fits the registry.
Waiting(c) ==
  /\ \A m, k \in net : m = k
  /\ form[c].id \in {0} \cup IdsIn(registry)
  /\ net = {} => users[c] = registry
  /\ \A m \in net :
       /\ m.op = "fetchAllUsers" /\ m.status # 0 => m.users = registry
       /\ m.op \in Changes /\ ~Succeeded(m) => users[c] = registry
       /\ m.op = "deleteUser" /\ m.status = 0 => m.id \notin {0, form[c].id}

CalmInv == \A c \in Clients : Clients = {c} /\ calm => Waiting(c)

(***************************************************************************)
(* The steps of the server.                                                *)
(***************************************************************************)
LEMMA Types ==
  /\ Server!NoBody \in Representation /\ Blank \in Shown /\ Blank.id = 0
  /\ \A id \in Ids, body \in Representation : Server!WithId(id, body) \in User /\ Server!WithId(id, body).id = id
  /\ \A id \in Ids \cup {0}, body \in Representation : Server!WithId(id, body) \in Shown /\ Server!WithId(id, body).id = id
  /\ \A user \in Shown : BodyOf(user) \in Representation
  /\ User \subseteq Shown /\ 0 \notin Ids /\ Bodies \subseteq Representation
BY PagesAssumption DEF Server!NoBody, Representation, Blank, Shown, User, Server!WithId, BodyOf

\* A change is answered; one that fails leaves the registry as it is, and one
\* that succeeds keeps every id but the one it deletes.
LEMMA Handled ==
  ASSUME ClientTypeOK, NEW m \in Calls, m.op \in Changes, Handle(m)
  PROVE  /\ registry' \in Seq(User)
         /\ reply'.status \in Nat \ {0}
         /\ reply'.status \notin 200 .. 299 => registry' = registry
         /\ \A id \in IdsIn(registry) : id \in IdsIn(registry') \/ (m.op = "deleteUser" /\ id = m.id)
<1>1. registry \in Seq(User) /\ m.body \in Representation
  BY DEF ClientTypeOK, Calls
<1>2. CASE m.op = "createUser"
  <2>1. Server!Create(m.body)
    BY <1>2 DEF Handle
  <2>2. ASSUME NEW id \in Ids, registry' = Append(registry, Server!WithId(id, m.body)), reply'.status = 201
        PROVE  registry' \in Seq(User) /\ \A x \in IdsIn(registry) : x \in IdsIn(registry')
    <3> DEFINE user == Server!WithId(id, m.body)
    <3>1. user \in User
      BY <1>1, Types
    <3> HIDE DEF user
    <3>2. registry' = Append(registry, user)
      BY <2>2 DEF user
    <3>3. /\ registry' \in Seq(User) /\ DOMAIN registry \subseteq DOMAIN registry'
          /\ \A i \in DOMAIN registry : registry'[i] = registry[i]
      BY <1>1, <3>1, <3>2
    <3> QED BY <3>3 DEF IdsIn
  <2>3. \/ \E id \in Ids : registry' = Append(registry, Server!WithId(id, m.body)) /\ reply'.status = 201
        \/ registry' = registry /\ reply'.status \in {409, 500}
    BY <2>1 DEF Server!Create, Server!Replied
  <2>4. CASE registry' = registry /\ reply'.status \in {409, 500}
    BY <1>1, <2>4
  <2> QED BY <2>2, <2>3, <2>4
<1>3. CASE m.op = "updateUser"
  <2>1. Server!Update(m.id, m.body)
    BY <1>3 DEF Handle
  <2>2. /\ reply'.status = IF Server!Listed(m.id) THEN 200 ELSE 404
        /\ registry' = [i \in DOMAIN registry |->
             IF registry[i].id = m.id THEN Server!WithId(m.id, m.body) ELSE registry[i]]
    BY <2>1 DEF Server!Update, Server!Replied
  <2>3. \A i \in DOMAIN registry : registry[i].id = m.id => m.id \in Ids
    <3>1. \A i \in DOMAIN registry : registry[i] \in User
      BY <1>1
    <3> QED BY <3>1 DEF User
  <2>4. \A i \in DOMAIN registry : registry[i].id = m.id =>
          Server!WithId(m.id, m.body) \in User /\ Server!WithId(m.id, m.body).id = m.id
    BY <1>1, <2>3, Types
  <2> DEFINE user == Server!WithId(m.id, m.body)
  <2> HIDE DEF user
  <2>5. registry' = [i \in DOMAIN registry |-> IF registry[i].id = m.id THEN user ELSE registry[i]]
    BY <2>2 DEF user
  <2>6. \A i \in DOMAIN registry : registry[i].id = m.id => user \in User /\ user.id = m.id
    BY <2>4 DEF user
  <2>7. /\ registry' \in Seq(User) /\ DOMAIN registry' = DOMAIN registry
        /\ \A i \in DOMAIN registry : registry'[i].id = registry[i].id
    BY <1>1, <2>5, <2>6
  <2>8. \A id \in IdsIn(registry) : id \in IdsIn(registry')
    BY <2>7 DEF IdsIn
  <2>9. ASSUME reply'.status \notin 200 .. 299 PROVE registry' = registry
    <3>1. \A i \in DOMAIN registry : registry[i].id # m.id
      BY <2>2, <2>9 DEF Server!Listed
    <3>2. registry' = [i \in DOMAIN registry |-> registry[i]]
      BY <2>5, <3>1
    <3> QED BY <1>1, <3>2
  <2> QED BY <2>2, <2>7, <2>8, <2>9
<1>4. CASE m.op = "deleteUser"
  <2>1. Server!Delete(m.id)
    BY <1>4 DEF Handle
  <2>2. reply'.status = IF Server!Listed(m.id) THEN 204 ELSE 404
    BY <2>1 DEF Server!Delete, Server!Replied
  <2>3. CASE Server!Listed(m.id)
    <3>1. PICK k \in DOMAIN registry : registry[k].id = m.id /\ registry' = RemoveAt(registry, k)
      BY <2>1, <2>3 DEF Server!Delete, RemoveAt, Server!RemoveAt
    <3>2. /\ registry' \in Seq(User)
          /\ \A j \in DOMAIN registry : j # k => \E i \in DOMAIN registry' : registry'[i] = registry[j]
      BY <1>1, <3>1, RemoveAtKeeps
    <3>3. \A id \in IdsIn(registry) : id \in IdsIn(registry') \/ id = m.id
      BY <3>1, <3>2 DEF IdsIn
    <3> QED BY <1>4, <2>2, <2>3, <3>2, <3>3
  <2>4. CASE ~Server!Listed(m.id)
    <3>1. registry' = registry
      BY <2>1, <2>4 DEF Server!Delete
    <3> QED BY <1>1, <2>2, <2>4, <3>1
  <2> QED BY <2>3, <2>4
<1> QED BY <1>2, <1>3, <1>4 DEF Changes

(***************************************************************************)
(* Types and the past.                                                     *)
(***************************************************************************)
LEMMA NewCall ==
  ASSUME NEW c \in Clients, NEW n \in Nat, NEW op \in Changes \cup {"fetchAllUsers"}, NEW id \in Ids \cup {0},
         NEW body \in Representation
  PROVE  /\ Call(c, n, op, id, body) \in Calls
         /\ Call(c, n, op, id, body).op = op /\ Call(c, n, op, id, body).status = 0 /\ Call(c, n, op, id, body).id = id
BY DEF Call, Calls

LEMMA FetchCall ==
  ASSUME NEW c \in Clients, NEW n \in Nat
  PROVE  /\ Fetch(c, n) \in Calls
         /\ Fetch(c, n).op = "fetchAllUsers" /\ Fetch(c, n).status = 0 /\ Fetch(c, n).id = 0
<1>1. Server!NoBody \in Representation /\ 0 \in Ids \cup {0} /\ "fetchAllUsers" \in Changes \cup {"fetchAllUsers"}
  BY Types
<1>2. Fetch(c, n) = Call(c, n, "fetchAllUsers", 0, Server!NoBody)
  BY DEF Fetch
<1> QED BY <1>1, <1>2, NewCall

LEMMA InitPast == Init => PastInv
<1> SUFFICES ASSUME Init PROVE PastInv
  OBVIOUS
<1>1. registry \in Seq(User)
  <2>1. Dummies \in Seq(Representation) /\ DOMAIN Dummies \subseteq Ids
    BY PagesAssumption DEF Representation
  <2>2. registry = [i \in DOMAIN Dummies |-> Server!WithId(i, Dummies[i])]
    BY DEF Init, Server!Init
  <2>3. \A i \in DOMAIN Dummies : Server!WithId(i, Dummies[i]) \in User
    BY <2>1, Types
  <2>4. DOMAIN Dummies = 1 .. Len(Dummies) /\ Len(Dummies) \in Nat
    BY <2>1
  <2> QED BY <2>2, <2>3, <2>4
<1>2. \A c \in Clients : Fetch(c, 0) \in Calls /\ Fetch(c, 0).status = 0
  BY FetchCall
<1>3. ClientTypeOK
  BY <1>1, <1>2, Types DEF Init, ClientTypeOK
<1>4. \A m \in net : m.status = 0
  BY <1>2 DEF Init
<1> QED BY <1>3, <1>4 DEF Init, PastInv, PageShowsRegistry

\* The calls in flight after a call is answered or delivered.
LEMMA ChangeAnswered ==
  ASSUME NEW m \in Calls, NEW status \in Nat, NEW k, k = [m EXCEPT !.status = status]
  PROVE  k \in Calls /\ k.op = m.op /\ k.status = status /\ k.users = m.users /\ k.id = m.id /\ k.page = m.page
BY DEF Calls

LEMMA FetchAnswered ==
  ASSUME NEW m \in Calls, NEW status \in Nat, NEW list \in Seq(User),
         NEW k, k = [m EXCEPT !.status = status, !.users = list]
  PROVE  k \in Calls /\ k.op = m.op /\ k.status = status /\ k.users = list /\ k.id = m.id /\ k.page = m.page
BY DEF Calls

LEMMA StepPast == PastInv /\ [Next]_vars => PastInv'
<1> SUFFICES ASSUME PastInv, [Next]_vars PROVE PastInv'
  OBVIOUS
<1>1. ClientTypeOK /\ registry \in past /\ (\A c \in Clients : users[c] \in past)
      /\ \A m \in net : m.status # 0 /\ m.op = "fetchAllUsers" => m.users \in past
  BY DEF PastInv, PageShowsRegistry
\* Only a call is added, one that is not answered yet.
<1>2. ASSUME ClientTypeOK', UNCHANGED <<registry, past, users>>,
             \A m \in net' : m \in net \/ m.status = 0
      PROVE  PastInv'
  BY <1>1, <1>2 DEF PastInv, PageShowsRegistry
<1>3. ASSUME NEW c \in Clients, NEW op \in Changes, NEW id \in Ids \cup {0}, NEW body \in Representation,
             Send(c, op, id, body), form' \in [Clients -> Shown], UNCHANGED <<server, users, past>>
      PROVE  PastInv'
  <2>1. net' = net \cup {Call(c, clicks', op, id, body)} /\ clicks' = clicks + 1 /\ clicks' \in Nat
    BY <1>1, <1>3 DEF Send, ClientTypeOK
  <2>2. Call(c, clicks', op, id, body) \in Calls /\ Call(c, clicks', op, id, body).status = 0
    BY <2>1, NewCall
  <2>3. ClientTypeOK'
    BY <1>1, <1>3, <2>1, <2>2 DEF ClientTypeOK, server
  <2> QED BY <1>2, <1>3, <2>1, <2>2, <2>3 DEF server
<1>4. ASSUME NEW c \in Clients, ResetForm(c) \/ Type(c) \/ Edit(c) PROVE PastInv'
  <2>1. UNCHANGED <<server, users, net, clicks, past>>
    BY <1>4 DEF ResetForm, Type, Edit
  <2>2. form' \in [Clients -> Shown]
    <3>1. CASE ResetForm(c)
      BY <1>1, <3>1, Types DEF ResetForm, Reset, ClientTypeOK
    <3>2. CASE Type(c)
      <4>1. PICK body \in Bodies : form' = [form EXCEPT ![c] = Server!WithId(form[c].id, body)]
        BY <3>2 DEF Type
      <4>2. form[c].id \in Ids \cup {0} /\ body \in Representation
        BY <1>1, Types DEF ClientTypeOK, Shown
      <4>3. Server!WithId(form[c].id, body) \in Shown
        BY <4>2, Types
      <4> QED BY <1>1, <4>1, <4>3 DEF ClientTypeOK
    <3>3. CASE Edit(c)
      <4>1. PICK i \in DOMAIN users[c] : form' = [form EXCEPT ![c] = users[c][i]]
        BY <3>3 DEF Edit
      <4>2. users[c][i] \in User
        BY <1>1 DEF ClientTypeOK
      <4>3. users[c][i] \in Shown
        BY <4>2, Types
      <4> QED BY <1>1, <4>1, <4>3 DEF ClientTypeOK
    <3> QED BY <1>4, <3>1, <3>2, <3>3
  <2>3. ClientTypeOK'
    BY <1>1, <2>1, <2>2 DEF ClientTypeOK, server
  <2> QED BY <1>2, <2>1, <2>3 DEF server
<1>5. ASSUME NEW c \in Clients, Submit(c) PROVE PastInv'
  <2>1. form[c] \in Shown /\ form' \in [Clients -> Shown] /\ UNCHANGED <<server, users, past>>
    BY <1>1, <1>5, Types DEF ClientTypeOK, Submit, Reset
  <2>2. BodyOf(form[c]) \in Representation /\ form[c].id \in Ids \cup {0}
    BY <2>1, Types DEF Shown
  <2>3. Send(c, "createUser", 0, BodyOf(form[c])) \/ Send(c, "updateUser", form[c].id, BodyOf(form[c]))
    BY <1>5 DEF Submit
  <2> QED BY <1>3, <2>1, <2>2, <2>3 DEF Changes
<1>6. ASSUME NEW c \in Clients, RemoveUser(c) PROVE PastInv'
  <2>1. PICK i \in DOMAIN users[c] :
          /\ IF form[c].id = users[c][i].id THEN Reset(c) ELSE form' = form
          /\ Send(c, "deleteUser", users[c][i].id, Server!NoBody)
    BY <1>6 DEF RemoveUser
  <2>2. users[c][i].id \in Ids \cup {0}
    <3>1. users[c] \in Seq(User)
      BY <1>1 DEF ClientTypeOK
    <3>2. users[c][i] \in User
      BY <3>1
    <3> QED BY <3>2 DEF User
  <2>3. form' \in [Clients -> Shown] /\ UNCHANGED <<server, users, past>>
    BY <1>1, <1>6, <2>1, Types DEF ClientTypeOK, Reset, RemoveUser
  <2> QED BY <1>3, <2>1, <2>2, <2>3, Types DEF Changes
<1>7. CASE ServeChange
  <2>1. PICK m \in net : /\ m.op \in Changes /\ Handle(m)
                         /\ net' = (net \ {m}) \cup {[m EXCEPT !.status = reply'.status]}
    BY <1>7 DEF ServeChange
  <2>2. m \in Calls /\ registry' \in Seq(User) /\ reply'.status \in Nat /\ m.users \in Seq(User)
    BY <1>1, <2>1, Handled DEF ClientTypeOK, Calls
  <2> DEFINE k == [m EXCEPT !.status = reply'.status]
  <2>3. k \in Calls /\ k.op = m.op
    BY <2>2, ChangeAnswered
  <2> HIDE DEF k
  <2>4. past' = past \cup {registry'} /\ UNCHANGED <<users, form, clicks>> /\ net' = (net \ {m}) \cup {k}
    BY <1>7, <2>1 DEF ServeChange, k
  <2>5. ClientTypeOK'
    <3>1. net' \subseteq Calls
      BY <1>1, <2>3, <2>4 DEF ClientTypeOK
    <3> QED BY <1>1, <2>2, <2>4, <3>1 DEF ClientTypeOK
  <2>6. "fetchAllUsers" \notin Changes
    BY DEF Changes
  <2> QED BY <1>1, <2>1, <2>3, <2>4, <2>5, <2>6 DEF PastInv, PageShowsRegistry
<1>8. CASE ServeFetch
  <2> DEFINE status == IF registry = <<>> THEN 204 ELSE 200
  <2>1. PICK m \in net : net' = (net \ {m}) \cup {[m EXCEPT !.status = status, !.users = registry]}
    BY <1>8 DEF ServeFetch
  <2>2. m \in Calls /\ status \in Nat /\ registry \in Seq(User)
    BY <1>1 DEF ClientTypeOK
  <2> DEFINE k == [m EXCEPT !.status = status, !.users = registry]
  <2> HIDE DEF status
  <2>3. k \in Calls /\ k.users = registry
    BY <2>2 DEF Calls
  <2> HIDE DEF k
  <2>4. UNCHANGED <<server, users, form, clicks, past>> /\ net' = (net \ {m}) \cup {k}
    BY <1>8, <2>1 DEF ServeFetch, k
  <2>5. ClientTypeOK'
    <3>1. net' \subseteq Calls
      BY <1>1, <2>3, <2>4 DEF ClientTypeOK
    <3> QED BY <1>1, <2>4, <3>1 DEF ClientTypeOK, server
  <2> QED BY <1>1, <2>3, <2>4, <2>5 DEF PastInv, PageShowsRegistry, server
<1>9. CASE ChangeDone
  <2>1. PICK m \in net : net' = (net \ {m}) \cup (IF Succeeded(m) THEN {Fetch(m.page, m.n)} ELSE {})
    BY <1>9 DEF ChangeDone
  <2>2. UNCHANGED <<server, users, form, clicks, past>>
    BY <1>9 DEF ChangeDone
  <2>3. Fetch(m.page, m.n) \in Calls /\ Fetch(m.page, m.n).status = 0
    <3>1. m.page \in Clients /\ m.n \in Nat
      BY <1>1 DEF ClientTypeOK, Calls
    <3> QED BY <3>1, FetchCall
  <2>4. ClientTypeOK'
    BY <1>1, <2>1, <2>2, <2>3 DEF ClientTypeOK, server
  <2> QED BY <1>2, <2>1, <2>2, <2>3, <2>4 DEF server
<1>10. CASE FetchDone
  <2>1. PICK m \in net : /\ m.status # 0 /\ m.op = "fetchAllUsers" /\ net' = net \ {m}
                         /\ users' = [users EXCEPT ![m.page] = m.users]
    BY <1>10 DEF FetchDone
  <2>2. UNCHANGED <<server, form, clicks, past>>
    BY <1>10 DEF FetchDone
  <2>3. m.users \in Seq(User) /\ m.users \in past
    BY <1>1, <2>1 DEF ClientTypeOK, Calls
  <2>4. ClientTypeOK'
    BY <1>1, <2>1, <2>2, <2>3 DEF ClientTypeOK, server
  <2>5. \A c \in Clients : users'[c] \in past
    BY <1>1, <2>1, <2>3 DEF ClientTypeOK
  <2> QED BY <1>1, <2>1, <2>2, <2>4, <2>5 DEF PastInv, PageShowsRegistry, server
<1>11. CASE Lose
  <2>1. UNCHANGED <<server, users, form, clicks, past>> /\ net' \subseteq net
    BY <1>11 DEF Lose
  <2>2. ClientTypeOK'
    BY <1>1, <2>1 DEF ClientTypeOK, server
  <2> QED BY <1>2, <2>1, <2>2 DEF server
<1>12. CASE UNCHANGED vars
  BY <1>1, <1>2, <1>12 DEF vars, server, ClientTypeOK
<1> QED BY <1>4, <1>5, <1>6, <1>7, <1>8, <1>9, <1>10, <1>11, <1>12 DEF Next, Network

\* The invariant of the past holds in every behaviour.
THEOREM PastSafe == Spec => []PastInv
BY InitPast, StepPast, PTL DEF Spec

\* A page never shows a list that the registry did not hold, however answers
\* are reordered and lost and however many pages change the registry.
THEOREM PagesShowTheRegistry == Spec => []PageShowsRegistry
<1>1. PastInv => PageShowsRegistry
  BY DEF PastInv
<1> QED BY <1>1, PastSafe, PTL

(***************************************************************************)
(* One page whose user waits.                                              *)
(***************************************************************************)
LEMMA InitCalm == Init => CalmInv
<1> SUFFICES ASSUME Init, NEW c \in Clients, Clients = {c} PROVE Waiting(c)
  BY DEF CalmInv
<1>1. net = {Fetch(c, 0)} /\ form[c] = Blank
  BY DEF Init
<1>2. Fetch(c, 0).op = "fetchAllUsers" /\ Fetch(c, 0).status = 0
  BY FetchCall
<1> QED BY <1>1, <1>2, Types DEF Waiting, Changes

\* A step of the only page, or of the network, while its user waits.
LEMMA StepWaiting ==
  ASSUME PastInv, NEW c \in Clients, Clients = {c}, Waiting(c), calm', Next
  PROVE  Waiting(c)'
<1>1. ClientTypeOK /\ form[c] \in Shown /\ Pending(c) = net
  BY DEF PastInv, ClientTypeOK, Pending, Calls
<1>2. /\ \A m, k \in net : m = k
      /\ form[c].id \in {0} \cup IdsIn(registry)
      /\ net = {} => users[c] = registry
      /\ \A m \in net :
           /\ m.op = "fetchAllUsers" /\ m.status # 0 => m.users = registry
           /\ m.op \in Changes /\ ~Succeeded(m) => users[c] = registry
           /\ m.op = "deleteUser" /\ m.status = 0 => m.id \notin {0, form[c].id}
  BY DEF Waiting
\* The form becomes blank or keeps its id; nothing else changes.
<1>3. ASSUME UNCHANGED <<registry, users, net>>, form'[c].id \in {0, form[c].id}
      PROVE  Waiting(c)'
  BY <1>2, <1>3 DEF Waiting, Succeeded
\* The page sends a call.
<1>4. ASSUME NEW op \in Changes, NEW id \in Ids \cup {0}, NEW body \in Representation,
             Send(c, op, id, body), UNCHANGED <<registry, users>>, form'[c].id \in {0, form[c].id},
             op = "deleteUser" => id \notin {0, form'[c].id}
      PROVE  Waiting(c)'
  <2> DEFINE k == Call(c, clicks', op, id, body)
  <2>1. net = {} /\ net' = {k}
    BY <1>1, <1>4 DEF Send
  <2>2. k.op = op /\ k.status = 0 /\ k.id = id
    BY DEF Call
  <2> HIDE DEF k
  <2>3. op # "fetchAllUsers"
    BY DEF Changes
  <2> QED BY <1>2, <1>4, <2>1, <2>2, <2>3 DEF Waiting
<1>5. CASE ResetForm(c)
  BY <1>1, <1>3, <1>5, Types DEF ResetForm, Reset, ClientTypeOK, server
<1>6. CASE Type(c)
  <2>1. PICK body \in Bodies : form' = [form EXCEPT ![c] = Server!WithId(form[c].id, body)]
    BY <1>6 DEF Type
  <2>2. form[c].id \in Ids \cup {0} /\ body \in Representation
    BY <1>1, Types DEF Shown
  <2>3. Server!WithId(form[c].id, body).id = form[c].id
    BY <2>2, Types
  <2>4. form'[c].id = form[c].id
    BY <1>1, <2>1, <2>3 DEF ClientTypeOK
  <2> QED BY <1>3, <1>6, <2>4 DEF Type, server
<1>7. CASE Edit(c)
  <2>1. PICK i \in DOMAIN users[c] : form' = [form EXCEPT ![c] = users[c][i]]
    BY <1>7 DEF Edit
  <2>2. net = {} /\ UNCHANGED <<registry, users, net>>
    BY <1>1, <1>7 DEF Edit, server
  <2>3. form'[c] = registry[i] /\ i \in DOMAIN registry
    BY <1>1, <1>2, <2>1, <2>2 DEF ClientTypeOK
  <2> QED BY <1>2, <2>2, <2>3 DEF Waiting, IdsIn
<1>8. CASE Submit(c)
  <2>1. form'[c].id = 0 /\ UNCHANGED <<registry, users>>
    BY <1>1, <1>8, Types DEF ClientTypeOK, Submit, Reset, server
  <2>2. BodyOf(form[c]) \in Representation /\ form[c].id \in Ids \cup {0}
    BY <1>1, Types DEF Shown
  <2>3. Send(c, "createUser", 0, BodyOf(form[c])) \/ Send(c, "updateUser", form[c].id, BodyOf(form[c]))
    BY <1>8 DEF Submit
  <2> QED BY <1>4, <2>1, <2>2, <2>3 DEF Changes
<1>9. CASE RemoveUser(c)
  <2>1. PICK i \in DOMAIN users[c] :
          /\ IF form[c].id = users[c][i].id THEN Reset(c) ELSE form' = form
          /\ Send(c, "deleteUser", users[c][i].id, Server!NoBody)
    BY <1>9 DEF RemoveUser
  <2> DEFINE id == users[c][i].id
  <2>2. id \in Ids \cup {0} /\ id # 0
    <3>1. users[c] \in Seq(User)
      BY <1>1 DEF ClientTypeOK
    <3>2. users[c][i] \in User
      BY <3>1
    <3> QED BY <3>2, Types DEF User
  <2>3. IF form[c].id = id THEN form'[c].id = 0 ELSE form'[c].id = form[c].id
    BY <1>1, <2>1, Types DEF ClientTypeOK, Reset
  <2>4. Send(c, "deleteUser", id, Server!NoBody) /\ UNCHANGED <<registry, users>>
    BY <1>9, <2>1 DEF RemoveUser, server
  <2>5. Server!NoBody \in Representation /\ "deleteUser" \in Changes
    BY Types DEF Changes
  <2> HIDE DEF id
  <2> QED BY <1>4, <2>2, <2>3, <2>4, <2>5
<1>10. CASE ServeChange
  <2>1. PICK m \in net : /\ m.status = 0 /\ m.op \in Changes /\ Handle(m)
                         /\ net' = (net \ {m}) \cup {[m EXCEPT !.status = reply'.status]}
    BY <1>10 DEF ServeChange
  <2>2. /\ m \in Calls /\ registry' \in Seq(User) /\ reply'.status \in Nat \ {0}
        /\ reply'.status \notin 200 .. 299 => registry' = registry
        /\ \A id \in IdsIn(registry) : id \in IdsIn(registry') \/ (m.op = "deleteUser" /\ id = m.id)
    BY <1>1, <2>1, Handled DEF ClientTypeOK
  <2> DEFINE k == [m EXCEPT !.status = reply'.status]
  <2>3. k.op = m.op /\ k.status = reply'.status
    BY <2>2, ChangeAnswered
  <2> HIDE DEF k
  <2>4. net' = {k} /\ UNCHANGED <<users, form>>
    BY <1>2, <1>10, <2>1 DEF ServeChange, k
  <2>5. users[c] = registry
    BY <1>2, <2>1 DEF Succeeded
  <2>6. form[c].id \in {0} \cup IdsIn(registry')
    BY <1>2, <2>1, <2>2
  <2>7. ~Succeeded(k) => users[c] = registry'
    BY <2>2, <2>3, <2>5 DEF Succeeded
  <2>8. m.op # "fetchAllUsers"
    BY <2>1 DEF Changes
  <2> QED BY <2>2, <2>3, <2>4, <2>6, <2>7, <2>8 DEF Waiting, Succeeded
<1>11. CASE ServeFetch
  <2> DEFINE status == IF registry = <<>> THEN 204 ELSE 200
  <2>1. PICK m \in net : /\ m.op = "fetchAllUsers"
                         /\ net' = (net \ {m}) \cup {[m EXCEPT !.status = status, !.users = registry]}
    BY <1>11 DEF ServeFetch
  <2>2. m \in Calls /\ status \in Nat
    BY <1>1 DEF ClientTypeOK
  <2> DEFINE k == [m EXCEPT !.status = status, !.users = registry]
  <2> HIDE DEF status
  <2>3. k.op = m.op /\ k.users = registry
    BY <2>2 DEF Calls
  <2> HIDE DEF k
  <2>4. net' = {k} /\ UNCHANGED <<registry, users, form>>
    BY <1>2, <1>11, <2>1 DEF ServeFetch, k, server
  <2>5. k.op \notin Changes /\ k.op # "deleteUser"
    BY <2>1, <2>3 DEF Changes
  <2> QED BY <1>2, <2>3, <2>4, <2>5 DEF Waiting
<1>12. CASE ChangeDone
  <2>1. PICK m \in net : /\ m.op \in Changes
                         /\ net' = (net \ {m}) \cup (IF Succeeded(m) THEN {Fetch(m.page, m.n)} ELSE {})
    BY <1>12 DEF ChangeDone
  <2>2. UNCHANGED <<registry, users, form>>
    BY <1>12 DEF ChangeDone, server
  <2>3. CASE Succeeded(m)
    <3> DEFINE k == Fetch(m.page, m.n)
    <3>1. k.op = "fetchAllUsers" /\ k.status = 0
      <4>1. m.page \in Clients /\ m.n \in Nat
        BY <1>1 DEF ClientTypeOK, Calls
      <4> QED BY <4>1, FetchCall
    <3> HIDE DEF k
    <3>2. net' = {k}
      BY <1>2, <2>1, <2>3 DEF k
    <3>3. k.op \notin Changes /\ k.op # "deleteUser"
      BY <3>1 DEF Changes
    <3> QED BY <1>2, <2>2, <3>1, <3>2, <3>3 DEF Waiting
  <2>4. CASE ~Succeeded(m)
    <3>1. net' = {} /\ users[c] = registry
      BY <1>2, <2>1, <2>4
    <3> QED BY <1>2, <2>2, <3>1 DEF Waiting
  <2> QED BY <2>3, <2>4
<1>13. CASE FetchDone
  <2>1. PICK m \in net : /\ m.status # 0 /\ m.op = "fetchAllUsers" /\ net' = net \ {m}
                         /\ users' = [users EXCEPT ![m.page] = m.users]
    BY <1>13 DEF FetchDone
  <2>2. m.page = c /\ m.users = registry /\ net' = {} /\ UNCHANGED <<registry, form>>
    BY <1>1, <1>2, <1>13, <2>1 DEF FetchDone, ClientTypeOK, Calls, server
  <2>3. users'[c] = registry
    BY <1>1, <2>1, <2>2 DEF ClientTypeOK
  <2> QED BY <1>2, <2>2, <2>3 DEF Waiting
<1>14. ~Lose
  BY DEF Lose
<1> QED BY <1>5, <1>6, <1>7, <1>8, <1>9, <1>10, <1>11, <1>12, <1>13, <1>14 DEF Next, Network

LEMMA StepCalm == PastInv /\ CalmInv /\ [Next]_vars => CalmInv'
<1> SUFFICES ASSUME PastInv, CalmInv, [Next]_vars, NEW c \in Clients, Clients = {c}, calm'
             PROVE  Waiting(c)'
  BY DEF CalmInv
<1>1. calm
  BY DEF Next, Network, ResetForm, Type, Submit, Send, Edit, RemoveUser, ServeChange, ServeFetch, ChangeDone, FetchDone,
     Lose, vars
<1>2. Waiting(c)
  BY <1>1 DEF CalmInv
<1>3. CASE UNCHANGED vars
  BY <1>2, <1>3 DEF Waiting, Succeeded, vars, server
<1> QED BY <1>2, <1>3, StepWaiting

\* The invariant of the page whose user waits holds in every behaviour.
THEOREM CalmSafe == Spec => []CalmInv
BY InitCalm, StepCalm, PastSafe, PTL DEF Spec

\* With one page whose user waits for each call, the page is true to the registry
\* whenever nothing is in flight, also after a call that failed.
THEOREM SettledPageIsFresh == Spec => []SettledPageFresh
<1>1. PastInv /\ CalmInv => SettledPageFresh
  BY DEF CalmInv, Waiting, SettledPageFresh, Settled, Pending, PastInv, ClientTypeOK, Calls
<1> QED BY <1>1, PastSafe, CalmSafe, PTL
=============================================================================
