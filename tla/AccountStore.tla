----------------------------- MODULE AccountStore -----------------------------
(***************************************************************************)
(* The Flask account service: every request reads the whole JSON file,     *)
(* changes its own copy and, for a write, truncates the file and dumps the *)
(* copy into it.  Requests run on threads without a lock; the process may  *)
(* be killed or reloaded at any point.  A document is written to the file  *)
(* by one flush, when save_data returns.                                   *)
(***************************************************************************)
EXTENDS Integers, FiniteSets

CONSTANTS
  Threads,      \* the threads of the server
  Names,        \* site names that are strings
  OddNames,     \* JSON values that are not strings but can be keys: numbers, null
  AsString,     \* AsString[k]: the string JSON writes for such a key
  Missing,      \* a body without siteName
  Values,       \* what else a body holds
  Initial,      \* the accounts in account.json
  MaxRequests, MaxCrashes   \* bounds on a behaviour

ASSUME NamesAssumption ==
  /\ OddNames \cap Names = {} /\ Missing \notin Names \cup OddNames
  /\ AsString \in [OddNames -> Names]
  /\ Values # {}
  /\ DOMAIN Initial \subseteq Names /\ Initial \in [DOMAIN Initial -> [siteName : Names \cup OddNames \cup {Missing}, value : Values]]
  /\ MaxRequests \in Nat /\ MaxCrashes \in Nat

VARIABLES
  file,        \* account.json: is it empty, a document or neither, and its accounts
  th,          \* th[t]: the frame of thread t
  requests, crashes,
  answer,      \* history: the last request that was answered
  sent,        \* history: which bodies were sent for which site
  causes       \* history: what happened that can spoil the file

vars == <<file, th, requests, crashes, answer, sent, causes>>

Keys == Names \cup OddNames
Bodies == [siteName : Keys \cup {Missing}, value : Values]
None == [k \in {} |-> 0]
NoBody == [siteName |-> Missing, value |-> CHOOSE v \in Values : TRUE]

\* A document has strings for keys.  Dumps makes a converted key the only one.
Written(k) == IF k \in OddNames THEN AsString[k] ELSE k
Document(accounts) ==
  [text |-> "json",
   accounts |-> [s \in {Written(k) : k \in DOMAIN accounts} |-> accounts[CHOOSE k \in DOMAIN accounts : Written(k) = s]]]
Empty == [text |-> "empty", accounts |-> None]
Garbage == [text |-> "garbage", accounts |-> None]

Put(accounts, name, body) == [k \in DOMAIN accounts \cup {name} |-> IF k = name THEN body ELSE accounts[k]]
Without(accounts, name) == [k \in DOMAIN accounts \ {name} |-> accounts[k]]

\* sort_keys cannot order a key that is no string among others (Python 3).
Dumps(accounts) == DOMAIN accounts \cap OddNames = {} \/ Cardinality(DOMAIN accounts) = 1

Idle == [pc |-> "idle", op |-> "none", name |-> Missing, body |-> NoBody, accounts |-> None, before |-> Empty, alone |-> TRUE]

Init ==
  /\ file = Document(Initial)
  /\ th = [t \in Threads |-> Idle]
  /\ requests = 0 /\ crashes = 0
  /\ answer = [op |-> "none", name |-> Missing, body |-> NoBody, status |-> 0, shown |-> None, before |-> Empty, alone |-> FALSE]
  /\ sent = {<<k, Initial[k]>> : k \in DOMAIN Initial}
  /\ causes = {}

At(t, pc) == th[t].pc = pc
Goto(t, pc, accounts) == th' = [th EXCEPT ![t].pc = pc, ![t].accounts = accounts]
Saving == {t \in Threads : At(t, "dump")}

Answer(t, status, shown) ==
  /\ th' = [th EXCEPT ![t] = Idle]
  /\ answer' = [op |-> th[t].op, name |-> th[t].name, body |-> th[t].body, status |-> status,
                shown |-> shown, before |-> th[t].before, alone |-> th[t].alone]

(***************************************************************************)
(* A request arrives.  The name of a POST comes from its body.             *)
(***************************************************************************)
Ops == {"list_account", "create_account", "retrieve_account", "update_account", "delete_account"}

Request(t) ==
  /\ At(t, "idle") /\ requests < MaxRequests
  /\ \E op \in Ops :
       \E body \in IF op \in {"create_account", "update_account"} THEN Bodies ELSE {NoBody} :
         \E name \in CASE op = "create_account" -> {body.siteName}
                       [] op = "list_account" -> {Missing}
                       [] OTHER -> Names :
           LET others == {u \in Threads \ {t} : ~At(u, "idle")}
           IN  /\ th' = [u \in Threads |->
                          IF u = t THEN [Idle EXCEPT !.pc = "read", !.op = op, !.name = name, !.body = body,
                                                     !.before = file, !.alone = (others = {})]
                          ELSE IF u \in others THEN [th[u] EXCEPT !.alone = FALSE] ELSE th[u]]
               /\ sent' = sent \cup {<<Written(name), body>>}
  /\ requests' = requests + 1
  /\ UNCHANGED <<file, crashes, answer, causes>>

\* account["siteName"] raises KeyError before the file is read.
NoSiteName(t) ==
  /\ At(t, "read") /\ th[t].op = "create_account" /\ th[t].name = Missing
  /\ Answer(t, 500, None)
  /\ UNCHANGED <<file, requests, crashes, sent, causes>>

\* Mutant: a file that cannot be read counts as one without accounts.
ReadAsNone(t) ==
  /\ At(t, "read") /\ th[t].op = "create_account" /\ th[t].name # Missing
  /\ file.text # "json"
  /\ Goto(t, "open", Put(None, th[t].name, th[t].body))
  /\ UNCHANGED <<file, requests, crashes, answer, sent, causes>>

\* read_data(): json.load raises on anything but a document.
ReadFails(t) ==
  /\ At(t, "read") /\ ~(th[t].op = "create_account" /\ th[t].name = Missing)
  /\ file.text # "json"
  /\ Answer(t, 500, None)
  /\ UNCHANGED <<file, requests, crashes, sent, causes>>

list_account(t, accounts) == Answer(t, 200, accounts)

\* Mutant: the check for a conflict is missing.
create_overwriting(t, accounts) == Goto(t, "open", Put(accounts, th[t].name, th[t].body)) /\ UNCHANGED answer

create_account(t, accounts) ==
  IF th[t].name \in DOMAIN accounts
  THEN Answer(t, 409, None)
  ELSE Goto(t, "open", Put(accounts, th[t].name, th[t].body)) /\ UNCHANGED answer

retrieve_account(t, accounts) ==
  IF th[t].name \notin DOMAIN accounts
  THEN Answer(t, 404, None)
  ELSE Answer(t, 200, [k \in {th[t].name} |-> accounts[k]])

\* Mutant: the account is stored under the site its body names.
update_by_body(t, accounts) ==
  IF th[t].name \notin DOMAIN accounts
  THEN Answer(t, 404, None)
  ELSE Goto(t, "open", Put(accounts, th[t].body.siteName, th[t].body)) /\ UNCHANGED answer

update_account(t, accounts) ==
  IF th[t].name \notin DOMAIN accounts
  THEN Answer(t, 404, None)
  ELSE Goto(t, "open", Put(accounts, th[t].name, th[t].body)) /\ UNCHANGED answer

delete_account(t, accounts) ==
  IF th[t].name \notin DOMAIN accounts
  THEN Answer(t, 404, None)
  ELSE Goto(t, "open", Without(accounts, th[t].name)) /\ UNCHANGED answer

Read(t) ==
  /\ At(t, "read") /\ ~(th[t].op = "create_account" /\ th[t].name = Missing)
  /\ file.text = "json"
  /\ CASE th[t].op = "list_account" -> list_account(t, file.accounts)
       [] th[t].op = "create_account" -> create_account(t, file.accounts)
       [] th[t].op = "retrieve_account" -> retrieve_account(t, file.accounts)
       [] th[t].op = "update_account" -> update_account(t, file.accounts)
       [] th[t].op = "delete_account" -> delete_account(t, file.accounts)
  /\ UNCHANGED <<file, requests, crashes, sent, causes>>

(***************************************************************************)
(* save_data(): open(.., "w") truncates; the dump is written from offset   *)
(* 0, over whatever another save wrote since, whose end may stick out.     *)
(***************************************************************************)
\* Mutant: the file is opened for update and not truncated.
OpenForUpdate(t) ==
  /\ At(t, "open")
  /\ Goto(t, "dump", th[t].accounts)
  /\ causes' = IF Saving = {} THEN causes ELSE causes \cup {"overlap"}
  /\ UNCHANGED <<file, requests, crashes, answer, sent>>

Open(t) ==
  /\ At(t, "open")
  /\ file' = Empty
  /\ Goto(t, "dump", th[t].accounts)
  /\ causes' = IF Saving = {} THEN causes ELSE causes \cup {"overlap"}
  /\ UNCHANGED <<requests, crashes, answer, sent>>

Dump(t) ==
  /\ At(t, "dump") /\ Dumps(th[t].accounts)
  /\ file' \in {Document(th[t].accounts)} \cup (IF file = Empty THEN {} ELSE {Garbage})
  /\ Answer(t, IF th[t].op = "delete_account" THEN 204 ELSE 200, None)
  /\ UNCHANGED <<requests, crashes, sent, causes>>

\* sorted() raises TypeError after the truncation and the opening brace, which
\* reaches the file all the same; any other text in it begins with one.
DumpFails(t) ==
  /\ At(t, "dump") /\ ~Dumps(th[t].accounts)
  /\ file' = IF file = Empty THEN Garbage ELSE file
  /\ Answer(t, 500, None)
  /\ causes' = causes \cup {"key"}
  /\ UNCHANGED <<requests, crashes, sent>>

\* The process is killed, or reloaded by the debug server: what is buffered is lost.
Crash ==
  /\ crashes < MaxCrashes
  /\ crashes' = crashes + 1
  /\ th' = [t \in Threads |-> Idle]
  /\ causes' = IF Saving = {} THEN causes ELSE causes \cup {"crash"}
  /\ UNCHANGED <<file, requests, answer, sent>>

Work(t) == NoSiteName(t) \/ ReadFails(t) \/ Read(t) \/ Open(t) \/ Dump(t) \/ DumpFails(t)

Next == Crash \/ \E t \in Threads : Request(t) \/ Work(t)

Spec == Init /\ [][Next]_vars

(***************************************************************************)
(* Properties.                                                             *)
(***************************************************************************)
\* The types of the file and of the frames; a frame past the read holds a
\* copy that a save may write.
TypeOK ==
  /\ file.text \in {"empty", "json", "garbage"}
  /\ DOMAIN file.accounts \subseteq Names
  /\ \A t \in Threads :
       /\ th[t].pc \in {"idle", "read", "open", "dump"}
       /\ DOMAIN th[t].accounts \subseteq Keys
       /\ th[t].pc \in {"open", "dump"} => th[t].op \in {"create_account", "update_account", "delete_account"}

\* The accounts a write leaves, for the request or the frame a.
After(a, old) == IF a.op = "delete_account" THEN Without(old, a.name) ELSE Put(old, a.name, a.body)

\* What a request does to the accounts and how it is answered, when the file is a document.
Effect(a, now) ==
  LET old == a.before.accounts
      new == After(a, old)
      there == a.name \in DOMAIN old
  IN  CASE a.op = "list_account" -> a.status = 200 /\ a.shown = old /\ now = a.before
        [] a.op = "retrieve_account" ->
             /\ now = a.before
             /\ IF there THEN a.status = 200 /\ a.shown = [k \in {a.name} |-> old[k]] ELSE a.status = 404
        [] a.op = "create_account" /\ a.name = Missing -> a.status = 500 /\ now = a.before
        [] a.op = "create_account" /\ a.name # Missing /\ there -> a.status = 409 /\ now = a.before
        [] a.op \in {"update_account", "delete_account"} /\ ~there -> a.status = 404 /\ now = a.before
        [] OTHER -> IF Dumps(new) THEN a.status \in {200, 204} /\ now = Document(new) ELSE a.status = 500 /\ now = Garbage

\* A request that overlaps no other, over a file that is a document, is one
\* atomic step of a map from site names to accounts, and its change is in the
\* file when it is answered; only a key that is no string spoils the file.
AloneAtomic ==
  [][answer' # answer /\ answer'.alone /\ answer'.before.text = "json" => Effect(answer', file')]_vars

\* Unless the process died inside a save, two saves overlapped or a key could
\* not be sorted, the file is a document whenever nobody is saving.
SpoiltForAReason == file.text # "json" /\ Saving = {} => causes # {}

\* Nothing is invented: each account in the file was sent for that very site,
\* also when saves overlap and when a PUT names another site in its body.
NothingInvented == \A k \in DOMAIN file.accounts : <<k, file.accounts[k]>> \in sent

\* Once the file is spoilt and no save is under way, no step mends it, a
\* restart no more than a request: every request fails in read_data before it
\* writes.
Wedged == file.text # "json" /\ \A t \in Threads : th[t].pc \in {"idle", "read"}
SpoiltStays == [][Wedged => Wedged']_vars
=============================================================================
