--------------------------- MODULE AccountProofs ---------------------------
(***************************************************************************)
(* Proofs about the two account programs.                                  *)
(*                                                                         *)
(* AccountStore, for any number of threads, sites, requests and crashes:   *)
(* why account.json is spoilt only for a reason, and why nothing in it is  *)
(* invented.  The invariant says what a save under way has made of the     *)
(* file so far, and that every copy a thread holds came from what was      *)
(* sent.                                                                   *)
(*                                                                         *)
(* AccountSite, for any pages and passwords and any number of calls: as    *)
(* long as the forms are used as they are meant to be, the flag of a       *)
(* stored account tells the truth and no password is in clear that was not *)
(* opened; a page whose users wait shows one pane; and the list of a page  *)
(* that is used alone follows the table.                                   *)
(***************************************************************************)
EXTENDS AccountStore, AccountSite, DataTheorems, FiniteSetTheorems

(* The Python service. *)

AccountsOver(K) == UNION {[D -> Bodies] : D \in SUBSET K}
Files == [text : {"empty", "json", "garbage"}, accounts : AccountsOver(Names)]
Pcs == {"idle", "read", "open", "dump"}
Frames ==
  [pc : Pcs, op : Ops \cup {"none"}, name : Keys \cup {Missing}, body : Bodies,
   accounts : AccountsOver(Keys), before : Files, alone : BOOLEAN]

Types ==
  /\ file \in Files
  /\ th \in [Threads -> Frames]

Changers == {"create_account", "update_account", "delete_account"}

\* What a thread may be doing.
Roles ==
  \A t \in Threads :
    /\ th[t].pc = "read" => th[t].op \in Ops
    /\ th[t].pc \in {"open", "dump"} => th[t].op \in Changers

\* As long as nothing went wrong, at most one save is under way, and the file
\* is empty while it is and a document otherwise.
OneCleanSave ==
  causes = {} =>
    /\ \A t, u \in Saving : t = u
    /\ Saving # {} => file = Empty
    /\ Saving = {} => file.text = "json"

\* Each account in a copy that may be saved was sent for its site, and so was
\* the body of a request that may put it there.
CopiesSent ==
  \A t \in Threads :
    /\ th[t].pc = "read" => <<Written(th[t].name), th[t].body>> \in sent
    /\ th[t].pc \in {"open", "dump"} =>
         \A k \in DOMAIN th[t].accounts : <<Written(k), th[t].accounts[k]>> \in sent

\* A request that overlaps no other finds the file as it was when it came,
\* and what it will save is what it was asked for.
Due(f) ==
  /\ f.accounts = After(f, f.before.accounts)
  /\ IF f.op = "create_account" THEN f.name # Missing /\ f.name \notin DOMAIN f.before.accounts
     ELSE f.name \in DOMAIN f.before.accounts

LoneRequest ==
  \A t \in Threads : th[t].pc # "idle" /\ th[t].alone =>
    /\ \A u \in Threads \ {t} : th[u].pc = "idle"
    /\ th[t].before.text = "json" =>
         /\ th[t].pc \in {"read", "open"} => file = th[t].before
         /\ th[t].pc = "dump" => file = Empty
         /\ th[t].pc \in {"open", "dump"} => Due(th[t])

(***************************************************************************)
(* The operators on accounts.                                              *)
(***************************************************************************)
\* Putting one body under a key gives accounts again.
LEMMA PutType ==
  ASSUME NEW K, NEW a \in AccountsOver(K), NEW k \in K, NEW b \in Bodies
  PROVE  Put(a, k, b) \in AccountsOver(K)
<1>1. PICK D \in SUBSET K : a \in [D -> Bodies]
  BY DEF AccountsOver
<1>2. Put(a, k, b) \in [D \cup {k} -> Bodies]
  BY <1>1 DEF Put
<1> QED BY <1>2 DEF AccountsOver

\* So does taking a key out.
LEMMA WithoutType ==
  ASSUME NEW K, NEW a \in AccountsOver(K), NEW k
  PROVE  Without(a, k) \in AccountsOver(K)
<1>1. PICK D \in SUBSET K : a \in [D -> Bodies]
  BY DEF AccountsOver
<1>2. Without(a, k) \in [D \ {k} -> Bodies]
  BY <1>1 DEF Without
<1> QED BY <1>2 DEF AccountsOver

\* Names are keys.
LEMMA NamesAreKeys ==
  ASSUME NEW a \in AccountsOver(Names)
  PROVE  a \in AccountsOver(Keys)
BY DEF AccountsOver, Keys

\* A key is written as a string.
LEMMA WrittenType == \A k \in Keys : Written(k) \in Names
BY NamesAssumption DEF Written, Keys

\* What a document holds: each entry is one of the accounts it was made from,
\* under the string its key is written as.
LEMMA DocumentEntries ==
  ASSUME NEW a, NEW s \in DOMAIN Document(a).accounts
  PROVE  \E k \in DOMAIN a : Written(k) = s /\ Document(a).accounts[s] = a[k]
<1> DEFINE c == CHOOSE k \in DOMAIN a : Written(k) = s
<1>1. s \in {Written(k) : k \in DOMAIN a}
  BY DEF Document
<1>2. \E k \in DOMAIN a : Written(k) = s
  BY <1>1
<1>3. c \in DOMAIN a /\ Written(c) = s
  BY <1>2
<1>4. Document(a).accounts[s] = a[c]
  BY <1>1 DEF Document
<1> QED BY <1>3, <1>4

\* A document is a file.
LEMMA DocumentType ==
  ASSUME NEW a \in AccountsOver(Keys)
  PROVE  Document(a) \in Files
<1>1. PICK D \in SUBSET Keys : a \in [D -> Bodies]
  BY DEF AccountsOver
<1> DEFINE S == {Written(k) : k \in D}
<1>2. S \in SUBSET Names
  BY WrittenType
<1>3. DOMAIN Document(a).accounts = S
  BY <1>1 DEF Document
<1>4. \A s \in S : Document(a).accounts[s] \in Bodies
  BY <1>1, <1>3, DocumentEntries
<1>5. Document(a).accounts \in [S -> Bodies]
  BY <1>3, <1>4 DEF Document
<1>6. Document(a).accounts \in AccountsOver(Names)
  BY <1>2, <1>5 DEF AccountsOver
<1> QED BY <1>6 DEF Document, Files

LEMMA NoneType == None \in AccountsOver(Names) /\ None \in AccountsOver(Keys)
<1>1. None \in [{} -> Bodies]
  BY DEF None
<1> QED BY <1>1 DEF AccountsOver

LEMMA EmptyType == Empty \in Files /\ Garbage \in Files
BY NoneType DEF Empty, Garbage, Files

LEMMA NoBodyType == NoBody \in Bodies
BY NamesAssumption DEF NoBody, Bodies

LEMMA IdleType == Idle \in Frames
BY NoneType, EmptyType, NoBodyType DEF Idle, Frames, Pcs

(***************************************************************************)
(* What the two ways to move a frame do.                                   *)
(***************************************************************************)
LEMMA GotoFrame ==
  ASSUME th \in [Threads -> Frames], NEW t \in Threads, NEW pc \in Pcs, NEW a \in AccountsOver(Keys),
         Goto(t, pc, a)
  PROVE  /\ th' \in [Threads -> Frames]
         /\ th'[t].pc = pc /\ th'[t].accounts = a
         /\ th'[t].op = th[t].op /\ th'[t].name = th[t].name /\ th'[t].body = th[t].body
         /\ th'[t].before = th[t].before /\ th'[t].alone = th[t].alone
         /\ \A u \in Threads \ {t} : th'[u] = th[u]
<1> DEFINE f == [[th[t] EXCEPT !.pc = pc] EXCEPT !.accounts = a]
<1>1. th' = [th EXCEPT ![t] = f]
  BY DEF Goto, Frames
<1>2. /\ f \in Frames /\ f.pc = pc /\ f.accounts = a
      /\ f.op = th[t].op /\ f.name = th[t].name /\ f.body = th[t].body
      /\ f.before = th[t].before /\ f.alone = th[t].alone
  BY DEF Frames
<1> QED BY <1>1, <1>2

LEMMA AnswerFrame ==
  ASSUME th \in [Threads -> Frames], NEW t \in Threads, NEW status, NEW listed,
         Answer(t, status, listed)
  PROVE  /\ th' \in [Threads -> Frames]
         /\ th'[t] = Idle /\ th'[t].pc = "idle"
         /\ \A u \in Threads \ {t} : th'[u] = th[u]
BY IdleType DEF Answer, Idle

(***************************************************************************)
(* One lemma per action: what it does to the frames, the file and the      *)
(* histories, in the terms the invariant needs.                            *)
(***************************************************************************)
Store == Types /\ Roles /\ OneCleanSave /\ CopiesSent /\ NothingInvented

\* A thread that is answered holds nothing; nothing changes for the others.
LEMMA AnswerKeepsCopies ==
  ASSUME Types, Roles, CopiesSent, NEW t \in Threads, NEW status, NEW listed,
         Answer(t, status, listed), UNCHANGED sent
  PROVE  Roles' /\ CopiesSent'
<1>1. th'[t].pc = "idle" /\ \A u \in Threads \ {t} : th'[u] = th[u]
  BY AnswerFrame DEF Types
<1>2. Roles'
  BY <1>1 DEF Roles
<1>3. CopiesSent'
  BY <1>1 DEF CopiesSent
<1> QED BY <1>2, <1>3

\* A thread that was not saving is answered: nobody begins or ends a save.
LEMMA AnswerOutsideSave ==
  ASSUME Store, NEW t \in Threads, th[t].pc # "dump", NEW status, NEW listed,
         Answer(t, status, listed), UNCHANGED <<file, sent, causes>>
  PROVE  Store'
<1>1. /\ th' \in [Threads -> Frames] /\ th'[t].pc = "idle"
      /\ \A u \in Threads \ {t} : th'[u] = th[u]
  BY AnswerFrame DEF Store, Types
<1>2. Types'
  BY <1>1 DEF Store, Types
<1>3. Roles' /\ CopiesSent'
  BY AnswerKeepsCopies DEF Store
<1>4. Saving' = Saving
  BY <1>1 DEF Saving, At
<1>5. OneCleanSave'
  BY <1>4 DEF Store, OneCleanSave
<1>6. NothingInvented'
  BY DEF Store, NothingInvented
<1> QED BY <1>2, <1>3, <1>5, <1>6 DEF Store

\* A thread that was reading goes on to save a copy that is accounted for.
LEMMA CopyReady ==
  ASSUME Store, NEW t \in Threads, th[t].pc = "read", th[t].op \in Changers,
         NEW a \in AccountsOver(Keys),
         \A k \in DOMAIN a : <<Written(k), a[k]>> \in sent,
         Goto(t, "open", a), UNCHANGED <<file, sent, causes>>
  PROVE  Store'
<1>1. /\ th' \in [Threads -> Frames]
      /\ th'[t].pc = "open" /\ th'[t].accounts = a /\ th'[t].op = th[t].op
      /\ \A u \in Threads \ {t} : th'[u] = th[u]
  BY GotoFrame DEF Store, Types, Pcs
<1>2. Types'
  BY <1>1 DEF Store, Types
<1>3. Roles'
  BY <1>1 DEF Store, Roles
<1>4. CopiesSent'
  BY <1>1 DEF Store, CopiesSent
<1>5. Saving' = Saving
  BY <1>1 DEF Saving, At
<1>6. OneCleanSave'
  BY <1>5 DEF Store, OneCleanSave
<1>7. NothingInvented'
  BY DEF Store, NothingInvented
<1> QED BY <1>2, <1>3, <1>4, <1>6, <1>7 DEF Store

\* What a request puts into the frames.
Arrived(t, op, body, name) ==
  LET others == {v \in Threads \ {t} : ~At(v, "idle")} IN
  th' = [u \in Threads |->
           IF u = t THEN [Idle EXCEPT !.pc = "read", !.op = op, !.name = name, !.body = body,
                                      !.before = file, !.alone = (others = {})]
           ELSE IF u \in others THEN [th[u] EXCEPT !.alone = FALSE] ELSE th[u]]

LEMMA RequestFrame ==
  ASSUME NEW t \in Threads, Request(t)
  PROVE  \E op \in Ops, body \in Bodies, name \in Keys \cup {Missing} :
           /\ Arrived(t, op, body, name)
           /\ sent' = sent \cup {<<Written(name), body>>}
BY ZenonT(40), NoBodyType DEF Request, Bodies, Keys, Arrived

\* A new request brings the body it may store later.
LEMMA RequestKeepsStore ==
  ASSUME Store, NEW t \in Threads, Request(t)
  PROVE  Store'
<1>1. PICK op \in Ops, body \in Bodies, name \in Keys \cup {Missing} :
        /\ Arrived(t, op, body, name)
        /\ sent' = sent \cup {<<Written(name), body>>}
  BY RequestFrame
<1>2. th[t].pc = "idle" /\ UNCHANGED <<file, causes>>
  BY DEF Request, At
<1>3. \A u \in Threads \ {t} :
        /\ th'[u] \in Frames
        /\ th'[u].pc = th[u].pc /\ th'[u].op = th[u].op /\ th'[u].name = th[u].name
        /\ th'[u].body = th[u].body /\ th'[u].accounts = th[u].accounts
  BY <1>1 DEF Store, Types, Frames, Arrived
<1>4. /\ th'[t] \in Frames /\ th'[t].pc = "read" /\ th'[t].op = op
      /\ th'[t].name = name /\ th'[t].body = body
  <2>1. file \in Files
    BY DEF Store, Types
  <2> QED BY <1>1, <2>1, IdleType DEF Frames, Pcs, Idle, Arrived
<1>5. Types'
  <2>1. th' \in [Threads -> Frames]
    BY <1>1, <1>3, <1>4 DEF Arrived
  <2> QED BY <2>1, <1>2 DEF Store, Types
<1>6. Roles'
  BY <1>3, <1>4 DEF Store, Roles
<1>7. CopiesSent'
  <2>1. sent \subseteq sent' /\ <<Written(name), body>> \in sent'
    BY <1>1
  <2>2. \A u \in Threads \ {t} : th'[u].pc = "read" => <<Written(th'[u].name), th'[u].body>> \in sent'
    BY <1>3, <2>1 DEF Store, CopiesSent
  <2>3. \A u \in Threads \ {t} : th'[u].pc \in {"open", "dump"} =>
          \A k \in DOMAIN th'[u].accounts : <<Written(k), th'[u].accounts[k]>> \in sent'
    BY <1>3, <2>1 DEF Store, CopiesSent
  <2>4. Written(th'[t].name) = Written(name)
    BY <1>4
  <2> QED BY <1>4, <2>1, <2>2, <2>3, <2>4 DEF CopiesSent
<1>8. Saving' = Saving
  BY <1>2, <1>3, <1>4 DEF Saving, At
<1>9. OneCleanSave'
  BY <1>2, <1>8 DEF Store, OneCleanSave
<1>10. NothingInvented'
  BY <1>1, <1>2 DEF Store, NothingInvented
<1> QED BY <1>5, <1>6, <1>7, <1>9, <1>10 DEF Store

\* A read answers, or leaves the thread with a copy made of the file and, for
\* a POST or PUT, of the body that was sent.
LEMMA ReadKeepsStore ==
  ASSUME Store, NEW t \in Threads, Read(t)
  PROVE  Store'
<1> DEFINE old == file.accounts
           name == th[t].name
           body == th[t].body
<1>1. /\ th[t].pc = "read" /\ UNCHANGED <<file, sent, causes>>
      /\ ~(th[t].op = "create_account" /\ name = Missing)
  BY DEF Read, At
<1>2. old \in AccountsOver(Keys) /\ DOMAIN old \subseteq Names /\ body \in Bodies /\ name \in Keys \cup {Missing}
  BY NamesAreKeys DEF Store, Types, Files, Frames, AccountsOver
<1>3. <<Written(name), body>> \in sent
  BY <1>1 DEF Store, CopiesSent
<1>4. \A k \in DOMAIN old : <<Written(k), old[k]>> \in sent
  BY <1>2, NamesAssumption DEF Store, NothingInvented, Written
<1>5. CASE \E status, listed : Answer(t, status, listed)
  BY <1>1, <1>5, AnswerOutsideSave
<1>6. CASE th[t].op \in Changers /\ name \in Keys /\ Goto(t, "open", Put(old, name, body))
  <2>1. Put(old, name, body) \in AccountsOver(Keys)
    BY <1>2, <1>6, PutType
  <2>2. \A k \in DOMAIN Put(old, name, body) : <<Written(k), Put(old, name, body)[k]>> \in sent
    BY <1>3, <1>4 DEF Put
  <2> QED BY <1>1, <1>6, <2>1, <2>2, CopyReady
<1>7. CASE th[t].op \in Changers /\ Goto(t, "open", Without(old, name))
  <2>1. Without(old, name) \in AccountsOver(Keys)
    BY <1>2, WithoutType
  <2>2. \A k \in DOMAIN Without(old, name) : <<Written(k), Without(old, name)[k]>> \in sent
    BY <1>4 DEF Without
  <2> QED BY <1>1, <1>7, <2>1, <2>2, CopyReady
<1>8. \/ \E status, listed : Answer(t, status, listed)
      \/ th[t].op \in Changers /\ name \in Keys /\ Goto(t, "open", Put(old, name, body))
      \/ th[t].op \in Changers /\ Goto(t, "open", Without(old, name))
  <2>1. CASE th[t].op = "list_account" /\ list_account(t, old)
    BY <2>1 DEF list_account
  <2>2. CASE th[t].op = "create_account" /\ create_account(t, old)
    BY <2>2, <1>1, <1>2 DEF create_account, Changers
  <2>3. CASE th[t].op = "retrieve_account" /\ retrieve_account(t, old)
    BY <2>3 DEF retrieve_account
  <2>4. CASE th[t].op = "update_account" /\ update_account(t, old)
    BY <2>4, <1>2 DEF update_account, Changers, Keys
  <2>5. CASE th[t].op = "delete_account" /\ delete_account(t, old)
    BY <2>5 DEF delete_account, Changers
  <2>6. th[t].op \in Ops
    BY <1>1 DEF Store, Roles
  <2> QED BY <2>1, <2>2, <2>3, <2>4, <2>5, <2>6 DEF Read, Ops
<1> QED BY <1>5, <1>6, <1>7, <1>8

\* The truncation begins a save.  Without an overlap nobody else is saving.
LEMMA OpenKeepsStore ==
  ASSUME Store, NEW t \in Threads, Open(t)
  PROVE  Store'
<1>1. /\ th[t].pc = "open" /\ file' = Empty /\ UNCHANGED sent
      /\ Goto(t, "dump", th[t].accounts)
      /\ causes' = IF Saving = {} THEN causes ELSE causes \cup {"overlap"}
  BY DEF Open, At
<1>2. th[t].accounts \in AccountsOver(Keys)
  BY DEF Store, Types, Frames
<1>3. /\ th' \in [Threads -> Frames]
      /\ th'[t].pc = "dump" /\ th'[t].accounts = th[t].accounts /\ th'[t].op = th[t].op
      /\ \A u \in Threads \ {t} : th'[u] = th[u]
  BY <1>1, <1>2, GotoFrame DEF Store, Types, Pcs
<1>4. Types'
  BY <1>1, <1>3, EmptyType DEF Types
<1>5. Roles'
  BY <1>1, <1>3 DEF Store, Roles
<1>6. CopiesSent'
  BY <1>1, <1>3 DEF Store, CopiesSent
<1>7. OneCleanSave'
  <2>1. CASE Saving = {}
    <3>1. Saving' = {t}
      BY <1>3, <2>1 DEF Saving, At
    <3> QED BY <1>1, <3>1 DEF OneCleanSave
  <2>2. CASE Saving # {}
    BY <1>1, <2>2 DEF OneCleanSave
  <2> QED BY <2>1, <2>2
<1>8. NothingInvented'
  BY <1>1 DEF NothingInvented, Empty, None
<1> QED BY <1>4, <1>5, <1>6, <1>7, <1>8 DEF Store

\* The dump ends a save; what it writes was sent.
LEMMA DumpKeepsStore ==
  ASSUME Store, NEW t \in Threads, Dump(t)
  PROVE  Store'
<1> DEFINE a == th[t].accounts
<1>1. /\ th[t].pc = "dump" /\ UNCHANGED <<sent, causes>>
      /\ file' \in {Document(a)} \cup (IF file = Empty THEN {} ELSE {Garbage})
      /\ Answer(t, IF th[t].op = "delete_account" THEN 204 ELSE 200, None)
  BY DEF Dump, At
<1>2. /\ th' \in [Threads -> Frames] /\ th'[t].pc = "idle"
      /\ \A u \in Threads \ {t} : th'[u] = th[u]
  BY <1>1, AnswerFrame DEF Store, Types
<1>3. a \in AccountsOver(Keys)
  BY DEF Store, Types, Frames
<1>4. Types'
  BY <1>1, <1>2, <1>3, DocumentType, EmptyType DEF Types
<1>5. Roles' /\ CopiesSent'
  BY <1>1, AnswerKeepsCopies DEF Store
<1>6. OneCleanSave'
  <2> SUFFICES ASSUME causes = {}
               PROVE  Saving' = {} /\ file'.text = "json"
    BY <1>1 DEF OneCleanSave
  <2>1. t \in Saving
    BY <1>1 DEF Saving, At
  <2>2. Saving = {t} /\ file = Empty
    BY <2>1 DEF Store, OneCleanSave
  <2>3. Saving' = {}
    BY <1>2, <2>2 DEF Saving, At
  <2>4. file' = Document(a)
    BY <1>1, <2>2
  <2> QED BY <2>3, <2>4 DEF Document
<1>7. NothingInvented'
  <2>1. CASE file' = Garbage
    BY <2>1 DEF NothingInvented, Garbage, None
  <2>2. CASE file' = Document(a)
    <3> SUFFICES ASSUME NEW s \in DOMAIN Document(a).accounts
                 PROVE  <<s, Document(a).accounts[s]>> \in sent
      BY <1>1, <2>2 DEF NothingInvented
    <3>1. PICK k \in DOMAIN a : Written(k) = s /\ Document(a).accounts[s] = a[k]
      BY DocumentEntries
    <3>2. <<Written(k), a[k]>> \in sent
      BY <1>1 DEF Store, CopiesSent
    <3> QED BY <3>1, <3>2
  <2> QED BY <1>1, <2>1, <2>2
<1> QED BY <1>4, <1>5, <1>6, <1>7 DEF Store

\* A dump that raises leaves a brace in an empty file, and a cause behind.
LEMMA DumpFailsKeepsStore ==
  ASSUME Store, NEW t \in Threads, DumpFails(t)
  PROVE  Store'
<1>1. /\ UNCHANGED sent /\ causes' = causes \cup {"key"}
      /\ file' = IF file = Empty THEN Garbage ELSE file
      /\ Answer(t, 500, None)
  BY DEF DumpFails
<1>2. th' \in [Threads -> Frames]
  BY <1>1, AnswerFrame DEF Store, Types
<1>3. Types'
  BY <1>1, <1>2, EmptyType DEF Store, Types
<1>4. Roles' /\ CopiesSent'
  BY <1>1, AnswerKeepsCopies DEF Store
<1>5. OneCleanSave'
  BY <1>1 DEF OneCleanSave
<1>6. NothingInvented'
  <2>1. CASE file' = Garbage
    BY <2>1 DEF NothingInvented, Garbage, None
  <2>2. CASE file' = file
    BY <1>1, <2>2 DEF Store, NothingInvented
  <2> QED BY <1>1, <2>1, <2>2
<1> QED BY <1>3, <1>4, <1>5, <1>6 DEF Store

\* A crash drops every copy; if it hits a save, that is the cause.
LEMMA CrashKeepsStore ==
  ASSUME Store, Crash
  PROVE  Store'
<1>1. /\ th' = [t \in Threads |-> Idle] /\ UNCHANGED <<file, sent>>
      /\ causes' = IF Saving = {} THEN causes ELSE causes \cup {"crash"}
  BY DEF Crash
<1>2. \A t \in Threads : th'[t].pc = "idle"
  BY <1>1 DEF Idle
<1>3. Types'
  BY <1>1, IdleType DEF Store, Types
<1>4. Roles' /\ CopiesSent'
  BY <1>2 DEF Roles, CopiesSent
<1>5. OneCleanSave'
  <2>1. Saving' = {}
    BY <1>2 DEF Saving, At
  <2> QED BY <1>1, <2>1 DEF Store, OneCleanSave
<1>6. NothingInvented'
  BY <1>1 DEF Store, NothingInvented
<1> QED BY <1>3, <1>4, <1>5, <1>6 DEF Store

LEMMA StartStore == Init => Store
<1> SUFFICES ASSUME Init PROVE Store
  OBVIOUS
<1>1. Initial \in AccountsOver(Names) /\ Initial \in AccountsOver(Keys)
  BY NamesAssumption DEF AccountsOver, Bodies, Keys
<1>2. DOMAIN Document(Initial).accounts = DOMAIN Initial
  BY NamesAssumption DEF Document, Written
<1>3. \A t \in Threads : th[t] = Idle /\ th[t].pc = "idle"
  BY DEF Init, Idle
<1>4. Types
  BY <1>1, DocumentType, IdleType DEF Init, Types
<1>5. Roles /\ CopiesSent
  BY <1>3 DEF Roles, CopiesSent
<1>6. OneCleanSave
  <2>1. Saving = {} /\ file.text = "json"
    BY <1>3 DEF Saving, At, Init, Document
  <2> QED BY <2>1 DEF OneCleanSave
<1>7. NothingInvented
  <2> SUFFICES ASSUME NEW s \in DOMAIN file.accounts
               PROVE  <<s, file.accounts[s]>> \in sent
    BY DEF NothingInvented
  <2>1. PICK k \in DOMAIN Initial : Written(k) = s /\ Document(Initial).accounts[s] = Initial[k]
    BY DocumentEntries DEF Init
  <2>2. Written(k) = k
    BY NamesAssumption DEF Written
  <2> QED BY <2>1, <2>2 DEF Init
<1> QED BY <1>4, <1>5, <1>6, <1>7 DEF Store

\* The invariant holds of every behaviour of the service.
THEOREM StoreInvariant == Spec => []Store
<1>1. Store /\ [Next]_vars => Store'
  <2> SUFFICES ASSUME Store, [Next]_vars PROVE Store'
    OBVIOUS
  <2>1. CASE Crash
    BY <2>1, CrashKeepsStore
  <2>2. ASSUME NEW t \in Threads, Request(t) PROVE Store'
    BY <2>2, RequestKeepsStore
  <2>3. ASSUME NEW t \in Threads, Work(t) PROVE Store'
    <3>1. CASE NoSiteName(t)
      BY <3>1, AnswerOutsideSave DEF NoSiteName, At
    <3>2. CASE ReadFails(t)
      BY <3>2, AnswerOutsideSave DEF ReadFails, At
    <3>3. CASE Read(t)
      BY <3>3, ReadKeepsStore
    <3>4. CASE Open(t)
      BY <3>4, OpenKeepsStore
    <3>5. CASE Dump(t)
      BY <3>5, DumpKeepsStore
    <3>6. CASE DumpFails(t)
      BY <3>6, DumpFailsKeepsStore
    <3> QED BY <2>3, <3>1, <3>2, <3>3, <3>4, <3>5, <3>6 DEF Work
  <2>4. CASE UNCHANGED vars
    <3>1. UNCHANGED <<file, th, sent, causes>>
      BY <2>4 DEF vars
    <3> QED BY <3>1 DEF Store, Types, Roles, OneCleanSave, CopiesSent, NothingInvented, Saving, At
  <2> QED BY <2>1, <2>2, <2>3, <2>4 DEF Next
<1> QED BY <1>1, StartStore, PTL DEF Spec

\* The types of the file and of the frames, for any sites, threads and bounds.
THEOREM TypeCorrect == Spec => []TypeOK
<1>1. Store => TypeOK
  <2> SUFFICES ASSUME Store PROVE TypeOK
    OBVIOUS
  <2>1. file.text \in {"empty", "json", "garbage"} /\ DOMAIN file.accounts \subseteq Names
    BY DEF Store, Types, Files, AccountsOver
  <2>2. \A t \in Threads : th[t].pc \in Pcs /\ DOMAIN th[t].accounts \subseteq Keys
    BY DEF Store, Types, Frames, AccountsOver
  <2> QED BY <2>1, <2>2 DEF TypeOK, Store, Roles, Changers, Pcs
<1> QED BY <1>1, StoreInvariant, PTL

\* Without a kill inside a save, an overlap of saves or an odd key, the file
\* is a document whenever nobody is saving.
THEOREM SpoiltOnlyForAReason == Spec => []SpoiltForAReason
<1>1. Store => SpoiltForAReason
  BY DEF Store, OneCleanSave, SpoiltForAReason
<1> QED BY <1>1, StoreInvariant, PTL

\* Every account in the file was sent for its site, whatever overlaps or dies.
THEOREM NothingIsInvented == Spec => []NothingInvented
<1>1. Store => NothingInvented
  BY DEF Store
<1> QED BY <1>1, StoreInvariant, PTL

\* A file that is spoilt while nobody is saving is never repaired.
THEOREM SpoiltForEver == Spec => SpoiltStays
<1>1. Types /\ Wedged /\ [Next]_vars => Wedged'
  <2> SUFFICES ASSUME Types, Wedged, [Next]_vars PROVE Wedged'
    OBVIOUS
  <2>1. CASE Crash
    BY <2>1 DEF Crash, Wedged, Idle
  <2>2. ASSUME NEW t \in Threads, Request(t) PROVE Wedged'
    <3>1. file' = file
      BY <2>2 DEF Request
    <3>2. \A u \in Threads : th'[u].pc \in {"idle", "read"}
      <4>1. PICK op \in Ops, body \in Bodies, name \in Keys \cup {Missing} :
              /\ Arrived(t, op, body, name)
              /\ sent' = sent \cup {<<Written(name), body>>}
        BY <2>2, RequestFrame
      <4>2. th'[t].pc = "read"
        BY <4>1 DEF Idle, Arrived
      <4>3. \A u \in Threads \ {t} : th'[u].pc = th[u].pc
        BY <4>1 DEF Types, Frames, Arrived
      <4> QED BY <4>2, <4>3 DEF Wedged
    <3> QED BY <3>1, <3>2 DEF Wedged
  <2>3. ASSUME NEW t \in Threads, Work(t) PROVE Wedged'
    <3>1. PICK status, listed : Answer(t, status, listed) /\ file' = file
      BY <2>3 DEF Work, NoSiteName, ReadFails, Read, Open, Dump, DumpFails, At, Wedged
    <3>2. th'[t].pc = "idle" /\ \A u \in Threads \ {t} : th'[u] = th[u]
      BY <3>1, AnswerFrame DEF Types
    <3> QED BY <3>1, <3>2 DEF Wedged
  <2>4. CASE UNCHANGED vars
    BY <2>4 DEF vars, Wedged
  <2> QED BY <2>1, <2>2, <2>3, <2>4 DEF Next
<1>2. Store => Types
  BY DEF Store
<1> QED BY <1>1, <1>2, StoreInvariant, PTL DEF Spec, SpoiltStays

-----------------------------------------------------------------------------
(* Requests that overlap no other. *)

LEMMA LoneAnswered ==
  ASSUME Types, LoneRequest, NEW t \in Threads, th[t].pc # "idle", NEW status, NEW listed,
         Answer(t, status, listed)
  PROVE  LoneRequest'
<1>1. th'[t].pc = "idle" /\ \A u \in Threads \ {t} : th'[u] = th[u]
  BY AnswerFrame DEF Types
<1>2. \A u \in Threads : ~(th'[u].pc # "idle" /\ th'[u].alone)
  BY <1>1 DEF LoneRequest
<1> QED BY <1>2 DEF LoneRequest

LEMMA LoneGoes ==
  ASSUME Types, LoneRequest, NEW t \in Threads, th[t].pc # "idle", NEW pc \in {"open", "dump"},
         NEW a \in AccountsOver(Keys), Goto(t, pc, a),
         th[t].alone /\ th[t].before.text = "json" =>
           /\ file' = IF pc = "open" THEN th[t].before ELSE Empty
           /\ a = After(th[t], th[t].before.accounts)
           /\ IF th[t].op = "create_account" THEN th[t].name # Missing /\ th[t].name \notin DOMAIN th[t].before.accounts
              ELSE th[t].name \in DOMAIN th[t].before.accounts
  PROVE  LoneRequest'
<1>1. /\ th'[t].pc = pc /\ th'[t].accounts = a
      /\ th'[t].op = th[t].op /\ th'[t].name = th[t].name /\ th'[t].body = th[t].body
      /\ th'[t].before = th[t].before /\ th'[t].alone = th[t].alone
      /\ \A u \in Threads \ {t} : th'[u] = th[u]
  BY GotoFrame DEF Types, Pcs
<1>2. \A old : After(th'[t], old) = After(th[t], old)
  BY <1>1 DEF After
<1>3. th[t].alone /\ th[t].before.text = "json" => Due(th'[t])
  BY <1>1, <1>2 DEF Due
<1> SUFFICES ASSUME NEW u \in Threads, th'[u].pc # "idle", th'[u].alone
             PROVE  /\ \A v \in Threads \ {u} : th'[v].pc = "idle"
                    /\ th'[u].before.text = "json" =>
                         /\ th'[u].pc \in {"read", "open"} => file' = th'[u].before
                         /\ th'[u].pc = "dump" => file' = Empty
                         /\ th'[u].pc \in {"open", "dump"} => Due(th'[u])
  BY DEF LoneRequest
<1>4. u = t
  BY <1>1 DEF LoneRequest
<1>5. \A v \in Threads \ {t} : th'[v].pc = "idle"
  BY <1>1, <1>4 DEF LoneRequest
<1> QED BY <1>1, <1>3, <1>4, <1>5

LEMMA LoneStep ==
  ASSUME Store, LoneRequest, [Next]_vars
  PROVE  LoneRequest'
<1>1. Types
  BY DEF Store
<1>2. CASE Crash
  BY <1>2 DEF Crash, Idle, LoneRequest
<1>3. ASSUME NEW t \in Threads, Request(t)
      PROVE  LoneRequest'
  <2>1. PICK op \in Ops, body \in Bodies, name \in Keys \cup {Missing} :
          Arrived(t, op, body, name)
    BY <1>3, RequestFrame
  <2>2. /\ th'[t].pc = "read" /\ th'[t].before = file
        /\ th'[t].alone => \A u \in Threads \ {t} : th[u].pc = "idle"
    BY <2>1 DEF Idle, At, Arrived
  <2>3. \A u \in Threads \ {t} :
          /\ th'[u].pc = th[u].pc
          /\ th[u].pc # "idle" => th'[u].alone = FALSE
    BY <1>1, <2>1 DEF Types, Frames, At, Arrived
  <2>4. file' = file
    BY <1>3 DEF Request
  <2> QED BY <2>2, <2>3, <2>4 DEF LoneRequest
<1>4. ASSUME NEW t \in Threads, Work(t)
      PROVE  LoneRequest'
  <2>1. CASE NoSiteName(t) \/ ReadFails(t) \/ Dump(t) \/ DumpFails(t)
    <3>1. th[t].pc # "idle" /\ \E status, listed : Answer(t, status, listed)
      BY <2>1 DEF NoSiteName, ReadFails, Dump, DumpFails, At
    <3> QED BY <1>1, <3>1, LoneAnswered
  <2>2. CASE Open(t)
    <3>1. th[t].pc = "open" /\ file' = Empty /\ Goto(t, "dump", th[t].accounts)
      BY <2>2 DEF Open, At
    <3>2. th[t].alone /\ th[t].before.text = "json" => Due(th[t])
      BY <3>1 DEF LoneRequest
    <3>3. th[t].accounts \in AccountsOver(Keys)
      BY <1>1 DEF Types, Frames
    <3> QED BY <1>1, <3>1, <3>2, <3>3, LoneGoes DEF Due
  <2>3. CASE Read(t)
    <3> DEFINE old == file.accounts
               name == th[t].name
    <3>1. th[t].pc = "read" /\ th[t].op \in Ops /\ file' = file /\ ~(th[t].op = "create_account" /\ name = Missing)
      BY <2>3 DEF Read, At, Store, Roles
    <3>2. CASE \E status, listed : Answer(t, status, listed)
      BY <1>1, <3>1, <3>2, LoneAnswered
    <3>3. old \in AccountsOver(Keys) /\ th[t].body \in Bodies /\ name \in Keys \cup {Missing}
          /\ Missing \notin DOMAIN old
      BY <1>1, NamesAreKeys, NamesAssumption DEF Types, Files, Frames, AccountsOver
    <3>4. th[t].alone /\ th[t].before.text = "json" => file = th[t].before
      BY <3>1 DEF LoneRequest
    <3>5. CASE /\ th[t].op \in {"create_account", "update_account"} /\ name \in Keys
               /\ Goto(t, "open", Put(old, name, th[t].body))
               /\ IF th[t].op = "create_account" THEN name \notin DOMAIN old ELSE name \in DOMAIN old
      <4>1. Put(old, name, th[t].body) \in AccountsOver(Keys)
        BY <3>3, <3>5, PutType
      <4>2. After(th[t], old) = Put(old, name, th[t].body)
        BY <3>5 DEF After
      <4> QED BY <1>1, <3>1, <3>4, <3>5, <4>1, <4>2, LoneGoes
    <3>6. CASE th[t].op = "delete_account" /\ name \in DOMAIN old /\ Goto(t, "open", Without(old, name))
      <4>1. Without(old, name) \in AccountsOver(Keys)
        BY <3>3, WithoutType
      <4>2. After(th[t], old) = Without(old, name)
        BY <3>6 DEF After
      <4> QED BY <1>1, <3>1, <3>4, <3>6, <4>1, <4>2, LoneGoes
    <3>7. CASE th[t].op = "list_account" /\ list_account(t, old)
      BY <3>2, <3>7 DEF list_account
    <3>8. CASE th[t].op = "create_account" /\ create_account(t, old)
      BY <3>1, <3>2, <3>3, <3>5, <3>8 DEF create_account
    <3>9. CASE th[t].op = "retrieve_account" /\ retrieve_account(t, old)
      BY <3>2, <3>9 DEF retrieve_account
    <3>10. CASE th[t].op = "update_account" /\ update_account(t, old)
      BY <3>2, <3>3, <3>5, <3>10 DEF update_account
    <3>11. CASE th[t].op = "delete_account" /\ delete_account(t, old)
      BY <3>2, <3>6, <3>11 DEF delete_account
    <3> HIDE DEF old, name
    <3> QED BY <2>3, <3>1, <3>7, <3>8, <3>9, <3>10, <3>11 DEF Read, Ops, old
  <2> QED BY <1>4, <2>1, <2>2, <2>3 DEF Work
<1>5. CASE UNCHANGED vars
  BY <1>5 DEF vars, LoneRequest
<1> QED BY <1>2, <1>3, <1>4, <1>5 DEF Next

\* What a step answers to such a request, and what it leaves in the file.
LEMMA LoneEffect ==
  ASSUME Store, LoneRequest, Next, answer' # answer, answer'.alone, answer'.before.text = "json"
  PROVE  Effect(answer', file')
<1>1. PICK t \in Threads : NoSiteName(t) \/ ReadFails(t) \/ Read(t) \/ Dump(t) \/ DumpFails(t)
  BY DEF Next, Work, Crash, Request, Open
<1>2. th[t].pc \in {"read", "dump"}
  BY <1>1 DEF NoSiteName, ReadFails, Read, Dump, DumpFails, At
<1>3. th[t] \in Frames /\ file \in Files
  BY DEF Store, Types
<1>4. \/ NoSiteName(t) /\ Answer(t, 500, None)
      \/ ReadFails(t) /\ Answer(t, 500, None)
      \/ Read(t)
      \/ Dump(t) /\ Answer(t, IF th[t].op = "delete_account" THEN 204 ELSE 200, None)
      \/ DumpFails(t) /\ Answer(t, 500, None)
  BY <1>1 DEF NoSiteName, ReadFails, Dump, DumpFails
<1> DEFINE f == th[t]
           old == f.before.accounts
<1>5. ASSUME NEW status, NEW listed, Answer(t, status, listed)
      PROVE  /\ answer'.op = f.op /\ answer'.name = f.name /\ answer'.body = f.body
             /\ answer'.status = status /\ answer'.shown = listed
             /\ answer'.before = f.before /\ f.alone /\ f.before.text = "json"
             /\ After(answer', old) = After(f, old)
  BY <1>5 DEF Answer, After
<1>6. Missing \notin DOMAIN old
  BY <1>3, NamesAssumption DEF Frames, Files, AccountsOver
<1>7. CASE NoSiteName(t) /\ Answer(t, 500, None)
  <2>1. f.pc = "read" /\ f.op = "create_account" /\ f.name = Missing /\ file' = file
    BY <1>7 DEF NoSiteName, At
  <2>2. file = f.before
    BY <1>5, <1>7, <2>1 DEF LoneRequest
  <2> QED BY <1>5, <1>7, <2>1, <2>2 DEF Effect
<1>8. CASE ReadFails(t) /\ Answer(t, 500, None)
  <2>1. f.pc = "read" /\ file.text # "json"
    BY <1>8 DEF ReadFails, At
  <2> QED BY <1>5, <1>8, <2>1 DEF LoneRequest
<1>9. CASE Read(t)
  <2>1. f.pc = "read" /\ f.op \in Ops /\ file' = file /\ ~(f.op = "create_account" /\ f.name = Missing)
    BY <1>9 DEF Read, At, Store, Roles
  <2>2. ASSUME NEW status, NEW listed, Answer(t, status, listed)
        PROVE  file = f.before /\ file.accounts = old
    BY <1>5, <2>1, <2>2 DEF LoneRequest
  <2>3. CASE f.op = "list_account" /\ list_account(t, file.accounts)
    <3>1. Answer(t, 200, file.accounts)
      BY <2>3 DEF list_account
    <3> QED BY <1>5, <2>1, <2>2, <2>3, <3>1 DEF Effect
  <2>4. CASE f.op = "create_account" /\ create_account(t, file.accounts)
    <3>1. Answer(t, 409, None) /\ f.name \in DOMAIN file.accounts
      BY <2>4 DEF create_account
    <3> QED BY <1>5, <2>1, <2>2, <2>4, <3>1 DEF Effect
  <2>5. CASE f.op = "retrieve_account" /\ retrieve_account(t, file.accounts)
    <3>1. CASE f.name \notin DOMAIN file.accounts /\ Answer(t, 404, None)
      BY <1>5, <2>1, <2>2, <2>5, <3>1 DEF Effect
    <3>2. CASE f.name \in DOMAIN file.accounts /\ Answer(t, 200, [k \in {f.name} |-> file.accounts[k]])
      BY <1>5, <2>1, <2>2, <2>5, <3>2 DEF Effect
    <3> QED BY <2>5, <3>1, <3>2 DEF retrieve_account
  <2>6. CASE f.op = "update_account" /\ update_account(t, file.accounts)
    <3>1. Answer(t, 404, None) /\ f.name \notin DOMAIN file.accounts
      BY <2>6 DEF update_account
    <3> QED BY <1>5, <2>1, <2>2, <2>6, <3>1 DEF Effect
  <2>7. CASE f.op = "delete_account" /\ delete_account(t, file.accounts)
    <3>1. Answer(t, 404, None) /\ f.name \notin DOMAIN file.accounts
      BY <2>7 DEF delete_account
    <3> QED BY <1>5, <2>1, <2>2, <2>7, <3>1 DEF Effect
  <2> QED BY <1>9, <2>1, <2>3, <2>4, <2>5, <2>6, <2>7 DEF Read, Ops
<1>10. ASSUME f.pc = "dump", NEW status, Answer(t, status, None), f.op \in Changers
       PROVE  /\ file = Empty /\ f.accounts = After(f, old)
              /\ Dumps(f.accounts) /\ status \in {200, 204} /\ file' = Document(f.accounts) => Effect(answer', file')
              /\ ~Dumps(f.accounts) /\ status = 500 /\ file' = Garbage => Effect(answer', file')
  <2>1. file = Empty /\ Due(f)
    BY <1>5, <1>10 DEF LoneRequest
  <2>2. /\ f.accounts = After(f, old)
        /\ IF f.op = "create_account" THEN f.name # Missing /\ f.name \notin DOMAIN old ELSE f.name \in DOMAIN old
    BY <2>1 DEF Due
  <2>3. After(answer', old) = f.accounts
    BY <1>5, <1>10, <2>2
  <2> QED BY <1>5, <1>10, <2>1, <2>2, <2>3 DEF Effect, Changers
<1>11. CASE Dump(t) /\ Answer(t, IF f.op = "delete_account" THEN 204 ELSE 200, None)
  <2>1. f.pc = "dump" /\ f.op \in Changers /\ Dumps(f.accounts)
    BY <1>11 DEF Dump, At, Store, Roles
  <2>2. file = Empty
    BY <1>10, <1>11, <2>1
  <2>3. file' = Document(f.accounts)
    BY <1>11, <2>2 DEF Dump
  <2> QED BY <1>10, <1>11, <2>1, <2>3
<1>12. CASE DumpFails(t) /\ Answer(t, 500, None)
  <2>1. f.pc = "dump" /\ f.op \in Changers /\ ~Dumps(f.accounts)
    BY <1>12 DEF DumpFails, At, Store, Roles
  <2>2. file = Empty
    BY <1>10, <1>12, <2>1
  <2>3. file' = Garbage
    BY <1>12, <2>2 DEF DumpFails
  <2> QED BY <1>10, <1>12, <2>1, <2>3
<1> QED BY <1>4, <1>7, <1>8, <1>9, <1>11, <1>12

\* A request that overlaps no other is one atomic step of the map from sites to
\* accounts, whatever crashed and whatever the file holds else.
THEOREM LoneRequestsAreAtomic == Spec => AloneAtomic
<1>1. Init => LoneRequest
  BY DEF Init, Idle, LoneRequest
<1>2. LoneRequest /\ Store /\ [Next]_vars => LoneRequest'
  BY LoneStep
<1>3. Store /\ LoneRequest /\ [Next]_vars =>
        [answer' # answer /\ answer'.alone /\ answer'.before.text = "json" => Effect(answer', file')]_vars
  BY LoneEffect
<1> QED BY <1>1, <1>2, <1>3, StoreInvariant, PTL DEF Spec, AloneAtomic

-----------------------------------------------------------------------------
(* The Java site. *)

Pwds == {Null} \cup {Clear(t) : t \in Passwords} \cup {Sealed(t) : t \in Passwords}
Kept == [accountID : Int, userName : Int, password : Pwds, encrypted : BOOLEAN]

\* The accounts that may be around, on the server, on a page or under way.
Sound ==
  {a \in Kept : tidy =>
     /\ a.encrypted = a.password.sealed
     /\ a.password.sealed \/ a.accountID \in opened \cup {NoId, 0}}

Calls ==
  [page : Pages, n : Nat, op : {"list", "create", "get", "update", "delete"},
   account : Sound, status : {0, 200, 500}, data : Seq(Sound)]

AllSound ==
  /\ table \in Seq(Sound)
  /\ accounts \in [Pages -> Seq(Sound)]
  /\ current \in [Pages -> Sound]
  /\ net \subseteq Calls
  /\ clicks \in Nat

\* An account is answered by those calls whose callbacks take one.
Answered == \A m \in net : m.status = 200 /\ m.op \in {"create", "get", "update"} => Len(m.data) = 1

\* Rows have ids that the database gave out.
RowsNumbered ==
  /\ lastId \in Nat
  /\ \A i \in DOMAIN table : table[i].accountID > 0

SiteInv == AllSound /\ Answered /\ RowsNumbered

\* Who waits for each call shows the list while a call is under way.
Waiting ==
  /\ shown \in [Pages -> SUBSET {"accounts", "account"}]
  /\ calm =>
       /\ \A p \in Pages : shown[p] \in {{"accounts"}, {"account"}}
       /\ \A m \in net : shown[m.page] = {"accounts"}

\* What a page lists, while its user waits and nobody uses another.  The
\* accounts listed are stored, and no two have the same id but 0.
NamesOf(rows) == {row.userName : row \in rows}
Stands(a, rows) == \E row \in rows : row.accountID = a.accountID /\ row.userName = a.userName
AsStored(a, rows, open) == a.accountID = 0 \/ a \in rows \/ (a.accountID \in open /\ ~a.encrypted)

Mirrors(list, rows) ==
  /\ \A i \in DOMAIN list :
       /\ list[i].userName \in NamesOf(rows)
       /\ list[i].accountID = 0 \/ Stands(list[i], rows)
  /\ \A i, j \in DOMAIN list : list[i].accountID = list[j].accountID => (i = j \/ list[i].accountID = 0)

Complete(list, rows, names) ==
  AtMostOneUnnumbered(list) => NamesOf(rows) \subseteq UserNames(list) \cup names

Follows(list, rows, open) ==
  /\ Mirrors(list, rows)
  /\ \A i \in DOMAIN list : AsStored(list[i], rows, open)
  /\ Complete(list, rows, {})

Copied(a, list) ==
  \E i \in DOMAIN list : list[i].accountID = a.accountID /\ list[i].userName = a.userName

\* What a call of the page will do to its list: list it anew, push an account
\* under id 0, replace one, or nothing yet.
WillList(m, t) ==
  /\ m.op \in {"list", "delete"} /\ m.status # 500
  /\ m.op = "list" /\ m.status = 200 => m.data = t

WillPush(m, list, rows, open) ==
  /\ m.op = "create" /\ m.status = 200
  /\ m.data[1].accountID = 0 /\ m.data[1].userName \in NamesOf(rows)
  /\ Mirrors(list, rows)
  /\ \A i \in DOMAIN list : AsStored(list[i], rows, open)
  /\ Complete(list, rows, {m.data[1].userName})

WillOpen(m, list, rows, open) ==
  /\ m.op = "get" /\ m.status = 200
  /\ m.data[1].accountID # 0 /\ Stands(m.data[1], rows) /\ AsStored(m.data[1], rows, open)
  /\ Follows(list, rows, open)

WillReplace(m, list, rows, open) ==
  /\ m.op = "update" /\ m.status = 200
  /\ m.data[1] = m.account /\ Copied(m.account, list) /\ AsStored(m.account, rows, {})
  /\ Mirrors(list, rows)
  /\ \A i \in DOMAIN list :
       list[i].accountID = m.account.accountID \/ AsStored(list[i], rows, open)
  /\ Complete(list, rows, {})

WillServe(m, list, rows, open) ==
  /\ m.op \in {"create", "get", "update"} /\ m.status # 200
  /\ m.op = "update" => Copied(m.account, list)
  /\ Follows(list, rows, open)

Expected(m, list, t, open) ==
  \/ WillList(m, t)
  \/ WillPush(m, list, ToSet(t), open) \/ WillOpen(m, list, ToSet(t), open)
  \/ WillReplace(m, list, ToSet(t), open) \/ WillServe(m, list, ToSet(t), open)

\* No two rows have one id, and a hidden form is empty.
RowsApart ==
  /\ \A i \in DOMAIN table : table[i].accountID <= lastId
  /\ \A i, j \in DOMAIN table : table[i].accountID = table[j].accountID => i = j
HiddenForm == \A p \in Pages : "account" \notin shown[p] => current[p] = NewAccount

\* Pages make one call at a time, and those whose users did nothing yet list.
OneCall ==
  /\ \A m, c \in net : m.page = c.page => m = c
  /\ \A m \in net : m.page \notin clickers => m.op = "list"

Followed(p) ==
  /\ (\A m \in net : m.page # p) => Follows(accounts[p], Rows, opened)
  /\ \A m \in net : m.page = p => Expected(m, accounts[p], table, opened)
  /\ current[p].accountID = NoId \/ Copied(current[p], accounts[p])

FollowInv ==
  /\ RowsApart /\ HiddenForm
  /\ calm => OneCall
  /\ \A p \in Pages : calm /\ clickers \subseteq {p} => Followed(p)

-----------------------------------------------------------------------------
(* Sound accounts. *)

LEMMA SoundGrows ==
  ASSUME tidy' => tidy, opened \subseteq opened'
  PROVE  Sound \subseteq Sound' /\ Seq(Sound) \subseteq Seq(Sound') /\ Calls \subseteq Calls'
<1>1. Sound \subseteq Sound'
  BY DEF Sound
<1>2. Seq(Sound) \subseteq Seq(Sound')
  BY <1>1
<1>3. Calls \subseteq Calls'
  BY <1>1, <1>2 DEF Calls
<1> QED BY <1>1, <1>2, <1>3

LEMMA SoundSteady ==
  ASSUME UNCHANGED <<tidy, opened>>
  PROVE  Sound' = Sound /\ Calls' = Calls
BY DEF Sound, Calls

LEMMA NewSound == NewAccount \in Sound
<1>1. Null \in Pwds /\ Null.sealed = FALSE /\ NoId \in Int
  BY DEF Pwds, Null, NoId
<1>2. NewAccount = [accountID |-> NoId, userName |-> 0, password |-> Null, encrypted |-> FALSE]
  BY DEF NewAccount, Account
<1>3. NewAccount \in Kept
  <2> HIDE DEF Pwds
  <2> QED BY <1>1, <1>2 DEF Kept
<1>4. NewAccount.encrypted = FALSE /\ NewAccount.password = Null /\ NewAccount.accountID = NoId
  BY <1>2
<1> QED BY <1>1, <1>3, <1>4 DEF Sound

LEMMA AccountSound ==
  ASSUME NEW id \in Int, NEW name \in Int, NEW pwd \in Pwds, NEW enc \in BOOLEAN,
         tidy => enc = pwd.sealed /\ (pwd.sealed \/ id \in opened \cup {NoId, 0})
  PROVE  Account(id, name, pwd, enc) \in Sound
<1> DEFINE a == Account(id, name, pwd, enc)
<1>1. a = [accountID |-> id, userName |-> name, password |-> pwd, encrypted |-> enc]
  BY DEF Account
<1> HIDE DEF a
<1>2. a \in Kept /\ a.accountID = id /\ a.password = pwd /\ a.encrypted = enc
  BY <1>1 DEF Kept
<1>3. a \in Sound
  BY <1>2 DEF Sound
<1> QED BY <1>3 DEF a

LEMMA CallSound ==
  ASSUME NEW p \in Pages, NEW n \in Nat, NEW a \in Sound,
         NEW op \in {"list", "create", "get", "update", "delete"}
  PROVE  Call(p, n, op, a) \in Calls
BY DEF Call, Calls

LEMMA CallSoundNext ==
  ASSUME NEW p \in Pages, NEW n \in Nat, NEW a \in Sound',
         NEW op \in {"list", "create", "get", "update", "delete"}
  PROVE  Call(p, n, op, a) \in Calls' /\ Call(p, n, op, a).status = 0
BY DEF Call, Calls

LEMMA EachListed ==
  ASSUME NEW S, NEW s \in Seq(S)
  PROVE  \A a \in ToSet(s) : a \in S
BY DEF ToSet

LEMMA InitInv == SiteInit => SiteInv
<1> SUFFICES ASSUME SiteInit PROVE SiteInv
  OBVIOUS
<1>1. /\ Account(1, -1, Clear(Plain), FALSE) \in Sound
      /\ Account(2, -2, Sealed(Hidden), TRUE) \in Sound
  <2>1. Clear(Plain) \in Pwds /\ Sealed(Hidden) \in Pwds
    BY SiteAssumption DEF Pwds
  <2>2. Clear(Plain).sealed = FALSE /\ Sealed(Hidden).sealed = TRUE
    BY DEF Clear, Sealed
  <2>3. 1 \in opened
    BY DEF SiteInit
  <2>4. -1 \in Int /\ -2 \in Int /\ 1 \in Int /\ 2 \in Int
    OBVIOUS
  <2>5. Account(1, -1, Clear(Plain), FALSE) \in Sound
    BY <2>1, <2>2, <2>3, <2>4, AccountSound
  <2>6. Account(2, -2, Sealed(Hidden), TRUE) \in Sound
    BY <2>1, <2>2, <2>4, AccountSound
  <2> QED BY <2>5, <2>6
<1>2. \A p \in Pages : Call(p, 0, "list", NewAccount) \in Calls
  BY NewSound, CallSound
<1>3. table \in Seq(Sound) /\ accounts \in [Pages -> Seq(Sound)] /\ current \in [Pages -> Sound]
  <2> DEFINE a == Account(1, -1, Clear(Plain), FALSE)
             b == Account(2, -2, Sealed(Hidden), TRUE)
  <2>1. a \in Sound /\ b \in Sound /\ table = <<a, b>>
    BY <1>1 DEF SiteInit
  <2> HIDE DEF a, b
  <2>2. <<a, b>> \in Seq(Sound)
    BY <2>1
  <2>3. accounts \in [Pages -> Seq(Sound)] /\ current \in [Pages -> Sound]
    BY NewSound DEF SiteInit
  <2> QED BY <2>1, <2>2, <2>3
<1>4. AllSound
  BY <1>2, <1>3 DEF SiteInit, AllSound
<1>5. Answered
  BY DEF SiteInit, Answered, Call
<1>6. RowsNumbered
  BY DEF SiteInit, RowsNumbered, Account
<1> QED BY <1>4, <1>5, <1>6 DEF SiteInv

-----------------------------------------------------------------------------
(* What the users of the pages do. *)

LEMMA SendSound ==
  ASSUME SiteInv, tidy' => tidy, UNCHANGED <<table, lastId, opened>>, UNCHANGED accounts,
         current' \in [Pages -> Sound'], clicks' \in Nat,
         NEW m \in Calls', m.status = 0, net' \subseteq net \cup {m}
  PROVE  SiteInv'
<1>1. /\ Sound \subseteq Sound' /\ Seq(Sound) \subseteq Seq(Sound') /\ Calls \subseteq Calls'
  BY SoundGrows
<1>2. AllSound'
  BY <1>1 DEF SiteInv, AllSound
<1>3. Answered'
  BY DEF SiteInv, Answered
<1>4. RowsNumbered'
  BY DEF SiteInv, RowsNumbered
<1> QED BY <1>2, <1>3, <1>4 DEF SiteInv

LEMMA UserStep ==
  ASSUME SiteInv, NEW p \in Pages, User(p)
  PROVE  SiteInv'
<1>1. /\ accounts \in [Pages -> Seq(Sound)] /\ current \in [Pages -> Sound] /\ net \subseteq Calls
      /\ clicks \in Nat
  BY DEF SiteInv, AllSound
<1>2. \A a \in ToSet(accounts[p]) : a \in Sound
  BY <1>1, EachListed
<1>3. ASSUME EditAccount(p) \/ CancelAccount(p)
      PROVE  SiteInv'
  <2>1. /\ UNCHANGED <<table, lastId, opened, accounts, net, clicks, tidy>>
    BY <1>3 DEF EditAccount, CancelAccount, store
  <2>2. Sound' = Sound /\ Calls' = Calls
    BY <2>1, SoundSteady
  <2>3. \E a \in Sound : current' = [current EXCEPT ![p] = a]
    BY <1>2, <1>3, NewSound DEF EditAccount, CancelAccount, CloseForm
  <2>4. current' \in [Pages -> Sound]
    BY <1>1, <2>3
  <2>5. AllSound'
    BY <2>1, <2>2, <2>4 DEF SiteInv, AllSound
  <2> QED BY <2>1, <2>5 DEF SiteInv, Answered, RowsNumbered
<1>4. ASSUME SaveAccount(p)
      PROVE  SiteInv'
  <2>1. PICK a \in Edits(current[p]) :
          /\ tidy' = (tidy /\ TidyEdit(current[p], a))
          /\ IF a.accountID = NoId
             THEN Send(p, "create", [a EXCEPT !.userName = clicks + 1])
             ELSE Send(p, "update", a)
    BY <1>4 DEF SaveAccount
  <2>2. UNCHANGED <<table, lastId, opened, accounts>> /\ (tidy' => tidy)
    BY <1>4, <2>1 DEF SaveAccount, store
  <2>3. current[p] \in Sound /\ current[p] \in Kept
    BY <1>1 DEF Sound
  <2>4. PICK pwd \in {current[p].password, Null} \cup {Clear(t) : t \in Typed}, enc \in BOOLEAN :
          a = Account(current[p].accountID, current[p].userName, pwd, enc)
    BY <2>1 DEF Edits
  <2>5. pwd \in Pwds /\ (pwd # current[p].password => pwd.sealed = FALSE)
    BY <2>3, <2>4, SiteAssumption DEF Kept, Pwds, Null, Clear
  <2>6. /\ a \in Kept /\ a.accountID = current[p].accountID
        /\ a.password = pwd /\ a.encrypted = enc
    <3> HIDE DEF Pwds
    <3> QED BY <2>3, <2>4, <2>5 DEF Kept, Account
  <2>7. a \in Sound'
    <3>1. SUFFICES ASSUME tidy'
                   PROVE  /\ a.encrypted = a.password.sealed
                          /\ a.password.sealed \/ a.accountID \in opened \cup {NoId, 0}
      BY <2>2, <2>6 DEF Sound
    <3>2. tidy /\ a.encrypted = current[p].encrypted /\ (pwd # current[p].password => ~current[p].encrypted)
      BY <2>1, <2>6, <3>1 DEF TidyEdit
    <3>3. /\ current[p].encrypted = current[p].password.sealed
          /\ current[p].password.sealed \/ current[p].accountID \in opened \cup {NoId, 0}
      BY <2>3, <3>2 DEF Sound
    <3>4. CASE pwd = current[p].password
      BY <2>6, <3>2, <3>3, <3>4
    <3>5. CASE pwd # current[p].password
      <4>1. pwd.sealed = FALSE /\ current[p].encrypted = FALSE
        BY <2>3, <2>5, <3>2, <3>5 DEF Kept
      <4> QED BY <2>6, <3>2, <3>3, <4>1
    <3> QED BY <3>4, <3>5
  <2>8. [a EXCEPT !.userName = clicks + 1] \in Sound'
    <3> DEFINE b == [a EXCEPT !.userName = clicks + 1]
    <3>1. b \in Kept /\ b.accountID = a.accountID /\ b.password = a.password /\ b.encrypted = a.encrypted
      <4> HIDE DEF Pwds
      <4>1. clicks + 1 \in Int /\ a \in Kept
        BY <1>1, <2>6
      <4> QED BY ONLY <4>1 DEF Kept
    <3> HIDE DEF b
    <3>2. b \in Sound'
      BY <2>7, <3>1, <2>2 DEF Sound
    <3> QED BY <3>2 DEF b
  <2>9. PICK b \in Sound', op \in {"create", "update"} : Send(p, op, b)
    BY <2>1, <2>7, <2>8
  <2>10. /\ clicks' \in Nat /\ net' = net \cup {Call(p, clicks', op, b)}
         /\ Call(p, clicks', op, b) \in Calls' /\ Call(p, clicks', op, b).status = 0
    <3>1. clicks' = clicks + 1 /\ net' = net \cup {Call(p, clicks', op, b)}
      BY <2>9 DEF Send
    <3>2. clicks' \in Nat
      BY <1>1, <3>1
    <3> QED BY <2>9, <3>1, <3>2, CallSoundNext
  <2>11. current' \in [Pages -> Sound']
    <3>1. current' = [current EXCEPT ![p] = NewAccount]
      BY <1>4 DEF SaveAccount, CloseForm
    <3>2. Sound \subseteq Sound' /\ NewAccount \in Sound
      BY <2>2, SoundGrows, NewSound
    <3> QED BY <1>1, <3>1, <3>2
  <2> QED BY <2>2, <2>10, <2>11, SendSound
<1>5. ASSUME DeleteAccount(p) \/ RetrieveAccount(p)
      PROVE  SiteInv'
  <2>1. UNCHANGED <<table, lastId, opened, accounts, current, tidy>>
    BY <1>5 DEF DeleteAccount, RetrieveAccount, store, page
  <2>2. Sound' = Sound /\ Calls' = Calls
    BY <2>1, SoundSteady
  <2>3. PICK a \in Sound, op \in {"list", "get", "delete"} :
          clicks' = clicks + 1 /\ net' = net \cup {Call(p, clicks', op, a)}
    BY <1>2, <1>5, NewSound DEF DeleteAccount, RetrieveAccount, Send
  <2>4. clicks' \in Nat
    BY <1>1, <2>3
  <2>5. Call(p, clicks', op, a) \in Calls /\ Call(p, clicks', op, a).status = 0
    BY <2>4 DEF Call, Calls
  <2>6. current' \in [Pages -> Sound']
    BY <1>1, <2>1, <2>2
  <2> QED BY <2>1, <2>2, <2>3, <2>4, <2>5, <2>6, SendSound
<1> QED BY <1>3, <1>4, <1>5 DEF User

-----------------------------------------------------------------------------
(* What the server does. *)

LEMMA Filled ==
  ASSUME NEW P, NEW O, NEW A, NEW S, NEW D,
         NEW m \in [page : P, n : Nat, op : O, account : A, status : S, data : D],
         NEW status \in S, NEW data \in D
  PROVE  LET r == [m EXCEPT !.status = status, !.data = data] IN
           /\ r \in [page : P, n : Nat, op : O, account : A, status : S, data : D]
           /\ r.status = status /\ r.data = data /\ r.op = m.op
OBVIOUS

LEMMA ReplySound ==
  ASSUME SiteInv, tidy' = tidy, opened \subseteq opened', UNCHANGED <<accounts, current, clicks>>,
         table' \in Seq(Sound'), RowsNumbered', NEW m \in net,
         NEW status \in {200, 500}, NEW data \in Seq(Sound'), Reply(m, status, data),
         status = 200 /\ m.op \in {"create", "get", "update"} => Len(data) = 1
  PROVE  SiteInv'
<1> DEFINE r == [m EXCEPT !.status = status, !.data = data]
<1>1. Sound \subseteq Sound' /\ Seq(Sound) \subseteq Seq(Sound') /\ Calls \subseteq Calls'
  BY SoundGrows
<1>2. m \in Calls' /\ net \subseteq Calls'
  BY <1>1 DEF SiteInv, AllSound
<1>3. r \in Calls' /\ r.status = status /\ r.op = m.op /\ r.data = data
  <2> DEFINE S == Sound'
             Q == Seq(Sound')
             O == {"list", "create", "get", "update", "delete"}
             T == {0, 200, 500}
  <2>1. m \in [page : Pages, n : Nat, op : O, account : S, status : T, data : Q]
    BY <1>2 DEF Calls
  <2>2. status \in T /\ data \in Q
    OBVIOUS
  <2> HIDE DEF S, Q, O, T
  <2>3. /\ r \in [page : Pages, n : Nat, op : O, account : S, status : T, data : Q]
        /\ r.status = status /\ r.op = m.op /\ r.data = data
    BY <2>1, <2>2, Filled
  <2> QED BY <2>3 DEF Calls, S, Q, O, T
<1>4. net' = (net \ {m}) \cup {r}
  BY DEF Reply
<1> HIDE DEF r
<1>5. AllSound'
  BY <1>1, <1>2, <1>3, <1>4 DEF SiteInv, AllSound
<1>6. Answered'
  BY <1>3, <1>4 DEF SiteInv, Answered
<1> QED BY <1>5, <1>6 DEF SiteInv

LEMMA FailSound ==
  ASSUME SiteInv, UNCHANGED <<tidy, accounts, current, clicks>>, NEW m \in net, Fail(m)
  PROVE  SiteInv'
<1>1. Reply(m, 500, <<>>) /\ UNCHANGED <<table, lastId, opened>>
  BY DEF Fail, store
<1>2. Sound' = Sound
  BY <1>1, SoundSteady
<1>3. <<>> \in Seq(Sound') /\ table' \in Seq(Sound') /\ RowsNumbered'
  BY <1>1, <1>2 DEF SiteInv, AllSound, RowsNumbered
<1>4. tidy' = tidy /\ opened \subseteq opened' /\ UNCHANGED <<accounts, current, clicks>>
  BY <1>1
<1> DEFINE status == 500
           data == <<>>
<1>5. status \in {200, 500} /\ status # 200 /\ data \in Seq(Sound') /\ Reply(m, status, data)
  BY <1>1, <1>3
<1> HIDE DEF status, data
<1> QED BY <1>3, <1>4, <1>5, ReplySound

\* A row that is inserted gets the next id.
LEMMA InsertSound ==
  ASSUME SiteInv, tidy' = tidy, NEW a \in Sound, Insert(a), a.accountID = 0,
         tidy => a.password.sealed
  PROVE  table' \in Seq(Sound') /\ RowsNumbered' /\ opened' = opened /\ Sound' = Sound
<1> DEFINE row == [a EXCEPT !.accountID = lastId + 1]
<1>1. table' = Append(table, row) /\ lastId' = lastId + 1 /\ opened' = opened
  BY DEF Insert
<1>2. Sound' = Sound
  BY <1>1, SoundSteady
<1>3. lastId \in Nat /\ table \in Seq(Sound) /\ \A i \in DOMAIN table : table[i].accountID > 0
  BY DEF SiteInv, AllSound, RowsNumbered
<1>4. a \in Kept /\ lastId + 1 \in Int
  BY <1>3 DEF Sound
<1>5. row \in Kept /\ row.accountID = lastId + 1 /\ row.password = a.password /\ row.encrypted = a.encrypted
  BY ONLY <1>4 DEF Kept
<1> HIDE DEF row
<1>6. row \in Sound
  BY <1>5 DEF Sound
<1>7. table' \in Seq(Sound)
  BY <1>1, <1>3, <1>6
<1>8. \A i \in DOMAIN table' : table'[i].accountID > 0
  BY <1>1, <1>3, <1>5, <1>6
<1>9. RowsNumbered'
  BY <1>1, <1>3, <1>8 DEF RowsNumbered
<1> QED BY <1>1, <1>2, <1>7, <1>9

LEMMA CreateStep ==
  ASSUME SiteInv, UNCHANGED <<tidy, accounts, current, clicks>>, NEW m \in net, Create(m)
  PROVE  SiteInv'
<1> DEFINE a == [m.account EXCEPT !.accountID = 0]
           s == [a EXCEPT !.password = Sealed(a.password.text), !.encrypted = TRUE]
<1>1. m.account \in Kept /\ m.account \in Sound
  BY DEF SiteInv, AllSound, Calls, Sound
<1>2. /\ a \in Kept /\ a.accountID = 0 /\ a.password = m.account.password
      /\ a.encrypted = m.account.encrypted
  BY ONLY <1>1 DEF Kept
<1> HIDE DEF a
<1>3. a \in Sound
  BY <1>1, <1>2 DEF Sound
<1>4. CASE a.encrypted
  <2>1. Insert(a) /\ Reply(m, 200, <<a>>)
    BY <1>4 DEF Create, a
  <2>2. tidy => a.password.sealed
    BY <1>3, <1>4 DEF Sound
  <2>3. table' \in Seq(Sound') /\ RowsNumbered' /\ opened' = opened /\ Sound' = Sound
    BY <1>2, <1>3, <2>1, <2>2, InsertSound
  <2>4. <<a>> \in Seq(Sound') /\ Len(<<a>>) = 1
    BY <1>3, <2>3
  <2> QED BY ZenonT(40), <2>1, <2>3, <2>4, ReplySound
<1>5. CASE ~a.encrypted /\ a.password.text \in {"null"} \cup Wide
  <2>1. Fail(m)
    BY <1>5 DEF Create, a
  <2> QED BY <2>1, FailSound
<1>6. CASE ~a.encrypted /\ a.password.text \notin {"null"} \cup Wide
  <2>1. Insert(s) /\ Reply(m, 200, <<s>>)
    BY <1>6 DEF Create, a
  <2>2. a.password.text \in Passwords
    BY <1>2, <1>6 DEF Kept, Pwds, Null, Clear, Sealed
  <2>3. Sealed(a.password.text) \in Pwds /\ Sealed(a.password.text).sealed = TRUE
    BY <2>2 DEF Pwds, Sealed
  <2>4. s \in Kept /\ s.accountID = 0 /\ s.password.sealed = TRUE /\ s.encrypted = TRUE
    <3> HIDE DEF Pwds
    <3> QED BY <1>2, <2>3 DEF Kept
  <2> HIDE DEF s
  <2>5. s \in Sound
    BY <2>4 DEF Sound
  <2>6. table' \in Seq(Sound') /\ RowsNumbered' /\ opened' = opened /\ Sound' = Sound
    BY <2>1, <2>4, <2>5, InsertSound
  <2>7. <<s>> \in Seq(Sound') /\ Len(<<s>>) = 1
    BY <2>5, <2>6
  <2> QED BY ZenonT(40), <2>1, <2>6, <2>7, ReplySound
<1> QED BY <1>4, <1>5, <1>6

LEMMA RetrieveStep ==
  ASSUME SiteInv, UNCHANGED <<tidy, accounts, current, clicks>>, NEW m \in net, Retrieve(m)
  PROVE  SiteInv'
<1>1. CASE RowOf(m.account.accountID) = {}
  BY <1>1, FailSound DEF Retrieve
<1>2. CASE RowOf(m.account.accountID) # {}
  <2> DEFINE Opens(a) == [a EXCEPT !.password = Clear(Trimmed[a.password.text]), !.encrypted = FALSE]
  <2>1. PICK i \in DOMAIN table :
          IF ~table[i].encrypted THEN Reply(m, 200, <<table[i]>>) /\ UNCHANGED store
          ELSE IF ~table[i].password.sealed THEN Fail(m)
          ELSE /\ Reply(m, 200, <<Opens(table[i])>>)
               /\ opened' = opened \cup {table[i].accountID}
               /\ UNCHANGED <<table, lastId>>
    BY <1>2 DEF Retrieve, RowOf
  <2> DEFINE a == table[i]
             o == Opens(a)
  <2>2. a \in Sound /\ a \in Kept
    BY DEF SiteInv, AllSound, Sound
  <2>3. CASE ~a.encrypted
    <3>1. Reply(m, 200, <<a>>) /\ UNCHANGED <<table, lastId, opened>>
      BY <2>1, <2>3 DEF store
    <3>2. Sound' = Sound
      BY <3>1, SoundSteady
    <3>3. <<a>> \in Seq(Sound') /\ table' \in Seq(Sound') /\ RowsNumbered' /\ Len(<<a>>) = 1
      BY <2>2, <3>1, <3>2 DEF SiteInv, AllSound, RowsNumbered
    <3> HIDE DEF a
    <3> QED BY <3>1, <3>3, ReplySound
  <2>4. CASE a.encrypted /\ ~a.password.sealed
    BY <2>1, <2>4, FailSound
  <2>5. CASE a.encrypted /\ a.password.sealed
    <3>1. /\ Reply(m, 200, <<o>>) /\ opened' = opened \cup {a.accountID} /\ UNCHANGED <<table, lastId>>
      BY <2>1, <2>5
    <3> HIDE DEF a
    <3>2. a.password.text \in Passwords
      BY <2>2, <2>5 DEF Kept, Pwds, Null, Clear, Sealed
    <3>3. /\ Clear(Trimmed[a.password.text]) \in Pwds
          /\ Clear(Trimmed[a.password.text]).sealed = FALSE
      BY <3>2, SiteAssumption DEF Pwds, Clear
    <3>4. /\ o \in Kept /\ o.accountID = a.accountID
          /\ o.password.sealed = FALSE /\ o.encrypted = FALSE
      <4> HIDE DEF Pwds
      <4> QED BY <2>2, <3>3 DEF Kept
    <3> HIDE DEF o
    <3>5. Sound \subseteq Sound' /\ Seq(Sound) \subseteq Seq(Sound')
      BY <3>1, SoundGrows
    <3>6. o \in Sound'
      BY <3>1, <3>4 DEF Sound
    <3>7. <<o>> \in Seq(Sound') /\ table' \in Seq(Sound') /\ RowsNumbered' /\ Len(<<o>>) = 1
      BY <3>1, <3>5, <3>6 DEF SiteInv, AllSound, RowsNumbered
    <3>8. opened \subseteq opened'
      BY <3>1
    <3> QED BY <3>1, <3>7, <3>8, ReplySound
  <2> QED BY <2>3, <2>4, <2>5
<1> QED BY <1>1, <1>2

LEMMA UpdateStep ==
  ASSUME SiteInv, UNCHANGED <<tidy, accounts, current, clicks>>, NEW m \in net, Update(m)
  PROVE  SiteInv'
<1>1. /\ table' = [i \in DOMAIN table |-> IF table[i].accountID = m.account.accountID THEN m.account ELSE table[i]]
      /\ Reply(m, 200, <<m.account>>) /\ UNCHANGED <<lastId, opened>>
  BY DEF Update
<1>2. Sound' = Sound
  BY <1>1, SoundSteady
<1>3. m.account \in Sound /\ table \in Seq(Sound) /\ \A i \in DOMAIN table : table[i].accountID > 0
  BY DEF SiteInv, AllSound, RowsNumbered, Calls
<1>4. table' \in Seq(Sound)
  <2>1. DOMAIN table = 1 .. Len(table) /\ Len(table) \in Nat
    BY <1>3
  <2>2. table' \in [1 .. Len(table) -> Sound]
    BY <1>1, <1>3, <2>1
  <2> QED BY <2>1, <2>2
<1>5. RowsNumbered'
  <2>1. \A i \in DOMAIN table' : table'[i].accountID > 0
    BY <1>1, <1>3
  <2> QED BY <1>1, <2>1 DEF SiteInv, RowsNumbered
<1>6. <<m.account>> \in Seq(Sound') /\ Len(<<m.account>>) = 1
  BY <1>2, <1>3
<1> QED BY <1>1, <1>2, <1>4, <1>5, <1>6, ReplySound

LEMMA DeleteStep ==
  ASSUME SiteInv, UNCHANGED <<tidy, accounts, current, clicks>>, NEW m \in net, m.op = "delete", Delete(m)
  PROVE  SiteInv'
<1> DEFINE Rowed == {a \in Sound : a.accountID > 0}
<1>1. /\ UNCHANGED <<lastId, opened>> /\ Reply(m, 200, <<>>)
      /\ table' = table \/ \E i \in DOMAIN table : table' = RemoveAt(table, i)
  BY DEF Delete, RowOf
<1>2. Sound' = Sound
  BY <1>1, SoundSteady
<1>3. table \in Seq(Rowed)
  <2>1. table \in Seq(Sound) /\ \A i \in DOMAIN table : table[i].accountID > 0
    BY DEF SiteInv, AllSound, RowsNumbered
  <2> QED BY <2>1
<1>4. table' \in Seq(Rowed)
  <2> HIDE DEF Rowed
  <2> QED BY <1>1, <1>3, RemoveAtKeeps
<1>5. table' \in Seq(Sound) /\ \A i \in DOMAIN table' : table'[i].accountID > 0
  BY <1>4
<1>6. RowsNumbered' /\ table' \in Seq(Sound') /\ <<>> \in Seq(Sound')
  BY <1>1, <1>2, <1>5 DEF SiteInv, RowsNumbered
<1> QED BY <1>1, <1>6, ReplySound

LEMMA ServerStep ==
  ASSUME SiteInv, Server
  PROVE  SiteInv'
<1>1. UNCHANGED <<tidy, accounts, current, clicks>>
  BY DEF Server, page
<1>2. PICK m \in net :
        \/ m.op = "create" /\ Create(m)
        \/ m.op = "list" /\ List(m)
        \/ m.op = "get" /\ Retrieve(m)
        \/ m.op = "update" /\ Update(m)
        \/ m.op = "delete" /\ Delete(m)
  BY DEF Server, Serve
<1>3. CASE m.op = "list" /\ List(m)
  <2>1. Reply(m, 200, table) /\ UNCHANGED <<table, lastId, opened>>
    BY <1>3 DEF List, store
  <2>2. Sound' = Sound
    BY <1>1, <2>1, SoundSteady
  <2>3. table' \in Seq(Sound') /\ table \in Seq(Sound') /\ RowsNumbered'
    BY <2>1, <2>2 DEF SiteInv, AllSound, RowsNumbered
  <2> QED BY <1>1, <1>3, <2>1, <2>3, ReplySound
<1> QED BY <1>1, <1>2, <1>3, CreateStep, RetrieveStep, UpdateStep, DeleteStep

-----------------------------------------------------------------------------
(* What the callbacks of the pages do. *)

LEMMA TakenSound ==
  ASSUME SiteInv, UNCHANGED <<store, clicks, tidy>>,
         accounts' \in [Pages -> Seq(Sound)], current' \in [Pages -> Sound], net' \subseteq net
  PROVE  SiteInv'
<1>1. UNCHANGED <<table, lastId, opened, tidy, clicks>>
  BY DEF store
<1>2. Sound' = Sound /\ Calls' = Calls
  BY <1>1, SoundSteady
<1>3. AllSound'
  BY <1>1, <1>2 DEF SiteInv, AllSound
<1> QED BY <1>1, <1>3 DEF SiteInv, Answered, RowsNumbered

LEMMA DeliverStep ==
  ASSUME SiteInv, Deliver
  PROVE  SiteInv'
<1>1. UNCHANGED <<store, clicks, tidy>>
  BY DEF Deliver
<1>2. PICK m \in net : \/ m.status = 200 /\ Callback(m)
                       \/ m.status = 500 /\ Take(m) /\ UNCHANGED page
  BY DEF Deliver
<1>3. /\ accounts \in [Pages -> Seq(Sound)] /\ current \in [Pages -> Sound] /\ net \subseteq Calls
      /\ m \in Calls
  BY DEF SiteInv, AllSound
<1>4. /\ m.page \in Pages /\ m.n \in Nat /\ m.account \in Sound /\ m.data \in Seq(Sound)
      /\ m.op \in {"list", "create", "get", "update", "delete"}
  BY <1>3 DEF Calls
<1>5. CASE m.status = 500 /\ Take(m) /\ UNCHANGED page
  <2>1. UNCHANGED <<accounts, current>> /\ net' \subseteq net
    BY <1>5 DEF page, Take
  <2> QED BY <1>1, <1>3, <2>1, TakenSound
<1>6. ASSUME m.status = 200, m.op \in {"create", "get", "update"}
      PROVE  m.data[1] \in Sound
  <2>1. Len(m.data) = 1
    BY <1>6 DEF SiteInv, Answered
  <2> QED BY <1>4, <2>1
<1>7. CASE m.status = 200 /\ m.op = "create" /\ Created(m)
  <2>1. /\ accounts' = [accounts EXCEPT ![m.page] = Append(accounts[m.page], m.data[1])]
        /\ net' \subseteq net /\ UNCHANGED current
    BY <1>7 DEF Created, SetList, Take
  <2>2. Append(accounts[m.page], m.data[1]) \in Seq(Sound)
    BY <1>3, <1>4, <1>6, <1>7
  <2>3. accounts' \in [Pages -> Seq(Sound)]
    BY <1>3, <2>1, <2>2
  <2> QED BY <1>1, <1>3, <2>1, <2>3, TakenSound
<1>8. CASE m.status = 200 /\ m.op = "list" /\ Listed(m)
  <2>1. /\ accounts' = [accounts EXCEPT ![m.page] = m.data]
        /\ net' \subseteq net /\ UNCHANGED current
    BY <1>8 DEF Listed, SetList, Take
  <2>2. accounts' \in [Pages -> Seq(Sound)]
    BY <1>3, <1>4, <2>1
  <2> QED BY <1>1, <1>3, <2>1, <2>2, TakenSound
<1>9. CASE m.status = 200 /\ m.op \in {"get", "update"} /\ Replaced(m)
  <2> DEFINE list == accounts[m.page]
  <2>1. /\ \/ accounts' = accounts
           \/ \E i \in DOMAIN list : accounts' = [accounts EXCEPT ![m.page] = [list EXCEPT ![i] = m.data[1]]]
        /\ net' \subseteq net /\ UNCHANGED current
    BY <1>9 DEF Replaced, SetList, Take
  <2>2. list \in Seq(Sound) /\ m.data[1] \in Sound
    BY <1>3, <1>4, <1>6, <1>9
  <2>3. \A i \in DOMAIN list : [list EXCEPT ![i] = m.data[1]] \in Seq(Sound)
    BY <2>2
  <2>4. accounts' \in [Pages -> Seq(Sound)]
    BY <1>3, <1>4, <2>1, <2>3
  <2> QED BY <1>1, <1>3, <2>1, <2>4, TakenSound
<1>10. CASE m.status = 200 /\ m.op = "delete" /\ Deleted(m)
  <2> DEFINE c == Call(m.page, m.n, "list", m.account)
  <2>1. /\ current' = [current EXCEPT ![m.page] = NewAccount]
        /\ net' = (net \ {m}) \cup {c} /\ UNCHANGED accounts
    BY <1>10 DEF Deleted, CloseForm
  <2>2. UNCHANGED <<table, lastId, opened, tidy>>
    BY <1>1 DEF store
  <2>3. Sound' = Sound /\ Calls' = Calls
    BY <2>2, SoundSteady
  <2>4. c \in Calls' /\ c.status = 0
    BY <1>4, <2>3, CallSoundNext
  <2>5. current' \in [Pages -> Sound'] /\ clicks' \in Nat
    BY <1>1, <1>3, <2>1, <2>3, NewSound DEF SiteInv, AllSound
  <2>6. net' \subseteq net \cup {c} /\ (tidy' => tidy)
    BY <2>1, <2>2
  <2> HIDE DEF c
  <2> QED BY <2>1, <2>2, <2>4, <2>5, <2>6, SendSound
<1> QED BY <1>2, <1>4, <1>5, <1>7, <1>8, <1>9, <1>10 DEF Callback

LEMMA SiteStep ==
  ASSUME SiteInv, [SiteNext]_siteVars
  PROVE  SiteInv'
<1>1. /\ accounts \in [Pages -> Seq(Sound)] /\ current \in [Pages -> Sound]
  BY DEF SiteInv, AllSound
<1>2. CASE UNCHANGED siteVars
  <2>1. UNCHANGED <<store, clicks, tidy, accounts, current, net>>
    BY <1>2 DEF siteVars, page
  <2> QED BY <1>1, <2>1, TakenSound
<1>3. CASE Lose
  <2>1. UNCHANGED <<store, clicks, tidy, accounts, current>> /\ net' \subseteq net
    BY <1>3 DEF Lose, Take, page
  <2> QED BY <1>1, <2>1, TakenSound
<1> QED BY <1>2, <1>3, UserStep, ServerStep, DeliverStep DEF SiteNext, Network

-----------------------------------------------------------------------------
(* One pane. *)

LEMMA WaitingInit == SiteInit => Waiting
<1> SUFFICES ASSUME SiteInit PROVE Waiting
  OBVIOUS
<1>1. shown = [p \in Pages |-> {"accounts"}]
  BY DEF SiteInit
<1>2. \A m \in net : m.page \in Pages
  BY DEF SiteInit, Call
<1> QED BY <1>1, <1>2 DEF Waiting

LEMMA CallPage == \A p, n, op, a : Call(p, n, op, a).page = p
BY DEF Call

LEMMA ReplyPage ==
  ASSUME NEW m \in net, m \in Calls, NEW status, NEW data, Reply(m, status, data)
  PROVE  \A c \in net' : \E d \in net : c.page = d.page
<1>1. net' = (net \ {m}) \cup {[m EXCEPT !.status = status, !.data = data]}
  BY DEF Reply
<1>2. [m EXCEPT !.status = status, !.data = data].page = m.page
  BY DEF Calls
<1> QED BY <1>1, <1>2

LEMMA WaitingUser ==
  ASSUME SiteInv, Waiting, NEW p \in Pages, User(p)
  PROVE  Waiting'
<1>1. calm' => calm /\ net = {}
  BY DEF User, EditAccount, CancelAccount, SaveAccount, DeleteAccount, RetrieveAccount, Clicked
<1>2. CASE EditAccount(p) \/ CancelAccount(p)
  <2>1. /\ shown' = [shown EXCEPT ![p] = {"account"}] \/ shown' = [shown EXCEPT ![p] = {"accounts"}]
        /\ UNCHANGED net
    BY <1>2 DEF EditAccount, CancelAccount, CloseForm
  <2> QED BY <1>1, <2>1 DEF Waiting
<1>3. CASE SaveAccount(p)
  <2>1. shown' = [shown EXCEPT ![p] = {"accounts"}]
    BY <1>3 DEF SaveAccount, CloseForm
  <2>2. \A m \in net' : m \in net \/ m.page = p
    BY <1>3, CallPage DEF SaveAccount, Send
  <2> QED BY <1>1, <2>1, <2>2 DEF Waiting
<1>4. CASE DeleteAccount(p) \/ RetrieveAccount(p)
  <2>1. "accounts" \in shown[p] /\ UNCHANGED shown
    BY <1>4 DEF DeleteAccount, RetrieveAccount, page
  <2>2. \A m \in net' : m \in net \/ m.page = p
    BY <1>4, CallPage DEF DeleteAccount, RetrieveAccount, Send
  <2>3. calm' => shown[p] = {"accounts"}
    BY <1>1, <2>1 DEF Waiting
  <2> QED BY <1>1, <2>1, <2>2, <2>3 DEF Waiting
<1> QED BY <1>2, <1>3, <1>4 DEF User

LEMMA WaitingServer ==
  ASSUME SiteInv, Waiting, Server
  PROVE  Waiting'
<1>1. UNCHANGED <<shown, calm>>
  BY DEF Server, page
<1>2. net \subseteq Calls
  BY DEF SiteInv, AllSound
<1>3. PICK m \in net : \/ Create(m) \/ List(m) \/ Retrieve(m) \/ Update(m) \/ Delete(m)
  BY DEF Server, Serve
<1>4. ASSUME NEW status, NEW data, Reply(m, status, data)
      PROVE  \A c \in net' : \E d \in net : c.page = d.page
  BY <1>2, <1>4, ReplyPage
<1>5. \A c \in net' : \E d \in net : c.page = d.page
  <2>1. CASE Create(m)
    BY <1>4, <2>1 DEF Create, Fail
  <2>2. CASE List(m) \/ Update(m) \/ Delete(m)
    BY <1>4, <2>2 DEF List, Update, Delete
  <2>3. CASE Retrieve(m)
    BY <1>4, <2>3 DEF Retrieve, Fail
  <2> QED BY <1>3, <2>1, <2>2, <2>3
<1> QED BY <1>1, <1>5 DEF Waiting

LEMMA WaitingDeliver ==
  ASSUME SiteInv, Waiting, Deliver
  PROVE  Waiting'
<1>1. UNCHANGED calm
  BY DEF Deliver
<1>2. PICK m \in net : \/ m.status = 200 /\ Callback(m)
                       \/ m.status = 500 /\ Take(m) /\ UNCHANGED page
  BY DEF Deliver
<1>3. m \in Calls /\ m.page \in Pages /\ m.op \in {"list", "create", "get", "update", "delete"}
  BY DEF SiteInv, AllSound, Calls
<1>4. CASE UNCHANGED shown /\ Take(m)
  BY <1>1, <1>4 DEF Waiting, Take
<1>5. CASE Deleted(m)
  <2>1. shown' = [shown EXCEPT ![m.page] = shown[m.page] \ {"account"}]
    BY <1>5 DEF Deleted, CloseForm
  <2>2. \A c \in net' : c.page = m.page \/ c \in net
    BY <1>5 DEF Deleted, Call
  <2>3. calm => shown[m.page] = {"accounts"} /\ {"accounts"} \ {"account"} = {"accounts"}
    BY DEF Waiting
  <2>4. shown' \in [Pages -> SUBSET {"accounts", "account"}]
    BY <1>3, <2>1 DEF Waiting
  <2> QED BY <1>1, <1>3, <2>1, <2>2, <2>3, <2>4 DEF Waiting
<1> QED BY <1>2, <1>3, <1>4, <1>5 DEF Callback, Created, Listed, Replaced, page

LEMMA WaitingStep ==
  ASSUME SiteInv, Waiting, [SiteNext]_siteVars
  PROVE  Waiting'
<1>1. CASE UNCHANGED siteVars
  BY <1>1 DEF siteVars, page, Waiting
<1>2. CASE Lose
  BY <1>2 DEF Lose, Take, page, Waiting
<1> QED BY <1>1, <1>2, WaitingUser, WaitingServer, WaitingDeliver DEF SiteNext, Network

-----------------------------------------------------------------------------
(* What a page that follows the table shows.  First the list, as the table *)
(* changes below it and as the callbacks change it. *)

LEMMA NamesListed ==
  ASSUME NEW list
  PROVE  /\ \A i \in DOMAIN list : list[i].userName \in UserNames(list)
         /\ \A n \in UserNames(list) : \E i \in DOMAIN list : n = list[i].userName
BY DEF UserNames, ToSet

LEMMA MoreRows ==
  ASSUME NEW list, NEW rows, NEW open, NEW row, NEW name,
         Follows(list, rows, open), row.userName = name
  PROVE  /\ Mirrors(list, rows \cup {row})
         /\ \A i \in DOMAIN list : AsStored(list[i], rows \cup {row}, open)
         /\ Complete(list, rows \cup {row}, {name})
<1>1. Mirrors(list, rows \cup {row})
  BY DEF Follows, Mirrors, Stands, NamesOf
<1>2. \A i \in DOMAIN list : AsStored(list[i], rows \cup {row}, open)
  BY DEF Follows, AsStored
<1>3. NamesOf(rows \cup {row}) \subseteq NamesOf(rows) \cup {name}
  BY DEF NamesOf
<1>4. Complete(list, rows \cup {row}, {name})
  BY <1>3 DEF Follows, Complete
<1> QED BY <1>1, <1>2, <1>4

LEMMA MoreOpened ==
  ASSUME NEW list, NEW rows, NEW open, NEW id, Follows(list, rows, open)
  PROVE  Follows(list, rows, open \cup {id})
BY DEF Follows, AsStored

\* A row is replaced by one of the same name.
Renewed(rows, a) == {IF r.accountID = a.accountID THEN a ELSE r : r \in rows}

LEMMA RowReplaced ==
  ASSUME NEW list, NEW rows, NEW open, NEW a, Follows(list, rows, open), Copied(a, list),
         \A r, s \in rows : r.accountID = s.accountID => r = s,
         \A r \in rows : r.accountID # 0
  PROVE  /\ AsStored(a, Renewed(rows, a), {})
         /\ Mirrors(list, Renewed(rows, a))
         /\ \A i \in DOMAIN list : list[i].accountID = a.accountID \/ AsStored(list[i], Renewed(rows, a), open)
         /\ Complete(list, Renewed(rows, a), {})
<1> DEFINE New(r) == IF r.accountID = a.accountID THEN a ELSE r
           after == {New(r) : r \in rows}
<1>1. PICK k \in DOMAIN list : list[k].accountID = a.accountID /\ list[k].userName = a.userName
  BY DEF Copied
<1>2. a.accountID = 0 \/ \E r \in rows : r.accountID = a.accountID /\ r.userName = a.userName
  BY <1>1 DEF Follows, Mirrors, Stands
<1>3. \A r \in rows : New(r).accountID = r.accountID /\ New(r).userName = r.userName
  BY <1>2
<1>4. AsStored(a, after, {})
  <2>1. \A r \in rows : r.accountID = a.accountID => a \in after
    OBVIOUS
  <2> QED BY <1>2, <2>1 DEF AsStored
<1>5. NamesOf(after) = NamesOf(rows)
  BY <1>3 DEF NamesOf
<1>6. \A b : Stands(b, rows) => Stands(b, after)
  BY <1>3 DEF Stands
<1>7. ASSUME NEW i \in DOMAIN list, list[i].accountID # a.accountID
      PROVE  AsStored(list[i], after, open)
  <2>1. \A r \in rows : r.accountID # a.accountID => r \in after
    OBVIOUS
  <2> QED BY <1>7, <2>1 DEF Follows, AsStored
<1> HIDE DEF after
<1>8. Mirrors(list, after) /\ Complete(list, after, {})
  BY <1>5, <1>6 DEF Follows, Mirrors, Complete
<1>9. \A i \in DOMAIN list : list[i].accountID = a.accountID \/ AsStored(list[i], after, open)
  BY <1>7
<1> QED BY <1>4, <1>8, <1>9 DEF after, Renewed

\* An account is pushed.
LEMMA Pushed ==
  ASSUME NEW S, NEW list \in Seq(S), NEW rows, NEW open, NEW d \in S,
         d.accountID = 0, d.userName \in NamesOf(rows),
         Mirrors(list, rows), \A i \in DOMAIN list : AsStored(list[i], rows, open),
         Complete(list, rows, {d.userName})
  PROVE  Follows(Append(list, d), rows, open)
<1> DEFINE new == Append(list, d)
<1>1. /\ new \in Seq(S) /\ Len(new) = Len(list) + 1 /\ Len(list) \in Nat
      /\ new[Len(list) + 1] = d /\ \A i \in 1 .. Len(list) : new[i] = list[i]
      /\ DOMAIN list = 1 .. Len(list)
  BY AppendProperties, LenProperties
<1> HIDE DEF new
<1>2. DOMAIN new = DOMAIN list \cup {Len(new)} /\ Len(new) \notin DOMAIN list /\ new[Len(new)] = d
  <2>1. DOMAIN new = 1 .. Len(new)
    BY <1>1, LenProperties
  <2>2. 1 .. Len(list) + 1 = (1 .. Len(list)) \cup {Len(list) + 1}
    BY <1>1
  <2> QED BY <1>1, <2>1, <2>2
<1>3. \A i \in DOMAIN list : new[i] = list[i]
  BY <1>1
<1>4. Mirrors(new, rows)
  BY <1>2, <1>3 DEF Mirrors
<1>5. \A i \in DOMAIN new : AsStored(new[i], rows, open)
  BY <1>2, <1>3 DEF AsStored
<1>6. Complete(new, rows, {})
  <2>1. SUFFICES ASSUME AtMostOneUnnumbered(new), NEW n \in NamesOf(rows)
                 PROVE  n \in UserNames(new)
    BY DEF Complete
  <2>2. AtMostOneUnnumbered(list)
    BY <1>2, <1>3, <2>1 DEF AtMostOneUnnumbered
  <2>3. n \in UserNames(list) \/ n = d.userName
    BY <2>2 DEF Complete
  <2>4. CASE n = d.userName
    BY <1>2, <2>4, NamesListed
  <2>5. CASE n \in UserNames(list)
    <3>1. PICK i \in DOMAIN list : n = list[i].userName
      BY <2>5, NamesListed
    <3>2. i \in DOMAIN new /\ n = new[i].userName
      BY <1>2, <1>3, <3>1
    <3> QED BY <3>2, NamesListed
  <2> QED BY <2>3, <2>4, <2>5
<1> QED BY <1>4, <1>5, <1>6 DEF Follows, new

\* An account is replaced by one of the same id.
LEMMA ItemReplaced ==
  ASSUME NEW list, NEW rows, NEW open, NEW i \in DOMAIN list, NEW d,
         Mirrors(list, rows), Complete(list, rows, {}),
         d.accountID = list[i].accountID, d.userName \in NamesOf(rows),
         d.accountID = 0 \/ Stands(d, rows), AsStored(d, rows, open),
         \A j \in DOMAIN list : j = i \/ AsStored(list[j], rows, open),
         AtMostOneUnnumbered(list) => d.userName = list[i].userName
  PROVE  Follows([list EXCEPT ![i] = d], rows, open)
<1> DEFINE new == [list EXCEPT ![i] = d]
<1>1. DOMAIN new = DOMAIN list /\ new[i] = d /\ \A j \in DOMAIN list : j # i => new[j] = list[j]
  OBVIOUS
<1> HIDE DEF new
<1>2. \A j \in DOMAIN list : new[j].accountID = list[j].accountID
  BY <1>1
<1>3. Mirrors(new, rows)
  <2>1. \A j \in DOMAIN new : /\ new[j].userName \in NamesOf(rows)
                              /\ new[j].accountID = 0 \/ Stands(new[j], rows)
    BY <1>1 DEF Mirrors
  <2>2. \A j, k \in DOMAIN new : new[j].accountID = new[k].accountID => (j = k \/ new[j].accountID = 0)
    BY <1>1, <1>2 DEF Mirrors
  <2> QED BY <2>1, <2>2 DEF Mirrors
<1>4. \A j \in DOMAIN new : AsStored(new[j], rows, open)
  BY <1>1
<1>5. Complete(new, rows, {})
  <2>1. SUFFICES ASSUME AtMostOneUnnumbered(new), NEW n \in NamesOf(rows)
                 PROVE  n \in UserNames(new)
    BY DEF Complete
  <2>2. AtMostOneUnnumbered(list)
    BY <1>1, <1>2, <2>1 DEF AtMostOneUnnumbered
  <2>3. n \in UserNames(list)
    BY <2>2 DEF Complete
  <2>4. PICK j \in DOMAIN list : n = list[j].userName
    BY <2>3, NamesListed
  <2>5. n = new[j].userName /\ j \in DOMAIN new
    BY <1>1, <2>2, <2>4
  <2> QED BY <2>5, NamesListed
<1> QED BY <1>3, <1>4, <1>5 DEF Follows, new

\* A list fetched from the table.
LEMMA Fetched ==
  ASSUME NEW list, NEW open, \A i, j \in DOMAIN list : list[i].accountID = list[j].accountID => i = j
  PROVE  Follows(list, ToSet(list), open)
<1>1. \A i \in DOMAIN list : list[i] \in ToSet(list)
  BY DEF ToSet
<1>2. NamesOf(ToSet(list)) = UserNames(list)
  BY DEF NamesOf, UserNames
<1>3. Mirrors(list, ToSet(list))
  BY <1>1, <1>2, NamesListed DEF Mirrors, Stands
<1> QED BY <1>1, <1>2, <1>3 DEF Follows, AsStored, Complete

-----------------------------------------------------------------------------
(* Then the steps. *)

LEMMA FollowInit == SiteInit => FollowInv
<1> SUFFICES ASSUME SiteInit PROVE FollowInv
  OBVIOUS
<1>1. /\ table = <<Account(1, -1, Clear(Plain), FALSE), Account(2, -2, Sealed(Hidden), TRUE)>>
      /\ lastId = 2 /\ current = [p \in Pages |-> NewAccount] /\ shown = [p \in Pages |-> {"accounts"}]
      /\ net = {Call(p, 0, "list", NewAccount) : p \in Pages}
  BY DEF SiteInit
<1>2. RowsApart
  <2> DEFINE a == Account(1, -1, Clear(Plain), FALSE)
             b == Account(2, -2, Sealed(Hidden), TRUE)
  <2>1. a.accountID = 1 /\ b.accountID = 2 /\ table = <<a, b>>
    BY <1>1 DEF Account
  <2> HIDE DEF a, b
  <2>2. \A i \in DOMAIN table : (i = 1 /\ table[i] = a) \/ (i = 2 /\ table[i] = b)
    <3>1. \A i \in 1 .. 2 : i = 1 \/ i = 2
      OBVIOUS
    <3> QED BY <2>1, <3>1
  <2>3. \A i \in DOMAIN table : table[i].accountID = i /\ i \in {1, 2}
    BY <2>1, <2>2
  <2>4. lastId = 2
    BY <1>1
  <2> QED BY ONLY <2>3, <2>4 DEF RowsApart
<1>3. HiddenForm
  BY <1>1 DEF HiddenForm
<1>4. \A p \in Pages : /\ Call(p, 0, "list", NewAccount).page = p
                       /\ Call(p, 0, "list", NewAccount).op = "list"
                       /\ Call(p, 0, "list", NewAccount).status = 0
  BY DEF Call
<1>5. OneCall
  BY <1>1, <1>4 DEF OneCall
<1>6. ASSUME NEW p \in Pages
      PROVE  Followed(p)
  <2>1. ~ \A m \in net : m.page # p
    BY <1>1, <1>4
  <2>2. \A m \in net : m.op = "list" /\ m.status = 0
    BY <1>1, <1>4
  <2>3. \A m \in net : Expected(m, accounts[p], table, opened)
    BY <2>2 DEF Expected, WillList
  <2>4. current[p].accountID = NoId
    BY <1>1 DEF NewAccount, Account
  <2> QED BY <2>1, <2>3, <2>4 DEF Followed
<1> QED BY <1>2, <1>3, <1>5, <1>6 DEF FollowInv

LEMMA RowFacts ==
  ASSUME SiteInv, RowsApart
  PROVE  /\ \A r, s \in Rows : r.accountID = s.accountID => r = s
         /\ \A r \in Rows : r.accountID > 0 /\ r.accountID # 0
         /\ \A i \in DOMAIN table : table[i] \in Rows
BY DEF SiteInv, RowsNumbered, RowsApart, Rows, ToSet

LEMMA FollowUser ==
  ASSUME SiteInv, Waiting, FollowInv, NEW q \in Pages, User(q)
  PROVE  FollowInv'
<1>1. /\ UNCHANGED <<table, lastId, opened, accounts>>
      /\ clickers' = clickers \cup {q} /\ calm' = (calm /\ net = {})
  BY DEF User, EditAccount, CancelAccount, SaveAccount, DeleteAccount, RetrieveAccount, Clicked, store, page
<1>2. /\ accounts \in [Pages -> Seq(Sound)] /\ current \in [Pages -> Sound]
      /\ shown \in [Pages -> SUBSET {"accounts", "account"}]
  BY DEF SiteInv, AllSound, Waiting
<1>3. RowsApart'
  BY <1>1 DEF FollowInv, RowsApart
<1>4. HiddenForm'
  <2>1. \/ UNCHANGED <<current, shown>>
        \/ shown' = [shown EXCEPT ![q] = {"account"}] /\ \E a : current' = [current EXCEPT ![q] = a]
        \/ /\ shown' = [shown EXCEPT ![q] = {"accounts"}]
           /\ current' = [current EXCEPT ![q] = NewAccount]
    BY DEF User, EditAccount, CancelAccount, SaveAccount, DeleteAccount, RetrieveAccount, CloseForm, page
  <2> QED BY <1>2, <2>1 DEF FollowInv, HiddenForm
<1>5. SUFFICES ASSUME calm'
               PROVE  OneCall' /\ \A p \in Pages : clickers' \subseteq {p} => Followed(p)'
  BY <1>3, <1>4 DEF FollowInv
<1>6. SUFFICES OneCall' /\ (clickers \subseteq {q} => Followed(q)')
  <2>1. \A p \in Pages : clickers' \subseteq {p} => p = q /\ clickers \subseteq {q}
    BY <1>1
  <2> QED BY <2>1
<1>7. calm /\ net = {} /\ q \in clickers'
  BY <1>1, <1>5
<1>8. /\ clickers \subseteq {q} => Follows(accounts[q], Rows, opened)
      /\ clickers \subseteq {q} => (current[q].accountID = NoId \/ Copied(current[q], accounts[q]))
  BY <1>7 DEF FollowInv, Followed
<1>9. Rows' = Rows
  BY <1>1 DEF Rows
<1>10. ASSUME NEW c, net' = {c}, c.page = q, c.status = 0,
              c.op \in {"list", "delete"} \/ (c.op \in {"get", "create"}) \/
                 (c.op = "update" /\ (clickers \subseteq {q} => Copied(c.account, accounts[q]))),
              current'[q] = current[q] \/ current'[q] = NewAccount
       PROVE  OneCall' /\ (clickers \subseteq {q} => Followed(q)')
  <2>1. OneCall'
    BY <1>7, <1>10 DEF OneCall
  <2>2. SUFFICES ASSUME clickers \subseteq {q}
                 PROVE  Followed(q)'
    BY <2>1
  <2>3. Expected(c, accounts[q], table, opened)
    BY <1>8, <1>10, <2>2 DEF Expected, WillList, WillServe, Rows
  <2>4. \A m \in net' : Expected(m, accounts'[q], table', opened')
    BY <1>1, <1>10, <2>3
  <2>5. current'[q].accountID = NoId \/ Copied(current'[q], accounts'[q])
    BY <1>1, <1>8, <1>10, <2>2 DEF NewAccount, Account
  <2> QED BY <1>10, <2>4, <2>5 DEF Followed
<1>11. CASE EditAccount(q) \/ CancelAccount(q)
  <2>1. net' = {}
    BY <1>7, <1>11 DEF EditAccount, CancelAccount
  <2>2. OneCall'
    BY <2>1 DEF OneCall
  <2>3. \E a \in {NewAccount} \cup ToSet(accounts[q]) : current' = [current EXCEPT ![q] = a]
    BY <1>11 DEF EditAccount, CancelAccount, CloseForm
  <2>4. current'[q] = NewAccount \/ current'[q] \in ToSet(accounts[q])
    BY <1>2, <2>3
  <2>5. current'[q].accountID = NoId \/ Copied(current'[q], accounts'[q])
    BY <1>1, <2>4 DEF NewAccount, Account, ToSet, Copied
  <2>6. clickers \subseteq {q} => Follows(accounts'[q], Rows', opened')
    BY <1>1, <1>8, <1>9
  <2> QED BY <2>1, <2>2, <2>5, <2>6 DEF Followed
<1>12. CASE SaveAccount(q)
  <2>1. PICK a \in Edits(current[q]) :
          IF a.accountID = NoId
          THEN Send(q, "create", [a EXCEPT !.userName = clicks + 1])
          ELSE Send(q, "update", a)
    BY <1>12 DEF SaveAccount
  <2>2. a.accountID = current[q].accountID /\ a.userName = current[q].userName
    BY <2>1 DEF Edits, Account
  <2>3. a.accountID # NoId => (clickers \subseteq {q} => Copied(a, accounts[q]))
    BY <1>8, <2>2 DEF Copied
  <2>4. PICK b \in {a, [a EXCEPT !.userName = clicks + 1]}, op \in {"create", "update"} :
          /\ net' = net \cup {Call(q, clicks', op, b)}
          /\ op = "update" => (clickers \subseteq {q} => Copied(b, accounts[q]))
    <3>1. CASE a.accountID = NoId
      BY <2>1, <3>1 DEF Send
    <3>2. CASE a.accountID # NoId
      BY <2>1, <2>3, <3>2 DEF Send
    <3> QED BY <3>1, <3>2
  <2>5. LET c == Call(q, clicks', op, b) IN c.page = q /\ c.status = 0 /\ c.op = op /\ c.account = b
    BY DEF Call
  <2>6. current'[q] = NewAccount
    BY <1>2, <1>12 DEF SaveAccount, CloseForm
  <2> DEFINE c == Call(q, clicks', op, b)
  <2>7. c.page = q /\ c.status = 0 /\ c.op = op /\ c.account = b /\ net' = {c}
    BY <1>7, <2>4, <2>5
  <2> HIDE DEF c
  <2> QED BY <1>10, <2>4, <2>6, <2>7
<1>13. CASE DeleteAccount(q) \/ RetrieveAccount(q)
  <2>1. PICK b \in {NewAccount} \cup ToSet(accounts[q]), op \in {"list", "get", "delete"} : net' = net \cup {Call(q, clicks', op, b)}
    BY <1>13 DEF DeleteAccount, RetrieveAccount, Send
  <2>2. current'[q] = current[q]
    BY <1>13 DEF DeleteAccount, RetrieveAccount, page
  <2> DEFINE c == Call(q, clicks', op, b)
  <2>3. c.page = q /\ c.status = 0 /\ c.op = op /\ net' = {c}
    BY <1>7, <2>1 DEF Call
  <2> HIDE DEF c
  <2> QED BY <1>10, <2>2, <2>3
<1> QED BY <1>11, <1>12, <1>13 DEF User

LEMMA CallFacts ==
  ASSUME SiteInv, NEW m \in net
  PROVE  /\ m.page \in Pages /\ m.account \in Sound /\ m.account \in Kept /\ m.data \in Seq(Sound)
         /\ m.op \in {"list", "create", "get", "update", "delete"} /\ m.status \in {0, 200, 500}
<1>1. m \in Calls
  BY DEF SiteInv, AllSound
<1>2. m.account \in Sound
  BY <1>1 DEF Calls
<1>3. m.account \in Kept
  BY <1>2 DEF Sound
<1> QED BY <1>1, <1>2, <1>3 DEF Calls

\* The call r that takes the place of the call m answered.
Answers(r, m) ==
  /\ net' = (net \ {m}) \cup {r}
  /\ r.page = m.page /\ r.op = m.op /\ r.account = m.account

LEMMA ReplyAnswers ==
  ASSUME SiteInv, NEW m \in net, NEW status, NEW data, Reply(m, status, data)
  PROVE  \E r : Answers(r, m) /\ r.status = status /\ r.data = data
<1> DEFINE r == [m EXCEPT !.status = status, !.data = data]
<1>1. /\ r.page = m.page /\ r.op = m.op /\ r.account = m.account
      /\ r.status = status /\ r.data = data
  BY DEF SiteInv, AllSound, Calls
<1>2. net' = (net \ {m}) \cup {r}
  BY DEF Reply
<1> HIDE DEF r
<1> QED BY <1>1, <1>2 DEF Answers

LEMMA RowsInserted ==
  ASSUME SiteInv, RowsApart, NEW a \in Kept, Insert(a)
  PROVE  /\ \E row : row.userName = a.userName /\ Rows' = Rows \cup {row}
         /\ RowsApart'
<1> DEFINE row == [a EXCEPT !.accountID = lastId + 1]
<1>1. row.userName = a.userName /\ row.accountID = lastId + 1
  BY DEF Kept
<1> HIDE DEF row
<1>2. table' = Append(table, row) /\ lastId' = lastId + 1
  BY DEF Insert, row
<1>3. lastId \in Nat /\ table \in Seq(Sound) /\ \A i \in DOMAIN table : table[i].accountID \in Int
  BY DEF SiteInv, AllSound, RowsNumbered, Sound, Kept
<1>4. DOMAIN table = 1 .. Len(table) /\ Len(table) \in Nat
  BY <1>3, LenProperties
<1>5. DOMAIN table' = DOMAIN table \cup {Len(table) + 1} /\ Len(table) + 1 \notin DOMAIN table
  BY <1>2, <1>3, <1>4
<1>6. table'[Len(table) + 1] = row /\ \A i \in DOMAIN table : table'[i] = table[i]
  BY <1>2, <1>3, <1>4
<1>7. Rows' = Rows \cup {row}
  BY <1>5, <1>6 DEF Rows, ToSet
<1>8. RowsApart'
  <2>1. \A i \in DOMAIN table : table'[i].accountID <= lastId /\ table'[i].accountID \in Int
    BY <1>3, <1>6 DEF RowsApart
  <2>2. \A i \in DOMAIN table' : table'[i].accountID <= lastId'
    BY <1>1, <1>2, <1>3, <1>5, <1>6, <2>1
  <2>3. \A i, j \in DOMAIN table' : table'[i].accountID = table'[j].accountID => i = j
    <3>1. \A i \in DOMAIN table : table'[i].accountID # lastId + 1
      BY <1>3, <2>1
    <3> QED BY <1>1, <1>5, <1>6, <3>1 DEF RowsApart
  <2> QED BY <2>2, <2>3 DEF RowsApart
<1> QED BY <1>1, <1>7, <1>8

\* What a page expects of its call, once the call is served.
Served(m, list) ==
  /\ \E r : /\ Answers(r, m)
            /\ Expected(m, list, table, opened) => Expected(r, list, table', opened')
  /\ RowsApart'

LEMMA FailFollowed ==
  ASSUME SiteInv, RowsApart, NEW m \in net, m.status = 0, NEW list,
         m.op \in {"create", "get"}, Fail(m)
  PROVE  Served(m, list)
<1>1. Reply(m, 500, <<>>) /\ UNCHANGED <<table, lastId, opened>>
  BY DEF Fail, store
<1>2. PICK r : Answers(r, m) /\ r.status = 500
  BY <1>1, ReplyAnswers
<1>3. Expected(m, list, table, opened) => WillServe(m, list, ToSet(table), opened)
  BY DEF Expected, WillList, WillPush, WillOpen, WillReplace
<1>4. Expected(m, list, table, opened) => Expected(r, list, table', opened')
  BY <1>1, <1>2, <1>3 DEF Expected, WillServe, Answers
<1> QED BY <1>1, <1>2, <1>4 DEF Served, RowsApart

LEMMA CreateFollowed ==
  ASSUME SiteInv, RowsApart, NEW m \in net, m.status = 0, NEW list,
         m.op = "create", Create(m)
  PROVE  Served(m, list)
<1> DEFINE a == [m.account EXCEPT !.accountID = 0]
           s == [a EXCEPT !.password = Sealed(a.password.text), !.encrypted = TRUE]
<1>1. Expected(m, list, table, opened) => WillServe(m, list, ToSet(table), opened)
  BY DEF Expected, WillList, WillPush, WillOpen, WillReplace
<1>2. m.account \in Kept
  BY CallFacts
<1>3. a \in Kept /\ a.accountID = 0
  BY ONLY <1>2 DEF Kept
<1> HIDE DEF a
<1>4. ASSUME NEW b \in Kept, b.accountID = 0, Insert(b), Reply(m, 200, <<b>>)
      PROVE  Served(m, list)
  <2>1. PICK r : Answers(r, m) /\ r.status = 200 /\ r.data = <<b>>
    BY <1>4, ReplyAnswers
  <2>2. PICK row : row.userName = b.userName /\ Rows' = Rows \cup {row}
    BY <1>4, RowsInserted
  <2>3. opened' = opened /\ Rows' = ToSet(table') /\ Rows = ToSet(table)
    BY <1>4 DEF Insert, Rows
  <2>4. r.op = "create" /\ r.data[1] = b
    BY <2>1 DEF Answers
  <2>5. Expected(m, list, table, opened) => Follows(list, Rows, opened)
    BY <1>1, <2>3 DEF WillServe
  <2>6. Expected(m, list, table, opened) =>
        /\ Mirrors(list, Rows')
        /\ \A i \in DOMAIN list : AsStored(list[i], Rows', opened)
        /\ Complete(list, Rows', {b.userName})
    BY <2>2, <2>5, MoreRows
  <2>7. b.userName \in NamesOf(Rows')
    BY <2>2 DEF NamesOf
  <2>8. Expected(m, list, table, opened) => WillPush(r, list, Rows', opened')
    BY <1>4, <2>1, <2>3, <2>4, <2>6, <2>7 DEF WillPush
  <2>9. RowsApart'
    BY <1>4, RowsInserted
  <2> QED BY <2>1, <2>3, <2>8, <2>9 DEF Served, Expected
<1>5. CASE a.encrypted
  <2>1. Insert(a) /\ Reply(m, 200, <<a>>)
    BY <1>5 DEF Create, a
  <2> QED BY <1>3, <1>4, <2>1
<1>6. CASE ~a.encrypted /\ a.password.text \in {"null"} \cup Wide
  <2>1. Fail(m)
    BY <1>6 DEF Create, a
  <2> QED BY <2>1, FailFollowed
<1>7. CASE ~a.encrypted /\ a.password.text \notin {"null"} \cup Wide
  <2>1. Insert(s) /\ Reply(m, 200, <<s>>)
    BY <1>7 DEF Create, a
  <2>2. a.password.text \in Passwords
    BY <1>3, <1>7 DEF Kept, Pwds, Null, Clear, Sealed
  <2>3. Sealed(a.password.text) \in Pwds
    BY <2>2 DEF Pwds
  <2>4. s \in Kept /\ s.accountID = 0
    <3> HIDE DEF Pwds
    <3> QED BY <1>3, <2>3 DEF Kept
  <2> HIDE DEF s
  <2> QED BY <1>4, <2>1, <2>4
<1> QED BY <1>5, <1>6, <1>7

LEMMA RetrieveFollowed ==
  ASSUME SiteInv, RowsApart, NEW m \in net, m.status = 0, NEW list,
         m.op = "get", Retrieve(m)
  PROVE  Served(m, list)
<1>1. Expected(m, list, table, opened) => WillServe(m, list, ToSet(table), opened)
  BY DEF Expected, WillList, WillPush, WillOpen, WillReplace
<1>2. CASE Fail(m)
  BY <1>2, FailFollowed
<1>3. CASE ~Fail(m)
  <2>1. PICK i \in RowOf(m.account.accountID) :
          LET account == table[i] IN
          IF ~account.encrypted THEN Reply(m, 200, <<account>>) /\ UNCHANGED store
          ELSE IF ~account.password.sealed THEN Fail(m)
          ELSE /\ Reply(m, 200, <<[account EXCEPT !.password = Clear(Trimmed[@.text]), !.encrypted = FALSE]>>)
               /\ opened' = opened \cup {account.accountID}
               /\ UNCHANGED <<table, lastId>>
    BY <1>3 DEF Retrieve
  <2> DEFINE a == table[i]
             o == [a EXCEPT !.password = Clear(Trimmed[a.password.text]), !.encrypted = FALSE]
  <2>2. i \in DOMAIN table /\ a \in Rows /\ a \in Kept /\ a.accountID # 0
    BY RowFacts DEF RowOf, SiteInv, AllSound, Sound
  <2>3. /\ o.accountID = a.accountID /\ o.userName = a.userName /\ o.encrypted = FALSE
    BY <2>2 DEF Kept
  <2>4. PICK d : /\ Reply(m, 200, <<d>>) /\ UNCHANGED <<table, lastId>>
                 /\ d.accountID = a.accountID /\ d.userName = a.userName
                 /\ \/ d = a /\ opened' = opened
                    \/ d.encrypted = FALSE /\ opened' = opened \cup {a.accountID}
    <3>1. CASE ~a.encrypted
      BY <2>1, <3>1 DEF store
    <3>2. CASE a.encrypted
      BY <1>3, <2>1, <2>3, <3>2
    <3> QED BY <3>1, <3>2
  <2> HIDE DEF a, o
  <2>5. PICK r : Answers(r, m) /\ r.status = 200 /\ r.data = <<d>>
    BY <2>4, ReplyAnswers
  <2>6. r.op = "get" /\ r.data[1] = d
    BY <2>5 DEF Answers
  <2>7. d.accountID # 0 /\ Stands(d, Rows) /\ AsStored(d, Rows, opened')
    BY <2>2, <2>4 DEF Stands, AsStored
  <2>8. Expected(m, list, table, opened) => Follows(list, Rows, opened')
    <3>1. Expected(m, list, table, opened) => Follows(list, Rows, opened)
      BY <1>1 DEF WillServe, Rows
    <3>2. Expected(m, list, table, opened) => Follows(list, Rows, opened \cup {a.accountID})
      BY <3>1, MoreOpened
    <3> QED BY <2>4, <3>1, <3>2
  <2>9. Expected(m, list, table, opened) => WillOpen(r, list, Rows, opened')
    BY <2>5, <2>6, <2>7, <2>8 DEF WillOpen
  <2>10. Rows = ToSet(table') /\ RowsApart'
    BY <2>4 DEF Rows, RowsApart
  <2> QED BY <2>5, <2>9, <2>10 DEF Served, Expected
<1> QED BY <1>2, <1>3

LEMMA UpdateFollowed ==
  ASSUME SiteInv, RowsApart, NEW m \in net, m.status = 0, NEW list,
         m.op = "update", Update(m)
  PROVE  Served(m, list)
<1> DEFINE a == m.account
           New(x) == IF x.accountID = a.accountID THEN a ELSE x
<1>1. Expected(m, list, table, opened) => WillServe(m, list, Rows, opened)
  BY DEF Expected, WillList, WillPush, WillOpen, WillReplace, Rows
<1>2. /\ table' = [i \in DOMAIN table |-> New(table[i])]
      /\ Reply(m, 200, <<a>>) /\ UNCHANGED <<lastId, opened>>
  BY DEF Update
<1>3. Rows' = {New(x) : x \in Rows}
  BY <1>2 DEF Rows, ToSet
<1>4. /\ DOMAIN table' = DOMAIN table
      /\ \A i \in DOMAIN table : table'[i].accountID = table[i].accountID
  BY <1>2
<1>5. RowsApart'
  BY <1>2, <1>4 DEF RowsApart
<1>6. PICK r : Answers(r, m) /\ r.status = 200 /\ r.data = <<a>>
  BY <1>2, ReplyAnswers
<1>7. r.op = "update" /\ r.account = a /\ r.data[1] = a
  BY <1>6 DEF Answers
<1>8. Expected(m, list, table, opened) => Follows(list, Rows, opened) /\ Copied(a, list)
  BY <1>1 DEF WillServe
<1>9. /\ \A x, y \in Rows : x.accountID = y.accountID => x = y
      /\ \A x \in Rows : x.accountID # 0
  BY RowFacts
<1> DEFINE after == Renewed(Rows, a)
<1>10. Expected(m, list, table, opened) =>
       /\ AsStored(a, Rows', {})
       /\ Mirrors(list, Rows')
       /\ \A i \in DOMAIN list : list[i].accountID = a.accountID \/ AsStored(list[i], Rows', opened)
       /\ Complete(list, Rows', {})
  <2> HIDE DEF a
  <2>1. ASSUME Expected(m, list, table, opened)
        PROVE  /\ AsStored(a, after, {})
               /\ Mirrors(list, after)
               /\ \A i \in DOMAIN list : list[i].accountID = a.accountID \/ AsStored(list[i], after, opened)
               /\ Complete(list, after, {})
    <3>1. Follows(list, Rows, opened) /\ Copied(a, list)
      BY <1>8, <2>1
    <3> QED BY <1>9, <3>1, RowReplaced
  <2> QED BY <1>2, <1>3, <2>1 DEF Renewed
<1> HIDE DEF a
<1>11. Expected(m, list, table, opened) => WillReplace(r, list, Rows', opened')
  BY <1>2, <1>6, <1>7, <1>8, <1>10 DEF WillReplace
<1> QED BY <1>5, <1>6, <1>11 DEF Served, Expected, Rows

LEMMA RemoveFollowed ==
  ASSUME SiteInv, RowsApart, NEW m \in net, m.status = 0, NEW list, m.op = "delete", Delete(m)
  PROVE  Served(m, list)
<1>1. /\ Reply(m, 200, <<>>) /\ UNCHANGED lastId
      /\ table' = table \/ \E i \in DOMAIN table : table' = RemoveAt(table, i)
  BY DEF Delete, RowOf
<1>2. PICK r : Answers(r, m) /\ r.status = 200
  BY <1>1, ReplyAnswers
<1>3. r.op = "delete"
  BY <1>2 DEF Answers
<1>4. Expected(r, list, table', opened')
  BY <1>2, <1>3 DEF Expected, WillList
<1>5. RowsApart'
  <2>1. CASE table' = table
    BY <1>1, <2>1 DEF RowsApart
  <2>2. CASE \E i \in DOMAIN table : table' = RemoveAt(table, i)
    <3>1. PICK i \in DOMAIN table : table' = RemoveAt(table, i)
      BY <2>2
    <3>2. table \in Seq(Sound)
      BY DEF SiteInv, AllSound
    <3>3. /\ table' \in Seq(Sound) /\ Len(table') = Len(table) - 1
          /\ \A j \in DOMAIN table' : table'[j] = IF j < i THEN table[j] ELSE table[j + 1]
      BY <3>1, <3>2, RemoveAtKeeps
    <3>4. /\ DOMAIN table = 1 .. Len(table) /\ Len(table) \in Nat /\ i \in 1 .. Len(table)
          /\ DOMAIN table' = 1 .. Len(table) - 1
      BY <3>2, <3>3, LenProperties
    <3> DEFINE from(j) == IF j < i THEN j ELSE j + 1
    <3>5. \A j \in DOMAIN table' : from(j) \in DOMAIN table /\ table'[j] = table[from(j)]
      BY <3>3, <3>4
    <3>6. \A j, k \in DOMAIN table' : from(j) = from(k) => j = k
      BY <3>4
    <3> HIDE DEF from
    <3> QED BY <1>1, <3>5, <3>6 DEF RowsApart
  <2> QED BY <1>1, <2>1, <2>2
<1> QED BY <1>2, <1>4, <1>5 DEF Served

LEMMA ListFollowed ==
  ASSUME SiteInv, RowsApart, NEW m \in net, m.status = 0, NEW list, m.op = "list", List(m)
  PROVE  Served(m, list) /\ UNCHANGED <<table, opened>>
<1>1. Reply(m, 200, table) /\ UNCHANGED <<table, lastId, opened>>
  BY DEF List, store
<1>2. PICK r : Answers(r, m) /\ r.status = 200 /\ r.data = table
  BY <1>1, ReplyAnswers
<1>3. Expected(r, list, table', opened')
  BY <1>1, <1>2 DEF Expected, WillList, Answers
<1> QED BY <1>1, <1>2, <1>3 DEF Served, RowsApart

LEMMA FollowServer ==
  ASSUME SiteInv, FollowInv, Server
  PROVE  FollowInv'
<1>1. UNCHANGED <<accounts, current, shown, calm, clickers>>
  BY DEF Server, page
<1>2. RowsApart /\ HiddenForm'
  BY <1>1 DEF FollowInv, HiddenForm
<1>3. PICK m \in net :
        /\ m.status = 0
        /\ \/ m.op = "create" /\ Create(m)
           \/ m.op = "list" /\ List(m)
           \/ m.op = "get" /\ Retrieve(m)
           \/ m.op = "update" /\ Update(m)
           \/ m.op = "delete" /\ Delete(m)
  BY DEF Server, Serve
<1>4. \A list : Served(m, list)
  BY <1>2, <1>3, CreateFollowed, RetrieveFollowed, UpdateFollowed, RemoveFollowed, ListFollowed
<1>5. RowsApart'
  BY <1>4 DEF Served
<1>6. ASSUME calm
      PROVE  OneCall'
  <2>1. PICK r : Answers(r, m)
    BY <1>4 DEF Served
  <2> QED BY <1>1, <1>6, <2>1 DEF FollowInv, OneCall, Answers
<1>7. ASSUME NEW p \in Pages, calm, clickers \subseteq {p}
      PROVE  Followed(p)'
  <2>1. OneCall /\ Followed(p)
    BY <1>7 DEF FollowInv
  <2>2. PICK L : L = accounts[p]
    OBVIOUS
  <2>3. PICK r : Answers(r, m) /\ (Expected(m, L, table, opened) => Expected(r, L, table', opened'))
    BY <1>4 DEF Served
  <2>4. CASE m.page = p
    <3>1. Expected(r, L, table', opened')
      BY <2>1, <2>2, <2>3, <2>4 DEF Followed
    <3>2. \A c \in net' : c.page = p => c = r
      BY <2>1, <2>3, <2>4 DEF OneCall, Answers
    <3>3. r \in net' /\ r.page = p
      BY <2>3, <2>4 DEF Answers
    <3> QED BY <1>1, <2>1, <2>2, <3>1, <3>2, <3>3 DEF Followed
  <2>5. CASE m.page # p
    <3>1. m.op = "list"
      BY <1>7, <2>1, <2>5 DEF OneCall
    <3>2. UNCHANGED <<table, opened>>
      BY <1>2, <1>3, <3>1, ListFollowed
    <3>3. Rows' = Rows
      BY <3>2 DEF Rows
    <3>4. \A c : c.page = p => (c \in net' <=> c \in net)
      BY <2>3, <2>5 DEF Answers
    <3> QED BY <1>1, <2>1, <3>2, <3>3, <3>4 DEF Followed
  <2> QED BY <2>4, <2>5
<1> QED BY <1>1, <1>2, <1>5, <1>6, <1>7 DEF FollowInv

LEMMA FollowDeliver ==
  ASSUME SiteInv, Waiting, FollowInv, Deliver
  PROVE  FollowInv'
<1>1. UNCHANGED <<table, lastId, opened, calm, clickers>>
  BY DEF Deliver, store
<1>2. PICK m \in net : \/ m.status = 200 /\ Callback(m)
                       \/ m.status = 500 /\ Take(m) /\ UNCHANGED page
  BY DEF Deliver
<1>3. /\ m.page \in Pages /\ m.data \in Seq(Sound)
      /\ m.op \in {"list", "create", "get", "update", "delete"}
  BY CallFacts
<1>4. \/ m.status = 500 /\ Take(m) /\ UNCHANGED page
      \/ m.status = 200 /\ m.op = "create" /\ Created(m)
      \/ m.status = 200 /\ m.op = "list" /\ Listed(m)
      \/ m.status = 200 /\ m.op \in {"get", "update"} /\ Replaced(m)
      \/ m.status = 200 /\ m.op = "delete" /\ Deleted(m)
  BY ZenonT(40), <1>2, <1>3 DEF Callback
<1>5. /\ accounts \in [Pages -> Seq(Sound)] /\ current \in [Pages -> Sound]
      /\ shown \in [Pages -> SUBSET {"accounts", "account"}]
  BY DEF SiteInv, AllSound, Waiting
<1> DEFINE relist == Call(m.page, m.n, "list", m.account)
<1>6. \/ /\ m.status = 500 \/ m.op # "delete"
         /\ net' = net \ {m} /\ UNCHANGED <<current, shown>>
      \/ /\ m.op = "delete" /\ net' = (net \ {m}) \cup {relist} /\ UNCHANGED accounts
         /\ current' = [current EXCEPT ![m.page] = NewAccount]
         /\ shown' = [shown EXCEPT ![m.page] = shown[m.page] \ {"account"}]
  <2>1. CASE \/ m.status = 500 /\ Take(m) /\ UNCHANGED page
             \/ m.status = 200 /\ m.op = "create" /\ Created(m)
             \/ m.status = 200 /\ m.op = "list" /\ Listed(m)
             \/ m.status = 200 /\ m.op \in {"get", "update"} /\ Replaced(m)
    BY <2>1 DEF Created, Listed, Replaced, Take, page
  <2>2. CASE m.status = 200 /\ m.op = "delete" /\ Deleted(m)
    BY <2>2 DEF Deleted, CloseForm
  <2> QED BY <1>4, <2>1, <2>2
<1>7. relist.page = m.page /\ relist.op = "list" /\ relist.status = 0
  BY DEF Call
<1> HIDE DEF relist
<1>8. \A p \in Pages : p # m.page => accounts'[p] = accounts[p] /\ current'[p] = current[p]
  <2>1. \A p \in Pages : p # m.page => current'[p] = current[p]
    BY <1>5, <1>6
  <2>2. UNCHANGED accounts \/ \E l : accounts' = [accounts EXCEPT ![m.page] = l]
    BY <1>4 DEF Created, Listed, Replaced, Deleted, SetList, page
  <2> QED BY <1>5, <2>1, <2>2
<1>9. RowsApart' /\ Rows' = Rows
  BY <1>1 DEF FollowInv, RowsApart, Rows
<1>10. HiddenForm'
  BY <1>5, <1>6 DEF FollowInv, HiddenForm
<1>11. ASSUME calm
       PROVE  OneCall'
  BY <1>1, <1>6, <1>7, <1>11 DEF FollowInv, OneCall
<1>12. ASSUME NEW p \in Pages, calm, clickers \subseteq {p}
       PROVE  Followed(p)'
  <2>1. OneCall /\ Followed(p)
    BY <1>12 DEF FollowInv
  <2>2. CASE m.page # p
    <3>1. \A c : c.page = p => (c \in net' <=> c \in net)
      BY <1>6, <1>7, <2>2
    <3> QED BY <1>1, <1>8, <1>9, <2>1, <2>2, <3>1 DEF Followed
  <2>3. CASE m.page = p
    <3>1. Expected(m, accounts[p], table, opened)
      BY <2>1, <2>3 DEF Followed
    <3>2. current[p] = NewAccount
      BY <1>12, <2>3 DEF Waiting, FollowInv, HiddenForm
    <3>3. current'[p].accountID = NoId
      <4>1. current'[p] = NewAccount
        BY <1>5, <1>6, <2>3, <3>2
      <4> QED BY <4>1 DEF NewAccount, Account
    <3>4. \A c \in net \ {m} : c.page # p
      BY <2>1, <2>3 DEF OneCall
    <3>5. CASE m.op = "delete"
      <4>1. \A c \in net' : c.page = p => c = relist
        BY <1>6, <3>4
      <4>2. m.status # 500
        BY <3>1, <3>5 DEF Expected, WillList, WillPush, WillOpen, WillReplace, WillServe
      <4>3. relist \in net' /\ Expected(relist, accounts'[p], table', opened')
        BY <1>6, <1>7, <3>5, <4>2 DEF Expected, WillList
      <4> QED BY <1>7, <2>3, <3>3, <4>1, <4>3 DEF Followed
    <3>6. ASSUME m.op # "delete"
          PROVE  Follows(accounts'[p], Rows, opened)
      <4>1. CASE m.status = 500
        <5>1. UNCHANGED accounts
          BY <1>2, <4>1 DEF page
        <5>2. WillServe(m, accounts[p], Rows, opened)
          BY <3>1, <3>6, <4>1 DEF Expected, WillList, WillPush, WillOpen, WillReplace, Rows
        <5> QED BY <5>1, <5>2 DEF WillServe
      <4>2. CASE m.status = 200 /\ m.op = "list" /\ Listed(m)
        <5>1. m.data = table
          BY <3>1, <4>2 DEF Expected, WillList, WillPush, WillOpen, WillReplace, WillServe
        <5>2. accounts'[p] = table
          BY <1>5, <2>3, <4>2, <5>1 DEF Listed, SetList
        <5>3. Follows(table, ToSet(table), opened)
          BY Fetched DEF FollowInv, RowsApart
        <5> QED BY <5>2, <5>3 DEF Rows
      <4>3. CASE m.status = 200 /\ m.op = "create" /\ Created(m)
        <5>1. WillPush(m, accounts[p], Rows, opened)
          BY <3>1, <4>3 DEF Expected, WillList, WillOpen, WillReplace, WillServe, Rows
        <5>2. m.data[1] \in Sound
          <6>1. Len(m.data) = 1
            BY <4>3 DEF SiteInv, Answered
          <6> QED BY <1>3, <6>1
        <5>3. accounts'[p] = Append(accounts[p], m.data[1])
          BY <1>5, <2>3, <4>3 DEF Created, SetList
        <5>4. accounts[p] \in Seq(Sound)
          BY <1>5
        <5> QED BY <5>1, <5>2, <5>3, <5>4, Pushed DEF WillPush
      <4>4. CASE m.status = 200 /\ m.op \in {"get", "update"} /\ Replaced(m)
        <5> DEFINE list == accounts[p]
                   d == m.data[1]
        <5>1. \/ accounts'[p] = list /\ \A i \in DOMAIN list : list[i].accountID # d.accountID
              \/ \E i \in DOMAIN list : list[i].accountID = d.accountID
                                        /\ accounts'[p] = [list EXCEPT ![i] = d]
          <6>1. \/ accounts' = accounts /\ \A i \in DOMAIN list : list[i].accountID # d.accountID
                \/ \E i \in DOMAIN list : list[i].accountID = d.accountID
                                          /\ SetList(m, [list EXCEPT ![i] = d])
            BY <2>3, <4>4 DEF Replaced
          <6>2. \A l : SetList(m, l) => accounts'[p] = l
            BY <1>5, <2>3 DEF SetList
          <6> HIDE DEF list, d
          <6> QED BY <6>1, <6>2 DEF list
        <5>2. \/ WillOpen(m, list, Rows, opened)
              \/ WillReplace(m, list, Rows, opened)
          BY <3>1, <4>4 DEF Expected, WillList, WillPush, WillServe, Rows
        <5>3. /\ Mirrors(list, Rows) /\ Complete(list, Rows, {}) /\ AsStored(d, Rows, opened)
              /\ \A i \in DOMAIN list : list[i].accountID = d.accountID \/ AsStored(list[i], Rows, opened)
              /\ (d.accountID # 0 /\ Stands(d, Rows)) \/ Copied(d, list)
          BY <5>2 DEF WillOpen, WillReplace, Follows, AsStored
        <5> HIDE DEF list, d
        <5>4. CASE accounts'[p] = list /\ \A i \in DOMAIN list : list[i].accountID # d.accountID
          BY <5>3, <5>4 DEF Follows
        <5>5. CASE \E i \in DOMAIN list : list[i].accountID = d.accountID
                                          /\ accounts'[p] = [list EXCEPT ![i] = d]
          <6>1. PICK i \in DOMAIN list : list[i].accountID = d.accountID
                                         /\ accounts'[p] = [list EXCEPT ![i] = d]
            BY <5>5
          <6>2. d.accountID = 0 \/ Stands(d, Rows)
            BY <5>3 DEF Mirrors, Copied, Stands
          <6>3. d.userName \in NamesOf(Rows)
            BY <5>3 DEF Mirrors, Copied, Stands, NamesOf
          <6>4. \A j \in DOMAIN list : j = i \/ AsStored(list[j], Rows, opened)
            BY <5>3, <6>1 DEF Mirrors, AsStored
          <6>5. ASSUME AtMostOneUnnumbered(list)
                PROVE  d.userName = list[i].userName
            <7>1. CASE d.accountID # 0
              <8>1. Stands(d, Rows) /\ Stands(list[i], Rows)
                BY <5>3, <6>1, <6>2, <7>1 DEF Mirrors
              <8>2. \A r, s \in Rows : r.accountID = s.accountID => r = s
                BY RowFacts DEF FollowInv
              <8> QED BY <6>1, <8>1, <8>2 DEF Stands
            <7>2. CASE d.accountID = 0
              BY <5>3, <6>1, <6>5, <7>2 DEF Copied, AtMostOneUnnumbered
            <7> QED BY <7>1, <7>2
          <6> QED BY <5>3, <6>1, <6>2, <6>3, <6>4, <6>5, ItemReplaced
        <5> QED BY <5>1, <5>4, <5>5
      <4> QED BY <1>4, <3>6, <4>1, <4>2, <4>3, <4>4
    <3>7. CASE m.op # "delete"
      <4>1. \A c \in net' : c.page # p
        BY <1>6, <3>4, <3>7
      <4> QED BY <1>1, <1>9, <3>3, <3>6, <3>7, <4>1 DEF Followed
    <3> QED BY <3>5, <3>7
  <2> QED BY <2>2, <2>3
<1> QED BY <1>1, <1>9, <1>10, <1>11, <1>12 DEF FollowInv

LEMMA FollowStep ==
  ASSUME SiteInv, Waiting, FollowInv, [SiteNext]_siteVars
  PROVE  FollowInv'
<1>1. CASE UNCHANGED siteVars
  <2>1. UNCHANGED <<table, lastId, opened, accounts, current, shown, net, calm, clickers>>
    BY <1>1 DEF siteVars, store, page
  <2> QED BY <2>1 DEF FollowInv, RowsApart, HiddenForm, OneCall, Followed, Rows
<1>2. CASE Lose
  <2>1. calm' = FALSE /\ UNCHANGED <<table, lastId, shown, current>>
    BY <1>2 DEF Lose, store, page
  <2> QED BY <2>1 DEF FollowInv, RowsApart, HiddenForm
<1> QED BY <1>1, <1>2, FollowUser, FollowServer, FollowDeliver DEF SiteNext, Network

-----------------------------------------------------------------------------
\* Every account around, in the table, on a page or under way, is sound; and
\* what a page lists follows the table, one call at a time.
THEOREM SiteSafe == SiteSpec => [](SiteInv /\ Waiting /\ FollowInv)
<1>1. SiteInv /\ Waiting /\ FollowInv /\ [SiteNext]_siteVars => (SiteInv /\ Waiting /\ FollowInv)'
  BY SiteStep, WaitingStep, FollowStep
<1> QED BY InitInv, WaitingInit, FollowInit, <1>1, PTL DEF SiteSpec

\* AccountService never stores a flag that lies while the forms are used as
\* they are meant to be.
THEOREM FlagAlwaysTellsTruth == SiteSpec => []FlagTellsTruth
<1>1. SiteInv => FlagTellsTruth
  <2> SUFFICES ASSUME SiteInv, tidy, NEW row \in Rows
               PROVE  row.encrypted = row.password.sealed
    BY DEF FlagTellsTruth
  <2>1. row \in Sound
    BY EachListed DEF SiteInv, AllSound, Rows
  <2> QED BY <2>1 DEF Sound
<1> QED BY SiteSafe, <1>1, PTL

\* In such use the table holds no password in clear but those of accounts that
\* were answered or seeded so.
THEOREM StaysSealedUntilOpened == SiteSpec => []SealedUntilOpened
<1>1. SiteInv => SealedUntilOpened
  <2> SUFFICES ASSUME SiteInv, tidy, NEW row \in Rows
               PROVE  row.password.sealed \/ row.accountID \in opened
    BY DEF SealedUntilOpened
  <2>1. row \in Sound
    BY EachListed DEF SiteInv, AllSound, Rows
  <2>2. row.accountID > 0 /\ row.accountID \in Int
    <3>1. PICK i \in DOMAIN table : row = table[i]
      BY DEF Rows, ToSet
    <3> QED BY <2>1, <3>1 DEF SiteInv, RowsNumbered, Sound, Kept
  <2>3. row.accountID \notin {NoId, 0}
    BY <2>2 DEF NoId
  <2> QED BY <2>1, <2>3 DEF Sound
<1> QED BY SiteSafe, <1>1, PTL

\* Who waits for each call sees the list or the form, never both or neither.
THEOREM OnePaneAlwaysShown == SiteSpec => []OnePaneShown
<1>1. Waiting => OnePaneShown
  BY FS_Singleton DEF Waiting, OnePaneShown
<1> QED BY SiteSafe, <1>1, PTL

\* Who waits for each call, while nobody uses another page, sees the accounts
\* there are, with the data stored or opened.
THEOREM ListAlwaysMatches == SiteSpec => []ListMatchesTable
<1>1. FollowInv => ListMatchesTable
  <2> SUFFICES ASSUME FollowInv, NEW p \in Pages, OnlyUser(p)
               PROVE  /\ UserNames(accounts[p]) \subseteq UserNames(table)
                      /\ AtMostOneUnnumbered(accounts[p]) => UserNames(table) \subseteq UserNames(accounts[p])
                      /\ \A account \in ToSet(accounts[p]) :
                           \/ account.accountID = 0
                           \/ account \in Rows
                           \/ account.accountID \in opened /\ ~account.encrypted
    BY DEF ListMatchesTable
  <2>1. Follows(accounts[p], Rows, opened)
    BY DEF FollowInv, Followed, OnlyUser
  <2>2. NamesOf(Rows) = UserNames(table)
    BY DEF NamesOf, UserNames, Rows
  <2>3. UserNames(accounts[p]) \subseteq UserNames(table)
    <3>1. \A n \in UserNames(accounts[p]) : \E i \in DOMAIN accounts[p] : n = accounts[p][i].userName
      BY NamesListed
    <3> QED BY <2>1, <2>2, <3>1 DEF Follows, Mirrors
  <2>4. AtMostOneUnnumbered(accounts[p]) => UserNames(table) \subseteq UserNames(accounts[p])
    BY <2>1, <2>2 DEF Follows, Complete
  <2>5. \A account \in ToSet(accounts[p]) : AsStored(account, Rows, opened)
    BY <2>1 DEF Follows, ToSet
  <2> QED BY <2>3, <2>4, <2>5 DEF AsStored
<1> QED BY SiteSafe, <1>1, PTL
=============================================================================
