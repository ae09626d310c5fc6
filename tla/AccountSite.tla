---------------------------- MODULE AccountSite ----------------------------
(***************************************************************************)
(* The account server with its Angular pages: AccountController,           *)
(* AccountService and AccountDao over the account table, and the           *)
(* accountContoller of index.html in one or several browsers.  The server  *)
(* encrypts a password when an account is created and decrypts it when one *)
(* is read; an update stores what it is sent.  $http calls overlap, are    *)
(* answered in any order, and either direction may be lost.                *)
(*   The table is that of test-schema.sql, on which the DAO's statements    *)
(* run: the database numbers a row and a password may be null.  The        *)
(* configuration loads it in a comment only (spring-config.xml:30); the    *)
(* table of mysql-schema.sql numbers no row, wants a password and lacks    *)
(* siteName, so that the INSERT of AccountDao.java:17 fails on it.         *)
(***************************************************************************)
EXTENDS Integers, Sequences, FiniteSets, SequencesExt

CONSTANTS
  Pages,       \* the open pages
  Passwords,   \* the texts a password can be
  Typed,       \* those people type
  Wide,        \* those whose encryption is longer than the column
  Trimmed,     \* Trimmed[t]: t as String.trim leaves it
  Hidden, Plain,  \* passwords of the two accounts there are at the start
  MaxClicks    \* bound on the calls users make

ASSUME SiteAssumption ==
  /\ Typed \subseteq Passwords /\ Wide \subseteq Passwords
  /\ Trimmed \in [Passwords -> Passwords]
  /\ {Hidden, Plain} \subseteq Passwords
  /\ MaxClicks \in Nat

VARIABLES
  table,      \* the account table, its rows in the order of their accountIDs
  lastId,     \* the last accountID given out
  accounts,   \* accounts[p]: $scope.accounts, the list on page p
  current,    \* current[p]: $scope.currentAccount, while the form is visible
  shown,      \* shown[p]: which of the two panes are visible
  net,        \* calls in flight: not yet served, or answered and not yet delivered
  clicks,     \* how many calls users made
  opened,     \* history: accounts stored or answered in clear
  tidy,       \* history: nobody touched the box, nor typed a password under a ticked one
  calm,       \* history: nobody clicked while a call was in flight, and none was lost
  clickers    \* history: the pages whose users did anything

store == <<table, lastId, opened>>
page == <<accounts, current, shown>>
siteVars == <<store, page, net, clicks, tidy, calm, clickers>>

NoId == -1
Clear(p) == [text |-> p, sealed |-> FALSE]
Sealed(p) == [text |-> p, sealed |-> TRUE]
Null == [text |-> "null", sealed |-> FALSE]
Account(id, name, pwd, enc) == [accountID |-> id, userName |-> name, password |-> pwd, encrypted |-> enc]
NewAccount == Account(NoId, 0, Null, FALSE)

Call(p, n, op, account) == [page |-> p, n |-> n, op |-> op, account |-> account, status |-> 0, data |-> <<>>]

\* A page lists the accounts when its controller is built.
SiteInit ==
  /\ table = <<Account(1, -1, Clear(Plain), FALSE), Account(2, -2, Sealed(Hidden), TRUE)>>
  /\ lastId = 2
  /\ accounts = [p \in Pages |-> <<>>]
  /\ current = [p \in Pages |-> NewAccount]
  /\ shown = [p \in Pages |-> {"accounts"}]
  /\ net = {Call(p, 0, "list", NewAccount) : p \in Pages}
  /\ clicks = 0
  /\ opened = {1}
  /\ tidy = TRUE /\ calm = TRUE /\ clickers = {}

(***************************************************************************)
(* The page.                                                               *)
(***************************************************************************)
Clicked(p) ==
  /\ clickers' = clickers \cup {p}
  /\ calm' = (calm /\ net = {})

Send(p, op, account) ==
  /\ clicks < MaxClicks
  /\ clicks' = clicks + 1
  /\ net' = net \cup {Call(p, clicks', op, account)}

\* What a hidden form holds is never seen again: editAccount replaces it.
CloseForm(p, panes) ==
  /\ shown' = [shown EXCEPT ![p] = panes]
  /\ current' = [current EXCEPT ![p] = NewAccount]

\* editAccount: the form gets an empty account, or a copy of the listed one.
EditAccount(p) ==
  /\ "accounts" \in shown[p]
  /\ \E account \in {NewAccount} \cup ToSet(accounts[p]) : current' = [current EXCEPT ![p] = account]
  /\ shown' = [shown EXCEPT ![p] = {"account"}]
  /\ Clicked(p)
  /\ UNCHANGED <<store, accounts, net, clicks, tidy>>

\* What the inputs of the form can be changed to before it is saved: a password
\* typed or emptied, the box ticked or unticked.
Edits(account) ==
  {Account(account.accountID, account.userName, pwd, enc) :
     pwd \in {account.password, Null} \cup {Clear(t) : t \in Typed}, enc \in BOOLEAN}

TidyEdit(old, new) ==
  /\ new.encrypted = old.encrypted
  /\ new.password # old.password => ~old.encrypted

\* Mutant: the form is hidden and nothing shown instead.
CancelHides(p) ==
  /\ "account" \in shown[p]
  /\ CloseForm(p, {})
  /\ Clicked(p)
  /\ UNCHANGED <<store, accounts, net, clicks, tidy>>

CancelAccount(p) ==
  /\ "account" \in shown[p]
  /\ CloseForm(p, {"accounts"})
  /\ Clicked(p)
  /\ UNCHANGED <<store, accounts, net, clicks, tidy>>

\* saveAccount: an account with a defined accountID is updated, also when it
\* is 0.  Each new account has a user name of its own.
SaveAccount(p) ==
  /\ "account" \in shown[p]
  /\ \E account \in Edits(current[p]) :
       /\ tidy' = (tidy /\ TidyEdit(current[p], account))
       /\ IF account.accountID = NoId
          THEN Send(p, "create", [account EXCEPT !.userName = clicks + 1])
          ELSE Send(p, "update", account)
  /\ CloseForm(p, {"accounts"})
  /\ Clicked(p)
  /\ UNCHANGED <<store, accounts>>

DeleteAccount(p) ==
  /\ "accounts" \in shown[p]
  /\ \E account \in ToSet(accounts[p]) : Send(p, "delete", account)
  /\ Clicked(p)
  /\ UNCHANGED <<store, page, tidy>>

\* retrieveAccount: an encrypted account is read in clear, a clear one is
\* hidden again by listing all accounts.
RetrieveAccount(p) ==
  /\ "accounts" \in shown[p]
  /\ \E account \in ToSet(accounts[p]) :
       IF account.encrypted THEN Send(p, "get", account) ELSE Send(p, "list", NewAccount)
  /\ Clicked(p)
  /\ UNCHANGED <<store, page, tidy>>

(***************************************************************************)
(* The server.  A handler that throws is answered 500.                     *)
(***************************************************************************)
Serve(op, Handle(_)) == \E m \in net : m.op = op /\ m.status = 0 /\ Handle(m)
Reply(m, status, data) == net' = (net \ {m}) \cup {[m EXCEPT !.status = status, !.data = data]}
Fail(m) == Reply(m, 500, <<>>) /\ UNCHANGED store

Insert(account) ==
  /\ table' = Append(table, [account EXCEPT !.accountID = lastId + 1])
  /\ lastId' = lastId + 1
  /\ opened' = opened

\* Mutant: nothing is encrypted.
CreateClear(m) ==
  LET account == [m.account EXCEPT !.accountID = 0] IN Insert(account) /\ Reply(m, 200, <<account>>)

\* createAccount encrypts unless the account says it is encrypted.  The
\* answer is the account of the request: its accountID is still 0.
Create(m) ==
  LET account == [m.account EXCEPT !.accountID = 0] IN
  IF account.encrypted THEN Insert(account) /\ Reply(m, 200, <<account>>)
  ELSE IF account.password.text \in {"null"} \cup Wide THEN Fail(m)
  ELSE LET stored == [account EXCEPT !.password = Sealed(@.text), !.encrypted = TRUE]
       IN Insert(stored) /\ Reply(m, 200, <<stored>>)

List(m) == Reply(m, 200, table) /\ UNCHANGED store

RowOf(id) == {i \in DOMAIN table : table[i].accountID = id}

\* Mutant: the flag stays when the password is decrypted.
RetrieveFlagged(m) ==
  IF RowOf(m.account.accountID) = {} THEN Fail(m)
  ELSE \E i \in RowOf(m.account.accountID) :
    LET account == table[i] IN
    IF ~account.encrypted THEN Reply(m, 200, <<account>>) /\ UNCHANGED store
    ELSE IF ~account.password.sealed THEN Fail(m)
    ELSE /\ Reply(m, 200, <<[account EXCEPT !.password = Clear(Trimmed[@.text])]>>)
         /\ opened' = opened \cup {account.accountID}
         /\ UNCHANGED <<table, lastId>>

\* retrieveAccount fails on an account that is gone, and on one whose password
\* is not what its flag says.
Retrieve(m) ==
  IF RowOf(m.account.accountID) = {} THEN Fail(m)
  ELSE \E i \in RowOf(m.account.accountID) :
    LET account == table[i] IN
    IF ~account.encrypted THEN Reply(m, 200, <<account>>) /\ UNCHANGED store
    ELSE IF ~account.password.sealed THEN Fail(m)
    ELSE /\ Reply(m, 200, <<[account EXCEPT !.password = Clear(Trimmed[@.text]), !.encrypted = FALSE]>>)
         /\ opened' = opened \cup {account.accountID}
         /\ UNCHANGED <<table, lastId>>

\* updateAccount stores what it is sent, encrypts nothing, and answers what
\* it was sent whether or not there was a row to update.
Update(m) ==
  /\ table' = [i \in DOMAIN table |-> IF table[i].accountID = m.account.accountID THEN m.account ELSE table[i]]
  /\ Reply(m, 200, <<m.account>>)
  /\ UNCHANGED <<lastId, opened>>

Delete(m) ==
  /\ IF RowOf(m.account.accountID) = {} THEN table' = table
     ELSE \E i \in RowOf(m.account.accountID) : table' = RemoveAt(table, i)
  /\ Reply(m, 200, <<>>)
  /\ UNCHANGED <<lastId, opened>>

Server ==
  /\ \/ Serve("create", Create) \/ Serve("list", List) \/ Serve("get", Retrieve)
     \/ Serve("update", Update) \/ Serve("delete", Delete)
  /\ UNCHANGED <<page, clicks, tidy, calm, clickers>>

(***************************************************************************)
(* Answers.  The success callbacks; a failed call runs none.               *)
(***************************************************************************)
SetList(m, list) == accounts' = [accounts EXCEPT ![m.page] = list]
Take(m) == net' = net \ {m}

\* The account created is pushed as it was answered.
Created(m) == SetList(m, Append(accounts[m.page], m.data[1])) /\ Take(m) /\ UNCHANGED <<current, shown>>

Listed(m) == SetList(m, m.data) /\ Take(m) /\ UNCHANGED <<current, shown>>

\* The loop over the list replaces the first account with the id answered; it
\* has no other end, and fails past the last account if there is none.
Replaced(m) ==
  LET list == accounts[m.page]
      same == {i \in DOMAIN list : list[i].accountID = m.data[1].accountID}
  IN /\ IF same = {} THEN accounts' = accounts
        ELSE \E i \in same : (\A j \in same : i <= j) /\ SetList(m, [list EXCEPT ![i] = m.data[1]])
     /\ Take(m)
     /\ UNCHANGED <<current, shown>>

\* Mutant: the list is not fetched again.
DeletedQuietly(m) ==
  /\ CloseForm(m.page, shown[m.page] \ {"account"})
  /\ Take(m)
  /\ UNCHANGED accounts

\* A deletion lists the accounts again, and listAccount hides the form.
Deleted(m) ==
  /\ CloseForm(m.page, shown[m.page] \ {"account"})
  /\ net' = (net \ {m}) \cup {Call(m.page, m.n, "list", m.account)}
  /\ UNCHANGED accounts

Callback(m) ==
  CASE m.op = "create" -> Created(m)
    [] m.op = "list" -> Listed(m)
    [] m.op \in {"get", "update"} -> Replaced(m)
    [] m.op = "delete" -> Deleted(m)

Deliver ==
  /\ \E m \in net :
       \/ m.status = 200 /\ Callback(m)
       \/ m.status = 500 /\ Take(m) /\ UNCHANGED page
  /\ UNCHANGED <<store, clicks, tidy, calm, clickers>>

\* The connection fails before or after the server handled the request.
Lose ==
  /\ \E m \in net : Take(m)
  /\ calm' = FALSE
  /\ UNCHANGED <<store, page, clicks, tidy, clickers>>

User(p) ==
  EditAccount(p) \/ CancelAccount(p) \/ SaveAccount(p)
  \/ DeleteAccount(p) \/ RetrieveAccount(p)

Network == Server \/ Deliver

SiteNext == Network \/ Lose \/ \E p \in Pages : User(p)

SiteSpec == SiteInit /\ [][SiteNext]_siteVars

(***************************************************************************)
(* Properties.                                                             *)
(***************************************************************************)
Rows == ToSet(table)
UserNames(list) == {account.userName : account \in ToSet(list)}
OnlyUser(p) == calm /\ net = {} /\ clickers \subseteq {p}
AtMostOneUnnumbered(list) ==
  \A i, j \in DOMAIN list : list[i].accountID = 0 /\ list[j].accountID = 0 => i = j

\* The flag of a stored account tells whether its password is encrypted, as
\* long as nobody touches the box of the form or types under a ticked one: an
\* account read in clear is flagged so when it is stored again, by whichever
\* page, and no password is encrypted twice or decrypted unencrypted.
FlagTellsTruth == tidy => \A row \in Rows : row.encrypted = row.password.sealed

\* In such use the only passwords stored in clear are those of accounts the
\* server itself has answered, or was seeded with, in clear.
SealedUntilOpened == tidy => \A row \in Rows : row.password.sealed \/ row.accountID \in opened

\* A page whose user waits for each call, while nobody uses another, lists no
\* account that is not stored, and each with its stored data, or in clear if it
\* was opened.  An account just created is listed under id 0 until the list is
\* fetched again: as long as there is one such, every account is listed; of two,
\* the callback of an update can take the second for the first.
ListMatchesTable ==
  \A p \in Pages : OnlyUser(p) =>
    /\ UserNames(accounts[p]) \subseteq UserNames(table)
    /\ AtMostOneUnnumbered(accounts[p]) => UserNames(table) \subseteq UserNames(accounts[p])
    /\ \A account \in ToSet(accounts[p]) :
         \/ account.accountID = 0
         \/ account \in Rows
         \/ account.accountID \in opened /\ ~account.encrypted

\* A page whose user waits for each call always shows the list or the form.
OnePaneShown == calm => \A p \in Pages : Cardinality(shown[p]) = 1

\* deleteAccount says "remove the account from $scope.accounts": the list that
\* is fetched after an account was deleted does not have it.
DeletedLeavesList ==
  [][\A m \in net \ net' :
       m.op = "list" /\ m.account # NewAccount /\ m.status = 200 /\ calm' =>
         m.account.userName \notin UserNames(accounts'[m.page])]_siteVars
=============================================================================
