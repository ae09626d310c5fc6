# Verification of the wild-samples programs

The repository is a collection of small programs in C++, Java, JavaScript and
Python. This directory holds TLA+ models of those of them that keep state worth
arguing about, TLC configurations that check the models on small instances, and
proofs checked by TLAPS. Paths below are relative to `src/`.

Contents: [inventory](#inventory), [how to run](#how-to-run), the parts one by one
([select server](#rot13-select-server), [fork server](#rot13-fork-server),
[bufferevent servers](#bufferevent-servers), [users service](#users-service),
[users page](#users-page), [account service](#account-service), [account server
and page](#account-server-and-page), [Rio](#rio), [chat
server](#secure-chat-server), [book queries](#book-queries),
[codecs](#text-codecs)), [findings](#findings), [fairness](#fairness),
[proofs](#what-is-proved),
[limits](#what-is-only-model-checked-and-what-is-assumed), [plan](#plan).

## Inventory

| Part | State it keeps | Operations | What is hard | What makes it correct |
|---|---|---|---|---|
| rot13 select server (`cpp/cpp98/util/TinyServer.cpp`; copies in `exam/libevent/rot13_select_1st.cpp`, `rot13_libevent_1st.cpp`) | table of per-descriptor states: buffer, three cursors, writing flag | `run`, `do_read`, `do_write` | partial sends, full buffers, half-closed clients, descriptors used again, one thread for all | cursors inside the buffer, table and descriptors agree, complete lines are answered in order |
| users service (`java/spring_rs_sample`) | static `ArrayList`, id counter | REST handlers on concurrent threads | check-then-act, shared objects changed in place, index computed before a removal | writes are atomic, ids are never reused, quiet reads are exact |
| users page (`webapp/static/js`) | list and form of the Angular controller | submit, edit, remove, reset; promise callbacks | answers out of order or lost, list or form stale | the page shows what the registry held, and comes to show changes |
| account service (`python/account/account.py`) | one JSON file | list, create, retrieve, update, delete | read-modify-write of a file by several threads, truncation, a kill | the file is a document unless something said so happened |
| Rio (`cpp/cpp98/util/TinyRio.cpp`) | internal buffer of 8192 bytes, cursor, count | `rio_readn`, `rio_writen`, `rio_readnb`, `rio_readlineb` | short counts, EINTR, end of file inside a line, mixed calls | no byte lost or repeated, short counts only at the end |
| secure chat server (`java/sundry/.../netty/SecureChat*`) | the channel group | handler callbacks on event loops | registration, handshake and broadcasts on several threads | greeting first, nobody forgotten, order of one sender kept |
| text codecs (`cpp/cpp98/util/TinyUtil.cpp`, `cpp/cpp98/src/util.c`, `java/account/common/.../EncodeUtils.java`) | none | hex, Base64, ASCII escapes, both ways | tails, padding, line breaks, two languages that read each other's text | what was encoded comes back |
| rot13 fork server (`cpp/cpp98/exam/libevent/rot13_fork_1st.cpp`) | a process per connection, an output buffer in each | `run`, `child` | blocking sends, children side by side, descriptors nobody closes | each client served alone, complete lines answered before the end is seen |
| bufferevent servers (`exam/libevent/rot13_libevent_2nd.cpp`, `echo_server.cpp`) | input and output buffer per connection | read, event and accept callbacks | the watermark, over-long lines, output pending when the peer ends | replies are what was read, and reading never stops |
| account server and page (`java/account/server`: `AccountController`, `AccountService`, `AccountDao`, `webapp/index.html`) | account rows with an encrypted flag; list and form of the page | create, retrieve, update, delete, list; the methods of the page and their callbacks | read in clear, written back in clear; ids the page does not know; answers that move panes | the flag tells the truth, a password stays encrypted until it is opened, the list is the table |
| book queries (`java/sundry/.../concurrent/FutureTest.java`) | bounded pool, futures, a stopwatch | sequential, concurrent and parallel queries, shutdown | a time limit per future, work left over from one query to the next | the assertions of the test hold however threads wake up |
| Observer, TinyConfig, TinyTimer (`cpp/cpp98/util/`) | a list, two maps, a time point | attach/detach/notify, add/get/read, begin/end/reset | return codes, the wrong element erased, an inverted condition | the last write is read back |
| http server, curl upload (`exam/http`, `exam/curl`) | the transfer in progress | callbacks; a loop of perform and select | error paths, select timeouts | every request is answered, the loop ends |
| the rest (Lua bridge, charts, expat, packet tool, script engines, C++11 and Java language samples, cache, aspect, persistence and proxy samples, the other pages, scripts) | none, or a library's | one call after the other | — | `PROJECT.json` lists each with the reason it is not modelled |

The programs do not talk to one another, with two exceptions: the users page
calls the users service over HTTP (`UserClient` uses the abstract `Registry`
that `UserService` is checked against), and the account server stores text that
the codecs of `EncodeUtils` made; its page and the server are modelled together
in `AccountSite`.

## How to run

In this directory, `tlc -workers 2 -config <X>.cfg <MC module>` for a run,
`tlapm <module>.tla` for the proofs. `MC*.tla` give the constants that a
configuration file cannot express. Small programs that have nothing to do with
one another share a configuration: the MC module extends them all, a variable
`part` (or `program`) says which one a behaviour runs, and the others stay as
they began. So each program is explored exactly as if it were alone, and the
states are the sum.

| Configuration | Module | Question | States |
|---|---|---|---|
| `SelectServerBuffer.cfg` | MCSelectServer | one connection, all buffer behaviour, refinement of LineEcho | 408 thousand |
| `SelectServerTable.cfg` | MCSelectServer | descriptors against table slots, rounds with two connections | 754 thousand |
| `SelectServerLive.cfg` | MCSelectServer | lines answered, connections let go, failing `select()` | 46 thousand |
| `UserServiceReaders.cfg` | MCUserService | one writer, one reader, refinement of Registry | 720 thousand |
| `UserServiceWriters.cfg` | MCUserService | two threads do everything | 430 thousand |
| `UserServiceNotFound.cfg` | MCUserService | violation: 404 for a listed user | stops at the violation |
| `UserClientOne.cfg` | MCUserClient | one page, calls out of order and lost | 62 thousand |
| `Accounts.cfg` | MCAccounts | the Python account service; the account server with two pages | 1.49 million |
| `AccountSiteDelete.cfg` | MCAccountSite | violation: a deletion that leaves the account listed | stops at the violation |
| `Servers.cfg` | MCServers | fork and bufferevent servers (refinement of LineEcho), Rio (refinement of Stream), codecs | 427 thousand |
| `Sundry.cfg` | MCSundry | the chat server; the book queries | 448 thousand |
| `ChatServerSecured.cfg` | MCSundry | violation: a member of the group whose handshake failed | stops at the violation |

`CHECK_DEADLOCK FALSE` stands in every configuration because all of these
behaviours may stop: clients write, click and call only so often (the bounds
below), a server with nothing to do waits, and a value is decoded once.

## Rot13 select server

Modules: `Rot13` (the conversion), `SelectServer` (the loop), `LineEcho` (what
the server promises), `MCSelectServer`, `DataTheorems` and `SelectServerProofs`.

*State.* `state[f]` is the table entry of descriptor `f` (`fd_state`, lines
106–113), with `buffer_used` as the length of `buffer`. `fd[c]` and `phase[c]` are
the kernel's view of connection `c`; `sent`, `taken`, `out`, `got`, `shut` and
`reset` are the two byte streams and how they end; `rushed[c]`, which no step
reads, remembers a client that once wrote before it had its last reply. `pc`, `i`,
`rset` and `wset` are where the one thread is in its round (lines 229–291).

*Actions.* The thread moves one system call at a time: `Select` or
`SelectError`, then the accept, then `do_read` and `do_write` in descriptor
order, each `recv` and `send` a step with every count the kernel may return.
Clients write, read, half-close and abort between any two of them. The test
`fd > FD_SETSIZE` is kept as written: a descriptor equal to `FD_SETSIZE` is
accepted and its state goes to no slot that a later round visits, or over
something that makes the process crash. `send` is called without flags and nothing
ignores SIGPIPE, so a `send` to a client that reset its connection either fails
(`Close`) or ends the process and with it every connection (`ProcessEnds`).

*Properties.* `TableMatchesDescriptors` and `HandlersHaveState` (a state for every
descriptor of the round still to be handled, although handlers free states and
`accept` came after `select`), `NoStrandedLine` (a state that is not writing
holds no complete line), `NoLossWithinBuffer`, `PatientClientsLoseNothing` (a
client that reads each reply before it writes on, with lines that fit the buffer,
never loses a byte, however many lines it writes; pipelined lines may, short as
they are, since the buffer starts afresh only when nothing is left in it), the
refinement `ImplementsLineEcho` and the liveness properties `LinesAnswered` and
`EndedConnectionsClosed`. Nothing is promised to a client that half-closes right
after its last line: the end may be seen before the reply is sent, and `RecvEnd`
then drops it.

*Refinement.* `LineEcho` knows only what was read, which part of it was kept,
how far replies are committed and what was sent; replies are the rot13 of what
was kept, in order, up to the last newline. The mapping takes `kept` from what
was sent and what the buffer still holds.

*Bounds.* Seven bytes through a buffer of three are two restarts of the buffer, a
full buffer with and without a newline in it, and a patient client with three
lines; receive and send pieces of one and two bytes split every line in every way.
In the run of the table four connections, of which at most two write
(`TwoWrite`), share the two usable slots of a table of three and five descriptors:
a round may hold two connections, the first of which is closed while the second is
still to be handled, a slot is used again, and the descriptor one past the end and
the one behind it are given out. That run uses symmetry of the connections, which
is sound for its two invariants; the runs with temporal properties do not.
`do_read` leaves its loop only when nothing is left to read: a client that writes
without pause keeps the thread from everyone else. A bounded client stops, so no
run shows that, and the liveness properties are about bounded clients.

## Rot13 fork server

Modules: `Sockets` (clients and socket buffers, shared with the next part),
`ForkServer`, `LineEcho`, `MCServers`, `ServersProofs`.

*State.* `phase[c]` is the life of connection `c`: waiting, served by a child,
never served because `fork` failed, or its child has exited. `outbuf[c]` is the
child's buffer, `sending[c]` and `done[c]` where its blocking `send` is.

*Actions.* `ForkAccept` (lines 87–98; `accept` fails once the parent holds as
many descriptors as it may, since it closes none), and for each child
`ChildRecv`, `ChildEnd`, `ChildSend` and `ChildSendFails`: one byte received, the
end or an error of the stream, a piece of a `send` that found room, a `send`
that failed and whose result is not looked at. (A child that SIGPIPE ends has
only its own connection to lose, which `ChildEnd` loses too, at its next `recv`.)

*Properties.* `ForkImplementsLineEcho` (every step is a step of the same
`LineEcho` that the select server implements: a dropped byte, an over-long line
and a failed send included), `HalfCloseGetsAll` (a client whose lines fit the
buffer gets them all answered before the child sees its end — what the select
server does not promise), `LineAnsweredAlone` (a child answers the line it has
read if its own client reads, whatever the clients of other children do).

## Bufferevent servers

Modules: `Sockets`, `BuffereventServer`, `MCServers`, `ServersProofs`.

*State.* `input[c]` and `output[c]` are the buffers of the bufferevent; `loop`
says whether the event loop runs.

*Actions.* `BevRead` moves what there is, up to the high watermark of
`rot13_libevent_2nd`, and runs the read callback (`readcb` or `echo_read_cb`);
`BevWrite` sends what finds room; `BevFree` is the event callback, which drops
both buffers; `BevAccept` and `EchoAcceptFails` are the accept callbacks: the
rot13 server goes on after a failed `accept`, the echo server leaves its loop
and the program ends.

*Properties.* `RepliesAreWhatWasRead`: what a client is or will be sent is the
rot13 of its complete lines (the echo: all it wrote), and once the bufferevent
is freed a beginning of that; the newline `readcb` adds behind an over-long rest
turns up only where the client wrote `MAX_LINE` bytes without one.
`ReadingGoesOn`: the input buffer never stays full, at which libevent would stop
reading with no callback left to empty it.

*Bounds of both.* Two clients, one with three bytes and one with one, around
buffers of two bytes and a send queue of one: lines that fit, fill and overflow
the buffer, a rest of exactly the watermark, and replies that wait for one
client while the other goes on. One connection or two fit the descriptors.

## Users service

Modules: `UserService`, `Registry` (the abstract specification), `MCUserService`,
`UserServiceProofs`.

*State.* `heap` holds the `User` objects, `arr`, `size` and `modCount` are the
fields of the `ArrayList` of `UserServiceImpl`, `length` the length of its array
and `copies` how often the array was replaced, `counter` its `AtomicLong`, and
`th[t]` is the frame of a request thread: the operation, where it is, the
iterator's cursor and expected count, the element it holds, the index it
computed, the array it stores into and the copy of it that it makes. `wrote`,
`read` and `issued` are history variables that only the
properties read.

*Actions.* `Request(t)` starts a request; `Work(t)` is one access to the shared
list or to a shared object: `hasNext`, `next` with its check of `modCount`, the
three field assignments of an update, the `indexOf`, shift and decrement of a
removal, `clear`. A DELETE looks the user up, and only then asks for the iterator
it removes with. An addition counts the change and looks whether the array is
full (`Add`), puts a longer copy in its place (`Swap`), reads the array
(`Refer`) and the size (`Reserve`), writes the size (`Grow`) and stores
(`StoreNew`): two threads may do so at once, with a store into an array that is
no longer the list's, or a shorter array put in place of a longer one. GET hands
the objects to the JSON writer, which reads one field at a time (`RenderElement`,
`RenderField`). Copying an array, shifting its tail and `modCount++` are one step
each. Names are compared by `CaseFold`, which maps names that are equal but for
case to one, as `equalsIgnoreCase` does. Exceptions are answered 500, as the
container does.

*Properties.* With one writer: `ListWellFormed`, `ImplementsRegistry` (every
write is one atomic step of `Registry`), `QuietReadsExact`. With two threads
that both write, the list may be damaged — nothing in the code prevents it — and
what is checked is what survives: `IdsNeverReused` and `EveryRequestAnswered`.
`NotFoundMeansAbsent` is violated, see [findings](#findings).

*Bounds.* One to three dummy users and two or three requests reach every pair of
overlapping loops, an empty list, and a removal before, at and behind another
thread's cursor. Names clash, and one body has no name, which makes the comparison
in `isUserExist` throw; in the run of the readers two names differ in case only.
`Capacity` stands for the ten slots an `ArrayList` gets with its first element:
the runs take two, so that an addition or two replace the array.

## Users page

Modules: `UserClient`, `MCUserClient`, `UserClientProofs`; the server is an instance
of `Registry`.

*State.* `users[c]` and `form[c]` are `self.users` and `self.user` of the
controller, `net` the set of calls in flight: requests not yet served and
answers not yet delivered. `past` (every list the registry held) and `calm`
(the user waited for each call, and none was lost) are history.

*Actions.* `ResetForm`, `Type`, `Submit`, `Edit` and `RemoveUser` are the
handlers of `user_controller.js` with the calls they make through
`user_service.js`; `ServeChange` and `ServeFetch` are the server, one atomic
step each; `ChangeDone`, `ChangeDoneQuietly` and `FetchDone` are the promise
callbacks; `Lose` drops a call. Since `net` is a set, requests overtake one
another, and so do answers.

*Properties.* `PageShowsRegistry`, `SettledPageFresh` (with nothing in flight the
list is the registry and the form holds nobody who is gone, also after calls that
failed), `ChangesShown`. The last two hold for one page whose user waits; without
that, answers that overtake one another leave a stale list, which the code allows.
The check at `user_controller.js:75` looks at the form when Remove is clicked and
not again when the answer comes: an Edit in between leaves the deleted user in the
form, which the code allows too, and a user who waits is spared.

*Bounds.* Two clicks that change something are enough for calls to overtake one
another, and there are at least as many ids as two dummy users and two
submits take.

## Account service

Modules: `AccountStore`, `MCAccounts`, `AccountProofs`.

*State.* `file` is `account.json`: empty, a document or neither, with its
accounts; `th[t]` is the frame of a request: where it is, the copy of the
accounts it read. `causes` records what happened that can spoil the file: a
process killed inside a save, two saves that overlap, a key that cannot be
sorted.

*Actions.* One operation is: read the file, change the copy, `open(..., "w")`,
which truncates, and `dump`, which writes at close; a dump that raises has written
the first brace by then, over nothing or over what another save left, so the file
is no document (`Garbage`). Each is a step; `Crash` may come between any two and
stands for a kill as well as for the reload of Flask's debug mode. A JSON number
as `siteName` becomes a key that `sort_keys` cannot compare with strings.

*Properties.* `AloneAtomic` (a request that overlaps no other is an atomic step
of a map, with the status the handler returns), `SpoiltForAReason`, `NothingInvented`,
`SpoiltStays` (no request mends a spoilt file).

*Bounds.* Three requests on two threads, one crash, two names and one odd key
overlap every pair of operations with one more request after them.

## Account server and page

Modules: `AccountSite`, `MCAccounts`, `MCAccountSite`, `AccountProofs`.

*State.* `table` and `lastId` are the account table; a password is a text with a
mark that says whether it is encrypted, next to the flag the program keeps about
it, so that the two can disagree. `accounts[p]`, `current[p]` and `shown[p]` are
`$scope.accounts`, the form and the visible panes of page `p`; `net` holds the
calls in flight. `opened` (accounts the server answered in clear), `tidy`
(nobody touched the box "Encrypted?" or typed a password under a ticked one),
`calm` (users waited for their calls, and none was lost) and `clickers` are
history.

*Actions.* `EditAccount`, `CancelAccount`, `SaveAccount`, `DeleteAccount` and
`RetrieveAccount` are the methods of the controller in `index.html`, with every
call and every pane they move; `Create`, `List`, `Retrieve`, `Update` and
`Delete` are the handlers with the service and the SQL behind them, failures
included: an account that is gone, a password that is not what its flag says, a
password too long for the encryption. `Created`, `Listed`, `Replaced` and
`Deleted` are the success callbacks. Requests and answers overtake one another;
`Lose` drops either.

The table is that of `test-schema.sql`, on which the statements of `AccountDao`
run: the database numbers the rows, there is a column for the name of the site,
and a password may be null. `spring-config.xml` (30–33) names that file in a
comment only. The table of `mysql-schema.sql` has neither the numbering nor that
column: with it the INSERT of `AccountDao.java:17` fails, every creation is
answered with an error, and none of this could go wrong.

*Properties.* `FlagTellsTruth` (no password is encrypted twice or decrypted
unencrypted, whichever page stores what it read), `SealedUntilOpened` (a stored
password is in clear only if the server answered it in clear before),
`ListMatchesTable` (one page whose user waits lists nothing that is not stored,
and each account as it is stored; an account created since the list was fetched is
listed under id 0, and the list is complete while there is at most one such: of
two, the callback of an update can take the second for the first), `OnePaneShown`
(`listAccount` hides the form without showing the list; with a user who waits that
leaves no page blank). `DeletedLeavesList` is violated, see [findings](#findings).

*Bounds.* Two accounts to begin with, one in clear; two pages, which are
symmetric (no liveness is checked); three calls of users who wait, and two of
users who do not. A page that reads and a page that stores, two created accounts
of which one is edited or deleted, and lists that overtake each other fit in.
`Accounts.cfg` has the constraint `MCWatched`: neither `tidy` nor `calm` comes
back, and every invariant of the site assumes one of them, so states after both
are gone need not be looked at; where only `tidy` is left, those before the third
call are.

## Rio

Modules: `Rio`, `Stream` (the abstract specification), `MCServers`,
`ServersProofs`.

*State.* `rp` is the `rio_t` (buffer, cursor, count), `call` the frame of the
running call, `src` what the kernel has not handed out, `wire` what was
written, `errno` the variable of the C library, which keeps its value over
successful calls.

*Actions.* A step per `read(2)` or `write(2)` with every short count, EINTR or
another error, per copy out of the buffer, and per return. `rio_readlineb` takes
its bytes one at a time through the same `rio_read`.

*Properties.* `NoByteLost`: what was handed out, what is in the user's buffer,
what is unread in `rio_buf` and what the kernel holds make up the input.
`ImplementsStream`: a call is one step; block reads are full unless the input
ends, a line read gives one whole line or as much as fits, a write writes all,
and -1 means a real error. `CallsReturn`.

*Bounds.* Inputs of no bytes and of three with a newline nowhere, in the middle or
at both ends, an internal buffer of two, three calls of sizes 1 and 3: requests
smaller and larger than the buffer, lines over a refill, the end of the input
inside a line. One signal and one error may come at any system call. Sizes are at
least 1, and no caller uses `rio_readn`, which goes past the internal buffer,
while that holds unread bytes; the code states neither, and makes sense only so.

## Secure chat server

Modules: `ChatServer`, `MCSundry`, `SundryProofs`.

*State.* `channels` is the group of `SecureChatServerHandler`; `state[c]` where a
connection is, from before `handlerAdded` to after `handlerRemoved`; `run[l]`
the broadcast that event loop `l` is in, with the members it has visited;
`tasks[l]` the writes other loops handed to it; `out[c]` what a client was sent.

*Actions.* Each handler method is an action of the loop of its connection. A
`for` loop over the group is one step per member (`Visit`), in any order and
over a group that other loops change meanwhile, as the iterator of a concurrent
set is weakly consistent. A write to a connection of another loop is queued
there. The listener of the handshake runs whether it succeeded
(`operationComplete`) or failed (`operationFailed`): then the greeting is not
delivered and the connection is registered all the same, until its close takes it
out. If the host does not know its own name the listener throws before both
(`operationThrows`), and the client of a secured connection may talk to a group it
is no member of. An exception, a hang-up or a "bye" closes.

*Properties.* `GreetedFirst` (a member has been greeted, or its handshake failed and
it has been sent nothing; nobody is sent anything before the greeting),
`ContiguousPerSender` (no message of a sender twice,
out of order or missing in the middle), `NobodyForgotten`, `ByeCloses`.
`MembersSecured` is violated, see [findings](#findings).

*Bounds.* Two connections on one loop and one on another give broadcasts within a
loop and across loops, and a third party whose order can be wrong. One of them is
unreliable and one only listens (`Talkers`); every pair of fates is among those of
three. One line may be typed, so that broadcasts of joins, lines and departures
overlap; lines read in one piece behind a "bye" are in the model but not in the
run, and nothing in the repository says whether they should still be broadcast.

## Book queries

Modules: `BookQueries`, `MCSundry`, `SundryProofs`.

*State.* `query` is what `testQuery` is at, `job[q][i]` the call of `queryBook`
that query `q` makes for author `i` — waiting, running with time left, done —
`caller` and `limit` the future the concurrent query waits for and the time left
to that wait, `answer`, `duration` and `ret` what the code calls so.

*Actions.* `BeginQuery`, `querySequentially`, `GetReturns`, `GetTimesOut`,
`queryParallelly` and `clean` are the main thread; `queryBook` and `Wake` the
threads of the caller, the pool or the stream. `Tick` lets time pass, only when
nothing can happen at once.

*Properties.* `AnswersAreExpected` (the assertion of `recordExecutionTime`) and
`ConcurrentIsFastest` (the assertion of `testQuery`, and that the tasks
`queryConcurrently` leaves in the pool are done before it is shut down).

*Bounds.* The test's own six authors, sleeps of 80 and 120 ms, pool of four and
limit of 100 ms, in units of 20 ms; every sleeping thread wakes up to one unit
late. Durations are stored up to `MaxDuration`, which is longer than the
concurrent query takes. The stream has four workers, as on a machine with four
processors; with six or more all six authors are asked at once, the parallel
query takes as long as the slowest of them, and the last assertion of the test
is decided by the scheduler. `WellTimed` collects what the assertions rest on;
`MCSundry` assumes it of the numbers of the test, and TLC evaluates it.

## Text codecs

Modules: `TinyUtil` and `EncodeUtils` (the operators), `Codecs` (a value that is
encoded, travels and is decoded), `MCServers`, `CodecsProofs`, `DataTheorems`.

*Actions.* An encoder turns the value into text, a line break may get into a text
of digits on its way, a decoder turns it back. Texts of both hexadecimal
encoders reach both hexadecimal decoders, and texts of `base64_encode` reach
`base64_decode` and the block decoder of `util.c`.

*Properties.* `Base64RoundTrip`: everything comes back, wherever lines are broken,
from `base64_decode`, but for one text: three line breaks and nothing else, where
the size check of `TinyUtil.cpp:540` asks for four octets, and a room of three is
refused though nothing would be stored. Whole blocks with the right padding for
unbroken text from `util.c`. `TextRoundTrip`: from `hex_string_to_octet_string`
the octets that were printed, from the first on, and all of them when as many
digits are asked for; all or an exception from `hex2Byte`; every string without a
backslash from `ascii2native`.

`octet_string_hex_string` prints the octets whose digits its static buffer holds,
and writes the zero that ends the text behind the last digit: one past the buffer
whenever the digits fill it, as those of a value that is too long do
(`TinyUtil.cpp:91`, `HexEnds`). `base64_encode` does the same when the room is just
what it asks for, since the size check of line 472 does not count the zero of line
501 (`Base64Ends`). Such a text need not end where it should: `ended` is false
then, and what follows is whatever lies behind the buffer, one of the `Beyond`
texts. Decoders that stop at the zero may then read on, and the properties say what
they still give back. What else the write past the buffer destroys is not
modelled.

The shifts of the Base64 codecs are divisions and remainders of the octets they
take bits from; `Kept` is the `continue` of the loop over the characters, and
`Onward` one turn of the loop of `ascii2native`.

*Bounds.* All values of up to five of the octets 0 and 255 (two groups of three,
with each tail) and up to three code units that include the backslash, the
letters that make escapes and characters on both sides of the limit. The print
buffer holds eight digits: values of four octets fill it, those of five exceed it.
Behind a full buffer lies a zero or two more digits.

The comment above `hex_string_to_octet_string` (`TinyUtil.cpp:132`) calls `len`
the number of octets; the loop counts digits. The model follows the loop, and
callers of the model ask for digits.

## Findings

* `UserRestController.java:42` answers that a user is not found who was listed
  all along: `hasNext` compares the cursor with the size only, and a concurrent
  DELETE of an earlier user ends the loop one element early without an
  exception. Run `user_notfound`.
* `index.html:98` says that a deletion removes the account from the list.
  `createAccount` pushes the account of the answer, whose id is 0, because the
  INSERT hands no key back; deleting it deletes row 0, which there is none of,
  is answered 200, and the list fetched next still has the account. Run
  `site_delete`.
* `SecureChatServerHandler.java:56` says that the channel is registered once its
  session is secured. The listener does not ask whether the handshake succeeded:
  when it failed, `channels.add` (line 69) registers the unsecured channel all the
  same, and other loops see it until its close. Run `chat_unsecured`.

## Fairness

| Specification | Assumption | Why the code justifies it |
|---|---|---|
| `SelectServer!FairSpec` | weak fairness of `run` and of readers | one thread in `while (1)`, non-blocking calls; a client that stops reading may block its own reply for ever, so replies are promised to clients that go on reading |
| `UserService!FairSpec` | weak fairness of each thread | the container's threads run; there is no lock to wait for |
| `UserClient!FairSpec` | weak fairness of the network | calls that are not lost get through; users need do nothing |
| `ForkServer!ForkFair` | weak fairness of each child; `LineAnsweredAlone` assumes that the child's own client reads | a child is a process of its own, whose calls block for nobody but its client |
| `Rio!RioFair` | weak fairness of the calling thread | signals and errors are finite in a run by their bounds |
| `ChatServer!ChatFair` | weak fairness of each event loop | loops run while they have work; a handshake and the flush before a close end by timeout |

## What is proved

TLAPS checks the following for all values of the constants that satisfy the
named assumptions of the modules: any number of connections, threads, pages,
loops and requests, any buffer size. Every invariant below was first checked by
TLC on the instance of its run.

**`DataTheorems`** has the facts about sequences and numbers the others rest on:
the least and greatest of a set, pieces and beginnings of sequences, what
`RemoveAt` keeps, `Rot13Involution` (the conversion is its own inverse and moves
no newline). `HexGivesBytesBack`: arrays of bytes of any length survive
`byte2Hex` and `hex2Byte`.

**`SelectServerProofs`.** `LoopInvariant` is inductive, and with it `TypeOK`,
`CursorsOrdered` (n_written ≤ write_upto ≤ buffer_used ≤ MAX_LINE),
`TableMatchesDescriptors` and `HandlersHaveState`. None of the last three is
inductive alone: a send may advance the cursors of a state only if the table has
one, the table keeps its match over a close only if the handler runs for an open
descriptor, and that needs `RoundConsistent`, which says what a round in progress
knows of the sets `select` filled. On top of it, `LinesSettled` (no line ends
behind `write_upto`, and a state that is not writing has sent everything before
it) gives `NoLineIsStranded` for any buffer and any cut of the input. `AllWhole`
says that a connection of which no more than `MAX_LINE` bytes were read has kept
the rot13 of them all, and gives `NothingIsLostWithinBuffer`. `AllPatient` says of
a client that waits for its replies that the buffer holds a part of one line only,
or that everything in it was sent and `do_write` is about to restart it; it gives
`PatientLosesNothing`, for any number of lines. `LoopIsALineEcho` proves the
refinement: a chunk that is read is a `Receive` of `LineEcho` that drops what the
full buffer dropped, a send that answers whole lines a `Reply`, everything the
thread does to its tables a stutter.

**`ServersProofs`.** For the bufferevent servers, `BevInv` says of every
connection what its two buffers and the two streams make up together, and what
the input buffer can hold between callbacks; it gives `RepliesMatchWhatWasRead`
and `ReadingAlwaysGoesOn`. For the fork server, `ForkInv` says where a child is
in its stream and what it holds; it gives `HalfClosedGetAll` and the refinement
`ForkIsALineEcho`.

Rio: `RioInv` = `TypeOK` ∧ `BufferOK` ∧ `Progress` ∧ `Recorded` ∧
`NoByteLost`. `BufferOK` says where the unread bytes lie in `rio_buf`, `Progress`
what the running call has moved so far. Theorems: `NoByteIsLost` and
`RioImplementsStream`: the initial states map to those of `Stream` and every step
to a step of it or a stutter, for any buffer size, sizes of calls, input, and
number of signals and errors.

**`UserServiceProofs`.** `IdInv` (what frames may hold, every id came from the
counter, an id that is drawn but not stored is in no other hand) holds for any
threads that race on the list as they like, and gives `IdsAreNeverReused`.
`SlotInv` holds for any threads too: a size leaves room for each thread that has
created a user and not yet read `size`, and the requests under way can create no
more users than the bound admits; counting those threads is what makes it
inductive, since a stale `size` that a racing add writes back is otherwise without
limit. It gives `RacesKeepReferences`: racing writers lose adds, leave holes and
may put a shorter array in place of a longer one, but the list never claims more
users than were created, and no reference, in the array, in a copy of it under way
or held by a thread, leads nowhere. The other theorems have the hypothesis
`OneWriter`: at most one thread creates, updates and deletes, any number read.
`RegInv` then says what each handler has done to the list so far, where the loop
of each thread stands in it, and that the list is whole whenever no write runs; an
invariant on the quiet list alone is not inductive, since a write is many steps.
It gives `ListIsWellFormed`, the action property `QuietReadsAreExact`, and
`ListImplementsRegistry`: each write is one step of the atomic `Registry`, taken
where it is answered. Without the hypothesis all three are false: the
configuration of the readers with two writing threads violates each of them.

**`UserClientProofs`.** `PastInv` (whatever is in flight, in a page or answered was
once what the registry held, and the past only grows) gives
`PagesShowTheRegistry` for any pages, calls overtaking one another and losses.
`CalmInv` is about a page whose user waits: one call at a time, which carries what
the registry holds now; it gives `SettledPageIsFresh`.

**`AccountProofs`.** Python service: `Store` = `Types` ∧ `Roles` ∧ `OneCleanSave` ∧
`CopiesSent` ∧ `NothingInvented`. `OneCleanSave` says what the file is while a
single save is between its truncation and its dump, `CopiesSent` carries
`NothingInvented` through the copies that threads hold. Theorems:
`SpoiltOnlyForAReason`, `NothingIsInvented`, `SpoiltForEver`, and
`LoneRequestsAreAtomic`, whose invariant follows a request from the document it
read to the one it leaves. Server and page: `SiteInv` says that every account
anywhere — in the table, in lists, forms and calls under way — is `Sound` (flag
and password agree, and a password in clear was opened), that answers hold what
their callbacks take, and that rows have the ids the database gave out; an
account in flight may be stored by any page at any time, so nothing weaker is
inductive. `Waiting` says that the list is shown while a call of a user who waits
is under way, `FollowInv` how the list of the one page in use follows the table
through each call and its callback. Theorems: `FlagAlwaysTellsTruth`,
`StaysSealedUntilOpened`, `OnePaneAlwaysShown`, `ListAlwaysMatches`. The proof of
the last one is where the case of two accounts under id 0 came to light.

**`CodecsProofs`.** `CodecInv` says what a text that travels still holds of the
value: the digits of a Base64 text that ended in its room, with every other
character left out, are the sextets of the octets; a hexadecimal text begins with
the digits of its encoder up to the first line break, whatever follows them; an
escaped text is that of `native2ascii`. It gives `Base64ComesBack` and
`TextComesBack`, for values of any length, any rooms, any print buffer, any number
of line breaks and anything behind a full buffer. What they rest on:
`OctetsOfSextets`, case by case over the tail of a group; `KeptOfInsert`, a
character that is no digit changes nothing wherever it stands; `BlocksGive`, where
the first block with a pad is the last block; `AsciiComesBack`, the loop of
`ascii2native` followed from the end of the text to its beginning, one escape at a
time. `FlattenSeq`, `Kept` and the loop are recursive functions. `RecursionExists`
and `RecursionUnique` say that a function with such a recursion exists and is the
only one on its range, for a step given as a function; what it computes then
follows by `RangeInduction`, whose hypothesis is a set of numbers, proved from the
least element of its complement (the library's induction theorems take an operator
and cannot be used here).

**`SundryProofs`.** Chat server: `ChatInv` = `TypeOK` ∧ `GreetedFirst` ∧ `Secured` ∧
`FramesMatch` ∧ `Serving`, with handshakes that fail and listeners that throw, gives
`AlwaysGreetedFirst` and the action property
`NobodyIsForgotten`; `Serving` says whom a running broadcast has reached so far.
`OrderInv` numbers what one client was sent of another and what is still queued
for it: the two together are an unbroken run of numbers (`Lanes`), and whatever is
in the run has been said (`SentAreSaid`). It gives `HeardInARow`. Book queries:
`BookInv` says for each query how much time its running calls have behind and
before them — the pool starts the tasks of its own threads at once, the `get()` of
the wanted book begins late enough not to time out, one more author than workers
makes the stream take two calls, the tasks left behind take less than the grace.
`AnswersAlwaysExpected` and `ConcurrentAlwaysFastest` have the hypothesis
`WellTimed`; the comparison with the stream is claimed where it has fewer workers
than there are authors, that with the sequential query always.

## What is only model-checked, and what is assumed

* Liveness: `LinesAnswered`, `EndedConnectionsClosed`, `EveryRequestAnswered`,
  `ChangesShown`, `LineAnsweredAlone`, `CallsReturn`, `ByeCloses`. The prover does
  not reason about fairness, which is stated with the enabledness of actions.
* Every invariant and action property of a passing run, and the four
  refinements, are proved as well as checked.
* Memory is sequentially consistent: threads see one order of the accesses to
  the list. Java promises less for plain fields.
* `ImplementsRegistry`, `ListWellFormed` and `QuietReadsExact` are claimed for one
  writing thread, and `AnswersAreExpected` and `ConcurrentIsFastest` for a test that
  is `WellTimed`.
* CPython closes the file when `save_data` returns and writes the document in one
  flush; documents are smaller than its buffer. Sorting keys of different types
  raises, as in Python 3.
* Netty behaves as its handlers rely on: FIFO task queues, one handler at a time
  on a loop, a closed channel leaves the group, iteration is weakly consistent.
* The server of `UserClient` is atomic; `UserService` says when that is so.
* A handler of the account server is one step: each runs one SQL statement. The
  cipher gives back what was encrypted, and fails on what was not or on an input
  longer than it takes; the database numbers rows from the last one up.
* libevent calls the read callback after every read into the input buffer, not
  before, and stops reading at the high watermark. A blocking `send` goes on
  until everything is queued or the connection fails. SIGPIPE, which none
  of the programs ignores, is modelled for the select server only: the writes of
  libevent can raise it too and would end a bufferevent server with all its
  connections.
* Threads that can run do so before time passes (`BookQueries`); what they do
  besides sleeping takes no time.

## Not modelled

Logging, wording of answers, parsing of requests, the login of the account
programs, the `Rio_` wrappers that print and exit, trimming and file helpers of
`TinyUtil`, and the components marked so in `PROJECT.json`. By lines, most of
the repository's JavaScript is third-party releases the pages load (AngularJS,
jQuery, jQuery UI, Bootstrap, Backbone, Underscore, RequireJS, json2); they are
no part of these programs, and are modelled only where a page depends on them:
the promises of `$http`, `angular.copy`, answers out of order. What the authors
wrote themselves in JavaScript are the users page and the account page, which
are modelled, and pages and scripts that store and send nothing or only answer
with a file.

An update of a user or of an account sends the whole object from the form, so a
page with an old copy overwrites the update of another page. Both models allow
it; nothing in the repository promises otherwise, and no property speaks of it.
The same holds of the descriptors and the children the fork server never lets
go of.

## Plan

1. *Composition.* The users page with `UserService` itself in place of the atomic
   `Registry`, now that the refinement is proved for one writer.
2. *Small components.* Observer, TinyConfig and TinyTimer; string helpers next to
   the codecs; the http callback, the two file servers in node and the curl
   loop.
