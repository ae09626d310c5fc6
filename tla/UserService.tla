----------------------------- MODULE UserService -----------------------------
(***************************************************************************)
(* The user registry of the Spring sample: request threads of the servlet  *)
(* container run UserRestController and the singleton UserServiceImpl over *)
(* one java.util.ArrayList, with no lock and no transaction manager.  A    *)
(* thread takes one step per access to the shared list or to a shared User *)
(* object.  User objects are references into heap; the list stores         *)
(* references, so an object found by one thread may be changed by another. *)
(* The array behind the list is replaced when it is full; a thread that    *)
(* read the old one goes on storing there.  Copying an array, shifting its *)
(* tail and modCount++ are one step each.  The steps are interleaved in    *)
(* one order that all threads see.                                         *)
(***************************************************************************)
EXTENDS Integers, Sequences, FiniteSets

CONSTANTS
  Threads,      \* the request threads
  Duties,       \* Duties[t]: the operations that thread t is handed
  Dummies,      \* what populateDummyUsers() creates: a sequence of bodies
  Bodies,       \* the user representations that clients send
  NoName,       \* null as a user name
  CaseFold,     \* CaseFold[n]: what the names equal to n but for case share
  Capacity,     \* length of the array a list gets with its first user
  MaxRequests   \* bound on the requests of a behaviour

ASSUME UsersAssumption ==
  LET Representations == [username : STRING, address : STRING, email : STRING]
  IN  NoName \in STRING /\ Dummies \in Seq(Representations) /\ Bodies \subseteq Representations

ASSUME DutiesAssumption ==
  /\ MaxRequests \in Nat
  /\ Capacity \in Nat /\ Len(Dummies) <= Capacity
  /\ Duties \in [Threads -> SUBSET {"listAllUsers", "getUser", "createUser", "updateUser", "deleteUser", "deleteAllUsers"}]

VARIABLES
  heap,       \* the User objects, in the order they were created
  arr,        \* elementData of the list: references, Null where nothing is stored
  length,     \* elementData.length
  copies,     \* how often elementData was replaced by a longer copy
  size,       \* its size field
  modCount,   \* its count of structural changes
  counter,    \* the AtomicLong of UserServiceImpl
  th,         \* th[t]: the frame of thread t
  requests,   \* how many requests were made
  issued,     \* history: the ids given out by a 201
  wrote,      \* history: the last answered write and the registry it left
  read        \* history: the last answered read and the users it showed

array == <<arr, length, copies>>
list == <<array, size, modCount>>
vars == <<heap, list, counter, th, requests, issued, wrote, read>>

Null == 0
MaxSize == Len(Dummies) + MaxRequests
Ids == 1 .. MaxSize
\* Mutant: the copy of one field is forgotten.
FieldsWithoutAddress == <<"username", "email">>
Fields == <<"username", "address", "email">>
Writes == {"createUser", "updateUser", "deleteUser", "deleteAllUsers"}
NoBody == [username |-> NoName, address |-> NoName, email |-> NoName]

User(id, body) == [id |-> id, username |-> body.username, address |-> body.address, email |-> body.email]

\* The users in the list, in its order; null where nothing is stored.
Shown(ref) == IF ref = Null THEN User(0, NoBody) ELSE heap[ref]
Contents == [i \in 1 .. size |-> Shown(IF i <= length THEN arr[i - 1] ELSE Null)]

(***************************************************************************)
(* The frame of a thread: where it is, its request, the service loop it    *)
(* runs, the iterator's cursor and expectedModCount, the object and the    *)
(* index it holds, the users it rendered so far; for add(), which array it *)
(* stores into, of what length, and the copy it made.  overlapped is a     *)
(* history variable: some write ran while this request did.                *)
(***************************************************************************)
Idle ==
  [pc |-> "idle", op |-> "none", id |-> 0, body |-> NoBody, loop |-> "none", cursor |-> 0,
   expected |-> 0, obj |-> Null, index |-> 0, shown |-> <<>>, into |-> 0, room |-> 0, copy |-> <<>>,
   overlapped |-> FALSE]

Init ==
  /\ heap = [i \in DOMAIN Dummies |-> User(i, Dummies[i])]
  /\ arr = [i \in 0 .. Capacity - 1 |-> IF i < Len(Dummies) THEN i + 1 ELSE Null]
  /\ length = Capacity /\ copies = 0
  /\ size = Len(Dummies)
  /\ modCount = Len(Dummies)
  /\ counter = Len(Dummies)
  /\ th = [t \in Threads |-> Idle]
  /\ requests = 0
  /\ issued = DOMAIN Dummies
  /\ wrote = [op |-> "none", id |-> 0, body |-> NoBody, status |-> 0, users |-> Contents]
  /\ read = [op |-> "none", id |-> 0, status |-> 0, users |-> <<>>, exact |-> TRUE]

At(t, pc) == th[t].pc = pc
Active(t) == th[t].pc # "idle"
Writing(t) == th[t].op \in Writes

Move(t, frame) == th' = [th EXCEPT ![t] = frame]
Goto(t, pc) == Move(t, [th[t] EXCEPT !.pc = pc])

\* Starts a for-each loop of the service: iterator() takes modCount.
Loop(t, loop) ==
  Move(t, [th[t] EXCEPT !.pc = "hasNext", !.loop = loop, !.cursor = 0, !.expected = modCount, !.index = 0])

\* The request of thread t is answered; other threads may still be at work.
Answer(t, status, users) ==
  LET f == th[t]
      id == IF f.op = "createUser" /\ status = 201 THEN heap[f.obj].id ELSE f.id
  IN  /\ Move(t, Idle)
      /\ issued' = IF status = 201 THEN issued \cup {id} ELSE issued
      /\ IF Writing(t)
         THEN /\ wrote' = [op |-> f.op, id |-> id, body |-> f.body, status |-> status, users |-> Contents']
              /\ read' = read
         ELSE /\ wrote' = wrote
              /\ read' = [op |-> f.op, id |-> f.id, status |-> status, users |-> users, exact |-> ~f.overlapped]

Unanswered == UNCHANGED <<issued, wrote, read>>
ListUnchanged == UNCHANGED list
DataUnchanged == UNCHANGED <<heap, list, counter>>

(***************************************************************************)
(* A request arrives at an idle thread; its handler runs up to the first   *)
(* access of the list.                                                     *)
(***************************************************************************)
FirstLoop(op) ==
  CASE op = "createUser" -> "findByName"
    [] op = "deleteAllUsers" -> "clear"
    [] op = "listAllUsers" -> "isEmpty"
    [] OTHER -> "findById"

Request(t) ==
  /\ At(t, "idle") /\ requests < MaxRequests
  /\ DataUnchanged /\ Unanswered
  /\ \E op \in Duties[t] :
       \E id \in IF op \in {"getUser", "updateUser", "deleteUser"} THEN Ids ELSE {0} :
         \E body \in IF op \in {"createUser", "updateUser"} THEN Bodies ELSE {NoBody} :
           LET others == {u \in Threads \ {t} : Active(u)}
               frame == [Idle EXCEPT !.op = op, !.id = id, !.body = body, !.loop = FirstLoop(op),
                                     !.pc = IF op \in {"deleteAllUsers", "listAllUsers"} THEN FirstLoop(op) ELSE "hasNext",
                                     !.expected = modCount,
                                     !.overlapped = \E u \in others : Writing(u)]
           IN  th' = [u \in Threads |->
                        IF u = t THEN frame
                        ELSE IF u \in others /\ op \in Writes THEN [th[u] EXCEPT !.overlapped = TRUE] ELSE th[u]]
  /\ requests' = requests + 1

(***************************************************************************)
(* The for-each loops: findById, findByName, and the loop of               *)
(* deleteUserById, which removes what matches and goes on.                 *)
(***************************************************************************)
AfterLoop(t) ==
  CASE th[t].loop = "findByName" -> Goto(t, "save") /\ Unanswered
    [] th[t].loop = "findById" -> Answer(t, 404, <<>>)
    [] th[t].loop = "deleteUserById" -> Answer(t, 204, <<>>)

Matches(t, user) ==
  IF th[t].loop = "findByName"
  THEN th[t].body.username # NoName /\ CaseFold[user.username] = CaseFold[th[t].body.username]
  ELSE user.id = th[t].id

\* The JSON writer starts on one user; it reads the fields later.
StartUser(f, ref) ==
  [f EXCEPT !.pc = "field", !.obj = ref, !.index = 1, !.shown = Append(@, User(heap[ref].id, NoBody))]

Found(t, ref) ==
  CASE th[t].loop = "findByName" -> Answer(t, 409, <<>>)
    [] th[t].loop = "deleteUserById" -> Move(t, [th[t] EXCEPT !.pc = "remove", !.cursor = @ + 1]) /\ Unanswered
    [] th[t].loop = "findById" ->
         CASE th[t].op = "getUser" -> Move(t, StartUser(th[t], ref)) /\ Unanswered
           [] th[t].op = "deleteUser" -> Goto(t, "iterator") /\ Unanswered
           [] th[t].op = "updateUser" -> Move(t, [th[t] EXCEPT !.pc = "set", !.obj = ref, !.index = 1]) /\ Unanswered

\* deleteUserById() asks for an iterator of its own.
Iterator(t) ==
  /\ At(t, "iterator")
  /\ DataUnchanged /\ Unanswered /\ UNCHANGED requests
  /\ Loop(t, "deleteUserById")

\* Mutant: the loop ends before the last element.
HasNextShort(t) ==
  /\ At(t, "hasNext")
  /\ DataUnchanged /\ UNCHANGED requests
  /\ IF th[t].cursor + 1 < size THEN Goto(t, "next") /\ Unanswered ELSE AfterLoop(t)

\* hasNext() compares the cursor with size for equality and looks at nothing else.
HasNext(t) ==
  /\ At(t, "hasNext")
  /\ DataUnchanged /\ UNCHANGED requests
  /\ IF th[t].cursor # size THEN Goto(t, "next") /\ Unanswered ELSE AfterLoop(t)

\* next() throws ConcurrentModificationException when the list changed since iterator().
CheckModCount(t) ==
  /\ At(t, "next")
  /\ DataUnchanged /\ UNCHANGED requests
  /\ IF modCount # th[t].expected THEN Answer(t, 500, <<>>) ELSE Goto(t, "fetch") /\ Unanswered

\* Mutant: an element that does not match is looked at again.
FetchAgain(t) ==
  /\ At(t, "fetch")
  /\ DataUnchanged /\ UNCHANGED requests
  /\ LET i == th[t].cursor IN
       IF i >= size \/ i >= length \/ arr[i] = Null THEN Answer(t, 500, <<>>)
       ELSE IF Matches(t, heap[arr[i]]) THEN Found(t, arr[i])
       ELSE Goto(t, "hasNext") /\ Unanswered

\* NoSuchElementException past the end, ConcurrentModificationException past the array;
\* a null element or a null name is a NullPointerException.
Fetch(t) ==
  /\ At(t, "fetch")
  /\ DataUnchanged /\ UNCHANGED requests
  /\ LET i == th[t].cursor IN
       IF i >= size \/ i >= length \/ arr[i] = Null THEN Answer(t, 500, <<>>)
       ELSE IF th[t].loop = "findByName" /\ heap[arr[i]].username = NoName THEN Answer(t, 500, <<>>)
       ELSE IF Matches(t, heap[arr[i]]) THEN Found(t, arr[i])
       ELSE Move(t, [th[t] EXCEPT !.pc = "hasNext", !.cursor = i + 1]) /\ Unanswered

(***************************************************************************)
(* iterator.remove(): checks modCount and the index, shifts the tail left, *)
(* then shrinks; the loop goes on from the index of the removed element.   *)
(* A tail that reaches past the array cannot be shifted.                   *)
(***************************************************************************)
IteratorRemove(t) ==
  /\ At(t, "remove")
  /\ UNCHANGED <<heap, counter, requests>>
  /\ LET last == th[t].cursor - 1 IN
       IF modCount # th[t].expected \/ last >= size
       THEN ListUnchanged /\ Answer(t, 500, <<>>)
       ELSE /\ modCount' = modCount + 1
            /\ UNCHANGED <<length, copies, size>>
            /\ IF size > length
               THEN UNCHANGED arr /\ Answer(t, 500, <<>>)
               ELSE /\ arr' = [i \in DOMAIN arr |-> IF i \in last .. size - 2 THEN arr[i + 1] ELSE arr[i]]
                    /\ Goto(t, "shrink") /\ Unanswered

\* Mutant: the slot behind the new end keeps its element.
ShrinkKeepsLast(t) ==
  /\ At(t, "shrink")
  /\ UNCHANGED <<heap, length, copies, modCount, counter, requests>>
  /\ size' = size - 1
  /\ IF size' \notin 0 .. length - 1
     THEN UNCHANGED arr /\ Answer(t, 500, <<>>)
     ELSE /\ arr' = arr
          /\ Move(t, [th[t] EXCEPT !.pc = "hasNext", !.cursor = @ - 1, !.expected = modCount])
          /\ Unanswered

Shrink(t) ==
  /\ At(t, "shrink")
  /\ UNCHANGED <<heap, length, copies, modCount, counter, requests>>
  /\ size' = size - 1
  /\ IF size' \notin 0 .. length - 1
     THEN UNCHANGED arr /\ Answer(t, 500, <<>>)
     ELSE /\ arr' = [arr EXCEPT ![size'] = Null]
          /\ Move(t, [th[t] EXCEPT !.pc = "hasNext", !.cursor = @ - 1, !.expected = modCount])
          /\ Unanswered

(***************************************************************************)
(* saveUser(): the id comes from the AtomicLong; ArrayList.add() counts    *)
(* the change and makes room for one more user, in a longer copy if need   *)
(* be; then it reads elementData and size, writes size, and stores.        *)
(***************************************************************************)
\* Mutant: the id is the length of the list plus one.
SaveBySize(t) ==
  /\ At(t, "save")
  /\ ListUnchanged /\ Unanswered /\ UNCHANGED requests
  /\ counter' = counter + 1
  /\ heap' = Append(heap, User(size + 1, th[t].body))
  /\ Move(t, [th[t] EXCEPT !.pc = "add", !.obj = Len(heap')])

Save(t) ==
  /\ At(t, "save")
  /\ ListUnchanged /\ Unanswered /\ UNCHANGED requests
  /\ counter' = counter + 1
  /\ heap' = Append(heap, User(counter', th[t].body))
  /\ Move(t, [th[t] EXCEPT !.pc = "add", !.obj = Len(heap')])

\* What grow(minCapacity) makes of the array: half as long again, or as long as is needed.
GrownTo(least) == IF length + length \div 2 < least THEN least ELSE length + length \div 2
CopyOf(n) == [i \in 0 .. n - 1 |-> IF i < length THEN arr[i] ELSE Null]

Add(t) ==
  /\ At(t, "add")
  /\ Unanswered /\ UNCHANGED <<heap, array, size, counter, requests>>
  /\ modCount' = modCount + 1
  /\ IF size + 1 <= length
     THEN Goto(t, "refer")
     ELSE Move(t, [th[t] EXCEPT !.pc = "swap", !.room = GrownTo(size + 1), !.copy = CopyOf(GrownTo(size + 1))])

Swap(t) ==
  /\ At(t, "swap")
  /\ Unanswered /\ UNCHANGED <<heap, size, modCount, counter, requests>>
  /\ arr' = th[t].copy /\ length' = th[t].room /\ copies' = copies + 1
  /\ Move(t, [th[t] EXCEPT !.pc = "refer", !.copy = <<>>])

Refer(t) ==
  /\ At(t, "refer")
  /\ DataUnchanged /\ Unanswered /\ UNCHANGED requests
  /\ Move(t, [th[t] EXCEPT !.pc = "reserve", !.into = copies, !.room = length])

Reserve(t) ==
  /\ At(t, "reserve")
  /\ DataUnchanged /\ Unanswered /\ UNCHANGED requests
  /\ Move(t, [th[t] EXCEPT !.pc = "grow", !.index = size])

Grow(t) ==
  /\ At(t, "grow")
  /\ Unanswered /\ UNCHANGED <<heap, array, modCount, counter, requests>>
  /\ size' = th[t].index + 1
  /\ Goto(t, "append")

\* The index may lie outside the array by now, or the array may no longer be the list's.
StoreNew(t) ==
  /\ At(t, "append")
  /\ UNCHANGED <<heap, length, copies, size, modCount, counter, requests>>
  /\ IF th[t].index \notin 0 .. th[t].room - 1
     THEN UNCHANGED arr /\ Answer(t, 500, <<>>)
     ELSE /\ arr' = IF th[t].into = copies THEN [arr EXCEPT ![th[t].index] = th[t].obj] ELSE arr
          /\ Answer(t, 201, <<>>)

(***************************************************************************)
(* PUT: the controller sets the fields of the shared object one by one;    *)
(* then updateUser() looks the object up and stores it where it found it.  *)
(***************************************************************************)
SetField(t) ==
  /\ At(t, "set")
  /\ ListUnchanged /\ Unanswered /\ UNCHANGED <<counter, requests>>
  /\ LET k == th[t].index IN
       /\ heap' = [heap EXCEPT ![th[t].obj][Fields[k]] = th[t].body[Fields[k]]]
       /\ Move(t, IF k < Len(Fields) THEN [th[t] EXCEPT !.index = k + 1]
                                     ELSE [th[t] EXCEPT !.pc = "indexOf", !.index = 0])

IndexOf(t) ==
  /\ At(t, "indexOf")
  /\ DataUnchanged /\ UNCHANGED requests
  /\ LET i == th[t].index IN
       IF i < size /\ i >= length THEN Answer(t, 500, <<>>)
       ELSE /\ Move(t, IF i >= size THEN [th[t] EXCEPT !.pc = "store", !.index = -1]
                       ELSE IF arr[i] # Null /\ heap[arr[i]].id = heap[th[t].obj].id THEN [th[t] EXCEPT !.pc = "store"]
                       ELSE [th[t] EXCEPT !.index = i + 1])
            /\ Unanswered

\* set(index, user) refuses an index past the end, and indexes the array with -1.
Store(t) ==
  /\ At(t, "store")
  /\ UNCHANGED <<heap, length, copies, size, modCount, counter, requests>>
  /\ IF th[t].index \notin 0 .. size - 1 \/ th[t].index >= length
     THEN UNCHANGED arr /\ Answer(t, 500, <<>>)
     ELSE arr' = [arr EXCEPT ![th[t].index] = th[t].obj] /\ Answer(t, 200, <<>>)

(***************************************************************************)
(* clear(): counts the change, drops the elements, then resets size; an    *)
(* element past the array stops it before that.                            *)
(***************************************************************************)
Clear(t) ==
  /\ At(t, "clear")
  /\ Unanswered /\ UNCHANGED <<heap, array, size, counter, requests>>
  /\ modCount' = modCount + 1
  /\ Goto(t, "drop")

Drop(t) ==
  /\ At(t, "drop")
  /\ UNCHANGED <<heap, length, copies, modCount, counter, requests>>
  /\ LET i == th[t].index IN
       IF i < size /\ i >= length
       THEN UNCHANGED <<arr, size>> /\ Answer(t, 500, <<>>)
       ELSE IF i < size
       THEN /\ arr' = [arr EXCEPT ![i] = Null]
            /\ Move(t, [th[t] EXCEPT !.index = i + 1])
            /\ Unanswered /\ UNCHANGED size
       ELSE /\ size' = 0 /\ UNCHANGED arr
            /\ Answer(t, 204, <<>>)

(***************************************************************************)
(* GET of the list: 204 when it is empty; otherwise the list itself is     *)
(* handed to the JSON writer, which reads its size and then each element,  *)
(* field by field; a null element is written as null.                      *)
(***************************************************************************)
ListAll(t) ==
  /\ At(t, "isEmpty")
  /\ DataUnchanged /\ UNCHANGED requests
  /\ IF size = 0 THEN Answer(t, 204, <<>>) ELSE Goto(t, "render") /\ Unanswered

Render(t) ==
  /\ At(t, "render")
  /\ DataUnchanged /\ Unanswered /\ UNCHANGED requests
  /\ Move(t, [th[t] EXCEPT !.pc = "element", !.expected = size])

RenderElement(t) ==
  /\ At(t, "element")
  /\ DataUnchanged /\ UNCHANGED requests
  /\ LET i == th[t].cursor IN
       IF i >= th[t].expected THEN Answer(t, 200, th[t].shown)
       ELSE IF i >= size \/ i >= length THEN Answer(t, 500, <<>>)
       ELSE /\ Move(t, IF arr[i] = Null THEN [th[t] EXCEPT !.cursor = i + 1, !.shown = Append(@, Shown(Null))]
                                        ELSE StartUser([th[t] EXCEPT !.cursor = i + 1], arr[i]))
            /\ Unanswered

\* The next field of the user being written, of GET for one user or for the list.
RenderField(t) ==
  /\ At(t, "field")
  /\ DataUnchanged /\ UNCHANGED requests
  /\ LET k == th[t].index
         field == Fields[k]
         users == [th[t].shown EXCEPT ![Len(th[t].shown)][field] = heap[th[t].obj][field]]
     IN  IF k < Len(Fields) THEN Move(t, [th[t] EXCEPT !.index = k + 1, !.shown = users]) /\ Unanswered
         ELSE IF th[t].op = "getUser" THEN Answer(t, 200, users)
         ELSE Move(t, [th[t] EXCEPT !.pc = "element", !.shown = users]) /\ Unanswered

Work(t) ==
  \/ HasNext(t) \/ CheckModCount(t) \/ Fetch(t)
  \/ Iterator(t) \/ IteratorRemove(t) \/ Shrink(t)
  \/ Save(t) \/ Add(t) \/ Swap(t) \/ Refer(t) \/ Reserve(t) \/ Grow(t) \/ StoreNew(t)
  \/ SetField(t) \/ IndexOf(t) \/ Store(t)
  \/ Clear(t) \/ Drop(t)
  \/ ListAll(t) \/ Render(t) \/ RenderElement(t) \/ RenderField(t)

Next == \E t \in Threads : Request(t) \/ Work(t)

Spec == Init /\ [][Next]_vars

\* The container keeps running a thread that has a request.
FairSpec == Spec /\ \A t \in Threads : WF_vars(Work(t))

(***************************************************************************)
(* Properties.                                                             *)
(***************************************************************************)
IdsIn(users) == {users[i].id : i \in DOMAIN users}
NoWriter == \A t \in Threads : ~Writing(t)

\* While no write runs, the list holds each of its users once, with no gap and
\* nothing behind its end, and exactly as the last write left it: no reader and
\* no leftover of a shift or of a half-done add shows (one writer, any readers).
ListWellFormed ==
  NoWriter =>
    /\ size \in 0 .. length
    /\ \A i \in DOMAIN arr : (arr[i] = Null) <=> (i >= size)
    /\ Cardinality(IdsIn(Contents)) = size
    /\ Contents = wrote.users

\* With one writer, every write is one atomic step of the Registry: POST adds
\* one user with a new id or answers 409 (or 500 over a nameless user), PUT
\* changes one user in place, DELETE removes one, whatever the readers do.
Atomic == INSTANCE Registry WITH registry <- wrote.users,
  reply <- [op |-> wrote.op, id |-> wrote.id, body |-> wrote.body, status |-> wrote.status]
ImplementsRegistry == Atomic!Spec

\* A read that no write overlapped tells the truth: GET of an id is 404 exactly
\* when the id is not listed and shows that user otherwise, GET of the list
\* shows the list, and neither fails.
QuietReadsExact ==
  [][LET users == Contents IN
     read' # read /\ read'.exact =>
       IF read'.op = "getUser"
       THEN IF read'.id \in IdsIn(users)
            THEN /\ read'.status = 200
                 /\ \E i \in DOMAIN users : users[i].id = read'.id /\ read'.users = <<users[i]>>
            ELSE read'.status = 404 /\ read'.users = <<>>
       ELSE /\ read'.users = users
            /\ read'.status = IF users = <<>> THEN 204 ELSE 200]_vars

\* However many threads create, update and delete at once, no two POSTs are
\* answered with the same id, and none with the id of an initial user.
IdsNeverReused == [][wrote' # wrote /\ wrote'.status = 201 => wrote'.id \notin issued]_vars

\* Every request is answered: none of the loops over the list, which other
\* threads may lengthen, shorten or clear under it, runs for ever.
EveryRequestAnswered == \A t \in Threads : Active(t) ~> ~Active(t)

\* "User with id ... not found" is answered only for a user who is not listed.
\* (An initial user who is listed was listed all along: ids are not reused.)
NotFoundMeansAbsent ==
  [][read' # read /\ read'.op = "getUser" /\ read'.status = 404 /\ read'.id \in DOMAIN Dummies
       => read'.id \notin IdsIn(Contents)]_vars
=============================================================================
