-------------------------- MODULE UserServiceProofs --------------------------
(***************************************************************************)
(* No two POSTs are answered with the same id, for any number of request   *)
(* threads, requests and initial users, although nothing guards the list:  *)
(* ids come from the atomic counter alone, and each is answered once, by   *)
(* the thread that drew it.                                                *)
(***************************************************************************)
EXTENDS UserService, DataTheorems, FiniteSetTheorems

Representation == [username : STRING, address : STRING, email : STRING]
Stored == [id : Nat, username : STRING, address : STRING, email : STRING]

\* The loops of the service and the operations that run them.
Runs(f) ==
  \/ f.loop = "findByName" /\ f.op = "createUser"
  \/ f.loop = "findById" /\ f.op \in {"getUser", "updateUser", "deleteUser"}
  \/ f.loop = "deleteUserById" /\ f.op = "deleteUser"

\* A thread that is between drawing an id and its answer.
Holds(f) == f.pc \in {"add", "swap", "refer", "reserve", "grow", "append"}

FrameOK(f) ==
  /\ DOMAIN f = DOMAIN Idle
  /\ f.body \in Representation
  /\ f.pc \in {"hasNext", "next", "fetch"} => Runs(f)
  /\ f.pc \in {"remove", "shrink"} => f.loop = "deleteUserById" /\ f.op = "deleteUser"
  /\ f.pc = "iterator" => f.op = "deleteUser"
  /\ f.pc = "field" => f.op \in {"getUser", "listAllUsers"}
  /\ f.pc \in {"isEmpty", "render", "element"} => f.op = "listAllUsers"
  /\ f.pc = "save" \/ Holds(f) => f.op = "createUser"
  /\ f.pc = "set" => f.index \in 1 .. 3

FramesOK ==
  /\ DOMAIN th = Threads /\ th = [t \in Threads |-> th[t]]
  /\ \A t \in Threads : FrameOK(th[t])

\* The counter is the highest id there is, and every id was drawn once.
IdsDrawn ==
  /\ counter \in Nat
  /\ heap \in Seq(Stored)
  /\ \A i \in DOMAIN heap : heap[i].id <= counter
  /\ \A i, j \in DOMAIN heap : heap[i].id = heap[j].id => i = j
  /\ issued \subseteq 0 .. counter

\* The id a thread holds is not answered yet, and no other thread holds it.
HeldIdsFresh ==
  /\ \A t \in Threads : Holds(th[t]) => th[t].obj \in DOMAIN heap /\ heap[th[t].obj].id \notin issued
  /\ \A t, u \in Threads : Holds(th[t]) /\ Holds(th[u]) /\ th[t].obj = th[u].obj => t = u

IdInv == FramesOK /\ IdsDrawn /\ HeldIdsFresh

Fresh == wrote' # wrote /\ wrote'.status = 201 => wrote'.id \notin issued

LEMMA IdleOK == FrameOK(Idle) /\ ~Holds(Idle)
BY UsersAssumption DEF FrameOK, Holds, Idle, NoBody, Representation

LEMMA InitIds == Init => IdInv
<1> SUFFICES ASSUME Init PROVE IdInv
  OBVIOUS
<1>1. FramesOK
  BY IdleOK DEF Init, FramesOK
<1>0. Dummies \in Seq(Representation)
  BY UsersAssumption DEF Representation
<1>2. Len(Dummies) \in Nat /\ DOMAIN Dummies = 1 .. Len(Dummies) /\ \A i \in DOMAIN Dummies : Dummies[i] \in Representation
  BY <1>0
<1>3. heap = [i \in 1 .. Len(Dummies) |-> User(i, Dummies[i])]
  BY <1>2 DEF Init
<1>4. \A i \in 1 .. Len(Dummies) : User(i, Dummies[i]) \in Stored /\ User(i, Dummies[i]).id = i
  BY <1>2 DEF User, Stored, Representation
<1>5. heap \in Seq(Stored) /\ DOMAIN heap = 1 .. Len(Dummies)
  BY <1>2, <1>3, <1>4
<1>6. IdsDrawn
  BY <1>2, <1>3, <1>4, <1>5 DEF IdsDrawn, Init
<1>7. HeldIdsFresh
  BY IdleOK DEF Init, HeldIdsFresh
<1> QED BY <1>1, <1>6, <1>7 DEF IdInv

(***************************************************************************)
(* A step that only moves a thread: it draws and answers no id.            *)
(***************************************************************************)
LEMMA MoveKeeps ==
  ASSUME IdInv, NEW t \in Threads, NEW frame, FrameOK(frame),
         th' = [th EXCEPT ![t] = frame],
         Holds(frame) => Holds(th[t]) /\ frame.obj = th[t].obj,
         UNCHANGED <<counter, heap, issued>>
  PROVE  IdInv'
<1> USE DEF IdInv
<1>1. \A u \in Threads : th'[u] = IF u = t THEN frame ELSE th[u]
  BY DEF FramesOK
<1>2. FramesOK'
  BY <1>1 DEF FramesOK, FrameOK, Holds, Runs
<1>3. IdsDrawn'
  BY DEF IdsDrawn
<1>4. HeldIdsFresh'
  BY <1>1 DEF HeldIdsFresh, Holds
<1> QED BY <1>2, <1>3, <1>4

LEMMA AnswerKeeps ==
  ASSUME IdInv, NEW t \in Threads, NEW status, NEW users, status # 201,
         Answer(t, status, users), UNCHANGED <<counter, heap>>
  PROVE  IdInv' /\ Fresh
<1>1. th' = [th EXCEPT ![t] = Idle] /\ issued' = issued
  BY DEF Answer, Move
<1>2. IdInv'
  BY <1>1, IdleOK, MoveKeeps
<1>3. wrote' = wrote \/ wrote'.status = status
  BY DEF Answer
<1> QED BY <1>2, <1>3 DEF Fresh

\* What the frames of a thread that goes on can be.
LEMMA GotoKeeps ==
  ASSUME IdInv, NEW t \in Threads, NEW pc, Goto(t, pc), FrameOK([th[t] EXCEPT !.pc = pc]),
         pc \in {"add", "swap", "refer", "reserve", "grow", "append"} => Holds(th[t]),
         Unanswered, UNCHANGED <<counter, heap>>
  PROVE  IdInv' /\ Fresh
<1> DEFINE frame == [th[t] EXCEPT !.pc = pc]
<1>1. DOMAIN th[t] = DOMAIN Idle
  BY DEF IdInv, FramesOK, FrameOK
<1>2. frame.pc = pc /\ frame.obj = th[t].obj
  BY <1>1 DEF Idle
<1>3. th' = [th EXCEPT ![t] = frame] /\ issued' = issued /\ wrote' = wrote
  BY DEF Goto, Move, Unanswered
<1>4. Holds(frame) => Holds(th[t]) /\ frame.obj = th[t].obj
  BY <1>2 DEF Holds
<1> HIDE DEF frame
<1>5. FrameOK(frame)
  BY DEF frame
<1> QED BY <1>3, <1>4, <1>5, MoveKeeps DEF Fresh

(***************************************************************************)
(* The operations.                                                         *)
(***************************************************************************)
LEMMA RequestKeeps == ASSUME IdInv, NEW t \in Threads, Request(t) PROVE IdInv' /\ Fresh
<1> DEFINE busy == {u \in Threads \ {t} : Active(u)}
<1> DEFINE frame(op, id, body) ==
      [Idle EXCEPT !.op = op, !.id = id, !.body = body, !.loop = FirstLoop(op),
                   !.pc = IF op \in {"deleteAllUsers", "listAllUsers"} THEN FirstLoop(op) ELSE "hasNext",
                   !.expected = modCount, !.overlapped = \E v \in busy : Writing(v)]
<1>1. PICK op \in Duties[t], id \in Ids \cup {0}, body \in Bodies \cup {NoBody} :
        th' = [u \in Threads |->
          IF u = t THEN frame(op, id, body)
          ELSE IF u \in busy /\ op \in Writes THEN [th[u] EXCEPT !.overlapped = TRUE] ELSE th[u]]
  <2>1. PICK op \in Duties[t] :
          \E id \in IF op \in {"getUser", "updateUser", "deleteUser"} THEN Ids ELSE {0} :
            \E body \in IF op \in {"createUser", "updateUser"} THEN Bodies ELSE {NoBody} :
              th' = [u \in Threads |->
                IF u = t THEN frame(op, id, body)
                ELSE IF u \in busy /\ op \in Writes THEN [th[u] EXCEPT !.overlapped = TRUE] ELSE th[u]]
    BY DEF Request
  <2>2. PICK id \in IF op \in {"getUser", "updateUser", "deleteUser"} THEN Ids ELSE {0},
             body \in IF op \in {"createUser", "updateUser"} THEN Bodies ELSE {NoBody} :
               th' = [u \in Threads |->
                 IF u = t THEN frame(op, id, body)
                 ELSE IF u \in busy /\ op \in Writes THEN [th[u] EXCEPT !.overlapped = TRUE] ELSE th[u]]
    BY <2>1
  <2>3. id \in Ids \cup {0} /\ body \in Bodies \cup {NoBody}
    OBVIOUS
  <2> HIDE DEF frame, busy
  <2> QED BY <2>2, <2>3
<1>2. op \in {"listAllUsers", "getUser", "createUser", "updateUser", "deleteUser", "deleteAllUsers"}
  BY DutiesAssumption
<1>3. body \in Representation
  BY UsersAssumption DEF Representation, NoBody
<1>4. UNCHANGED <<heap, counter, issued, wrote>>
  BY DEF Request, DataUnchanged, Unanswered
<1>5. FrameOK(th'[t]) /\ ~Holds(th'[t])
  BY ZenonT(40), <1>1, <1>2, <1>3 DEF FrameOK, Holds, Runs, Idle, FirstLoop
<1>6. \A u \in Threads \ {t} :
        /\ DOMAIN th'[u] = DOMAIN th[u]
        /\ th'[u].pc = th[u].pc /\ th'[u].op = th[u].op /\ th'[u].loop = th[u].loop
        /\ th'[u].body = th[u].body /\ th'[u].index = th[u].index /\ th'[u].obj = th[u].obj
  <2> SUFFICES ASSUME NEW u \in Threads \ {t}
               PROVE  /\ DOMAIN th'[u] = DOMAIN th[u]
                      /\ th'[u].pc = th[u].pc /\ th'[u].op = th[u].op /\ th'[u].loop = th[u].loop
                      /\ th'[u].body = th[u].body /\ th'[u].index = th[u].index /\ th'[u].obj = th[u].obj
    OBVIOUS
  <2>1. th'[u] = th[u] \/ th'[u] = [th[u] EXCEPT !.overlapped = TRUE]
    BY <1>1
  <2>2. DOMAIN th[u] = DOMAIN Idle
    BY DEF IdInv, FramesOK, FrameOK
  <2> QED BY <2>1, <2>2 DEF Idle
<1>7. FramesOK'
  <2>1. DOMAIN th' = Threads /\ th' = [u \in Threads |-> th'[u]]
    BY <1>1
  <2>2. \A u \in Threads \ {t} : FrameOK(th'[u])
    BY <1>6 DEF IdInv, FramesOK, FrameOK, Holds, Runs
  <2> QED BY <1>5, <2>1, <2>2 DEF FramesOK
<1>8. IdsDrawn' /\ HeldIdsFresh'
  BY <1>4, <1>5, <1>6 DEF IdInv, IdsDrawn, HeldIdsFresh, Holds
<1> QED BY <1>4, <1>7, <1>8 DEF IdInv, Fresh

LEMMA AfterLoopKeeps ==
  ASSUME IdInv, NEW t \in Threads, th[t].pc = "hasNext", AfterLoop(t), UNCHANGED <<counter, heap>>
  PROVE  IdInv' /\ Fresh
<1>1. FrameOK(th[t]) /\ Runs(th[t])
  BY DEF IdInv, FramesOK, FrameOK
<1>2. CASE th[t].loop = "findByName"
  <2>1. Goto(t, "save") /\ Unanswered
    BY <1>2 DEF AfterLoop
  <2>2. FrameOK([th[t] EXCEPT !.pc = "save"])
    BY <1>1, <1>2 DEF FrameOK, Holds, Runs, Idle
  <2> QED BY <2>1, <2>2, GotoKeeps
<1>3. CASE th[t].loop = "findById"
  <2>1. Answer(t, 404, <<>>)
    BY <1>3 DEF AfterLoop
  <2> QED BY <2>1, AnswerKeeps
<1>4. CASE th[t].loop = "deleteUserById"
  <2>1. Answer(t, 204, <<>>)
    BY <1>4 DEF AfterLoop
  <2> QED BY <2>1, AnswerKeeps
<1> QED BY <1>1, <1>2, <1>3, <1>4 DEF Runs

LEMMA StartedOK ==
  ASSUME NEW f, NEW ref, FrameOK(f), f.op \in {"getUser", "listAllUsers"}
  PROVE  FrameOK(StartUser(f, ref)) /\ ~Holds(StartUser(f, ref))
<1>1. PICK shown : StartUser(f, ref) = [f EXCEPT !.pc = "field", !.obj = ref, !.index = 1, !.shown = shown]
  BY DEF StartUser
<1> QED BY <1>1 DEF FrameOK, Holds, Runs, Idle

LEMMA FoundKeeps ==
  ASSUME IdInv, NEW t \in Threads, NEW ref, th[t].pc = "fetch", Found(t, ref), UNCHANGED <<counter, heap>>
  PROVE  IdInv' /\ Fresh
<1>1. FrameOK(th[t]) /\ Runs(th[t])
  BY DEF IdInv, FramesOK, FrameOK
<1>2. CASE th[t].loop = "findByName"
  <2>1. Answer(t, 409, <<>>)
    BY <1>1, <1>2 DEF Found, Runs
  <2> QED BY <2>1, AnswerKeeps
<1>3. CASE th[t].loop = "deleteUserById"
  <2> DEFINE frame == [th[t] EXCEPT !.pc = "remove", !.cursor = @ + 1]
  <2>1. th' = [th EXCEPT ![t] = frame] /\ issued' = issued /\ wrote' = wrote
    <3>1. Move(t, [th[t] EXCEPT !.pc = "remove", !.cursor = @ + 1]) /\ Unanswered
      BY <1>1, <1>3 DEF Found, Runs
    <3> QED BY <3>1 DEF Move, Unanswered
  <2>2. FrameOK(frame) /\ ~Holds(frame)
    BY <1>1, <1>3 DEF FrameOK, Holds, Runs, Idle
  <2> HIDE DEF frame
  <2> QED BY <2>1, <2>2, MoveKeeps DEF Fresh
<1>4. CASE th[t].loop = "findById" /\ th[t].op = "getUser"
  <2> DEFINE frame == StartUser(th[t], ref)
  <2>1. th' = [th EXCEPT ![t] = frame] /\ issued' = issued /\ wrote' = wrote
    BY <1>4 DEF Found, Move, Unanswered
  <2>2. FrameOK(frame) /\ ~Holds(frame)
    BY <1>1, <1>4, StartedOK
  <2> HIDE DEF frame
  <2> QED BY <2>1, <2>2, MoveKeeps DEF Fresh
<1>5. CASE th[t].loop = "findById" /\ th[t].op = "deleteUser"
  <2>1. Goto(t, "iterator") /\ Unanswered
    BY <1>5 DEF Found
  <2>2. FrameOK([th[t] EXCEPT !.pc = "iterator"])
    BY <1>1, <1>5 DEF FrameOK, Holds, Runs, Idle
  <2> QED BY <2>1, <2>2, GotoKeeps
<1>6. CASE th[t].loop = "findById" /\ th[t].op = "updateUser"
  <2> DEFINE frame == [th[t] EXCEPT !.pc = "set", !.obj = ref, !.index = 1]
  <2>1. th' = [th EXCEPT ![t] = frame] /\ issued' = issued /\ wrote' = wrote
    BY <1>6 DEF Found, Move, Unanswered
  <2>2. FrameOK(frame) /\ ~Holds(frame)
    BY <1>1, <1>6 DEF FrameOK, Holds, Runs, Idle
  <2> HIDE DEF frame
  <2> QED BY <2>1, <2>2, MoveKeeps DEF Fresh
<1> QED BY <1>1, <1>2, <1>3, <1>4, <1>5, <1>6 DEF Runs

LEMMA LoopKeeps ==
  ASSUME IdInv, NEW t \in Threads, HasNext(t) \/ CheckModCount(t) \/ Fetch(t)
  PROVE  IdInv' /\ Fresh
<1>1. UNCHANGED <<counter, heap>> /\ FrameOK(th[t])
  BY DEF HasNext, CheckModCount, Fetch, DataUnchanged, IdInv, FramesOK
<1>2. CASE HasNext(t)
  <2>1. th[t].pc = "hasNext"
    BY <1>2 DEF HasNext, At
  <2>2. CASE Goto(t, "next") /\ Unanswered
    <3>1. FrameOK([th[t] EXCEPT !.pc = "next"])
      BY <1>1, <2>1 DEF FrameOK, Holds, Runs, Idle
    <3> QED BY <1>1, <2>2, <3>1, GotoKeeps
  <2>3. CASE AfterLoop(t)
    BY <1>1, <2>1, <2>3, AfterLoopKeeps
  <2> QED BY <1>2, <2>2, <2>3 DEF HasNext
<1>3. CASE CheckModCount(t)
  <2>1. th[t].pc = "next"
    BY <1>3 DEF CheckModCount, At
  <2>2. CASE Goto(t, "fetch") /\ Unanswered
    <3>1. FrameOK([th[t] EXCEPT !.pc = "fetch"])
      BY <1>1, <2>1 DEF FrameOK, Holds, Runs, Idle
    <3> QED BY <1>1, <2>2, <3>1, GotoKeeps
  <2>3. CASE Answer(t, 500, <<>>)
    BY <1>1, <2>3, AnswerKeeps
  <2> QED BY <1>3, <2>2, <2>3 DEF CheckModCount
<1>4. CASE Fetch(t)
  <2>1. th[t].pc = "fetch"
    BY <1>4 DEF Fetch, At
  <2>2. CASE Answer(t, 500, <<>>)
    BY <1>1, <2>2, AnswerKeeps
  <2>3. CASE Found(t, arr[th[t].cursor])
    BY <1>1, <2>1, <2>3, FoundKeeps
  <2>4. CASE Move(t, [th[t] EXCEPT !.pc = "hasNext", !.cursor = th[t].cursor + 1]) /\ Unanswered
    <3> DEFINE frame == [th[t] EXCEPT !.pc = "hasNext", !.cursor = th[t].cursor + 1]
    <3>1. th' = [th EXCEPT ![t] = frame] /\ issued' = issued /\ wrote' = wrote
      BY <2>4 DEF Move, Unanswered
    <3>2. FrameOK(frame) /\ ~Holds(frame)
      BY <1>1, <2>1 DEF FrameOK, Holds, Runs, Idle
    <3> HIDE DEF frame
    <3> QED BY <1>1, <3>1, <3>2, MoveKeeps DEF Fresh
  <2> QED BY <1>4, <2>2, <2>3, <2>4 DEF Fetch
<1> QED BY <1>2, <1>3, <1>4

\* A step that only changes the list, or reads it, and goes on.
LEMMA StepKeeps ==
  ASSUME IdInv, NEW t \in Threads,
         \/ Iterator(t) \/ IteratorRemove(t) \/ Shrink(t)
         \/ Add(t) \/ Swap(t) \/ Refer(t) \/ Reserve(t) \/ Grow(t) \/ IndexOf(t) \/ Store(t)
         \/ Clear(t) \/ Drop(t) \/ ListAll(t) \/ Render(t) \/ RenderElement(t) \/ RenderField(t)
  PROVE  IdInv' /\ Fresh
<1> DEFINE Moved(f) == th' = [th EXCEPT ![t] = f] /\ issued' = issued /\ wrote' = wrote
<1>1. UNCHANGED <<counter, heap>> /\ FrameOK(th[t])
  BY DEF Iterator, IteratorRemove, Shrink, Add, Swap, Refer, Reserve, Grow, IndexOf, Store, Clear, Drop, ListAll,
         Render, RenderElement, RenderField, DataUnchanged, IdInv, FramesOK
<1>2. ASSUME NEW f, Moved(f), FrameOK(f), Holds(f) => Holds(th[t]) /\ f.obj = th[t].obj
      PROVE  IdInv' /\ Fresh
  BY <1>1, <1>2, MoveKeeps DEF Fresh
<1>3. ASSUME NEW status, NEW users, status # 201, Answer(t, status, users)
      PROVE  IdInv' /\ Fresh
  BY <1>1, <1>3, AnswerKeeps
<1>4. CASE IteratorRemove(t)
  <2>1. th[t].pc = "remove" /\ (Answer(t, 500, <<>>) \/ (Goto(t, "shrink") /\ Unanswered))
    BY <1>4 DEF IteratorRemove, At
  <2>2. FrameOK([th[t] EXCEPT !.pc = "shrink"])
    BY <1>1, <2>1 DEF FrameOK, Holds, Runs, Idle
  <2> QED BY <1>1, <1>3, <2>1, <2>2, GotoKeeps
<1>5. CASE Shrink(t)
  <2> DEFINE f == [th[t] EXCEPT !.pc = "hasNext", !.cursor = @ - 1, !.expected = modCount]
  <2>1. th[t].pc = "shrink" /\ (Answer(t, 500, <<>>) \/ Moved(f))
    BY <1>5 DEF Shrink, At, Move, Unanswered
  <2>2. FrameOK(f) /\ ~Holds(f)
    BY <1>1, <2>1 DEF FrameOK, Holds, Runs, Idle
  <2> HIDE DEF f
  <2> QED BY <1>2, <1>3, <2>1, <2>2
<1>6. CASE Add(t)
  <2>1. th[t].pc = "add" /\ Holds(th[t]) /\ th[t].op = "createUser"
    BY <1>1, <1>6 DEF Add, At, Holds, FrameOK
  <2>2. CASE Goto(t, "refer") /\ Unanswered
    <3>1. FrameOK([th[t] EXCEPT !.pc = "refer"])
      BY <1>1, <2>1 DEF FrameOK, Holds, Runs, Idle
    <3> QED BY <1>1, <2>1, <2>2, <3>1, GotoKeeps
  <2>3. CASE \E room, copy : Moved([th[t] EXCEPT !.pc = "swap", !.room = room, !.copy = copy])
    <3>1. PICK room, copy : Moved([th[t] EXCEPT !.pc = "swap", !.room = room, !.copy = copy])
      BY <2>3
    <3> DEFINE f == [th[t] EXCEPT !.pc = "swap", !.room = room, !.copy = copy]
    <3>2. FrameOK(f) /\ f.obj = th[t].obj
      BY <1>1, <2>1 DEF FrameOK, Holds, Runs, Idle
    <3>3. Moved(f)
      BY <3>1
    <3> HIDE DEF f
    <3> QED BY <1>2, <2>1, <3>2, <3>3
  <2> QED BY <1>6, <2>2, <2>3 DEF Add, Move, Unanswered
<1>7. CASE Grow(t)
  <2>1. th[t].pc = "grow" /\ Goto(t, "append") /\ Unanswered
    BY <1>7 DEF Grow, At
  <2>2. FrameOK([th[t] EXCEPT !.pc = "append"]) /\ Holds(th[t])
    BY <1>1, <2>1 DEF FrameOK, Holds, Runs, Idle
  <2> QED BY <1>1, <2>1, <2>2, GotoKeeps
<1>8. CASE IndexOf(t)
  <2>0. th[t].pc = "indexOf"
    BY <1>8 DEF IndexOf, At
  <2>1. CASE Answer(t, 500, <<>>)
    BY <1>3, <2>1
  <2>2. CASE \E f \in {[th[t] EXCEPT !.pc = "store", !.index = -1], [th[t] EXCEPT !.pc = "store"],
                       [th[t] EXCEPT !.index = th[t].index + 1]} : Moved(f)
    <3>1. PICK f \in {[th[t] EXCEPT !.pc = "store", !.index = -1], [th[t] EXCEPT !.pc = "store"],
                      [th[t] EXCEPT !.index = th[t].index + 1]} : Moved(f)
      BY <2>2
    <3>2. FrameOK(f) /\ ~Holds(f)
      BY <1>1, <2>0 DEF FrameOK, Holds, Runs, Idle
    <3> QED BY <1>2, <3>1, <3>2
  <2>3. Answer(t, 500, <<>>) \/ \E f \in {[th[t] EXCEPT !.pc = "store", !.index = -1], [th[t] EXCEPT !.pc = "store"],
                                          [th[t] EXCEPT !.index = th[t].index + 1]} : Moved(f)
    BY <1>8 DEF IndexOf, Move, Unanswered
  <2> QED BY <2>1, <2>2, <2>3
<1>9. CASE Store(t)
  <2>1. Answer(t, 500, <<>>) \/ Answer(t, 200, <<>>)
    BY <1>9 DEF Store
  <2> QED BY <1>3, <2>1
<1>10. CASE Clear(t)
  <2>1. th[t].pc = "clear" /\ Goto(t, "drop") /\ Unanswered
    BY <1>10 DEF Clear, At
  <2>2. FrameOK([th[t] EXCEPT !.pc = "drop"])
    BY <1>1, <2>1 DEF FrameOK, Holds, Runs, Idle
  <2> QED BY <1>1, <2>1, <2>2, GotoKeeps
<1>11. CASE Drop(t)
  <2> DEFINE f == [th[t] EXCEPT !.index = th[t].index + 1]
  <2>1. th[t].pc = "drop" /\ (Answer(t, 204, <<>>) \/ Answer(t, 500, <<>>) \/ Moved(f))
    BY <1>11 DEF Drop, At, Move, Unanswered
  <2>2. FrameOK(f) /\ ~Holds(f)
    BY <1>1, <2>1 DEF FrameOK, Holds, Runs, Idle
  <2> HIDE DEF f
  <2> QED BY <1>2, <1>3, <2>1, <2>2
<1>12. CASE ListAll(t)
  <2>1. th[t].pc = "isEmpty" /\ (Answer(t, 204, <<>>) \/ (Goto(t, "render") /\ Unanswered))
    BY <1>12 DEF ListAll, At
  <2>2. FrameOK([th[t] EXCEPT !.pc = "render"])
    BY <1>1, <2>1 DEF FrameOK, Holds, Runs, Idle
  <2> QED BY <1>1, <1>3, <2>1, <2>2, GotoKeeps
<1>13. CASE Render(t)
  <2> DEFINE f == [th[t] EXCEPT !.pc = "element", !.expected = size]
  <2>1. th[t].pc = "render" /\ Moved(f)
    BY <1>13 DEF Render, At, Move, Unanswered
  <2>2. FrameOK(f) /\ ~Holds(f)
    BY <1>1, <2>1 DEF FrameOK, Holds, Runs, Idle
  <2> HIDE DEF f
  <2> QED BY <1>2, <2>1, <2>2
<1>14. CASE RenderElement(t)
  <2>1. th[t].pc = "element" /\ th[t].op = "listAllUsers"
    BY <1>1, <1>14 DEF RenderElement, At, FrameOK
  <2>2. CASE Answer(t, 200, th[t].shown) \/ Answer(t, 500, <<>>)
    BY <1>3, <2>2
  <2>3. CASE \E shown : Moved([th[t] EXCEPT !.cursor = th[t].cursor + 1, !.shown = shown])
    <3>1. PICK shown : Moved([th[t] EXCEPT !.cursor = th[t].cursor + 1, !.shown = shown])
      BY <2>3
    <3> DEFINE f == [th[t] EXCEPT !.cursor = th[t].cursor + 1, !.shown = shown]
    <3>2. FrameOK(f) /\ ~Holds(f)
      BY <1>1, <2>1 DEF FrameOK, Holds, Runs, Idle
    <3> HIDE DEF f
    <3>3. Moved(f)
      BY <3>1 DEF f
    <3> QED BY <1>2, <3>2, <3>3
  <2>4. CASE \E ref : Moved(StartUser([th[t] EXCEPT !.cursor = th[t].cursor + 1], ref))
    <3>1. PICK ref : Moved(StartUser([th[t] EXCEPT !.cursor = th[t].cursor + 1], ref))
      BY <2>4
    <3> DEFINE g == [th[t] EXCEPT !.cursor = th[t].cursor + 1]
               f == StartUser(g, ref)
    <3>2. FrameOK(g) /\ g.op = "listAllUsers"
      BY <1>1, <2>1 DEF FrameOK, Holds, Runs, Idle
    <3>3. Moved(f)
      BY <3>1
    <3> HIDE DEF g
    <3>4. FrameOK(f) /\ ~Holds(f)
      BY <3>2, StartedOK
    <3> HIDE DEF f
    <3> QED BY <1>2, <3>3, <3>4
  <2> QED BY <1>14, <2>2, <2>3, <2>4 DEF RenderElement, Move, Unanswered
<1>15. CASE Iterator(t)
  <2> DEFINE f == [th[t] EXCEPT !.pc = "hasNext", !.loop = "deleteUserById", !.cursor = 0,
                                !.expected = modCount, !.index = 0]
  <2>1. th[t].pc = "iterator" /\ Moved(f)
    BY <1>15 DEF Iterator, At, Loop, Move, Unanswered
  <2>2. FrameOK(f) /\ ~Holds(f)
    BY <1>1, <2>1 DEF FrameOK, Holds, Runs, Idle
  <2> HIDE DEF f
  <2> QED BY <1>2, <2>1, <2>2
<1>16. CASE Swap(t)
  <2> DEFINE f == [th[t] EXCEPT !.pc = "refer", !.copy = <<>>]
  <2>1. th[t].pc = "swap" /\ Moved(f)
    BY <1>16 DEF Swap, At, Move, Unanswered
  <2>2. FrameOK(f) /\ Holds(th[t]) /\ f.obj = th[t].obj
    BY <1>1, <2>1 DEF FrameOK, Holds, Runs, Idle
  <2> HIDE DEF f
  <2> QED BY <1>2, <2>1, <2>2
<1>17. CASE Refer(t)
  <2> DEFINE f == [th[t] EXCEPT !.pc = "reserve", !.into = copies, !.room = length]
  <2>1. th[t].pc = "refer" /\ Moved(f)
    BY <1>17 DEF Refer, At, Move, Unanswered
  <2>2. FrameOK(f) /\ Holds(th[t]) /\ f.obj = th[t].obj
    BY <1>1, <2>1 DEF FrameOK, Holds, Runs, Idle
  <2> HIDE DEF f
  <2> QED BY <1>2, <2>1, <2>2
<1>18. CASE Reserve(t)
  <2> DEFINE f == [th[t] EXCEPT !.pc = "grow", !.index = size]
  <2>1. th[t].pc = "reserve" /\ Moved(f)
    BY <1>18 DEF Reserve, At, Move, Unanswered
  <2>2. FrameOK(f) /\ Holds(th[t]) /\ f.obj = th[t].obj
    BY <1>1, <2>1 DEF FrameOK, Holds, Runs, Idle
  <2> HIDE DEF f
  <2> QED BY <1>2, <2>1, <2>2
<1>19. CASE RenderField(t)
  <2>1. th[t].pc = "field" /\ th[t].op \in {"getUser", "listAllUsers"}
    BY <1>1, <1>19 DEF RenderField, At, FrameOK
  <2>2. \/ \E users : Answer(t, 200, users)
        \/ \E users : Moved([th[t] EXCEPT !.index = th[t].index + 1, !.shown = users])
        \/ th[t].op # "getUser" /\ \E users : Moved([th[t] EXCEPT !.pc = "element", !.shown = users])
    BY <1>19 DEF RenderField, Move, Unanswered
  <2>3. CASE \E users : Answer(t, 200, users)
    BY <1>3, <2>3
  <2>4. CASE \E users : Moved([th[t] EXCEPT !.index = th[t].index + 1, !.shown = users])
    <3>1. PICK users : Moved([th[t] EXCEPT !.index = th[t].index + 1, !.shown = users])
      BY <2>4
    <3> DEFINE f == [th[t] EXCEPT !.index = th[t].index + 1, !.shown = users]
    <3>2. FrameOK(f) /\ ~Holds(f)
      BY <1>1, <2>1 DEF FrameOK, Holds, Runs, Idle
    <3>3. Moved(f)
      BY <3>1
    <3> HIDE DEF f
    <3> QED BY <1>2, <3>2, <3>3
  <2>5. CASE th[t].op # "getUser" /\ \E users : Moved([th[t] EXCEPT !.pc = "element", !.shown = users])
    <3>1. PICK users : Moved([th[t] EXCEPT !.pc = "element", !.shown = users])
      BY <2>5
    <3> DEFINE f == [th[t] EXCEPT !.pc = "element", !.shown = users]
    <3>2. FrameOK(f) /\ ~Holds(f)
      BY <1>1, <2>1, <2>5 DEF FrameOK, Holds, Runs, Idle
    <3>3. Moved(f)
      BY <3>1
    <3> HIDE DEF f
    <3> QED BY <1>2, <3>2, <3>3
  <2> QED BY <2>2, <2>3, <2>4, <2>5
<1> QED BY <1>4, <1>5, <1>6, <1>7, <1>8, <1>9, <1>10, <1>11, <1>12, <1>13, <1>14, <1>15, <1>16, <1>17, <1>18, <1>19

\* A PUT changes no id.
LEMMA SetFieldKeeps == ASSUME IdInv, NEW t \in Threads, SetField(t) PROVE IdInv' /\ Fresh
<1>1. th[t].pc = "set" /\ FrameOK(th[t]) /\ th[t].index \in 1 .. 3
  BY DEF SetField, At, IdInv, FramesOK, FrameOK
<1> DEFINE o == th[t].obj
           field == Fields[th[t].index]
<1>2. field \in {"username", "address", "email"} /\ th[t].body[field] \in STRING
  BY <1>1 DEF Fields, FrameOK, Representation
<1>3. heap' = [heap EXCEPT ![o] = [heap[o] EXCEPT ![field] = th[t].body[field]]]
  BY DEF SetField
<1>4. UNCHANGED <<counter, issued, wrote>>
  BY DEF SetField, Unanswered
<1>5. heap' \in Seq(Stored) /\ DOMAIN heap' = DOMAIN heap /\ \A i \in DOMAIN heap : heap'[i].id = heap[i].id
  <2>1. heap \in Seq(Stored)
    BY DEF IdInv, IdsDrawn
  <2>2. CASE o \in DOMAIN heap
    <3>1. heap[o] \in Stored
      BY <2>1, <2>2
    <3> HIDE DEF o, field
    <3>2. [heap[o] EXCEPT ![field] = th[t].body[field]] \in Stored
          /\ [heap[o] EXCEPT ![field] = th[t].body[field]].id = heap[o].id
      BY <1>2, <3>1 DEF Stored
    <3> QED BY <1>3, <2>1, <2>2, <3>2
  <2>3. CASE o \notin DOMAIN heap
    <3>1. heap' = heap
      BY <1>3, <2>1, <2>3
    <3> QED BY <2>1, <3>1
  <2> QED BY <2>2, <2>3
<1>6. PICK f \in {[th[t] EXCEPT !.index = th[t].index + 1], [th[t] EXCEPT !.pc = "indexOf", !.index = 0]} :
        th' = [th EXCEPT ![t] = f] /\ (f.pc = "set" => f.index \in 1 .. 3)
  <2>1. CASE th[t].index < Len(Fields)
    <3>1. th' = [th EXCEPT ![t] = [th[t] EXCEPT !.index = th[t].index + 1]]
      BY <2>1 DEF SetField, Move
    <3> QED BY <1>1, <2>1, <3>1 DEF Fields, FrameOK, Idle
  <2>2. CASE ~(th[t].index < Len(Fields))
    <3>1. th' = [th EXCEPT ![t] = [th[t] EXCEPT !.pc = "indexOf", !.index = 0]]
      BY <2>2 DEF SetField, Move
    <3> QED BY <1>1, <3>1 DEF FrameOK, Idle
  <2> QED BY <2>1, <2>2
<1>7. FrameOK(f) /\ ~Holds(f)
  BY <1>1, <1>6 DEF FrameOK, Holds, Runs, Idle
<1>8. \A u \in Threads : th'[u] = IF u = t THEN f ELSE th[u]
  BY <1>6 DEF IdInv, FramesOK
<1>9. FramesOK'
  BY <1>6, <1>7, <1>8 DEF IdInv, FramesOK, FrameOK, Holds, Runs
<1>10. IdsDrawn'
  BY <1>4, <1>5 DEF IdInv, IdsDrawn
<1>11. HeldIdsFresh'
  BY <1>4, <1>5, <1>7, <1>8 DEF IdInv, HeldIdsFresh, Holds
<1> QED BY <1>4, <1>9, <1>10, <1>11 DEF IdInv, Fresh

\* An id is drawn: it is higher than every other.
LEMMA SaveKeeps == ASSUME IdInv, NEW t \in Threads, Save(t) PROVE IdInv' /\ Fresh
<1> DEFINE user == User(counter + 1, th[t].body)
           f == [th[t] EXCEPT !.pc = "add", !.obj = Len(heap) + 1]
<1>1. th[t].pc = "save" /\ FrameOK(th[t]) /\ counter \in Nat /\ heap \in Seq(Stored)
  BY DEF Save, At, IdInv, FramesOK, IdsDrawn
<1>2. user \in Stored /\ user.id = counter + 1
  BY <1>1 DEF FrameOK, User, Stored, Representation
<1>3. counter' = counter + 1 /\ heap' = Append(heap, user) /\ issued' = issued /\ wrote' = wrote
  BY DEF Save, Unanswered
<1> HIDE DEF user
<1>4. /\ heap' \in Seq(Stored) /\ Len(heap') = Len(heap) + 1
      /\ DOMAIN heap' = DOMAIN heap \cup {Len(heap) + 1} /\ Len(heap) + 1 \notin DOMAIN heap
      /\ \A i \in DOMAIN heap' : heap'[i] = IF i \in DOMAIN heap THEN heap[i] ELSE user
  BY <1>1, <1>2, <1>3
<1>5. th' = [th EXCEPT ![t] = f]
  BY <1>4 DEF Save, Move
<1>6. FrameOK(f) /\ Holds(f) /\ f.obj = Len(heap) + 1
  BY <1>1 DEF FrameOK, Holds, Runs, Idle
<1> HIDE DEF f
<1>7. \A u \in Threads : th'[u] = IF u = t THEN f ELSE th[u]
  BY <1>5 DEF IdInv, FramesOK
<1>8. FramesOK'
  BY <1>5, <1>6, <1>7 DEF IdInv, FramesOK
<1>9. IdsDrawn'
  <2>1. counter' \in Nat /\ \A n \in 0 .. counter : n \in 0 .. counter'
    BY <1>1, <1>3
  <2>2. \A i \in DOMAIN heap : heap[i].id \in Nat /\ heap[i].id <= counter
    <3>1. \A i \in DOMAIN heap : heap[i] \in Stored
      BY <1>1
    <3>2. \A i \in DOMAIN heap : heap[i].id \in Nat
      BY <3>1 DEF Stored
    <3> QED BY <3>2 DEF IdInv, IdsDrawn
  <2>3. \A i \in DOMAIN heap' : heap'[i].id <= counter'
    BY <1>1, <1>2, <1>3, <1>4, <2>2
  <2>4. \A i, j \in DOMAIN heap' : heap'[i].id = heap'[j].id => i = j
    <3>1. \A i, j \in DOMAIN heap : heap[i].id = heap[j].id => i = j
      BY DEF IdInv, IdsDrawn
    <3>2. \A i \in DOMAIN heap : heap[i].id # user.id
      BY <1>1, <1>2, <2>2
    <3> QED BY <1>4, <3>1, <3>2
  <2>5. issued' \subseteq 0 .. counter'
    BY <1>3, <2>1 DEF IdInv, IdsDrawn
  <2> QED BY <1>4, <2>1, <2>3, <2>4, <2>5 DEF IdsDrawn
<1>10. HeldIdsFresh'
  BY <1>1, <1>2, <1>3, <1>4, <1>6, <1>7 DEF IdInv, IdsDrawn, HeldIdsFresh
<1> QED BY <1>3, <1>8, <1>9, <1>10 DEF IdInv, Fresh

\* An id is answered by the thread that holds it.
LEMMA StoreNewKeeps == ASSUME IdInv, NEW t \in Threads, StoreNew(t) PROVE IdInv' /\ Fresh
<1>1. UNCHANGED <<heap, counter>>
  BY DEF StoreNew
<1>2. CASE Answer(t, 500, <<>>)
  BY <1>1, <1>2, AnswerKeeps
<1>3. CASE Answer(t, 201, <<>>)
  <2> DEFINE id == heap[th[t].obj].id
  <2>1. Holds(th[t]) /\ th[t].op = "createUser"
    BY DEF StoreNew, At, Holds, IdInv, FramesOK, FrameOK
  <2>2. th[t].obj \in DOMAIN heap /\ id \notin issued /\ id <= counter /\ id \in Nat
    <3>1. th[t].obj \in DOMAIN heap /\ id \notin issued
      BY <2>1 DEF IdInv, HeldIdsFresh
    <3>2. heap[th[t].obj] \in Stored /\ id <= counter
      BY <3>1 DEF IdInv, IdsDrawn
    <3> QED BY <3>1, <3>2 DEF Stored
  <2>3. th' = [th EXCEPT ![t] = Idle] /\ issued' = issued \cup {id} /\ wrote'.id = id
    BY <1>3, <2>1 DEF Answer, Move, Writing, Writes
  <2> HIDE DEF id
  <2>4. \A u \in Threads : th'[u] = IF u = t THEN Idle ELSE th[u]
    BY <2>3 DEF IdInv, FramesOK
  <2>5. FramesOK'
    BY <2>3, <2>4, IdleOK DEF IdInv, FramesOK
  <2>6. IdsDrawn'
    BY <1>1, <2>2, <2>3 DEF IdInv, IdsDrawn
  <2>7. HeldIdsFresh'
    BY <1>1, <2>1, <2>2, <2>3, <2>4, IdleOK DEF IdInv, IdsDrawn, HeldIdsFresh, id
  <2> QED BY <2>2, <2>3, <2>5, <2>6, <2>7 DEF IdInv, Fresh
<1> QED BY <1>2, <1>3 DEF StoreNew

LEMMA StepIds == IdInv /\ [Next]_vars => IdInv' /\ (Fresh \/ UNCHANGED vars)
<1> SUFFICES ASSUME IdInv, [Next]_vars PROVE IdInv' /\ (Fresh \/ UNCHANGED vars)
  OBVIOUS
<1>1. CASE Next
  <2>1. PICK t \in Threads : Request(t) \/ Work(t)
    BY <1>1 DEF Next
  <2> QED
    BY <2>1, RequestKeeps, LoopKeeps, StepKeeps, SetFieldKeeps, SaveKeeps, StoreNewKeeps DEF Work
<1>2. CASE UNCHANGED vars
  BY <1>2 DEF vars, list, array, IdInv, FramesOK, IdsDrawn, HeldIdsFresh
<1> QED BY <1>1, <1>2

\* Every id there is was drawn once from the counter, and an id held by a
\* thread of createUser is neither answered yet nor held by another.
THEOREM IdsSafe == Spec => []IdInv
<1>1. IdInv /\ [Next]_vars => IdInv'
  BY StepIds
<1> QED BY InitIds, <1>1, PTL DEF Spec

\* For any number of threads: no two POSTs are answered with one id, and none
\* with the id of an initial user, however their steps interleave.
THEOREM IdsAreNeverReused == Spec => IdsNeverReused
<1>1. IdInv /\ [Next]_vars => [Fresh]_vars
  BY StepIds
<1>2. Spec => [][Fresh]_vars
  BY <1>1, IdsSafe, PTL DEF Spec
<1> QED BY <1>2, PTL DEF IdsNeverReused, Fresh

(***************************************************************************)
(* Any number of threads that create, update and delete at once: adds may  *)
(* be lost, holes appear, and an array be replaced by a stale or shorter   *)
(* copy, but the list never claims more users than were created, and every *)
(* reference in it, in a copy or in the hands of a thread leads to a user. *)
(***************************************************************************)
Adding(f) == f.pc \in {"add", "swap", "refer", "reserve"}
Saving(f) == f.op = "createUser" /\ f.pc \in {"hasNext", "next", "fetch", "save"}

Adders == {t \in Threads : Adding(th[t])}
Savers == {t \in Threads : Saving(th[t])}

\* The m slots of an array hold references to the first n users, or nothing.
SlotsOf(a, m, n) == m \in Nat /\ DOMAIN a = 0 .. m - 1 /\ \A i \in DOMAIN a : a[i] \in 0 .. n

\* Where the frame of a thread may stand when n users have been created.
StandsIn(f, n) ==
  /\ f.cursor \in Nat /\ f.index \in Int
  /\ f.pc \in {"remove", "shrink"} => f.cursor > 0
  /\ f.pc = "swap" => SlotsOf(f.copy, f.room, n)
  /\ f.pc \in {"set", "indexOf", "store", "field"} => f.obj \in 1 .. n
  /\ f.pc \in {"clear", "drop", "indexOf"} => f.index \in Nat

\* A size of n leaves a slot to every thread that is about to read it.
Fits(n) == n \in Int /\ n + Cardinality(Adders) <= counter

Bounded ==
  /\ requests \in Nat /\ requests <= MaxRequests
  /\ IsFiniteSet(Savers) /\ counter + Cardinality(Savers) <= Len(Dummies) + requests
  /\ counter = Len(heap)

SlotInv ==
  /\ Bounded
  /\ IsFiniteSet(Adders) /\ Fits(0) /\ Fits(size)
  /\ SlotsOf(arr, length, counter)
  /\ \A t \in Threads : StandsIn(th[t], counter)
  /\ \A t \in Threads : th[t].pc = "grow" => Fits(th[t].index + 1)

\* The list shows no more users than there are, there are no more than were asked
\* for, and whatever refers to a user refers to one that exists.
ReferencesSound ==
  /\ size <= Len(heap) /\ Len(heap) <= Len(Dummies) + requests
  /\ \A i \in DOMAIN arr : arr[i] # Null => arr[i] \in DOMAIN heap
  /\ \A t \in Threads :
       /\ th[t].pc = "swap" => \A i \in DOMAIN th[t].copy : th[t].copy[i] # Null => th[t].copy[i] \in DOMAIN heap
       /\ Holds(th[t]) \/ th[t].pc \in {"set", "indexOf", "store", "field"} => th[t].obj \in DOMAIN heap

\* What one thread more or less does to the number of a set of threads.
LEMMA OneMore ==
  ASSUME NEW A, NEW B, NEW t, IsFiniteSet(A), B \subseteq A \cup {t}
  PROVE  /\ IsFiniteSet(B) /\ Cardinality(A) \in Nat /\ Cardinality(B) \in Nat
         /\ Cardinality(B) <= Cardinality(A) + 1
         /\ B \subseteq A => Cardinality(B) <= Cardinality(A)
         /\ B \subseteq A /\ t \in A \ B => Cardinality(B) + 1 <= Cardinality(A)
<1>1. IsFiniteSet(A \cup {t}) /\ Cardinality(A \cup {t}) <= Cardinality(A) + 1 /\ Cardinality(A) \in Nat
  BY FS_AddElement, FS_CardinalityType
<1>2. IsFiniteSet(B) /\ Cardinality(B) \in Nat /\ Cardinality(B) <= Cardinality(A \cup {t})
  BY <1>1, FS_Subset, FS_CardinalityType
<1>3. B \subseteq A => Cardinality(B) <= Cardinality(A)
  BY FS_Subset
<1>4. B \subseteq A /\ t \in A \ B => Cardinality(B) + 1 <= Cardinality(A)
  <2> SUFFICES ASSUME B \subseteq A, t \in A \ B PROVE Cardinality(B) + 1 <= Cardinality(A)
    OBVIOUS
  <2>1. IsFiniteSet(A \ {t}) /\ Cardinality(A \ {t}) = Cardinality(A) - 1
    BY FS_RemoveElement
  <2>2. B \subseteq A \ {t}
    OBVIOUS
  <2>3. Cardinality(B) <= Cardinality(A \ {t})
    BY <2>1, <2>2, FS_Subset
  <2>4. Cardinality(A \ {t}) \in Nat
    BY <2>1, FS_CardinalityType
  <2> QED BY <1>1, <1>2, <2>1, <2>3, <2>4
<1>5. Cardinality(A \cup {t}) \in Nat
  BY <1>1, FS_CardinalityType
<1> QED BY <1>1, <1>2, <1>3, <1>4, <1>5

LEMMA Sizes == MaxRequests \in Nat /\ Len(Dummies) \in Nat /\ MaxSize \in Nat
BY UsersAssumption, DutiesAssumption DEF MaxSize

LEMMA IdleStands == \A n : StandsIn(Idle, n) /\ ~Adding(Idle) /\ ~Saving(Idle) /\ Idle.pc # "grow"
BY DEF StandsIn, Adding, Saving, Idle

\* Users are only ever created: what held of the first n holds of more.
LEMMA StandsLater ==
  ASSUME NEW f, NEW n \in Nat, NEW m \in Nat, n <= m, StandsIn(f, n)
  PROVE  StandsIn(f, m)
<1>1. (\A i \in 1 .. n : i \in 1 .. m) /\ (\A i \in 0 .. n : i \in 0 .. m)
  OBVIOUS
<1>2. SlotsOf(f.copy, f.room, n) => SlotsOf(f.copy, f.room, m)
  BY <1>1 DEF SlotsOf
<1> QED BY <1>1, <1>2 DEF StandsIn

LEMMA InitSlots == Init => SlotInv
<1> SUFFICES ASSUME Init PROVE SlotInv
  OBVIOUS
<1>1. counter = Len(Dummies) /\ size = Len(Dummies) /\ requests = 0 /\ Len(Dummies) \in Nat
  BY Sizes DEF Init
<1>2. Len(heap) = Len(Dummies)
  <2>1. heap = [i \in 1 .. Len(Dummies) |-> User(i, Dummies[i])]
    BY UsersAssumption DEF Init
  <2> QED BY <1>1, <2>1
<1>3. \A t \in Threads : th[t] = Idle
  BY DEF Init
<1>4. Adders = {} /\ Savers = {}
  BY <1>3, IdleStands DEF Adders, Savers
<1>5. IsFiniteSet({}) /\ Cardinality({}) = 0
  BY FS_EmptySet
<1>6. Fits(0) /\ Fits(size)
  BY <1>1, <1>4, <1>5 DEF Fits
<1>7. SlotsOf(arr, length, counter)
  <2>1. arr = [i \in 0 .. Capacity - 1 |-> IF i < Len(Dummies) THEN i + 1 ELSE Null]
        /\ length = Capacity /\ Capacity \in Nat
    BY DutiesAssumption DEF Init
  <2>2. \A i \in 0 .. Capacity - 1 : (IF i < Len(Dummies) THEN i + 1 ELSE Null) \in 0 .. Len(Dummies)
    BY <1>1, Sizes, DutiesAssumption DEF Null
  <2> QED BY <1>1, <2>1, <2>2 DEF SlotsOf
<1>8. Bounded
  BY <1>1, <1>2, <1>4, <1>5, Sizes DEF Bounded
<1> QED BY <1>3, <1>4, <1>5, <1>6, <1>7, <1>8, IdleStands DEF SlotInv

(***************************************************************************)
(* A step that moves a thread, and creates no user.                        *)
(***************************************************************************)
Settled == UNCHANGED <<counter, requests>> /\ Len(heap') = Len(heap)

LEMMA SlotMoves ==
  ASSUME IdInv, SlotInv, Settled, NEW t \in Threads, NEW f, th' = [th EXCEPT ![t] = f],
         Adding(f) => Adding(th[t]), Saving(f) => Saving(th[t]), f.pc # "grow",
         StandsIn(f, counter), SlotsOf(arr', length', counter), Fits(size')
  PROVE  SlotInv'
<1>1. \A u \in Threads : th'[u] = IF u = t THEN f ELSE th[u]
  BY DEF IdInv, FramesOK
<1>2. Adders' \subseteq Adders /\ Savers' \subseteq Savers
  BY <1>1 DEF Adders, Savers
<1>3. counter' = counter /\ requests' = requests /\ Len(heap') = Len(heap) /\ counter \in Nat
  BY DEF Settled, IdInv, IdsDrawn
<1>4. IsFiniteSet(Adders') /\ Cardinality(Adders') <= Cardinality(Adders)
      /\ Cardinality(Adders') \in Nat /\ Cardinality(Adders) \in Nat
  BY <1>2, OneMore DEF SlotInv
<1>5. IsFiniteSet(Savers') /\ Cardinality(Savers') <= Cardinality(Savers)
      /\ Cardinality(Savers') \in Nat /\ Cardinality(Savers) \in Nat
  BY <1>2, OneMore DEF SlotInv, Bounded
<1>6. Bounded'
  BY <1>3, <1>5, Sizes DEF SlotInv, Bounded
<1>7. \A n : Fits(n) => n \in Int /\ n + Cardinality(Adders') <= counter'
  BY <1>3, <1>4 DEF Fits
<1>8. Fits(0)' /\ (Fits(size))'
  BY <1>7 DEF SlotInv, Fits
<1>9. \A u \in Threads : StandsIn(th'[u], counter')
  BY <1>1, <1>3 DEF SlotInv
<1>10. \A u \in Threads : th'[u].pc = "grow" => (Fits(th[u].index + 1))'
  <2> SUFFICES ASSUME NEW u \in Threads, th'[u].pc = "grow" PROVE (Fits(th[u].index + 1))'
    OBVIOUS
  <2>1. th'[u] = th[u]
    BY <1>1
  <2>2. Fits(th[u].index + 1)
    BY <2>1 DEF SlotInv
  <2> QED BY <1>7, <2>1, <2>2 DEF Fits
<1>11. SlotsOf(arr', length', counter')
  BY <1>3
<1> QED BY <1>4, <1>6, <1>8, <1>9, <1>10, <1>11 DEF SlotInv

LEMMA SlotAnswers ==
  ASSUME IdInv, SlotInv, Settled, NEW t \in Threads, NEW status, NEW users, Answer(t, status, users),
         SlotsOf(arr', length', counter), Fits(size')
  PROVE  SlotInv'
<1>1. th' = [th EXCEPT ![t] = Idle]
  BY DEF Answer, Move
<1> QED BY <1>1, IdleStands, SlotMoves

\* What a step finds: the list, and the frame of its thread.
LEMMA RoomFound ==
  ASSUME IdInv, SlotInv
  PROVE  /\ SlotsOf(arr, length, counter) /\ Fits(size) /\ Fits(0)
         /\ counter \in Nat /\ counter = Len(heap) /\ counter <= MaxSize /\ DOMAIN heap = 1 .. counter
         /\ size \in Int /\ size <= counter /\ MaxSize \in Nat
<1>1. SlotsOf(arr, length, counter) /\ Fits(size) /\ Fits(0) /\ IsFiniteSet(Adders) /\ Bounded
  BY DEF SlotInv
<1>2. counter \in Nat /\ counter = Len(heap) /\ DOMAIN heap = 1 .. counter
  BY <1>1 DEF Bounded, IdInv, IdsDrawn
<1>3. Cardinality(Adders) \in Nat /\ Cardinality(Savers) \in Nat
  BY <1>1, FS_CardinalityType DEF Bounded
<1>4. size \in Int /\ size <= counter
  BY <1>1, <1>2, <1>3 DEF Fits
<1>5. counter <= MaxSize /\ MaxSize \in Nat
  BY <1>1, <1>2, <1>3, Sizes DEF Bounded, MaxSize
<1> QED BY <1>1, <1>2, <1>4, <1>5

LEMMA SlotsFound ==
  ASSUME IdInv, SlotInv, NEW t \in Threads
  PROVE  /\ DOMAIN th[t] = DOMAIN Idle /\ FrameOK(th[t]) /\ StandsIn(th[t], counter)
         /\ SlotsOf(arr, length, counter) /\ Fits(size) /\ Fits(0)
         /\ counter \in Nat /\ counter = Len(heap) /\ counter <= MaxSize /\ DOMAIN heap = 1 .. counter
         /\ size \in Int /\ size <= counter /\ MaxSize \in Nat
<1>1. DOMAIN th[t] = DOMAIN Idle /\ FrameOK(th[t]) /\ StandsIn(th[t], counter)
  BY DEF IdInv, FramesOK, FrameOK, SlotInv
<1> QED BY <1>1, RoomFound

\* A smaller size leaves no less room.
LEMMA FitsBelow == ASSUME IdInv, SlotInv, NEW n \in Int, NEW m \in Int, n <= m, Fits(m) PROVE Fits(n)
<1>1. Cardinality(Adders) \in Nat /\ counter \in Nat
  BY FS_CardinalityType DEF SlotInv, IdInv, IdsDrawn
<1> QED BY <1>1 DEF Fits

LEMMA StartStands ==
  ASSUME NEW f, NEW n, NEW ref \in 1 .. n, DOMAIN f = DOMAIN Idle, StandsIn(f, n)
  PROVE  StandsIn(StartUser(f, ref), n) /\ ~Adding(StartUser(f, ref)) /\ StartUser(f, ref).pc # "grow"
         /\ ~Saving(StartUser(f, ref))
<1>1. PICK shown : StartUser(f, ref) = [f EXCEPT !.pc = "field", !.obj = ref, !.index = 1, !.shown = shown]
  BY DEF StartUser
<1> DEFINE g == StartUser(f, ref)
<1>2. g.pc = "field" /\ g.obj = ref /\ g.index = 1 /\ g.cursor = f.cursor
  BY <1>1 DEF Idle
<1> HIDE DEF g
<1>3. StandsIn(g, n) /\ ~Adding(g) /\ g.pc # "grow" /\ ~Saving(g)
  BY <1>2 DEF StandsIn, Adding, Saving
<1> QED BY <1>3 DEF g

LEMMA LoopSlots ==
  ASSUME IdInv, SlotInv, NEW t \in Threads, HasNext(t) \/ CheckModCount(t) \/ Fetch(t)
  PROVE  SlotInv'
<1>1. /\ DOMAIN th[t] = DOMAIN Idle /\ FrameOK(th[t]) /\ StandsIn(th[t], counter)
      /\ counter \in Nat /\ counter <= MaxSize /\ size \in Int /\ size <= counter /\ MaxSize \in Nat
  BY SlotsFound
<1>2. Settled /\ arr' = arr /\ length' = length /\ size' = size
  BY DEF HasNext, CheckModCount, Fetch, DataUnchanged, list, array, Settled
<1>3. SlotsOf(arr', length', counter) /\ Fits(size')
  BY <1>2, SlotsFound
<1>4. ASSUME NEW status, NEW users, Answer(t, status, users) PROVE SlotInv'
  BY <1>2, <1>3, <1>4, SlotAnswers
<1>5. ASSUME NEW f, th' = [th EXCEPT ![t] = f], ~Adding(f), Saving(f) => Saving(th[t]), f.pc # "grow",
             StandsIn(f, counter)
      PROVE  SlotInv'
  BY <1>2, <1>3, <1>5, SlotMoves
<1>6. CASE HasNext(t)
  <2>1. th[t].pc = "hasNext" /\ Runs(th[t])
    BY <1>1, <1>6 DEF HasNext, At, FrameOK
  <2>2. CASE Goto(t, "next")
    <3> DEFINE f == [th[t] EXCEPT !.pc = "next"]
    <3>1. th' = [th EXCEPT ![t] = f]
      BY <2>2 DEF Goto, Move
    <3>2. StandsIn(f, counter) /\ ~Adding(f) /\ f.pc # "grow" /\ (Saving(f) => Saving(th[t]))
      BY <1>1, <2>1 DEF StandsIn, Adding, Saving, Idle
    <3> HIDE DEF f
    <3> QED BY <1>5, <3>1, <3>2
  <2>3. CASE AfterLoop(t)
    <3>1. CASE th[t].loop = "findByName"
      <4> DEFINE f == [th[t] EXCEPT !.pc = "save"]
      <4>1. th' = [th EXCEPT ![t] = f]
        BY <2>3, <3>1 DEF AfterLoop, Goto, Move
      <4>2. StandsIn(f, counter) /\ ~Adding(f) /\ f.pc # "grow" /\ (Saving(f) => Saving(th[t]))
        BY <1>1, <2>1 DEF StandsIn, Adding, Saving, Idle
      <4> HIDE DEF f
      <4> QED BY <1>5, <4>1, <4>2
    <3>2. CASE th[t].loop \in {"findById", "deleteUserById"}
      <4>1. Answer(t, 404, <<>>) \/ Answer(t, 204, <<>>)
        BY <2>3, <3>2 DEF AfterLoop
      <4> QED BY <1>4, <4>1
    <3> QED BY <2>1, <3>1, <3>2 DEF Runs
  <2> QED BY <1>6, <2>2, <2>3 DEF HasNext
<1>7. CASE CheckModCount(t)
  <2>1. th[t].pc = "next"
    BY <1>7 DEF CheckModCount, At
  <2>2. CASE Goto(t, "fetch")
    <3> DEFINE f == [th[t] EXCEPT !.pc = "fetch"]
    <3>1. th' = [th EXCEPT ![t] = f]
      BY <2>2 DEF Goto, Move
    <3>2. StandsIn(f, counter) /\ ~Adding(f) /\ f.pc # "grow" /\ (Saving(f) => Saving(th[t]))
      BY <1>1, <2>1 DEF StandsIn, Adding, Saving, Idle
    <3> HIDE DEF f
    <3> QED BY <1>5, <3>1, <3>2
  <2> QED BY <1>4, <1>7, <2>2 DEF CheckModCount
<1>8. CASE Fetch(t)
  <2> DEFINE i == th[t].cursor
  <2>1. th[t].pc = "fetch" /\ Runs(th[t]) /\ i \in Nat
    BY <1>1, <1>8 DEF Fetch, At, FrameOK, StandsIn
  <2>2. CASE Answer(t, 500, <<>>)
    BY <1>4, <2>2
  <2>3. CASE Move(t, [th[t] EXCEPT !.pc = "hasNext", !.cursor = i + 1])
    <3> DEFINE f == [th[t] EXCEPT !.pc = "hasNext", !.cursor = i + 1]
    <3>1. th' = [th EXCEPT ![t] = f]
      BY <2>3 DEF Move
    <3>2. StandsIn(f, counter) /\ ~Adding(f) /\ f.pc # "grow" /\ (Saving(f) => Saving(th[t]))
      BY <1>1, <2>1 DEF StandsIn, Adding, Saving, Idle
    <3> HIDE DEF f
    <3> QED BY <1>5, <3>1, <3>2
  <2>4. CASE ~(i >= length \/ arr[i] = Null) /\ Found(t, arr[i])
    <3>1. arr[i] \in 1 .. counter
      <4>1. length \in Nat /\ DOMAIN arr = 0 .. length - 1 /\ \A j \in DOMAIN arr : arr[j] \in 0 .. counter
        BY SlotsFound DEF SlotsOf
      <4>2. arr[i] \in 0 .. counter
        BY <2>1, <2>4, <4>1
      <4> QED BY <1>1, <2>4, <4>2 DEF Null
    <3>2. CASE th[t].loop = "findByName"
      <4>1. Answer(t, 409, <<>>)
        BY <2>4, <3>2 DEF Found
      <4> QED BY <1>4, <4>1
    <3>6. CASE th[t].loop = "findById" /\ th[t].op = "getUser"
      <4> DEFINE f == StartUser(th[t], arr[i])
      <4>1. th' = [th EXCEPT ![t] = f]
        BY <2>4, <3>6 DEF Found, Move
      <4>2. StandsIn(f, counter) /\ ~Adding(f) /\ f.pc # "grow" /\ ~Saving(f)
        BY <1>1, <3>1, StartStands
      <4> HIDE DEF f
      <4> QED BY <1>5, <4>1, <4>2
    <3>3. CASE th[t].loop = "deleteUserById"
      <4> DEFINE f == [th[t] EXCEPT !.pc = "remove", !.cursor = @ + 1]
      <4>1. th' = [th EXCEPT ![t] = f]
        BY <2>4, <3>3 DEF Found, Move
      <4>2. StandsIn(f, counter) /\ ~Adding(f) /\ f.pc # "grow" /\ ~Saving(f)
        BY <1>1, <2>1 DEF StandsIn, Adding, Saving, Idle
      <4> HIDE DEF f
      <4> QED BY <1>5, <4>1, <4>2
    <3>4. CASE th[t].loop = "findById" /\ th[t].op = "deleteUser"
      <4> DEFINE f == [th[t] EXCEPT !.pc = "iterator"]
      <4>1. th' = [th EXCEPT ![t] = f]
        BY <2>4, <3>4 DEF Found, Goto, Move
      <4>2. StandsIn(f, counter) /\ ~Adding(f) /\ f.pc # "grow" /\ ~Saving(f)
        BY <1>1, <3>4 DEF StandsIn, Adding, Saving, Idle
      <4> HIDE DEF f
      <4> QED BY <1>5, <4>1, <4>2
    <3>5. CASE th[t].loop = "findById" /\ th[t].op = "updateUser"
      <4> DEFINE f == [th[t] EXCEPT !.pc = "set", !.obj = arr[i], !.index = 1]
      <4>1. th' = [th EXCEPT ![t] = f]
        BY <2>4, <3>5 DEF Found, Move
      <4>2. StandsIn(f, counter) /\ ~Adding(f) /\ f.pc # "grow" /\ ~Saving(f)
        BY <1>1, <3>1 DEF StandsIn, Adding, Saving, Idle
      <4> HIDE DEF f
      <4> QED BY <1>5, <4>1, <4>2
    <3> QED BY <2>1, <3>2, <3>3, <3>4, <3>5, <3>6 DEF Runs
  <2> QED BY <1>8, <2>2, <2>3, <2>4 DEF Fetch
<1> QED BY <1>6, <1>7, <1>8

\* The steps on the list between its loops.
LEMMA ListSlots ==
  ASSUME IdInv, SlotInv, NEW t \in Threads,
         \/ Iterator(t) \/ IteratorRemove(t) \/ Shrink(t)
         \/ Add(t) \/ Swap(t) \/ Refer(t) \/ Grow(t) \/ StoreNew(t) \/ IndexOf(t) \/ Store(t)
         \/ Clear(t) \/ Drop(t) \/ ListAll(t) \/ Render(t) \/ RenderElement(t) \/ RenderField(t)
  PROVE  SlotInv'
<1>1. /\ DOMAIN th[t] = DOMAIN Idle /\ FrameOK(th[t]) /\ StandsIn(th[t], counter)
      /\ counter \in Nat /\ counter <= MaxSize /\ size \in Int /\ size <= counter /\ MaxSize \in Nat
  BY SlotsFound
<1>2. Settled
  BY DEF Iterator, IteratorRemove, Shrink, Add, Swap, Refer, Grow, StoreNew, IndexOf, Store, Clear, Drop, ListAll,
         Render, RenderElement, RenderField, DataUnchanged, Settled
<1>3. SlotsOf(arr, length, counter) /\ Fits(size) /\ Fits(0)
  BY SlotsFound
<1>4. ASSUME NEW status, NEW users, Answer(t, status, users), SlotsOf(arr', length', counter), Fits(size')
      PROVE  SlotInv'
  BY <1>2, <1>4, SlotAnswers
<1>5. ASSUME NEW f, th' = [th EXCEPT ![t] = f], Adding(f) => Adding(th[t]), Saving(f) => Saving(th[t]),
             f.pc # "grow", StandsIn(f, counter), SlotsOf(arr', length', counter), Fits(size')
      PROVE  SlotInv'
  BY <1>2, <1>5, SlotMoves
<1>6. CASE IteratorRemove(t)
  <2> DEFINE last == th[t].cursor - 1
             f == [th[t] EXCEPT !.pc = "shrink"]
  <2>1. th[t].pc = "remove" /\ size' = size /\ length' = length /\ last \in Nat
    BY <1>1, <1>6 DEF IteratorRemove, At, ListUnchanged, list, array, StandsIn
  <2>2. CASE Answer(t, 500, <<>>) /\ arr' = arr /\ length' = length
    BY <1>3, <1>4, <2>1, <2>2
  <2>3. CASE /\ size <= length
             /\ arr' = [i \in DOMAIN arr |-> IF i \in last .. size - 2 THEN arr[i + 1] ELSE arr[i]]
             /\ th' = [th EXCEPT ![t] = f]
    <3>1. StandsIn(f, counter) /\ ~Adding(f) /\ f.pc # "grow" /\ ~Saving(f)
      BY <1>1, <2>1 DEF StandsIn, Adding, Saving, Idle
    <3> HIDE DEF f, last
    <3>2. SlotsOf(arr', length', counter)
      <4>1. length \in Nat /\ DOMAIN arr = 0 .. length - 1 /\ \A i \in DOMAIN arr : arr[i] \in 0 .. counter
        BY <1>3 DEF SlotsOf
      <4>2. size <= length
        BY <2>3
      <4>3. \A i \in DOMAIN arr : (IF i \in last .. size - 2 THEN arr[i + 1] ELSE arr[i]) \in 0 .. counter
        BY <1>1, <2>1, <4>1, <4>2
      <4> QED BY <2>1, <2>3, <4>1, <4>3 DEF SlotsOf
    <3> QED BY <1>3, <1>5, <2>1, <2>3, <3>1, <3>2
  <2>4. size \in Int /\ length \in Int
    BY <1>1, <1>3 DEF SlotsOf
  <2> QED BY <1>6, <2>2, <2>3, <2>4 DEF IteratorRemove, ListUnchanged, list, array, Goto, Move
<1>7. CASE Shrink(t)
  <2> DEFINE f == [th[t] EXCEPT !.pc = "hasNext", !.cursor = @ - 1, !.expected = modCount]
  <2>1. th[t].pc = "shrink" /\ size' = size - 1 /\ length' = length /\ th[t].op = "deleteUser" /\ th[t].cursor - 1 \in Nat
    BY <1>1, <1>7 DEF Shrink, At, FrameOK, StandsIn
  <2>2. Fits(size')
    BY <1>1, <1>3, <2>1, FitsBelow
  <2>3. CASE Answer(t, 500, <<>>) /\ arr' = arr /\ length' = length
    BY <1>3, <1>4, <2>2, <2>3
  <2>4. CASE arr' = [arr EXCEPT ![size'] = Null] /\ th' = [th EXCEPT ![t] = f]
    <3>0. f.pc = "hasNext" /\ f.op = "deleteUser" /\ f.cursor = th[t].cursor - 1 /\ f.index = th[t].index
      BY <1>1, <2>1 DEF Idle
    <3> HIDE DEF f
    <3>1. StandsIn(f, counter) /\ ~Adding(f) /\ f.pc # "grow" /\ ~Saving(f)
      BY <1>1, <2>1, <3>0 DEF StandsIn, Adding, Saving
    <3>2. SlotsOf(arr', length', counter)
      BY <1>1, <1>3, <2>1, <2>4 DEF SlotsOf, Null
    <3> QED BY <1>5, <2>2, <2>4, <3>1, <3>2
  <2> QED BY <1>7, <2>3, <2>4 DEF Shrink, Move
<1>8. CASE Grow(t)
  <2> DEFINE f == [th[t] EXCEPT !.pc = "append"]
  <2>1. th[t].pc = "grow" /\ size' = th[t].index + 1 /\ arr' = arr /\ length' = length /\ th' = [th EXCEPT ![t] = f]
    BY <1>8 DEF Grow, At, array, Goto, Move
  <2>2. Fits(size')
    BY <2>1 DEF SlotInv
  <2>4. StandsIn(f, counter) /\ ~Adding(f) /\ f.pc # "grow" /\ ~Saving(f)
    BY <1>1, <2>1 DEF StandsIn, Adding, Saving, Idle
  <2> HIDE DEF f
  <2> QED BY <1>3, <1>5, <2>1, <2>2, <2>4
<1>9. CASE StoreNew(t)
  <2>1. th[t].pc = "append" /\ size' = size /\ length' = length
    BY <1>9 DEF StoreNew, At
  <2>2. CASE Answer(t, 500, <<>>) /\ arr' = arr /\ length' = length
    BY <1>3, <1>4, <2>1, <2>2
  <2>4. CASE Answer(t, 201, <<>>) /\ arr' = arr /\ length' = length
    BY <1>3, <1>4, <2>1, <2>4
  <2>3. CASE Answer(t, 201, <<>>) /\ arr' = [arr EXCEPT ![th[t].index] = th[t].obj]
    <3>1. th[t].obj \in 1 .. counter
      BY <2>1, SlotsFound DEF IdInv, HeldIdsFresh, Holds
    <3>2. SlotsOf(arr', length', counter)
      BY <1>1, <1>3, <2>1, <2>3, <3>1 DEF SlotsOf
    <3> QED BY <1>3, <1>4, <2>1, <2>3, <3>2
  <2> QED BY <1>9, <2>1, <2>2, <2>3, <2>4 DEF StoreNew
<1>10. CASE IndexOf(t)
  <2>1. th[t].pc = "indexOf" /\ arr' = arr /\ length' = length /\ size' = size
    BY <1>10 DEF IndexOf, At, DataUnchanged, list, array
  <2>0. CASE Answer(t, 500, <<>>)
    BY <1>3, <1>4, <2>0, <2>1
  <2>5. CASE \E f \in {[th[t] EXCEPT !.pc = "store", !.index = -1], [th[t] EXCEPT !.pc = "store"],
                       [th[t] EXCEPT !.index = th[t].index + 1]} : th' = [th EXCEPT ![t] = f]
   <3> SUFFICES ASSUME NEW f \in {[th[t] EXCEPT !.pc = "store", !.index = -1], [th[t] EXCEPT !.pc = "store"],
                                  [th[t] EXCEPT !.index = th[t].index + 1]}, th' = [th EXCEPT ![t] = f]
                PROVE  SlotInv'
     BY <2>5
   <3>3. /\ f.cursor = th[t].cursor /\ f.obj = th[t].obj
        /\ \/ f.pc = "store" /\ (f.index = -1 \/ f.index = th[t].index)
           \/ f.pc = "indexOf" /\ f.index = th[t].index + 1
     BY <1>1, <2>1 DEF Idle
   <3>4. StandsIn(f, counter) /\ ~Adding(f) /\ f.pc # "grow" /\ ~Saving(f)
     BY <1>1, <2>1, <3>3 DEF StandsIn, Adding, Saving
   <3> QED BY <1>3, <1>5, <2>1, <3>4
  <2> QED BY <1>10, <2>0, <2>5 DEF IndexOf, Move
<1>11. CASE Store(t)
  <2>1. th[t].pc = "store" /\ size' = size /\ length' = length
    BY <1>11 DEF Store, At
  <2>2. CASE Answer(t, 500, <<>>) /\ arr' = arr /\ length' = length
    BY <1>3, <1>4, <2>1, <2>2
  <2>3. CASE Answer(t, 200, <<>>) /\ arr' = [arr EXCEPT ![th[t].index] = th[t].obj]
    <3>1. th[t].obj \in 1 .. counter
      BY <1>1, <2>1 DEF StandsIn
    <3>2. SlotsOf(arr', length', counter)
      BY <1>1, <1>3, <2>1, <2>3, <3>1 DEF SlotsOf
    <3> QED BY <1>3, <1>4, <2>1, <2>3, <3>2
  <2> QED BY <1>11, <2>1, <2>2, <2>3 DEF Store
<1>12. CASE Clear(t)
  <2> DEFINE f == [th[t] EXCEPT !.pc = "drop"]
  <2>1. th[t].pc = "clear" /\ size' = size /\ arr' = arr /\ length' = length /\ th' = [th EXCEPT ![t] = f]
    BY <1>12 DEF Clear, At, array, Goto, Move
  <2>2. StandsIn(f, counter) /\ ~Adding(f) /\ f.pc # "grow" /\ ~Saving(f)
    BY <1>1, <2>1 DEF StandsIn, Adding, Saving, Idle
  <2> HIDE DEF f
  <2> QED BY <1>3, <1>5, <2>1, <2>2
<1>13. CASE Drop(t)
  <2> DEFINE f == [th[t] EXCEPT !.index = th[t].index + 1]
  <2>1. th[t].pc = "drop" /\ length' = length
    BY <1>13 DEF Drop, At
  <2>4. CASE Answer(t, 500, <<>>) /\ arr' = arr /\ size' = size
    BY <1>3, <1>4, <2>1, <2>4
  <2>2. CASE Answer(t, 204, <<>>) /\ arr' = arr /\ size' = 0
    BY <1>3, <1>4, <2>1, <2>2
  <2>3. CASE arr' = [arr EXCEPT ![th[t].index] = Null] /\ size' = size /\ th' = [th EXCEPT ![t] = f]
    <3>1. StandsIn(f, counter) /\ ~Adding(f) /\ f.pc # "grow" /\ ~Saving(f)
      BY <1>1, <2>1 DEF StandsIn, Adding, Saving, Idle
    <3> HIDE DEF f
    <3>2. SlotsOf(arr', length', counter)
      BY <1>1, <1>3, <2>1, <2>3 DEF SlotsOf, Null
    <3> QED BY <1>3, <1>5, <2>1, <2>3, <3>1, <3>2
  <2> QED BY <1>13, <2>1, <2>2, <2>3, <2>4 DEF Drop, Move
<1>14. CASE ListAll(t)
  <2> DEFINE f == [th[t] EXCEPT !.pc = "render"]
  <2>1. th[t].pc = "isEmpty" /\ size' = size /\ arr' = arr /\ length' = length
    BY <1>14 DEF ListAll, At, DataUnchanged, list, array
  <2>2. StandsIn(f, counter) /\ ~Adding(f) /\ f.pc # "grow" /\ ~Saving(f)
    BY <1>1, <2>1 DEF StandsIn, Adding, Saving, Idle
  <2>3. Answer(t, 204, <<>>) \/ th' = [th EXCEPT ![t] = f]
    BY <1>14 DEF ListAll, Goto, Move
  <2> HIDE DEF f
  <2> QED BY <1>3, <1>4, <1>5, <2>1, <2>2, <2>3
<1>15. CASE Render(t)
  <2> DEFINE f == [th[t] EXCEPT !.pc = "element", !.expected = size]
  <2>1. th[t].pc = "render" /\ size' = size /\ arr' = arr /\ length' = length /\ th' = [th EXCEPT ![t] = f]
    BY <1>15 DEF Render, At, DataUnchanged, list, array, Move
  <2>2. StandsIn(f, counter) /\ ~Adding(f) /\ f.pc # "grow" /\ ~Saving(f)
    BY <1>1, <2>1 DEF StandsIn, Adding, Saving, Idle
  <2> HIDE DEF f
  <2> QED BY <1>3, <1>5, <2>1, <2>2
<1>16. CASE RenderElement(t)
  <2>1. th[t].pc = "element" /\ size' = size /\ arr' = arr /\ length' = length
    BY <1>16 DEF RenderElement, At, DataUnchanged, list, array
  <2>2. CASE Answer(t, 200, th[t].shown) \/ Answer(t, 500, <<>>)
    BY <1>3, <1>4, <2>1, <2>2
  <2>3. CASE \E shown : th' = [th EXCEPT ![t] = [th[t] EXCEPT !.cursor = th[t].cursor + 1, !.shown = shown]]
    <3>1. PICK shown : th' = [th EXCEPT ![t] = [th[t] EXCEPT !.cursor = th[t].cursor + 1, !.shown = shown]]
      BY <2>3
    <3> DEFINE f == [th[t] EXCEPT !.cursor = th[t].cursor + 1, !.shown = shown]
    <3>2. StandsIn(f, counter) /\ ~Adding(f) /\ f.pc # "grow" /\ ~Saving(f)
      BY <1>1, <2>1 DEF StandsIn, Adding, Saving, Idle
    <3>3. th' = [th EXCEPT ![t] = f]
      BY <3>1
    <3> HIDE DEF f
    <3> QED BY <1>3, <1>5, <2>1, <3>2, <3>3
  <2>4. CASE ~(th[t].cursor >= length \/ arr[th[t].cursor] = Null)
             /\ th' = [th EXCEPT ![t] = StartUser([th[t] EXCEPT !.cursor = th[t].cursor + 1], arr[th[t].cursor])]
    <3> DEFINE ref == arr[th[t].cursor]
               g == [th[t] EXCEPT !.cursor = th[t].cursor + 1]
               f == StartUser(g, ref)
    <3>1. ref \in 1 .. counter
      <4>1. length \in Nat /\ DOMAIN arr = 0 .. length - 1 /\ \A j \in DOMAIN arr : arr[j] \in 0 .. counter
        BY SlotsFound DEF SlotsOf
      <4>2. arr[th[t].cursor] \in 0 .. counter
        BY <1>1, <2>4, <4>1 DEF StandsIn
      <4> QED BY <1>1, <2>4, <4>2 DEF Null
    <3>2. StandsIn(g, counter) /\ DOMAIN g = DOMAIN Idle
      BY <1>1, <2>1 DEF StandsIn, Idle
    <3>3. th' = [th EXCEPT ![t] = f]
      BY <2>4
    <3> HIDE DEF g, ref
    <3>4. StandsIn(f, counter) /\ ~Adding(f) /\ f.pc # "grow" /\ ~Saving(f)
      BY <3>1, <3>2, StartStands
    <3> HIDE DEF f
    <3> QED BY <1>3, <1>5, <2>1, <3>3, <3>4
  <2> QED BY <1>16, <2>2, <2>3, <2>4 DEF RenderElement, Move
<1>17. CASE Iterator(t)
  <2> DEFINE f == [th[t] EXCEPT !.pc = "hasNext", !.loop = "deleteUserById", !.cursor = 0,
                                !.expected = modCount, !.index = 0]
  <2>1. th[t].pc = "iterator" /\ th[t].op = "deleteUser" /\ size' = size /\ arr' = arr /\ length' = length
        /\ th' = [th EXCEPT ![t] = f]
    BY <1>1, <1>17 DEF Iterator, At, DataUnchanged, list, array, Loop, Move, FrameOK
  <2>2. StandsIn(f, counter) /\ ~Adding(f) /\ f.pc # "grow" /\ ~Saving(f)
    BY <1>1, <2>1 DEF StandsIn, Adding, Saving, Idle
  <2> HIDE DEF f
  <2> QED BY <1>3, <1>5, <2>1, <2>2
<1>18. CASE Add(t)
  <2>1. th[t].pc = "add" /\ Adding(th[t]) /\ size' = size /\ arr' = arr /\ length' = length
    BY <1>18 DEF Add, At, array, Adding
  <2>2. CASE th' = [th EXCEPT ![t] = [th[t] EXCEPT !.pc = "refer"]]
    <3> DEFINE f == [th[t] EXCEPT !.pc = "refer"]
    <3>1. StandsIn(f, counter) /\ f.pc # "grow" /\ ~Saving(f)
      BY <1>1, <2>1 DEF StandsIn, Saving, Idle
    <3>2. th' = [th EXCEPT ![t] = f]
      BY <2>2
    <3> HIDE DEF f
    <3> QED BY <1>3, <1>5, <2>1, <3>1, <3>2
  <2>3. CASE /\ size + 1 > length
             /\ th' = [th EXCEPT ![t] = [th[t] EXCEPT !.pc = "swap", !.room = GrownTo(size + 1),
                                                      !.copy = CopyOf(GrownTo(size + 1))]]
    <3> DEFINE room == GrownTo(size + 1)
               copy == CopyOf(room)
               f == [th[t] EXCEPT !.pc = "swap", !.room = room, !.copy = copy]
    <3>1. length \in Nat /\ DOMAIN arr = 0 .. length - 1 /\ \A j \in DOMAIN arr : arr[j] \in 0 .. counter
      BY <1>3 DEF SlotsOf
    <3>2. room \in Nat
      BY <1>1, <2>3, <3>1 DEF GrownTo
    <3>3. copy = [i \in 0 .. room - 1 |-> IF i < length THEN arr[i] ELSE Null]
      BY DEF CopyOf
    <3>4. th' = [th EXCEPT ![t] = f]
      BY <2>3
    <3> HIDE DEF room
    <3>5. SlotsOf(copy, room, counter)
      <4>1. \A i \in 0 .. room - 1 : (IF i < length THEN arr[i] ELSE Null) \in 0 .. counter
        BY <1>1, <3>1, <3>2 DEF Null
      <4> QED BY <3>2, <3>3, <4>1 DEF SlotsOf
    <3> HIDE DEF copy
    <3>6. f.pc = "swap" /\ f.copy = copy /\ f.room = room /\ f.cursor = th[t].cursor /\ f.index = th[t].index
      BY <1>1 DEF Idle
    <3> HIDE DEF f
    <3>7. StandsIn(f, counter) /\ f.pc # "grow" /\ ~Saving(f)
      BY <1>1, <3>5, <3>6 DEF StandsIn, Saving
    <3> QED BY <1>3, <1>5, <2>1, <3>4, <3>7
  <2>4. size \in Int /\ length \in Nat
    BY <1>1, <1>3 DEF SlotsOf
  <2> QED BY <1>18, <2>2, <2>3, <2>4 DEF Add, Goto, Move
<1>19. CASE Swap(t)
  <2> DEFINE f == [th[t] EXCEPT !.pc = "refer", !.copy = <<>>]
  <2>1. th[t].pc = "swap" /\ Adding(th[t]) /\ size' = size /\ arr' = th[t].copy /\ length' = th[t].room
        /\ th' = [th EXCEPT ![t] = f]
    BY <1>19 DEF Swap, At, Move, Adding
  <2>2. StandsIn(f, counter) /\ f.pc # "grow" /\ ~Saving(f)
    BY <1>1, <2>1 DEF StandsIn, Saving, Idle
  <2>3. SlotsOf(arr', length', counter)
    BY <1>1, <2>1 DEF StandsIn
  <2> HIDE DEF f
  <2> QED BY <1>3, <1>5, <2>1, <2>2, <2>3
<1>20. CASE Refer(t)
  <2> DEFINE f == [th[t] EXCEPT !.pc = "reserve", !.into = copies, !.room = length]
  <2>1. th[t].pc = "refer" /\ Adding(th[t]) /\ size' = size /\ arr' = arr /\ length' = length
        /\ th' = [th EXCEPT ![t] = f]
    BY <1>20 DEF Refer, At, DataUnchanged, list, array, Move, Adding
  <2>2. StandsIn(f, counter) /\ f.pc # "grow" /\ ~Saving(f)
    BY <1>1, <2>1 DEF StandsIn, Saving, Idle
  <2> HIDE DEF f
  <2> QED BY <1>3, <1>5, <2>1, <2>2
<1>21. CASE RenderField(t)
  <2>1. th[t].pc = "field" /\ size' = size /\ arr' = arr /\ length' = length
    BY <1>21 DEF RenderField, At, DataUnchanged, list, array
  <2>2. CASE \E users : Answer(t, 200, users)
    BY <1>3, <1>4, <2>1, <2>2
  <2>3. CASE \E users : th' = [th EXCEPT ![t] = [th[t] EXCEPT !.index = th[t].index + 1, !.shown = users]]
    <3>1. PICK users : th' = [th EXCEPT ![t] = [th[t] EXCEPT !.index = th[t].index + 1, !.shown = users]]
      BY <2>3
    <3> DEFINE f == [th[t] EXCEPT !.index = th[t].index + 1, !.shown = users]
    <3>2. f.pc = "field" /\ f.index = th[t].index + 1 /\ f.cursor = th[t].cursor /\ f.obj = th[t].obj
      BY <1>1, <2>1 DEF Idle
    <3>3. th' = [th EXCEPT ![t] = f]
      BY <3>1
    <3> HIDE DEF f
    <3>4. StandsIn(f, counter) /\ ~Adding(f) /\ f.pc # "grow" /\ ~Saving(f)
      BY <1>1, <2>1, <3>2 DEF StandsIn, Adding, Saving
    <3> QED BY <1>3, <1>5, <2>1, <3>3, <3>4
  <2>4. CASE \E users : th' = [th EXCEPT ![t] = [th[t] EXCEPT !.pc = "element", !.shown = users]]
    <3>1. PICK users : th' = [th EXCEPT ![t] = [th[t] EXCEPT !.pc = "element", !.shown = users]]
      BY <2>4
    <3> DEFINE f == [th[t] EXCEPT !.pc = "element", !.shown = users]
    <3>2. f.pc = "element" /\ f.index = th[t].index /\ f.cursor = th[t].cursor
      BY <1>1, <2>1 DEF Idle
    <3>3. th' = [th EXCEPT ![t] = f]
      BY <3>1
    <3> HIDE DEF f
    <3>4. StandsIn(f, counter) /\ ~Adding(f) /\ f.pc # "grow" /\ ~Saving(f)
      BY <1>1, <2>1, <3>2 DEF StandsIn, Adding, Saving
    <3> QED BY <1>3, <1>5, <2>1, <3>3, <3>4
  <2> QED BY <1>21, <2>2, <2>3, <2>4 DEF RenderField, Move
<1> QED BY <1>6, <1>7, <1>8, <1>9, <1>10, <1>11, <1>12, <1>13, <1>14, <1>15, <1>16, <1>17, <1>18, <1>19, <1>20, <1>21

LEMMA SetFieldSlots == ASSUME IdInv, SlotInv, NEW t \in Threads, SetField(t) PROVE SlotInv'
<1>1. /\ DOMAIN th[t] = DOMAIN Idle /\ StandsIn(th[t], counter) /\ SlotsOf(arr, length, counter) /\ Fits(size)
      /\ heap \in Seq(Stored)
  BY SlotsFound DEF IdInv, IdsDrawn
<1>2. th[t].pc = "set" /\ arr' = arr /\ length' = length /\ size' = size /\ UNCHANGED <<counter, requests>>
  BY DEF SetField, At, ListUnchanged, list, array
<1>3. Len(heap') = Len(heap)
  <2>1. \E v : heap' = [heap EXCEPT ![th[t].obj] = v]
    BY DEF SetField
  <2> QED BY <1>1, <2>1
<1>4. PICK f \in {[th[t] EXCEPT !.index = th[t].index + 1], [th[t] EXCEPT !.pc = "indexOf", !.index = 0]} :
        th' = [th EXCEPT ![t] = f]
  BY DEF SetField, Move
<1>5. /\ f.cursor = th[t].cursor /\ f.obj = th[t].obj
      /\ \/ f.pc = "set" /\ f.index = th[t].index + 1
         \/ f.pc = "indexOf" /\ f.index = 0
  BY <1>1, <1>2, <1>4 DEF Idle
<1>6. StandsIn(f, counter) /\ ~Adding(f) /\ f.pc # "grow" /\ ~Saving(f)
  BY <1>1, <1>2, <1>5 DEF StandsIn, Adding, Saving
<1> QED BY <1>1, <1>2, <1>3, <1>4, <1>6, SlotMoves DEF Settled

\* A thread that has read size no longer waits for a slot: it has one.
LEMMA ReserveSlots == ASSUME IdInv, SlotInv, NEW t \in Threads, Reserve(t) PROVE SlotInv'
<1> DEFINE f == [th[t] EXCEPT !.pc = "grow", !.index = size]
<1>1. /\ DOMAIN th[t] = DOMAIN Idle /\ StandsIn(th[t], counter) /\ SlotsOf(arr, length, counter)
      /\ size \in Int /\ counter \in Nat
  BY SlotsFound
<1>2. th[t].pc = "reserve" /\ UNCHANGED <<heap, arr, length, size, counter, requests>> /\ th' = [th EXCEPT ![t] = f]
  BY DEF Reserve, At, DataUnchanged, list, array, Move
<1>3. StandsIn(f, counter) /\ ~Adding(f) /\ ~Saving(f) /\ f.index = size
  BY <1>1, <1>2 DEF StandsIn, Adding, Saving, Idle
<1> HIDE DEF f
<1>4. \A u \in Threads : th'[u] = IF u = t THEN f ELSE th[u]
  BY <1>2 DEF IdInv, FramesOK
<1>5. Adders' \subseteq Adders /\ t \in Adders \ Adders' /\ Savers' \subseteq Savers
  BY <1>2, <1>3, <1>4 DEF Adders, Savers, Adding
<1>6. IsFiniteSet(Adders') /\ Cardinality(Adders') + 1 <= Cardinality(Adders)
      /\ Cardinality(Adders') \in Nat /\ Cardinality(Adders) \in Nat
  BY <1>5, OneMore DEF SlotInv
<1>7. IsFiniteSet(Savers') /\ Cardinality(Savers') <= Cardinality(Savers)
      /\ Cardinality(Savers') \in Nat /\ Cardinality(Savers) \in Nat
  BY <1>5, OneMore DEF SlotInv, Bounded
<1>8. Bounded'
  BY <1>1, <1>2, <1>7, Sizes DEF SlotInv, Bounded
<1>9. \A n : Fits(n) => n \in Int /\ n + 1 + Cardinality(Adders') <= counter'
  BY <1>1, <1>2, <1>6 DEF Fits
<1>10. \A n : Fits(n) => n \in Int /\ n + Cardinality(Adders') <= counter'
  BY <1>1, <1>2, <1>6 DEF Fits
<1>11. (Fits(0))' /\ (Fits(size))'
  BY <1>2, <1>10 DEF SlotInv, Fits
<1>12. \A u \in Threads : StandsIn(th'[u], counter')
  BY <1>2, <1>3, <1>4 DEF SlotInv
<1>13. \A u \in Threads : th'[u].pc = "grow" => (Fits(th[u].index + 1))'
  <2> SUFFICES ASSUME NEW u \in Threads, th'[u].pc = "grow" PROVE (Fits(th[u].index + 1))'
    OBVIOUS
  <2>1. CASE u = t
    <3>1. Fits(size) /\ th'[u].index = size
      BY <1>3, <1>4, <2>1 DEF SlotInv
    <3>2. size + 1 \in Int /\ size + 1 + Cardinality(Adders') <= counter'
      BY <1>1, <1>9, <3>1
    <3> QED BY <3>1, <3>2 DEF Fits
  <2>2. CASE u # t
    <3>1. th'[u] = th[u]
      BY <1>4, <2>2
    <3>2. Fits(th[u].index + 1)
      BY <3>1 DEF SlotInv
    <3> QED BY <1>10, <3>1, <3>2 DEF Fits
  <2> QED BY <2>1, <2>2
<1> QED BY <1>1, <1>2, <1>6, <1>8, <1>11, <1>12, <1>13 DEF SlotInv, SlotsOf

\* A user is created: the thread that will add it takes one place more.
LEMMA SaveSlots == ASSUME IdInv, SlotInv, NEW t \in Threads, Save(t) PROVE SlotInv'
<1> DEFINE f == [th[t] EXCEPT !.pc = "add", !.obj = Len(heap')]
<1>1. /\ DOMAIN th[t] = DOMAIN Idle /\ StandsIn(th[t], counter) /\ SlotsOf(arr, length, counter)
      /\ size \in Int /\ counter \in Nat /\ counter = Len(heap) /\ heap \in Seq(Stored) /\ FrameOK(th[t])
  BY SlotsFound DEF IdInv, IdsDrawn
<1>2. th[t].pc = "save" /\ UNCHANGED <<arr, length, size, requests>> /\ counter' = counter + 1
      /\ th' = [th EXCEPT ![t] = f]
  BY DEF Save, At, Move, ListUnchanged, list, array
<1>3. Len(heap') = counter'
  <2>1. \E user : heap' = Append(heap, user)
    BY DEF Save
  <2> QED BY <1>1, <1>2, <2>1
<1>4. StandsIn(f, counter) /\ ~Saving(f) /\ f.pc # "grow"
  BY <1>1, <1>2 DEF StandsIn, Saving, Idle
<1>5. Saving(th[t])
  BY <1>1, <1>2 DEF Saving, FrameOK
<1> HIDE DEF f
<1>6. \A u \in Threads : th'[u] = IF u = t THEN f ELSE th[u]
  BY <1>2 DEF IdInv, FramesOK
<1>7. Adders' \subseteq Adders \cup {t} /\ Savers' \subseteq Savers /\ t \in Savers \ Savers'
  BY <1>4, <1>5, <1>6 DEF Adders, Savers
<1>8. IsFiniteSet(Adders') /\ Cardinality(Adders') <= Cardinality(Adders) + 1
      /\ Cardinality(Adders') \in Nat /\ Cardinality(Adders) \in Nat
  BY <1>7, OneMore DEF SlotInv
<1>9. IsFiniteSet(Savers') /\ Cardinality(Savers') + 1 <= Cardinality(Savers)
      /\ Cardinality(Savers') \in Nat /\ Cardinality(Savers) \in Nat
  BY <1>7, OneMore DEF SlotInv, Bounded
<1>10. Bounded'
  BY <1>1, <1>2, <1>3, <1>9, Sizes DEF SlotInv, Bounded
<1>11. \A n : Fits(n) => n \in Int /\ n + Cardinality(Adders') <= counter'
  BY <1>1, <1>2, <1>8 DEF Fits
<1>12. (Fits(0))' /\ (Fits(size))'
  BY <1>2, <1>11 DEF SlotInv, Fits
<1>13. \A u \in Threads : StandsIn(th'[u], counter')
  <2>1. \A u \in Threads : StandsIn(th'[u], counter)
    BY <1>4, <1>6 DEF SlotInv
  <2>2. counter' \in Nat /\ counter <= counter'
    BY <1>1, <1>2
  <2> QED BY <1>1, <2>1, <2>2, StandsLater
<1>14. \A u \in Threads : th'[u].pc = "grow" => (Fits(th[u].index + 1))'
  <2> SUFFICES ASSUME NEW u \in Threads, th'[u].pc = "grow" PROVE (Fits(th[u].index + 1))'
    OBVIOUS
  <2>1. th'[u] = th[u]
    BY <1>4, <1>6
  <2>2. Fits(th[u].index + 1)
    BY <2>1 DEF SlotInv
  <2> QED BY <1>11, <2>1, <2>2 DEF Fits
<1>15. SlotsOf(arr', length', counter')
  <2>1. \A n \in 0 .. counter : n \in 0 .. counter'
    BY <1>1, <1>2
  <2> QED BY <1>1, <1>2, <2>1 DEF SlotsOf
<1> QED BY <1>8, <1>10, <1>12, <1>13, <1>14, <1>15 DEF SlotInv, SlotsOf

\* A request changes its own frame, and of the others only what overlaps them.
LEMMA RequestFrames ==
  ASSUME IdInv, NEW t \in Threads, Request(t)
  PROVE  /\ \A u \in Threads \ {t} :
              /\ th'[u].pc = th[u].pc /\ th'[u].op = th[u].op /\ th'[u].cursor = th[u].cursor
              /\ th'[u].index = th[u].index /\ th'[u].obj = th[u].obj
              /\ th'[u].copy = th[u].copy /\ th'[u].room = th[u].room
         /\ th'[t].pc \in {"hasNext", "clear", "isEmpty"} /\ th'[t].cursor = 0 /\ th'[t].index = 0
<1> DEFINE busy == {u \in Threads \ {t} : Active(u)}
<1> DEFINE frame(op, id, body) ==
      [Idle EXCEPT !.op = op, !.id = id, !.body = body, !.loop = FirstLoop(op),
                   !.pc = IF op \in {"deleteAllUsers", "listAllUsers"} THEN FirstLoop(op) ELSE "hasNext",
                   !.expected = modCount, !.overlapped = \E v \in busy : Writing(v)]
<1>1. PICK op \in Duties[t] :
        \E id \in IF op \in {"getUser", "updateUser", "deleteUser"} THEN Ids ELSE {0} :
          \E body \in IF op \in {"createUser", "updateUser"} THEN Bodies ELSE {NoBody} :
            th' = [u \in Threads |->
              IF u = t THEN frame(op, id, body)
              ELSE IF u \in busy /\ op \in Writes THEN [th[u] EXCEPT !.overlapped = TRUE] ELSE th[u]]
  BY DEF Request
<1>2. PICK id \in IF op \in {"getUser", "updateUser", "deleteUser"} THEN Ids ELSE {0},
           body \in IF op \in {"createUser", "updateUser"} THEN Bodies ELSE {NoBody} :
             th' = [u \in Threads |->
               IF u = t THEN frame(op, id, body)
               ELSE IF u \in busy /\ op \in Writes THEN [th[u] EXCEPT !.overlapped = TRUE] ELSE th[u]]
  BY <1>1
<1>3. th'[t] = frame(op, id, body)
  BY <1>2
<1>4. frame(op, id, body).pc \in {"hasNext", "clear", "isEmpty"}
      /\ frame(op, id, body).cursor = 0 /\ frame(op, id, body).index = 0
  BY DEF Idle, FirstLoop
<1>5. ASSUME NEW u \in Threads \ {t}
      PROVE  /\ th'[u].pc = th[u].pc /\ th'[u].op = th[u].op /\ th'[u].cursor = th[u].cursor
             /\ th'[u].index = th[u].index /\ th'[u].obj = th[u].obj
             /\ th'[u].copy = th[u].copy /\ th'[u].room = th[u].room
  <2>1. th'[u] = th[u] \/ th'[u] = [th[u] EXCEPT !.overlapped = TRUE]
    BY <1>2
  <2>2. DOMAIN th[u] = DOMAIN Idle
    BY DEF IdInv, FramesOK, FrameOK
  <2> QED BY <2>1, <2>2 DEF Idle
<1> HIDE DEF frame, busy
<1> QED BY <1>3, <1>4, <1>5

\* The request that may create a user is counted before it starts.
LEMMA RequestSlots == ASSUME IdInv, SlotInv, NEW t \in Threads, Request(t) PROVE SlotInv'
<1>1. SlotsOf(arr, length, counter) /\ counter \in Nat
  BY SlotsFound
<1>2. UNCHANGED <<heap, arr, length, size, counter>> /\ requests < MaxRequests /\ requests' = requests + 1
  BY DEF Request, DataUnchanged, list, array
<1>3. \A u \in Threads \ {t} :
        /\ th'[u].pc = th[u].pc /\ th'[u].op = th[u].op /\ th'[u].cursor = th[u].cursor
        /\ th'[u].index = th[u].index /\ th'[u].obj = th[u].obj
        /\ th'[u].copy = th[u].copy /\ th'[u].room = th[u].room
  BY RequestFrames
<1>4. StandsIn(th'[t], counter) /\ ~Adding(th'[t]) /\ th'[t].pc # "grow"
  BY <1>1, RequestFrames DEF StandsIn, Adding
<1>5. Adders' \subseteq Adders /\ Savers' \subseteq Savers \cup {t}
  BY <1>3, <1>4 DEF Adders, Savers, Adding, Saving
<1>6. IsFiniteSet(Adders') /\ Cardinality(Adders') <= Cardinality(Adders)
      /\ Cardinality(Adders') \in Nat /\ Cardinality(Adders) \in Nat
  BY <1>5, OneMore DEF SlotInv
<1>7. IsFiniteSet(Savers') /\ Cardinality(Savers') <= Cardinality(Savers) + 1
      /\ Cardinality(Savers') \in Nat /\ Cardinality(Savers) \in Nat
  BY <1>5, OneMore DEF SlotInv, Bounded
<1>8. Bounded'
  BY <1>1, <1>2, <1>7, Sizes DEF SlotInv, Bounded
<1>9. \A n : Fits(n) => n \in Int /\ n + Cardinality(Adders') <= counter'
  BY <1>1, <1>2, <1>6 DEF Fits
<1>10. (Fits(0))' /\ (Fits(size))'
  BY <1>2, <1>9 DEF SlotInv, Fits
<1>11. \A u \in Threads : StandsIn(th'[u], counter')
  <2>1. \A u \in Threads \ {t} : StandsIn(th'[u], counter)
    BY <1>3 DEF SlotInv, StandsIn
  <2> QED BY <1>2, <1>4, <2>1
<1>12. \A u \in Threads : th'[u].pc = "grow" => (Fits(th[u].index + 1))'
  <2> SUFFICES ASSUME NEW u \in Threads, th'[u].pc = "grow" PROVE (Fits(th[u].index + 1))'
    OBVIOUS
  <2>1. u # t /\ th[u].pc = "grow" /\ th'[u].index = th[u].index
    BY <1>3, <1>4
  <2>2. Fits(th[u].index + 1)
    BY <2>1 DEF SlotInv
  <2> QED BY <1>9, <2>1, <2>2 DEF Fits
<1> QED BY <1>1, <1>2, <1>6, <1>8, <1>10, <1>11, <1>12 DEF SlotInv, SlotsOf

LEMMA StepSlots == ASSUME IdInv, SlotInv, [Next]_vars PROVE SlotInv'
<1>1. CASE Next
  <2>1. PICK t \in Threads : Request(t) \/ Work(t)
    BY <1>1 DEF Next
  <2> QED BY <2>1, RequestSlots, LoopSlots, ListSlots, SetFieldSlots, ReserveSlots, SaveSlots DEF Work
<1>2. CASE UNCHANGED vars
  BY <1>2 DEF vars, list, array, SlotInv, Bounded, Fits, SlotsOf, StandsIn, Adders, Savers
<1> QED BY <1>1, <1>2

LEMMA SlotsSound == ASSUME IdInv, SlotInv PROVE ReferencesSound
<1>1. /\ SlotsOf(arr, length, counter) /\ counter \in Nat /\ counter = Len(heap)
      /\ DOMAIN heap = 1 .. counter /\ size <= counter
  BY RoomFound
<1>2. Len(heap) <= Len(Dummies) + requests
  <2>1. Cardinality(Savers) \in Nat /\ requests \in Nat /\ Len(Dummies) \in Nat
        /\ counter + Cardinality(Savers) <= Len(Dummies) + requests
    BY FS_CardinalityType, Sizes DEF SlotInv, Bounded
  <2> QED BY <1>1, <2>1
<1>3. \A a, m : SlotsOf(a, m, counter) => \A i \in DOMAIN a : a[i] # Null => a[i] \in DOMAIN heap
  BY <1>1 DEF SlotsOf, Null
<1>4. ASSUME NEW t \in Threads
      PROVE  /\ th[t].pc = "swap" =>
                  \A i \in DOMAIN th[t].copy : th[t].copy[i] # Null => th[t].copy[i] \in DOMAIN heap
             /\ Holds(th[t]) \/ th[t].pc \in {"set", "indexOf", "store", "field"} => th[t].obj \in DOMAIN heap
  <2>1. StandsIn(th[t], counter)
    BY DEF SlotInv
  <2>2. Holds(th[t]) => th[t].obj \in DOMAIN heap
    BY DEF IdInv, HeldIdsFresh
  <2>3. th[t].pc \in {"set", "indexOf", "store", "field"} => th[t].obj \in DOMAIN heap
    BY <1>1, <2>1 DEF StandsIn
  <2>4. th[t].pc = "swap" => SlotsOf(th[t].copy, th[t].room, counter)
    BY <2>1 DEF StandsIn
  <2> QED BY <1>3, <2>2, <2>3, <2>4
<1> QED BY <1>1, <1>2, <1>3, <1>4 DEF ReferencesSound

\* The inductive invariant of the races: how many slots the threads that are
\* about to add still need, and how many users the requests under way may create.
THEOREM SlotsSafe == Spec => [](IdInv /\ SlotInv)
<1>1. Init => IdInv /\ SlotInv
  BY InitIds, InitSlots
<1>2. (IdInv /\ SlotInv) /\ [Next]_vars => (IdInv /\ SlotInv)'
  BY StepIds, StepSlots
<1> QED BY <1>1, <1>2, PTL DEF Spec

\* For any number of threads that create, update and delete as they like, also
\* when two of them replace the array at once: the list never shows more users
\* than were created, and no reference, in the list, in a copy of it or held by
\* a thread, leads nowhere.
THEOREM RacesKeepReferences == Spec => []ReferencesSound
<1>1. IdInv /\ SlotInv => ReferencesSound
  BY SlotsSound
<1> QED BY <1>1, SlotsSafe, PTL

(***************************************************************************)
(* The second part.  With at most one thread that writes, and any number   *)
(* that read, the unprotected list behaves as the abstract Registry, is    *)
(* whole whenever no write runs, and shows the truth to every reader that  *)
(* no write overlapped.  RegInv, below, is the inductive invariant.        *)
(***************************************************************************)
OneWriter == \A t, u \in Threads : Duties[t] \cap Writes # {} /\ Duties[u] \cap Writes # {} => t = u

Before == wrote.users
Most == Len(Dummies) + requests
Differing(users) == \A i, j \in DOMAIN users : users[i].id = users[j].id => i = j

\* Every user of the sequence is an object that the heap still shows so.
Kept(users) == \A i \in DOMAIN users : users[i].id \in DOMAIN heap /\ heap[users[i].id] = users[i]

\* The slots below n hold the users, all others hold nothing.
Slots(n, users) == \A i \in DOMAIN arr : arr[i] = IF i < n THEN users[i + 1].id ELSE Null

\* The list is exactly this sequence of users.
Lists(users) == size = Len(users) /\ Slots(size, users) /\ Kept(users)

\* The service's equalsIgnoreCase().
SameName(name, other) == name # NoName /\ CaseFold[other] = CaseFold[name]
NamesDiffer(f, n) == \A i \in 1 .. n : Before[i].username # NoName /\ ~SameName(f.body.username, Before[i].username)
IdsDiffer(f, n) == \A i \in 1 .. n : Before[i].id # f.id

\* A for-each loop that no change of the list disturbs.
Looping(f) ==
  /\ f.pc \in {"hasNext", "next", "fetch"}
  /\ f.expected = modCount
  /\ f.cursor \in 0 .. size
  /\ f.pc # "hasNext" => f.cursor < size

(***************************************************************************)
(* Where a write is, by operation: what it knows of the list it found and  *)
(* what it has done to it so far.                                          *)
(***************************************************************************)
New(f) == f.obj = counter /\ heap[counter] = User(counter, f.body) /\ \A i \in DOMAIN Before : Before[i].id < counter

\* The longer copy that add() made holds what the list holds, and has room.
Copied(f) ==
  /\ f.room \in Nat /\ size < f.room /\ f.copy \in [0 .. f.room - 1 -> Nat]
  /\ \A i \in 0 .. f.room - 1 : f.copy[i] = IF i < size THEN Before[i + 1].id ELSE Null

\* The array that add() stores into is the list's.
Referred(f) == f.into = copies /\ f.room = length

Creating(f) ==
  /\ f.id = 0 /\ f.body \in Bodies /\ Len(Before) < Most
  /\ \/ Looping(f) /\ f.loop = "findByName" /\ Lists(Before) /\ NamesDiffer(f, f.cursor) /\ counter < Most
     \/ f.pc = "save" /\ Lists(Before) /\ NamesDiffer(f, Len(Before)) /\ counter < Most
     \/ f.pc = "add" /\ Lists(Before) /\ NamesDiffer(f, Len(Before)) /\ New(f)
     \/ f.pc = "swap" /\ Lists(Before) /\ NamesDiffer(f, Len(Before)) /\ New(f) /\ Copied(f)
     \/ f.pc = "refer" /\ Lists(Before) /\ NamesDiffer(f, Len(Before)) /\ New(f) /\ size < length
     \/ f.pc = "reserve" /\ Lists(Before) /\ NamesDiffer(f, Len(Before)) /\ New(f) /\ size < length /\ Referred(f)
     \/ /\ f.pc = "grow" /\ Lists(Before) /\ NamesDiffer(f, Len(Before)) /\ New(f)
        /\ f.index = size /\ size < length /\ Referred(f)
     \/ /\ f.pc = "append" /\ NamesDiffer(f, Len(Before)) /\ New(f) /\ Referred(f)
        /\ f.index = Len(Before) /\ size = Len(Before) + 1 /\ Slots(Len(Before), Before) /\ Kept(Before)

\* The loop of deleteUserById has taken user k out and goes on.
Removed(f) == \E k \in DOMAIN Before : Before[k].id = f.id /\ Lists(RemoveAt(Before, k))

Deleting(f) ==
  /\ f.id \in Ids /\ f.body = NoBody
  /\ \/ Looping(f) /\ f.loop = "findById" /\ Lists(Before) /\ IdsDiffer(f, f.cursor)
     \/ f.pc = "iterator" /\ Lists(Before) /\ f.id \in IdsIn(Before)
     \/ Looping(f) /\ f.loop = "deleteUserById" /\ Lists(Before) /\ IdsDiffer(f, f.cursor) /\ f.id \in IdsIn(Before)
     \/ Looping(f) /\ f.loop = "deleteUserById" /\ Removed(f)
     \/ /\ f.pc = "remove" /\ Lists(Before) /\ f.expected = modCount
        /\ f.cursor \in DOMAIN Before /\ Before[f.cursor].id = f.id
     \/ /\ f.pc = "shrink" /\ size = Len(Before) /\ Kept(Before)
        /\ f.cursor \in DOMAIN Before /\ Before[f.cursor].id = f.id
        /\ \A i \in DOMAIN arr : i # size - 1 =>
             arr[i] = IF i < f.cursor - 1 THEN Before[i + 1].id ELSE IF i < size THEN Before[i + 2].id ELSE Null

\* The object of the user is written in place; the others are as they were.
Editing(f) ==
  /\ f.obj = f.id /\ f.id \in DOMAIN heap /\ f.id \in IdsIn(Before)
  /\ size = Len(Before) /\ Slots(size, Before)
  /\ \A i \in DOMAIN Before :
       Before[i].id \in DOMAIN heap /\ (Before[i].id # f.id => heap[Before[i].id] = Before[i])

Updating(f) ==
  /\ f.id \in Ids /\ f.body \in Bodies
  /\ \/ Looping(f) /\ f.loop = "findById" /\ Lists(Before) /\ IdsDiffer(f, f.cursor)
     \/ /\ f.pc = "set" /\ Editing(f) /\ f.index \in 1 .. 3
        /\ f.index > 1 => heap[f.id].username = f.body.username
        /\ f.index > 2 => heap[f.id].address = f.body.address
     \/ /\ f.pc = "indexOf" /\ Editing(f) /\ heap[f.id] = User(f.id, f.body)
        /\ f.index \in 0 .. size /\ IdsDiffer(f, f.index)
     \/ /\ f.pc = "store" /\ Editing(f) /\ heap[f.id] = User(f.id, f.body)
        /\ f.index \in 0 .. size - 1 /\ Before[f.index + 1].id = f.id

Clearing(f) ==
  /\ f.id = 0 /\ f.body = NoBody
  /\ \/ f.pc = "clear" /\ Lists(Before) /\ f.index = 0
     \/ /\ f.pc = "drop" /\ size = Len(Before) /\ f.index \in 0 .. size
        /\ \A i \in DOMAIN arr : i < f.index \/ i >= size => arr[i] = Null

WritePhase(f) ==
  /\ f.op = "createUser" => Creating(f)
  /\ f.op = "deleteUser" => Deleting(f)
  /\ f.op = "updateUser" => Updating(f)
  /\ f.op = "deleteAllUsers" => Clearing(f)

(***************************************************************************)
(* Where a read is that no write overlapped.                               *)
(***************************************************************************)
Quiet(f) == f.op \in {"getUser", "listAllUsers"} /\ ~f.overlapped

\* The user as far as the JSON writer came: its first k - 1 fields.
Begun(user, k) ==
  [id |-> user.id, username |-> IF k > 1 THEN user.username ELSE NoName,
   address |-> IF k > 2 THEN user.address ELSE NoName, email |-> IF k > 3 THEN user.email ELSE NoName]

\* The writer is at user k of the list, behind the first n users.
Showing(f, n, k) ==
  /\ k \in DOMAIN Before /\ f.index \in 1 .. 3 /\ f.obj = Before[k].id
  /\ f.shown = Append([i \in 1 .. n |-> Before[i]], Begun(Before[k], f.index))

ReadPhase(f) ==
  /\ f.op = "getUser" =>
       \/ Looping(f) /\ f.loop = "findById" /\ IdsDiffer(f, f.cursor) /\ f.shown = <<>>
       \/ f.pc = "field" /\ \E k \in DOMAIN Before : Before[k].id = f.id /\ Showing(f, 0, k)
  /\ f.op = "listAllUsers" =>
       \/ f.pc = "isEmpty" /\ f.cursor = 0 /\ f.shown = <<>>
       \/ f.pc = "render" /\ size > 0 /\ f.cursor = 0 /\ f.shown = <<>>
       \/ /\ f.pc = "element" /\ size > 0 /\ f.expected = size
          /\ f.cursor \in 0 .. size /\ f.shown = [i \in 1 .. f.cursor |-> Before[i]]
       \/ /\ f.pc = "field" /\ size > 0 /\ f.expected = size
          /\ f.cursor \in 1 .. size /\ Showing(f, f.cursor - 1, f.cursor)

(***************************************************************************)
(* The inductive invariant.                                                *)
(***************************************************************************)
\* The operation of a thread goes with where it is.
PlaceOK(f) ==
  /\ f.pc = "idle" <=> f.op = "none"
  /\ f.pc \in {"set", "indexOf", "store"} => f.op = "updateUser"
  /\ f.pc \in {"clear", "drop"} => f.op = "deleteAllUsers"
  /\ f.pc \in {"isEmpty", "render", "element"} => f.op = "listAllUsers"
  /\ f.pc = "iterator" => f.op = "deleteUser"
  /\ f.pc = "field" => f.op \in {"getUser", "listAllUsers"}

Owned ==
  \A t \in Threads : th[t].op \in Duties[t] \cup {"none"} /\ PlaceOK(th[t])

Objects ==
  /\ heap \in Seq(Stored) /\ counter = Len(heap) /\ counter <= Most
  /\ \A i \in DOMAIN heap : heap[i].id = i
  /\ length \in Nat /\ arr \in [0 .. length - 1 -> Nat] /\ size \in 0 .. length
  /\ requests \in 0 .. MaxRequests

Registered == Objects /\ Before \in Seq(Stored) /\ Differing(Before) /\ Len(Before) <= Most

RegInv ==
  /\ Owned /\ Registered
  /\ NoWriter => Lists(Before)
  /\ \A t \in Threads : Writing(t) => WritePhase(th[t])
  /\ \A t \in Threads : Quiet(th[t]) => NoWriter /\ ReadPhase(th[t])

LEMMA SoleWriter == OneWriter /\ Owned => \A t, u \in Threads : Writing(t) /\ Writing(u) => t = u
<1> SUFFICES ASSUME OneWriter, Owned, NEW t \in Threads, NEW u \in Threads, Writing(t), Writing(u)
             PROVE  t = u
  OBVIOUS
<1>1. th[t].op \in Duties[t] \cap Writes /\ th[u].op \in Duties[u] \cap Writes
  BY DEF Owned, Writing, Writes
<1> QED BY <1>1 DEF OneWriter

\* What the list shows, before and after a step, while its slots are in order.
LEMMA ContentsListed ==
  ASSUME Objects, NEW V \in Seq(Stored), Lists(V)
  PROVE  Contents = V
<1>1. /\ length \in Nat /\ DOMAIN arr = 0 .. length - 1 /\ 0 \notin DOMAIN heap
      /\ DOMAIN V = 1 .. Len(V) /\ Len(V) \in Nat /\ Len(V) <= length
  BY DEF Objects, Lists
<1>2. ASSUME NEW i \in 1 .. Len(V) PROVE Shown(arr[i - 1]) = V[i]
  <2>1. i - 1 \in 0 .. length - 1 /\ i - 1 < Len(V) /\ (i - 1) + 1 = i
    BY <1>1
  <2>2. arr[i - 1] = V[i].id
    BY <1>1, <2>1 DEF Lists, Slots
  <2>3. V[i].id # Null /\ heap[V[i].id] = V[i]
    BY <1>1 DEF Null, Lists, Kept
  <2> QED BY <2>2, <2>3 DEF Shown
<1>3. Contents = [i \in 1 .. Len(V) |-> Shown(arr[i - 1])]
  <2>1. \A i \in 1 .. size : i <= length
    BY DEF Objects
  <2> QED BY <2>1 DEF Lists, Contents
<1>4. V = [i \in 1 .. Len(V) |-> V[i]]
  BY <1>1
<1> QED BY <1>2, <1>3, <1>4

LEMMA ContentsListedNext ==
  ASSUME Objects', NEW V \in Seq(Stored), Lists(V)'
  PROVE  Contents' = V
<1>1. /\ length' \in Nat /\ DOMAIN arr' = 0 .. length' - 1 /\ 0 \notin DOMAIN heap'
      /\ DOMAIN V = 1 .. Len(V) /\ Len(V) \in Nat /\ Len(V) <= length'
  BY DEF Objects, Lists
<1>2. ASSUME NEW i \in 1 .. Len(V) PROVE Shown(arr[i - 1])' = V[i]
  <2>1. i - 1 \in 0 .. length' - 1 /\ i - 1 < Len(V) /\ (i - 1) + 1 = i
    <3>1. length' \in Nat /\ Len(V) \in Nat /\ Len(V) <= length'
      BY <1>1
    <3> DEFINE m == length'
               n == Len(V)
    <3> HIDE DEF m, n
    <3>2. m \in Nat /\ n \in Nat /\ n <= m /\ i \in 1 .. n
      BY <3>1 DEF m, n
    <3>3. i - 1 \in 0 .. m - 1 /\ i - 1 < n /\ (i - 1) + 1 = i
      BY <3>2
    <3> QED BY <3>3 DEF m, n
  <2>2. arr'[i - 1] = V[i].id
    BY <1>1, <2>1 DEF Lists, Slots
  <2>3. V[i].id # Null /\ heap'[V[i].id] = V[i]
    BY <1>1 DEF Null, Lists, Kept
  <2> QED BY <2>2, <2>3 DEF Shown
<1>3. Contents' = [i \in 1 .. Len(V) |-> Shown(arr[i - 1])']
  <2>1. \A i \in 1 .. size' : i <= length'
    BY DEF Objects
  <2> QED BY <2>1 DEF Lists, Contents
<1>4. V = [i \in 1 .. Len(V) |-> V[i]]
  BY <1>1
<1> QED BY <1>2, <1>3, <1>4

\* Taking out one user keeps the others, in order and apart.
LEMMA RemoveOne ==
  ASSUME NEW V \in Seq(Stored), Differing(V), NEW k \in DOMAIN V
  PROVE  LET R == RemoveAt(V, k) IN
           /\ R \in Seq(Stored) /\ Len(R) = Len(V) - 1 /\ Differing(R)
           /\ \A i \in DOMAIN R : R[i] = IF i < k THEN V[i] ELSE V[i + 1]
           /\ \A i \in DOMAIN R : R[i].id # V[k].id
<1> DEFINE R == RemoveAt(V, k)
<1>1. DOMAIN V = 1 .. Len(V) /\ Len(V) \in Nat /\ k \in 1 .. Len(V)
  BY LenProperties
<1>5. R \in Seq(Stored) /\ Len(R) = Len(V) - 1 /\ \A i \in DOMAIN R : R[i] = IF i < k THEN V[i] ELSE V[i + 1]
  BY RemoveAtKeeps
<1> HIDE DEF R
<1>6. DOMAIN R = 1 .. Len(V) - 1
  BY <1>5, LenProperties
<1>7. \A i \in 1 .. Len(V) - 1 : R[i] = IF i < k THEN V[i] ELSE V[i + 1]
  BY <1>5, <1>6
<1>8. \A i, j \in 1 .. Len(V) : V[i].id = V[j].id => i = j
  BY <1>1 DEF Differing
<1>9. ASSUME NEW i \in 1 .. Len(V) - 1, NEW j \in 1 .. Len(V) - 1, R[i].id = R[j].id PROVE i = j
  <2> DEFINE at(x) == IF x < k THEN x ELSE x + 1
  <2>1. at(i) \in 1 .. Len(V) /\ at(j) \in 1 .. Len(V) /\ R[i] = V[at(i)] /\ R[j] = V[at(j)]
    BY <1>1, <1>7
  <2>2. at(i) = at(j)
    BY <1>8, <1>9, <2>1
  <2> QED BY <1>1, <2>2
<1>10. ASSUME NEW i \in 1 .. Len(V) - 1 PROVE R[i].id # V[k].id
  <2> DEFINE at == IF i < k THEN i ELSE i + 1
  <2>1. at \in 1 .. Len(V) /\ at # k /\ R[i] = V[at]
    BY <1>1, <1>7
  <2> QED BY <1>1, <1>8, <2>1
<1>11. Differing(R) /\ \A i \in DOMAIN R : R[i].id # V[k].id
  BY <1>6, <1>9, <1>10 DEF Differing
<1> QED BY <1>5, <1>11 DEF R

(***************************************************************************)
(* Steps, by what they do to the frames and the list.                      *)
(***************************************************************************)
\* A step of the Registry, or none.
Written == Atomic!Next \/ UNCHANGED <<wrote, issued>>

LEMMA OtherFrames ==
  ASSUME IdInv, NEW t \in Threads, NEW g, th' = [th EXCEPT ![t] = g]
  PROVE  th'[t] = g /\ \A u \in Threads : th'[u] = IF u = t THEN g ELSE th[u]
BY DEF IdInv, FramesOK

\* Nothing changes but the frame of one thread.
LEMMA FrameMoves ==
  ASSUME OneWriter, IdInv, RegInv, NEW t \in Threads, NEW g, th' = [th EXCEPT ![t] = g],
         UNCHANGED <<heap, list, counter, requests, wrote>>,
         g.op \in {th[t].op, "none"}, PlaceOK(g),
         Writing(t) => g.op = th[t].op,
         g.op \in Writes => WritePhase(g),
         Quiet(g) => Quiet(th[t]) /\ ReadPhase(g)
  PROVE  RegInv'
<1>1. th'[t] = g /\ \A u \in Threads : th'[u] = IF u = t THEN g ELSE th[u]
  BY OtherFrames
<1>2. Owned'
  BY <1>1 DEF RegInv, Owned
<1>3. Registered'
  BY DEF RegInv, Registered, Objects, list, array, Before, Most, Differing
<1>4. \A u \in Threads : Writing(u)' <=> Writing(u)
  BY <1>1 DEF Writing, Writes
<1>5. NoWriter' => Lists(Before)'
  BY <1>4 DEF RegInv, NoWriter, Lists, Slots, Kept, Before, list, array
<1>6. ASSUME NEW u \in Threads, Writing(u)' PROVE WritePhase(th[u])'
  <2>1. WritePhase(th'[u])
    BY <1>1, <1>4, <1>6 DEF RegInv, Writing
  <2>2. Before' = Before /\ (Lists(Before) => Lists(Before)') /\ Most' = Most /\ counter' = counter
    BY DEF Before, Lists, Slots, Kept, list, array, Most
  <2>3. Looping(th'[u]) => Looping(th[u])'
    BY DEF Looping, list, array
  <2>4. New(th'[u]) => New(th[u])'
    BY <2>2 DEF New
  <2>5. Removed(th'[u]) => Removed(th[u])'
    BY <2>2 DEF Removed, Lists, Slots, Kept, list, array
  <2>6. Editing(th'[u]) => Editing(th[u])'
    BY <2>2 DEF Editing, Slots, list, array
  <2>7. Creating(th'[u]) => Creating(th[u])'
    BY <2>2, <2>3, <2>4 DEF Creating, Copied, Referred, NamesDiffer, Slots, Kept, list, array
  <2>8. Deleting(th'[u]) => Deleting(th[u])'
    BY <2>2, <2>3, <2>5 DEF Deleting, IdsDiffer, Kept, list, array
  <2>9. Updating(th'[u]) => Updating(th[u])'
    BY <2>2, <2>3, <2>6 DEF Updating, IdsDiffer, list, array
  <2>10. Clearing(th'[u]) => Clearing(th[u])'
    BY <2>2 DEF Clearing, list, array
  <2> QED BY <2>1, <2>7, <2>8, <2>9, <2>10 DEF WritePhase
<1>7. ASSUME NEW u \in Threads, Quiet(th[u])' PROVE NoWriter' /\ ReadPhase(th[u])'
  <2>1. Quiet(th'[u])
    BY <1>7 DEF Quiet
  <2>2. NoWriter /\ ReadPhase(th'[u])
    BY <1>1, <2>1 DEF RegInv
  <2>3. ReadPhase(th[u])'
    <3>1. th'[u] = th[u]' /\ Before' = Before /\ size' = size /\ modCount' = modCount
      BY DEF list, array, Before
    <3>2. Looping(th'[u]) => Looping(th[u])'
      BY <3>1 DEF Looping
    <3>3. \A n, k : Showing(th'[u], n, k) => Showing(th[u], n, k)'
      BY <3>1 DEF Showing
    <3>4. \A n : IdsDiffer(th'[u], n) => IdsDiffer(th[u], n)'
      BY <3>1 DEF IdsDiffer
    <3> HIDE DEF Looping, Showing, IdsDiffer
    <3> QED BY <2>2, <3>1, <3>2, <3>3, <3>4 DEF ReadPhase
  <2> QED BY <1>4, <2>2, <2>3 DEF NoWriter
<1> QED BY <1>2, <1>3, <1>5, <1>6, <1>7 DEF RegInv

\* The writing thread goes on; whatever it did to the list, nobody relies on it.
LEMMA WriterMoves ==
  ASSUME OneWriter, IdInv, RegInv, NEW t \in Threads, NEW g, th' = [th EXCEPT ![t] = g],
         Writing(t), g.op = th[t].op, PlaceOK(g), Registered', WritePhase(th[t])'
  PROVE  RegInv'
<1>1. th'[t] = g /\ \A u \in Threads : th'[u] = IF u = t THEN g ELSE th[u]
  BY OtherFrames
<1>2. Owned'
  BY <1>1 DEF RegInv, Owned, Writing, Writes
<1>3. \A u \in Threads : Writing(u)' => u = t
  BY <1>1, SoleWriter DEF RegInv, Writing, Writes
<1>4. ~NoWriter /\ ~NoWriter'
  BY <1>1 DEF NoWriter, Writing
<1>5. \A u \in Threads : ~Quiet(th[u])'
  BY <1>1, <1>4 DEF RegInv, Quiet, Writing, Writes
<1> QED BY <1>2, <1>3, <1>4, <1>5 DEF RegInv

\* The writing thread answers, and leaves the list whole.
LEMMA WriterAnswers ==
  ASSUME OneWriter, IdInv, RegInv, NEW t \in Threads, th' = [th EXCEPT ![t] = Idle],
         Writing(t), Registered', Lists(Before)'
  PROVE  RegInv'
<1>1. th'[t] = Idle /\ \A u \in Threads : th'[u] = IF u = t THEN Idle ELSE th[u]
  BY OtherFrames
<1>2. Owned'
  BY <1>1 DEF RegInv, Owned, Idle, PlaceOK
<1>3. \A u \in Threads : ~Writing(u)'
  BY <1>1, SoleWriter DEF RegInv, Writing, Writes, Idle
<1>4. ~NoWriter
  BY DEF NoWriter
<1>5. \A u \in Threads : ~Quiet(th[u])'
  BY <1>1, <1>4 DEF RegInv, Quiet, Idle
<1> QED BY <1>2, <1>3, <1>5 DEF RegInv

\* What slot i of a list in order holds.
LEMMA SlotOf ==
  ASSUME Objects, NEW V \in Seq(Stored), Lists(V), NEW i \in Int, i >= 0, i < size
  PROVE  /\ i + 1 \in DOMAIN V /\ i + 1 \in 1 .. Len(V)
         /\ i < length /\ arr[i] = V[i + 1].id /\ arr[i] # Null /\ arr[i] \in DOMAIN heap
         /\ heap[arr[i]] = V[i + 1]
<1>1. /\ length \in Nat /\ DOMAIN arr = 0 .. length - 1 /\ 0 \notin DOMAIN heap
      /\ DOMAIN V = 1 .. Len(V) /\ Len(V) \in Nat /\ Len(V) <= length
  BY DEF Objects, Lists
<1>2. i \in 0 .. length - 1 /\ i + 1 \in 1 .. Len(V)
  BY <1>1 DEF Lists
<1> QED BY <1>1, <1>2 DEF Lists, Slots, Kept, Null

LEMMA Bounds == Objects => Most \in Nat /\ MaxSize \in Nat /\ Most <= MaxSize /\ Ids = 1 .. MaxSize
BY UsersAssumption, DutiesAssumption DEF Objects, Most, MaxSize, Ids

\* The whole answer of a read that no write overlapped.
Truth(f, status, users) ==
  IF f.op = "getUser"
  THEN IF f.id \in IdsIn(Before)
       THEN status = 200 /\ \E i \in DOMAIN Before : Before[i].id = f.id /\ users = <<Before[i]>>
       ELSE status = 404 /\ users = <<>>
  ELSE users = Before /\ status = IF Before = <<>> THEN 204 ELSE 200

Exact ==
  LET users == Contents IN
  read' # read /\ read'.exact =>
    IF read'.op = "getUser"
    THEN IF read'.id \in IdsIn(users)
         THEN /\ read'.status = 200
              /\ \E i \in DOMAIN users : users[i].id = read'.id /\ read'.users = <<users[i]>>
         ELSE read'.status = 404 /\ read'.users = <<>>
    ELSE /\ read'.users = users
         /\ read'.status = IF users = <<>> THEN 204 ELSE 200

Good == RegInv' /\ Written /\ Exact

LEMMA Moves ==
  ASSUME OneWriter, IdInv, RegInv, NEW t \in Threads, NEW g, Move(t, g), Unanswered,
         UNCHANGED <<heap, list, counter, requests>>,
         th[t].pc # "idle", g.op = th[t].op, g.overlapped = th[t].overlapped, PlaceOK(g),
         Writing(t) => WritePhase(g),
         Quiet(g) => ReadPhase(g)
  PROVE  Good
<1>1. th' = [th EXCEPT ![t] = g] /\ UNCHANGED <<issued, wrote, read>>
  BY DEF Move, Unanswered
<1>2. Writing(t) <=> g.op \in Writes
  BY DEF Writing
<1>3. g.op # "none"
  BY DEF RegInv, Owned, PlaceOK
<1>4. RegInv'
  BY <1>1, <1>2, <1>3, FrameMoves DEF Quiet
<1> QED BY <1>1, <1>4 DEF Good, Written, Exact

LEMMA ReadAnswers ==
  ASSUME OneWriter, IdInv, RegInv, NEW t \in Threads, NEW status, NEW users, ~Writing(t), th[t].pc # "idle",
         status # 201, Answer(t, status, users), UNCHANGED <<heap, list, counter, requests>>,
         Quiet(th[t]) => Truth(th[t], status, users)
  PROVE  Good
<1>1. th' = [th EXCEPT ![t] = Idle] /\ issued' = issued /\ wrote' = wrote
      /\ read' = [op |-> th[t].op, id |-> th[t].id, status |-> status, users |-> users, exact |-> ~th[t].overlapped]
  BY DEF Answer, Move
<1>2. Idle.op = "none" /\ PlaceOK(Idle) /\ ~Quiet(Idle) /\ Idle.op \notin Writes
  BY DEF Idle, Quiet, Writes, PlaceOK
<1>3. RegInv'
  BY <1>1, <1>2, FrameMoves
<1>4. ASSUME read'.exact PROVE Contents = Before /\ Truth(th[t], status, users)
  <2>1. th[t].op \in {"getUser", "listAllUsers"}
    BY DutiesAssumption DEF RegInv, Owned, PlaceOK, Writing, Writes
  <2>2. Quiet(th[t])
    BY <1>1, <1>4, <2>1 DEF Quiet
  <2>3. Lists(Before)
    BY <2>2 DEF RegInv
  <2> QED BY <2>2, <2>3, ContentsListed, Bounds DEF RegInv, Registered
<1>5. Exact
  BY <1>1, <1>4 DEF Exact, Truth
<1> QED BY <1>1, <1>3, <1>5 DEF Good, Written

\* A write is answered: the list is V now.
LEMMA Replies ==
  ASSUME OneWriter, IdInv, RegInv, NEW t \in Threads, NEW status, Writing(t), Answer(t, status, <<>>), status # 201,
         NEW V \in Seq(Stored), Differing(V), Len(V) <= Most, requests' = requests, Objects', Lists(V)'
  PROVE  /\ RegInv' /\ Exact /\ issued' = issued
         /\ wrote' = [op |-> th[t].op, id |-> th[t].id, body |-> th[t].body, status |-> status, users |-> V]
<1>1. /\ th' = [th EXCEPT ![t] = Idle] /\ issued' = issued /\ read' = read
      /\ wrote' = [op |-> th[t].op, id |-> th[t].id, body |-> th[t].body, status |-> status, users |-> Contents']
  BY DEF Answer, Move
<1>2. Most' = Most /\ Most <= MaxSize
  BY Bounds DEF Most, RegInv, Registered
<1>3. Contents' = V
  BY <1>2, Bounds, ContentsListedNext DEF RegInv, Registered, Most
<1>4. Before' = V
  BY <1>1, <1>3 DEF Before
<1>5. Registered' /\ Lists(Before)'
  BY <1>2, <1>4 DEF Registered, Differing, Lists, Slots, Kept
<1>6. RegInv'
  BY <1>1, <1>5, WriterAnswers
<1> QED BY <1>1, <1>3, <1>6 DEF Exact

(***************************************************************************)
(* The steps of a read.                                                    *)
(***************************************************************************)
LEMMA FrameFields ==
  ASSUME IdInv, NEW t \in Threads
  PROVE  DOMAIN th[t] = {"pc", "op", "id", "body", "loop", "cursor", "expected", "obj", "index", "shown",
                         "into", "room", "copy", "overlapped"}
         /\ FrameOK(th[t])
BY DEF IdInv, FramesOK, FrameOK, Idle

\* A loop of GET goes on, or ends with the truth if no write overlapped it.
LEMMA ReadLoops ==
  ASSUME OneWriter, IdInv, RegInv, NEW t \in Threads, ~Writing(t), HasNext(t) \/ CheckModCount(t) \/ Fetch(t)
  PROVE  Good
<1> DEFINE f == th[t]
<1>1. f.pc \in {"hasNext", "next", "fetch"} /\ UNCHANGED <<heap, list, counter, requests>>
  BY DEF HasNext, CheckModCount, Fetch, At, DataUnchanged
<1>2. f.loop = "findById" /\ f.op = "getUser"
  BY <1>1, FrameFields DEF FrameOK, Runs, Writing, Writes
<1>3. Quiet(f) => Looping(f) /\ IdsDiffer(f, f.cursor) /\ f.shown = <<>> /\ Lists(Before)
  BY <1>1, <1>2 DEF RegInv, ReadPhase
<1>4. Before \in Seq(Stored) /\ Objects /\ Len(Before) <= MaxSize
  BY Bounds DEF RegInv, Registered
<1>5. ASSUME Quiet(f), f.cursor < size
      PROVE  /\ f.cursor + 1 \in DOMAIN Before /\ arr[f.cursor] # Null
             /\ f.cursor < length /\ arr[f.cursor] = Before[f.cursor + 1].id
             /\ heap[arr[f.cursor]] = Before[f.cursor + 1]
  BY <1>3, <1>4, <1>5, SlotOf DEF Looping
<1>6. ASSUME NEW g, Move(t, g), Unanswered, g.op = f.op, g.overlapped = f.overlapped, g.pc \in {"hasNext", "next", "fetch", "field"},
             Quiet(f) => ReadPhase(g)
      PROVE  Good
  <2>1. PlaceOK(g) /\ ~Writing(t) /\ f.pc # "idle" /\ (Quiet(g) => Quiet(f))
    BY <1>1, <1>2, <1>6 DEF PlaceOK, Quiet
  <2> QED BY <1>1, <1>6, <2>1, Moves
<1>7. ASSUME NEW status, NEW users, status # 201, Answer(t, status, users), Quiet(f) => Truth(f, status, users)
      PROVE  Good
  BY <1>1, <1>7, ReadAnswers
<1>8. CASE HasNext(t)
  <2>1. CASE f.cursor # size
    <3> DEFINE g == [f EXCEPT !.pc = "next"]
    <3>1. Move(t, g) /\ Unanswered
      BY <1>8, <2>1 DEF HasNext, Goto
    <3>2. /\ g.pc = "next" /\ g.op = f.op /\ g.overlapped = f.overlapped /\ g.id = f.id
          /\ g.loop = f.loop /\ g.cursor = f.cursor /\ g.expected = f.expected /\ g.shown = f.shown
      BY FrameFields
    <3> HIDE DEF g
    <3>3. Quiet(f) => ReadPhase(g)
      BY <1>2, <1>3, <2>1, <3>2 DEF ReadPhase, Looping, IdsDiffer, Lists
    <3> QED BY <1>6, <3>1, <3>2, <3>3
  <2>2. CASE f.cursor = size
    <3>1. Answer(t, 404, <<>>)
      BY <1>2, <1>8, <2>2 DEF HasNext, AfterLoop
    <3>2. Quiet(f) => Truth(f, 404, <<>>)
      <4> SUFFICES ASSUME Quiet(f) PROVE f.id \notin IdsIn(Before)
        BY <1>2 DEF Truth
      <4>1. DOMAIN Before = 1 .. f.cursor
        BY <1>3, <1>4, <2>2 DEF Lists
      <4> QED BY <1>3, <4>1 DEF IdsDiffer, IdsIn
    <3> QED BY <1>7, <3>1, <3>2
  <2> QED BY <2>1, <2>2
<1>9. CASE CheckModCount(t)
  <2>1. CASE modCount # f.expected
    <3>1. Answer(t, 500, <<>>) /\ ~Quiet(f)
      BY <1>3, <1>9, <2>1 DEF CheckModCount, Looping
    <3> QED BY <1>7, <3>1
  <2>2. CASE modCount = f.expected
    <3> DEFINE g == [f EXCEPT !.pc = "fetch"]
    <3>1. Move(t, g) /\ Unanswered /\ f.pc = "next"
      BY <1>9, <2>2 DEF CheckModCount, Goto, At
    <3>2. /\ g.pc = "fetch" /\ g.op = f.op /\ g.overlapped = f.overlapped /\ g.id = f.id
          /\ g.loop = f.loop /\ g.cursor = f.cursor /\ g.expected = f.expected /\ g.shown = f.shown
      BY FrameFields
    <3> HIDE DEF g
    <3>3. Quiet(f) => ReadPhase(g)
      BY <1>2, <1>3, <3>1, <3>2 DEF ReadPhase, Looping, IdsDiffer
    <3> QED BY <1>6, <3>1, <3>2, <3>3
  <2> QED BY <2>1, <2>2
<1>10. CASE Fetch(t)
  <2> DEFINE i == f.cursor
  <2>1. Quiet(f) => i < size /\ i >= 0 /\ ~(i >= size) /\ ~(i >= length) /\ size \in Nat
    <3>1. f.pc = "fetch"
      BY <1>10 DEF Fetch, At
    <3>2. length \in Nat /\ size \in Nat /\ size <= length
      BY <1>4 DEF Objects
    <3> QED BY <1>3, <3>1, <3>2 DEF Looping
  <2>2. CASE i >= size \/ i >= length \/ arr[i] = Null
    <3>1. Answer(t, 500, <<>>) /\ ~Quiet(f)
      BY <1>5, <1>10, <2>1, <2>2 DEF Fetch
    <3> QED BY <1>7, <3>1
  <2>3. CASE ~(i >= size \/ i >= length \/ arr[i] = Null) /\ heap[arr[i]].id = f.id
    <3> DEFINE g == StartUser(f, arr[i])
    <3>1. Move(t, g) /\ Unanswered
      BY <1>2, <1>10, <2>3 DEF Fetch, Matches, Found
    <3>2. /\ g.pc = "field" /\ g.op = f.op /\ g.overlapped = f.overlapped /\ g.id = f.id
          /\ g.obj = arr[i] /\ g.index = 1 /\ g.shown = Append(f.shown, User(heap[arr[i]].id, NoBody))
      BY FrameFields DEF StartUser
    <3> HIDE DEF g
    <3>3. ASSUME Quiet(f) PROVE ReadPhase(g)
      <4>1. /\ i + 1 \in DOMAIN Before /\ arr[i] = Before[i + 1].id /\ heap[arr[i]] = Before[i + 1]
            /\ f.shown = <<>>
        BY <1>3, <1>5, <2>1, <3>3
      <4>2. [k \in 1 .. 0 |-> Before[k]] = <<>>
        OBVIOUS
      <4>3. User(heap[arr[i]].id, NoBody) = Begun(Before[i + 1], 1)
        BY <4>1 DEF User, NoBody, Begun
      <4>4. Showing(g, 0, i + 1)
        BY <3>2, <4>1, <4>2, <4>3 DEF Showing
      <4> QED BY <1>2, <2>3, <3>2, <4>1, <4>4 DEF ReadPhase
    <3> QED BY <1>6, <3>1, <3>2, <3>3
  <2>4. CASE ~(i >= size \/ i >= length \/ arr[i] = Null) /\ heap[arr[i]].id # f.id
    <3> DEFINE g == [f EXCEPT !.pc = "hasNext", !.cursor = i + 1]
    <3>1. Move(t, g) /\ Unanswered
      BY <1>2, <1>10, <2>4 DEF Fetch, Matches
    <3>2. /\ g.pc = "hasNext" /\ g.op = f.op /\ g.overlapped = f.overlapped /\ g.id = f.id
          /\ g.loop = f.loop /\ g.cursor = f.cursor + 1 /\ g.expected = f.expected /\ g.shown = f.shown
      BY FrameFields
    <3> HIDE DEF g
    <3>3. ASSUME Quiet(f) PROVE ReadPhase(g)
      <4>1. Before[i + 1].id # f.id
        BY <1>5, <2>1, <2>4, <3>3
      <4>2. i \in Nat /\ i + 1 \in 0 .. size /\ \A k \in 1 .. i + 1 : k \in 1 .. i \/ k = i + 1
        BY <1>3, <2>1, <3>3 DEF Looping
      <4> QED BY <1>2, <1>3, <3>2, <3>3, <4>1, <4>2 DEF ReadPhase, Looping, IdsDiffer
    <3> QED BY <1>6, <3>1, <3>2, <3>3
  <2> QED BY <2>2, <2>3, <2>4
<1> QED BY <1>8, <1>9, <1>10

\* GET of the list shows the list if no write overlapped it.
LEMMA ListReads ==
  ASSUME OneWriter, IdInv, RegInv, NEW t \in Threads, ListAll(t) \/ Render(t) \/ RenderElement(t)
  PROVE  Good
<1> DEFINE f == th[t]
<1>1. f.pc \in {"isEmpty", "render", "element"} /\ UNCHANGED <<heap, list, counter, requests>>
  BY DEF ListAll, Render, RenderElement, At, DataUnchanged
<1>2. f.op = "listAllUsers" /\ ~Writing(t)
  BY <1>1 DEF RegInv, Owned, PlaceOK, Writing, Writes
<1>3. Quiet(f) => Lists(Before) /\ ReadPhase(f)
  BY DEF RegInv
<1>4. /\ Before \in Seq(Stored) /\ Objects /\ Len(Before) <= MaxSize
      /\ Len(Before) \in Nat /\ DOMAIN Before = 1 .. Len(Before) /\ (Before = <<>> <=> Len(Before) = 0)
  BY Bounds, EmptySeq DEF RegInv, Registered
<1>6. ASSUME NEW g, Move(t, g), Unanswered, g.op = f.op, g.overlapped = f.overlapped, g.pc \in {"render", "element", "field"},
             Quiet(f) => ReadPhase(g)
      PROVE  Good
  <2>1. PlaceOK(g) /\ f.pc # "idle" /\ (Quiet(g) => Quiet(f))
    BY <1>1, <1>2, <1>6 DEF PlaceOK, Quiet
  <2> QED BY <1>1, <1>2, <1>6, <2>1, Moves
<1>7. ASSUME NEW status, NEW users, status # 201, Answer(t, status, users), Quiet(f) => Truth(f, status, users)
      PROVE  Good
  BY <1>1, <1>2, <1>7, ReadAnswers
<1>8. CASE ListAll(t)
  <2>1. f.pc = "isEmpty"
    BY <1>8 DEF ListAll, At
  <2>2. CASE size = 0
    <3>1. Answer(t, 204, <<>>)
      BY <1>8, <2>2 DEF ListAll
    <3>2. Quiet(f) => Truth(f, 204, <<>>)
      BY <1>2, <1>3, <1>4, <2>2 DEF Truth, Lists
    <3> QED BY <1>7, <3>1, <3>2
  <2>3. CASE size # 0
    <3> DEFINE g == [f EXCEPT !.pc = "render"]
    <3>1. Move(t, g) /\ Unanswered
      BY <1>8, <2>3 DEF ListAll, Goto
    <3>2. /\ g.pc = "render" /\ g.op = f.op /\ g.overlapped = f.overlapped
          /\ g.cursor = f.cursor /\ g.shown = f.shown
      BY FrameFields
    <3> HIDE DEF g
    <3>3. Quiet(f) => ReadPhase(g)
      BY <1>2, <1>3, <1>4, <2>1, <2>3, <3>2 DEF ReadPhase, Lists
    <3> QED BY <1>6, <3>1, <3>2, <3>3
  <2> QED BY <2>2, <2>3
<1>9. CASE Render(t)
  <2> DEFINE g == [f EXCEPT !.pc = "element", !.expected = size]
  <2>1. Move(t, g) /\ Unanswered /\ f.pc = "render"
    BY <1>9 DEF Render, At
  <2>2. /\ g.pc = "element" /\ g.op = f.op /\ g.overlapped = f.overlapped /\ g.expected = size
        /\ g.cursor = f.cursor /\ g.shown = f.shown
    BY FrameFields
  <2> HIDE DEF g
  <2>3. Quiet(f) => ReadPhase(g)
    <3> SUFFICES ASSUME Quiet(f) PROVE ReadPhase(g)
      OBVIOUS
    <3>1. f.cursor = 0 /\ f.shown = <<>> /\ size > 0 /\ size \in Nat
      BY <1>2, <1>3, <1>4, <2>1 DEF ReadPhase, Lists
    <3>2. [i \in 1 .. 0 |-> Before[i]] = <<>>
      OBVIOUS
    <3> QED BY <1>2, <2>2, <3>1, <3>2 DEF ReadPhase
  <2> QED BY <1>6, <2>1, <2>2, <2>3
<1>10. CASE RenderElement(t)
  <2> DEFINE i == f.cursor
  <2>1. f.pc = "element"
    BY <1>10 DEF RenderElement, At
  <2>2. Quiet(f) => /\ size > 0 /\ size = Len(Before) /\ f.expected = size /\ i \in 0 .. size
                    /\ f.shown = [k \in 1 .. i |-> Before[k]]
    BY <1>2, <1>3, <2>1 DEF ReadPhase, Lists
  <2>3. CASE i >= f.expected
    <3>1. Answer(t, 200, f.shown)
      BY <1>10, <2>3 DEF RenderElement
    <3>2. Quiet(f) => Truth(f, 200, f.shown)
      <4> SUFFICES ASSUME Quiet(f) PROVE f.shown = Before /\ Before # <<>>
        BY <1>2 DEF Truth
      <4>1. f.shown = [k \in 1 .. Len(Before) |-> Before[k]]
        BY <1>4, <2>2, <2>3
      <4>2. Before = [k \in 1 .. Len(Before) |-> Before[k]]
        BY <1>4
      <4> QED BY <1>4, <2>2, <4>1, <4>2
    <3> QED BY <1>7, <3>1, <3>2
  <2>4. Quiet(f) /\ ~(i >= f.expected) =>
          /\ i \in Int /\ i >= 0 /\ i < size /\ i + 1 \in 1 .. size /\ i \in Nat
          /\ ~(i >= size) /\ ~(i >= length) /\ i + 1 \in DOMAIN Before
          /\ arr[i] = Before[i + 1].id /\ arr[i] # Null /\ heap[arr[i]] = Before[i + 1]
    <3> SUFFICES ASSUME Quiet(f), ~(i >= f.expected)
                 PROVE  /\ i \in Int /\ i >= 0 /\ i < size /\ i + 1 \in 1 .. size /\ i \in Nat
                        /\ ~(i >= size) /\ ~(i >= length) /\ i + 1 \in DOMAIN Before
                        /\ arr[i] = Before[i + 1].id /\ arr[i] # Null /\ heap[arr[i]] = Before[i + 1]
      OBVIOUS
    <3>1. /\ i \in Int /\ i >= 0 /\ i < size /\ i + 1 \in 1 .. size /\ i \in Nat /\ ~(i >= size)
          /\ length \in Nat /\ size <= length
      BY <1>4, <2>2 DEF Objects
    <3>2. ~(i >= length)
      BY <1>4, <3>1, <2>2
    <3> QED BY <1>3, <1>4, <3>1, <3>2, SlotOf
  <2>5. CASE ~(i >= f.expected) /\ (i >= size \/ i >= length)
    <3>1. Answer(t, 500, <<>>) /\ ~Quiet(f)
      BY <1>10, <2>4, <2>5 DEF RenderElement
    <3> QED BY <1>7, <3>1
  <2>6. CASE ~(i >= f.expected) /\ ~(i >= size \/ i >= length) /\ arr[i] = Null
    <3> DEFINE g == [f EXCEPT !.cursor = i + 1, !.shown = Append(f.shown, Shown(Null))]
    <3>1. Move(t, g) /\ Unanswered /\ ~Quiet(f)
      BY <1>10, <2>4, <2>6 DEF RenderElement
    <3>2. g.pc = "element" /\ g.op = f.op /\ g.overlapped = f.overlapped
      BY <2>1, FrameFields
    <3> HIDE DEF g
    <3> QED BY <1>6, <3>1, <3>2
  <2>7. CASE ~(i >= f.expected) /\ ~(i >= size \/ i >= length) /\ arr[i] # Null
    <3> DEFINE g == StartUser([f EXCEPT !.cursor = i + 1], arr[i])
    <3>1. Move(t, g) /\ Unanswered
      BY <1>10, <2>7 DEF RenderElement
    <3>2. /\ g.pc = "field" /\ g.op = f.op /\ g.overlapped = f.overlapped /\ g.expected = f.expected
          /\ g.cursor = i + 1 /\ g.obj = arr[i] /\ g.index = 1
          /\ g.shown = Append(f.shown, User(heap[arr[i]].id, NoBody))
      BY FrameFields DEF StartUser
    <3> HIDE DEF g
    <3>3. ASSUME Quiet(f) PROVE ReadPhase(g)
      <4>1. User(heap[arr[i]].id, NoBody) = Begun(Before[i + 1], 1)
        BY <2>4, <2>7, <3>3 DEF User, NoBody, Begun
      <4>2. Showing(g, i, i + 1)
        BY <2>2, <2>4, <2>7, <3>2, <3>3, <4>1 DEF Showing
      <4>3. (i + 1) - 1 = i
        BY <2>4, <2>7, <3>3
      <4>4. Showing(g, g.cursor - 1, g.cursor)
        BY <3>2, <4>2, <4>3
      <4> QED BY <1>2, <2>2, <2>4, <2>7, <3>2, <3>3, <4>4 DEF ReadPhase
    <3> QED BY <1>6, <3>1, <3>2, <3>3
  <2> QED BY <2>3, <2>5, <2>6, <2>7
<1> QED BY <1>8, <1>9, <1>10

\* One more field of the last user.
LEMMA OneFieldMore ==
  ASSUME NEW s \in Seq(Stored), NEW u \in Stored, NEW k \in 1 .. 3, NEW r, r = Append(s, Begun(u, k))
  PROVE  [r EXCEPT ![Len(r)][Fields[k]] = u[Fields[k]]] = Append(s, Begun(u, k + 1))
<1> DEFINE b == Begun(u, k)
           c == Begun(u, k + 1)
           n == Len(s)
<1>1. NoName \in STRING
  BY UsersAssumption
<1>2. b \in Stored /\ c \in Stored
  BY <1>1 DEF Begun, Stored
<1>3. [b EXCEPT ![Fields[k]] = u[Fields[k]]] = c
  <2>1. CASE k = 1
    BY <2>1 DEF Begun, Fields, Stored
  <2>2. CASE k = 2
    BY <2>2 DEF Begun, Fields, Stored
  <2>3. CASE k = 3
    BY <2>3 DEF Begun, Fields, Stored
  <2> QED BY <2>1, <2>2, <2>3
<1> DEFINE field == Fields[k]
           v == u[Fields[k]]
<1> HIDE DEF b, c, field, v
<1>4. /\ r \in Seq(Stored) /\ Len(r) = n + 1 /\ DOMAIN r = 1 .. n + 1 /\ n \in Nat
      /\ r[n + 1] = b /\ \A i \in 1 .. n : r[i] = s[i]
  BY <1>2, AppendProperties DEF b
<1>5. [b EXCEPT ![field] = v] = c
  BY <1>3 DEF b, c, field, v
<1>6. [r EXCEPT ![n + 1][field] = v] = [r EXCEPT ![n + 1] = c]
  BY <1>4, <1>5
<1> DEFINE q == Append(s, c)
<1>7. q \in Seq(Stored) /\ Len(q) = n + 1 /\ DOMAIN q = 1 .. n + 1 /\ q[n + 1] = c /\ \A i \in 1 .. n : q[i] = s[i]
  BY <1>2, AppendProperties
<1> HIDE DEF q, n
<1>8. q = [i \in 1 .. n + 1 |-> q[i]]
  <2>1. q = [i \in 1 .. Len(q) |-> q[i]]
    BY <1>7
  <2> QED BY <1>7, <2>1
<1>9. [r EXCEPT ![n + 1] = c] = q
  <2>1. \A i \in 1 .. n + 1 : [r EXCEPT ![n + 1] = c][i] = q[i]
    <3> SUFFICES ASSUME NEW i \in 1 .. n + 1 PROVE [r EXCEPT ![n + 1] = c][i] = q[i]
      OBVIOUS
    <3>1. i \in 1 .. n \/ i = n + 1
      BY <1>4
    <3> QED BY <1>4, <1>7, <3>1
  <2>2. [r EXCEPT ![n + 1] = c] = [i \in 1 .. n + 1 |-> [r EXCEPT ![n + 1] = c][i]]
    BY <1>4
  <2> QED BY <1>8, <2>1, <2>2
<1>10. [r EXCEPT ![Len(r)][field] = v] = q
  BY <1>4, <1>6, <1>9
<1> QED BY <1>10 DEF q, c, field, v

\* The fields of a user are read one by one; the user is whole when no write overlapped.
LEMMA FieldReads ==
  ASSUME OneWriter, IdInv, RegInv, NEW t \in Threads, RenderField(t)
  PROVE  Good
<1> DEFINE f == th[t]
           k == f.index
           users == [f.shown EXCEPT ![Len(f.shown)][Fields[k]] = heap[f.obj][Fields[k]]]
<1>1. f.pc = "field" /\ UNCHANGED <<heap, list, counter, requests>>
  BY DEF RenderField, At, DataUnchanged
<1>2. f.op \in {"getUser", "listAllUsers"} /\ ~Writing(t)
  BY <1>1 DEF RegInv, Owned, PlaceOK, Writing, Writes
<1>3. Quiet(f) => Lists(Before) /\ ReadPhase(f)
  BY DEF RegInv
<1>4. /\ Before \in Seq(Stored) /\ Objects
      /\ Len(Before) \in Nat /\ DOMAIN Before = 1 .. Len(Before) /\ (Before = <<>> <=> Len(Before) = 0)
  BY EmptySeq DEF RegInv, Registered
<1>5. PICK n, j :
        Quiet(f) => /\ Showing(f, n, j) /\ n \in 0 .. Len(Before)
                    /\ f.op = "getUser" => n = 0 /\ Before[j].id = f.id
                    /\ f.op = "listAllUsers" => /\ size > 0 /\ f.expected = size /\ f.cursor \in 1 .. size
                                                /\ n = f.cursor - 1 /\ j = f.cursor
  <2>1. CASE Quiet(f) /\ f.op = "getUser"
    <3>1. \E j \in DOMAIN Before : Before[j].id = f.id /\ Showing(f, 0, j)
      BY <1>1, <1>3, <2>1 DEF ReadPhase, Looping
    <3>2. 0 \in 0 .. Len(Before)
      BY <1>4
    <3> QED BY <2>1, <3>1, <3>2
  <2>2. CASE Quiet(f) /\ f.op = "listAllUsers"
    <3>1. size > 0 /\ f.expected = size /\ f.cursor \in 1 .. size /\ Showing(f, f.cursor - 1, f.cursor)
      BY <1>1, <1>3, <2>2 DEF ReadPhase
    <3>2. f.cursor - 1 \in 0 .. Len(Before)
      BY <1>3, <1>4, <2>2, <3>1 DEF Lists
    <3> QED BY <2>2, <3>1, <3>2
  <2>3. CASE ~Quiet(f)
    BY <2>3
  <2> QED BY <1>2, <2>1, <2>2, <2>3
<1>6. Quiet(f) => users = Append([i \in 1 .. n |-> Before[i]], Begun(Before[j], k + 1))
  <2> SUFFICES ASSUME Quiet(f) PROVE users = Append([i \in 1 .. n |-> Before[i]], Begun(Before[j], k + 1))
    OBVIOUS
  <2> DEFINE s == [i \in 1 .. n |-> Before[i]]
  <2>1. s \in Seq(Stored)
    BY <1>4, <1>5
  <2>2. /\ j \in DOMAIN Before /\ k \in 1 .. 3 /\ f.obj = Before[j].id
        /\ f.shown = Append(s, Begun(Before[j], k))
    BY <1>5 DEF Showing
  <2>3. heap[f.obj] = Before[j] /\ Before[j] \in Stored
    BY <1>3, <1>4, <2>2 DEF Lists, Kept
  <2> HIDE DEF s
  <2>4. PICK r, u, m : r = f.shown /\ u = Before[j] /\ m = k
    OBVIOUS
  <2>5. u \in Stored /\ m \in 1 .. 3 /\ r = Append(s, Begun(u, m))
    BY <2>2, <2>3, <2>4
  <2>6. [r EXCEPT ![Len(r)][Fields[m]] = u[Fields[m]]] = Append(s, Begun(u, m + 1))
    BY <2>1, <2>5, OneFieldMore
  <2>7. users = [r EXCEPT ![Len(r)][Fields[m]] = u[Fields[m]]]
    BY <2>3, <2>4
  <2> HIDE DEF users
  <2> QED BY <2>4, <2>6, <2>7 DEF s
<1>7. Quiet(f) => k \in 1 .. 3 /\ j \in DOMAIN Before /\ f.obj = Before[j].id
  BY <1>5 DEF Showing
<1> HIDE DEF users
<1>8. CASE k < 3
  <2> DEFINE g == [f EXCEPT !.index = k + 1, !.shown = users]
  <2>1. Move(t, g) /\ Unanswered
    BY <1>8 DEF RenderField, Fields, users
  <2>2. /\ g.pc = "field" /\ g.op = f.op /\ g.overlapped = f.overlapped /\ g.expected = f.expected /\ g.id = f.id
        /\ g.cursor = f.cursor /\ g.obj = f.obj /\ g.index = k + 1 /\ g.shown = users
    BY <1>1, FrameFields
  <2> HIDE DEF g
  <2>3. ASSUME Quiet(f) PROVE ReadPhase(g)
    <3>0. k + 1 \in 1 .. 3
      BY <1>7, <1>8, <2>3
    <3>1. Showing(g, n, j)
      BY <1>6, <1>7, <2>2, <2>3, <3>0 DEF Showing
    <3> QED BY <1>2, <1>5, <1>7, <2>2, <2>3, <3>1 DEF ReadPhase
  <2>4. PlaceOK(g) /\ (Quiet(g) => Quiet(f)) /\ f.pc # "idle"
    BY <1>1, <1>2, <2>2 DEF PlaceOK, Quiet
  <2> QED BY <1>1, <1>2, <2>1, <2>2, <2>3, <2>4, Moves
<1>9. CASE ~(k < 3)
  <2>1. Quiet(f) => users = Append([i \in 1 .. n |-> Before[i]], Before[j])
    <3> SUFFICES ASSUME Quiet(f) PROVE Begun(Before[j], k + 1) = Before[j]
      BY <1>6
    <3>1. k = 3 /\ Before[j] \in Stored
      BY <1>4, <1>7, <1>9
    <3> QED BY <3>1 DEF Begun, Stored
  <2>2. CASE f.op = "getUser"
    <3>1. Answer(t, 200, users)
      BY <1>9, <2>2 DEF RenderField, Fields, users
    <3>2. ASSUME Quiet(f) PROVE Truth(f, 200, users)
      <4>1. [i \in 1 .. 0 |-> Before[i]] = <<>>
        OBVIOUS
      <4>2. users = <<Before[j]>>
        BY <1>5, <2>1, <2>2, <3>2, <4>1
      <4> QED BY <1>5, <1>7, <2>2, <3>2, <4>2 DEF Truth, IdsIn
    <3> QED BY <1>1, <1>2, <3>1, <3>2, ReadAnswers
  <2>3. CASE f.op = "listAllUsers"
    <3> DEFINE g == [f EXCEPT !.pc = "element", !.shown = users]
    <3>1. Move(t, g) /\ Unanswered
      BY <1>9, <2>3 DEF RenderField, Fields, users
    <3>2. /\ g.pc = "element" /\ g.op = f.op /\ g.overlapped = f.overlapped /\ g.expected = f.expected
          /\ g.cursor = f.cursor /\ g.shown = users
      BY FrameFields
    <3> HIDE DEF g
    <3>3. ASSUME Quiet(f) PROVE ReadPhase(g)
      <4>1. size > 0 /\ f.expected = size /\ f.cursor \in 1 .. size /\ n = f.cursor - 1 /\ j = f.cursor /\ size = Len(Before)
        BY <1>3, <1>5, <2>3, <3>3 DEF Lists
      <4>2. f.cursor \in Nat /\ f.cursor \in 0 .. size /\ n \in Nat /\ j = n + 1
        BY <1>4, <4>1
      <4>3. users = [i \in 1 .. n + 1 |-> Before[i]]
        BY SMTT(30), <2>1, <3>3, <4>2
      <4> QED BY <2>3, <3>2, <4>1, <4>2, <4>3 DEF ReadPhase
    <3>4. PlaceOK(g) /\ (Quiet(g) => Quiet(f)) /\ f.pc # "idle"
      BY <1>1, <2>3, <3>2 DEF PlaceOK, Quiet
    <3> QED BY <1>1, <1>2, <3>1, <3>2, <3>3, <3>4, Moves
  <2> QED BY <1>2, <2>2, <2>3
<1>10. k < 3 \/ ~(k < 3)
  OBVIOUS
<1> QED BY <1>8, <1>9, <1>10

(***************************************************************************)
(* The steps of a write.                                                   *)
(***************************************************************************)
\* A write that goes on without touching the list.
LEMMA WriteGoesOn ==
  ASSUME OneWriter, IdInv, RegInv, NEW t \in Threads, Writing(t), NEW g, Move(t, g), Unanswered,
         UNCHANGED <<heap, list, counter, requests>>, th[t].pc # "idle",
         g.op = th[t].op, g.overlapped = th[t].overlapped, PlaceOK(g), WritePhase(g)
  PROVE  Good
BY Moves DEF Writing, Quiet, Writes

\* A write that is answered without having touched the list.
LEMMA Refused ==
  ASSUME OneWriter, IdInv, RegInv, NEW t \in Threads, NEW status, Writing(t), Answer(t, status, <<>>), status # 201,
         UNCHANGED <<heap, list, counter, requests>>, Lists(Before)
  PROVE  /\ RegInv' /\ Exact /\ issued' = issued
         /\ wrote' = [op |-> th[t].op, id |-> th[t].id, body |-> th[t].body, status |-> status, users |-> Before]
<1> DEFINE V == Before
<1>1. V \in Seq(Stored) /\ Differing(V) /\ Len(V) <= Most /\ Lists(V)
  BY DEF RegInv, Registered
<1>2. Objects'
  BY DEF RegInv, Registered, Objects, list, array, Most
<1>3. PICK W : W = V
  OBVIOUS
<1>4. Lists(W)'
  BY <1>1, <1>3 DEF Lists, Slots, Kept, list, array
<1> HIDE DEF V
<1>5. /\ RegInv' /\ Exact /\ issued' = issued
      /\ wrote' = [op |-> th[t].op, id |-> th[t].id, body |-> th[t].body, status |-> status, users |-> W]
  BY <1>1, <1>2, <1>3, <1>4, Replies
<1> QED BY <1>3, <1>5 DEF V

LEMMA CreateLoops ==
  ASSUME OneWriter, IdInv, RegInv, NEW t \in Threads, th[t].op = "createUser", HasNext(t) \/ CheckModCount(t) \/ Fetch(t)
  PROVE  Good
<1> DEFINE f == th[t]
<1>1. f.pc \in {"hasNext", "next", "fetch"} /\ UNCHANGED <<heap, list, counter, requests>> /\ Writing(t)
  BY DEF HasNext, CheckModCount, Fetch, At, DataUnchanged, Writing, Writes
<1>2. f.id = 0 /\ f.body \in Bodies /\ Len(Before) < Most /\ Looping(f) /\ f.loop = "findByName" /\ Lists(Before)
      /\ NamesDiffer(f, f.cursor) /\ counter < Most
  BY <1>1 DEF RegInv, WritePhase, Creating
<1>3. /\ Before \in Seq(Stored) /\ Objects /\ Len(Before) <= MaxSize
      /\ Len(Before) \in Nat /\ DOMAIN Before = 1 .. Len(Before) /\ size = Len(Before)
  BY <1>2, Bounds DEF RegInv, Registered, Lists
<1>4. ASSUME f.cursor < size
      PROVE  /\ f.cursor + 1 \in DOMAIN Before /\ arr[f.cursor] # Null
             /\ heap[arr[f.cursor]] = Before[f.cursor + 1] /\ ~(f.cursor >= length)
  <2>1. length \in Nat
    BY <1>3 DEF Objects
  <2> QED BY <1>2, <1>3, <1>4, <2>1, SlotOf DEF Looping
<1>5. ASSUME NEW g, Move(t, g), Unanswered, g.op = f.op, g.overlapped = f.overlapped, g.id = f.id, g.body = f.body,
             \/ g.pc = "save" /\ NamesDiffer(f, Len(Before))
             \/ Looping(g) /\ g.loop = "findByName" /\ NamesDiffer(f, g.cursor)
      PROVE  Good
  <2>1. PlaceOK(g) /\ f.pc # "idle"
    BY <1>1, <1>5 DEF PlaceOK, Looping
  <2>2. WritePhase(g)
    BY <1>2, <1>5 DEF WritePhase, Creating, NamesDiffer
  <2> QED BY <1>1, <1>5, <2>1, <2>2, WriteGoesOn
<1>6. CASE HasNext(t)
  <2>1. CASE f.cursor # size
    <3> DEFINE g == [f EXCEPT !.pc = "next"]
    <3>1. Move(t, g) /\ Unanswered
      BY <1>6, <2>1 DEF HasNext, Goto
    <3>2. /\ g.pc = "next" /\ g.op = f.op /\ g.overlapped = f.overlapped /\ g.id = f.id /\ g.body = f.body
          /\ g.loop = f.loop /\ g.cursor = f.cursor /\ g.expected = f.expected
      BY FrameFields
    <3> HIDE DEF g
    <3>3. Looping(g)
      BY <1>2, <1>3, <2>1, <3>2 DEF Looping
    <3> QED BY <1>2, <1>5, <3>1, <3>2, <3>3
  <2>2. CASE f.cursor = size
    <3> DEFINE g == [f EXCEPT !.pc = "save"]
    <3>1. Move(t, g) /\ Unanswered
      BY <1>2, <1>6, <2>2 DEF HasNext, AfterLoop, Goto
    <3>2. g.pc = "save" /\ g.op = f.op /\ g.overlapped = f.overlapped /\ g.id = f.id /\ g.body = f.body
      BY FrameFields
    <3> HIDE DEF g
    <3> QED BY <1>2, <1>3, <1>5, <2>2, <3>1, <3>2
  <2> QED BY <2>1, <2>2
<1>7. CASE CheckModCount(t)
  <2> DEFINE g == [f EXCEPT !.pc = "fetch"]
  <2>1. Move(t, g) /\ Unanswered /\ f.pc = "next"
    BY <1>2, <1>7 DEF CheckModCount, Goto, At, Looping
  <2>2. /\ g.pc = "fetch" /\ g.op = f.op /\ g.overlapped = f.overlapped /\ g.id = f.id /\ g.body = f.body
        /\ g.loop = f.loop /\ g.cursor = f.cursor /\ g.expected = f.expected
    BY FrameFields
  <2> HIDE DEF g
  <2>3. Looping(g)
    BY <1>2, <2>1, <2>2 DEF Looping
  <2> QED BY <1>2, <1>5, <2>1, <2>2, <2>3
<1>8. CASE Fetch(t)
  <2> DEFINE i == f.cursor
             user == Before[i + 1]
  <2>1. i < size /\ ~(i >= size) /\ i \in Nat /\ i + 1 \in 0 .. size
    <3>1. f.pc = "fetch"
      BY <1>8 DEF Fetch, At
    <3> QED BY <1>2, <1>3, <3>1 DEF Looping
  <2>2. i + 1 \in DOMAIN Before /\ arr[i] # Null /\ heap[arr[i]] = user /\ ~(i >= length)
    BY <1>4, <2>1
  <2>3. CASE user.username = NoName
    <3>1. Answer(t, 500, <<>>)
      BY <1>2, <1>8, <2>1, <2>2, <2>3 DEF Fetch
    <3>2. /\ RegInv' /\ Exact /\ issued' = issued
          /\ wrote' = [op |-> "createUser", id |-> 0, body |-> f.body, status |-> 500, users |-> Before]
      BY <1>1, <1>2, <3>1, Refused
    <3>3. Atomic!Nameless
      BY <2>2, <2>3 DEF Atomic!Nameless, Before
    <3>4. Atomic!Create(f.body)
      BY <3>2, <3>3 DEF Atomic!Create, Atomic!Replied, Before
    <3> QED BY <1>2, <3>2, <3>4 DEF Good, Written, Atomic!Next
  <2>4. CASE user.username # NoName /\ SameName(f.body.username, user.username)
    <3>1. Answer(t, 409, <<>>)
      BY <1>2, <1>8, <2>1, <2>2, <2>4 DEF Fetch, Matches, Found, SameName
    <3>2. /\ RegInv' /\ Exact /\ issued' = issued
          /\ wrote' = [op |-> "createUser", id |-> 0, body |-> f.body, status |-> 409, users |-> Before]
      BY <1>1, <1>2, <3>1, Refused
    <3>3. Atomic!Taken(f.body.username)
      BY <2>2, <2>4 DEF Atomic!Taken, Before, SameName
    <3>4. Atomic!Create(f.body)
      BY <3>2, <3>3 DEF Atomic!Create, Atomic!Replied, Before
    <3> QED BY <1>2, <3>2, <3>4 DEF Good, Written, Atomic!Next
  <2>5. CASE user.username # NoName /\ ~SameName(f.body.username, user.username)
    <3> DEFINE g == [f EXCEPT !.pc = "hasNext", !.cursor = i + 1]
    <3>1. Move(t, g) /\ Unanswered
      BY <1>2, <1>8, <2>1, <2>2, <2>5 DEF Fetch, Matches, SameName
    <3>2. /\ g.pc = "hasNext" /\ g.op = f.op /\ g.overlapped = f.overlapped /\ g.id = f.id /\ g.body = f.body
          /\ g.loop = f.loop /\ g.cursor = f.cursor + 1 /\ g.expected = f.expected
      BY FrameFields
    <3> HIDE DEF g
    <3>3. Looping(g)
      BY <1>2, <2>1, <3>2 DEF Looping
    <3>4. NamesDiffer(f, g.cursor)
      <4>1. \A k \in 1 .. i + 1 : k \in 1 .. i \/ k = i + 1
        BY <2>1
      <4> QED BY <1>2, <2>5, <3>2, <4>1 DEF NamesDiffer
    <3> QED BY <1>2, <1>5, <3>1, <3>2, <3>3, <3>4
  <2> QED BY <2>3, <2>4, <2>5
<1> QED BY <1>6, <1>7, <1>8

\* From the loop over the names to the answer 201.
LEMMA Creates ==
  ASSUME OneWriter, IdInv, RegInv, NEW t \in Threads,
         Save(t) \/ Add(t) \/ Swap(t) \/ Refer(t) \/ Reserve(t) \/ Grow(t) \/ StoreNew(t)
  PROVE  Good
<1> DEFINE f == th[t]
<1>1. f.pc \in {"save", "add", "swap", "refer", "reserve", "grow", "append"} /\ requests' = requests
  BY DEF Save, Add, Swap, Refer, Reserve, Grow, StoreNew, At
<1>2. f.op = "createUser" /\ Writing(t) /\ f.body \in Representation
  BY <1>1, FrameFields DEF FrameOK, Holds, Writing, Writes
<1>3. /\ f.id = 0 /\ f.body \in Bodies /\ Len(Before) < Most /\ Kept(Before)
      /\ NamesDiffer(f, Len(Before)) /\ Slots(Len(Before), Before)
  BY <1>1, <1>2 DEF RegInv, WritePhase, Creating, Lists, Looping
<1>4. /\ Before \in Seq(Stored) /\ Objects /\ Most \in Nat /\ MaxSize \in Nat /\ Most <= MaxSize /\ Ids = 1 .. MaxSize
      /\ Len(Before) \in Nat /\ DOMAIN Before = 1 .. Len(Before) /\ Differing(Before)
      /\ counter \in Nat /\ DOMAIN heap = 1 .. counter /\ heap \in Seq(Stored) /\ counter <= Most
      /\ length \in Nat /\ size \in 0 .. length /\ arr \in [0 .. length - 1 -> Nat] /\ requests \in 0 .. MaxRequests
  BY Bounds DEF RegInv, Registered, Objects
<1>5. ASSUME NEW g, Move(t, g), g.op = f.op, g.id = f.id, g.body = f.body, g.pc \in {"add", "swap", "refer", "reserve", "grow", "append"},
             wrote' = wrote, issued' = issued, read' = read, Objects',
             th'[t] = g => Creating(th[t])'
      PROVE  Good
  <2>1. th' = [th EXCEPT ![t] = g] /\ th'[t] = g
    BY <1>5, OtherFrames DEF Move
  <2>2. Registered'
    BY <1>1, <1>5 DEF RegInv, Registered, Before, Differing, Most
  <2>3. WritePhase(th[t])'
    BY <1>2, <1>5, <2>1 DEF WritePhase
  <2>4. PlaceOK(g)
    BY <1>2, <1>5 DEF PlaceOK
  <2> QED BY <1>2, <1>5, <2>1, <2>2, <2>3, <2>4, WriterMoves DEF Good, Written, Exact
<1>6. CASE Save(t)
  <2> DEFINE user == User(counter + 1, f.body)
             g == [f EXCEPT !.pc = "add", !.obj = Len(heap')]
  <2>1. f.pc = "save" /\ Lists(Before) /\ counter < Most
    BY <1>2, <1>6 DEF Save, At, RegInv, WritePhase, Creating, Looping
  <2>2. /\ counter' = counter + 1 /\ heap' = Append(heap, user) /\ Move(t, g)
        /\ UNCHANGED <<arr, length, copies, size, modCount, issued, wrote, read>>
    BY <1>6 DEF Save, ListUnchanged, Unanswered, list, array
  <2>3. user \in Stored /\ user.id = counter + 1
    BY <1>2, <1>4 DEF User, Stored, Representation
  <2>4. /\ heap' \in Seq(Stored) /\ Len(heap') = counter + 1 /\ DOMAIN heap' = 1 .. counter + 1
        /\ heap'[counter + 1] = user /\ \A i \in 1 .. counter : heap'[i] = heap[i]
    <3> HIDE DEF user
    <3> QED BY <1>4, <2>2, <2>3 DEF Objects
  <2>5. g.pc = "add" /\ g.op = f.op /\ g.id = f.id /\ g.body = f.body /\ g.obj = counter + 1
    BY <2>4, FrameFields
  <2> HIDE DEF g, user
  <2>6. Objects'
    <3>1. ASSUME NEW i \in DOMAIN heap' PROVE heap'[i].id = i
      <4>1. i \in 1 .. counter \/ i = counter + 1
        BY <1>4, <2>4
      <4>2. \A k \in 1 .. counter : heap[k].id = k
        BY <1>4 DEF Objects
      <4> QED BY <2>3, <2>4, <4>1, <4>2
    <3>2. /\ Most' = Most /\ requests' \in 0 .. MaxRequests
          /\ length' \in Nat /\ size' \in 0 .. length' /\ arr' \in [0 .. length' - 1 -> Nat]
      BY <1>1, <1>4, <2>2 DEF Objects, Most
    <3>3. counter' = Len(heap') /\ counter' <= Most
      BY <1>4, <2>1, <2>2, <2>4
    <3> QED BY <2>4, <3>1, <3>2, <3>3 DEF Objects
  <2>7. ASSUME th'[t] = g PROVE Creating(th[t])'
    <3>1. Before' = Before /\ Most' = Most
      BY <1>1, <2>2 DEF Before, Most
    <3>2. \A i \in DOMAIN Before : Before[i].id \in 1 .. counter
      BY <1>3, <1>4 DEF Kept
    <3>3. Lists(Before)'
      BY <1>4, <2>1, <2>2, <2>4, <3>1, <3>2 DEF Lists, Slots, Kept
    <3>4. New(th[t])'
      BY <1>4, <2>2, <2>4, <2>5, <2>7, <3>1, <3>2 DEF New, user
    <3>5. NamesDiffer(th[t], Len(Before))'
      BY <1>3, <2>5, <2>7, <3>1 DEF NamesDiffer
    <3> QED BY <1>3, <2>5, <2>7, <3>1, <3>3, <3>4, <3>5 DEF Creating
  <2> QED BY <1>5, <2>2, <2>5, <2>6, <2>7
<1>7. ASSUME NEW g, Move(t, g), g.op = f.op, g.id = f.id, g.body = f.body, g.obj = f.obj, New(f), Lists(Before),
             UNCHANGED <<heap, arr, length, copies, counter, issued, wrote, read>>,
             \/ size' = size /\ g.pc = "swap" /\ Copied(g)
             \/ size' = size /\ g.pc = "refer" /\ size < length
             \/ size' = size /\ g.pc = "reserve" /\ size < length /\ Referred(g)
             \/ size' = size /\ g.pc = "grow" /\ g.index = size /\ size < length /\ Referred(g)
             \/ size' = size + 1 /\ g.pc = "append" /\ g.index = size /\ size < length /\ Referred(g)
      PROVE  Good
  <2>1. Before' = Before /\ Most' = Most
    BY <1>1, <1>7 DEF Before, Most
  <2>2. size = Len(Before) /\ size' \in 0 .. length
    BY <1>4, <1>7 DEF Lists
  <2>3. Objects'
    BY <1>1, <1>4, <1>7, <2>1, <2>2 DEF Objects
  <2>4. ASSUME th'[t] = g PROVE Creating(th[t])'
    <3>1. New(th[t])' /\ NamesDiffer(th[t], Len(Before))' /\ Kept(Before)' /\ Slots(Len(Before), Before)'
      BY <1>3, <1>7, <2>1, <2>4 DEF New, NamesDiffer, Kept, Slots
    <3>2. size' = size => Lists(Before)'
      BY <2>1, <2>2, <3>1 DEF Lists, Slots
    <3>3. size' = size /\ Copied(g) => Copied(th[t])'
      BY <2>1, <2>4 DEF Copied
    <3>4. Referred(g) => Referred(th[t])'
      BY <1>7, <2>4 DEF Referred
    <3> QED BY <1>3, <1>7, <2>1, <2>2, <2>4, <3>1, <3>2, <3>3, <3>4 DEF Creating
  <2> QED BY <1>5, <1>7, <2>3, <2>4
<1>10. CASE Add(t)
  <2>1. f.pc = "add" /\ Lists(Before) /\ New(f)
    BY <1>2, <1>10 DEF Add, At, RegInv, WritePhase, Creating, Looping
  <2>2. UNCHANGED <<heap, arr, length, copies, size, counter, issued, wrote, read>>
    BY <1>10 DEF Add, Unanswered, array
  <2>3. CASE size + 1 <= length
    <3> DEFINE g == [f EXCEPT !.pc = "refer"]
    <3>1. Move(t, g)
      BY <1>10, <2>3 DEF Add, Goto
    <3>2. g.pc = "refer" /\ g.op = f.op /\ g.id = f.id /\ g.body = f.body /\ g.obj = f.obj /\ size < length
      BY <1>4, <2>3, FrameFields
    <3> HIDE DEF g
    <3> QED BY <1>7, <2>1, <2>2, <3>1, <3>2
  <2>4. CASE ~(size + 1 <= length)
    <3> DEFINE room == GrownTo(size + 1)
               g == [f EXCEPT !.pc = "swap", !.room = room, !.copy = CopyOf(room)]
    <3>1. Move(t, g)
      BY <1>10, <2>4 DEF Add
    <3>2. room \in Nat /\ size < room /\ size = length
      BY <1>4, <2>4 DEF GrownTo
    <3> HIDE DEF room
    <3>3. /\ g.pc = "swap" /\ g.op = f.op /\ g.id = f.id /\ g.body = f.body /\ g.obj = f.obj
          /\ g.room = room /\ g.copy = CopyOf(room)
      BY FrameFields
    <3> HIDE DEF g
    <3>4. ASSUME NEW i \in 0 .. room - 1
          PROVE  CopyOf(room)[i] \in Nat /\ CopyOf(room)[i] = IF i < size THEN Before[i + 1].id ELSE Null
      <4>1. CopyOf(room)[i] = IF i < length THEN arr[i] ELSE Null
        BY DEF CopyOf
      <4>2. i < length => i \in 0 .. length - 1
        BY <1>4, <3>2
      <4> QED BY <1>4, <2>1, <3>2, <4>1, <4>2 DEF Lists, Slots, Null
    <3>5. CopyOf(room) \in [0 .. room - 1 -> Nat]
      BY <3>4 DEF CopyOf
    <3>6. Copied(g)
      BY <3>2, <3>3, <3>4, <3>5 DEF Copied
    <3> QED BY <1>7, <2>1, <2>2, <3>1, <3>3, <3>6
  <2> QED BY <2>3, <2>4
<1>11. CASE Swap(t)
  <2> DEFINE g == [f EXCEPT !.pc = "refer", !.copy = <<>>]
  <2>1. f.pc = "swap" /\ Lists(Before) /\ New(f) /\ Copied(f)
    BY <1>2, <1>11 DEF Swap, At, RegInv, WritePhase, Creating, Looping
  <2>2. /\ UNCHANGED <<heap, size, counter, issued, wrote, read>> /\ Move(t, g)
        /\ arr' = f.copy /\ length' = f.room
    BY <1>11 DEF Swap, Unanswered
  <2>3. g.pc = "refer" /\ g.op = f.op /\ g.id = f.id /\ g.body = f.body /\ g.obj = f.obj
    BY FrameFields
  <2> HIDE DEF g
  <2>4. /\ size' < length' /\ length' \in Nat /\ size' \in 0 .. length' /\ arr' \in [0 .. length' - 1 -> Nat]
        /\ \A i \in DOMAIN arr' : arr'[i] = IF i < size' THEN Before[i + 1].id ELSE Null
    <3> DEFINE m == f.room
               c == f.copy
    <3>1. /\ m \in Nat /\ size < m /\ c \in [0 .. m - 1 -> Nat] /\ size \in Nat
          /\ \A i \in 0 .. m - 1 : c[i] = IF i < size THEN Before[i + 1].id ELSE Null
      BY <1>4, <2>1 DEF Copied
    <3>2. length' = m /\ arr' = c /\ size' = size
      BY <2>2
    <3> HIDE DEF m, c
    <3>3. size \in 0 .. m /\ DOMAIN c = 0 .. m - 1
      BY <3>1
    <3> QED BY <3>1, <3>2, <3>3
  <2>5. Objects'
    BY <1>1, <1>4, <2>2, <2>4 DEF Objects, Most
  <2>6. ASSUME th'[t] = g PROVE Creating(th[t])'
    <3>1. Before' = Before /\ Most' = Most
      BY <1>1, <2>2 DEF Before, Most
    <3>2. New(th[t])' /\ NamesDiffer(th[t], Len(Before))' /\ Kept(Before)'
      BY <1>3, <2>1, <2>2, <2>3, <2>6, <3>1 DEF New, NamesDiffer, Kept
    <3>3. Slots(size, Before)'
      BY <2>4, <3>1 DEF Slots
    <3>4. Lists(Before)'
      BY <2>1, <2>2, <3>1, <3>2, <3>3 DEF Lists
    <3> QED BY <1>3, <2>3, <2>4, <2>6, <3>1, <3>2, <3>4 DEF Creating
  <2> QED BY <1>5, <2>2, <2>3, <2>5, <2>6
<1>12. CASE Refer(t)
  <2> DEFINE g == [f EXCEPT !.pc = "reserve", !.into = copies, !.room = length]
  <2>1. f.pc = "refer" /\ Lists(Before) /\ New(f) /\ size < length
    BY <1>2, <1>12 DEF Refer, At, RegInv, WritePhase, Creating, Looping
  <2>2. UNCHANGED <<heap, arr, length, copies, size, counter, issued, wrote, read>> /\ Move(t, g)
    BY <1>12 DEF Refer, Unanswered, DataUnchanged, list, array
  <2>3. /\ g.pc = "reserve" /\ g.op = f.op /\ g.id = f.id /\ g.body = f.body /\ g.obj = f.obj
        /\ g.into = copies /\ g.room = length
    BY FrameFields
  <2> HIDE DEF g
  <2>4. Referred(g)
    BY <2>3 DEF Referred
  <2> QED BY <1>7, <2>1, <2>2, <2>3, <2>4
<1>13. CASE Reserve(t)
  <2> DEFINE g == [f EXCEPT !.pc = "grow", !.index = size]
  <2>1. f.pc = "reserve" /\ Lists(Before) /\ New(f) /\ size < length /\ Referred(f)
    BY <1>2, <1>13 DEF Reserve, At, RegInv, WritePhase, Creating, Looping
  <2>2. UNCHANGED <<heap, arr, length, copies, size, counter, issued, wrote, read>> /\ Move(t, g)
    BY <1>13 DEF Reserve, Unanswered, DataUnchanged, list, array
  <2>3. /\ g.pc = "grow" /\ g.op = f.op /\ g.id = f.id /\ g.body = f.body /\ g.obj = f.obj /\ g.index = size
        /\ g.into = f.into /\ g.room = f.room
    BY FrameFields
  <2> HIDE DEF g
  <2>4. Referred(g)
    BY <2>1, <2>3 DEF Referred
  <2> QED BY <1>7, <2>1, <2>2, <2>3, <2>4
<1>8. CASE Grow(t)
  <2> DEFINE g == [f EXCEPT !.pc = "append"]
  <2>1. f.pc = "grow" /\ Lists(Before) /\ New(f) /\ f.index = size /\ size < length /\ Referred(f)
    BY <1>2, <1>8 DEF Grow, At, RegInv, WritePhase, Creating, Looping
  <2>2. UNCHANGED <<heap, arr, length, copies, counter, issued, wrote, read>> /\ size' = f.index + 1 /\ Move(t, g)
    BY <1>8 DEF Grow, Goto, Unanswered, array
  <2>3. /\ g.pc = "append" /\ g.op = f.op /\ g.id = f.id /\ g.body = f.body /\ g.obj = f.obj /\ g.index = f.index
        /\ g.into = f.into /\ g.room = f.room
    BY FrameFields
  <2> HIDE DEF g
  <2>4. Referred(g)
    BY <2>1, <2>3 DEF Referred
  <2> QED BY <1>7, <2>1, <2>2, <2>3, <2>4
<1>9. CASE StoreNew(t)
  <2> DEFINE user == User(counter, f.body)
             n == Len(Before)
  <2>1. f.pc = "append" /\ New(f) /\ f.index = n /\ size = n + 1 /\ f.into = copies /\ f.room = length
    BY <1>2, <1>9 DEF StoreNew, At, RegInv, WritePhase, Creating, Referred, Looping
  <2>2. /\ arr' = [arr EXCEPT ![n] = counter] /\ Answer(t, 201, <<>>)
        /\ UNCHANGED <<heap, length, copies, size, modCount, counter>>
    <3>1. n \in 0 .. length - 1
      BY <1>4, <2>1
    <3>2. ~(f.index \notin 0 .. f.room - 1)
      BY <2>1, <3>1
    <3>3. f.obj = counter
      BY <2>1 DEF New
    <3> QED BY <1>9, <2>1, <3>2, <3>3 DEF StoreNew
  <2>3. counter \in DOMAIN heap /\ heap[counter] = user /\ user.id = counter /\ user \in Stored /\ counter \notin issued
    <3>1. Holds(f)
      BY <2>1 DEF Holds
    <3>2. counter \in DOMAIN heap /\ heap[counter].id \notin issued
      BY <2>1, <3>1 DEF IdInv, HeldIdsFresh, New
    <3>3. heap[counter] = user
      BY <2>1 DEF New
    <3>4. user.id = counter
      BY DEF User
    <3> HIDE DEF user
    <3> QED BY <1>4, <3>2, <3>3, <3>4
  <2> HIDE DEF user
  <2>0. PICK V : V = Append(Before, user)
    OBVIOUS
  <2>4. /\ V \in Seq(Stored) /\ Len(V) = n + 1 /\ DOMAIN V = 1 .. n + 1
        /\ V[n + 1] = user /\ \A i \in 1 .. n : V[i] = Before[i]
    BY <1>4, <2>0, <2>3, AppendProperties
  <2>5. Differing(V)
    <3>1. \A i \in 1 .. n : Before[i].id < counter /\ Before[i].id \in Nat
      <4>1. \A i \in 1 .. n : Before[i].id \in DOMAIN heap /\ Before[i].id < counter
        BY <1>3, <1>4, <2>1 DEF New, Kept
      <4>2. \A d \in DOMAIN heap : d \in Nat
        BY <1>4
      <4> QED BY <4>1, <4>2
    <3>2. \A i, j \in 1 .. n : Before[i].id = Before[j].id => i = j
      BY <1>4 DEF Differing
    <3>3. \A i \in 1 .. n + 1 : i \in 1 .. n \/ i = n + 1
      BY <1>4
    <3>4. \A i \in 1 .. n : Before[i].id # counter
      BY <1>4, <3>1
    <3> QED BY <2>3, <2>4, <3>2, <3>3, <3>4 DEF Differing
  <2>6. Objects'
    BY <1>1, <1>4, <2>2 DEF Objects, Most
  <2>7. Lists(V)'
    <3>1. ASSUME NEW i \in DOMAIN arr' PROVE arr'[i] = IF i < n + 1 THEN V[i + 1].id ELSE Null
      <4>0. DOMAIN arr = 0 .. length - 1 /\ DOMAIN arr' = DOMAIN arr
        BY <1>4, <2>2
      <4>1. i \in DOMAIN arr /\ i \in Nat /\ n \in DOMAIN arr
        BY <1>3, <1>4, <2>1, <3>1, <4>0
      <4>2. arr'[i] = IF i = n THEN counter ELSE IF i < n THEN Before[i + 1].id ELSE Null
        BY <1>3, <2>2, <4>1 DEF Slots
      <4>3. i < n => i + 1 \in 1 .. n
        BY <1>4, <4>1
      <4> QED BY <1>4, <2>3, <2>4, <4>1, <4>2, <4>3
    <3>2. \A i \in DOMAIN V : V[i].id \in DOMAIN heap /\ heap[V[i].id] = V[i]
      <4>1. \A i \in 1 .. n + 1 : i \in 1 .. n \/ i = n + 1
        BY <1>4
      <4> QED BY <1>3, <1>4, <2>3, <2>4, <4>1 DEF Kept
    <3> QED BY <2>1, <2>2, <2>4, <3>1, <3>2 DEF Lists, Slots, Kept
  <2>8. /\ th' = [th EXCEPT ![t] = Idle] /\ issued' = issued \cup {counter} /\ read' = read
        /\ wrote' = [op |-> "createUser", id |-> counter, body |-> f.body, status |-> 201, users |-> Contents']
    BY <1>2, <2>1, <2>2, <2>3 DEF Answer, Move, New
  <2>9. Contents' = V
    BY <1>3, <1>4, <2>4, <2>6, <2>7, ContentsListedNext
  <2>10. Before' = V
    BY <2>8, <2>9 DEF Before
  <2>11. Registered' /\ Lists(Before)'
    BY <1>1, <1>3, <1>4, <2>4, <2>5, <2>6, <2>7, <2>10 DEF Registered, Differing, Lists, Slots, Kept, Most
  <2>12. RegInv'
    BY <1>2, <2>8, <2>11, WriterAnswers
  <2>13. Atomic!Create(f.body)
    <3>1. ~Atomic!Taken(f.body.username) /\ ~Atomic!Nameless
      BY <1>3, <1>4 DEF NamesDiffer, SameName, Before, Atomic!Taken, Atomic!Nameless
    <3>2. counter \in Ids \ issued
      BY <1>4, <2>3
    <3>3. Atomic!WithId(counter, f.body) = user
      BY DEF Atomic!WithId, User, user
    <3>4. wrote'.users = Append(wrote.users, Atomic!WithId(counter, f.body))
      BY <2>0, <2>8, <2>9, <3>3 DEF Before
    <3>5. Atomic!Replied("createUser", counter, f.body, 201)
      BY <2>8 DEF Atomic!Replied
    <3> QED BY <2>8, <3>1, <3>2, <3>4, <3>5 DEF Atomic!Create
  <2> QED BY <1>3, <2>8, <2>12, <2>13 DEF Good, Written, Atomic!Next, Exact
<1> QED BY <1>6, <1>8, <1>9, <1>10, <1>11, <1>12, <1>13

\* PUT: the loop that looks the user up.
LEMMA UpdateLoops ==
  ASSUME OneWriter, IdInv, RegInv, NEW t \in Threads, th[t].op = "updateUser", HasNext(t) \/ CheckModCount(t) \/ Fetch(t)
  PROVE  Good
<1> DEFINE f == th[t]
<1>1. f.pc \in {"hasNext", "next", "fetch"} /\ UNCHANGED <<heap, list, counter, requests>> /\ Writing(t)
  BY DEF HasNext, CheckModCount, Fetch, At, DataUnchanged, Writing, Writes
<1>2. f.id \in Ids /\ f.body \in Bodies /\ Looping(f) /\ f.loop = "findById" /\ Lists(Before) /\ IdsDiffer(f, f.cursor)
  BY <1>1 DEF RegInv, WritePhase, Updating
<1>3. /\ Before \in Seq(Stored) /\ Objects /\ Len(Before) <= MaxSize
      /\ Len(Before) \in Nat /\ DOMAIN Before = 1 .. Len(Before) /\ size = Len(Before)
  BY <1>2, Bounds DEF RegInv, Registered, Lists
<1>4. ASSUME f.cursor < size
      PROVE  /\ f.cursor + 1 \in DOMAIN Before /\ arr[f.cursor] # Null /\ arr[f.cursor] = Before[f.cursor + 1].id
             /\ heap[arr[f.cursor]] = Before[f.cursor + 1] /\ arr[f.cursor] \in DOMAIN heap /\ ~(f.cursor >= length)
  <2>1. length \in Nat
    BY <1>3 DEF Objects
  <2> QED BY <1>2, <1>3, <1>4, <2>1, SlotOf DEF Looping
<1>5. ASSUME NEW g, Move(t, g), Unanswered, g.op = f.op, g.overlapped = f.overlapped, g.id = f.id, g.body = f.body,
             Looping(g) /\ g.loop = "findById" /\ IdsDiffer(f, g.cursor)
      PROVE  Good
  <2>1. PlaceOK(g) /\ f.pc # "idle"
    BY <1>1, <1>5 DEF PlaceOK, Looping
  <2>2. WritePhase(g)
    BY <1>2, <1>5 DEF WritePhase, Updating, IdsDiffer
  <2> QED BY <1>1, <1>5, <2>1, <2>2, WriteGoesOn
<1>6. CASE HasNext(t)
  <2>1. CASE f.cursor # size
    <3> DEFINE g == [f EXCEPT !.pc = "next"]
    <3>1. Move(t, g) /\ Unanswered
      BY <1>6, <2>1 DEF HasNext, Goto
    <3>2. /\ g.pc = "next" /\ g.op = f.op /\ g.overlapped = f.overlapped /\ g.id = f.id /\ g.body = f.body
          /\ g.loop = f.loop /\ g.cursor = f.cursor /\ g.expected = f.expected
      BY FrameFields
    <3> HIDE DEF g
    <3>3. Looping(g)
      BY <1>2, <1>3, <2>1, <3>2 DEF Looping
    <3> QED BY <1>2, <1>5, <3>1, <3>2, <3>3
  <2>2. CASE f.cursor = size
    <3>1. Answer(t, 404, <<>>)
      BY <1>2, <1>6, <2>2 DEF HasNext, AfterLoop
    <3>2. /\ RegInv' /\ Exact /\ issued' = issued
          /\ wrote' = [op |-> "updateUser", id |-> f.id, body |-> f.body, status |-> 404, users |-> Before]
      BY <1>1, <1>2, <3>1, Refused
    <3>3. \A i \in DOMAIN Before : Before[i].id # f.id
      BY <1>2, <1>3, <2>2 DEF IdsDiffer
    <3>4. Before = [i \in DOMAIN Before |-> IF Before[i].id = f.id THEN Atomic!WithId(f.id, f.body) ELSE Before[i]]
      <4>1. Before = [i \in DOMAIN Before |-> Before[i]]
        BY <1>3
      <4> QED BY <3>3, <4>1
    <3>5. Atomic!Update(f.id, f.body)
      BY <3>2, <3>3, <3>4 DEF Atomic!Update, Atomic!Replied, Atomic!Listed, Before
    <3> QED BY <1>2, <3>2, <3>5 DEF Good, Written, Atomic!Next
  <2> QED BY <2>1, <2>2
<1>7. CASE CheckModCount(t)
  <2> DEFINE g == [f EXCEPT !.pc = "fetch"]
  <2>1. Move(t, g) /\ Unanswered /\ f.pc = "next"
    BY <1>2, <1>7 DEF CheckModCount, Goto, At, Looping
  <2>2. /\ g.pc = "fetch" /\ g.op = f.op /\ g.overlapped = f.overlapped /\ g.id = f.id /\ g.body = f.body
        /\ g.loop = f.loop /\ g.cursor = f.cursor /\ g.expected = f.expected
    BY FrameFields
  <2> HIDE DEF g
  <2>3. Looping(g)
    BY <1>2, <2>1, <2>2 DEF Looping
  <2> QED BY <1>2, <1>5, <2>1, <2>2, <2>3
<1>8. CASE Fetch(t)
  <2> DEFINE i == f.cursor
             user == Before[i + 1]
  <2>1. i < size /\ ~(i >= size) /\ i \in Nat /\ i + 1 \in 0 .. size
    <3>1. f.pc = "fetch"
      BY <1>8 DEF Fetch, At
    <3> QED BY <1>2, <1>3, <3>1 DEF Looping
  <2>2. i + 1 \in DOMAIN Before /\ arr[i] # Null /\ heap[arr[i]] = user /\ arr[i] = user.id /\ arr[i] \in DOMAIN heap
      /\ ~(i >= length)
    BY <1>4, <2>1
  <2>3. CASE user.id = f.id
    <3> DEFINE g == [f EXCEPT !.pc = "set", !.obj = arr[i], !.index = 1]
    <3>1. Move(t, g) /\ Unanswered
      BY <1>2, <1>8, <2>1, <2>2, <2>3 DEF Fetch, Matches, Found
    <3>2. /\ g.pc = "set" /\ g.op = f.op /\ g.overlapped = f.overlapped /\ g.id = f.id /\ g.body = f.body
          /\ g.obj = f.id /\ g.index = 1
      BY <2>2, <2>3, FrameFields
    <3> HIDE DEF g
    <3>3. Editing(g)
      BY <1>2, <1>3, <2>2, <2>3, <3>2 DEF Editing, Lists, Kept, IdsIn
    <3>4. WritePhase(g) /\ PlaceOK(g)
      BY <1>2, <3>2, <3>3 DEF WritePhase, Updating, PlaceOK
    <3> QED BY <1>1, <3>1, <3>2, <3>4, WriteGoesOn
  <2>4. CASE user.id # f.id
    <3> DEFINE g == [f EXCEPT !.pc = "hasNext", !.cursor = i + 1]
    <3>1. Move(t, g) /\ Unanswered
      BY <1>2, <1>8, <2>1, <2>2, <2>4 DEF Fetch, Matches
    <3>2. /\ g.pc = "hasNext" /\ g.op = f.op /\ g.overlapped = f.overlapped /\ g.id = f.id /\ g.body = f.body
          /\ g.loop = f.loop /\ g.cursor = f.cursor + 1 /\ g.expected = f.expected
      BY FrameFields
    <3> HIDE DEF g
    <3>3. Looping(g)
      BY <1>2, <2>1, <3>2 DEF Looping
    <3>4. IdsDiffer(f, g.cursor)
      <4>1. \A k \in 1 .. i + 1 : k \in 1 .. i \/ k = i + 1
        BY <2>1
      <4> QED BY <1>2, <2>4, <3>2, <4>1 DEF IdsDiffer
    <3> QED BY <1>2, <1>5, <3>1, <3>2, <3>3, <3>4
  <2> QED BY <2>3, <2>4
<1> QED BY <1>6, <1>7, <1>8

\* PUT: the fields, one by one.
LEMMA UpdateSets ==
  ASSUME OneWriter, IdInv, RegInv, NEW t \in Threads, SetField(t)
  PROVE  Good
<1> DEFINE f == th[t]
           o == f.id
           field == Fields[f.index]
<1>1. f.pc = "set" /\ f.op = "updateUser" /\ Writing(t) /\ requests' = requests
  BY DEF SetField, At, RegInv, Owned, PlaceOK, Writing, Writes
<1>2. /\ f.id \in Ids /\ f.body \in Bodies /\ Editing(f) /\ f.index \in 1 .. 3 /\ f.obj = o
      /\ f.index > 1 => heap[o].username = f.body.username
      /\ f.index > 2 => heap[o].address = f.body.address
  BY <1>1 DEF RegInv, WritePhase, Updating, Looping, Editing
<1>3. f.body \in Representation
  BY FrameFields DEF FrameOK
<1>4. field \in {"username", "address", "email"} /\ f.body[field] \in STRING
  BY <1>2, <1>3 DEF Fields, Representation
<1>5. Objects /\ heap \in Seq(Stored) /\ o \in DOMAIN heap /\ heap[o] \in Stored /\ heap[o].id = o
  BY <1>2 DEF RegInv, Registered, Objects, Editing
<1>6. /\ heap' = [heap EXCEPT ![o] = [heap[o] EXCEPT ![field] = f.body[field]]]
      /\ UNCHANGED <<arr, length, size, modCount, counter, issued, wrote, read>>
  BY <1>2 DEF SetField, ListUnchanged, Unanswered, list, array
<1> HIDE DEF field
<1>7. /\ [heap[o] EXCEPT ![field] = f.body[field]] \in Stored
      /\ [heap[o] EXCEPT ![field] = f.body[field]].id = o
      /\ \A d \in {"username", "address", "email"} :
           [heap[o] EXCEPT ![field] = f.body[field]][d] = IF d = field THEN f.body[d] ELSE heap[o][d]
  BY <1>4, <1>5 DEF Stored
<1>8. /\ heap' \in Seq(Stored) /\ DOMAIN heap' = DOMAIN heap /\ Len(heap') = Len(heap)
      /\ \A i \in DOMAIN heap : i # o => heap'[i] = heap[i]
      /\ heap'[o] \in Stored /\ heap'[o].id = o
      /\ \A d \in {"username", "address", "email"} : heap'[o][d] = IF d = field THEN f.body[d] ELSE heap[o][d]
  <2> DEFINE r == [heap[o] EXCEPT ![field] = f.body[field]]
  <2> HIDE DEF r
  <2>1. heap' = [heap EXCEPT ![o] = r] /\ r \in Stored
    BY <1>6, <1>7 DEF r
  <2>2. /\ heap' \in Seq(Stored) /\ DOMAIN heap' = DOMAIN heap /\ Len(heap') = Len(heap)
        /\ \A i \in DOMAIN heap : i # o => heap'[i] = heap[i]
        /\ heap'[o] = r
    BY <1>5, <2>1
  <2> QED BY <1>7, <2>1, <2>2 DEF r
<1>9. Objects'
  <2>1. \A i \in DOMAIN heap' : heap'[i].id = i
    BY <1>5, <1>8 DEF Objects
  <2> QED BY <1>1, <1>5, <1>6, <1>8, <2>1 DEF Objects, Most
<1>10. Registered'
  BY <1>1, <1>6, <1>9 DEF RegInv, Registered, Before, Differing, Most
<1>11. ASSUME NEW g, Move(t, g), g.op = f.op, g.id = f.id, g.obj = f.obj, g.pc \in {"set", "indexOf"},
              th'[t] = g => Updating(th[t])'
       PROVE  Good
  <2>1. th' = [th EXCEPT ![t] = g] /\ th'[t] = g
    BY <1>11, OtherFrames DEF Move
  <2>2. WritePhase(th[t])' /\ PlaceOK(g)
    BY <1>1, <1>11, <2>1 DEF WritePhase, PlaceOK
  <2> QED BY <1>1, <1>6, <1>10, <1>11, <2>1, <2>2, WriterMoves DEF Good, Written, Exact
<1>12. ASSUME NEW g, th'[t] = g, g.id = f.id, g.obj = f.obj
       PROVE  Editing(th[t])'
  BY SMTT(20), <1>2, <1>6, <1>8, <1>12 DEF Editing, Slots, Before, IdsIn
<1>13. CASE f.index < 3
  <2> DEFINE g == [f EXCEPT !.index = f.index + 1]
  <2>1. Move(t, g)
    BY <1>13 DEF SetField, Fields
  <2>2. g.pc = "set" /\ g.op = f.op /\ g.id = f.id /\ g.body = f.body /\ g.obj = f.obj /\ g.index = f.index + 1
    BY <1>1, FrameFields
  <2> HIDE DEF g
  <2>3. /\ f.index + 1 \in 1 .. 3
        /\ f.index + 1 > 1 => heap'[o].username = f.body.username
        /\ f.index + 1 > 2 => heap'[o].address = f.body.address
    <3>1. field = IF f.index = 1 THEN "username" ELSE "address"
      BY <1>2, <1>13 DEF field, Fields
    <3> QED BY <1>2, <1>8, <1>13, <3>1
  <2>4. ASSUME th'[t] = g PROVE Updating(th[t])'
    BY <1>2, <1>12, <2>2, <2>3, <2>4 DEF Updating, Ids
  <2> QED BY <1>11, <2>1, <2>2, <2>4
<1>14. CASE f.index = 3
  <2> DEFINE g == [f EXCEPT !.pc = "indexOf", !.index = 0]
  <2>1. Move(t, g)
    BY <1>14 DEF SetField, Fields
  <2>2. g.pc = "indexOf" /\ g.op = f.op /\ g.id = f.id /\ g.body = f.body /\ g.obj = f.obj /\ g.index = 0
    BY FrameFields
  <2> HIDE DEF g
  <2>3. heap'[o] = User(o, f.body)
    <3>1. field = "email"
      BY <1>14 DEF field, Fields
    <3>2. heap'[o].username = f.body.username /\ heap'[o].address = f.body.address /\ heap'[o].email = f.body.email
      BY <1>2, <1>8, <1>14, <3>1
    <3> QED BY <1>8, <3>2 DEF Stored, User
  <2>4. ASSUME th'[t] = g PROVE Updating(th[t])'
    <3>1. 0 \in 0 .. size'
      BY <1>2, <1>6, <1>10 DEF Editing, Registered
    <3> QED BY <1>2, <1>12, <2>2, <2>3, <2>4, <3>1 DEF Updating, Ids, IdsDiffer
  <2> QED BY <1>11, <2>1, <2>2, <2>4
<1> QED BY <1>2, <1>13, <1>14

\* PUT: the place of the user is found, and the object is stored there.
LEMMA UpdateStores ==
  ASSUME OneWriter, IdInv, RegInv, NEW t \in Threads, IndexOf(t) \/ Store(t)
  PROVE  Good
<1> DEFINE f == th[t]
           i == f.index
           user == User(f.id, f.body)
<1>1. f.pc \in {"indexOf", "store"} /\ f.op = "updateUser" /\ Writing(t) /\ requests' = requests
  BY DEF IndexOf, Store, At, RegInv, Owned, PlaceOK, Writing, Writes
<1>2. f.id \in Ids /\ f.body \in Bodies /\ Editing(f) /\ heap[f.id] = user
  BY <1>1 DEF RegInv, WritePhase, Updating, Looping
<1>3. /\ Before \in Seq(Stored) /\ Differing(Before) /\ Objects /\ Len(Before) <= Most /\ Most <= MaxSize
      /\ Len(Before) \in Nat /\ DOMAIN Before = 1 .. Len(Before) /\ size = Len(Before)
      /\ DOMAIN arr = 0 .. length - 1 /\ length \in Nat /\ size <= length /\ Most \in Nat /\ 0 \notin DOMAIN heap
  BY <1>2, Bounds DEF RegInv, Registered, Editing, Objects
<1>4. ASSUME NEW k \in 0 .. size - 1
      PROVE  k + 1 \in DOMAIN Before /\ k \in DOMAIN arr /\ arr[k] = Before[k + 1].id /\ arr[k] \in DOMAIN heap /\ arr[k] # Null
             /\ heap[arr[k]].id = arr[k]
  <2>1. k + 1 \in DOMAIN Before /\ k \in DOMAIN arr /\ k < size
    BY <1>3
  <2>2. arr[k] = Before[k + 1].id /\ arr[k] \in DOMAIN heap
    BY <1>2, <2>1 DEF Editing, Slots
  <2> QED BY <1>3, <2>1, <2>2 DEF Objects, Null
<1>5. CASE IndexOf(t)
  <2>1. f.pc = "indexOf" /\ i \in 0 .. size /\ IdsDiffer(f, i) /\ UNCHANGED <<heap, list, counter, requests>>
    BY <1>1, <1>5 DEF IndexOf, At, RegInv, WritePhase, Updating, DataUnchanged, Looping
  <2>2. i < size
    <3>1. i # size
      BY <1>2, <1>3, <2>1 DEF IdsDiffer, Editing, IdsIn
    <3> QED BY <1>3, <2>1, <3>1
  <2>3. i \in 0 .. size - 1 /\ ~(i >= size) /\ ~(i < size /\ i >= length) /\ i + 1 \in 0 .. size
    BY <1>3, <2>1, <2>2
  <2>7. Unanswered
    BY <1>5, <2>3 DEF IndexOf
  <2>4. heap[f.obj].id = f.id
    BY <1>2, <1>3 DEF Editing, Objects
  <2>5. CASE Before[i + 1].id = f.id
    <3> DEFINE g == [f EXCEPT !.pc = "store"]
    <3>1. Move(t, g)
      BY <1>4, <1>5, <2>3, <2>4, <2>5 DEF IndexOf
    <3>2. /\ g.pc = "store" /\ g.op = f.op /\ g.overlapped = f.overlapped /\ g.id = f.id /\ g.body = f.body
          /\ g.obj = f.obj /\ g.index = i
      BY FrameFields
    <3> HIDE DEF g
    <3>3. WritePhase(g) /\ PlaceOK(g)
      BY <1>1, <1>2, <2>3, <2>5, <3>2 DEF WritePhase, Updating, Editing, PlaceOK
    <3> QED BY <1>1, <2>1, <2>7, <3>1, <3>2, <3>3, WriteGoesOn
  <2>6. CASE Before[i + 1].id # f.id
    <3> DEFINE g == [f EXCEPT !.index = i + 1]
    <3>1. Move(t, g)
      BY <1>4, <1>5, <2>3, <2>4, <2>6 DEF IndexOf
    <3>2. /\ g.pc = "indexOf" /\ g.op = f.op /\ g.overlapped = f.overlapped /\ g.id = f.id /\ g.body = f.body
          /\ g.obj = f.obj /\ g.index = i + 1
      BY <2>1, FrameFields
    <3> HIDE DEF g
    <3>3. IdsDiffer(g, i + 1)
      <4>1. \A k \in 1 .. i + 1 : k \in 1 .. i \/ k = i + 1
        BY <2>1
      <4> QED BY <2>1, <2>6, <3>2, <4>1 DEF IdsDiffer
    <3>4. WritePhase(g) /\ PlaceOK(g)
      BY <1>1, <1>2, <2>3, <3>2, <3>3 DEF WritePhase, Updating, Editing, PlaceOK
    <3> QED BY <1>1, <2>1, <2>7, <3>1, <3>2, <3>4, WriteGoesOn
  <2> QED BY <2>5, <2>6
<1>6. CASE Store(t)
  <2>1. f.pc = "store" /\ i \in 0 .. size - 1 /\ Before[i + 1].id = f.id
    BY <1>1, <1>6 DEF Store, At, RegInv, WritePhase, Updating, Looping
  <2>2. Answer(t, 200, <<>>) /\ arr' = [arr EXCEPT ![i] = f.obj] /\ UNCHANGED <<heap, length, size, modCount, counter>>
    <3>1. ~(i >= length)
      BY <1>3, <2>1
    <3> QED BY <1>6, <2>1, <3>1 DEF Store
  <2>3. arr' = arr
    <3>1. arr[i] = f.obj /\ i \in DOMAIN arr
      BY <1>2, <1>4, <2>1 DEF Editing
    <3> QED BY <1>3, <2>2, <3>1 DEF Objects
  <2>4. PICK V : V = [k \in DOMAIN Before |-> IF Before[k].id = f.id THEN user ELSE Before[k]]
    OBVIOUS
  <2>5. user \in Stored /\ user.id = f.id
    <3>1. f.id \in DOMAIN heap
      BY <1>2 DEF Editing
    <3> QED BY <1>2, <1>3, <3>1 DEF Objects
  <2> HIDE DEF user
  <2>6. /\ V \in Seq(Stored) /\ Len(V) = Len(Before) /\ DOMAIN V = DOMAIN Before
        /\ \A k \in DOMAIN Before : V[k].id = Before[k].id /\ V[k] = IF Before[k].id = f.id THEN user ELSE Before[k]
    BY <1>3, <2>4, <2>5
  <2>7. Differing(V)
    BY <1>3, <2>6 DEF Differing
  <2>8. Objects'
    BY <1>1, <1>3, <2>2, <2>3 DEF Objects, Most
  <2>9. Lists(V)'
    <3>1. \A k \in DOMAIN arr : arr[k] = IF k < size THEN V[k + 1].id ELSE Null
      <4> SUFFICES ASSUME NEW k \in DOMAIN arr PROVE arr[k] = IF k < size THEN V[k + 1].id ELSE Null
        OBVIOUS
      <4>1. k < size => k \in 0 .. size - 1 /\ k + 1 \in DOMAIN Before
        BY <1>3
      <4> QED BY <1>2, <2>6, <4>1 DEF Editing, Slots
    <3>2. \A k \in DOMAIN V : V[k].id \in DOMAIN heap /\ heap[V[k].id] = V[k]
      BY <1>2, <2>5, <2>6 DEF Editing
    <3> QED BY <1>3, <2>2, <2>3, <2>6, <3>1, <3>2 DEF Lists, Slots, Kept
  <2>10. /\ RegInv' /\ Exact /\ issued' = issued
         /\ wrote' = [op |-> "updateUser", id |-> f.id, body |-> f.body, status |-> 200, users |-> V]
    BY <1>1, <1>3, <2>2, <2>6, <2>7, <2>8, <2>9, Replies
  <2>11. Atomic!Update(f.id, f.body)
    <3>1. \E k \in DOMAIN Before : Before[k].id = f.id
      BY <1>4, <2>1
    <3>2. Atomic!WithId(f.id, f.body) = user
      BY DEF Atomic!WithId, User, user
    <3> QED BY <2>4, <2>10, <3>1, <3>2 DEF Atomic!Update, Atomic!Replied, Atomic!Listed, Before
  <2> QED BY <1>2, <2>10, <2>11 DEF Good, Written, Atomic!Next
<1> QED BY <1>5, <1>6

\* DELETE: the loop that looks the user up, and the one that takes it out and goes on.
LEMMA DeleteLoops ==
  ASSUME OneWriter, IdInv, RegInv, NEW t \in Threads, th[t].op = "deleteUser", HasNext(t) \/ CheckModCount(t) \/ Fetch(t)
  PROVE  Good
<1> DEFINE f == th[t]
<1>1. f.pc \in {"hasNext", "next", "fetch"} /\ UNCHANGED <<heap, list, counter, requests>> /\ Writing(t)
  BY DEF HasNext, CheckModCount, Fetch, At, DataUnchanged, Writing, Writes
<1>2. /\ f.id \in Ids /\ f.body = NoBody /\ Looping(f)
      /\ \/ f.loop = "findById" /\ Lists(Before) /\ IdsDiffer(f, f.cursor)
         \/ f.loop = "deleteUserById" /\ Lists(Before) /\ IdsDiffer(f, f.cursor) /\ f.id \in IdsIn(Before)
         \/ f.loop = "deleteUserById" /\ Removed(f)
  BY <1>1 DEF RegInv, WritePhase, Deleting
<1> DEFINE Searched(W) == /\ W = Before /\ IdsDiffer(f, f.cursor)
                          /\ f.loop = "findById" \/ (f.loop = "deleteUserById" /\ f.id \in IdsIn(Before))
           Reduced(W) == /\ f.loop = "deleteUserById" /\ \A i \in DOMAIN W : W[i].id # f.id
                         /\ \E k \in DOMAIN Before : Before[k].id = f.id /\ W = RemoveAt(Before, k)
<1>3. Before \in Seq(Stored) /\ Differing(Before) /\ Objects /\ Len(Before) <= Most /\ Most <= MaxSize
  BY Bounds DEF RegInv, Registered
<1>4. PICK W \in Seq(Stored) : Lists(W) /\ Differing(W) /\ Len(W) <= Most /\ (Searched(W) \/ Reduced(W))
  <2>1. CASE f.loop = "deleteUserById" /\ Removed(f)
    <3>1. PICK k \in DOMAIN Before : Before[k].id = f.id /\ Lists(RemoveAt(Before, k))
      BY <2>1 DEF Removed
    <3>2. PICK W : W = RemoveAt(Before, k)
      OBVIOUS
    <3>3. W \in Seq(Stored) /\ Len(W) = Len(Before) - 1 /\ Differing(W) /\ \A i \in DOMAIN W : W[i].id # f.id
      BY <1>3, <3>1, <3>2, RemoveOne
    <3>4. Lists(W) /\ Reduced(W)
      BY <2>1, <3>1, <3>2, <3>3
    <3>5. Len(W) <= Most
      BY <1>3, <3>3, Bounds, LenProperties
    <3> QED BY <3>3, <3>4, <3>5
  <2>2. CASE ~(f.loop = "deleteUserById" /\ Removed(f))
    <3>1. Searched(Before) /\ Lists(Before)
      BY <1>2, <2>2
    <3> QED BY <1>3, <3>1
  <2> QED BY <2>1, <2>2
<1>5. Len(W) \in Nat /\ DOMAIN W = 1 .. Len(W) /\ size = Len(W) /\ Len(W) <= MaxSize
  BY <1>3, <1>4, Bounds DEF Lists
<1>6. ASSUME f.cursor < size
      PROVE  /\ f.cursor + 1 \in DOMAIN W /\ arr[f.cursor] # Null
             /\ heap[arr[f.cursor]] = W[f.cursor + 1] /\ ~(f.cursor >= length)
  <2>1. length \in Nat
    BY <1>3 DEF Objects
  <2> QED BY <1>2, <1>3, <1>4, <1>5, <1>6, <2>1, SlotOf DEF Looping
<1>7. ASSUME NEW g, Move(t, g), Unanswered, g.op = f.op, g.overlapped = f.overlapped, g.id = f.id, g.body = f.body,
             Deleting(g), PlaceOK(g)
      PROVE  Good
  <2>1. WritePhase(g) /\ f.pc # "idle"
    BY <1>1, <1>7 DEF WritePhase
  <2> QED BY <1>1, <1>7, <2>1, WriteGoesOn
<1>8. ASSUME NEW g, Move(t, g), Unanswered, g.op = f.op, g.overlapped = f.overlapped, g.id = f.id, g.body = f.body,
             Looping(g), g.loop = f.loop, Searched(W) => IdsDiffer(f, g.cursor)
      PROVE  Good
  <2>1. PlaceOK(g)
    BY <1>8 DEF PlaceOK, Looping
  <2>2. CASE Searched(W)
    <3>1. Lists(Before) /\ IdsDiffer(g, g.cursor)
      BY <1>4, <1>8, <2>2 DEF IdsDiffer
    <3>2. Deleting(g)
      BY <1>2, <1>8, <2>2, <3>1 DEF Deleting
    <3> QED BY <1>7, <1>8, <2>1, <3>2
  <2>3. CASE Reduced(W)
    <3>1. Removed(g)
      BY <1>4, <1>8, <2>3 DEF Removed
    <3>2. Deleting(g)
      BY <1>2, <1>8, <2>3, <3>1 DEF Deleting
    <3> QED BY <1>7, <1>8, <2>1, <3>2
  <2> QED BY <1>4, <2>2, <2>3
<1>9. CASE HasNext(t)
  <2>1. CASE f.cursor # size
    <3> DEFINE g == [f EXCEPT !.pc = "next"]
    <3>1. Move(t, g) /\ Unanswered
      BY <1>9, <2>1 DEF HasNext, Goto
    <3>2. /\ g.pc = "next" /\ g.op = f.op /\ g.overlapped = f.overlapped /\ g.id = f.id /\ g.body = f.body
          /\ g.loop = f.loop /\ g.cursor = f.cursor /\ g.expected = f.expected
      BY FrameFields
    <3> HIDE DEF g
    <3>3. Looping(g)
      BY <1>2, <1>5, <2>1, <3>2 DEF Looping
    <3> QED BY <1>8, <3>1, <3>2, <3>3
  <2>2. CASE f.cursor = size /\ Searched(W)
    <3>1. \A i \in DOMAIN Before : Before[i].id # f.id
      BY <1>5, <2>2 DEF IdsDiffer
    <3>2. f.loop = "findById"
      BY <2>2, <3>1 DEF IdsIn
    <3>3. Answer(t, 404, <<>>)
      BY <1>9, <2>2, <3>2 DEF HasNext, AfterLoop
    <3>4. Lists(Before)
      BY <1>4, <2>2
    <3>5. /\ RegInv' /\ Exact /\ issued' = issued
          /\ wrote' = [op |-> "deleteUser", id |-> f.id, body |-> f.body, status |-> 404, users |-> Before]
      BY <1>1, <3>3, <3>4, Refused
    <3>6. Atomic!Delete(f.id)
      BY <1>2, <3>1, <3>5 DEF Atomic!Delete, Atomic!Replied, Atomic!Listed, Atomic!NoBody, NoBody, Before
    <3> QED BY <1>2, <3>5, <3>6 DEF Good, Written, Atomic!Next
  <2>3. CASE f.cursor = size /\ Reduced(W)
    <3>1. Answer(t, 204, <<>>)
      BY <1>9, <2>3 DEF HasNext, AfterLoop
    <3>2. Objects'
      BY <1>1, <1>3 DEF Objects, list, array, Most
    <3>3. Lists(W)'
      BY <1>1, <1>4 DEF Lists, Slots, Kept, list, array
    <3>4. /\ RegInv' /\ Exact /\ issued' = issued
          /\ wrote' = [op |-> "deleteUser", id |-> f.id, body |-> f.body, status |-> 204, users |-> W]
      BY <1>1, <1>4, <3>1, <3>2, <3>3, Replies
    <3>5. PICK k \in DOMAIN wrote.users : wrote.users[k].id = f.id /\ W = RemoveAt(wrote.users, k)
      BY <2>3 DEF Before
    <3>6. Atomic!Delete(f.id)
      <4>1. Atomic!Listed(f.id)
        BY <3>5 DEF Atomic!Listed
      <4>2. Atomic!Replied("deleteUser", f.id, Atomic!NoBody, IF Atomic!Listed(f.id) THEN 204 ELSE 404)
        BY <1>2, <3>4, <4>1 DEF Atomic!Replied, Atomic!NoBody, NoBody
      <4>3. k \in DOMAIN wrote.users /\ wrote.users[k].id = f.id /\ wrote'.users = RemoveAt(wrote.users, k)
        BY <3>4, <3>5
      <4>4. \E i \in DOMAIN wrote.users : wrote.users[i].id = f.id /\ wrote'.users = Atomic!RemoveAt(wrote.users, i)
        BY <4>3 DEF RemoveAt, Atomic!RemoveAt
      <4> QED BY <3>4, <4>1, <4>2, <4>4 DEF Atomic!Delete
    <3> QED BY <1>2, <3>4, <3>6 DEF Good, Written, Atomic!Next
  <2> QED BY <1>4, <2>1, <2>2, <2>3
<1>10. CASE CheckModCount(t)
  <2> DEFINE g == [f EXCEPT !.pc = "fetch"]
  <2>1. Move(t, g) /\ Unanswered /\ f.pc = "next"
    BY <1>2, <1>10 DEF CheckModCount, Goto, At, Looping
  <2>2. /\ g.pc = "fetch" /\ g.op = f.op /\ g.overlapped = f.overlapped /\ g.id = f.id /\ g.body = f.body
        /\ g.loop = f.loop /\ g.cursor = f.cursor /\ g.expected = f.expected
    BY FrameFields
  <2> HIDE DEF g
  <2>3. Looping(g)
    BY <1>2, <2>1, <2>2 DEF Looping
  <2> QED BY <1>8, <2>1, <2>2, <2>3
<1>11. CASE Fetch(t)
  <2> DEFINE i == f.cursor
             user == W[i + 1]
  <2>1. i < size /\ ~(i >= size) /\ i \in Nat /\ i + 1 \in 0 .. size
    <3>1. f.pc = "fetch"
      BY <1>11 DEF Fetch, At
    <3> QED BY <1>2, <1>5, <3>1 DEF Looping
  <2>2. i + 1 \in DOMAIN W /\ arr[i] # Null /\ heap[arr[i]] = user /\ ~(i >= length)
    BY <1>6, <2>1
  <2>3. f.loop \in {"findById", "deleteUserById"} /\ f.loop # "findByName"
    BY <1>2
  <2>4. CASE user.id # f.id
    <3> DEFINE g == [f EXCEPT !.pc = "hasNext", !.cursor = i + 1]
    <3>1. Move(t, g) /\ Unanswered
      BY <1>11, <2>1, <2>2, <2>3, <2>4 DEF Fetch, Matches
    <3>2. /\ g.pc = "hasNext" /\ g.op = f.op /\ g.overlapped = f.overlapped /\ g.id = f.id /\ g.body = f.body
          /\ g.loop = f.loop /\ g.cursor = f.cursor + 1 /\ g.expected = f.expected
      BY FrameFields
    <3> HIDE DEF g
    <3>3. Looping(g)
      BY <1>2, <2>1, <3>2 DEF Looping
    <3>4. Searched(W) => IdsDiffer(f, g.cursor)
      <4>1. \A k \in 1 .. i + 1 : k \in 1 .. i \/ k = i + 1
        BY <2>1
      <4> QED BY <2>4, <3>2, <4>1 DEF IdsDiffer
    <3> QED BY <1>8, <3>1, <3>2, <3>3, <3>4
  <2>5. CASE user.id = f.id /\ f.loop = "findById"
    <3> DEFINE g == [f EXCEPT !.pc = "iterator"]
    <3>1. Move(t, g) /\ Unanswered
      BY <1>11, <2>1, <2>2, <2>5 DEF Fetch, Matches, Found, Goto
    <3>2. g.pc = "iterator" /\ g.op = f.op /\ g.overlapped = f.overlapped /\ g.id = f.id /\ g.body = f.body
      BY FrameFields
    <3> HIDE DEF g
    <3>3. Searched(W)
      BY <1>4, <2>5
    <3>4. Lists(Before) /\ f.id \in IdsIn(Before)
      BY <1>4, <2>2, <2>5, <3>3 DEF IdsIn
    <3>5. Deleting(g) /\ PlaceOK(g)
      BY <1>2, <3>2, <3>4 DEF Deleting, PlaceOK
    <3> QED BY <1>7, <3>1, <3>2, <3>5
  <2>6. CASE user.id = f.id /\ f.loop = "deleteUserById"
    <3> DEFINE g == [f EXCEPT !.pc = "remove", !.cursor = f.cursor + 1]
    <3>1. Move(t, g) /\ Unanswered
      BY <1>11, <2>1, <2>2, <2>6 DEF Fetch, Matches, Found
    <3>2. /\ g.pc = "remove" /\ g.op = f.op /\ g.overlapped = f.overlapped /\ g.id = f.id /\ g.body = f.body
          /\ g.loop = f.loop /\ g.cursor = i + 1 /\ g.expected = f.expected
      BY FrameFields
    <3> HIDE DEF g
    <3>3. Searched(W)
      BY <1>4, <2>2, <2>6
    <3>4. Lists(Before) /\ i + 1 \in DOMAIN Before /\ Before[i + 1].id = f.id
      BY <1>4, <2>2, <2>6, <3>3
    <3>5. f.expected = modCount
      BY <1>2 DEF Looping
    <3>6. Deleting(g) /\ PlaceOK(g)
      BY <1>1, <1>2, <3>2, <3>4, <3>5 DEF Deleting, PlaceOK
    <3> QED BY <1>7, <3>1, <3>2, <3>6
  <2> QED BY <2>3, <2>4, <2>5, <2>6
<1> QED BY <1>9, <1>10, <1>11

\* DELETE: the second loop starts at the front again.
LEMMA DeleteIterates ==
  ASSUME OneWriter, IdInv, RegInv, NEW t \in Threads, Iterator(t)
  PROVE  Good
<1> DEFINE f == th[t]
           g == [f EXCEPT !.pc = "hasNext", !.loop = "deleteUserById", !.cursor = 0, !.expected = modCount, !.index = 0]
<1>1. f.pc = "iterator" /\ UNCHANGED <<heap, list, counter, requests>> /\ Unanswered /\ Move(t, g)
  BY DEF Iterator, At, DataUnchanged, Loop
<1>2. f.op = "deleteUser" /\ Writing(t)
  BY <1>1 DEF RegInv, Owned, PlaceOK, Writing, Writes
<1>3. f.id \in Ids /\ f.body = NoBody /\ Lists(Before) /\ f.id \in IdsIn(Before)
  BY <1>1, <1>2 DEF RegInv, WritePhase, Deleting, Looping
<1>4. /\ g.pc = "hasNext" /\ g.op = f.op /\ g.overlapped = f.overlapped /\ g.id = f.id /\ g.body = f.body
      /\ g.loop = "deleteUserById" /\ g.cursor = 0 /\ g.expected = modCount
  BY FrameFields
<1> HIDE DEF g
<1>5. size \in Nat
  BY DEF RegInv, Registered, Objects
<1>6. Looping(g) /\ IdsDiffer(g, g.cursor)
  BY <1>4, <1>5 DEF Looping, IdsDiffer
<1>7. WritePhase(g) /\ PlaceOK(g)
  BY <1>2, <1>3, <1>4, <1>6 DEF WritePhase, Deleting, PlaceOK
<1> QED BY <1>1, <1>2, <1>4, <1>7, WriteGoesOn

\* DELETE: the user is taken out, and the list shrinks behind it.
LEMMA DeleteRemoves ==
  ASSUME OneWriter, IdInv, RegInv, NEW t \in Threads, IteratorRemove(t) \/ Shrink(t)
  PROVE  Good
<1> DEFINE f == th[t]
           k == f.cursor
<1>1. f.pc \in {"remove", "shrink"} /\ f.op = "deleteUser" /\ f.loop = "deleteUserById" /\ Writing(t) /\ requests' = requests
  <2>1. f.pc \in {"remove", "shrink"} /\ requests' = requests
    BY DEF IteratorRemove, Shrink, At
  <2> QED BY <2>1, FrameFields DEF FrameOK, Writing, Writes
<1>2. /\ f.id \in Ids /\ f.body = NoBody /\ k \in DOMAIN Before /\ Before[k].id = f.id
      /\ size = Len(Before) /\ Kept(Before)
  BY <1>1 DEF RegInv, WritePhase, Deleting, Looping, Lists
<1>3. /\ Before \in Seq(Stored) /\ Differing(Before) /\ Objects /\ Len(Before) <= Most /\ Most <= MaxSize
      /\ Len(Before) \in Nat /\ DOMAIN Before = 1 .. Len(Before)
      /\ DOMAIN arr = 0 .. length - 1 /\ length \in Nat /\ size <= length /\ Most \in Nat /\ arr \in [0 .. length - 1 -> Nat]
  BY Bounds DEF RegInv, Registered, Objects
<1>4. ASSUME NEW g, Move(t, g), g.op = f.op, g.id = f.id, g.body = f.body, g.pc \in {"hasNext", "shrink"},
             Unanswered, UNCHANGED <<heap, length, counter>>, arr' \in [0 .. length - 1 -> Nat], size' \in 0 .. length,
             th'[t] = g => Deleting(th[t])'
      PROVE  Good
  <2>1. th' = [th EXCEPT ![t] = g] /\ th'[t] = g /\ UNCHANGED <<issued, wrote, read>>
    BY <1>4, OtherFrames DEF Move, Unanswered
  <2>2. WritePhase(th[t])' /\ PlaceOK(g)
    BY <1>1, <1>4, <2>1 DEF WritePhase, PlaceOK
  <2>3. Objects'
    BY <1>1, <1>3, <1>4 DEF Objects, Most
  <2>4. Registered'
    BY <1>1, <2>1, <2>3 DEF RegInv, Registered, Before, Differing, Most
  <2> QED BY <1>1, <1>4, <2>1, <2>2, <2>4, WriterMoves DEF Good, Written, Exact
<1>5. CASE IteratorRemove(t)
  <2> DEFINE g == [f EXCEPT !.pc = "shrink"]
             n == size
  <2>1. f.pc = "remove" /\ Lists(Before) /\ f.expected = modCount
    BY <1>1, <1>5 DEF IteratorRemove, At, RegInv, WritePhase, Deleting, Looping
  <2>2. k - 1 < size /\ ~(k - 1 >= size) /\ ~(size > length) /\ k \in Nat /\ k >= 1 /\ size \in Nat /\ size \in 0 .. length
    BY <1>2, <1>3
  <2>3. /\ arr' = [i \in DOMAIN arr |-> IF i \in k - 1 .. size - 2 THEN arr[i + 1] ELSE arr[i]]
        /\ Move(t, g) /\ Unanswered /\ UNCHANGED <<heap, length, size, counter>>
    BY <1>5, <2>1, <2>2 DEF IteratorRemove, Goto
  <2>4. g.pc = "shrink" /\ g.op = f.op /\ g.id = f.id /\ g.body = f.body /\ g.cursor = f.cursor
    BY FrameFields
  <2> HIDE DEF g
  <2>5. \A i \in DOMAIN arr : i \in k - 1 .. size - 2 => i + 1 \in DOMAIN arr
    BY <1>2, <1>3, <2>2
  <2>6. arr' \in [0 .. length - 1 -> Nat] /\ DOMAIN arr' = DOMAIN arr
    <3>1. \A i \in DOMAIN arr : (IF i \in k - 1 .. size - 2 THEN arr[i + 1] ELSE arr[i]) \in Nat
      BY <1>3, <2>5
    <3> QED BY <1>3, <2>3, <3>1
  <2>7. ASSUME NEW i \in DOMAIN arr, i # size - 1
        PROVE  arr'[i] = IF i < k - 1 THEN Before[i + 1].id ELSE IF i < size THEN Before[i + 2].id ELSE Null
    <3>1. i \in Nat /\ arr'[i] = IF i \in k - 1 .. size - 2 THEN arr[i + 1] ELSE arr[i]
      BY <1>3, <2>3
    <3>2. \A j \in DOMAIN arr : arr[j] = IF j < size THEN Before[j + 1].id ELSE Null
      BY <2>1 DEF Lists, Slots
    <3>3. CASE i < k - 1
      BY <2>2, <3>1, <3>2, <3>3
    <3>4. CASE i >= k - 1 /\ i < size
      <4>1. i \in k - 1 .. size - 2 /\ i + 1 < size /\ (i + 1) + 1 = i + 2
        BY <2>2, <2>7, <3>1, <3>4
      <4> QED BY <2>2, <2>5, <3>1, <3>2, <3>4, <4>1
    <3>5. CASE i >= size
      BY <2>2, <3>1, <3>2, <3>5
    <3> QED BY <2>2, <3>1, <3>3, <3>4, <3>5
  <2>8. ASSUME th'[t] = g PROVE Deleting(th[t])'
    <3>1. Before' = Before /\ Kept(Before)' /\ size' = size /\ Ids' = Ids
      BY <1>2, <2>3 DEF Before, Kept, Unanswered, Ids
    <3>2. \A i \in DOMAIN arr' : i # size' - 1 =>
            arr'[i] = IF i < g.cursor - 1 THEN Before[i + 1].id ELSE IF i < size' THEN Before[i + 2].id ELSE Null
      BY <2>4, <2>6, <2>7, <3>1
    <3> QED BY <1>2, <2>4, <2>8, <3>1, <3>2 DEF Deleting
  <2> QED BY <1>4, <2>2, <2>3, <2>4, <2>6, <2>8
<1>6. CASE Shrink(t)
  <2> DEFINE g == [f EXCEPT !.pc = "hasNext", !.cursor = f.cursor - 1, !.expected = modCount]
             n == Len(Before)
  <2>1. /\ f.pc = "shrink"
        /\ \A i \in DOMAIN arr : i # size - 1 =>
             arr[i] = IF i < k - 1 THEN Before[i + 1].id ELSE IF i < size THEN Before[i + 2].id ELSE Null
    BY <1>1, <1>6 DEF Shrink, At, RegInv, WritePhase, Deleting, Looping
  <2>2. /\ size' = size - 1 /\ size' \in 0 .. length - 1 /\ size' \in 0 .. length /\ length' = length
        /\ k \in Nat /\ k >= 1 /\ k <= size /\ size \in Nat
    BY <1>2, <1>3, <1>6 DEF Shrink
  <2>3. arr' = [arr EXCEPT ![n - 1] = Null] /\ Move(t, g) /\ Unanswered /\ UNCHANGED <<heap, modCount, counter>>
    BY <1>2, <1>6, <2>2 DEF Shrink
  <2>4. /\ g.pc = "hasNext" /\ g.op = f.op /\ g.id = f.id /\ g.body = f.body /\ g.cursor = f.cursor - 1
        /\ g.loop = f.loop /\ g.expected = modCount
    BY FrameFields
  <2> HIDE DEF g
  <2>5. arr' \in [0 .. length - 1 -> Nat] /\ DOMAIN arr' = DOMAIN arr
    BY <1>3, <2>3 DEF Null
  <2>6. PICK V : V = RemoveAt(Before, k)
    OBVIOUS
  <2>7. /\ V \in Seq(Stored) /\ Len(V) = n - 1 /\ DOMAIN V = 1 .. n - 1
        /\ \A i \in DOMAIN V : V[i] = IF i < k THEN Before[i] ELSE Before[i + 1]
    <3>1. V \in Seq(Stored) /\ Len(V) = n - 1 /\ \A i \in DOMAIN V : V[i] = IF i < k THEN Before[i] ELSE Before[i + 1]
      BY <1>2, <1>3, <2>6, RemoveOne
    <3> QED BY <3>1, LenProperties
  <2>8. ASSUME NEW i \in DOMAIN arr PROVE arr'[i] = IF i < size' THEN V[i + 1].id ELSE Null
    <3>1. i \in Nat /\ n - 1 \in DOMAIN arr /\ size' = n - 1
      BY <1>2, <1>3, <2>2
    <3>2. CASE i = n - 1
      BY <1>3, <2>3, <3>1, <3>2
    <3>3. CASE i < n - 1
      <4>1. i + 1 \in DOMAIN V /\ i # size - 1 /\ i < size
        BY <1>2, <1>3, <2>7, <3>1, <3>3
      <4>2. arr'[i] = IF i < k - 1 THEN Before[i + 1].id ELSE Before[i + 2].id
        BY <1>2, <2>1, <2>3, <3>1, <4>1
      <4>3. V[i + 1] = IF i + 1 < k THEN Before[i + 1] ELSE Before[i + 1 + 1]
        BY <2>7, <4>1
      <4>4. (i + 1 < k <=> i < k - 1) /\ i + 1 + 1 = i + 2
        BY <2>2, <3>1
      <4> QED BY <3>1, <3>3, <4>2, <4>3, <4>4
    <3>4. CASE i > n - 1
      <4>0. size = n /\ n \in Nat /\ k \in Nat /\ k <= n
        BY <1>2, <1>3, <2>2
      <4> HIDE DEF k, n
      <4>1. i >= n /\ i # n - 1 /\ ~(i < n) /\ ~(i < n - 1)
        BY <3>1, <3>4, <4>0
      <4>2. ~(i < k - 1)
        BY <3>1, <4>0, <4>1
      <4>3. arr[i] = Null
        BY <2>1, <4>0, <4>1, <4>2 DEF n, k
      <4>4. arr'[i] = arr[i]
        BY <1>3, <2>3, <4>1 DEF n
      <4>5. ~(i < size')
        BY <3>1, <4>1
      <4> QED BY <4>3, <4>4, <4>5
    <3>5. i < n - 1 \/ i = n - 1 \/ i > n - 1
      <4>1. n \in Nat /\ i \in Nat
        BY <1>3, <3>1
      <4> HIDE DEF n
      <4> QED BY <4>1
    <3> QED BY <3>2, <3>3, <3>4, <3>5
  <2>9. Lists(V)'
    <3>1. \A i \in DOMAIN V : V[i].id \in DOMAIN heap /\ heap[V[i].id] = V[i]
      <4> SUFFICES ASSUME NEW i \in DOMAIN V PROVE V[i].id \in DOMAIN heap /\ heap[V[i].id] = V[i]
        OBVIOUS
      <4>1. i \in DOMAIN Before /\ i + 1 \in DOMAIN Before
        BY <1>3, <2>7
      <4> QED BY <1>2, <2>7, <4>1 DEF Kept
    <3> QED BY <1>2, <2>2, <2>3, <2>5, <2>7, <2>8, <3>1 DEF Lists, Slots, Kept
  <2>10. ASSUME th'[t] = g PROVE Deleting(th[t])'
    <3>1. Before' = Before /\ Ids' = Ids
      BY <2>3 DEF Before, Ids, Unanswered
    <3>2. PICK j : j = k
      OBVIOUS
    <3>3. Removed(th[t])'
      <4>1. Lists(V)' /\ V = RemoveAt(Before', j)
        BY <2>6, <2>9, <3>1, <3>2
      <4>2. Lists(RemoveAt(Before, j))'
        BY <4>1 DEF Lists, Slots, Kept
      <4> QED BY <1>2, <2>4, <2>10, <3>1, <3>2, <4>2 DEF Removed
    <3>4. Looping(th[t])'
      BY SMTT(20), <1>2, <1>3, <2>2, <2>3, <2>4, <2>10 DEF Looping
    <3> QED BY <1>1, <1>2, <2>4, <2>10, <3>1, <3>3, <3>4 DEF Deleting
  <2> QED BY <1>4, <2>2, <2>3, <2>4, <2>5, <2>10
<1> QED BY <1>5, <1>6

\* DELETE of all: the slots are emptied, then the list has none.
LEMMA Clears ==
  ASSUME OneWriter, IdInv, RegInv, NEW t \in Threads, Clear(t) \/ Drop(t)
  PROVE  Good
<1> DEFINE f == th[t]
           i == f.index
<1>1. f.pc \in {"clear", "drop"} /\ f.op = "deleteAllUsers" /\ Writing(t) /\ requests' = requests
  BY DEF Clear, Drop, At, RegInv, Owned, PlaceOK, Writing, Writes
<1>2. f.id = 0 /\ f.body = NoBody /\ size = Len(Before)
  BY <1>1 DEF RegInv, WritePhase, Clearing, Lists
<1>3. /\ Before \in Seq(Stored) /\ Differing(Before) /\ Objects /\ Len(Before) <= Most /\ Most <= MaxSize
      /\ Len(Before) \in Nat /\ DOMAIN arr = 0 .. length - 1 /\ length \in Nat /\ size <= length /\ Most \in Nat
      /\ arr \in [0 .. length - 1 -> Nat]
  BY Bounds DEF RegInv, Registered, Objects
<1>4. ASSUME NEW g, Move(t, g), g.op = f.op, g.id = f.id, g.body = f.body, g.pc = "drop",
             Unanswered, UNCHANGED <<heap, length, counter, size>>, arr' \in [0 .. length - 1 -> Nat],
             g.index \in 0 .. size, \A j \in DOMAIN arr' : j < g.index \/ j >= size => arr'[j] = Null
      PROVE  Good
  <2>1. th' = [th EXCEPT ![t] = g] /\ th'[t] = g /\ UNCHANGED <<issued, wrote, read>>
    BY <1>4, OtherFrames DEF Move, Unanswered
  <2>2. Clearing(th[t])'
    BY <1>1, <1>2, <1>4, <2>1 DEF Clearing, Before
  <2>3. WritePhase(th[t])' /\ PlaceOK(g)
    BY <1>1, <1>4, <2>1, <2>2 DEF WritePhase, PlaceOK
  <2>4. Objects'
    BY <1>1, <1>3, <1>4 DEF Objects, Most
  <2>5. Registered'
    BY <1>1, <2>1, <2>4 DEF RegInv, Registered, Before, Differing, Most
  <2> QED BY <1>1, <1>4, <2>1, <2>3, <2>5, WriterMoves DEF Good, Written, Exact
<1>5. CASE Clear(t)
  <2> DEFINE g == [f EXCEPT !.pc = "drop"]
  <2>1. f.pc = "clear" /\ Lists(Before) /\ i = 0
    BY <1>1, <1>5 DEF Clear, At, RegInv, WritePhase, Clearing
  <2>2. Move(t, g) /\ Unanswered /\ UNCHANGED <<heap, arr, length, size, counter>>
    BY <1>5 DEF Clear, Goto, array
  <2>3. g.pc = "drop" /\ g.op = f.op /\ g.id = f.id /\ g.body = f.body /\ g.index = f.index
    BY FrameFields
  <2> HIDE DEF g
  <2>4. \A j \in DOMAIN arr : j < i \/ j >= size => arr[j] = Null
    BY <1>3, <2>1 DEF Lists, Slots
  <2>5. i \in 0 .. size
    BY <1>2, <1>3, <2>1
  <2> QED BY <1>3, <1>4, <2>2, <2>3, <2>4, <2>5
<1>6. CASE Drop(t)
  <2>1. f.pc = "drop" /\ i \in 0 .. size /\ \A j \in DOMAIN arr : j < i \/ j >= size => arr[j] = Null
    BY <1>1, <1>6 DEF Drop, At, RegInv, WritePhase, Clearing
  <2>2. CASE i < size
    <3> DEFINE g == [f EXCEPT !.index = i + 1]
    <3>0. i < length
      BY <1>2, <1>3, <2>1, <2>2
    <3>1. /\ Move(t, g) /\ Unanswered /\ UNCHANGED <<heap, length, size, counter>>
          /\ arr' = [arr EXCEPT ![i] = Null]
      <4>1. ~(i < size /\ i >= length)
        BY <1>3, <2>1, <3>0
      <4> QED BY <1>6, <2>2, <4>1 DEF Drop
    <3>2. g.pc = "drop" /\ g.op = f.op /\ g.id = f.id /\ g.body = f.body /\ g.index = i + 1
      BY <2>1, FrameFields
    <3> HIDE DEF g
    <3>3. arr' \in [0 .. length - 1 -> Nat] /\ DOMAIN arr' = DOMAIN arr
          /\ \A j \in DOMAIN arr : arr'[j] = IF j = i THEN Null ELSE arr[j]
      BY <1>3, <3>1 DEF Null
    <3>4. i + 1 \in 0 .. size
      BY <1>2, <1>3, <2>1, <2>2
    <3>5. ASSUME NEW j \in DOMAIN arr, j < i + 1 \/ j >= size PROVE arr'[j] = Null
      <4>1. j \in Nat /\ i \in Nat
        BY <1>3, <2>1
      <4>2. j = i \/ j < i \/ j >= size
        BY <3>5, <4>1
      <4> QED BY <2>1, <3>3, <4>2
    <3> QED BY <1>4, <3>1, <3>2, <3>3, <3>4, <3>5
  <2>3. CASE ~(i < size)
    <3>1. size' = 0 /\ arr' = arr /\ Answer(t, 204, <<>>) /\ UNCHANGED <<heap, length, counter>>
      BY <1>6, <2>3 DEF Drop
    <3>2. Objects'
      BY <1>1, <1>3, <3>1 DEF Objects, Most
    <3>3. PICK V : V = <<>>
      OBVIOUS
    <3>4. V \in Seq(Stored) /\ Len(V) = 0 /\ DOMAIN V = {}
      BY <3>3
    <3>5. Differing(V) /\ Len(V) <= Most
      BY <1>3, <3>4 DEF Differing
    <3>6. \A j \in DOMAIN arr : arr[j] = Null /\ ~(j < 0)
      <4> SUFFICES ASSUME NEW j \in DOMAIN arr PROVE arr[j] = Null /\ ~(j < 0)
        OBVIOUS
      <4>1. j \in Nat /\ i = size /\ size \in Nat
        BY <1>2, <1>3, <2>1, <2>3
      <4>2. j < i \/ j >= size
        BY <4>1
      <4> QED BY <2>1, <4>1, <4>2
    <3>7. Lists(V)'
      BY <3>1, <3>4, <3>6 DEF Lists, Slots, Kept
    <3>8. /\ RegInv' /\ Exact /\ issued' = issued
          /\ wrote' = [op |-> "deleteAllUsers", id |-> 0, body |-> NoBody, status |-> 204, users |-> V]
      <4>1. 204 # 201 /\ V \in Seq(Stored)
        BY <3>4
      <4>2. /\ RegInv' /\ Exact /\ issued' = issued
            /\ wrote' = [op |-> f.op, id |-> f.id, body |-> f.body, status |-> 204, users |-> V]
        BY <1>1, <3>1, <3>2, <3>5, <3>7, <4>1, Replies
      <4> QED BY <1>1, <1>2, <4>2
    <3>9. Atomic!DeleteAll
      BY <3>3, <3>8 DEF Atomic!DeleteAll, Atomic!Replied, Atomic!NoBody, NoBody
    <3> QED BY <3>8, <3>9 DEF Good, Written, Atomic!Next
  <2> QED BY <2>2, <2>3
<1> QED BY <1>5, <1>6

(***************************************************************************)
(* A request arrives: it knows the list as it is, unless a write runs.     *)
(***************************************************************************)
Arriving(t, op, id, body) ==
  [Idle EXCEPT !.op = op, !.id = id, !.body = body, !.loop = FirstLoop(op),
               !.pc = IF op \in {"deleteAllUsers", "listAllUsers"} THEN FirstLoop(op) ELSE "hasNext",
               !.expected = modCount, !.overlapped = \E u \in Threads \ {t} : Active(u) /\ Writing(u)]

LEMMA RequestPicks ==
  ASSUME IdInv, NEW t \in Threads, Request(t)
  PROVE  \E op \in Duties[t] : \E id, body :
           /\ id \in IF op \in {"getUser", "updateUser", "deleteUser"} THEN Ids ELSE {0}
           /\ body \in IF op \in {"createUser", "updateUser"} THEN Bodies ELSE {NoBody}
           /\ th' = [u \in Threads |->
                       IF u = t THEN Arriving(t, op, id, body)
                       ELSE IF Active(u) /\ op \in Writes THEN [th[u] EXCEPT !.overlapped = TRUE] ELSE th[u]]
<1> DEFINE busy == {u \in Threads \ {t} : Active(u)}
           frame(op, id, body) ==
             [Idle EXCEPT !.op = op, !.id = id, !.body = body, !.loop = FirstLoop(op),
                          !.pc = IF op \in {"deleteAllUsers", "listAllUsers"} THEN FirstLoop(op) ELSE "hasNext",
                          !.expected = modCount, !.overlapped = \E v \in busy : Writing(v)]
           step(op, id, body) ==
             th' = [u \in Threads |->
               IF u = t THEN frame(op, id, body)
               ELSE IF u \in busy /\ op \in Writes THEN [th[u] EXCEPT !.overlapped = TRUE] ELSE th[u]]
<1>1. PICK op \in Duties[t] :
        \E id \in IF op \in {"getUser", "updateUser", "deleteUser"} THEN Ids ELSE {0} :
          \E body \in IF op \in {"createUser", "updateUser"} THEN Bodies ELSE {NoBody} : step(op, id, body)
  BY DEF Request
<1> HIDE DEF step
<1>2. PICK id \in IF op \in {"getUser", "updateUser", "deleteUser"} THEN Ids ELSE {0},
           body \in IF op \in {"createUser", "updateUser"} THEN Bodies ELSE {NoBody} : step(op, id, body)
  BY <1>1
<1>3. (\E v \in busy : Writing(v)) <=> \E u \in Threads \ {t} : Active(u) /\ Writing(u)
  OBVIOUS
<1>4. frame(op, id, body) = Arriving(t, op, id, body)
  BY <1>3 DEF Arriving
<1> HIDE DEF frame
<1>5. th' = [u \in Threads |->
               IF u = t THEN Arriving(t, op, id, body)
               ELSE IF Active(u) /\ op \in Writes THEN [th[u] EXCEPT !.overlapped = TRUE] ELSE th[u]]
  BY <1>2, <1>4 DEF step
<1> QED BY <1>2, <1>5

LEMMA RequestGood ==
  ASSUME OneWriter, IdInv, RegInv, NEW t \in Threads, Request(t)
  PROVE  Good
<1>1. PICK op \in Duties[t] : \E id, body :
           /\ id \in IF op \in {"getUser", "updateUser", "deleteUser"} THEN Ids ELSE {0}
           /\ body \in IF op \in {"createUser", "updateUser"} THEN Bodies ELSE {NoBody}
           /\ th' = [u \in Threads |->
                       IF u = t THEN Arriving(t, op, id, body)
                       ELSE IF Active(u) /\ op \in Writes THEN [th[u] EXCEPT !.overlapped = TRUE] ELSE th[u]]
  BY RequestPicks
<1>0. PICK id, body :
           /\ id \in IF op \in {"getUser", "updateUser", "deleteUser"} THEN Ids ELSE {0}
           /\ body \in IF op \in {"createUser", "updateUser"} THEN Bodies ELSE {NoBody}
           /\ th' = [u \in Threads |->
                       IF u = t THEN Arriving(t, op, id, body)
                       ELSE IF Active(u) /\ op \in Writes THEN [th[u] EXCEPT !.overlapped = TRUE] ELSE th[u]]
  BY <1>1
<1>20. PICK g : g = Arriving(t, op, id, body)
  OBVIOUS
<1>2. /\ id \in IF op \in {"getUser", "updateUser", "deleteUser"} THEN Ids ELSE {0}
      /\ body \in IF op \in {"createUser", "updateUser"} THEN Bodies ELSE {NoBody}
      /\ th' = [u \in Threads |->
                  IF u = t THEN g
                  ELSE IF Active(u) /\ op \in Writes THEN [th[u] EXCEPT !.overlapped = TRUE] ELSE th[u]]
  BY <1>0, <1>20
<1>3. op \in {"listAllUsers", "getUser", "createUser", "updateUser", "deleteUser", "deleteAllUsers"}
  BY DutiesAssumption
<1>4. /\ g.op = op /\ g.id = id /\ g.body = body /\ g.expected = modCount /\ g.cursor = 0 /\ g.index = 0 /\ g.shown = <<>>
      /\ g.loop = IF op = "createUser" THEN "findByName" ELSE IF op = "deleteAllUsers" THEN "clear"
                  ELSE IF op = "listAllUsers" THEN "isEmpty" ELSE "findById"
      /\ g.pc = IF op = "deleteAllUsers" THEN "clear" ELSE IF op = "listAllUsers" THEN "isEmpty" ELSE "hasNext"
      /\ g.overlapped = \E u \in Threads \ {t} : Active(u) /\ Writing(u)
  BY <1>3, <1>20 DEF Arriving, Idle, FirstLoop
<1>5. /\ th[t].pc = "idle" /\ requests < MaxRequests /\ requests' = requests + 1
      /\ UNCHANGED <<heap, arr, length, copies, size, modCount, counter, issued, wrote, read>>
  BY DEF Request, At, DataUnchanged, Unanswered, list, array
<1>6. /\ Before \in Seq(Stored) /\ Differing(Before) /\ Objects /\ Len(Before) <= Most
      /\ Len(Before) \in Nat /\ Most \in Nat
      /\ requests \in 0 .. MaxRequests /\ MaxRequests \in Nat /\ counter \in Nat /\ counter <= Most
  BY Bounds, DutiesAssumption DEF RegInv, Registered, Objects
<1>7. th'[t] = g
  BY <1>2
<1>8. ASSUME NEW u \in Threads \ {t}
      PROVE  /\ th'[u] = th[u] \/ th'[u] = [th[u] EXCEPT !.overlapped = TRUE]
             /\ th'[u].pc = th[u].pc /\ th'[u].op = th[u].op /\ th'[u].id = th[u].id /\ th'[u].body = th[u].body
             /\ th'[u].loop = th[u].loop /\ th'[u].cursor = th[u].cursor /\ th'[u].expected = th[u].expected
             /\ th'[u].obj = th[u].obj /\ th'[u].index = th[u].index /\ th'[u].shown = th[u].shown
             /\ th'[u].into = th[u].into /\ th'[u].room = th[u].room /\ th'[u].copy = th[u].copy
             /\ ~th'[u].overlapped /\ Active(u) => op \notin Writes /\ th'[u] = th[u]
  <2>1. th'[u] = IF Active(u) /\ op \in Writes THEN [th[u] EXCEPT !.overlapped = TRUE] ELSE th[u]
    BY <1>2
  <2> DEFINE g2 == [th[u] EXCEPT !.overlapped = TRUE]
  <2>2. /\ g2.pc = th[u].pc /\ g2.op = th[u].op /\ g2.id = th[u].id /\ g2.body = th[u].body
        /\ g2.loop = th[u].loop /\ g2.cursor = th[u].cursor /\ g2.expected = th[u].expected
        /\ g2.obj = th[u].obj /\ g2.index = th[u].index /\ g2.shown = th[u].shown /\ g2.overlapped
        /\ g2.into = th[u].into /\ g2.room = th[u].room /\ g2.copy = th[u].copy
    BY FrameFields
  <2> HIDE DEF g2
  <2>3. th'[u] = IF Active(u) /\ op \in Writes THEN g2 ELSE th[u]
    BY <2>1 DEF g2
  <2>4. th'[u] = th[u] \/ th'[u] = [th[u] EXCEPT !.overlapped = TRUE]
    BY <2>1
  <2> QED BY <2>2, <2>3, <2>4
<1>9. ~Writing(t) /\ \A u \in Threads \ {t} : Writing(u)' <=> Writing(u)
  <2>1. th[t].op = "none"
    BY <1>5 DEF RegInv, Owned, PlaceOK
  <2> QED BY <1>8, <2>1 DEF Writing, Writes
<1>10. NoWriter' => NoWriter
  BY <1>9 DEF NoWriter
<1>11. op \in Writes => NoWriter
  <2> SUFFICES ASSUME op \in Writes, NEW u \in Threads, Writing(u) PROVE FALSE
    BY DEF NoWriter
  <2>1. th[u].op \in Duties[u] \cap Writes /\ op \in Duties[t] \cap Writes
    BY DEF RegInv, Owned, Writing, Writes
  <2>2. u = t
    BY <2>1 DEF OneWriter
  <2> QED BY <1>9, <2>2
<1>12. Before' = Before /\ Most' = Most + 1 /\ (Lists(Before) => Lists(Before)')
  <2>1. Len(Dummies) \in Nat /\ requests \in Nat
    BY <1>6, UsersAssumption
  <2> QED BY <1>5, <2>1 DEF Before, Most, Lists, Slots, Kept
<1>13. Owned'
  <2> SUFFICES ASSUME NEW u \in Threads PROVE th'[u].op \in Duties[u] \cup {"none"} /\ PlaceOK(th'[u])
    BY DEF Owned, PlaceOK
  <2>1. CASE u = t
    BY <1>3, <1>4, <1>7, <2>1 DEF PlaceOK
  <2>2. CASE u # t
    <3>1. th'[u].pc = th[u].pc /\ th'[u].op = th[u].op
      BY <1>8, <2>2
    <3>2. th[u].op \in Duties[u] \cup {"none"} /\ PlaceOK(th[u])
      BY DEF RegInv, Owned
    <3> QED BY <3>1, <3>2 DEF PlaceOK
  <2> QED BY <2>1, <2>2
<1>14. Registered'
  <2>1. requests' \in 0 .. MaxRequests
    BY <1>5, <1>6
  <2>2. counter' <= Most' /\ Len(Before) <= Most'
    BY <1>5, <1>6, <1>12
  <2> QED BY <1>5, <1>6, <1>12, <2>1, <2>2 DEF Registered, Objects, Differing
<1>15. NoWriter' => Lists(Before)'
  BY <1>10, <1>12 DEF RegInv
<1>16. ASSUME NEW u \in Threads, Writing(u)' PROVE WritePhase(th[u])'
  <2>1. CASE u = t
    <3>1. g.op = op /\ op \in Writes /\ NoWriter
      BY <1>4, <1>7, <1>11, <1>16, <2>1 DEF Writing
    <3>2. Lists(Before)' /\ size \in Nat
      BY <1>6, <1>12, <3>1 DEF RegInv, Lists
    <3>3. op # "deleteAllUsers" => Looping(g)'
      BY <1>3, <1>4, <1>5, <3>1, <3>2 DEF Looping, Writes
    <3>4. NamesDiffer(g, 0)' /\ IdsDiffer(g, 0)'
      BY DEF NamesDiffer, IdsDiffer
    <3>5. Len(Before) < Most' /\ counter < Most'
      BY <1>6, <1>12
    <3>6. WritePhase(g)'
      BY <1>2, <1>3, <1>4, <1>5, <1>12, <3>1, <3>2, <3>3, <3>4, <3>5
         DEF WritePhase, Creating, Deleting, Updating, Clearing, Writes, Ids
    <3> QED BY <1>7, <2>1, <3>6
  <2>2. CASE u # t
    <3> DEFINE f == th[u]
               h == th'[u]
    <3>1. WritePhase(f)
      BY <1>9, <1>16, <2>2 DEF RegInv
    <3>2. /\ h.pc = f.pc /\ h.op = f.op /\ h.id = f.id /\ h.body = f.body /\ h.loop = f.loop /\ h.cursor = f.cursor
          /\ h.expected = f.expected /\ h.obj = f.obj /\ h.index = f.index
          /\ h.into = f.into /\ h.room = f.room /\ h.copy = f.copy
      BY <1>8, <2>2
    <3>3. Len(Before) < Most => Len(Before)' < Most'
      BY <1>6, <1>12
    <3>4. counter < Most => counter' < Most'
      BY <1>5, <1>6, <1>12
    <3>5. Looping(f) => Looping(th[u])'
      BY <1>5, <3>2 DEF Looping
    <3>6. New(f) => New(th[u])'
      BY <1>5, <1>12, <3>2 DEF New
    <3>7. Removed(f) => Removed(th[u])'
      BY <1>5, <1>12, <3>2 DEF Removed, Lists, Slots, Kept
    <3>8. Editing(f) => Editing(th[u])'
      BY <1>5, <1>12, <3>2 DEF Editing, Slots
    <3>9. Creating(f) => Creating(th[u])'
      BY <1>5, <1>12, <3>2, <3>3, <3>4, <3>5, <3>6 DEF Creating, Copied, Referred, NamesDiffer, Slots, Kept
    <3>10. Deleting(f) => Deleting(th[u])'
      BY <1>5, <1>12, <3>2, <3>5, <3>7 DEF Deleting, IdsDiffer, Kept
    <3>11. Updating(f) => Updating(th[u])'
      BY <1>5, <1>12, <3>2, <3>5, <3>8 DEF Updating, IdsDiffer
    <3>12. Clearing(f) => Clearing(th[u])'
      BY <1>5, <1>12, <3>2 DEF Clearing
    <3> QED BY <3>1, <3>2, <3>9, <3>10, <3>11, <3>12 DEF WritePhase
  <2> QED BY <2>1, <2>2
<1>17. ASSUME NEW u \in Threads, Quiet(th[u])' PROVE NoWriter' /\ ReadPhase(th[u])'
  <2>1. CASE u = t
    <3>1. op \in {"getUser", "listAllUsers"} /\ ~\E v \in Threads \ {t} : Active(v) /\ Writing(v)
      BY <1>4, <1>7, <1>17, <2>1 DEF Quiet
    <3>2. NoWriter
      <4> SUFFICES ASSUME NEW v \in Threads, Writing(v) PROVE FALSE
        BY DEF NoWriter
      <4>1. v # t /\ Active(v)
        BY <1>9 DEF RegInv, Owned, PlaceOK, Active, Writing, Writes
      <4> QED BY <3>1, <4>1
    <3>3. NoWriter'
      BY <1>4, <1>7, <1>9, <3>1, <3>2 DEF NoWriter, Writing, Writes
    <3>4. Lists(Before)' /\ size \in Nat
      BY <1>6, <1>12, <3>2 DEF RegInv, Lists
    <3>5. IdsDiffer(g, 0)' /\ (op = "getUser" => Looping(g)')
      BY <1>4, <1>5, <3>4 DEF Looping, IdsDiffer
    <3>6. ReadPhase(g)'
      BY <1>4, <3>1, <3>5 DEF ReadPhase
    <3> QED BY <1>7, <2>1, <3>3, <3>6
  <2>2. CASE u # t
    <3>1. th'[u].op \in {"getUser", "listAllUsers"} /\ ~th'[u].overlapped
      BY <1>17 DEF Quiet
    <3>2. Active(u)
      BY <1>8, <2>2, <3>1 DEF RegInv, Owned, PlaceOK, Active
    <3>3. op \notin Writes /\ th'[u] = th[u]
      BY <1>8, <2>2, <3>1, <3>2
    <3>4. NoWriter /\ ReadPhase(th[u])
      BY <3>1, <3>3 DEF RegInv, Quiet
    <3>5. NoWriter'
      BY <1>4, <1>7, <1>9, <3>3, <3>4 DEF NoWriter, Writing
    <3>6. ReadPhase(th[u])'
      BY <1>5, <1>12, <3>3, <3>4 DEF ReadPhase, Showing, Looping, IdsDiffer
    <3> QED BY <3>5, <3>6
  <2> QED BY <2>1, <2>2
<1>18. RegInv'
  BY <1>13, <1>14, <1>15, <1>16, <1>17 DEF RegInv
<1> QED BY <1>5, <1>18 DEF Good, Written, Exact

LEMMA InitReg == Init => RegInv /\ Contents = heap
<1> SUFFICES ASSUME Init PROVE RegInv /\ Contents = heap
  OBVIOUS
<1>1. /\ Len(Dummies) \in Nat /\ DOMAIN Dummies = 1 .. Len(Dummies) /\ MaxRequests \in Nat
      /\ \A i \in DOMAIN Dummies : Dummies[i] \in Representation
  <2>1. Dummies \in Seq(Representation)
    BY UsersAssumption DEF Representation
  <2> QED BY <2>1, DutiesAssumption
<1>2. heap = [i \in 1 .. Len(Dummies) |-> User(i, Dummies[i])]
  BY <1>1 DEF Init
<1>3. \A i \in 1 .. Len(Dummies) : User(i, Dummies[i]) \in Stored /\ User(i, Dummies[i]).id = i
  BY <1>1 DEF User, Stored, Representation
<1>4. /\ heap \in Seq(Stored) /\ Len(heap) = Len(Dummies) /\ DOMAIN heap = 1 .. Len(Dummies)
      /\ \A i \in DOMAIN heap : heap[i].id = i
  BY <1>1, <1>2, <1>3
<1>5. /\ length \in Nat /\ size \in 0 .. length
      /\ arr \in [0 .. length - 1 -> Nat] /\ DOMAIN arr = 0 .. length - 1
  BY <1>1, DutiesAssumption DEF Init, Null
<1>6. Objects /\ Len(heap) <= Most /\ requests = 0 /\ Most = Len(Dummies)
  BY <1>1, <1>4, <1>5 DEF Init, Objects, Most
<1>7. Lists(heap)
  <2>1. ASSUME NEW i \in DOMAIN arr PROVE arr[i] = IF i < Len(Dummies) THEN heap[i + 1].id ELSE Null
    <3>1. i \in Nat /\ arr[i] = IF i < Len(Dummies) THEN i + 1 ELSE Null
      BY <1>1, <1>5 DEF Init
    <3>2. i < Len(Dummies) => i + 1 \in DOMAIN heap
      BY <1>1, <1>4, <3>1
    <3> QED BY <1>4, <3>1, <3>2
  <2> QED BY <1>4, <2>1 DEF Lists, Slots, Kept, Init
<1>8. Differing(heap)
  BY <1>4 DEF Differing
<1>9. Contents = heap /\ Before = heap
  <2>2. Contents = heap
    BY <1>4, <1>6, <1>7, ContentsListed
  <2> QED BY <2>2 DEF Before, Init
<1>10. Registered /\ Lists(Before)
  BY <1>4, <1>6, <1>7, <1>8, <1>9 DEF Registered
<1>11. \A t \in Threads : th[t] = Idle
  BY DEF Init
<1>12. Owned
  BY <1>11 DEF Owned, PlaceOK, Idle
<1>13. \A t \in Threads : ~Writing(t) /\ ~Quiet(th[t])
  BY <1>11 DEF Idle, Writing, Writes, Quiet
<1> QED BY <1>9, <1>10, <1>12, <1>13 DEF RegInv

LEMMA StepGood == ASSUME OneWriter, IdInv, RegInv, [Next]_vars PROVE Good
<1>1. CASE UNCHANGED vars
  <2>1. UNCHANGED <<heap, list, counter, th, requests, issued, wrote, read>>
    BY <1>1 DEF vars
  <2>2. RegInv'
    <3>1. Before' = Before /\ Most' = Most /\ (Lists(Before) => Lists(Before)') /\ (NoWriter' <=> NoWriter)
      BY <2>1 DEF Before, Most, Lists, Slots, Kept, NoWriter, Writing, list, array
    <3>2. Owned' /\ Registered'
      BY <2>1, <3>1 DEF RegInv, Owned, PlaceOK, Registered, Objects, Differing, list, array
    <3>3. ASSUME NEW u \in Threads, Writing(u)' PROVE WritePhase(th[u])'
      <4>1. WritePhase(th[u])
        BY <2>1, <3>3 DEF RegInv, Writing
      <4>2. Looping(th[u]) => Looping(th[u])'
        BY <2>1 DEF Looping, list, array
      <4>3. Creating(th[u]) => Creating(th[u])'
        BY <2>1, <3>1, <4>2 DEF Creating, New, Copied, Referred, NamesDiffer, Slots, Kept, list, array
      <4>4. Deleting(th[u]) => Deleting(th[u])'
        BY <2>1, <3>1, <4>2 DEF Deleting, Removed, IdsDiffer, Lists, Slots, Kept, list, array
      <4>5. Updating(th[u]) => Updating(th[u])'
        BY <2>1, <3>1, <4>2 DEF Updating, Editing, IdsDiffer, Slots, list, array
      <4>6. Clearing(th[u]) => Clearing(th[u])'
        BY <2>1, <3>1 DEF Clearing, list, array
      <4> QED BY <2>1, <4>1, <4>3, <4>4, <4>5, <4>6 DEF WritePhase
    <3>4. ASSUME NEW u \in Threads, Quiet(th[u])' PROVE NoWriter' /\ ReadPhase(th[u])'
      <4>1. NoWriter /\ ReadPhase(th[u])
        BY <2>1, <3>4 DEF RegInv, Quiet
      <4> QED BY <2>1, <3>1, <4>1 DEF ReadPhase, Showing, Looping, IdsDiffer, list, array
    <3> QED BY <3>1, <3>2, <3>3, <3>4 DEF RegInv
  <2> QED BY <2>1, <2>2 DEF Good, Written, Exact
<1>2. CASE Next
  <2>1. PICK t \in Threads : Request(t) \/ Work(t)
    BY <1>2 DEF Next
  <2>2. CASE HasNext(t) \/ CheckModCount(t) \/ Fetch(t)
    <3>1. th[t].pc \in {"hasNext", "next", "fetch"}
      BY <2>2 DEF HasNext, CheckModCount, Fetch, At
    <3>2. th[t].op \in {"createUser", "getUser", "updateUser", "deleteUser"}
      BY <3>1, FrameFields DEF FrameOK, Runs
    <3>3. CASE th[t].op = "getUser"
      BY <2>2, <3>3, ReadLoops DEF Writing, Writes
    <3> QED BY <2>2, <3>2, <3>3, CreateLoops, UpdateLoops, DeleteLoops
  <2> QED BY <2>1, <2>2, RequestGood, ListReads, FieldReads, Creates, UpdateSets, UpdateStores,
         DeleteIterates, DeleteRemoves, Clears DEF Work
<1> QED BY <1>1, <1>2

\* One writer, any readers, any bounds: the invariant holds in every behaviour.
THEOREM RegistrySafe == ASSUME OneWriter PROVE Spec => []RegInv
<1>1. IdInv /\ RegInv /\ [Next]_vars => RegInv'
  BY StepGood DEF Good
<1> QED BY InitReg, IdsSafe, <1>1, PTL DEF Spec

LEMMA RegWellFormed == RegInv => ListWellFormed
<1> SUFFICES ASSUME RegInv, NoWriter
             PROVE  /\ size \in 0 .. length
                    /\ \A i \in DOMAIN arr : (arr[i] = Null) <=> (i >= size)
                    /\ Cardinality(IdsIn(Contents)) = size
                    /\ Contents = wrote.users
  BY DEF ListWellFormed
<1> DEFINE V == Before
           S == IdsIn(V)
           n == Len(V)
<1>1. V \in Seq(Stored) /\ Differing(V) /\ Lists(V) /\ Objects
  BY DEF RegInv, Registered
<1>2. Contents = V
  BY <1>1, ContentsListed
<1>3. n \in Nat /\ DOMAIN V = 1 .. n /\ size = n
  BY <1>1, LenProperties DEF Lists
<1>6. size \in 0 .. length
  BY <1>1 DEF Objects
<1>4. ASSUME NEW i \in DOMAIN arr PROVE (arr[i] = Null) <=> (i >= size)
  <2>1. i \in Nat /\ 0 \notin DOMAIN heap
    BY <1>1 DEF Objects
  <2>2. arr[i] = IF i < size THEN V[i + 1].id ELSE Null
    BY <1>1 DEF Lists, Slots
  <2>3. i < size => V[i + 1].id \in DOMAIN heap
    BY <1>1, <1>3, <2>1 DEF Lists, Kept
  <2> QED BY <1>3, <2>1, <2>2, <2>3 DEF Null
<1>5. Cardinality(S) = n
  <2> DEFINE ids == [i \in 1 .. n |-> V[i].id]
  <2>1. S = {V[i].id : i \in 1 .. n}
    BY <1>3 DEF IdsIn
  <2>2. \A i, j \in 1 .. n : ids[i] = ids[j] => i = j
    BY <1>1, <1>3 DEF Differing
  <2>3. ids \in Bijection(1 .. n, S)
    <3>1. ids \in [1 .. n -> S] /\ \A s \in S : \E i \in 1 .. n : ids[i] = s
      BY <2>1
    <3> HIDE DEF ids, S
    <3> QED BY <2>2, <3>1 DEF Bijection, Injection, Surjection, IsInjective
  <2>4. ExistsBijection(1 .. n, S)
    BY <2>3 DEF ExistsBijection
  <2> HIDE DEF S, n
  <2> QED BY <1>3, <2>4, FS_CountingElements
<1> QED BY <1>2, <1>3, <1>4, <1>5, <1>6 DEF Before

\* Whenever no write runs, the list holds each of its users once, without a gap,
\* and exactly as the last write left it.
THEOREM ListIsWellFormed == ASSUME OneWriter PROVE Spec => []ListWellFormed
BY RegistrySafe, RegWellFormed, PTL

\* Every read that no write overlapped shows the truth and does not fail.
THEOREM QuietReadsAreExact == ASSUME OneWriter PROVE Spec => QuietReadsExact
<1>1. IdInv /\ RegInv /\ [Next]_vars => [Exact]_vars
  BY StepGood DEF Good
<1>2. Spec => [][Exact]_vars
  BY <1>1, IdsSafe, RegistrySafe, PTL DEF Spec
<1> QED BY <1>2, PTL DEF QuietReadsExact, Exact

\* The unprotected list implements the atomic Registry: each write takes effect
\* in one step, at its answer.
THEOREM ListImplementsRegistry == ASSUME OneWriter PROVE Spec => ImplementsRegistry
<1>1. Init => Atomic!Init
  <2> SUFFICES ASSUME Init PROVE Atomic!Init
    OBVIOUS
  <2>1. /\ Contents = heap /\ wrote.users = Contents /\ issued = DOMAIN Dummies
        /\ heap = [i \in DOMAIN Dummies |-> User(i, Dummies[i])]
    BY InitReg DEF Init
  <2> QED BY <2>1 DEF Init, Atomic!Init, Atomic!WithId, User, Atomic!NoBody, NoBody
<1>2. IdInv /\ RegInv /\ [Next]_vars => [Atomic!Next]_(Atomic!vars)
  BY StepGood DEF Good, Written, Atomic!vars
<1> QED BY <1>1, <1>2, IdsSafe, RegistrySafe, PTL DEF Spec, ImplementsRegistry, Atomic!Spec
=============================================================================
