--------------------------- MODULE SwitchRpcProofs ---------------------------
(***************************************************************************)
(* Remote procedure calls over the switch, for any number of calls, of     *)
(* crashes of the service and of restarts of the switch.                   *)
(***************************************************************************)
EXTENDS SwitchRpc, FiniteSetTheorems, WellFoundedInduction, TLAPS

-----------------------------------------------------------------------------
(* What the operations on the directory do to a queue that can be read *)

Ids(qs, n)    == DOMAIN Find(qs, n).q
Msg(qs, n, i) == Find(qs, n).q[i].message
NextId(qs, n) == Find(qs, n).next_id

\* The same messages and the same counter.
SameQueue(a, b, n) ==
    /\ Ids(b, n) = Ids(a, n) /\ NextId(b, n) = NextId(a, n)
    /\ \A i \in Ids(a, n) : Msg(b, n, i) = Msg(a, n, i)

\* A queue that does not exist reads like one that was just created.
LEMMA NoQueue ==
  ASSUME NEW qs, NEW n, ~Exists(qs, n)
  PROVE  Ids(qs, n) = {} /\ NextId(qs, n) = 0
  BY DEF Ids, NextId, Find, Make, Queue, EmptyMap

\* A queue that is created leaves the others as they are.
LEMMA AddQueue ==
  ASSUME NEW qs, NEW o, NEW n, NEW m
  PROVE  /\ SameQueue(qs, DirectoryAdd(qs, o, n), m)
         /\ Exists(DirectoryAdd(qs, o, n), m) <=> Exists(qs, m) \/ m = n
<1>1. CASE Exists(qs, n)
  BY <1>1 DEF DirectoryAdd, SameQueue
<1>2. CASE ~Exists(qs, n)
  <2> DEFINE new == DirectoryAdd(qs, o, n)
  <2>1. new.queues = MapAdd(qs.queues, n, Make(o))
    BY <1>2 DEF DirectoryAdd
  <2> HIDE DEF new
  <2>2. Exists(new, m) <=> Exists(qs, m) \/ m = n
    BY <2>1 DEF Exists, MapAdd
  <2>3. CASE m = n
    <3>1. Find(new, m) = Make(o) /\ Find(qs, m) = Make(None)
      BY <1>2, <2>1, <2>3 DEF Find, Exists, MapAdd
    <3>2. Ids(new, m) = {} /\ Ids(qs, m) = {} /\ NextId(new, m) = 0 /\ NextId(qs, m) = 0
      BY <3>1 DEF Ids, NextId, Make, Queue, EmptyMap
    <3> QED BY <2>2, <3>2 DEF SameQueue, new
  <2>4. CASE m # n
    <3>1. Find(new, m) = Find(qs, m)
      BY <2>1, <2>4 DEF Find, Exists, MapAdd
    <3> QED BY <2>2, <3>1 DEF SameQueue, Ids, NextId, Msg, new
  <2> QED BY <2>3, <2>4
<1> QED BY <1>1, <1>2

\* A message that is sent gets the queue's next identifier.
LEMMA SendQueue ==
  ASSUME NEW qs, NEW o, NEW n, NEW msg, Exists(qs, n), NEW m
  PROVE  LET new == Sent(qs, o, n, msg)
             i   == NextId(qs, n)
         IN  /\ Exists(new, m) <=> Exists(qs, m)
             /\ m # n => SameQueue(qs, new, m)
             /\ Ids(new, n) = Ids(qs, n) \cup {i} /\ NextId(new, n) = i + 1
             /\ Msg(new, n, i) = msg
             /\ \A j \in Ids(qs, n) \ {i} : Msg(new, n, j) = Msg(qs, n, j)
<1> DEFINE x == qs.queues[n]
           i == x.next_id
           t == TakeNextId(qs, n)
           e == [origin |-> o, message |-> msg]
           y == Queue(MapAdd(x.q, i, e), x.owner, i + 1)
           new == Sent(qs, o, n, msg)
<1>1. /\ t.queues = MapAdd(qs.queues, n, Queue(x.q, x.owner, i + 1))
      /\ Exists(t, n) /\ t.queues[n] = Queue(x.q, x.owner, i + 1)
  BY DEF TakeNextId, WithQueue, Exists, MapAdd
<1>2. new.queues = MapAdd(t.queues, n, y)
  BY <1>1 DEF Sent, InternalSend, WithQueue, Queue
<1> HIDE DEF t, new
<1>3. \A k : Exists(new, k) <=> Exists(qs, k)
  BY <1>1, <1>2 DEF Exists, MapAdd
<1>4. Find(qs, n) = x /\ Find(new, n) = y
  BY <1>2, <1>3 DEF Find, MapAdd
<1>5. m # n => Find(new, m) = Find(qs, m)
  BY <1>1, <1>2, <1>3 DEF Find, Exists, MapAdd
<1>6. NextId(qs, n) = i /\ NextId(new, n) = i + 1
  BY <1>4 DEF NextId, Queue
<1>7. /\ Ids(new, n) = Ids(qs, n) \cup {i} /\ Msg(new, n, i) = msg
      /\ \A j \in Ids(qs, n) \ {i} : Msg(new, n, j) = Msg(qs, n, j)
  BY <1>4 DEF Ids, Msg, Queue, MapAdd
<1>8. m # n => SameQueue(qs, new, m)
  BY <1>5 DEF SameQueue, Ids, NextId, Msg
<1> QED BY <1>3, <1>6, <1>7, <1>8 DEF new

\* An acknowledgement takes a message away.
LEMMA AckQueue ==
  ASSUME NEW qs, NEW n, NEW i, NEW m
  PROVE  LET new == InternalAck(qs, n, i)
         IN  /\ Exists(new, m) <=> Exists(qs, m)
             /\ Ids(new, m) = Ids(qs, m) \ (IF m = n THEN {i} ELSE {})
             /\ NextId(new, m) = NextId(qs, m)
             /\ \A j \in Ids(new, m) : Msg(new, m, j) = Msg(qs, m, j)
<1> DEFINE x == qs.queues[n]
           new == InternalAck(qs, n, i)
<1>1. CASE Exists(qs, n) /\ i \in DOMAIN x.q
  <2>1. new.queues = MapAdd(qs.queues, n, Queue(MapRemove(x.q, {i}), x.owner, x.next_id))
    BY <1>1 DEF InternalAck, WithQueue
  <2> HIDE DEF new
  <2>2. Exists(new, m) <=> Exists(qs, m)
    BY <1>1, <2>1 DEF Exists, MapAdd
  <2>3. CASE m = n
    <3>1. Find(qs, m) = x /\ Find(new, m) = Queue(MapRemove(x.q, {i}), x.owner, x.next_id)
      BY <1>1, <2>1, <2>2, <2>3 DEF Find, MapAdd
    <3> QED BY <2>2, <2>3, <3>1 DEF Ids, Msg, NextId, Queue, MapRemove, new
  <2>4. CASE m # n
    <3>1. Find(new, m) = Find(qs, m)
      BY <2>1, <2>2, <2>4 DEF Find, MapAdd, Exists
    <3> QED BY <2>2, <2>4, <3>1 DEF Ids, Msg, NextId, new
  <2> QED BY <2>3, <2>4
<1>2. CASE ~(Exists(qs, n) /\ i \in DOMAIN x.q)
  <2>1. new = qs
    BY <1>2 DEF InternalAck
  <2>2. m = n => i \notin Ids(qs, m)
    BY <1>2 DEF Ids, Find, Make, Queue, EmptyMap
  <2> HIDE DEF new
  <2> QED BY <2>1, <2>2 DEF new
<1> QED BY <1>1, <1>2

-----------------------------------------------------------------------------
(* Invariants *)

PCs == {"start", "create", "send", "register", "read", "release", "done"}
Values == {None, IvarTimeout, IvarDeleted} \cup {IvarReply(r) : r \in Rpc}
Calls == [pc : PCs, id : Int, ivar : Values, fired : BOOLEAN, result : Values]
Requests == [kind : {"Request"}, call : Rpc]
Responses == [kind : {"Response"}, to : Nat, answer : Rpc]
Workers == [id : Nat, call : Rpc, pc : {"process", "reply", "ack"}, epoch : Nat]

TypeOK ==
    /\ clientUp \in BOOLEAN
    /\ call \in [Rpc -> Calls]
    /\ events \in [from : Int, batch : SUBSET [id : Nat, msg : Responses], next : Int]
    /\ server \in [running : BOOLEAN, up : BOOLEAN, from : Int]
    /\ workers \subseteq Workers
    /\ processed \in [Rpc -> Nat]
    /\ crashes \in Nat /\ restarts \in Nat

\* The identifiers in a queue are below its counter.
Numbered(n) ==
    /\ NextId(queues, n) \in Nat
    /\ \A i \in Ids(queues, n) : i \in Nat /\ i < NextId(queues, n)
QueuesOK ==
    /\ Numbered(Svc) /\ Numbered(Reply)
    /\ \A i \in Ids(queues, Svc) : Msg(queues, Svc, i) \in Requests
    /\ \A i \in Ids(queues, Reply) : Msg(queues, Reply, i) \in Responses

\* No one creates the reply queue again: once the switch was restarted, no
\* reply reaches the client, and what it holds of an earlier transfer it drops
\* before it connects again.
FaultsOK ==
    /\ restarts > 0 => ~Exists(queues, Reply)
    /\ ~clientUp => restarts > 0
    /\ restarts > 0 /\ events.batch # {} => ~clientUp

Locked(r) == call[r].pc \in {"create", "send", "register"}
MutexOK == \A r \in Rpc : Locked(r) => requestsM = r

\* A transfer in hand has a last identifier.
BatchOK == \A e \in events.batch : e.id <= events.next

BasicInv == TypeOK /\ QueuesOK /\ FaultsOK /\ MutexOK /\ BatchOK

\* As long as the switch has not been restarted, an identifier is a call's.
OwnIds ==
    /\ \A r \in Rpc : call[r].pc \in {"start", "create", "send"} => call[r].id = -1
    /\ \A r \in Rpc : call[r].pc \in {"register", "read", "release"} => call[r].id >= 0
    /\ \A r \in Rpc : call[r].id < NextId(queues, Svc) /\ call[r].id >= -1
    /\ \A r, s \in Rpc : call[r].id >= 0 /\ call[r].id = call[s].id => r = s
Waits(j, r) == wakener[j] = <<r>> /\ call[r].id = j /\ call[r].pc \in {"read", "release", "done"}
WakenersOK ==
    /\ \A j \in DOMAIN wakener : \E r \in Rpc : Waits(j, r)
    /\ \A r \in Rpc : call[r].pc \in {"read", "release"} => call[r].id \in DOMAIN wakener
MessagesOK ==
    /\ \A i \in Ids(queues, Svc) : call[Msg(queues, Svc, i).call].id = i
    /\ \A w \in workers : call[w.call].id = w.id
    /\ \A i \in Ids(queues, Reply) :
           call[Msg(queues, Reply, i).answer].id = Msg(queues, Reply, i).to
    /\ \A e \in events.batch : call[e.msg.answer].id = e.msg.to
CorrelatedInv == restarts = 0 => OwnIds /\ WakenersOK /\ MessagesOK

\* What an Ivar and a call may hold.
AnswersOK ==
    \A r \in Rpc :
        /\ call[r].ivar \in {None, IvarTimeout, IvarReply(r)}
        /\ call[r].result \in {None, IvarTimeout, IvarDeleted, IvarReply(r)}

\* The cursor of the event thread is below the reply queue's counter, and a
\* message in hand is the one in the queue, if that is still there.
CursorOK ==
    restarts = 0 =>
        /\ events.from < NextId(queues, Reply) /\ events.next < NextId(queues, Reply)
        /\ \A e \in events.batch : e.id \in Ids(queues, Reply) => e.msg = Msg(queues, Reply, e.id)

\* How often a call's request may still be processed: by the threads that are
\* about to, because it is in the queue above the service's cursor (which a
\* service that connects again may have forgotten), or because it will be sent.
About(r) == {w \in workers : w.call = r /\ w.pc = "process"}
InQueue(r) == \E i \in Ids(queues, Svc) : Msg(queues, Svc, i).call = r
Unread(r) == \E i \in Ids(queues, Svc) : Msg(queues, Svc, i).call = r /\ (server.up => i > server.from)
ToSend(r) == call[r].pc \in {"start", "create", "send"} \/ (call[r].pc = "register" /\ ~clientUp)
One(b) == IF b THEN 1 ELSE 0
Quota(r) ==
    /\ IsFiniteSet(About(r))
    /\ processed[r] + Cardinality(About(r)) + One(Unread(r)) + One(ToSend(r))
           <= 1 + crashes + restarts
OnceInv ==
    /\ server.running \/ ~server.up
    /\ \A r \in Rpc : InQueue(r) => ~ToSend(r)
    /\ \A i, j \in Ids(queues, Svc) : Msg(queues, Svc, i).call = Msg(queues, Svc, j).call => i = j
    /\ \A r \in Rpc : Quota(r)

-----------------------------------------------------------------------------
(* How a step changes the calls *)

Moves(r, p) == \A s \in Rpc : call'[s].pc = IF s = r THEN p ELSE call[s].pc
SamePcs     == \A s \in Rpc : call'[s].pc = call[s].pc
SameIds     == \A s \in Rpc : call'[s].id = call[s].id
SameHeld    == \A s \in Rpc : call'[s].ivar = call[s].ivar /\ call'[s].result = call[s].result

\* A call goes on.
LEMMA MoveCall ==
  ASSUME TypeOK, NEW r \in Rpc, NEW p \in PCs, call' = [call EXCEPT ![r].pc = p]
  PROVE  call' \in [Rpc -> Calls] /\ Moves(r, p) /\ SameIds /\ SameHeld
  BY DEF TypeOK, Calls, Moves, SameIds, SameHeld

\* A call is sent.
LEMMA SendCall ==
  ASSUME TypeOK, NEW r \in Rpc, NEW i \in Nat,
         call' = [call EXCEPT ![r].pc = "register", ![r].id = i]
  PROVE  /\ call' \in [Rpc -> Calls] /\ Moves(r, "register") /\ SameHeld
         /\ \A s \in Rpc : call'[s].id = IF s = r THEN i ELSE call[s].id
<1>1. call \in [Rpc -> Calls] /\ "register" \in PCs
  BY DEF TypeOK, PCs
<1> DEFINE moved == [call[r] EXCEPT !.pc = "register"]
           new == [moved EXCEPT !.id = i]
<1>7. moved \in Calls /\ i \in Int
  BY <1>1 DEF Calls
<1>5. new \in Calls
  <2> HIDE DEF moved
  <2> QED BY <1>7 DEF Calls
<1>6. call' = [call EXCEPT ![r] = new]
  BY <1>1
<1> HIDE DEF new
<1>2. call' \in [Rpc -> Calls]
  BY <1>1, <1>5, <1>6
<1>3. Moves(r, "register") /\ SameHeld
  BY <1>1 DEF Calls, Moves, SameHeld
<1>4. \A s \in Rpc : call'[s].id = IF s = r THEN i ELSE call[s].id
  BY <1>1 DEF Calls
<1> QED BY <1>2, <1>3, <1>4

\* A call ends with a result.
LEMMA EndCall ==
  ASSUME TypeOK, NEW r \in Rpc, NEW p \in PCs, NEW v \in Values,
         call' = [call EXCEPT ![r].pc = p, ![r].result = v]
  PROVE  /\ call' \in [Rpc -> Calls] /\ Moves(r, p) /\ SameIds
         /\ \A s \in Rpc : call'[s].ivar = call[s].ivar
         /\ \A s \in Rpc : call'[s].result = IF s = r THEN v ELSE call[s].result
  BY DEF TypeOK, Calls, Moves, SameIds

\* An Ivar is filled.
LEMMA FillCall ==
  ASSUME TypeOK, NEW r \in Rpc, NEW v \in Values,
         \/ call' = [call EXCEPT ![r].ivar = v]
         \/ call' = [call EXCEPT ![r].ivar = v, ![r].fired = TRUE]
  PROVE  /\ call' \in [Rpc -> Calls] /\ SamePcs /\ SameIds
         /\ \A s \in Rpc : call'[s].ivar = IF s = r THEN v ELSE call[s].ivar
         /\ \A s \in Rpc : call'[s].result = call[s].result
  BY DEF TypeOK, Calls, SamePcs, SameIds

\* A call reads its Ivar.
LEMMA ReadCall ==
  ASSUME TypeOK, NEW r \in Rpc, RpcRead(r)
  PROVE  /\ call' \in [Rpc -> Calls] /\ SameIds
         /\ Moves(r, "release") \/ Moves(r, "done")
         /\ \A s \in Rpc : call'[s].ivar = call[s].ivar
         /\ \A s \in Rpc : call'[s].result = IF s = r THEN call[r].ivar ELSE call[s].result
<1> DEFINE p == IF call[r].ivar.ok THEN "release" ELSE "done"
<1>1. p \in PCs /\ call[r].ivar \in Values
  BY DEF PCs, TypeOK, Calls
<1>2. call' = [call EXCEPT ![r].result = call[r].ivar, ![r].pc = p]
  BY DEF RpcRead
<1>3. p = "release" \/ p = "done"
  OBVIOUS
<1> HIDE DEF p
<1> QED BY <1>1, <1>2, <1>3 DEF TypeOK, Calls, Moves, SameIds

-----------------------------------------------------------------------------
(* Types, queues, faults and the mutex *)

\* The queues stay well typed when their messages stay.
LEMMA QueuesKept ==
  ASSUME QueuesOK, SameQueue(queues, queues', Svc), SameQueue(queues, queues', Reply)
  PROVE  QueuesOK'
  BY DEF QueuesOK, Numbered, SameQueue

\* The queues as they were.
LEMMA SameQueues ==
  ASSUME queues' = queues
  PROVE  /\ SameQueue(queues, queues', Svc) /\ SameQueue(queues, queues', Reply)
         /\ Exists(queues', Reply) <=> Exists(queues, Reply)
  BY DEF SameQueue

\* Creating the service's queue, by the client or by the service.
LEMMA SvcAdded ==
  ASSUME queues' = DirectoryAdd(queues, None, Svc)
  PROVE  /\ SameQueue(queues, queues', Svc) /\ SameQueue(queues, queues', Reply)
         /\ Exists(queues', Reply) <=> Exists(queues, Reply)
  BY AddQueue, RpcAssumption

\* Sending a message to one of the two queues.
LEMMA SentOK ==
  ASSUME QueuesOK, NEW n \in {Svc, Reply}, Exists(queues, n), NEW o, NEW msg,
         n = Svc => msg \in Requests, n = Reply => msg \in Responses,
         queues' = Sent(queues, o, n, msg)
  PROVE  QueuesOK' /\ (Exists(queues', Reply) <=> Exists(queues, Reply))
<1> DEFINE i == NextId(queues, n)
<1>1. \A m : Exists(queues', m) <=> Exists(queues, m)
  BY SendQueue
<1>2. \A m : m # n => SameQueue(queues, queues', m)
  BY SendQueue
<1>3. /\ Ids(queues', n) = Ids(queues, n) \cup {i} /\ NextId(queues', n) = i + 1
      /\ Msg(queues', n, i) = msg
      /\ \A j \in Ids(queues, n) \ {i} : Msg(queues', n, j) = Msg(queues, n, j)
  BY SendQueue
<1>4. Numbered(n)'
  BY <1>3 DEF QueuesOK, Numbered
<1>5. \A m \in {Svc, Reply} : Numbered(m)'
  BY <1>2, <1>4 DEF QueuesOK, Numbered, SameQueue
<1>6. \A j \in Ids(queues', Svc) : Msg(queues', Svc, j) \in Requests
  BY <1>2, <1>3 DEF QueuesOK, SameQueue
<1>7. \A j \in Ids(queues', Reply) : Msg(queues', Reply, j) \in Responses
  BY <1>2, <1>3 DEF QueuesOK, SameQueue
<1> QED BY <1>1, <1>5, <1>6, <1>7 DEF QueuesOK

\* An acknowledgement keeps them.
LEMMA AckedOK ==
  ASSUME QueuesOK, NEW n, NEW i, queues' = InternalAck(queues, n, i)
  PROVE  QueuesOK' /\ (Exists(queues', Reply) <=> Exists(queues, Reply))
<1>1. \A m : /\ Exists(queues', m) <=> Exists(queues, m)
             /\ Ids(queues', m) \subseteq Ids(queues, m) /\ NextId(queues', m) = NextId(queues, m)
             /\ \A j \in Ids(queues', m) : Msg(queues', m, j) = Msg(queues, m, j)
  BY AckQueue
<1> QED BY <1>1 DEF QueuesOK, Numbered

\* A set of identifiers below a counter has a largest element, if any.
LEMMA LargestBelow ==
  ASSUME NEW S \in SUBSET Nat, S # {}, NEW b \in Nat, \A j \in S : j < b
  PROVE  Largest(S) \in S /\ \A j \in S : j <= Largest(S)
<1> DEFINE T == {k \in Nat : \E j \in S : k = b - j}
<1>1. T # {} /\ T \subseteq Nat
  <2>1. PICK j \in S : TRUE
    OBVIOUS
  <2>2. b - j \in T
    OBVIOUS
  <2> QED BY <2>2
<1> HIDE DEF T
<1>2. PICK x \in T : \A y \in T : ~(<<y, x>> \in OpToRel(<, Nat))
  BY <1>1, NatLessThanWellFounded, WFMin
<1>3. x \in Nat /\ \A y \in T : ~(y < x)
  BY <1>1, <1>2 DEF OpToRel
<1>4. PICK i \in S : x = b - i
  BY <1>2 DEF T
<1>5. ASSUME NEW j \in S PROVE j <= i
  <2>1. b - j \in T
    BY DEF T
  <2> QED BY <1>3, <1>4, <2>1
<1> QED BY <1>4, <1>5 DEF Largest

\* The types hold at first.
LEMMA BasicInitial == Init => BasicInv
<1> SUFFICES ASSUME Init PROVE BasicInv
  OBVIOUS
<1>1. TypeOK
  BY DEF Init, TypeOK, Calls, PCs, Values
<1>2. \A n : Ids(queues, n) = {} /\ NextId(queues, n) = 0
  <2>1. \A n : SameQueue(EmptyQueues, queues, n) /\ ~Exists(EmptyQueues, n)
    BY AddQueue DEF Init, Exists, EmptyQueues, EmptyMap
  <2> QED BY <2>1, NoQueue DEF SameQueue
<1>3. QueuesOK
  BY <1>2 DEF QueuesOK, Numbered
<1>4. FaultsOK /\ MutexOK /\ BatchOK
  BY DEF Init, FaultsOK, MutexOK, Locked, BatchOK
<1> QED BY <1>1, <1>3, <1>4 DEF BasicInv

\* The steps of a call up to the Send.
LEMMA RpcLockBasic ==
  ASSUME BasicInv, NEW r \in Rpc, RpcLock(r)
  PROVE  BasicInv'
<1>1. call' \in [Rpc -> Calls] /\ Moves(r, "create")
  BY MoveCall DEF BasicInv, RpcLock, PCs
<1>2. TypeOK' /\ BatchOK'
  BY <1>1 DEF BasicInv, TypeOK, BatchOK, RpcLock, serverVars
<1>3. QueuesOK' /\ FaultsOK'
  BY SameQueues, QueuesKept DEF BasicInv, FaultsOK, RpcLock
<1>4. MutexOK'
  BY <1>1, RpcAssumption DEF BasicInv, MutexOK, Locked, Moves, RpcLock
<1> QED BY <1>2, <1>3, <1>4 DEF BasicInv

\* Client.rpc: a call that starts again,
LEMMA RpcRetryBasic ==
  ASSUME BasicInv, NEW r \in Rpc, RpcRetry(r)
  PROVE  BasicInv'
<1>1. call' \in [Rpc -> Calls] /\ Moves(r, "start")
  BY MoveCall DEF BasicInv, RpcRetry, PCs
<1>2. TypeOK' /\ BatchOK'
  BY <1>1 DEF BasicInv, TypeOK, BatchOK, RpcRetry, serverVars
<1>3. QueuesOK' /\ FaultsOK'
  BY SameQueues, QueuesKept DEF BasicInv, FaultsOK, RpcRetry
<1>4. MutexOK'
  BY <1>1 DEF BasicInv, MutexOK, Locked, Moves, RpcRetry
<1> QED BY <1>2, <1>3, <1>4 DEF BasicInv

\* that creates the service's queue,
LEMMA RpcCreateBasic ==
  ASSUME BasicInv, NEW r \in Rpc, RpcCreate(r)
  PROVE  BasicInv'
<1>1. call' \in [Rpc -> Calls] /\ Moves(r, "send")
  BY MoveCall DEF BasicInv, RpcCreate, PCs
<1>2. TypeOK' /\ BatchOK'
  BY <1>1 DEF BasicInv, TypeOK, BatchOK, RpcCreate, serverVars
<1>3. QueuesOK' /\ FaultsOK'
  BY SvcAdded, QueuesKept DEF BasicInv, FaultsOK, RpcCreate
<1>4. MutexOK'
  BY <1>1 DEF BasicInv, MutexOK, Locked, Moves, RpcCreate
<1> QED BY <1>2, <1>3, <1>4 DEF BasicInv

\* that sends its request,
LEMMA RpcSendBasic ==
  ASSUME BasicInv, NEW r \in Rpc, RpcSend(r)
  PROVE  BasicInv'
<1>1. queues.queues[Svc].next_id = NextId(queues, Svc) /\ NextId(queues, Svc) \in Nat
  BY DEF RpcSend, NextId, Find, BasicInv, QueuesOK, Numbered
<1>2. call' \in [Rpc -> Calls] /\ Moves(r, "register")
  BY <1>1, SendCall DEF BasicInv, RpcSend
<1>3. TypeOK' /\ BatchOK'
  BY <1>2 DEF BasicInv, TypeOK, BatchOK, RpcSend, serverVars
<1>4. Request(r) \in Requests
  BY DEF Request, Requests
<1>5. QueuesOK' /\ (Exists(queues', Reply) <=> Exists(queues, Reply))
  BY <1>4, SentOK, RpcAssumption DEF BasicInv, RpcSend
<1>6. FaultsOK' /\ MutexOK'
  BY <1>2, <1>5 DEF BasicInv, FaultsOK, MutexOK, Locked, Moves, RpcSend
<1> QED BY <1>3, <1>5, <1>6 DEF BasicInv

\* that finds the queue gone,
LEMMA RpcDeletedBasic ==
  ASSUME BasicInv, NEW r \in Rpc, RpcDeleted(r)
  PROVE  BasicInv'
<1>1. call' \in [Rpc -> Calls] /\ Moves(r, "done")
  BY EndCall DEF BasicInv, RpcDeleted, PCs, Values
<1>2. TypeOK' /\ BatchOK'
  BY <1>1 DEF BasicInv, TypeOK, BatchOK, RpcDeleted, serverVars
<1>3. QueuesOK' /\ FaultsOK'
  BY SameQueues, QueuesKept DEF BasicInv, FaultsOK, RpcDeleted
<1>4. MutexOK'
  BY <1>1 DEF BasicInv, MutexOK, Locked, Moves, RpcDeleted
<1> QED BY <1>2, <1>3, <1>4 DEF BasicInv

\* that registers its wakener,
LEMMA RpcRegisterBasic ==
  ASSUME BasicInv, NEW r \in Rpc, RpcRegister(r)
  PROVE  BasicInv'
<1>1. call' \in [Rpc -> Calls] /\ Moves(r, "read")
  BY MoveCall DEF BasicInv, RpcRegister, PCs
<1>2. TypeOK' /\ BatchOK'
  BY <1>1 DEF BasicInv, TypeOK, BatchOK, RpcRegister, serverVars
<1>3. QueuesOK' /\ FaultsOK'
  BY SameQueues, QueuesKept DEF BasicInv, FaultsOK, RpcRegister
<1>4. MutexOK'
  BY <1>1 DEF BasicInv, MutexOK, Locked, Moves, RpcRegister
<1> QED BY <1>2, <1>3, <1>4 DEF BasicInv

\* whose time is up,
LEMMA RpcTimeoutBasic ==
  ASSUME BasicInv, NEW r \in Rpc, RpcTimeout(r)
  PROVE  BasicInv'
<1>1. call' \in [Rpc -> Calls] /\ SamePcs
  BY FillCall DEF BasicInv, RpcTimeout, Values
<1>2. TypeOK' /\ BatchOK'
  BY <1>1 DEF BasicInv, TypeOK, BatchOK, RpcTimeout, serverVars
<1>3. QueuesOK' /\ FaultsOK'
  BY SameQueues, QueuesKept DEF BasicInv, FaultsOK, RpcTimeout
<1>4. MutexOK'
  BY <1>1 DEF BasicInv, MutexOK, Locked, SamePcs, RpcTimeout
<1> QED BY <1>2, <1>3, <1>4 DEF BasicInv

\* that reads its Ivar,
LEMMA RpcReadBasic ==
  ASSUME BasicInv, NEW r \in Rpc, RpcRead(r)
  PROVE  BasicInv'
<1>1. call' \in [Rpc -> Calls] /\ (Moves(r, "release") \/ Moves(r, "done"))
  BY ReadCall DEF BasicInv
<1>2. TypeOK' /\ BatchOK'
  BY <1>1 DEF BasicInv, TypeOK, BatchOK, RpcRead, serverVars
<1>3. QueuesOK' /\ FaultsOK'
  BY SameQueues, QueuesKept DEF BasicInv, FaultsOK, RpcRead
<1>4. MutexOK'
  BY <1>1 DEF BasicInv, MutexOK, Locked, Moves, RpcRead
<1> QED BY <1>2, <1>3, <1>4 DEF BasicInv

\* that returns.
LEMMA RpcReturnBasic ==
  ASSUME BasicInv, NEW r \in Rpc, RpcReturn(r)
  PROVE  BasicInv'
<1>1. call' \in [Rpc -> Calls] /\ Moves(r, "done")
  BY MoveCall DEF BasicInv, RpcReturn, PCs
<1>2. TypeOK' /\ BatchOK'
  BY <1>1 DEF BasicInv, TypeOK, BatchOK, RpcReturn, serverVars
<1>3. QueuesOK' /\ FaultsOK'
  BY SameQueues, QueuesKept DEF BasicInv, FaultsOK, RpcReturn
<1>4. MutexOK'
  BY <1>1 DEF BasicInv, MutexOK, Locked, Moves, RpcReturn
<1> QED BY <1>2, <1>3, <1>4 DEF BasicInv

\* The event thread.
LEMMA EventPollBasic ==
  ASSUME BasicInv, EventPoll
  PROVE  /\ BasicInv' /\ restarts = 0 /\ events.batch = {}
         /\ events'.from = events.from /\ events'.next \in Ids(queues, Reply)
         /\ events'.batch = {[id |-> i, msg |-> Msg(queues, Reply, i)] :
                                i \in Above(Reply, events.from)}
<1> DEFINE ids == Above(Reply, events.from)
           batch == {[id |-> i, msg |-> Msg(queues, Reply, i)] : i \in ids}
           last == Largest(ids)
<1>1. ids \subseteq Ids(queues, Reply) /\ ids # {}
  BY DEF Above, EventPoll, Ids
<1>2. Exists(queues, Reply)
  BY <1>1, NoQueue
<1>3. restarts = 0
  BY <1>2 DEF BasicInv, FaultsOK, TypeOK
<1>4. events' = [events EXCEPT !.batch = batch, !.next = last]
  BY <1>2 DEF EventPoll, Msg, Find
<1>5. last \in ids /\ \A i \in ids : i <= last
  <2>1. ids \in SUBSET Nat /\ NextId(queues, Reply) \in Nat /\ \A i \in ids : i < NextId(queues, Reply)
    BY <1>1 DEF BasicInv, QueuesOK, Numbered
  <2> HIDE DEF ids
  <2> QED BY <1>1, <2>1, LargestBelow
<1>6. batch \subseteq [id : Nat, msg : Responses] /\ last \in Int
  BY <1>1, <1>5 DEF BasicInv, QueuesOK, Numbered
<1>7. \A e \in batch : e.id <= last
  BY <1>5
<1> HIDE DEF ids, batch, last
<1>8. events'.from = events.from /\ events'.next = last /\ events'.batch = batch
  BY <1>4 DEF BasicInv, TypeOK
<1>9. TypeOK'
  BY <1>4, <1>6 DEF BasicInv, TypeOK, EventPoll, serverVars
<1>10. QueuesOK' /\ FaultsOK' /\ MutexOK' /\ BatchOK'
  BY <1>3, <1>7, <1>8, SameQueues, QueuesKept
     DEF BasicInv, FaultsOK, MutexOK, Locked, BatchOK, EventPoll, serverVars
<1>11. BasicInv'
  BY <1>9, <1>10 DEF BasicInv
<1>12. events.batch = {}
  BY DEF EventPoll
<1> QED BY <1>1, <1>3, <1>5, <1>8, <1>11, <1>12 DEF batch, ids

\* The newest message in hand.
LEMMA NextEventIn ==
  ASSUME BasicInv, events.batch # {}
  PROVE  /\ NextEvent \in events.batch /\ NextEvent.id \in Nat
         /\ NextEvent.msg \in Responses
<1> DEFINE S == {e.id : e \in events.batch}
<1>1. \A e \in events.batch : e.id \in Nat /\ e.id <= events.next /\ e.msg \in Responses
  BY DEF BasicInv, TypeOK, BatchOK
<1>2. events.next \in Int /\ events.next + 1 \in Nat
  BY <1>1 DEF BasicInv, TypeOK
<1>3. S \in SUBSET Nat /\ S # {} /\ \A j \in S : j < events.next + 1
  BY <1>1, <1>2
<1>4. Largest(S) \in S /\ \A j \in S : j <= Largest(S)
  BY <1>2, <1>3, LargestBelow
<1>5. \E e \in events.batch : \A d \in events.batch : d.id <= e.id
  BY <1>4
<1> QED BY <1>1, <1>5 DEF NextEvent

\* The event thread, after a message: the next one, or the next Transfer.
LEMMA EventDoneType ==
  ASSUME BasicInv, events.batch # {}, EventDone
  PROVE  /\ events' \in [from : Int, batch : SUBSET [id : Nat, msg : Responses], next : Int]
         /\ events'.batch = events.batch \ {NextEvent} /\ events'.next = events.next
         /\ events'.from = IF events.batch \ {NextEvent} = {} THEN events.next ELSE events.from
  BY DEF BasicInv, TypeOK, EventDone

\* Either a message is passed over, or it is acknowledged and its call's Ivar
\* filled, or the connection has failed and the transfer is dropped.
LEMMA EventHandleBasic ==
  ASSUME BasicInv, EventHandle
  PROVE  /\ BasicInv' /\ requestsM = None /\ events.batch # {}
         /\ \/ /\ NextEvent.msg.to \notin DOMAIN wakener /\ EventDone
               /\ UNCHANGED <<queues, call>>
            \/ /\ NextEvent.msg.to \in DOMAIN wakener /\ EventDone /\ clientUp /\ restarts = 0
               /\ queues' = InternalAck(queues, Reply, NextEvent.id)
               /\ call' = [call EXCEPT ![Head(wakener[NextEvent.msg.to])].ivar =
                                          IvarReply(NextEvent.msg.answer)]
            \/ ~clientUp /\ restarts > 0 /\ UNCHANGED <<queues, call>>
<1> DEFINE j == NextEvent.msg.to
           v == IvarReply(NextEvent.msg.answer)
           x == Head(wakener[j])
<1>1. /\ requestsM = None /\ events.batch # {} /\ UNCHANGED <<clientUp, requestsM, wakener, restarts>>
      /\ UNCHANGED <<server, workers, processed, crashes>>
  BY DEF EventHandle, serverVars
<1>2. /\ NextEvent \in events.batch /\ NextEvent.id \in Nat
      /\ NextEvent.msg \in Responses
  BY <1>1, NextEventIn
<1>3. CASE j \notin DOMAIN wakener /\ EventDone /\ UNCHANGED <<queues, call>>
  <2>1. TypeOK' /\ BatchOK'
    BY <1>1, <1>3, EventDoneType DEF BasicInv, TypeOK, BatchOK
  <2>2. QueuesOK' /\ FaultsOK' /\ MutexOK'
    BY <1>1, <1>3, EventDoneType, SameQueues, QueuesKept DEF BasicInv, FaultsOK, MutexOK, Locked
  <2> QED BY <1>1, <1>3, <2>1, <2>2 DEF BasicInv
<1>4. CASE /\ j \in DOMAIN wakener /\ clientUp
           /\ queues' = InternalAck(queues, Reply, NextEvent.id)
           /\ call' = [call EXCEPT ![x].ivar = v]
           /\ EventDone
  <2>1. restarts = 0
    BY <1>1, <1>4 DEF BasicInv, FaultsOK, TypeOK
  <2>2. call' \in [Rpc -> Calls] /\ SamePcs
    <3>1. v \in Values
      BY <1>2 DEF Values, Responses
    <3> HIDE DEF v, x
    <3>2. CASE x \in Rpc
      BY <1>4, <3>1, <3>2, FillCall DEF BasicInv
    <3>3. CASE x \notin Rpc
      BY <1>4, <3>3 DEF BasicInv, TypeOK, SamePcs
    <3> QED BY <3>2, <3>3
  <2>3. TypeOK' /\ BatchOK'
    BY <1>1, <1>4, <2>2, EventDoneType DEF BasicInv, TypeOK, BatchOK
  <2>4. QueuesOK' /\ (Exists(queues', Reply) <=> Exists(queues, Reply))
    BY <1>4, AckedOK DEF BasicInv
  <2>5. FaultsOK' /\ MutexOK'
    BY <1>1, <1>4, <2>1, <2>2, <2>4 DEF BasicInv, FaultsOK, MutexOK, Locked, SamePcs
  <2> QED BY <1>1, <1>4, <2>1, <2>3, <2>4, <2>5 DEF BasicInv
<1>5. CASE /\ j \in DOMAIN wakener /\ ~clientUp
           /\ events' = [events EXCEPT !.batch = {}]
           /\ UNCHANGED <<queues, call>>
  <2>1. restarts > 0
    BY <1>5 DEF BasicInv, FaultsOK
  <2>2. TypeOK' /\ BatchOK'
    BY <1>1, <1>5 DEF BasicInv, TypeOK, BatchOK
  <2>3. QueuesOK' /\ FaultsOK' /\ MutexOK'
    BY <1>1, <1>5, SameQueues, QueuesKept DEF BasicInv, FaultsOK, MutexOK, Locked
  <2> QED BY <1>1, <1>5, <2>1, <2>2, <2>3 DEF BasicInv
<1> QED BY <1>3, <1>4, <1>5 DEF EventHandle

\* It connects again.
LEMMA EventReconnectBasic ==
  ASSUME BasicInv, EventReconnect
  PROVE  BasicInv'
<1>1. TypeOK' /\ BatchOK'
  BY DEF EventReconnect, serverVars, BasicInv, TypeOK, BatchOK
<1>2. QueuesOK' /\ FaultsOK' /\ MutexOK'
  BY SameQueues, QueuesKept
     DEF EventReconnect, serverVars, BasicInv, FaultsOK, MutexOK, Locked
<1> QED BY <1>1, <1>2 DEF BasicInv

\* The service.
LEMMA ServerStartBasic ==
  ASSUME BasicInv, ServerStart
  PROVE  BasicInv'
<1>1. TypeOK' /\ BatchOK' /\ MutexOK'
  BY DEF ServerStart, clientVars, BasicInv, TypeOK, BatchOK, MutexOK, Locked
<1>2. QueuesOK' /\ FaultsOK'
  BY SvcAdded, QueuesKept DEF ServerStart, clientVars, BasicInv, FaultsOK
<1> QED BY <1>1, <1>2 DEF BasicInv

\* One thread for each message above the cursor.
NewWorkers == {[id |-> i, call |-> Msg(queues, Svc, i).call, pc |-> "process", epoch |-> restarts] :
                  i \in Above(Svc, server.from)}

\* The service polls: a worker for each message it gets.
LEMMA ServerPollBasic ==
  ASSUME BasicInv, ServerPoll
  PROVE  /\ BasicInv' /\ workers' = workers \cup NewWorkers /\ NewWorkers \subseteq Workers
         /\ Above(Svc, server.from) \subseteq Ids(queues, Svc)
         /\ server'.from \in Int /\ server'.running
         /\ \A i \in Ids(queues, Svc) : i <= server'.from
<1> DEFINE ids == Above(Svc, server.from)
           last == Largest(ids)
<1>1. ids \subseteq Ids(queues, Svc) /\ ids # {}
  BY DEF Above, ServerPoll, Ids
<1>2. Exists(queues, Svc)
  BY <1>1, NoQueue
<1>3. workers' = workers \cup NewWorkers
  BY <1>2 DEF ServerPoll, NewWorkers, Msg, Find
<1>4. last \in ids /\ \A i \in ids : i <= last
  <2>1. ids \in SUBSET Nat /\ NextId(queues, Svc) \in Nat /\ \A i \in ids : i < NextId(queues, Svc)
    BY <1>1 DEF BasicInv, QueuesOK, Numbered
  <2> HIDE DEF ids
  <2> QED BY <1>1, <2>1, LargestBelow
<1>5. last \in Int /\ server.from \in Int /\ last > server.from
  BY <1>1, <1>4 DEF BasicInv, QueuesOK, Numbered, TypeOK, Above
<1>6. server' = [server EXCEPT !.from = last] /\ server.running
  BY DEF ServerPoll
<1>7. NewWorkers \subseteq Workers
  BY <1>1 DEF NewWorkers, Workers, BasicInv, QueuesOK, Numbered, TypeOK, Requests
<1>8. \A i \in Ids(queues, Svc) : i > server.from => i \in ids
  BY DEF Above, Ids
<1> HIDE DEF ids, last
<1>9. server'.from = last /\ server'.running
  BY <1>6 DEF BasicInv, TypeOK
<1>10. \A i \in Ids(queues, Svc) : i <= last
  BY <1>4, <1>5, <1>8 DEF BasicInv, QueuesOK, Numbered
<1>11. UNCHANGED <<queues, clientUp, requestsM, wakener, call, events, processed, crashes, restarts>>
  BY DEF ServerPoll, clientVars
<1>12. TypeOK'
  BY <1>3, <1>5, <1>6, <1>7, <1>11 DEF BasicInv, TypeOK
<1>13. QueuesOK' /\ FaultsOK' /\ MutexOK' /\ BatchOK'
  BY <1>11, SameQueues, QueuesKept DEF BasicInv, FaultsOK, MutexOK, Locked, BatchOK
<1>14. BasicInv'
  BY <1>12, <1>13 DEF BasicInv
<1> QED BY <1>1, <1>3, <1>5, <1>7, <1>9, <1>10, <1>14 DEF ids

\* It connects again.
LEMMA ServerReconnectBasic ==
  ASSUME BasicInv, ServerReconnect
  PROVE  BasicInv'
<1>1. TypeOK'
  <2>1. PICK from \in {server.from, -1} : server' = [server EXCEPT !.up = TRUE, !.from = from]
    BY DEF ServerReconnect
  <2>2. from \in Int /\ TypeOK
    BY <2>1 DEF BasicInv, TypeOK
  <2>3. server' = [running |-> server.running, up |-> TRUE, from |-> from]
    BY <2>1, <2>2 DEF TypeOK
  <2> QED BY <2>2, <2>3 DEF ServerReconnect, clientVars, TypeOK
<1>2. BatchOK' /\ MutexOK'
  BY DEF ServerReconnect, clientVars, BasicInv, BatchOK, MutexOK, Locked
<1>3. QueuesOK' /\ FaultsOK'
  BY SameQueues, QueuesKept DEF ServerReconnect, clientVars, BasicInv, FaultsOK
<1> QED BY <1>1, <1>2, <1>3 DEF BasicInv

\* A worker goes on,
LEMMA AdvanceType ==
  ASSUME TypeOK, NEW w \in workers, NEW pc \in {"reply", "ack"}, Advance(w, pc)
  PROVE  /\ workers' = (workers \ {w}) \cup {[w EXCEPT !.pc = pc]} /\ workers' \subseteq Workers
         /\ [w EXCEPT !.pc = pc].call = w.call /\ [w EXCEPT !.pc = pc].id = w.id
         /\ [w EXCEPT !.pc = pc].pc = pc
  BY DEF TypeOK, Workers, Advance

\* processes,
LEMMA WorkerProcessBasic ==
  ASSUME BasicInv, NEW w \in workers, WorkerProcess(w)
  PROVE  BasicInv'
<1>1. w.call \in Rpc /\ workers' \subseteq Workers
  BY AdvanceType DEF BasicInv, TypeOK, Workers, WorkerProcess
<1>2. TypeOK' /\ BatchOK' /\ MutexOK'
  BY <1>1 DEF WorkerProcess, clientVars, BasicInv, TypeOK, BatchOK, MutexOK, Locked
<1>3. QueuesOK' /\ FaultsOK'
  BY SameQueues, QueuesKept DEF WorkerProcess, clientVars, BasicInv, FaultsOK
<1> QED BY <1>2, <1>3 DEF BasicInv

\* replies,
LEMMA WorkerReplyBasic ==
  ASSUME BasicInv, NEW w \in workers, WorkerReply(w)
  PROVE  BasicInv'
<1>1. workers' \subseteq Workers /\ Response(w.id, w.call) \in Responses
  BY AdvanceType DEF BasicInv, TypeOK, Workers, WorkerReply, Response, Responses
<1>2. TypeOK' /\ BatchOK' /\ MutexOK'
  BY <1>1 DEF WorkerReply, clientVars, BasicInv, TypeOK, BatchOK, MutexOK, Locked
<1>3. QueuesOK' /\ (Exists(queues', Reply) <=> Exists(queues, Reply))
  BY <1>1, SentOK, SameQueues, QueuesKept, RpcAssumption DEF WorkerReply, BasicInv
<1>4. FaultsOK'
  BY <1>3 DEF WorkerReply, clientVars, BasicInv, FaultsOK
<1> QED BY <1>2, <1>3, <1>4 DEF BasicInv

\* acknowledges.
LEMMA WorkerAckBasic ==
  ASSUME BasicInv, NEW w \in workers, WorkerAck(w)
  PROVE  BasicInv'
<1>1. TypeOK' /\ BatchOK' /\ MutexOK'
  BY DEF WorkerAck, clientVars, BasicInv, TypeOK, BatchOK, MutexOK, Locked
<1>2. QueuesOK' /\ (Exists(queues', Reply) <=> Exists(queues, Reply))
  BY AckedOK, SameQueues, QueuesKept DEF WorkerAck, BasicInv
<1>3. FaultsOK'
  BY <1>2 DEF WorkerAck, clientVars, BasicInv, FaultsOK
<1> QED BY <1>1, <1>2, <1>3 DEF BasicInv

\* The service crashes and forgets its workers and its cursor.
LEMMA ServerCrashBasic ==
  ASSUME BasicInv, ServerCrash
  PROVE  BasicInv'
<1>1. TypeOK' /\ BatchOK' /\ MutexOK'
  BY DEF ServerCrash, clientVars, BasicInv, TypeOK, BatchOK, MutexOK, Locked
<1>2. QueuesOK' /\ FaultsOK'
  BY SameQueues, QueuesKept DEF ServerCrash, clientVars, BasicInv, FaultsOK
<1> QED BY <1>1, <1>2 DEF BasicInv

\* A restarted switch has no queues.
LEMMA SwitchRestartBasic ==
  ASSUME BasicInv, SwitchRestart
  PROVE  BasicInv' /\ \A n : Ids(queues', n) = {} /\ NextId(queues', n) = 0
<1>1. \A n : ~Exists(queues', n)
  BY DEF SwitchRestart, Exists, EmptyQueues, EmptyMap
<1>2. \A n : Ids(queues', n) = {} /\ NextId(queues', n) = 0
  BY <1>1, NoQueue
<1>3. QueuesOK'
  BY <1>2 DEF QueuesOK, Numbered
<1>4. TypeOK'
  <2>1. server' \in [running : BOOLEAN, up : BOOLEAN, from : Int]
    BY DEF SwitchRestart, BasicInv, TypeOK
  <2>2. UNCHANGED <<call, events, workers, processed, crashes>> /\ clientUp' = FALSE
    BY DEF SwitchRestart
  <2>3. restarts' \in Nat
    BY DEF SwitchRestart, BasicInv, TypeOK
  <2> QED BY <2>1, <2>2, <2>3 DEF BasicInv, TypeOK
<1>6. BatchOK' /\ MutexOK'
  BY DEF SwitchRestart, BasicInv, BatchOK, MutexOK, Locked
<1>5. FaultsOK'
  BY <1>1 DEF SwitchRestart, BasicInv, TypeOK, FaultsOK
<1> QED BY <1>2, <1>3, <1>4, <1>5, <1>6 DEF BasicInv

\* The types are inductive.
LEMMA BasicStep == BasicInv /\ [Next]_vars => BasicInv'
<1> SUFFICES ASSUME BasicInv, [Next]_vars PROVE BasicInv'
  OBVIOUS
<1>1. CASE UNCHANGED vars
  <2>1. TypeOK' /\ BatchOK' /\ MutexOK'
    BY <1>1 DEF vars, BasicInv, TypeOK, BatchOK, MutexOK, Locked
  <2>2. QueuesOK' /\ FaultsOK'
    BY <1>1, SameQueues, QueuesKept DEF vars, BasicInv, FaultsOK
  <2> QED BY <2>1, <2>2 DEF BasicInv
<1>2. ASSUME NEW r \in Rpc, RpcStep(r) \/ RpcTimeout(r) PROVE BasicInv'
  BY <1>2, RpcLockBasic, RpcRetryBasic, RpcCreateBasic, RpcSendBasic, RpcDeletedBasic,
     RpcRegisterBasic, RpcTimeoutBasic, RpcReadBasic, RpcReturnBasic DEF RpcStep
<1>3. CASE EventStep \/ ServerStep
  BY <1>3, EventPollBasic, EventHandleBasic, EventReconnectBasic, ServerStartBasic,
     ServerPollBasic, ServerReconnectBasic DEF EventStep, ServerStep
<1>4. ASSUME NEW w \in workers, WorkerStep(w) PROVE BasicInv'
  BY <1>4, WorkerProcessBasic, WorkerReplyBasic, WorkerAckBasic DEF WorkerStep
<1> QED
  BY <1>1, <1>2, <1>3, <1>4, ServerCrashBasic, SwitchRestartBasic DEF Next

-----------------------------------------------------------------------------
(* Replies find their calls *)

CorrelationInv == BasicInv /\ CorrelatedInv /\ AnswersOK

\* No message is added.
NoneAdded(n) ==
    \A i \in Ids(queues', n) : i \in Ids(queues, n) /\ Msg(queues', n, i) = Msg(queues, n, i)

\* The same messages are no new ones.
LEMMA SameNoneAdded ==
  ASSUME NEW n, SameQueue(queues, queues', n)
  PROVE  NoneAdded(n) /\ NextId(queues', n) = NextId(queues, n)
  BY DEF SameQueue, NoneAdded

\* A step that sends nothing keeps the identifiers apart.
LEMMA OwnIdsKept ==
  ASSUME OwnIds, SameIds, NextId(queues', Svc) = NextId(queues, Svc),
         \A r \in Rpc : \/ call'[r].pc = call[r].pc \/ call'[r].pc = "done"
                        \/ call[r].pc = "start" /\ call'[r].pc = "create"
                        \/ call[r].pc = "create" /\ call'[r].pc = "send"
                        \/ call[r].pc = "register" /\ call'[r].pc = "read"
                        \/ call[r].pc = "read" /\ call'[r].pc = "release"
  PROVE  OwnIds'
  BY DEF OwnIds, SameIds

\* A step that registers nothing keeps the wakeners,
LEMMA WakenersKept ==
  ASSUME WakenersOK, SameIds, wakener' = wakener,
         \A r \in Rpc : \/ call'[r].pc = call[r].pc
                        \/ call[r].pc \in {"start", "create", "send"} /\ call'[r].pc \notin {"read", "release"}
                        \/ call[r].pc = "read" /\ call'[r].pc \in {"release", "done"}
  PROVE  WakenersOK'
<1>1. ASSUME NEW j \in DOMAIN wakener PROVE \E r \in Rpc : Waits(j, r)'
  <2>1. PICK r \in Rpc : Waits(j, r)
    BY DEF WakenersOK
  <2>2. Waits(j, r)'
    BY <2>1 DEF Waits, SameIds
  <2> QED BY <2>2
<1>2. \A r \in Rpc : call'[r].pc \in {"read", "release"} => call'[r].id \in DOMAIN wakener
  BY DEF WakenersOK, SameIds
<1> QED BY <1>1, <1>2 DEF WakenersOK

\* and one that sends nothing keeps what messages say.
LEMMA MessagesKept ==
  ASSUME BasicInv, MessagesOK, SameIds, NoneAdded(Svc), NoneAdded(Reply),
         \A w \in workers' : \/ \E v \in workers : w.call = v.call /\ w.id = v.id
                             \/ w \in NewWorkers,
         \A e \in events'.batch : \/ e \in events.batch
                                  \/ e.id \in Ids(queues, Reply) /\ e.msg = Msg(queues, Reply, e.id)
  PROVE  MessagesOK'
<1>1. \A i \in Ids(queues', Svc) : call'[Msg(queues', Svc, i).call].id = i
  BY DEF MessagesOK, NoneAdded, SameIds, BasicInv, QueuesOK, Requests
<1>2. \A i \in Ids(queues', Reply) :
          call'[Msg(queues', Reply, i).answer].id = Msg(queues', Reply, i).to
  BY DEF MessagesOK, NoneAdded, SameIds, BasicInv, QueuesOK, Responses
<1>3. ASSUME NEW w \in workers' PROVE call'[w.call].id = w.id
  <2>1. CASE \E v \in workers : w.call = v.call /\ w.id = v.id
    BY <2>1 DEF MessagesOK, SameIds, BasicInv, TypeOK, Workers
  <2>2. CASE w \in NewWorkers
    <3>1. PICK i \in Above(Svc, server.from) : w.id = i /\ w.call = Msg(queues, Svc, i).call
      BY <2>2 DEF NewWorkers
    <3>2. i \in Ids(queues, Svc)
      BY DEF Above, Ids
    <3> QED BY <3>1, <3>2 DEF MessagesOK, SameIds, BasicInv, QueuesOK, Requests
  <2> QED BY <2>1, <2>2
<1>4. ASSUME NEW e \in events'.batch PROVE call'[e.msg.answer].id = e.msg.to
  <2>1. CASE e \in events.batch
    <3>1. e.msg.answer \in Rpc
      BY <2>1 DEF BasicInv, TypeOK, Responses
    <3> QED BY <2>1, <3>1 DEF MessagesOK, SameIds
  <2>2. CASE e.id \in Ids(queues, Reply) /\ e.msg = Msg(queues, Reply, e.id)
    BY <2>2 DEF MessagesOK, SameIds, BasicInv, QueuesOK, Responses
  <2> QED BY <2>1, <2>2
<1> QED BY <1>1, <1>2, <1>3, <1>4 DEF MessagesOK

\* The invariant holds at first.
LEMMA CorrelationInitial == Init => CorrelationInv
<1> SUFFICES ASSUME Init PROVE CorrelationInv
  OBVIOUS
<1>1. BasicInv
  BY BasicInitial
<1>2. \A n : Ids(queues, n) = {} /\ NextId(queues, n) = 0
  <2>1. \A n : SameQueue(EmptyQueues, queues, n) /\ ~Exists(EmptyQueues, n)
    BY AddQueue DEF Init, Exists, EmptyQueues, EmptyMap
  <2> QED BY <2>1, NoQueue DEF SameQueue
<1>3. OwnIds
  BY <1>2 DEF Init, OwnIds
<1>4. WakenersOK /\ MessagesOK
  BY <1>2 DEF Init, WakenersOK, MessagesOK, EmptyMap
<1>5. AnswersOK
  BY DEF Init, AnswersOK
<1> QED BY <1>1, <1>3, <1>4, <1>5 DEF CorrelationInv, CorrelatedInv

\* A step that adds no message, moves no wakener and fills no Ivar.
LEMMA QuietCorrelated ==
  ASSUME CorrelatedInv, BasicInv, SameIds, wakener' = wakener,
         restarts' = restarts,
         NoneAdded(Svc), NoneAdded(Reply), NextId(queues', Svc) = NextId(queues, Svc),
         \A r \in Rpc : \/ call'[r].pc = call[r].pc
                        \/ call[r].pc = "start" /\ call'[r].pc = "create"
                        \/ call[r].pc = "create" /\ call'[r].pc = "send"
                        \/ call[r].pc = "send" /\ call'[r].pc = "done"
                        \/ call[r].pc = "read" /\ call'[r].pc \in {"release", "done"},
         \A w \in workers' : \/ \E v \in workers : w.call = v.call /\ w.id = v.id
                             \/ w \in NewWorkers,
         \A e \in events'.batch : \/ e \in events.batch
                                  \/ e.id \in Ids(queues, Reply) /\ e.msg = Msg(queues, Reply, e.id)
  PROVE  CorrelatedInv'
<1> SUFFICES ASSUME restarts = 0 PROVE OwnIds' /\ WakenersOK' /\ MessagesOK'
  BY DEF CorrelatedInv
<1>1. OwnIds /\ WakenersOK /\ MessagesOK
  BY DEF CorrelatedInv
<1>2. OwnIds'
  BY <1>1, OwnIdsKept
<1>3. WakenersOK'
  BY <1>1, WakenersKept
<1>4. MessagesOK'
  BY <1>1, MessagesKept
<1> QED BY <1>2, <1>3, <1>4

\* The steps of a call that neither send nor register.
LEMMA RpcQuietCorrelated ==
  ASSUME CorrelationInv, NEW r \in Rpc,
         RpcLock(r) \/ RpcRetry(r) \/ RpcCreate(r) \/ RpcDeleted(r) \/ RpcTimeout(r) \/ RpcRead(r)
  PROVE  CorrelatedInv'
<1>1. BasicInv /\ CorrelatedInv /\ TypeOK
  BY DEF CorrelationInv, BasicInv
<1>2. UNCHANGED <<wakener, events, workers, restarts>>
  BY DEF RpcLock, RpcRetry, RpcCreate, RpcDeleted, RpcTimeout, RpcRead, serverVars
<1>3. SameQueue(queues, queues', Svc) /\ SameQueue(queues, queues', Reply)
  BY SameQueues, SvcAdded DEF RpcLock, RpcRetry, RpcCreate, RpcDeleted, RpcTimeout, RpcRead
<1>4. SameIds
  BY <1>1, MoveCall, EndCall, FillCall, ReadCall
     DEF RpcLock, RpcRetry, RpcCreate, RpcDeleted, RpcTimeout, PCs, Values
<1>5. CASE RpcRetry(r)
  BY <1>1, <1>2, <1>5 DEF RpcRetry, FaultsOK, BasicInv, CorrelatedInv
<1>6. ASSUME ~RpcRetry(r)
      PROVE  \A s \in Rpc : \/ call'[s].pc = call[s].pc
                            \/ call[s].pc = "start" /\ call'[s].pc = "create"
                            \/ call[s].pc = "create" /\ call'[s].pc = "send"
                            \/ call[s].pc = "send" /\ call'[s].pc = "done"
                            \/ call[s].pc = "read" /\ call'[s].pc \in {"release", "done"}
  <2>1. CASE RpcLock(r)
    BY <1>1, <2>1, MoveCall DEF RpcLock, PCs, Moves
  <2>2. CASE RpcCreate(r)
    BY <1>1, <2>2, MoveCall DEF RpcCreate, PCs, Moves
  <2>3. CASE RpcDeleted(r)
    <3>1. Moves(r, "done") /\ call[r].pc = "send"
      BY <1>1, <2>3, EndCall DEF RpcDeleted, PCs, Values
    <3> QED BY <3>1 DEF Moves
  <2>4. CASE RpcTimeout(r)
    BY <1>1, <2>4, FillCall DEF RpcTimeout, Values, SamePcs
  <2>5. CASE RpcRead(r)
    <3>1. (Moves(r, "release") \/ Moves(r, "done")) /\ call[r].pc = "read"
      BY <1>1, <2>5, ReadCall DEF RpcRead
    <3> QED BY <3>1 DEF Moves
  <2> QED BY <1>6, <2>1, <2>2, <2>3, <2>4, <2>5
<1> QED BY <1>1, <1>2, <1>3, <1>4, <1>5, <1>6, SameNoneAdded, QuietCorrelated

\* The Send: the request's identifier is new.
LEMMA RpcSendCorrelated ==
  ASSUME CorrelationInv, NEW r \in Rpc, RpcSend(r)
  PROVE  CorrelatedInv'
<1> DEFINE i == NextId(queues, Svc)
<1>1. BasicInv /\ TypeOK /\ QueuesOK
  BY DEF CorrelationInv, BasicInv
<1>2. queues.queues[Svc].next_id = i /\ i \in Nat
  BY <1>1 DEF RpcSend, NextId, Find, QueuesOK, Numbered
<1>3. /\ Moves(r, "register")
      /\ \A s \in Rpc : call'[s].id = IF s = r THEN i ELSE call[s].id
  BY <1>1, <1>2, SendCall DEF RpcSend
<1>4. UNCHANGED <<wakener, events, workers, restarts>> /\ call[r].pc = "send"
  BY DEF RpcSend, serverVars
<1>5. /\ SameQueue(queues, queues', Reply)
      /\ Ids(queues', Svc) = Ids(queues, Svc) \cup {i} /\ NextId(queues', Svc) = i + 1
      /\ Msg(queues', Svc, i) = Request(r)
      /\ \A j \in Ids(queues, Svc) \ {i} : Msg(queues', Svc, j) = Msg(queues, Svc, j)
  BY SendQueue, RpcAssumption DEF RpcSend
<1> SUFFICES ASSUME restarts = 0 PROVE OwnIds' /\ WakenersOK' /\ MessagesOK'
  BY <1>4 DEF CorrelatedInv
<1>6. OwnIds /\ WakenersOK /\ MessagesOK
  BY DEF CorrelationInv, CorrelatedInv
<1> HIDE DEF i
<1>7. \A s \in Rpc : call[s].id \in Int /\ call[s].id < i /\ call[s].id >= -1
  BY <1>1, <1>6 DEF OwnIds, TypeOK, Calls, i
<1>8. OwnIds'
  BY <1>2, <1>3, <1>5, <1>6, <1>7 DEF OwnIds, Moves
<1>9. WakenersOK'
  <2>2. ASSUME NEW j \in DOMAIN wakener PROVE \E s \in Rpc : Waits(j, s)'
    <3>1. PICK s \in Rpc : Waits(j, s)
      BY <1>6 DEF WakenersOK
    <3>2. s # r
      BY <1>4, <3>1 DEF Waits
    <3> QED BY <1>3, <1>4, <3>1, <3>2 DEF Waits, Moves
  <2>3. \A s \in Rpc : call'[s].pc \in {"read", "release"} => call'[s].id \in DOMAIN wakener
    BY <1>3, <1>6 DEF WakenersOK, Moves
  <2> QED BY <1>4, <2>2, <2>3 DEF WakenersOK
<1>10. MessagesOK'
  <2>1. call[r].id = -1
    BY <1>4, <1>6 DEF OwnIds
  <2>2. \A j \in Ids(queues, Svc) : j \in Nat /\ j # i /\ Msg(queues, Svc, j).call \in Rpc \ {r}
    BY <1>1, <1>6, <1>7, <2>1 DEF QueuesOK, Numbered, Requests, MessagesOK, i
  <2>3. \A j \in Ids(queues', Svc) : call'[Msg(queues', Svc, j).call].id = j
    BY <1>3, <1>5, <1>6, <2>2 DEF MessagesOK, Request
  <2>4. \A w \in workers : w.call \in Rpc \ {r}
    BY <1>1, <1>6, <2>1 DEF TypeOK, Workers, MessagesOK
  <2>5. \A w \in workers' : call'[w.call].id = w.id
    BY <1>3, <1>4, <1>6, <2>4 DEF MessagesOK
  <2>6. \A j \in Ids(queues, Reply) : Msg(queues, Reply, j).answer \in Rpc \ {r}
    BY <1>1, <1>6, <2>1 DEF QueuesOK, Responses, MessagesOK
  <2>7. \A j \in Ids(queues', Reply) :
            call'[Msg(queues', Reply, j).answer].id = Msg(queues', Reply, j).to
    BY <1>3, <1>5, <1>6, <2>6 DEF MessagesOK, SameQueue
  <2>8. \A e \in events.batch : e.msg.answer \in Rpc \ {r}
    <3>1. \A e \in events.batch : e.msg \in Responses
      BY <1>1 DEF TypeOK
    <3> QED BY <3>1, <1>6, <2>1 DEF Responses, MessagesOK
  <2>9. \A e \in events'.batch : call'[e.msg.answer].id = e.msg.to
    BY <1>3, <1>4, <1>6, <2>8 DEF MessagesOK
  <2> QED BY <2>3, <2>5, <2>7, <2>9 DEF MessagesOK
<1> QED BY <1>8, <1>9, <1>10

\* The registration, under the mutex: no one else waits for the identifier.
LEMMA RpcRegisterCorrelated ==
  ASSUME CorrelationInv, NEW r \in Rpc, RpcRegister(r)
  PROVE  CorrelatedInv'
<1> DEFINE j == call[r].id
<1>1. BasicInv /\ TypeOK
  BY DEF CorrelationInv, BasicInv
<1>2. Moves(r, "read") /\ SameIds
  BY <1>1, MoveCall DEF RpcRegister, PCs
<1>3. UNCHANGED <<queues, events, workers, restarts>> /\ call[r].pc = "register"
  BY DEF RpcRegister, serverVars
<1>4. SameQueue(queues, queues', Svc) /\ SameQueue(queues, queues', Reply)
  BY <1>3, SameQueues
<1> SUFFICES ASSUME restarts = 0 PROVE OwnIds' /\ WakenersOK' /\ MessagesOK'
  BY <1>3 DEF CorrelatedInv
<1>5. OwnIds /\ WakenersOK /\ MessagesOK
  BY DEF CorrelationInv, CorrelatedInv
<1>6. j >= 0 /\ j \notin DOMAIN wakener
  <2>1. j >= 0
    BY <1>3, <1>5 DEF OwnIds
  <2>2. \A s \in Rpc : ~Waits(j, s)
    BY <1>3, <1>5, <2>1 DEF OwnIds, Waits
  <2> QED BY <1>5, <2>1, <2>2 DEF WakenersOK
<1>7. wakener' = MapAdd(wakener, j, <<r>>)
  <2>1. wakener' = MapAdd(wakener, j, <<r>> \o <<>>)
    BY <1>6 DEF RpcRegister
  <2>2. <<r>> \o <<>> = <<r>>
    OBVIOUS
  <2> QED BY <2>1, <2>2
<1>8. OwnIds'
  BY <1>2, <1>3, <1>4, <1>5, OwnIdsKept DEF Moves, SameQueue
<1>9. WakenersOK'
  <2>1. ASSUME NEW k \in DOMAIN wakener' PROVE \E s \in Rpc : Waits(k, s)'
    <3>1. CASE k = j
      BY <1>2, <1>7, <3>1 DEF Waits, Moves, SameIds, MapAdd
    <3>2. CASE k # j
      <4>1. k \in DOMAIN wakener /\ wakener'[k] = wakener[k]
        BY <1>7, <3>2 DEF MapAdd
      <4>2. PICK s \in Rpc : Waits(k, s)
        BY <1>5, <4>1 DEF WakenersOK
      <4>3. Waits(k, s)'
        BY <1>2, <1>3, <4>1, <4>2 DEF Waits, Moves, SameIds
      <4> QED BY <4>3
    <3> QED BY <3>1, <3>2
  <2>2. DOMAIN wakener' = DOMAIN wakener \cup {j}
    BY <1>7 DEF MapAdd
  <2>3. \A s \in Rpc : call'[s].pc \in {"read", "release"} => call'[s].id \in DOMAIN wakener'
    BY <1>2, <1>5, <2>2 DEF WakenersOK, Moves, SameIds
  <2> QED BY <2>1, <2>3 DEF WakenersOK
<1>10. MessagesOK'
  BY <1>1, <1>2, <1>3, <1>4, <1>5, MessagesKept, SameNoneAdded
<1> QED BY <1>8, <1>9, <1>10

\* The return: the call's own wakener goes.
LEMMA RpcReturnCorrelated ==
  ASSUME CorrelationInv, NEW r \in Rpc, RpcReturn(r)
  PROVE  CorrelatedInv'
<1> DEFINE j == call[r].id
<1>1. BasicInv /\ TypeOK
  BY DEF CorrelationInv, BasicInv
<1>2. Moves(r, "done") /\ SameIds
  BY <1>1, MoveCall DEF RpcReturn, PCs
<1>3. UNCHANGED <<queues, events, workers, restarts>> /\ call[r].pc = "release"
  BY DEF RpcReturn, serverVars
<1>4. SameQueue(queues, queues', Svc) /\ SameQueue(queues, queues', Reply)
  BY <1>3, SameQueues
<1> SUFFICES ASSUME restarts = 0 PROVE OwnIds' /\ WakenersOK' /\ MessagesOK'
  BY <1>3 DEF CorrelatedInv
<1>5. OwnIds /\ WakenersOK /\ MessagesOK
  BY DEF CorrelationInv, CorrelatedInv
<1>6. j >= 0 /\ j \in DOMAIN wakener
  BY <1>3, <1>5 DEF OwnIds, WakenersOK
<1>7. wakener' = MapRemove(wakener, {j})
  <2>1. PICK s \in Rpc : wakener[j] = <<s>>
    BY <1>5, <1>6 DEF WakenersOK, Waits
  <2>2. Len(wakener[j]) = 1
    BY <2>1
  <2> QED BY <1>6, <2>2 DEF RpcReturn, Forget
<1>8. OwnIds'
  BY <1>2, <1>3, <1>4, <1>5, OwnIdsKept DEF Moves, SameQueue
<1>9. WakenersOK'
  <2>1. DOMAIN wakener' = DOMAIN wakener \ {j} /\ \A k \in DOMAIN wakener' : wakener'[k] = wakener[k]
    BY <1>7 DEF MapRemove
  <2>2. ASSUME NEW k \in DOMAIN wakener' PROVE \E s \in Rpc : Waits(k, s)'
    <3>1. PICK s \in Rpc : Waits(k, s)
      BY <1>5, <2>1 DEF WakenersOK
    <3>2. Waits(k, s)'
      BY <1>2, <1>3, <2>1, <3>1 DEF Waits, Moves, SameIds
    <3> QED BY <3>2
  <2>3. \A s \in Rpc : s # r => call[s].id # j
    BY <1>5, <1>6 DEF OwnIds
  <2>4. \A s \in Rpc : call'[s].pc \in {"read", "release"} => call'[s].id \in DOMAIN wakener'
    BY <1>2, <1>5, <2>1, <2>3 DEF WakenersOK, Moves, SameIds
  <2> QED BY <2>2, <2>4 DEF WakenersOK
<1>10. MessagesOK'
  BY <1>1, <1>2, <1>3, <1>4, <1>5, MessagesKept, SameNoneAdded
<1> QED BY <1>8, <1>9, <1>10

\* What the event thread fetches is in the reply queue.
LEMMA EventPollCorrelated ==
  ASSUME CorrelationInv, EventPoll
  PROVE  CorrelatedInv'
<1>1. BasicInv /\ CorrelatedInv
  BY DEF CorrelationInv
<1>2. UNCHANGED <<queues, wakener, call, workers, restarts>>
  BY DEF EventPoll, serverVars
<1>3. SameIds /\ \A s \in Rpc : call'[s].pc = call[s].pc
  BY <1>2 DEF SameIds
<1>4. SameQueue(queues, queues', Svc) /\ SameQueue(queues, queues', Reply)
  BY <1>2, SameQueues
<1>5. \A e \in events'.batch : e.id \in Ids(queues, Reply) /\ e.msg = Msg(queues, Reply, e.id)
  <2>1. events'.batch = {[id |-> i, msg |-> Msg(queues, Reply, i)] :
                                i \in Above(Reply, events.from)}
    BY <1>1, EventPollBasic
  <2>2. Above(Reply, events.from) \subseteq Ids(queues, Reply)
    BY DEF Above, Ids
  <2> QED BY <2>1, <2>2
<1> QED BY <1>1, <1>2, <1>3, <1>4, <1>5, SameNoneAdded, QuietCorrelated

\* The call whose Ivar is filled is the one the reply is for.
LEMMA FilledIvar ==
  ASSUME CorrelationInv, restarts = 0, events.batch # {}, NextEvent.msg.to \in DOMAIN wakener
  PROVE  /\ NextEvent.msg.answer \in Rpc
         /\ Head(wakener[NextEvent.msg.to]) = NextEvent.msg.answer
         /\ call[NextEvent.msg.answer].id = NextEvent.msg.to
<1> DEFINE j == NextEvent.msg.to
           x == NextEvent.msg.answer
<1>1. NextEvent \in events.batch /\ NextEvent.msg \in Responses
  BY NextEventIn DEF CorrelationInv
<1>2. x \in Rpc /\ j \in Nat /\ call[x].id = j
  BY <1>1 DEF CorrelationInv, CorrelatedInv, MessagesOK, Responses
<1>3. PICK s \in Rpc : wakener[j] = <<s>> /\ call[s].id = j
  BY DEF CorrelationInv, CorrelatedInv, WakenersOK, Waits
<1>4. s = x
  BY <1>2, <1>3 DEF CorrelationInv, CorrelatedInv, OwnIds
<1>5. Head(wakener[j]) = s
  BY <1>3
<1> QED BY <1>2, <1>4, <1>5

\* What it fills into an Ivar is the answer to that Ivar's call.
LEMMA EventHandleCorrelated ==
  ASSUME CorrelationInv, EventHandle
  PROVE  CorrelatedInv' /\ AnswersOK'
<1>1. BasicInv /\ CorrelatedInv /\ TypeOK /\ AnswersOK
  BY DEF CorrelationInv, BasicInv
<1>2. UNCHANGED <<wakener, workers, restarts>> /\ events.batch # {}
  BY DEF EventHandle, serverVars
<1>3. \A e \in events'.batch : e \in events.batch
  <2>1. CASE EventDone
    BY <1>1, <1>2, <2>1, EventDoneType
  <2>2. CASE events' = [events EXCEPT !.batch = {}]
    BY <1>1, <2>2 DEF TypeOK
  <2> QED BY <2>1, <2>2 DEF EventHandle
<1>4. CASE UNCHANGED <<queues, call>>
  <2>1. SameIds /\ \A s \in Rpc : call'[s].pc = call[s].pc
    BY <1>4 DEF SameIds
  <2>2. SameQueue(queues, queues', Svc) /\ SameQueue(queues, queues', Reply)
    BY <1>4, SameQueues
  <2>3. CorrelatedInv'
    BY <1>1, <1>2, <1>3, <2>1, <2>2, SameNoneAdded, QuietCorrelated
  <2> QED BY <1>1, <1>4, <2>3 DEF AnswersOK
<1>5. CASE /\ NextEvent.msg.to \in DOMAIN wakener /\ restarts = 0
           /\ queues' = InternalAck(queues, Reply, NextEvent.id)
           /\ call' = [call EXCEPT ![Head(wakener[NextEvent.msg.to])].ivar =
                                      IvarReply(NextEvent.msg.answer)]
  <2> DEFINE x == NextEvent.msg.answer
  <2>1. x \in Rpc /\ call' = [call EXCEPT ![x].ivar = IvarReply(x)]
    BY <1>2, <1>5, FilledIvar
  <2> HIDE DEF x
  <2>2. /\ SamePcs /\ SameIds
        /\ \A s \in Rpc : call'[s].ivar = IF s = x THEN IvarReply(x) ELSE call[s].ivar
        /\ \A s \in Rpc : call'[s].result = call[s].result
    <3>1. IvarReply(x) \in Values
      BY <2>1 DEF Values
    <3> QED BY <1>1, <2>1, <3>1, FillCall
  <2>3. NoneAdded(Svc) /\ NoneAdded(Reply) /\ NextId(queues', Svc) = NextId(queues, Svc)
    BY <1>5, AckQueue, RpcAssumption DEF NoneAdded
  <2>4. CorrelatedInv'
    BY <1>1, <1>2, <1>3, <2>2, <2>3, QuietCorrelated DEF SamePcs
  <2>5. AnswersOK'
    BY <1>1, <2>2 DEF AnswersOK
  <2> QED BY <2>4, <2>5
<1> QED BY <1>1, <1>4, <1>5, EventHandleBasic

\* What leaves the calls, the wakeners and the transfer alone and sends nothing.
LEMMA ServiceQuietCorrelated ==
  ASSUME CorrelationInv, UNCHANGED <<call, wakener, events.batch, restarts>>,
         NoneAdded(Svc), NoneAdded(Reply), NextId(queues', Svc) = NextId(queues, Svc),
         \A w \in workers' : \/ \E v \in workers : w.call = v.call /\ w.id = v.id
                             \/ w \in NewWorkers
  PROVE  CorrelatedInv'
<1>1. SameIds /\ \A s \in Rpc : call'[s].pc = call[s].pc
  BY DEF SameIds
<1>2. BasicInv /\ CorrelatedInv
  BY DEF CorrelationInv
<1> QED BY <1>1, <1>2, QuietCorrelated

\* The service's polls make workers of messages.
LEMMA ServiceCorrelated ==
  ASSUME CorrelationInv,
         EventReconnect \/ ServerStart \/ ServerPoll \/ ServerReconnect \/ ServerCrash \/ UNCHANGED vars
  PROVE  CorrelatedInv'
<1>1. UNCHANGED <<call, wakener, events.batch, restarts>>
  BY DEF CorrelationInv, BasicInv, TypeOK, EventReconnect, ServerStart, ServerPoll, ServerReconnect, ServerCrash, vars, clientVars,
     serverVars
<1>2. SameQueue(queues, queues', Svc) /\ SameQueue(queues, queues', Reply)
  BY SameQueues, SvcAdded
     DEF EventReconnect, ServerStart, ServerPoll, ServerReconnect, ServerCrash, vars
<1>3. \A w \in workers' : w \in workers \/ w \in NewWorkers
  <2>1. CASE ServerPoll
    BY <2>1, ServerPollBasic DEF CorrelationInv
  <2>2. CASE ~ServerPoll
    BY <2>2 DEF EventReconnect, ServerStart, ServerReconnect, ServerCrash, vars, serverVars
  <2> QED BY <2>1, <2>2
<1> QED BY <1>1, <1>2, <1>3, SameNoneAdded, ServiceQuietCorrelated

\* Processing and acknowledging send nothing.
LEMMA WorkerQuietCorrelated ==
  ASSUME CorrelationInv, NEW w \in workers, WorkerProcess(w) \/ WorkerAck(w)
  PROVE  CorrelatedInv'
<1>1. UNCHANGED <<call, wakener, events, restarts>>
  BY DEF WorkerProcess, WorkerAck, clientVars
<1>2. NoneAdded(Svc) /\ NoneAdded(Reply) /\ NextId(queues', Svc) = NextId(queues, Svc)
  BY AckQueue, SameQueues, SameNoneAdded, RpcAssumption DEF WorkerProcess, WorkerAck, NoneAdded
<1>3. \A u \in workers' : \E v \in workers : u.call = v.call /\ u.id = v.id
  BY AdvanceType DEF WorkerProcess, WorkerAck, CorrelationInv, BasicInv
<1> QED BY <1>1, <1>2, <1>3, ServiceQuietCorrelated

\* The reply is addressed to the request its thread has read.
LEMMA WorkerReplyCorrelated ==
  ASSUME CorrelationInv, NEW w \in workers, WorkerReply(w)
  PROVE  CorrelatedInv'
<1> DEFINE i == NextId(queues, Reply)
<1>1. UNCHANGED <<call, wakener, events, restarts>>
  BY DEF WorkerReply, clientVars
<1>2. \A u \in workers' : \E v \in workers : u.call = v.call /\ u.id = v.id
  BY AdvanceType DEF WorkerReply, CorrelationInv, BasicInv
<1>3. CASE queues' = queues
  BY <1>1, <1>2, <1>3, SameQueues, SameNoneAdded, ServiceQuietCorrelated
<1>4. CASE Exists(queues, Reply) /\ queues' = Sent(queues, Svc, Reply, Response(w.id, w.call))
  <2>1. SameQueue(queues, queues', Svc)
    BY <1>4, SendQueue, RpcAssumption
  <2>2. /\ Ids(queues', Reply) = Ids(queues, Reply) \cup {i}
        /\ Msg(queues', Reply, i) = Response(w.id, w.call)
        /\ \A j \in Ids(queues, Reply) \ {i} : Msg(queues', Reply, j) = Msg(queues, Reply, j)
    BY <1>4, SendQueue
  <2> SUFFICES ASSUME restarts = 0 PROVE OwnIds' /\ WakenersOK' /\ MessagesOK'
    BY <1>1 DEF CorrelatedInv
  <2>3. OwnIds /\ WakenersOK /\ MessagesOK /\ BasicInv
    BY DEF CorrelationInv, CorrelatedInv
  <2>4. OwnIds' /\ WakenersOK'
    BY <1>1, <2>1, <2>3 DEF OwnIds, WakenersOK, Waits, SameQueue
  <2>5. \A j \in Ids(queues', Svc) : call'[Msg(queues', Svc, j).call].id = j
    BY <1>1, <2>1, <2>3 DEF MessagesOK, SameQueue
  <2>6. \A u \in workers' : call'[u.call].id = u.id
    BY <1>1, <1>2, <2>3 DEF MessagesOK
  <2>7. \A j \in Ids(queues', Reply) :
            call'[Msg(queues', Reply, j).answer].id = Msg(queues', Reply, j).to
    BY <1>1, <2>2, <2>3 DEF MessagesOK, Response
  <2>8. \A e \in events'.batch : call'[e.msg.answer].id = e.msg.to
    BY <1>1, <2>3 DEF MessagesOK
  <2> QED BY <2>4, <2>5, <2>6, <2>7, <2>8 DEF MessagesOK
<1> QED BY <1>3, <1>4 DEF WorkerReply

\* A call ends with what is in its Ivar, if not with its own time-out.
LEMMA RpcAnswers ==
  ASSUME CorrelationInv, NEW r \in Rpc, RpcStep(r) \/ RpcTimeout(r)
  PROVE  AnswersOK'
<1>1. AnswersOK /\ TypeOK
  BY DEF CorrelationInv, BasicInv
<1>2. CASE RpcTimeout(r)
  <2>1. IvarTimeout \in Values
    BY DEF Values
  <2>2. /\ \A s \in Rpc : call'[s].ivar = IF s = r THEN IvarTimeout ELSE call[s].ivar
        /\ \A s \in Rpc : call'[s].result = call[s].result
    BY <1>1, <1>2, <2>1, FillCall DEF RpcTimeout
  <2> QED BY <1>1, <2>2 DEF AnswersOK
<1>3. CASE RpcRead(r)
  BY <1>1, <1>3, ReadCall DEF AnswersOK
<1>4. CASE RpcDeleted(r)
  <2>1. IvarDeleted \in Values /\ "done" \in PCs
    BY DEF Values, PCs
  <2>2. /\ \A s \in Rpc : call'[s].ivar = call[s].ivar
        /\ \A s \in Rpc : call'[s].result = IF s = r THEN IvarDeleted ELSE call[s].result
    <3> DEFINE v == IvarDeleted
               p == "done"
    <3>1. call' = [call EXCEPT ![r].pc = p, ![r].result = v] /\ v \in Values /\ p \in PCs
      BY <1>4, <2>1 DEF RpcDeleted
    <3> HIDE DEF v, p
    <3>2. /\ \A s \in Rpc : call'[s].ivar = call[s].ivar
          /\ \A s \in Rpc : call'[s].result = IF s = r THEN v ELSE call[s].result
      BY <1>1, <3>1 DEF TypeOK, Calls
    <3> QED BY <3>2 DEF v
  <2> QED BY <1>1, <2>2 DEF AnswersOK
<1>5. CASE RpcSend(r)
  <2>1. queues.queues[Svc].next_id \in Nat
    BY <1>5 DEF RpcSend, NextId, Find, CorrelationInv, BasicInv, QueuesOK, Numbered
  <2>2. SameHeld
    BY <1>1, <1>5, <2>1, SendCall DEF RpcSend
  <2> QED BY <1>1, <2>2 DEF AnswersOK, SameHeld
<1>6. CASE RpcLock(r) \/ RpcRetry(r) \/ RpcCreate(r) \/ RpcRegister(r) \/ RpcReturn(r)
  <2>1. SameHeld
    BY <1>1, <1>6, MoveCall DEF RpcLock, RpcRetry, RpcCreate, RpcRegister, RpcReturn, PCs
  <2> QED BY <1>1, <2>1 DEF AnswersOK, SameHeld
<1> QED BY <1>2, <1>3, <1>4, <1>5, <1>6 DEF RpcStep

\* The invariant is inductive.
LEMMA CorrelationStep == CorrelationInv /\ [Next]_vars => CorrelationInv'
<1> SUFFICES ASSUME CorrelationInv, [Next]_vars PROVE CorrelationInv'
  OBVIOUS
<1>1. BasicInv'
  BY BasicStep DEF CorrelationInv
<1>2. ASSUME NEW r \in Rpc, RpcStep(r) \/ RpcTimeout(r) PROVE CorrelatedInv' /\ AnswersOK'
  BY <1>2, RpcQuietCorrelated, RpcSendCorrelated, RpcRegisterCorrelated, RpcReturnCorrelated,
     RpcAnswers DEF RpcStep
<1>3. ASSUME NEW w \in workers, WorkerStep(w) PROVE CorrelatedInv' /\ AnswersOK'
  <2>1. UNCHANGED call
    BY <1>3 DEF WorkerStep, WorkerProcess, WorkerReply, WorkerAck, clientVars
  <2> QED
    BY <1>3, <2>1, WorkerQuietCorrelated, WorkerReplyCorrelated
       DEF WorkerStep, CorrelationInv, AnswersOK
<1>4. CASE SwitchRestart
  BY <1>1, <1>4 DEF SwitchRestart, CorrelationInv, CorrelatedInv, AnswersOK, BasicInv, TypeOK
<1>5. CASE EventHandle
  BY <1>1, <1>5, EventHandleCorrelated DEF CorrelationInv
<1>6. CASE EventPoll \/ EventReconnect \/ ServerStep \/ ServerCrash \/ UNCHANGED vars
  <2>1. UNCHANGED call
    BY <1>6 DEF EventPoll, EventReconnect, ServerStep, ServerStart, ServerPoll, ServerReconnect,
       ServerCrash, clientVars, vars
  <2>2. CorrelatedInv'
    BY <1>6, EventPollCorrelated, ServiceCorrelated DEF ServerStep
  <2> QED BY <1>1, <2>1, <2>2 DEF CorrelationInv, AnswersOK
<1> QED
  BY <1>1, <1>2, <1>3, <1>4, <1>5, <1>6 DEF Next, EventStep, CorrelationInv

\* The reply a call returns is the reply to its own request, for any number of
\* calls that share the two queues and any number of crashes and restarts
\* (Client.rpc and its event thread).
THEOREM RepliesCorrelated == Spec => []Correlated
<1>1. CorrelationInv => Correlated
  BY DEF CorrelationInv, AnswersOK, Correlated, IvarReply, IvarTimeout, IvarDeleted
<1> QED BY CorrelationInitial, CorrelationStep, <1>1, PTL DEF Spec

-----------------------------------------------------------------------------
(* No reply is passed over *)

\* The event thread has yet to come to the message.
Ahead(i) ==
    /\ i > events.from
    /\ i <= events.next /\ events.batch # {} => \E e \in events.batch : e.id = i
AwaitedOK ==
    \A r \in Rpc : Pending(r) =>
        \A i \in Ids(queues, Reply) : Msg(queues, Reply, i).to = call[r].id => Ahead(i)

DeliveryInv == CorrelationInv /\ CursorOK /\ AwaitedOK

\* The invariant holds at first.
LEMMA DeliveryInitial == Init => DeliveryInv
<1> SUFFICES ASSUME Init PROVE DeliveryInv
  OBVIOUS
<1>1. CorrelationInv
  BY CorrelationInitial
<1>2. NextId(queues, Reply) \in Nat
  BY <1>1 DEF CorrelationInv, BasicInv, QueuesOK, Numbered
<1>3. CursorOK
  BY <1>2 DEF Init, CursorOK
<1>4. AwaitedOK
  BY DEF Init, AwaitedOK, Pending
<1> QED BY <1>1, <1>3, <1>4 DEF DeliveryInv

\* After a restart there are no replies.
LEMMA RestartedDelivery ==
  ASSUME BasicInv', restarts' # 0
  PROVE  CursorOK' /\ AwaitedOK'
<1>1. ~Exists(queues', Reply)
  BY DEF BasicInv, FaultsOK, TypeOK
<1>2. Ids(queues', Reply) = {}
  BY <1>1, NoQueue
<1> QED BY <1>2 DEF CursorOK, AwaitedOK

\* A step that adds no reply and begins no wait keeps it.
LEMMA DeliveryKept ==
  ASSUME CursorOK, AwaitedOK, events' = events, restarts' = restarts,
         NoneAdded(Reply), NextId(queues', Reply) = NextId(queues, Reply),
         \A r \in Rpc : Pending(r)' => Pending(r) /\ call'[r].id = call[r].id
  PROVE  CursorOK' /\ AwaitedOK'
<1>1. CursorOK'
  BY DEF CursorOK, NoneAdded
<1>2. AwaitedOK'
  BY DEF AwaitedOK, Ahead, NoneAdded
<1> QED BY <1>1, <1>2

\* A call other than one that sends only stops waiting.
LEMMA RpcDelivery ==
  ASSUME DeliveryInv, NEW r \in Rpc, RpcStep(r) \/ RpcTimeout(r), ~RpcSend(r)
  PROVE  CursorOK' /\ AwaitedOK'
<1>1. TypeOK /\ CursorOK /\ AwaitedOK
  BY DEF DeliveryInv, CorrelationInv, BasicInv
<1>2. events' = events /\ restarts' = restarts
  BY DEF RpcStep, RpcLock, RpcRetry, RpcCreate, RpcDeleted, RpcRegister, RpcTimeout, RpcRead, RpcReturn
<1>3. NoneAdded(Reply) /\ NextId(queues', Reply) = NextId(queues, Reply)
  BY SameQueues, SvcAdded, SameNoneAdded
     DEF RpcStep, RpcLock, RpcRetry, RpcCreate, RpcDeleted, RpcRegister, RpcTimeout, RpcRead, RpcReturn
<1>4. \A s \in Rpc : Pending(s)' => Pending(s) /\ call'[s].id = call[s].id
  <2>1. CASE RpcTimeout(r)
    <3>1. IvarTimeout \in Values
      BY DEF Values
    <3>2. SamePcs /\ SameIds /\ \A s \in Rpc : call'[s].ivar = IF s = r THEN IvarTimeout ELSE call[s].ivar
      BY <1>1, <2>1, <3>1, FillCall DEF RpcTimeout
    <3> QED BY <3>2, IvarAssumption DEF Pending, SamePcs, SameIds
  <2>2. CASE RpcRead(r)
    <3>1. (Moves(r, "release") \/ Moves(r, "done")) /\ SameIds
          /\ \A s \in Rpc : call'[s].ivar = call[s].ivar
      BY <1>1, <2>2, ReadCall
    <3> QED BY <3>1 DEF Pending, Moves, SameIds
  <2>3. CASE RpcDeleted(r)
    <3>1. "done" \in PCs /\ IvarDeleted \in Values
      BY DEF PCs, Values
    <3>2. Moves(r, "done") /\ SameIds /\ \A s \in Rpc : call'[s].ivar = call[s].ivar
      BY <1>1, <2>3, <3>1, EndCall DEF RpcDeleted
    <3> QED BY <3>2 DEF Pending, Moves, SameIds
  <2>4. CASE RpcRegister(r)
    <3>1. Moves(r, "read") /\ SameIds /\ SameHeld /\ call[r].pc = "register"
      BY <1>1, <2>4, MoveCall DEF RpcRegister, PCs
    <3> QED BY <3>1 DEF Pending, Moves, SameIds, SameHeld
  <2>5. CASE RpcLock(r) \/ RpcRetry(r) \/ RpcCreate(r) \/ RpcReturn(r)
    <3>1. PICK p \in {"create", "start", "send", "done"} : call' = [call EXCEPT ![r].pc = p]
      BY <2>5 DEF RpcLock, RpcRetry, RpcCreate, RpcReturn
    <3>2. Moves(r, p) /\ SameIds /\ SameHeld
      BY <1>1, <3>1, MoveCall DEF PCs
    <3> QED BY <3>1, <3>2 DEF Pending, Moves, SameIds, SameHeld
  <2> QED BY <2>1, <2>2, <2>3, <2>4, <2>5 DEF RpcStep
<1> QED BY <1>1, <1>2, <1>3, <1>4, DeliveryKept

\* A new request: no reply to it can be there.
LEMMA RpcSendDelivery ==
  ASSUME DeliveryInv, NEW r \in Rpc, RpcSend(r), restarts = 0
  PROVE  CursorOK' /\ AwaitedOK'
<1> DEFINE i == NextId(queues, Svc)
<1>1. TypeOK /\ QueuesOK /\ CursorOK /\ AwaitedOK /\ OwnIds /\ MessagesOK
  BY DEF DeliveryInv, CorrelationInv, CorrelatedInv, BasicInv
<1>2. queues.queues[Svc].next_id = i /\ i \in Nat
  BY <1>1 DEF RpcSend, NextId, Find, QueuesOK, Numbered
<1>3. /\ Moves(r, "register") /\ SameHeld
      /\ \A s \in Rpc : call'[s].id = IF s = r THEN i ELSE call[s].id
  BY <1>1, <1>2, SendCall DEF RpcSend
<1>4. events' = events /\ restarts' = restarts
  BY DEF RpcSend
<1>5. SameQueue(queues, queues', Reply)
  BY SendQueue, RpcAssumption DEF RpcSend
<1>6. \A j \in Ids(queues, Reply) : Msg(queues, Reply, j).to # i
  BY <1>1 DEF QueuesOK, Responses, MessagesOK, OwnIds, Numbered, TypeOK, Calls
<1> HIDE DEF i
<1>7. CursorOK'
  BY <1>1, <1>4, <1>5 DEF CursorOK, SameQueue
<1>8. AwaitedOK'
  BY <1>1, <1>3, <1>4, <1>5, <1>6 DEF AwaitedOK, Ahead, SameQueue, Pending, Moves, SameHeld
<1> QED BY <1>7, <1>8

\* The event thread takes all there is between its two cursors.
LEMMA EventPollDelivery ==
  ASSUME DeliveryInv, EventPoll
  PROVE  CursorOK' /\ AwaitedOK'
<1>1. /\ events.batch = {} /\ events'.from = events.from /\ events'.next \in Ids(queues, Reply)
      /\ events'.batch = {[id |-> i, msg |-> Msg(queues, Reply, i)] :
                                i \in Above(Reply, events.from)}
  BY EventPollBasic DEF DeliveryInv, CorrelationInv
<1>2. UNCHANGED <<queues, call, restarts>>
  BY DEF EventPoll
<1>3. \A i \in Ids(queues, Reply) : i > events.from => i \in Above(Reply, events.from)
  BY DEF Above, Ids
<1>4. CursorOK'
  BY <1>1, <1>2 DEF CursorOK, DeliveryInv, CorrelationInv, BasicInv, QueuesOK, Numbered
<1>5. ASSUME NEW i \in Above(Reply, events.from) PROVE \E e \in events'.batch : e.id = i
  <2> DEFINE e == [id |-> i, msg |-> Msg(queues, Reply, i)]
  <2>1. e \in events'.batch /\ e.id = i
    BY <1>1
  <2> QED BY <2>1
<1>6. AwaitedOK'
  BY <1>1, <1>2, <1>3, <1>5 DEF DeliveryInv, AwaitedOK, Ahead, Pending
<1> QED BY <1>4, <1>6

\* The message that is handled is not one a waiting call waits for: its Ivar
\* would be filled.
LEMMA EventHandleDelivery ==
  ASSUME DeliveryInv, EventHandle, restarts = 0
  PROVE  CursorOK' /\ AwaitedOK'
<1> DEFINE e == NextEvent
           rest == events.batch \ {e}
<1>1. /\ CorrelationInv /\ BasicInv /\ TypeOK /\ QueuesOK /\ CursorOK /\ AwaitedOK /\ OwnIds
      /\ WakenersOK /\ MutexOK
  BY DEF DeliveryInv, CorrelationInv, CorrelatedInv, BasicInv
<1>2. /\ requestsM = None /\ events.batch # {} /\ EventDone /\ restarts' = restarts
      /\ \/ e.msg.to \notin DOMAIN wakener /\ UNCHANGED <<queues, call>>
         \/ /\ e.msg.to \in DOMAIN wakener
            /\ queues' = InternalAck(queues, Reply, e.id)
            /\ call' = [call EXCEPT ![Head(wakener[e.msg.to])].ivar = IvarReply(e.msg.answer)]
  BY <1>1, EventHandleBasic DEF EventHandle, serverVars
<1>3. e \in events.batch /\ e.id \in Nat /\ e.msg \in Responses
  BY <1>1, <1>2, NextEventIn
<1>4. /\ events'.batch = rest /\ events'.next = events.next
      /\ events'.from = IF rest = {} THEN events.next ELSE events.from
  BY <1>1, <1>2, EventDoneType
<1>5. NoneAdded(Reply) /\ NextId(queues', Reply) = NextId(queues, Reply)
  <2>1. CASE UNCHANGED queues
    BY <2>1, SameQueues, SameNoneAdded
  <2>2. CASE queues' = InternalAck(queues, Reply, e.id)
    BY <2>2, AckQueue DEF NoneAdded
  <2> QED BY <1>2, <2>1, <2>2
<1> HIDE DEF e
<1>6. CursorOK'
  BY <1>1, <1>2, <1>4, <1>5 DEF CursorOK, NoneAdded
<1>7. ASSUME NEW r \in Rpc, Pending(r)'
      PROVE  Pending(r) /\ call'[r].id = call[r].id /\ e.msg.to # call[r].id
  <2>1. ASSUME call[r].pc = "read" PROVE call[r].id \in DOMAIN wakener
    BY <1>1, <2>1 DEF WakenersOK
  <2>2. ~Locked(r)
    BY <1>1, <1>2, RpcAssumption DEF MutexOK
  <2>3. CASE e.msg.to \notin DOMAIN wakener /\ UNCHANGED <<queues, call>>
    BY <1>7, <2>1, <2>2, <2>3 DEF Pending, Locked
  <2>4. CASE /\ e.msg.to \in DOMAIN wakener
             /\ call' = [call EXCEPT ![Head(wakener[e.msg.to])].ivar = IvarReply(e.msg.answer)]
    <3> DEFINE x == e.msg.answer
    <3>1. x \in Rpc /\ Head(wakener[e.msg.to]) = x /\ call[x].id = e.msg.to
      BY <1>1, <1>2, <2>4, FilledIvar DEF e
    <3>2. call' = [call EXCEPT ![x].ivar = IvarReply(x)] /\ IvarReply(x) \in Values
      BY <2>4, <3>1 DEF Values
    <3>3. /\ SamePcs /\ SameIds
          /\ \A s \in Rpc : call'[s].ivar = IF s = x THEN IvarReply(x) ELSE call[s].ivar
      BY <1>1, <3>1, <3>2, FillCall
    <3> HIDE DEF x
    <3>4. r # x
      BY <1>7, <3>1, <3>3, IvarAssumption DEF Pending
    <3>5. call[r].id # e.msg.to
      <4>1. e.msg.to \in Nat
        BY <1>3 DEF Responses
      <4> QED BY <1>1, <3>1, <3>4, <4>1 DEF OwnIds
    <3> QED BY <1>7, <3>3, <3>4, <3>5 DEF Pending, SamePcs, SameIds
  <2> QED BY <1>2, <2>3, <2>4
<1>8. ASSUME NEW r \in Rpc, Pending(r)', NEW i \in Ids(queues', Reply),
             Msg(queues', Reply, i).to = call'[r].id
      PROVE  Ahead(i)'
  <2>1. i \in Ids(queues, Reply) /\ Msg(queues, Reply, i).to = call[r].id /\ Ahead(i)
    BY <1>1, <1>5, <1>7, <1>8 DEF NoneAdded, AwaitedOK
  <2>2. i # e.id
    BY <1>1, <1>3, <1>7, <1>8, <2>1 DEF CursorOK
  <2>3. i \in Nat /\ events.next \in Int /\ events.from \in Int
    BY <1>1, <2>1 DEF QueuesOK, Numbered, TypeOK
  <2>4. i <= events.next => \E d \in rest : d.id = i
    BY <1>2, <2>1, <2>2 DEF Ahead
  <2> QED BY <1>4, <2>1, <2>3, <2>4 DEF Ahead
<1>9. AwaitedOK'
  BY <1>8 DEF AwaitedOK
<1> QED BY <1>6, <1>9

\* A new reply is above everything the event thread has read.
LEMMA WorkerReplyDelivery ==
  ASSUME DeliveryInv, NEW w \in workers, WorkerReply(w), restarts = 0
  PROVE  CursorOK' /\ AwaitedOK'
<1> DEFINE i == NextId(queues, Reply)
<1>1. TypeOK /\ QueuesOK /\ CursorOK /\ AwaitedOK
  BY DEF DeliveryInv, CorrelationInv, BasicInv
<1>2. UNCHANGED <<call, events, restarts>>
  BY DEF WorkerReply, clientVars
<1>3. CASE queues' = queues
  BY <1>1, <1>2, <1>3, SameQueues, SameNoneAdded, DeliveryKept DEF Pending
<1>4. CASE Exists(queues, Reply) /\ queues' = Sent(queues, Svc, Reply, Response(w.id, w.call))
  <2>1. /\ Ids(queues', Reply) = Ids(queues, Reply) \cup {i} /\ NextId(queues', Reply) = i + 1
        /\ \A j \in Ids(queues, Reply) \ {i} : Msg(queues', Reply, j) = Msg(queues, Reply, j)
    BY <1>4, SendQueue
  <2>2. i \in Nat /\ \A j \in Ids(queues, Reply) : j < i
    BY <1>1 DEF QueuesOK, Numbered
  <2>3. events.from \in Int /\ events.next \in Int /\ events.from < i /\ events.next < i
    BY <1>1 DEF TypeOK, CursorOK
  <2>4. \A e \in events.batch : e.id <= events.next /\ e.id \in Nat
    BY DEF DeliveryInv, CorrelationInv, BasicInv, BatchOK, TypeOK
  <2> HIDE DEF i
  <2>5. \A j \in Ids(queues, Reply) : j # i /\ j \in Nat
    BY <1>1, <2>2 DEF QueuesOK, Numbered
  <2>6. CursorOK'
    BY <1>1, <1>2, <2>1, <2>2, <2>3, <2>4, <2>5 DEF CursorOK, i
  <2>7. Ahead(i)
    BY <2>2, <2>3 DEF Ahead
  <2>8. AwaitedOK'
    BY <1>1, <1>2, <2>1, <2>5, <2>7 DEF AwaitedOK, Ahead, Pending
  <2> QED BY <2>6, <2>8
<1> QED BY <1>3, <1>4 DEF WorkerReply

\* A cursor that is forgotten passes nothing over.
LEMMA EventReconnectDelivery ==
  ASSUME DeliveryInv, EventReconnect
  PROVE  CursorOK' /\ AwaitedOK'
<1>1. TypeOK /\ QueuesOK /\ CursorOK /\ AwaitedOK
  BY DEF DeliveryInv, CorrelationInv, BasicInv
<1>2. UNCHANGED <<queues, call, restarts>>
  BY DEF EventReconnect
<1>3. /\ events'.batch = {} /\ events'.next = events.next
      /\ events'.from = events.from \/ events'.from = -1
  BY <1>1 DEF EventReconnect, TypeOK
<1>4. NextId(queues, Reply) \in Nat /\ \A i \in Ids(queues, Reply) : i \in Nat
  BY <1>1 DEF QueuesOK, Numbered
<1>5. CursorOK'
  BY <1>1, <1>2, <1>3, <1>4 DEF CursorOK
<1>6. AwaitedOK'
  <2> SUFFICES ASSUME NEW r \in Rpc, Pending(r)', NEW i \in Ids(queues', Reply),
                      Msg(queues', Reply, i).to = call'[r].id
               PROVE  Ahead(i)'
    BY DEF AwaitedOK
  <2>1. i \in Nat /\ i > events.from
    BY <1>1, <1>2, <1>4 DEF AwaitedOK, Ahead, Pending
  <2>2. i > events'.from
    BY <1>3, <2>1
  <2> QED BY <1>3, <2>2 DEF Ahead
<1> QED BY <1>5, <1>6

\* The service adds nothing to the reply queue but by a reply.
LEMMA ServiceDelivery ==
  ASSUME DeliveryInv,
         \/ ServerStep \/ ServerCrash \/ UNCHANGED vars
         \/ \E w \in workers : WorkerProcess(w) \/ WorkerAck(w)
  PROVE  CursorOK' /\ AwaitedOK'
<1>1. UNCHANGED <<call, events, restarts>> /\ CursorOK /\ AwaitedOK
  BY DEF ServerStep, ServerStart, ServerPoll, ServerReconnect, ServerCrash, vars,
     WorkerProcess, WorkerAck, clientVars, DeliveryInv
<1>2. NoneAdded(Reply) /\ NextId(queues', Reply) = NextId(queues, Reply)
  <2>1. CASE \E w \in workers : WorkerAck(w)
    BY <2>1, AckQueue, SameQueues, SameNoneAdded, RpcAssumption DEF WorkerAck, NoneAdded
  <2>2. CASE ~\E w \in workers : WorkerAck(w)
    BY <2>2, SameQueues, SvcAdded, SameNoneAdded
       DEF ServerStep, ServerStart, ServerPoll, ServerReconnect, ServerCrash, vars, WorkerProcess
  <2> QED BY <2>1, <2>2
<1>3. \A r \in Rpc : Pending(r)' => Pending(r) /\ call'[r].id = call[r].id
  BY <1>1 DEF Pending
<1> QED BY <1>1, <1>2, <1>3, DeliveryKept

\* Only a restart counts as one.
LEMMA OnlyRestarts ==
  ASSUME [Next]_vars, ~SwitchRestart
  PROVE  restarts' = restarts
<1>1. CASE \E r \in Rpc : RpcStep(r) \/ RpcTimeout(r)
  BY <1>1 DEF RpcStep, RpcLock, RpcRetry, RpcCreate, RpcSend, RpcDeleted, RpcRegister,
     RpcTimeout, RpcRead, RpcReturn
<1>2. CASE EventStep \/ ServerStep \/ ServerCrash \/ UNCHANGED vars
  BY <1>2 DEF EventStep, EventPoll, EventHandle, EventReconnect, ServerStep, ServerStart,
     ServerPoll, ServerReconnect, ServerCrash, vars
<1>3. CASE \E w \in workers : WorkerStep(w)
  BY <1>3 DEF WorkerStep, WorkerProcess, WorkerReply, WorkerAck
<1> QED BY <1>1, <1>2, <1>3 DEF Next

\* The event thread never passes over a reply while the call it answers is
\* waiting, since it asks for the mutex under which the call registers.
THEOREM NoRepliesPassedOver == Spec => []NoReplyPassedOver
<1>1. DeliveryInv /\ [Next]_vars => DeliveryInv'
  <2> SUFFICES ASSUME DeliveryInv, [Next]_vars PROVE DeliveryInv'
    OBVIOUS
  <2>1. CorrelationInv' /\ BasicInv'
    BY CorrelationStep DEF DeliveryInv, CorrelationInv
  <2>2. CASE restarts' # 0
    BY <2>1, <2>2, RestartedDelivery DEF DeliveryInv
  <2>3. CASE restarts' = 0
    <3>1. restarts = 0 /\ ~SwitchRestart
      <4>1. ~SwitchRestart
        BY <2>3 DEF SwitchRestart, DeliveryInv, CorrelationInv, BasicInv, TypeOK
      <4> QED BY <2>3, <4>1, OnlyRestarts
    <3>2. CursorOK' /\ AwaitedOK'
      BY <3>1, RpcDelivery, RpcSendDelivery, EventPollDelivery, EventHandleDelivery,
         EventReconnectDelivery, WorkerReplyDelivery, ServiceDelivery
         DEF Next, EventStep, WorkerStep
    <3> QED BY <2>1, <3>2 DEF DeliveryInv
  <2> QED BY <2>2, <2>3
<1>2. DeliveryInv => NoReplyPassedOver
  BY DEF DeliveryInv, AwaitedOK, Ahead, NoReplyPassedOver, ReplyMessages, Ids, Msg
<1> QED BY DeliveryInitial, <1>1, <1>2, PTL DEF Spec

-----------------------------------------------------------------------------
(* How often a request is processed *)

ProcessedInv == BasicInv /\ OnceInv

\* The invariant holds at first.
LEMMA OnceInitial == Init => ProcessedInv
<1> SUFFICES ASSUME Init PROVE ProcessedInv
  OBVIOUS
<1>1. BasicInv
  BY BasicInitial
<1>2. Ids(queues, Svc) = {}
  <2>1. SameQueue(EmptyQueues, queues, Svc) /\ ~Exists(EmptyQueues, Svc)
    BY AddQueue DEF Init, Exists, EmptyQueues, EmptyMap
  <2> QED BY <2>1, NoQueue DEF SameQueue
<1>3. ASSUME NEW r \in Rpc PROVE Quota(r)
  <2>1. About(r) = {} /\ ~Unread(r) /\ processed[r] = 0 /\ crashes = 0 /\ restarts = 0
    BY <1>2 DEF Init, About, Unread
  <2>2. IsFiniteSet(About(r)) /\ Cardinality(About(r)) = 0
    BY <2>1, FS_EmptySet
  <2> QED BY <2>1, <2>2 DEF Quota, One
<1> QED BY <1>1, <1>2, <1>3 DEF Init, ProcessedInv, OnceInv, InQueue

\* A step that starts no thread for a request and processes none, adds no
\* request and gives no call a reason to send.
LEMMA OnceKept ==
  ASSUME ProcessedInv, BasicInv', processed' = processed, NoneAdded(Svc),
         server'.running \/ ~server'.up,
         \A i \in Ids(queues, Svc) : (server'.up => i > server'.from) => (server.up => i > server.from),
         crashes' = crashes, restarts' = restarts,
         \A r \in Rpc : About(r)' = About(r) /\ (ToSend(r)' => ToSend(r))
  PROVE  OnceInv'
<1>1. OnceInv /\ TypeOK
  BY DEF ProcessedInv, BasicInv
<1>2. \A r \in Rpc : (InQueue(r)' => InQueue(r)) /\ (Unread(r)' => Unread(r))
  BY DEF NoneAdded, InQueue, Unread
<1>3. ASSUME NEW r \in Rpc PROVE Quota(r)'
  <2>1. Quota(r) /\ processed[r] \in Nat /\ crashes \in Nat /\ restarts \in Nat
    BY <1>1 DEF OnceInv, TypeOK
  <2>2. Cardinality(About(r)) \in Nat
    BY <2>1, FS_CardinalityType DEF Quota
  <2>3. One(Unread(r)') <= One(Unread(r)) /\ One(ToSend(r)') <= One(ToSend(r))
        /\ One(Unread(r)) \in Nat /\ One(ToSend(r)) \in Nat
        /\ One(Unread(r)') \in Nat /\ One(ToSend(r)') \in Nat
    BY <1>2 DEF One
  <2>4. IsFiniteSet(About(r)')
    BY <2>1 DEF Quota
  <2>5. processed'[r] + Cardinality(About(r)') + One(Unread(r)') + One(ToSend(r)')
            <= 1 + crashes' + restarts'
    BY <2>1, <2>2, <2>3 DEF Quota
  <2> QED BY <2>4, <2>5 DEF Quota, One
<1>4. server'.running \/ ~server'.up
  OBVIOUS
<1>5. \A r \in Rpc : InQueue(r)' => ~ToSend(r)'
  BY <1>1, <1>2 DEF OnceInv
<1>6. \A i, j \in Ids(queues', Svc) : Msg(queues', Svc, i).call = Msg(queues', Svc, j).call => i = j
  BY <1>1 DEF OnceInv, NoneAdded
<1> QED BY <1>3, <1>4, <1>5, <1>6 DEF OnceInv

\* A call that does not send adds no request.
LEMMA RpcOnce ==
  ASSUME ProcessedInv, BasicInv', NEW r \in Rpc, RpcStep(r) \/ RpcTimeout(r), ~RpcSend(r)
  PROVE  OnceInv'
<1>1. TypeOK
  BY DEF ProcessedInv, BasicInv
<1>2. UNCHANGED <<clientUp, server, workers, processed, crashes, restarts>>
  BY DEF RpcStep, RpcLock, RpcRetry, RpcCreate, RpcDeleted, RpcRegister, RpcTimeout, RpcRead,
     RpcReturn, serverVars
<1>3. NoneAdded(Svc)
  BY SameQueues, SvcAdded, SameNoneAdded
     DEF RpcStep, RpcLock, RpcRetry, RpcCreate, RpcDeleted, RpcRegister, RpcTimeout, RpcRead, RpcReturn
<1>4. \A s \in Rpc : ToSend(s)' => ToSend(s)
  <2>1. CASE RpcTimeout(r)
    <3>1. SamePcs
      BY <1>1, <2>1, FillCall DEF RpcTimeout, Values
    <3> QED BY <1>2, <3>1 DEF ToSend, SamePcs
  <2>2. CASE RpcRead(r)
    <3>1. Moves(r, "release") \/ Moves(r, "done")
      BY <1>1, <2>2, ReadCall
    <3> QED BY <1>2, <3>1 DEF ToSend, Moves
  <2>3. CASE RpcDeleted(r)
    <3>1. Moves(r, "done")
      BY <1>1, <2>3, EndCall DEF RpcDeleted, PCs, Values
    <3> QED BY <1>2, <3>1 DEF ToSend, Moves
  <2>4. CASE RpcRegister(r) \/ RpcReturn(r)
    <3>1. Moves(r, "read") \/ Moves(r, "done")
      BY <1>1, <2>4, MoveCall DEF RpcRegister, RpcReturn, PCs
    <3> QED BY <1>2, <3>1 DEF ToSend, Moves
  <2>5. CASE RpcLock(r) \/ RpcRetry(r) \/ RpcCreate(r)
    <3>1. ToSend(r)
      BY <2>5 DEF RpcLock, RpcRetry, RpcCreate, ToSend
    <3>2. PICK p \in PCs : Moves(r, p)
      BY <1>1, <2>5, MoveCall DEF RpcLock, RpcRetry, RpcCreate, PCs
    <3> QED BY <1>2, <3>1, <3>2 DEF ToSend, Moves
  <2> QED BY <2>1, <2>2, <2>3, <2>4, <2>5 DEF RpcStep
<1>5. \A s \in Rpc : About(s)' = About(s)
  BY <1>2 DEF About
<1>6. server'.running \/ ~server'.up
  BY <1>2 DEF ProcessedInv, OnceInv
<1> QED BY <1>2, <1>3, <1>4, <1>5, <1>6, OnceKept

\* Nor does the event thread, nor a service that (re)starts.
LEMMA EventOnce ==
  ASSUME ProcessedInv, BasicInv', EventStep \/ ServerStart \/ ServerReconnect \/ UNCHANGED vars
  PROVE  OnceInv'
<1>1. TypeOK /\ OnceInv /\ BasicInv
  BY DEF ProcessedInv, BasicInv
<1>2. UNCHANGED <<workers, processed, crashes, restarts>>
  BY DEF EventStep, EventPoll, EventHandle, EventReconnect, ServerStart, ServerReconnect, vars,
     serverVars
<1>3. /\ server'.running \/ ~server'.up
      /\ \A i \in Ids(queues, Svc) : (server'.up => i > server'.from) => (server.up => i > server.from)
  <2>1. CASE ServerStart
    BY <1>1, <2>1 DEF ServerStart, OnceInv
  <2>2. CASE ServerReconnect
    BY <1>1, <2>2 DEF ServerReconnect, TypeOK
  <2>3. CASE server' = server
    BY <1>1, <2>3 DEF OnceInv
  <2> QED
    BY <2>1, <2>2, <2>3
       DEF EventStep, EventPoll, EventHandle, EventReconnect, vars, serverVars
<1>4. NoneAdded(Svc) /\ \A s \in Rpc : ToSend(s)' => ToSend(s)
  <2>1. CASE EventHandle
    <3>1. NoneAdded(Svc)
      BY <2>1, AckQueue, SameQueues, SameNoneAdded, RpcAssumption DEF EventHandle, NoneAdded
    <3>2. SamePcs
      <4> DEFINE x == Head(wakener[NextEvent.msg.to])
                 v == IvarReply(NextEvent.msg.answer)
      <4>1. UNCHANGED call \/ call' = [call EXCEPT ![x].ivar = v]
        BY <2>1 DEF EventHandle
      <4> HIDE DEF x, v
      <4> QED BY <1>1, <4>1 DEF TypeOK, Calls, SamePcs
    <3> QED BY <2>1, <3>1, <3>2 DEF EventHandle, ToSend, SamePcs
  <2>2. CASE ~EventHandle
    BY <2>2, SameQueues, SvcAdded, SameNoneAdded
       DEF EventStep, EventPoll, EventReconnect, ServerStart, ServerReconnect, vars, clientVars, ToSend
  <2> QED BY <2>1, <2>2
<1>5. \A s \in Rpc : About(s)' = About(s)
  BY <1>2 DEF About
<1> QED BY <1>2, <1>3, <1>4, <1>5, OnceKept

\* A worker that has processed uses up nothing more.
LEMMA WorkerEndOnce ==
  ASSUME ProcessedInv, BasicInv', NEW w \in workers, WorkerReply(w) \/ WorkerAck(w)
  PROVE  OnceInv'
<1>1. TypeOK
  BY DEF ProcessedInv, BasicInv
<1>2. UNCHANGED <<clientUp, call, server, processed, crashes, restarts>>
  BY DEF WorkerReply, WorkerAck, clientVars
<1>3. NoneAdded(Svc)
  BY AckQueue, SendQueue, SameQueues, SameNoneAdded, RpcAssumption
     DEF WorkerReply, WorkerAck, NoneAdded, SameQueue
<1>4. \A s \in Rpc : About(s)' = About(s)
  <2>1. CASE WorkerReply(w)
    <3> DEFINE v == [w EXCEPT !.pc = "ack"]
    <3>1. w.pc = "reply" /\ v.pc = "ack" /\ workers' = (workers \ {w}) \cup {v}
      BY <1>1, <2>1, AdvanceType DEF WorkerReply
    <3> HIDE DEF v
    <3> QED BY <3>1 DEF About
  <2>2. CASE WorkerAck(w)
    BY <2>2 DEF WorkerAck, About
  <2> QED BY <2>1, <2>2
<1>5. \A s \in Rpc : ToSend(s)' => ToSend(s)
  BY <1>2 DEF ToSend
<1>6. server'.running \/ ~server'.up
  BY <1>2 DEF ProcessedInv, OnceInv
<1> QED BY <1>2, <1>3, <1>4, <1>5, <1>6, OnceKept

\* The terms of a quota are numbers.
LEMMA QuotaTerms ==
  ASSUME ProcessedInv, NEW r \in Rpc
  PROVE  /\ IsFiniteSet(About(r)) /\ Cardinality(About(r)) \in Nat
         /\ processed[r] \in Nat /\ crashes \in Nat /\ restarts \in Nat
         /\ processed[r] + Cardinality(About(r)) + One(Unread(r)) + One(ToSend(r))
                <= 1 + crashes + restarts
<1>1. TypeOK /\ Quota(r)
  BY DEF ProcessedInv, BasicInv, OnceInv
<1>2. IsFiniteSet(About(r))
  BY <1>1 DEF Quota
<1> QED BY <1>1, <1>2, FS_CardinalityType DEF Quota, TypeOK

\* What a call was about to send is in the queue.
LEMMA RpcSendOnce ==
  ASSUME ProcessedInv, BasicInv', NEW r \in Rpc, RpcSend(r)
  PROVE  OnceInv'
<1> DEFINE i == NextId(queues, Svc)
<1>1. TypeOK /\ QueuesOK /\ OnceInv
  BY DEF ProcessedInv, BasicInv
<1>2. UNCHANGED <<clientUp, server, workers, processed, crashes, restarts>> /\ clientUp
      /\ call[r].pc = "send" /\ Exists(queues, Svc)
      /\ queues' = Sent(queues, Client, Svc, Request(r))
  BY DEF RpcSend, serverVars
<1>3. /\ Ids(queues', Svc) = Ids(queues, Svc) \cup {i} /\ Msg(queues', Svc, i) = Request(r)
      /\ \A j \in Ids(queues, Svc) \ {i} : Msg(queues', Svc, j) = Msg(queues, Svc, j)
  BY <1>2, SendQueue
<1>4. i \in Nat /\ i \notin Ids(queues, Svc)
  BY <1>1 DEF QueuesOK, Numbered
<1>5. Moves(r, "register")
  <2>1. i = queues.queues[Svc].next_id
    BY <1>2 DEF NextId, Find
  <2> HIDE DEF i
  <2> QED BY <1>1, <1>4, <2>1, SendCall DEF RpcSend
<1> HIDE DEF i
<1>6. ToSend(r) /\ ~ToSend(r)' /\ ~InQueue(r) /\ \A s \in Rpc \ {r} : ToSend(s)' <=> ToSend(s)
  <2>1. ToSend(r) /\ ~ToSend(r)' /\ \A s \in Rpc \ {r} : ToSend(s)' <=> ToSend(s)
    BY <1>2, <1>5 DEF ToSend, Moves
  <2> QED BY <1>1, <2>1 DEF OnceInv
<1>7. \A j \in Ids(queues', Svc) : \/ j = i /\ Msg(queues', Svc, j).call = r
                                   \/ j \in Ids(queues, Svc) /\ Msg(queues', Svc, j) = Msg(queues, Svc, j)
  BY <1>3, <1>4 DEF Request
<1>8. \A s \in Rpc \ {r} : (InQueue(s)' => InQueue(s)) /\ (Unread(s)' => Unread(s))
  BY <1>2, <1>7 DEF InQueue, Unread
<1>9. \A s \in Rpc : About(s)' = About(s)
  BY <1>2 DEF About
<1>10. ASSUME NEW s \in Rpc PROVE Quota(s)'
  <2> DEFINE n == Cardinality(About(s))
  <2>1. IsFiniteSet(About(s)) /\ n \in Nat /\ processed[s] \in Nat /\ crashes \in Nat /\ restarts \in Nat
        /\ processed[s] + n + One(Unread(s)) + One(ToSend(s)) <= 1 + crashes + restarts
    BY QuotaTerms
  <2>2. One(Unread(s)') + One(ToSend(s)') <= One(Unread(s)) + One(ToSend(s))
    <3>1. CASE s = r
      BY <1>6, <3>1 DEF One
    <3>2. CASE s # r
      BY <1>6, <1>8, <3>2 DEF One
    <3> QED BY <3>1, <3>2
  <2>3. One(Unread(s)) \in Nat /\ One(ToSend(s)) \in Nat /\ One(Unread(s)') \in Nat /\ One(ToSend(s)') \in Nat
    BY DEF One
  <2> HIDE DEF n
  <2>4. processed'[s] + n + One(Unread(s)') + One(ToSend(s)') <= 1 + crashes' + restarts'
    BY <1>2, <2>1, <2>2, <2>3
  <2> QED BY <1>9, <2>1, <2>4 DEF Quota, One, n
<1>11. \A s \in Rpc : InQueue(s)' => ~ToSend(s)'
  BY <1>1, <1>6, <1>8 DEF OnceInv
<1>12. \A j, k \in Ids(queues', Svc) : Msg(queues', Svc, j).call = Msg(queues', Svc, k).call => j = k
  <2>1. \A j \in Ids(queues, Svc) : Msg(queues, Svc, j).call # r
    BY <1>6 DEF InQueue
  <2> QED BY <1>1, <1>7, <2>1 DEF OnceInv
<1>13. server'.running \/ ~server'.up
  BY <1>1, <1>2 DEF OnceInv
<1> QED BY <1>10, <1>11, <1>12, <1>13 DEF OnceInv

\* A request above the cursor becomes a thread, and is below the cursor then.
LEMMA ServerPollOnce ==
  ASSUME ProcessedInv, ServerPoll
  PROVE  OnceInv'
<1>1. TypeOK /\ QueuesOK /\ OnceInv /\ BasicInv
  BY DEF ProcessedInv, BasicInv
<1>2. UNCHANGED <<queues, clientUp, call, processed, crashes, restarts>>
  BY DEF ServerPoll, clientVars
<1>3. /\ workers' = workers \cup NewWorkers /\ server'.from \in Int /\ server'.running
      /\ \A i \in Ids(queues, Svc) : i <= server'.from
  BY <1>1, ServerPollBasic
<1>4. ASSUME NEW s \in Rpc PROVE Quota(s)'
  <2> DEFINE n == Cardinality(About(s))
             m == Cardinality(About(s)')
  <2>1. IsFiniteSet(About(s)) /\ n \in Nat /\ processed[s] \in Nat /\ crashes \in Nat /\ restarts \in Nat
        /\ processed[s] + n + One(Unread(s)) + One(ToSend(s)) <= 1 + crashes + restarts
    BY QuotaTerms
  <2>2. ~Unread(s)'
    <3>1. server'.up
      BY <1>1 DEF ServerPoll, TypeOK
    <3> QED BY <1>1, <1>2, <1>3, <3>1 DEF Unread, QueuesOK, Numbered
  <2>3. IsFiniteSet(About(s)') /\ m \in Nat /\ m <= n + One(Unread(s))
    <3>1. CASE Unread(s)
      <4>1. PICK i \in Ids(queues, Svc) : Msg(queues, Svc, i).call = s /\ i > server.from
        BY <3>1 DEF Unread, ServerPoll
      <4> DEFINE x == [id |-> i, call |-> Msg(queues, Svc, i).call, pc |-> "process", epoch |-> restarts]
      <4>2. x \in NewWorkers /\ x.call = s /\ x.pc = "process"
        BY <4>1 DEF NewWorkers, Above, Ids
      <4>3. ASSUME NEW w \in NewWorkers, w.call = s PROVE w = x
        <5>1. PICK j \in Above(Svc, server.from) :
                 w = [id |-> j, call |-> Msg(queues, Svc, j).call, pc |-> "process", epoch |-> restarts]
          BY DEF NewWorkers
        <5>2. j \in Ids(queues, Svc) /\ Msg(queues, Svc, j).call = s
          BY <4>3, <5>1 DEF Above, Ids
        <5>3. j = i
          BY <1>1, <4>1, <5>2 DEF OnceInv
        <5> QED BY <5>1, <5>3
      <4> HIDE DEF x
      <4>4. About(s)' = About(s) \cup {x}
        BY <1>3, <4>2, <4>3 DEF About
      <4>5. IsFiniteSet(About(s)') /\ (m = n \/ m = n + 1)
        BY <2>1, <4>4, FS_AddElement
      <4> QED BY <2>1, <3>1, <4>5 DEF One
    <3>2. CASE ~Unread(s)
      <4>1. ASSUME NEW w \in NewWorkers PROVE w.call # s
        <5>1. PICK j \in Above(Svc, server.from) :
                 w = [id |-> j, call |-> Msg(queues, Svc, j).call, pc |-> "process", epoch |-> restarts]
          BY DEF NewWorkers
        <5> QED BY <3>2, <5>1 DEF Above, Ids, Unread, ServerPoll
      <4>2. About(s)' = About(s)
        BY <1>3, <4>1 DEF About
      <4> QED BY <2>1, <3>2, <4>2 DEF One
    <3> QED BY <3>1, <3>2
  <2>4. ToSend(s)' <=> ToSend(s)
    BY <1>2 DEF ToSend
  <2>5. One(Unread(s)) \in Nat /\ One(ToSend(s)) \in Nat /\ One(Unread(s)') = 0 /\ One(ToSend(s)') = One(ToSend(s))
    BY <2>2, <2>4 DEF One
  <2> HIDE DEF n, m
  <2>6. processed'[s] + m + One(Unread(s)') + One(ToSend(s)') <= 1 + crashes' + restarts'
    BY <1>2, <2>1, <2>3, <2>5
  <2> QED BY <2>3, <2>6 DEF Quota, One, m
<1>5. \A s \in Rpc : InQueue(s)' => ~ToSend(s)'
  BY <1>1, <1>2 DEF OnceInv, InQueue, ToSend
<1>6. \A j, k \in Ids(queues', Svc) : Msg(queues', Svc, j).call = Msg(queues', Svc, k).call => j = k
  BY <1>1, <1>2 DEF OnceInv
<1> QED BY <1>3, <1>4, <1>5, <1>6 DEF OnceInv

\* Processing uses up what the worker stands for.
LEMMA WorkerProcessOnce ==
  ASSUME ProcessedInv, NEW w \in workers, WorkerProcess(w)
  PROVE  OnceInv'
<1> DEFINE v == [w EXCEPT !.pc = "reply"]
           c == w.call
<1>1. TypeOK /\ OnceInv /\ c \in Rpc
  BY DEF ProcessedInv, BasicInv, TypeOK, Workers
<1>2. UNCHANGED <<queues, clientUp, call, server, crashes, restarts>> /\ w.pc = "process"
      /\ processed' = [processed EXCEPT ![c] = @ + 1]
  BY DEF WorkerProcess, clientVars
<1>3. workers' = (workers \ {w}) \cup {v} /\ v.pc = "reply"
  BY <1>1, AdvanceType DEF WorkerProcess
<1> HIDE DEF v
<1>4. w \in About(c) /\ About(c)' = About(c) \ {w}
  BY <1>2, <1>3 DEF About
<1>5. \A s \in Rpc \ {c} : About(s)' = About(s)
  BY <1>2, <1>3 DEF About
<1>6. \A s \in Rpc : processed'[s] = IF s = c THEN processed[s] + 1 ELSE processed[s]
  BY <1>1, <1>2 DEF TypeOK
<1> HIDE DEF c
<1>7. ASSUME NEW s \in Rpc PROVE Quota(s)'
  <2> DEFINE n == Cardinality(About(s))
             m == Cardinality(About(s)')
  <2>1. IsFiniteSet(About(s)) /\ n \in Nat /\ processed[s] \in Nat /\ crashes \in Nat /\ restarts \in Nat
        /\ processed[s] + n + One(Unread(s)) + One(ToSend(s)) <= 1 + crashes + restarts
    BY QuotaTerms
  <2>2. IsFiniteSet(About(s)') /\ m \in Int /\ processed'[s] + m = processed[s] + n
    <3>1. CASE s = c
      <4>1. IsFiniteSet(About(c) \ {w}) /\ Cardinality(About(c) \ {w}) = Cardinality(About(c)) - 1
        BY <1>4, <2>1, <3>1, FS_RemoveElement
      <4>2. IsFiniteSet(About(s)') /\ m = n - 1
        BY <1>4, <3>1, <4>1
      <4>3. processed'[s] = processed[s] + 1
        BY <1>6, <3>1
      <4> HIDE DEF n, m
      <4> QED BY <2>1, <4>2, <4>3
    <3>2. CASE s # c
      BY <1>5, <1>6, <2>1, <3>2
    <3> QED BY <3>1, <3>2
  <2>3. (Unread(s)' <=> Unread(s)) /\ (ToSend(s)' <=> ToSend(s))
    BY <1>2 DEF Unread, ToSend
  <2>4. One(Unread(s)) \in Nat /\ One(ToSend(s)) \in Nat
        /\ One(Unread(s)') = One(Unread(s)) /\ One(ToSend(s)') = One(ToSend(s))
    BY <2>3 DEF One
  <2>5. processed'[s] \in Nat
    BY <1>6, <2>1
  <2> HIDE DEF n, m
  <2>6. processed'[s] + m + One(Unread(s)') + One(ToSend(s)') <= 1 + crashes' + restarts'
    BY <1>2, <2>1, <2>2, <2>4, <2>5
  <2> QED BY <2>2, <2>6 DEF Quota, One, m
<1>8. \A s \in Rpc : InQueue(s)' => ~ToSend(s)'
  BY <1>1, <1>2 DEF OnceInv, InQueue, ToSend
<1>9. /\ \A j, k \in Ids(queues', Svc) : Msg(queues', Svc, j).call = Msg(queues', Svc, k).call => j = k
      /\ server'.running \/ ~server'.up
  BY <1>1, <1>2 DEF OnceInv
<1> QED BY <1>7, <1>8, <1>9 DEF OnceInv

\* A crash or a restart pays for the request that is read, or sent, again.
LEMMA FaultOnce ==
  ASSUME ProcessedInv, ServerCrash \/ SwitchRestart
  PROVE  OnceInv'
<1>1. TypeOK /\ OnceInv /\ BasicInv /\ processed' = processed /\ call' = call
  BY DEF ProcessedInv, BasicInv, ServerCrash, SwitchRestart, clientVars
<1>2. CASE ServerCrash
  <2>1. UNCHANGED <<queues, clientUp, call, restarts>> /\ workers' = {} /\ crashes' = crashes + 1
        /\ ~server'.up
    BY <1>2 DEF ServerCrash, clientVars
  <2>2. ASSUME NEW s \in Rpc PROVE Quota(s)'
    <3>1. About(s)' = {} /\ (ToSend(s)' <=> ToSend(s))
      BY <2>1 DEF About, ToSend
    <3>2. IsFiniteSet(About(s)') /\ Cardinality(About(s)') = 0
      BY <3>1, FS_EmptySet
    <3> DEFINE n == Cardinality(About(s))
    <3>3. n \in Nat /\ processed[s] \in Nat /\ crashes \in Nat /\ restarts \in Nat
          /\ processed[s] + n + One(Unread(s)) + One(ToSend(s)) <= 1 + crashes + restarts
      BY QuotaTerms
    <3>4. One(Unread(s)) \in Nat /\ One(ToSend(s)) \in Nat
          /\ One(Unread(s)') \in {0, 1} /\ One(ToSend(s)') = One(ToSend(s))
      BY <3>1 DEF One
    <3> HIDE DEF n
    <3>5. processed'[s] + 0 + One(Unread(s)') + One(ToSend(s)') <= 1 + crashes' + restarts'
      BY <1>1, <2>1, <3>3, <3>4
    <3> QED BY <3>2, <3>5 DEF Quota, One
  <2> QED BY <1>1, <2>1, <2>2 DEF OnceInv, InQueue, ToSend
<1>3. CASE SwitchRestart
  <2>1. UNCHANGED <<workers, crashes>> /\ restarts' = restarts + 1
        /\ ~server'.up
    BY <1>1, <1>3 DEF SwitchRestart, TypeOK
  <2>2. Ids(queues', Svc) = {}
    BY <1>1, <1>3, SwitchRestartBasic
  <2>3. ASSUME NEW s \in Rpc PROVE Quota(s)'
    <3>1. About(s)' = About(s) /\ ~Unread(s)'
      BY <2>1, <2>2 DEF About, Unread
    <3> DEFINE n == Cardinality(About(s))
    <3>2. IsFiniteSet(About(s)) /\ n \in Nat /\ processed[s] \in Nat /\ crashes \in Nat /\ restarts \in Nat
          /\ processed[s] + n + One(Unread(s)) + One(ToSend(s)) <= 1 + crashes + restarts
      BY QuotaTerms
    <3>3. One(Unread(s)) \in Nat /\ One(ToSend(s)) \in Nat
          /\ One(Unread(s)') = 0 /\ One(ToSend(s)') \in {0, 1}
      BY <3>1 DEF One
    <3> HIDE DEF n
    <3>4. processed'[s] + n + One(Unread(s)') + One(ToSend(s)') <= 1 + crashes' + restarts'
      BY <1>1, <2>1, <3>2, <3>3
    <3> QED BY <3>1, <3>2, <3>4 DEF Quota, One, n
  <2> QED BY <1>1, <2>1, <2>2, <2>3 DEF OnceInv, InQueue
<1> QED BY <1>2, <1>3

\* The service processes a request once, and once more for each of its crashes
\* and each restart of the switch, which makes the client send again.
THEOREM RequestsProcessedOnce == Spec => []ProcessedOnce
<1>1. ProcessedInv /\ [Next]_vars => ProcessedInv'
  <2> SUFFICES ASSUME ProcessedInv, [Next]_vars PROVE ProcessedInv'
    OBVIOUS
  <2>1. BasicInv'
    BY BasicStep DEF ProcessedInv
  <2>2. OnceInv'
    BY <2>1, RpcOnce, RpcSendOnce, EventOnce, ServerPollOnce, WorkerProcessOnce, WorkerEndOnce, FaultOnce
       DEF Next, ServerStep, WorkerStep
  <2> QED BY <2>1, <2>2 DEF ProcessedInv
<1>2. ProcessedInv => ProcessedOnce
  <2> SUFFICES ASSUME ProcessedInv, NEW r \in Rpc PROVE processed[r] <= 1 + crashes + restarts
    BY DEF ProcessedOnce
  <2> DEFINE n == Cardinality(About(r))
  <2>1. n \in Nat /\ processed[r] \in Nat /\ crashes \in Nat /\ restarts \in Nat
        /\ processed[r] + n + One(Unread(r)) + One(ToSend(r)) <= 1 + crashes + restarts
    BY QuotaTerms
  <2>2. One(Unread(r)) \in Nat /\ One(ToSend(r)) \in Nat
    BY DEF One
  <2> HIDE DEF n
  <2> QED BY <2>1, <2>2
<1> QED BY OnceInitial, <1>1, <1>2, PTL DEF Spec
=============================================================================
