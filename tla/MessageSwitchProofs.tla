-------------------------- MODULE MessageSwitchProofs --------------------------
(***************************************************************************)
(* Proofs about the message switch, for any connections, sessions, queue   *)
(* names and requests, with or without a redo-log, crashes included.       *)
(* First its types, the owner index and the wake-ups of pollers.  Then     *)
(* what it promises its clients: that it behaves as a store of mailboxes   *)
(* whose operations take effect one at a time, that a poller is sent       *)
(* everything, that a session keeps the queues it was told of and loses    *)
(* them when its last connection closes, and that a switch that stops      *)
(* comes back with the queues it had.  All of that rests on the mutex: a   *)
(* handler that waits for the redo-log in its critical section finds the   *)
(* directory as it left it.                                                *)
(***************************************************************************)
EXTENDS MessageSwitch, SequenceTheorems, WellFoundedInduction, TLAPS

-----------------------------------------------------------------------------
(* The queue directory *)

\* A queue stores finitely many messages, hence its identifiers are bounded.
Bounded(x) == \E b \in Nat : \A i \in DOMAIN x.q : i <= b

\* A directory of the right type whose owner index agrees with its queues.
Good(qs) ==
    /\ DirectoryOK(qs)
    /\ IndexConsistent(qs)
    /\ \A n \in DOMAIN qs.queues : Bounded(qs.queues[n])

\* The empty directory is good.
LEMMA EmptyGood == Good(EmptyQueues)
  BY DEF Good, DirectoryOK, IndexConsistent, EmptyQueues, EmptyMap, IsMap

\* Creating a queue keeps the index in agreement: its owner, if it has one, is
\* recorded with the queues it had (Directory.add).
LEMMA AddGood ==
  ASSUME NEW qs, Good(qs), NEW o \in Session \cup {None}, NEW n \in Name
  PROVE  Good(DirectoryAdd(qs, o, n))
<1> DEFINE new == DirectoryAdd(qs, o, n)
<1>1. CASE Exists(qs, n)
  BY <1>1 DEF DirectoryAdd
<1>2. CASE ~Exists(qs, n)
  <2>1. new = [queues |-> MapAdd(qs.queues, n, Make(o)),
               by_owner |-> IF o = None THEN qs.by_owner
                            ELSE MapAdd(qs.by_owner, o, OwnedQueues(qs, o) \cup {n})]
    BY <1>2 DEF DirectoryAdd
  <2> HIDE DEF new
  <2>2. QueueOK(Make(o)) /\ Make(o).owner = o
    BY DEF Make, Queue, QueueOK, IsMap, EmptyMap
  <2>b. Bounded(Make(o))
    BY 0 \in Nat DEF Make, Queue, Bounded, EmptyMap
  <2>3. DirectoryOK(new)
    BY <2>1, <2>2, SwitchAssumption
       DEF Good, DirectoryOK, IsMap, MapAdd, OwnedQueues
  <2>4. IndexConsistent(new)
    <3>1. \A p \in DOMAIN new.by_owner : new.by_owner[p] # {}
      BY <2>1 DEF Good, IndexConsistent, MapAdd
    <3>2. \A p \in DOMAIN new.by_owner : \A k \in new.by_owner[p] :
             Exists(new, k) /\ new.queues[k].owner = p
      BY <2>1, <2>2, <1>2 DEF Good, IndexConsistent, MapAdd, OwnedQueues, Exists
    <3>3. \A k \in DOMAIN new.queues : new.queues[k].owner # None =>
             k \in OwnedQueues(new, new.queues[k].owner)
      BY <2>1, <2>2, <1>2 DEF Good, IndexConsistent, MapAdd, OwnedQueues, Exists
    <3> QED BY <3>1, <3>2, <3>3 DEF IndexConsistent
  <2>5. \A k \in DOMAIN new.queues : Bounded(new.queues[k])
    BY <2>1, <2>b DEF Good, MapAdd
  <2> QED BY <2>3, <2>4, <2>5 DEF Good, new
<1> QED BY <1>1, <1>2

\* Removing any set of queues keeps it in agreement, and no owner stays in the
\* index without a queue (Directory.remove).
LEMMA RemoveGood ==
  ASSUME NEW qs, Good(qs), NEW S
  PROVE  Good(RemoveAll(qs, S))
  BY SwitchAssumption DEF Good, DirectoryOK, IsMap, IndexConsistent, RemoveAll, MapRemove,
         OwnedQueues, Exists

\* Putting a queue with the same owner in the place of another leaves owners
\* and index alone: acknowledging, sending, taking an identifier.
LEMMA WithQueueGood ==
  ASSUME NEW qs, Good(qs), NEW n \in DOMAIN qs.queues, NEW x, QueueOK(x),
         Bounded(x), x.owner = qs.queues[n].owner
  PROVE  Good(WithQueue(qs, n, x))
  BY DEF Good, DirectoryOK, IsMap, IndexConsistent, WithQueue, MapAdd,
         OwnedQueues, Exists

\* An acknowledged message leaves a good directory good.
LEMMA AckGood ==
  ASSUME NEW qs, Good(qs), NEW n \in Name, NEW i \in Nat
  PROVE  Good(InternalAck(qs, n, i))
<1>1. CASE Exists(qs, n) /\ i \in DOMAIN qs.queues[n].q
  <2> DEFINE x == qs.queues[n]
             y == Queue(MapRemove(x.q, {i}), x.owner, x.next_id)
  <2>1. QueueOK(x) /\ Bounded(x) /\ n \in DOMAIN qs.queues
    BY <1>1 DEF Good, DirectoryOK, Exists
  <2>2. QueueOK(y) /\ y.owner = x.owner
    BY <2>1 DEF QueueOK, Queue, IsMap, MapRemove
  <2>b. Bounded(y)
    BY <2>1 DEF Bounded, Queue, MapRemove
  <2>3. InternalAck(qs, n, i) = WithQueue(qs, n, y)
    BY <1>1 DEF InternalAck
  <2> QED BY <2>1, <2>2, <2>b, <2>3, WithQueueGood
<1>2. CASE ~(Exists(qs, n) /\ i \in DOMAIN qs.queues[n].q)
  BY <1>2 DEF InternalAck
<1> QED BY <1>1, <1>2

\* Storing a message under any identifier leaves it good.
LEMMA SendGood ==
  ASSUME NEW qs, Good(qs), NEW o \in Session, NEW n \in Name, NEW i \in Nat,
         NEW m \in Msg
  PROVE  Good(InternalSend(qs, o, n, i, m))
<1>1. CASE Exists(qs, n)
  <2> DEFINE x == qs.queues[n]
             e == [origin |-> o, message |-> m]
             y == Queue(MapAdd(x.q, i, e), x.owner, x.next_id)
  <2>1. QueueOK(x) /\ Bounded(x) /\ n \in DOMAIN qs.queues
    BY <1>1 DEF Good, DirectoryOK, Exists
  <2>2. QueueOK(y) /\ y.owner = x.owner
    BY <2>1 DEF QueueOK, Queue, IsMap, MapAdd
  <2>b. Bounded(y)
    <3>1. PICK b \in Nat : \A j \in DOMAIN x.q : j <= b
      BY <2>1 DEF Bounded
    <3>2. DOMAIN y.q = DOMAIN x.q \cup {i} /\ DOMAIN x.q \subseteq Nat
      BY <2>1 DEF Queue, MapAdd, QueueOK, IsMap
    <3>3. CASE i <= b
      BY <3>1, <3>2, <3>3 DEF Bounded
    <3>4. CASE ~(i <= b)
      <4>1. \A j \in DOMAIN y.q : j <= i
        BY <3>1, <3>2, <3>4
      <4> QED BY <4>1 DEF Bounded
    <3> QED BY <3>3, <3>4
  <2>3. InternalSend(qs, o, n, i, m) = WithQueue(qs, n, y)
    BY <1>1 DEF InternalSend
  <2> QED BY <2>1, <2>2, <2>b, <2>3, WithQueueGood
<1>2. CASE ~Exists(qs, n)
  BY <1>2 DEF InternalSend
<1> QED BY <1>1, <1>2

\* So does taking an identifier (get_next_id), which is a number.
LEMMA TakeGood ==
  ASSUME NEW qs, Good(qs), NEW n \in Name, Exists(qs, n)
  PROVE  Good(TakeNextId(qs, n)) /\ qs.queues[n].next_id \in Nat
<1> DEFINE x == qs.queues[n]
           y == Queue(x.q, x.owner, x.next_id + 1)
<1>1. QueueOK(x) /\ Bounded(x) /\ n \in DOMAIN qs.queues
  BY DEF Good, DirectoryOK, Exists
<1>2. QueueOK(y) /\ y.owner = x.owner
  BY <1>1 DEF QueueOK, Queue
<1>3. x.next_id \in Nat
  BY <1>1 DEF QueueOK
<1>4. Bounded(y)
  BY <1>1 DEF Bounded, Queue
<1> QED BY <1>1, <1>2, <1>3, <1>4, WithQueueGood DEF TakeNextId

\* A bounded, non-empty set of naturals has a largest element: the smallest of
\* its upper bounds.
LEMMA LargestExists ==
  ASSUME NEW S \in SUBSET Nat, S # {}, NEW b \in Nat, \A j \in S : j <= b
  PROVE  \E i \in S : \A j \in S : j <= i
<1> DEFINE T == {k \in Nat : \A j \in S : j <= k}
<1>1. T # {} /\ T \subseteq Nat
  OBVIOUS
<1> HIDE DEF T
<1>2. PICK x \in T : \A y \in T : ~(<<y, x>> \in OpToRel(<, Nat))
  BY <1>1, NatLessThanWellFounded, WFMin
<1>3. x \in Nat /\ \A y \in T : ~(y < x)
  BY <1>1, <1>2 DEF OpToRel
<1>4. \A j \in S : j <= x
  BY <1>2 DEF T
<1>5. CASE x \in S
  BY <1>4, <1>5
<1>6. CASE x \notin S
  <2>1. \A j \in S : j \in Nat /\ j <= x - 1
    BY <1>3, <1>4, <1>6
  <2>2. x - 1 \in Nat
    <3>1. PICK j \in S : TRUE
      OBVIOUS
    <3>2. j \in Nat /\ j <= x - 1
      BY <2>1
    <3> QED BY <3>2, <1>3
  <2>3. x - 1 \in T
    BY <2>1, <2>2 DEF T
  <2> QED BY <2>2, <2>3, <1>3
<1> QED BY <1>5, <1>6

\* The counter a loaded queue starts with is a natural number above all its
\* identifiers (t_of_sexp's "valid next_id").
LEMMA NextAboveHighest ==
  ASSUME NEW S \in SUBSET Nat, NEW b \in Nat, \A j \in S : j <= b
  PROVE  1 + HighestId(S) \in Nat /\ \A j \in S : j < 1 + HighestId(S)
<1>1. CASE S = {}
  BY <1>1 DEF HighestId
<1>2. CASE S # {}
  <2>1. \E i \in S : \A j \in S : j <= i
    BY <1>2, LargestExists
  <2>2. HighestId(S) = CHOOSE i \in S : \A j \in S : j <= i
    BY <1>2 DEF HighestId
  <2>3. HighestId(S) \in S /\ \A j \in S : j <= HighestId(S)
    BY <2>1, <2>2
  <2> DEFINE h == HighestId(S)
  <2>4. h \in Nat /\ \A j \in S : j \in Nat /\ j <= h
    BY <2>3
  <2> HIDE DEF h
  <2>5. 1 + h \in Nat /\ \A j \in S : j < 1 + h
    BY <2>4
  <2> QED BY <2>5 DEF h
<1> QED BY <1>1, <1>2

\* Loading a good dump gives a good directory (t_of_sexp).
LEMMA LoadGood ==
  ASSUME NEW qs, Good(qs)
  PROVE  Good(LoadQueues(qs))
<1> DEFINE new == LoadQueues(qs)
           load(n) == Queue(qs.queues[n].q, qs.queues[n].owner,
                            1 + HighestId(DOMAIN qs.queues[n].q))
<1>1. new = [queues |-> [n \in DOMAIN qs.queues |-> load(n)], by_owner |-> qs.by_owner]
  BY DEF LoadQueues
<1> HIDE DEF new
<1>2. ASSUME NEW n \in DOMAIN qs.queues
      PROVE  /\ QueueOK(load(n)) /\ Bounded(load(n))
             /\ load(n).owner = qs.queues[n].owner
  <2>1. QueueOK(qs.queues[n]) /\ Bounded(qs.queues[n])
    BY DEF Good, DirectoryOK
  <2>2. 1 + HighestId(DOMAIN qs.queues[n].q) \in Nat
    BY <2>1, NextAboveHighest DEF QueueOK, Bounded, IsMap
  <2> QED BY <2>1, <2>2 DEF QueueOK, Bounded, Queue
<1> HIDE DEF load
<1>3. DirectoryOK(new)
  BY <1>1, <1>2 DEF Good, DirectoryOK, IsMap
<1>4. IndexConsistent(new)
  BY <1>1, <1>2 DEF Good, IndexConsistent, Exists, OwnedQueues
<1>5. \A n \in DOMAIN new.queues : Bounded(new.queues[n])
  BY <1>1, <1>2
<1> QED BY <1>3, <1>4, <1>5 DEF Good, new

\* Every operation, performed by a handler or replayed from the redo-log, keeps
\* a directory good (do_op).
LEMMA DoOpGood ==
  ASSUME NEW qs, Good(qs), NEW o \in Operation
  PROVE  Good(DoOp(qs, o))
<1>1. CASE o.op = "Add"
  <2>1. o.owner \in Session \cup {None} /\ o.name \in Name
    BY <1>1 DEF Operation
  <2>2. DoOp(qs, o) = DirectoryAdd(qs, o.owner, o.name)
    BY <1>1 DEF DoOp
  <2> QED BY <2>1, <2>2, AddGood
<1>2. CASE o.op = "Remove"
  BY <1>2, RemoveGood DEF DoOp, DirectoryRemove
<1>3. CASE o.op = "Ack"
  <2>1. o.name \in Name /\ o.id \in Nat
    BY <1>3 DEF Operation
  <2>2. DoOp(qs, o) = InternalAck(qs, o.name, o.id)
    BY <1>3 DEF DoOp
  <2> QED BY <2>1, <2>2, AckGood
<1>4. CASE o.op = "Send"
  <2>1. o.origin \in Session /\ o.name \in Name /\ o.id \in Nat /\ o.msg \in Msg
    BY <1>4 DEF Operation
  <2>2. DoOp(qs, o) = InternalSend(qs, o.origin, o.name, o.id, o.msg)
    BY <1>4 DEF DoOp
  <2> QED BY <2>1, <2>2, SendGood
<1>5. o.op \in {"Add", "Remove", "Ack", "Send"}
  BY DEF Operation
<1> QED BY <1>1, <1>2, <1>3, <1>4, <1>5

-----------------------------------------------------------------------------
(* Threads and the mutex *)

ThreadGood(x) == ThreadOK(x) /\ Good(x.newq)

ThreadsGood(t) ==
    /\ IsMap(t, Conn) /\ DOMAIN t = Conn
    /\ \A c \in Conn : ThreadGood(t[c])

Waiters == Seq([conn : Conn, bg : BOOLEAN])

\* A thread made of good parts is good,
LEMMA ThreadIntro ==
  ASSUME NEW pc \in PC, NEW s \in Session \cup {None}, NEW rq \in AnyRequest,
         NEW ops \in SUBSET Operation, NEW newq, Good(newq)
  PROVE  ThreadGood(Thread(pc, s, rq, ops, newq))
  BY DEF ThreadGood, ThreadOK, Thread, Good

\* one between two requests is,
LEMMA ParkedGood ==
  ASSUME NEW pc \in PC
  PROVE  ThreadGood(Parked(pc))
<1>1. NoRequest \in AnyRequest
  BY DEF NoRequest, AnyRequest
<1> QED BY <1>1, EmptyGood, ThreadIntro DEF Parked

\* a good thread has good parts,
LEMMA ThreadElim ==
  ASSUME NEW x, ThreadGood(x)
  PROVE  /\ x.pc \in PC /\ x.session \in Session \cup {None}
         /\ x.rq \in AnyRequest /\ x.ops \in SUBSET Operation /\ Good(x.newq)
  BY DEF ThreadGood, ThreadOK

\* and stays good wherever it moves.
LEMMA AtGood ==
  ASSUME NEW x, ThreadGood(x), NEW pc \in PC
  PROVE  ThreadGood(At(x, pc))
  BY ThreadElim, ThreadIntro DEF At

\* Changing one thread to a good one keeps all threads good.
LEMMA SetGood ==
  ASSUME NEW t, ThreadsGood(t), NEW c \in Conn, NEW x, ThreadGood(x)
  PROVE  ThreadsGood([t EXCEPT ![c] = x])
  BY DEF ThreadsGood, IsMap

\* Waking the blocked Transfers keeps the threads good.
LEMMA BroadcastGood ==
  ASSUME NEW t, ThreadsGood(t)
  PROVE  ThreadsGood(Broadcast(t))
<1>1. "woken" \in PC
  BY DEF PC
<1>2. \A c \in Conn : ThreadGood(At(t[c], "woken"))
  BY <1>1, AtGood DEF ThreadsGood
<1> QED BY <1>2 DEF ThreadsGood, Broadcast, IsMap

\* Waking the blocked Traces does.
LEMMA TraceAddGood ==
  ASSUME NEW t, ThreadsGood(t)
  PROVE  ThreadsGood(TraceAdd(t))
<1>1. "traced" \in PC
  BY DEF PC
<1>2. \A c \in Conn : ThreadGood(At(t[c], "traced"))
  BY <1>1, AtGood DEF ThreadsGood
<1> QED BY <1>2 DEF ThreadsGood, TraceAdd, IsMap

\* Handing the mutex to its first waiter does.
LEMMA HandOverGood ==
  ASSUME NEW t, ThreadsGood(t), NEW w \in Waiters
  PROVE  ThreadsGood(HandOver(t, w))
<1>1. CASE w = <<>> \/ Head(w).bg
  BY <1>1 DEF HandOver
<1>2. CASE ~(w = <<>> \/ Head(w).bg)
  <2> DEFINE d == Head(w).conn
             pc == IF t[d].pc = "locking" THEN "granted" ELSE "regain"
             x  == At(t[d], pc)
  <2>0. w # <<>>
    BY <1>2
  <2>1. Head(w) \in [conn : Conn, bg : BOOLEAN]
    BY <2>0, HeadTailProperties DEF Waiters
  <2>2. d \in Conn /\ pc \in PC
    BY <2>1 DEF PC
  <2>3. ThreadGood(t[d])
    BY <2>2 DEF ThreadsGood
  <2>4. ThreadGood(x)
    BY <2>2, <2>3, AtGood
  <2>5. HandOver(t, w) = [t EXCEPT ![d] = x]
    BY <1>2 DEF HandOver
  <2> HIDE DEF d, x
  <2>6. ThreadsGood([t EXCEPT ![d] = x])
    BY <2>2, <2>4, SetGood
  <2> QED BY <2>5, <2>6
<1> QED BY <1>1, <1>2

\* The mutex keeps its type when it is released.
LEMMA UnlockGood ==
  ASSUME NEW w \in Waiters, Unlock(w)
  PROVE  locked' \in BOOLEAN /\ waiters' \in Waiters
  BY DEF Unlock, Waiters

\* What sessions were told are sets of queue names.
LEMMA PromisedGood ==
  ASSUME promised \in [Session -> SUBSET Name], NEW s, NEW rq, NEW qs, Good(qs)
  PROVE  PromisedAfter(s, rq, qs) \in [Session -> SUBSET Name]
<1>1. Exists(qs, rq.name) => rq.name \in Name
  BY DEF Good, DirectoryOK, IsMap, Exists
<1> QED BY <1>1 DEF PromisedAfter

-----------------------------------------------------------------------------
(* The inductive invariant: TypeOK and IndexAgrees, in three parts *)

\* what the handlers share,
Shared ==
    /\ Good(queues)
    /\ ThreadsGood(th)
    /\ locked \in BOOLEAN
    /\ waiters \in Waiters
    /\ promised \in [Session -> SUBSET Name]

\* what concerns the clients,
Clients ==
    /\ sessions \subseteq Conn \X Session
    /\ DOMAIN cursor = Conn
    /\ seen \in [Conn -> SUBSET (Name \X Nat)]

\* and the process and its files.
Disk ==
    /\ status \in {"down", "replay", "up"}
    /\ Good(dump) /\ Good(onDisk)
    /\ journal \in Seq(Operation)
    /\ FlushOK(flush) /\ Good(flush.acc)
    /\ crashes \in Nat

Inv == Shared /\ Clients /\ Disk

\* The end of a critical section publishes a good directory.
LEMMA FinishGood ==
  ASSUME Shared, NEW c \in Conn, NEW s, NEW rq, NEW t, ThreadsGood(t),
         NEW qs, Good(qs), Finish(c, s, rq, t, qs)
  PROVE  Shared'
<1> DEFINE pc == IF rq.type = "Cleanup" THEN "closed" ELSE "idle"
           t1 == [t EXCEPT ![c] = Parked(pc)]
<1>1. ThreadsGood(t1)
  BY ParkedGood, SetGood DEF PC
<1> HIDE DEF t1
<1>2. ThreadsGood(HandOver(Broadcast(t1), waiters))
  BY <1>1, BroadcastGood, HandOverGood DEF Shared
<1>3. ThreadsGood(th')
  BY <1>2 DEF Finish, t1
<1>4. locked' \in BOOLEAN /\ waiters' \in Waiters
  BY UnlockGood DEF Finish, Shared
<1>5. promised' \in [Session -> SUBSET Name]
  BY PromisedGood DEF Finish, Shared
<1>6. Good(queues')
  BY DEF Finish
<1> QED BY <1>3, <1>4, <1>5, <1>6 DEF Shared, ThreadsGood, ThreadGood, ThreadOK, Good, DirectoryOK,
           IndexConsistent

\* So does performing operations that lead to one.
LEMMA PerformGood ==
  ASSUME Shared, NEW c \in Conn, NEW s \in Session \cup {None}, NEW rq \in AnyRequest,
         NEW t, ThreadsGood(t), NEW qs, Good(qs), NEW ops \in SUBSET Operation,
         NEW newq, Good(newq), Perform(c, s, rq, t, qs, ops, newq)
  PROVE  Shared'
<1>1. CASE Finish(c, s, rq, t, newq)
  BY <1>1, FinishGood
<1>2. CASE /\ queues' = qs
           /\ th' = [t EXCEPT ![c] = Thread("pushing", s, rq, ops, newq)]
           /\ locked' = TRUE
           /\ UNCHANGED <<waiters, promised>>
  <2>1. ThreadGood(Thread("pushing", s, rq, ops, newq))
    BY ThreadIntro DEF PC
  <2>2. ThreadsGood([t EXCEPT ![c] = Thread("pushing", s, rq, ops, newq)])
    BY <2>1, SetGood
  <2>3. ThreadsGood(th') /\ Good(queues')
    BY <1>2, <2>2
  <2> QED BY <1>2, <2>3 DEF Shared, ThreadsGood, ThreadGood, ThreadOK, Good, DirectoryOK,
             IndexConsistent
<1> QED BY <1>1, <1>2 DEF Perform

\* The end of a critical section that performs nothing.
LEMMA NothingGood ==
  ASSUME Shared, NEW c \in Conn, NEW s \in Session \cup {None}, NEW rq \in AnyRequest,
         NEW t, ThreadsGood(t), PerformNothing(c, s, rq, t)
  PROVE  Shared'
<1>1. Good(queues) /\ {} \in SUBSET Operation
  BY DEF Shared
<1> QED BY <1>1, PerformGood DEF PerformNothing

-----------------------------------------------------------------------------
(* The requests *)

\* Login.
LEMMA DoLoginGood ==
  ASSUME Shared, Clients, NEW c \in Conn, NEW s \in Session \cup {None},
         NEW rq \in AnyRequest, DoLogin(c, s, rq)
  PROVE  Shared' /\ Clients'
<1>1. ThreadsGood(th) /\ PerformNothing(c, s, rq, th)
  BY DEF Shared, DoLogin
<1>2. Shared'
  BY <1>1, NothingGood
<1>3. rq.session \in Session
  BY DEF DoLogin, AnyRequest
<1>4. Clients'
  BY <1>3 DEF DoLogin, Clients, clientVars
<1> QED BY <1>2, <1>4

\* List, Diagnostics, and the requests of a connection without a session.
LEMMA DoQueryGood ==
  ASSUME Shared, Clients, NEW c \in Conn, NEW s \in Session \cup {None},
         NEW rq \in AnyRequest, DoQuery(c, s, rq)
  PROVE  Shared' /\ Clients'
<1>1. ThreadsGood(th) /\ PerformNothing(c, None, rq, th)
  BY DEF Shared, DoQuery
<1>2. Shared'
  BY <1>1, NothingGood
<1> QED BY <1>2 DEF DoQuery, Clients

\* Get.
LEMMA DoGetGood ==
  ASSUME Shared, Clients, NEW c \in Conn, NEW s \in Session \cup {None},
         NEW rq \in AnyRequest, DoGet(c, s, rq)
  PROVE  Shared' /\ Clients'
<1>1. ThreadGood(Thread("reading", s, rq, {}, EmptyQueues))
  BY ThreadIntro, EmptyGood DEF PC
<1>2. ThreadsGood(th')
  BY <1>1, SetGood DEF DoGet, Shared
<1>3. Shared'
  BY <1>2 DEF DoGet, Shared, ThreadsGood, ThreadGood, ThreadOK, Good, DirectoryOK, IndexConsistent
<1> QED BY <1>3 DEF DoGet, Clients

\* CreatePersistent and CreateTransient.
LEMMA DoCreateGood ==
  ASSUME Shared, Clients, NEW c \in Conn, NEW s \in Session \cup {None},
         NEW rq \in AnyRequest, DoCreate(c, s, rq)
  PROVE  Shared' /\ Clients'
<1> DEFINE op == OpAdd(IF rq.type = "CreateTransient" THEN s ELSE None, rq.name)
<1>1. rq.name \in Name
  BY DEF DoCreate, AnyRequest
<1>2. op \in Operation
  BY <1>1 DEF OpAdd, Operation
<1>3. ThreadsGood(th) /\ Good(queues) /\ Perform(c, s, rq, th, queues, {op}, DoOp(queues, op))
  BY DEF Shared, DoCreate
<1> HIDE DEF op
<1>4. Shared'
  BY <1>2, <1>3, DoOpGood, PerformGood
<1> QED BY <1>4 DEF DoCreate, Clients

\* Destroy.
LEMMA DoDestroyGood ==
  ASSUME Shared, Clients, NEW c \in Conn, NEW s \in Session \cup {None},
         NEW rq \in AnyRequest, DoDestroy(c, s, rq)
  PROVE  Shared' /\ Clients'
<1> DEFINE op == OpRemove(rq.name)
<1>1. rq.name \in Name
  BY DEF DoDestroy, AnyRequest
<1>2. op \in Operation
  BY <1>1 DEF OpRemove, Operation
<1>3. ThreadsGood(th) /\ Good(queues) /\ Perform(c, s, rq, th, queues, {op}, DoOp(queues, op))
  BY DEF Shared, DoDestroy
<1> HIDE DEF op
<1>4. Shared'
  BY <1>2, <1>3, DoOpGood, PerformGood
<1> QED BY <1>4 DEF DoDestroy, Clients

\* Ack.
LEMMA DoAckGood ==
  ASSUME Shared, Clients, NEW c \in Conn, NEW s \in Session \cup {None},
         NEW rq \in AnyRequest, DoAck(c, s, rq)
  PROVE  Shared' /\ Clients'
<1> DEFINE op == OpAck(rq.name, rq.id)
<1>1. rq.name \in Name /\ rq.id \in Nat
  BY DEF DoAck, AnyRequest
<1>2. op \in Operation
  BY <1>1 DEF OpAck, Operation
<1>3. /\ ThreadsGood(th) /\ Good(queues)
      /\ Perform(c, s, rq, TraceAdd(th), queues, {op}, DoOp(queues, op))
  BY DEF Shared, DoAck
<1> HIDE DEF op
<1>4. Shared'
  BY <1>2, <1>3, DoOpGood, PerformGood, TraceAddGood
<1> QED BY <1>4 DEF DoAck, Clients

\* Send: the identifier is taken from the published directory, the message
\* goes into the new one.
LEMMA DoSendGood ==
  ASSUME Shared, Clients, NEW c \in Conn, NEW s \in Session \cup {None},
         NEW rq \in AnyRequest, DoSend(c, s, rq)
  PROVE  Shared' /\ Clients'
<1>1. ThreadsGood(th) /\ Good(queues)
  BY DEF Shared
<1>2. CASE Exists(queues, rq.name)
  <2> DEFINE id == queues.queues[rq.name].next_id
             op == OpSend(s, rq.name, id, rq.msg)
             qs == TakeNextId(queues, rq.name)
  <2>1. rq.name \in Name /\ rq.msg \in Msg /\ s \in Session
    BY DEF DoSend, AnyRequest
  <2>2. Good(qs) /\ id \in Nat
    BY <1>1, <1>2, <2>1, TakeGood
  <2>3. op \in Operation
    BY <2>1, <2>2 DEF OpSend, Operation
  <2>4. Perform(c, s, rq, TraceAdd(th), qs, {op}, DoOp(qs, op))
    BY <1>2 DEF DoSend
  <2> HIDE DEF op, qs
  <2>5. Shared'
    BY <1>1, <2>2, <2>3, <2>4, DoOpGood, PerformGood, TraceAddGood
  <2> QED BY <2>5 DEF DoSend, Clients
<1>3. CASE ~Exists(queues, rq.name)
  <2>1. PerformNothing(c, s, rq, th)
    BY <1>3 DEF DoSend
  <2>2. Shared'
    BY <1>1, <2>1, NothingGood
  <2> QED BY <2>2 DEF DoSend, Clients
<1> QED BY <1>2, <1>3

\* Transfer: the client sees messages of the directory.
LEMMA DoTransferGood ==
  ASSUME Shared, Clients, NEW c \in Conn, NEW s \in Session \cup {None},
         NEW rq \in AnyRequest, DoTransfer(c, s, rq)
  PROVE  Shared' /\ Clients'
<1> DEFINE ids == TransferMessages(queues, cursor[c], rq.names)
           t   == IF ids = {} THEN th ELSE TraceAdd(th)
<1>1. ThreadsGood(t)
  BY TraceAddGood DEF Shared
<1>2. PerformNothing(c, s, rq, t)
  BY DEF DoTransfer
<1>3. ids \subseteq Name \X Nat
  <2>1. rq.names \subseteq Name
    BY DEF DoTransfer, AnyRequest
  <2>2. \A n \in Name : DOMAIN Find(queues, n).q \subseteq Nat
    BY DEF Shared, Good, DirectoryOK, QueueOK, IsMap, Find, Exists, Make, Queue, EmptyMap
  <2> QED BY <2>1, <2>2 DEF TransferMessages
<1> HIDE DEF ids
<1>4. Shared'
  BY <1>1, <1>2, NothingGood
<1>5. Clients'
  BY <1>3 DEF DoTransfer, Clients, ids
<1> QED BY <1>4, <1>5

\* Trace.
LEMMA DoTraceGood ==
  ASSUME Shared, Clients, NEW c \in Conn, NEW s \in Session \cup {None},
         NEW rq \in AnyRequest, DoTrace(c, s, rq)
  PROVE  Shared' /\ Clients'
<1>1. CASE PerformNothing(c, s, rq, th)
  <2>1. Shared'
    BY <1>1, NothingGood DEF Shared
  <2> QED BY <2>1 DEF DoTrace, Clients
<1>2. CASE /\ th' = HandOver([th EXCEPT ![c] =
                       Thread("tracing", s, rq, {}, EmptyQueues)], waiters)
           /\ Unlock(waiters)
           /\ UNCHANGED <<queues, promised>>
  <2> DEFINE t == [th EXCEPT ![c] = Thread("tracing", s, rq, {}, EmptyQueues)]
  <2>1. ThreadGood(Thread("tracing", s, rq, {}, EmptyQueues))
    BY ThreadIntro, EmptyGood DEF PC
  <2>2. ThreadsGood(t)
    BY <2>1, SetGood DEF Shared
  <2> HIDE DEF t
  <2>3. ThreadsGood(HandOver(t, waiters))
    BY <2>2, HandOverGood DEF Shared
  <2>4. ThreadsGood(th')
    BY <1>2, <2>3 DEF t
  <2>5. locked' \in BOOLEAN /\ waiters' \in Waiters
    BY <1>2, UnlockGood DEF Shared
  <2>6. Shared'
    BY <1>2, <2>4, <2>5 DEF Shared, ThreadsGood, ThreadGood, ThreadOK, Good, DirectoryOK, IndexConsistent
  <2> QED BY <2>6 DEF DoTrace, Clients
<1> QED BY <1>1, <1>2 DEF DoTrace

\* Whatever the request, its critical section keeps the invariant.
LEMMA HandleGood ==
  ASSUME Shared, Clients, NEW c \in Conn, NEW s \in Session \cup {None},
         NEW rq \in AnyRequest, Handle(c, s, rq)
  PROVE  Shared' /\ Clients'
  BY DoLoginGood, DoQueryGood, DoCreateGood, DoDestroyGood, DoAckGood, DoSendGood,
     DoTransferGood, DoTraceGood, DoGetGood DEF Handle

\* The clean-up removes the queues of the session that ended.
LEMMA DoCleanupGood ==
  ASSUME Shared, Clients, NEW c \in Conn, NEW s \in Session \cup {None},
         NEW rq \in AnyRequest, DoCleanup(c, s, rq)
  PROVE  Shared' /\ DOMAIN cursor' = Conn /\ seen' \in [Conn -> SUBSET (Name \X Nat)]
<1> DEFINE ops == {OpRemove(n) : n \in rq.names}
<1>1. rq.names \subseteq Name
  BY DEF DoCleanup, AnyRequest
<1>2. ops \in SUBSET Operation
  BY <1>1 DEF OpRemove, Operation
<1>3. /\ ThreadsGood(th) /\ Good(queues)
      /\ Perform(c, s, rq, th, queues, ops, RemoveAll(queues, rq.names))
  BY DEF Shared, DoCleanup
<1> HIDE DEF ops
<1>4. Shared'
  BY <1>2, <1>3, RemoveGood, PerformGood
<1> QED BY <1>4 DEF DoCleanup, Clients

\* Joining the queue of the mutex keeps it.
LEMMA EnqueueGood ==
  ASSUME Shared, Clients, NEW c \in Conn, NEW s \in Session \cup {None},
         NEW rq \in AnyRequest, Enqueue(c, s, rq)
  PROVE  Shared' /\ DOMAIN cursor' = Conn /\ seen' \in [Conn -> SUBSET (Name \X Nat)]
<1>1. ThreadGood(Thread("locking", s, rq, {}, EmptyQueues))
  BY ThreadIntro, EmptyGood DEF PC
<1>2. ThreadsGood(th')
  BY <1>1, SetGood DEF Enqueue, Shared
<1>3. waiters' \in Waiters
  BY DEF Enqueue, Shared, Waiters
<1>4. Shared'
  BY <1>2, <1>3 DEF Enqueue, Shared, ThreadsGood, ThreadGood, ThreadOK, Good, DirectoryOK,
     IndexConsistent
<1> QED BY <1>4 DEF Enqueue, Clients

\* So does entering at once or joining the queue.
LEMMA LockAndHandleGood ==
  ASSUME Shared, Clients, NEW c \in Conn, NEW s \in Session \cup {None},
         NEW rq \in AnyRequest, LockAndHandle(c, s, rq)
  PROVE  Shared' /\ Clients'
<1>1. CASE Enqueue(c, s, rq) /\ UNCHANGED sessions
  BY <1>1, EnqueueGood DEF Clients
<1>2. CASE Handle(c, s, rq)
  BY <1>2, HandleGood
<1> QED BY <1>1, <1>2 DEF LockAndHandle

\* Releasing the mutex with the threads t, and nothing else.
LEMMA ReleaseGood ==
  ASSUME Shared, NEW t, ThreadsGood(t), NEW w \in Waiters,
         th' = HandOver(t, w), Unlock(w), UNCHANGED <<queues, promised>>
  PROVE  Shared'
<1>1. ThreadsGood(th')
  BY HandOverGood
<1>2. locked' \in BOOLEAN /\ waiters' \in Waiters
  BY UnlockGood
<1> QED BY <1>1, <1>2 DEF Shared, ThreadsGood, ThreadGood, ThreadOK, Good, DirectoryOK,
           IndexConsistent

\* Changing one thread, and nothing else.
LEMMA MoveGood ==
  ASSUME Shared, NEW c \in Conn, NEW x, ThreadGood(x),
         th' = [th EXCEPT ![c] = x], waiters' \in Waiters,
         UNCHANGED <<queues, locked, promised>>
  PROVE  Shared'
<1>1. ThreadsGood(th')
  BY SetGood DEF Shared
<1> QED BY <1>1 DEF Shared, ThreadsGood, ThreadGood, ThreadOK, Good, DirectoryOK,
           IndexConsistent

\* An exception in the critical section leaves the directory as it was.
LEMMA AbandonGood ==
  ASSUME Shared, NEW c \in Conn, Abandon(c)
  PROVE  Shared'
<1> DEFINE pc == IF th[c].rq.type = "Cleanup" THEN "closed" ELSE "idle"
           t  == [th EXCEPT ![c] = Parked(pc)]
<1>1. ThreadsGood(t)
  BY ParkedGood, SetGood DEF PC, Shared
<1>2. th' = HandOver(t, waiters) /\ Unlock(waiters) /\ UNCHANGED <<queues, promised>>
  BY DEF Abandon
<1> HIDE DEF t
<1> QED BY <1>1, <1>2, ReleaseGood DEF Shared

-----------------------------------------------------------------------------
(* The actions *)

\* A thread's fields have their types.
LEMMA ThreadFields ==
  ASSUME Shared, NEW c \in Conn
  PROVE  /\ ThreadGood(th[c])
         /\ th[c].session \in Session \cup {None} /\ th[c].rq \in AnyRequest
         /\ th[c].ops \in SUBSET Operation /\ Good(th[c].newq)
<1>1. ThreadGood(th[c])
  BY DEF Shared, ThreadsGood
<1> QED BY <1>1, ThreadElim

\* The session of a connection is a session, or none.
LEMMA GetSessionType ==
  ASSUME NEW c
  PROVE  GetSession(c) \in Session \cup {None}
  BY DEF GetSession, SessionsOf

\* What a client may ask for is a request.
LEMMA AskableType ==
  ASSUME Clients, NEW c \in Conn, NEW rq \in Askable(c)
  PROVE  rq \in AnyRequest
<1>1. CASE rq \in Request[c] /\ rq.type # "Ack"
  BY <1>1, SwitchAssumption DEF AnyRequest
<1>2. CASE \E m \in seen[c] : rq = [type |-> "Ack", name |-> m[1], id |-> m[2]]
  BY <1>2 DEF AnyRequest, Clients
<1> QED BY <1>1, <1>2 DEF Askable

\* A connection opens.
LEMMA ConnectGood ==
  ASSUME Inv, NEW c \in Conn, Connect(c)
  PROVE  Shared' /\ Clients'
<1>1. ThreadGood(Parked("idle"))
  BY ParkedGood DEF PC
<1>2. Shared'
  BY <1>1, MoveGood DEF Connect, Inv, Shared
<1> QED BY <1>2 DEF Connect, Inv, Clients

\* A request arrives: it blocks, queues for the mutex, or is handled.
LEMMA ArriveGood ==
  ASSUME Inv, NEW c \in Conn, NEW rq \in Askable(c), Arrive(c, rq)
  PROVE  Shared' /\ Clients'
<1> DEFINE s == GetSession(c)
<1>1. s \in Session \cup {None} /\ rq \in AnyRequest
  BY GetSessionType, AskableType DEF Inv
<1> HIDE DEF s
<1>2. CASE /\ th' = [th EXCEPT ![c] = Thread("waiting", s, rq, {}, EmptyQueues)]
           /\ UNCHANGED <<queues, sessions, locked, waiters, cursor, seen, promised>>
  <2>1. ThreadGood(Thread("waiting", s, rq, {}, EmptyQueues))
    BY <1>1, ThreadIntro, EmptyGood DEF PC
  <2>2. Shared'
    BY <1>2, <2>1, MoveGood DEF Inv, Shared
  <2> QED BY <1>2, <2>2 DEF Inv, Clients
<1>3. CASE LockAndHandle(c, s, rq)
  BY <1>1, <1>3, LockAndHandleGood DEF Inv
<1> QED BY <1>2, <1>3 DEF Arrive, s

\* A blocked Transfer is woken or times out.
LEMMA WakeGood ==
  ASSUME Inv, NEW c \in Conn, Wake(c) \/ TransferTimeout(c)
  PROVE  Shared' /\ Clients'
<1>1. CASE LockAndHandle(c, th[c].session, th[c].rq)
  BY <1>1, ThreadFields, LockAndHandleGood DEF Inv
<1>2. CASE /\ th' = [th EXCEPT ![c] = At(th[c], "waiting")]
           /\ UNCHANGED <<queues, sessions, locked, waiters, cursor, seen, promised>>
  <2>1. ThreadGood(At(th[c], "waiting"))
    BY ThreadFields, AtGood DEF PC, Inv
  <2>2. Shared'
    BY <1>2, <2>1, MoveGood DEF Inv, Shared
  <2> QED BY <1>2, <2>2 DEF Inv, Clients
<1> QED BY <1>1, <1>2 DEF Wake, TransferTimeout

\* A handler, or a clean-up, gets the mutex.
LEMMA ResumeGood ==
  ASSUME Inv, NEW c \in Conn, Resume(c)
  PROVE  Shared' /\ Clients'
<1>1. CASE Handle(c, th[c].session, th[c].rq)
  BY <1>1, ThreadFields, HandleGood DEF Inv
<1>2. CASE DoCleanup(c, th[c].session, th[c].rq) /\ UNCHANGED sessions
  BY <1>2, ThreadFields, DoCleanupGood DEF Inv, Clients
<1> QED BY <1>1, <1>2 DEF Resume

\* The file of a Get was read.
LEMMA ReadGood ==
  ASSUME Inv, NEW c \in Conn, Read(c)
  PROVE  Shared' /\ Clients'
<1>1. CASE PerformNothing(c, th[c].session, th[c].rq, th)
  <2>1. Shared'
    BY <1>1, ThreadFields, NothingGood DEF Inv, Shared
  <2> QED BY <2>1 DEF Read, Inv, Clients
<1>2. CASE Abandon(c)
  BY <1>2, AbandonGood DEF Read, Inv, Clients
<1> QED BY <1>1, <1>2 DEF Read

\* An operation is pushed to the redo-log.
LEMMA PushGood ==
  ASSUME Inv, NEW c \in Conn, NEW op \in th[c].ops, Push(c, op)
  PROVE  Shared' /\ Clients' /\ journal' \in Seq(Operation)
<1>1. op \in Operation
  BY ThreadFields DEF Inv
<1>2. journal' \in Seq(Operation)
  BY <1>1 DEF Push, Inv, Disk
<1>3. CASE Finish(c, th[c].session, th[c].rq, th, th[c].newq)
  <2>1. Shared'
    BY <1>3, ThreadFields, FinishGood DEF Inv, Shared
  <2> QED BY <1>2, <2>1 DEF Push, Inv, Clients
<1>4. CASE /\ th' = [th EXCEPT ![c] = Thread(th[c].pc, th[c].session, th[c].rq,
                                             th[c].ops \ {op}, th[c].newq)]
           /\ UNCHANGED <<queues, locked, waiters, promised>>
  <2>1. ThreadGood(Thread(th[c].pc, th[c].session, th[c].rq, th[c].ops \ {op}, th[c].newq))
    BY ThreadFields, ThreadElim, ThreadIntro DEF Inv
  <2>2. Shared'
    BY <1>4, <2>1, MoveGood DEF Inv, Shared
  <2> QED BY <1>2, <2>2 DEF Push, Inv, Clients
<1> QED BY <1>3, <1>4 DEF Push

\* A push fails.
LEMMA PushFailGood ==
  ASSUME Inv, NEW c \in Conn, PushFail(c)
  PROVE  Shared' /\ Clients'
  BY AbandonGood DEF PushFail, Inv, Clients

\* A Trace that was woken wants the mutex back,
LEMMA TraceRelockGood ==
  ASSUME Inv, NEW c \in Conn, TraceRelock(c)
  PROVE  Shared' /\ Clients'
<1>1. CASE /\ th' = [th EXCEPT ![c] = At(th[c], "relock")]
           /\ waiters' = Append(waiters, [conn |-> c, bg |-> FALSE])
           /\ UNCHANGED <<queues, sessions, locked, cursor, seen, promised>>
  <2>1. ThreadGood(At(th[c], "relock"))
    BY ThreadFields, AtGood DEF PC, Inv
  <2>2. waiters' \in Waiters
    BY <1>1 DEF Inv, Shared, Waiters
  <2>3. Shared'
    BY <1>1, <2>1, <2>2, MoveGood DEF Inv
  <2> QED BY <1>1, <2>3 DEF Inv, Clients
<1>2. CASE DoTrace(c, th[c].session, th[c].rq)
  BY <1>2, ThreadFields, DoTraceGood DEF Inv
<1> QED BY <1>1, <1>2 DEF TraceRelock

\* and gets it.
LEMMA TraceResumeGood ==
  ASSUME Inv, NEW c \in Conn, TraceResume(c)
  PROVE  Shared' /\ Clients'
  BY ThreadFields, DoTraceGood DEF Inv, TraceResume

\* Cancelling a waiter leaves a queue of waiters.
LEMMA WithoutType ==
  ASSUME NEW D, NEW w \in Seq(D), NEW x
  PROVE  Without(w, x) \in Seq(D)
<1> DEFINE i == CHOOSE i \in DOMAIN w : w[i] = x
           f == [j \in 1 .. Len(w) - 1 |-> IF j < i THEN w[j] ELSE w[j + 1]]
<1>1. Without(w, x) = f
  BY DEF Without
<1> HIDE DEF i
<1>2. Len(w) \in Nat /\ \A j \in 1 .. Len(w) : w[j] \in D
  BY LenProperties
<1>3. \E n \in Nat : f \in [1 .. n -> D]
  <2>1. CASE Len(w) = 0
    <3>1. f \in [1 .. 0 -> D]
      BY <2>1
    <3> QED BY <3>1
  <2>2. CASE Len(w) # 0
    <3>1. Len(w) - 1 \in Nat /\ f \in [1 .. Len(w) - 1 -> D]
      BY <1>2, <2>2
    <3> QED BY <3>1
  <2> QED BY <2>1, <2>2
<1> HIDE DEF f
<1>4. f \in Seq(D)
  BY <1>3, SeqDef
<1> QED BY <1>1, <1>4

\* A Trace times out.
LEMMA TraceTimeoutGood ==
  ASSUME Inv, NEW c \in Conn, TraceTimeout(c)
  PROVE  Shared' /\ Clients'
<1>1. PICK w : /\ w \in {Without(waiters, [conn |-> c, bg |-> FALSE]),
                          Append(waiters, [conn |-> c, bg |-> TRUE]), waiters}
               /\ th' = HandOver(Broadcast([th EXCEPT ![c] = Parked("idle")]), w)
               /\ Unlock(w)
  BY DEF TraceTimeout
<1> DEFINE e == [conn |-> c, bg |-> TRUE]
           D == [conn : Conn, bg : BOOLEAN]
<1>2. waiters \in Seq(D) /\ e \in D
  BY DEF Inv, Shared, Waiters
<1>3. Append(waiters, e) \in Seq(D)
  BY <1>2
<1>4. Without(waiters, [conn |-> c, bg |-> FALSE]) \in Seq(D)
  BY <1>2, WithoutType
<1>5. w \in Waiters
  BY <1>1, <1>2, <1>3, <1>4 DEF Waiters
<1> DEFINE t == [th EXCEPT ![c] = Parked("idle")]
<1>6. ThreadsGood(t)
  BY ParkedGood, SetGood DEF PC, Inv, Shared
<1> HIDE DEF t
<1>7. ThreadsGood(Broadcast(t))
  BY <1>6, BroadcastGood
<1>8. th' = HandOver(Broadcast(t), w) /\ UNCHANGED <<queues, promised>>
  BY <1>1 DEF t, TraceTimeout
<1>9. Shared'
  BY <1>1, <1>5, <1>7, <1>8, ReleaseGood DEF Inv
<1> QED BY <1>9 DEF TraceTimeout, Inv, Clients

\* A connection closes, and the session's queues with it if it was the last.
LEMMA CloseGood ==
  ASSUME Inv, NEW c \in Conn, Close(c)
  PROVE  Shared' /\ Clients'
<1> DEFINE s == GetSession(c)
           rq == [type |-> "Cleanup", names |-> OwnedQueues(queues, s)]
<1>1. s \in Session \cup {None}
  BY GetSessionType
<1>2. sessions' \subseteq Conn \X Session
  BY DEF Close, Inv, Clients
<1>3. OwnedQueues(queues, s) \subseteq Name
  BY DEF OwnedQueues, Inv, Shared, Good, DirectoryOK
<1>4. rq \in AnyRequest
  BY <1>3 DEF AnyRequest
<1>5. \/ /\ th' = [th EXCEPT ![c] = Parked("closed")]
         /\ UNCHANGED <<queues, locked, waiters, cursor, seen, promised>>
      \/ Enqueue(c, s, rq)
      \/ DoCleanup(c, s, rq)
  BY DEF Close
<1> HIDE DEF s, rq
<1>6. CASE /\ th' = [th EXCEPT ![c] = Parked("closed")]
           /\ UNCHANGED <<queues, locked, waiters, cursor, seen, promised>>
  <2>1. ThreadGood(Parked("closed"))
    BY ParkedGood DEF PC
  <2>2. Shared'
    BY <1>6, <2>1, MoveGood DEF Inv, Shared
  <2> QED BY <1>2, <1>6, <2>2 DEF Inv, Clients
<1>7. CASE Enqueue(c, s, rq)
  BY <1>1, <1>2, <1>4, <1>7, EnqueueGood DEF Inv, Clients
<1>8. CASE DoCleanup(c, s, rq)
  BY <1>1, <1>2, <1>4, <1>8, DoCleanupGood DEF Inv, Clients
<1> QED BY <1>5, <1>6, <1>7, <1>8

-----------------------------------------------------------------------------
(* The redo-log and the life of the process *)

\* The disk's part of the invariant from its pieces.
LEMMA DiskIntro ==
  ASSUME Disk, status' \in {"down", "replay", "up"}, Good(dump'), Good(onDisk'),
         journal' \in Seq(Operation), FlushOK(flush'), Good(flush'.acc), crashes' \in Nat
  PROVE  Disk'
  BY DEF Disk, Good, DirectoryOK, IndexConsistent, FlushOK, FlushState

\* An idle consumer is a good one.
LEMMA FlushIdleGood == FlushOK(FlushIdle) /\ Good(FlushIdle.acc)
<1>1. FlushIdle.acc = EmptyQueues /\ DirectoryOK(EmptyQueues)
  BY EmptyGood DEF FlushIdle, FlushState, Good
<1> QED BY <1>1, EmptyGood DEF FlushIdle, FlushState, FlushOK

\* A step that leaves a part's variables alone leaves the part true.
LEMMA SharedSame ==
  ASSUME Shared, UNCHANGED <<queues, th, locked, waiters, promised>>
  PROVE  Shared'
  BY DEF Shared, ThreadsGood, ThreadGood, ThreadOK, Good, DirectoryOK, IndexConsistent

\* The same of the clients,
LEMMA ClientsSame ==
  ASSUME Clients, UNCHANGED <<sessions, cursor, seen>>
  PROVE  Clients'
  BY DEF Clients

\* and of the disk.
LEMMA DiskSame ==
  ASSUME Disk, UNCHANGED <<status, dump, journal, onDisk, flush, crashes>>
  PROVE  Disk'
  BY DEF Disk, FlushOK, Good, DirectoryOK, IndexConsistent, FlushState

\* Starting loads the dump, and loading a good directory gives a good one.
LEMMA StartGood ==
  ASSUME Inv, Start
  PROVE  Inv'
<1>1. Good(onDisk')
  BY LoadGood DEF Start, Inv, Disk
<1>2. /\ status' \in {"down", "replay", "up"}
      /\ UNCHANGED <<dump, journal, flush, crashes>>
      /\ UNCHANGED <<queues, sessions, locked, waiters, th, cursor, seen, promised>>
  BY DEF Start
<1>3. Disk'
  BY <1>1, <1>2, DiskIntro DEF Inv, Disk
<1> QED BY <1>2, <1>3, SharedSame, ClientsSame DEF Inv

\* The directory the switch goes up with is the replayed one.
LEMMA ReplayedGood ==
  ASSUME Inv, Replayed
  PROVE  Inv'
<1>1. /\ status' = "up" /\ queues' = onDisk
      /\ UNCHANGED <<sessions, locked, waiters, th, cursor, seen, promised>>
      /\ UNCHANGED <<dump, journal, onDisk, flush, crashes>>
  BY DEF Replayed, diskVars
<1>2. Disk'
  BY <1>1, DiskIntro DEF Inv, Disk
<1>3. Good(queues') /\ ThreadsGood(th')
  BY <1>1 DEF Inv, Disk, Shared
<1>4. Shared'
  BY <1>1, <1>3 DEF Inv, Shared, ThreadsGood, ThreadGood, ThreadOK, Good, DirectoryOK,
     IndexConsistent
<1> QED BY <1>1, <1>2, <1>4, ClientsSame DEF Inv

\* A crash empties the memory and leaves the files.
LEMMA CrashGood ==
  ASSUME Inv, Crash
  PROVE  Inv'
<1>1. /\ status' = "down" /\ queues' = EmptyQueues /\ sessions' = {}
      /\ locked' = FALSE /\ waiters' = <<>>
      /\ th' = [c \in Conn |-> IF th[c].pc = "new" THEN th[c] ELSE Parked("closed")]
      /\ onDisk' = EmptyQueues /\ flush' = FlushIdle
      /\ crashes' = crashes + 1
      /\ promised' = [s \in Session |-> {}]
      /\ UNCHANGED <<cursor, seen, dump, journal>>
  BY DEF Crash
<1>2. \A c \in Conn : ThreadGood(th[c]) /\ ThreadGood(Parked("closed"))
  BY ParkedGood DEF PC, Inv, Shared, ThreadsGood
<1>3. ThreadsGood(th')
  BY <1>1, <1>2 DEF ThreadsGood, IsMap
<1>4. Good(queues') /\ Good(onDisk')
  BY <1>1, EmptyGood
<1>5. waiters' \in Waiters /\ promised' \in [Session -> SUBSET Name]
  BY <1>1 DEF Waiters
<1>6. Shared'
  BY <1>1, <1>3, <1>4, <1>5 DEF Shared, ThreadsGood, ThreadGood, ThreadOK, Good,
     DirectoryOK, IndexConsistent
<1>7. Clients'
  BY <1>1 DEF Inv, Clients
<1>8. FlushOK(flush') /\ Good(flush'.acc) /\ crashes' \in Nat
  BY <1>1, FlushIdleGood DEF Inv, Disk
<1>9. Disk'
  BY <1>1, <1>4, <1>8, DiskIntro DEF Inv, Disk
<1> QED BY <1>6, <1>7, <1>9 DEF Inv

\* The consumer of the redo-log keeps the dump, what it believes the dump to
\* be, and its accumulator good: it replays operations only.
LEMMA FlushGood ==
  ASSUME Disk, Flush
  PROVE  Disk'
<1>1. CASE FlushBegin
  <2>1. /\ flush' = FlushState("apply", onDisk, journal, Len(journal))
        /\ UNCHANGED <<status, dump, journal, onDisk, crashes>>
    BY <1>1 DEF FlushBegin
  <2>2. Len(journal) \in Nat
    BY DEF Disk
  <2>3. FlushOK(flush') /\ Good(flush'.acc)
    BY <2>1, <2>2 DEF FlushOK, FlushState, Disk, Good
  <2> QED BY <2>1, <2>3, DiskIntro DEF Disk
<1>2. CASE FlushApply
  <2> DEFINE new == DoOp(flush.acc, Head(flush.todo))
  <2>1. /\ flush.todo # <<>>
        /\ flush' = FlushState("apply", new, Tail(flush.todo), flush.size)
        /\ UNCHANGED <<status, dump, journal, onDisk, crashes>>
    BY <1>2 DEF FlushApply
  <2>2. flush.todo \in Seq(Operation) /\ flush.size \in Nat
    BY DEF Disk, FlushOK
  <2>3. Head(flush.todo) \in Operation /\ Tail(flush.todo) \in Seq(Operation)
    BY <2>1, <2>2
  <2>4. Good(new)
    BY <2>3, DoOpGood DEF Disk
  <2> HIDE DEF new
  <2>5. FlushOK(flush') /\ Good(flush'.acc)
    BY <2>1, <2>2, <2>3, <2>4 DEF FlushOK, FlushState, Good
  <2> QED BY <2>1, <2>5, DiskIntro DEF Disk
<1>3. CASE FlushSave
  <2>1. /\ dump' = flush.acc /\ onDisk' = flush.acc
        /\ flush' = FlushState("saved", flush.acc, <<>>, flush.size)
        /\ UNCHANGED <<status, journal, crashes>>
    BY <1>3 DEF FlushSave
  <2>2. FlushOK(flush') /\ Good(flush'.acc)
    BY <2>1 DEF FlushOK, FlushState, Disk, Good
  <2> QED BY <2>1, <2>2, DiskIntro DEF Disk
<1>4. CASE FlushAdvance
  <2>1. /\ journal' = SubSeq(journal, flush.size + 1, Len(journal))
        /\ flush' = FlushIdle
        /\ UNCHANGED <<status, dump, onDisk, crashes>>
    BY <1>4 DEF FlushAdvance
  <2>2. journal \in Seq(Operation) /\ flush.size \in Nat
    BY DEF Disk, FlushOK
  <2>3. journal' \in Seq(Operation)
    BY <2>1, <2>2
  <2> QED BY <2>1, <2>3, FlushIdleGood, DiskIntro DEF Disk
<1> QED BY <1>1, <1>2, <1>3, <1>4 DEF Flush

\* Whatever an action changes, the three parts together are the invariant.
THEOREM InvInductive == Inv /\ [Next]_vars => Inv'
<1> SUFFICES ASSUME Inv, [Next]_vars PROVE Inv'
  OBVIOUS
<1>1. CASE UNCHANGED vars
  BY <1>1, SharedSame, ClientsSame, DiskSame DEF vars, Inv
<1>2. ASSUME NEW c \in Conn, Connect(c)
      PROVE  Inv'
  BY <1>2, ConnectGood, DiskSame DEF Connect, diskVars, Inv
<1>3. ASSUME NEW c \in Conn, NEW rq \in Askable(c), Arrive(c, rq)
      PROVE  Inv'
  BY <1>3, ArriveGood, DiskSame DEF Arrive, diskVars, Inv
<1>4. ASSUME NEW c \in Conn, ThreadStep(c)
      PROVE  Inv'
  <2>1. Shared' /\ Clients'
    BY <1>4, WakeGood, ResumeGood, ReadGood, TraceRelockGood, TraceResumeGood
       DEF ThreadStep
  <2>2. UNCHANGED <<status, dump, journal, onDisk, flush, crashes>>
    BY <1>4 DEF ThreadStep, Wake, Resume, Read, TraceRelock, TraceResume, diskVars
  <2> QED BY <2>1, <2>2, DiskSame DEF Inv
<1>5. ASSUME NEW c \in Conn, PushStep(c)
      PROVE  Inv'
  <2>1. PICK op \in th[c].ops : Push(c, op)
    BY <1>5 DEF PushStep
  <2>2. Shared' /\ Clients' /\ journal' \in Seq(Operation)
    BY <2>1, PushGood
  <2>3. UNCHANGED <<status, dump, onDisk, flush, crashes>>
    BY <2>1 DEF Push
  <2>4. Disk'
    BY <2>2, <2>3, DiskIntro DEF Inv, Disk
  <2> QED BY <2>2, <2>4 DEF Inv
<1>6. ASSUME NEW c \in Conn,
             TransferTimeout(c) \/ TraceTimeout(c) \/ PushFail(c) \/ Close(c)
      PROVE  Inv'
  <2>1. Shared' /\ Clients'
    BY <1>6, WakeGood, TraceTimeoutGood, PushFailGood, CloseGood
  <2>2. UNCHANGED <<status, dump, journal, onDisk, flush, crashes>>
    BY <1>6 DEF TransferTimeout, TraceTimeout, PushFail, Close, diskVars
  <2> QED BY <2>1, <2>2, DiskSame DEF Inv
<1>7. CASE Flush
  <2>1. UNCHANGED <<queues, sessions, locked, waiters, th, cursor, seen, promised>>
    BY <1>7 DEF Flush, FlushBegin, FlushApply, FlushSave, FlushAdvance
  <2> QED BY <1>7, <2>1, FlushGood, SharedSame, ClientsSame DEF Inv
<1>8. CASE Start
  BY <1>8, StartGood
<1>9. CASE Replayed
  BY <1>9, ReplayedGood
<1>10. CASE Crash
  BY <1>10, CrashGood
<1> QED BY <1>1, <1>2, <1>3, <1>4, <1>5, <1>6, <1>7, <1>8, <1>9, <1>10 DEF Next

\* The initial state: no queue, no session, an empty statedir.
THEOREM InvInitial == Init => Inv
<1> SUFFICES ASSUME Init PROVE Inv
  OBVIOUS
<1>a. ThreadGood(Parked("new"))
  BY ParkedGood DEF PC
<1>1. ThreadsGood(th)
  BY <1>a DEF Init, ThreadsGood, IsMap
<1>b. waiters \in Waiters
  BY DEF Init, Waiters
<1>2. Shared
  BY <1>1, <1>b, EmptyGood DEF Init, Shared
<1>3. Clients
  BY DEF Init, Clients
<1>4. Disk
  BY EmptyGood, FlushIdleGood DEF Init, Disk
<1> QED BY <1>2, <1>3, <1>4 DEF Inv

\* The invariant says that every variable has its type,
THEOREM InvTypeOK == Inv => TypeOK
  BY DEF Inv, Shared, Clients, Disk, TypeOK, ThreadsGood, ThreadGood, Good, Waiters, IsMap

\* and that every copy of the directory has a consistent index.
THEOREM InvIndexAgrees == Inv => IndexAgrees
  BY DEF Inv, Shared, Disk, IndexAgrees, ThreadsGood, ThreadGood, Good

\* Type correctness of the daemon, for any number of connections, sessions,
\* queues and messages, with or without a redo-log, whatever crashes.
THEOREM TypeCorrect == Spec => []TypeOK
  BY InvInitial, InvInductive, InvTypeOK, PTL DEF Spec

\* The owner index agrees with the queues in every copy of the directory, in
\* memory, being performed, in the dump and being flushed: Directory.remove
\* never misses its owner, and a session's end finds all its queues, after any
\* crash too.
THEOREM IndexCorrect == Spec => []IndexAgrees
  BY InvInitial, InvInductive, InvIndexAgrees, PTL DEF Spec
-----------------------------------------------------------------------------
(* No Transfer misses its message.  A blocked Transfer has looked at the   *)
(* directory before it waits, and Lwt does not switch threads in between.  *)
(* So the argument is about what the others do: a step either leaves the   *)
(* messages of the directory as they are, or it broadcasts, after which    *)
(* nobody is blocked.  The one step that replaces the directory without a  *)
(* broadcast is the end of the redo-log's replay, and then no connection   *)
(* is open yet.                                                            *)

\* No thread of t is blocked in a Transfer.
Silent(t) == \A d \in Conn : t[d].pc # "waiting"

\* Whoever is blocked in t is blocked now, in the same Transfer.
Kept(t) == \A d \in Conn : t[d].pc = "waiting" =>
              th[d].pc = "waiting" /\ t[d].rq = th[d].rq

\* Two directories hold messages under the same names and identifiers.
SameMessages(p, q) == \A n : DOMAIN Find(p, n).q = DOMAIN Find(q, n).q

\* What a step of c's thread does: it leaves nobody blocked, or blocks nobody
\* and leaves the messages and the other clients' cursors alone.
Harmless(c) ==
    \/ Silent(th')
    \/ /\ Kept(th') /\ th'[c].pc # "waiting"
       /\ SameMessages(queues, queues')
       /\ \A d \in Conn \ {c} : cursor'[d] = cursor[d]

\* Before the switch is up no connection is open.
Quiet == status # "up" => \A c \in Conn : th[c].pc \in {"new", "closed"}

\* The inductive invariant.
WakeInv == Inv /\ Quiet /\ NoLostWakeup

-----------------------------------------------------------------------------
(* Messages *)

\* A Transfer finds something or nothing alike in directories with the same
\* messages.
LEMMA SameTransfer ==
  ASSUME NEW p, NEW q, SameMessages(p, q), NEW from, NEW names
  PROVE  TransferMessages(p, from, names) = TransferMessages(q, from, names)
  BY DEF SameMessages, TransferMessages

\* Taking an identifier stores no message.
LEMMA TakeSame ==
  ASSUME NEW qs, NEW n, Exists(qs, n)
  PROVE  SameMessages(qs, TakeNextId(qs, n))
  BY DEF SameMessages, TakeNextId, WithQueue, MapAdd, Find, Exists, Queue

-----------------------------------------------------------------------------
(* Threads *)

\* A broadcast leaves nobody blocked.
LEMMA BroadcastSilent ==
  ASSUME NEW t
  PROVE  Silent(Broadcast(t))
  BY DEF Silent, Broadcast, At, Thread

\* Handing the mutex over blocks nobody in a Transfer.
LEMMA HandOverBlocksNobody ==
  ASSUME NEW t, ThreadsGood(t), NEW w \in Waiters, NEW d \in Conn,
         HandOver(t, w)[d].pc = "waiting"
  PROVE  HandOver(t, w)[d] = t[d]
<1>1. CASE w = <<>> \/ Head(w).bg
  BY <1>1 DEF HandOver
<1>2. CASE ~(w = <<>> \/ Head(w).bg)
  <2> DEFINE e  == Head(w).conn
             pc == IF t[e].pc = "locking" THEN "granted" ELSE "regain"
  <2>1. HandOver(t, w) = [t EXCEPT ![e] = At(t[e], pc)]
    BY <1>2 DEF HandOver
  <2>2. At(t[e], pc).pc # "waiting"
    BY DEF At, Thread
  <2>3. DOMAIN t = Conn
    BY DEF ThreadsGood
  <2> HIDE DEF e
  <2>4. CASE d = e
    BY <2>1, <2>2, <2>3, <2>4
  <2>5. CASE d # e
    BY <2>1, <2>3, <2>5
  <2> QED BY <2>4, <2>5
<1> QED BY <1>1, <1>2

\* The end of a critical section leaves nobody blocked.
LEMMA FinishSilent ==
  ASSUME Shared, NEW c \in Conn, NEW s, NEW rq, NEW t, ThreadsGood(t), NEW qs,
         Finish(c, s, rq, t, qs)
  PROVE  Silent(th')
<1> DEFINE pc == IF rq.type = "Cleanup" THEN "closed" ELSE "idle"
           t1 == [t EXCEPT ![c] = Parked(pc)]
<1>1. ThreadsGood(t1)
  BY ParkedGood, SetGood DEF PC
<1>2. th' = HandOver(Broadcast(t1), waiters)
  BY DEF Finish
<1> HIDE DEF t1
<1>3. ThreadsGood(Broadcast(t1)) /\ Silent(Broadcast(t1))
  BY <1>1, BroadcastGood, BroadcastSilent
<1>4. waiters \in Waiters
  BY DEF Shared
<1> QED BY <1>2, <1>3, <1>4, HandOverBlocksNobody DEF Silent

\* Performing operations: the pushes leave the published messages alone, the
\* end broadcasts.
LEMMA PerformHarmless ==
  ASSUME Shared, NEW c \in Conn, NEW s, NEW rq, NEW t, ThreadsGood(t), Kept(t),
         NEW qs, SameMessages(queues, qs), NEW ops, NEW newq,
         Perform(c, s, rq, t, qs, ops, newq), UNCHANGED cursor
  PROVE  Harmless(c)
<1>1. CASE Finish(c, s, rq, t, newq)
  BY <1>1, FinishSilent DEF Harmless
<1>2. CASE queues' = qs /\ th' = [t EXCEPT ![c] = Thread("pushing", s, rq, ops, newq)]
  <2>1. th'[c].pc # "waiting"
    BY <1>2 DEF ThreadsGood, Thread
  <2>2. Kept(th')
    BY <1>2, <2>1 DEF Kept, ThreadsGood
  <2> QED BY <1>2, <2>1, <2>2 DEF Harmless
<1> QED BY <1>1, <1>2 DEF Perform

\* Performing nothing still broadcasts, whatever happens to cursors.
LEMMA NothingSilent ==
  ASSUME Shared, NEW c \in Conn, NEW s, NEW rq, NEW t, ThreadsGood(t),
         PerformNothing(c, s, rq, t)
  PROVE  Silent(th')
<1>1. Finish(c, s, rq, t, queues)
  BY DEF PerformNothing, Perform
<1> QED BY <1>1, FinishSilent

\* The threads as they are, and with the blocked Traces woken, are kept.
LEMMA KeptNow ==
  ASSUME Shared
  PROVE  /\ Kept(th) /\ Kept(TraceAdd(th)) /\ SameMessages(queues, queues)
         /\ ThreadsGood(th) /\ ThreadsGood(TraceAdd(th))
<1>1. Kept(TraceAdd(th))
  BY DEF Kept, TraceAdd, At, Thread
<1> QED BY <1>1, TraceAddGood DEF Kept, SameMessages, Shared

\* Releasing the mutex: c no longer waits, the others are as they were.
LEMMA ReleaseHarmless ==
  ASSUME Shared, NEW c \in Conn, NEW x, ThreadGood(x), x.pc # "waiting",
         th' = HandOver([th EXCEPT ![c] = x], waiters), UNCHANGED <<queues, cursor>>
  PROVE  Harmless(c)
<1> DEFINE t == [th EXCEPT ![c] = x]
<1>1. ThreadsGood(t) /\ waiters \in Waiters
  BY SetGood DEF Shared
<1>2. Kept(t) /\ t[c].pc # "waiting"
  BY DEF Kept, Shared, ThreadsGood
<1>3. th' = HandOver(t, waiters)
  OBVIOUS
<1> HIDE DEF t
<1>4. Kept(th') /\ th'[c].pc # "waiting"
  BY <1>1, <1>2, <1>3, HandOverBlocksNobody DEF Kept
<1> QED BY <1>4, KeptNow DEF Harmless

\* Moving c's thread to a place that is not a blocked Transfer.
LEMMA MoveHarmless ==
  ASSUME Shared, NEW c \in Conn, NEW x, x.pc # "waiting",
         th' = [th EXCEPT ![c] = x], UNCHANGED <<queues, cursor>>
  PROVE  Harmless(c)
<1>1. Kept(th') /\ th'[c].pc # "waiting"
  BY DEF Kept, Shared, ThreadsGood
<1> QED BY <1>1, KeptNow DEF Harmless

-----------------------------------------------------------------------------
(* Requests *)

\* A Trace that answers broadcasts; one that blocks leaves the rest alone.
LEMMA TraceHarmless ==
  ASSUME Shared, NEW c \in Conn, NEW s \in Session \cup {None}, NEW rq \in AnyRequest,
         DoTrace(c, s, rq)
  PROVE  Harmless(c)
<1> DEFINE x == Thread("tracing", s, rq, {}, EmptyQueues)
<1>1. CASE PerformNothing(c, s, rq, th)
  BY <1>1, KeptNow, NothingSilent DEF Harmless
<1>2. CASE th' = HandOver([th EXCEPT ![c] = x], waiters) /\ UNCHANGED queues
  <2>1. ThreadGood(x)
    BY ThreadIntro, EmptyGood DEF PC
  <2>2. x.pc # "waiting"
    BY DEF Thread
  <2>3. UNCHANGED cursor
    BY DEF DoTrace
  <2> HIDE DEF x
  <2> QED BY <1>2, <2>1, <2>2, <2>3, ReleaseHarmless
<1> QED BY <1>1, <1>2 DEF DoTrace

\* Every request's critical section is harmless.
LEMMA HandleHarmless ==
  ASSUME Shared, Clients, NEW c \in Conn, NEW s \in Session \cup {None},
         NEW rq \in AnyRequest, Handle(c, s, rq)
  PROVE  Harmless(c)
<1>1. CASE DoLogin(c, s, rq)
  BY <1>1, KeptNow, NothingSilent DEF DoLogin, Harmless
<1>2. CASE DoQuery(c, s, rq)
  BY <1>2, KeptNow, NothingSilent DEF DoQuery, Harmless
<1>3. CASE DoCreate(c, s, rq)
  BY <1>3, KeptNow, PerformHarmless DEF DoCreate
<1>4. CASE DoDestroy(c, s, rq)
  BY <1>4, KeptNow, PerformHarmless DEF DoDestroy
<1>5. CASE DoAck(c, s, rq)
  BY <1>5, KeptNow, PerformHarmless DEF DoAck
<1>6. CASE DoSend(c, s, rq)
  <2>1. CASE Exists(queues, rq.name)
    <3> DEFINE qs == TakeNextId(queues, rq.name)
    <3>1. SameMessages(queues, qs)
      BY <2>1, TakeSame
    <3>2. PICK op, newq : Perform(c, s, rq, TraceAdd(th), qs, {op}, newq)
      BY <1>6, <2>1 DEF DoSend
    <3>3. UNCHANGED cursor
      BY <1>6 DEF DoSend
    <3> HIDE DEF qs
    <3> QED BY <3>1, <3>2, <3>3, KeptNow, PerformHarmless
  <2>2. CASE ~Exists(queues, rq.name)
    BY <1>6, <2>2, KeptNow, NothingSilent DEF DoSend, Harmless
  <2> QED BY <2>1, <2>2
<1>7. CASE DoTransfer(c, s, rq)
  <2>1. PICK t \in {th, TraceAdd(th)} : PerformNothing(c, s, rq, t)
    BY <1>7 DEF DoTransfer
  <2> QED BY <2>1, KeptNow, NothingSilent DEF Harmless
<1>8. CASE DoTrace(c, s, rq)
  BY <1>8, TraceHarmless
<1>9. CASE DoGet(c, s, rq)
  <2> DEFINE x == Thread("reading", s, rq, {}, EmptyQueues)
  <2>1. x.pc # "waiting"
    BY DEF Thread
  <2>2. th' = [th EXCEPT ![c] = x] /\ UNCHANGED <<queues, cursor>>
    BY <1>9 DEF DoGet
  <2> HIDE DEF x
  <2> QED BY <2>1, <2>2, MoveHarmless
<1> QED BY <1>1, <1>2, <1>3, <1>4, <1>5, <1>6, <1>7, <1>8, <1>9 DEF Handle

\* Joining the queue of the mutex is harmless.
LEMMA EnqueueHarmless ==
  ASSUME Shared, NEW c \in Conn, NEW s, NEW rq, Enqueue(c, s, rq)
  PROVE  Harmless(c)
<1> DEFINE x == Thread("locking", s, rq, {}, EmptyQueues)
<1>1. x.pc # "waiting"
  BY DEF Thread
<1>2. th' = [th EXCEPT ![c] = x] /\ UNCHANGED <<queues, cursor>>
  BY DEF Enqueue
<1> HIDE DEF x
<1> QED BY <1>1, <1>2, MoveHarmless

\* So is entering the critical section at once or joining its queue.
LEMMA LockAndHandleHarmless ==
  ASSUME Shared, Clients, NEW c \in Conn, NEW s \in Session \cup {None},
         NEW rq \in AnyRequest, LockAndHandle(c, s, rq)
  PROVE  Harmless(c)
  BY EnqueueHarmless, HandleHarmless DEF LockAndHandle

\* A clean-up is harmless.
LEMMA CleanupHarmless ==
  ASSUME Shared, NEW c \in Conn, NEW s, NEW rq, DoCleanup(c, s, rq)
  PROVE  Harmless(c)
<1>1. PICK ops, newq : Perform(c, s, rq, th, queues, ops, newq)
  BY DEF DoCleanup
<1>2. UNCHANGED cursor
  BY DEF DoCleanup
<1> QED BY <1>1, <1>2, KeptNow, PerformHarmless

\* An exception in the critical section is harmless.
LEMMA AbandonHarmless ==
  ASSUME Shared, NEW c \in Conn, Abandon(c), UNCHANGED cursor
  PROVE  Harmless(c)
<1> DEFINE pc == IF th[c].rq.type = "Cleanup" THEN "closed" ELSE "idle"
           x  == Parked(pc)
<1>1. ThreadGood(x)
  BY ParkedGood DEF PC
<1>2. x.pc # "waiting"
  BY DEF Parked, Thread
<1>3. th' = HandOver([th EXCEPT ![c] = x], waiters) /\ UNCHANGED <<queues, cursor>>
  BY DEF Abandon
<1> HIDE DEF x
<1> QED BY <1>1, <1>2, <1>3, ReleaseHarmless

-----------------------------------------------------------------------------
(* The invariant *)

\* A harmless step loses no wake-up.
LEMMA HarmlessKeeps ==
  ASSUME NoLostWakeup, NEW c \in Conn, Harmless(c)
  PROVE  NoLostWakeup'
<1>1. CASE Silent(th')
  BY <1>1 DEF Silent, NoLostWakeup
<1>2. CASE /\ Kept(th') /\ th'[c].pc # "waiting"
           /\ SameMessages(queues, queues')
           /\ \A d \in Conn \ {c} : cursor'[d] = cursor[d]
  <2> SUFFICES ASSUME NEW d \in Conn, th'[d].pc = "waiting"
               PROVE  TransferMessages(queues', cursor'[d], th'[d].rq.names) = {}
    BY DEF NoLostWakeup
  <2>1. d # c /\ th[d].pc = "waiting" /\ th'[d].rq = th[d].rq /\ cursor'[d] = cursor[d]
    BY <1>2 DEF Kept
  <2>2. TransferMessages(queues, cursor[d], th[d].rq.names) = {}
    BY <2>1 DEF NoLostWakeup
  <2> QED BY <1>2, <2>1, <2>2, SameTransfer
<1> QED BY <1>1, <1>2 DEF Harmless

\* Blocking in a Transfer that finds nothing loses no wake-up.
LEMMA BlockKeeps ==
  ASSUME Shared, NoLostWakeup, NEW c \in Conn, NEW x,
         TransferMessages(queues, cursor[c], x.rq.names) = {},
         th' = [th EXCEPT ![c] = x], UNCHANGED <<queues, cursor>>
  PROVE  NoLostWakeup'
  BY DEF NoLostWakeup, Shared, ThreadsGood

\* A Trace that times out answers, and broadcasts.
LEMMA TraceTimeoutSilent ==
  ASSUME Inv, NEW c \in Conn, TraceTimeout(c)
  PROVE  Silent(th')
<1> DEFINE t == [th EXCEPT ![c] = Parked("idle")]
           e == [conn |-> c, bg |-> FALSE]
           f == [conn |-> c, bg |-> TRUE]
<1>1. PICK w : /\ w \in {Without(waiters, e), Append(waiters, f), waiters}
               /\ th' = HandOver(Broadcast(t), w)
  BY DEF TraceTimeout
<1>2. waiters \in Seq([conn : Conn, bg : BOOLEAN]) /\ f \in [conn : Conn, bg : BOOLEAN]
  BY DEF Inv, Shared, Waiters
<1>3. Append(waiters, f) \in Waiters /\ waiters \in Waiters
  BY <1>2 DEF Waiters
<1>4. Without(waiters, e) \in Waiters
  BY <1>2, WithoutType DEF Waiters
<1>5. w \in Waiters
  BY <1>1, <1>3, <1>4
<1>6. ThreadsGood(t)
  BY ParkedGood, SetGood DEF PC, Inv, Shared
<1> HIDE DEF t
<1>7. ThreadsGood(Broadcast(t)) /\ Silent(Broadcast(t))
  BY <1>6, BroadcastGood, BroadcastSilent
<1> QED BY <1>1, <1>5, <1>7, HandOverBlocksNobody DEF Silent

\* A client's step loses no wake-up.
LEMMA ClientKeeps ==
  ASSUME WakeInv, NEW c \in Conn,
         \/ Connect(c)
         \/ \E rq \in Askable(c) : Arrive(c, rq)
         \/ ThreadStep(c)
         \/ PushStep(c)
         \/ TransferTimeout(c)
         \/ TraceTimeout(c)
         \/ PushFail(c)
         \/ Close(c)
  PROVE  NoLostWakeup'
<1> USE DEF WakeInv, Inv
<1>0. th[c].session \in Session \cup {None} /\ th[c].rq \in AnyRequest
  BY ThreadFields
<1>1. CASE Connect(c)
  <2>1. Parked("idle").pc # "waiting"
    BY DEF Parked, Thread
  <2>2. th' = [th EXCEPT ![c] = Parked("idle")] /\ UNCHANGED <<queues, cursor>>
    BY <1>1 DEF Connect
  <2> QED BY <2>1, <2>2, MoveHarmless, HarmlessKeeps
<1>2. ASSUME NEW rq \in Askable(c), Arrive(c, rq)
      PROVE  NoLostWakeup'
  <2> DEFINE s == GetSession(c)
             x == Thread("waiting", s, rq, {}, EmptyQueues)
  <2>1. s \in Session \cup {None} /\ rq \in AnyRequest
    BY GetSessionType, AskableType
  <2>2. CASE /\ TransferMessages(queues, cursor[c], rq.names) = {}
             /\ th' = [th EXCEPT ![c] = x] /\ UNCHANGED <<queues, cursor>>
    <3>1. x.rq = rq
      BY DEF Thread
    <3> HIDE DEF x
    <3> QED BY <2>2, <3>1, BlockKeeps
  <2>3. CASE LockAndHandle(c, s, rq)
    BY <2>1, <2>3, LockAndHandleHarmless, HarmlessKeeps
  <2> QED BY <1>2, <2>2, <2>3 DEF Arrive
<1>3. CASE ThreadStep(c)
  <2>1. CASE Wake(c)
    <3> DEFINE x == At(th[c], "waiting")
    <3>1. CASE /\ TransferMessages(queues, cursor[c], th[c].rq.names) = {}
               /\ th' = [th EXCEPT ![c] = x] /\ UNCHANGED <<queues, cursor>>
      <4>1. x.rq = th[c].rq
        BY DEF At, Thread
      <4> HIDE DEF x
      <4> QED BY <3>1, <4>1, BlockKeeps
    <3>2. CASE LockAndHandle(c, th[c].session, th[c].rq)
      BY <1>0, <3>2, LockAndHandleHarmless, HarmlessKeeps
    <3> QED BY <2>1, <3>1, <3>2 DEF Wake
  <2>2. CASE Resume(c)
    BY <1>0, <2>2, HandleHarmless, CleanupHarmless, HarmlessKeeps DEF Resume
  <2>3. CASE Read(c)
    <3>1. CASE PerformNothing(c, th[c].session, th[c].rq, th)
      BY <3>1, KeptNow, NothingSilent, HarmlessKeeps DEF Harmless
    <3>2. CASE Abandon(c) /\ UNCHANGED cursor
      BY <3>2, AbandonHarmless, HarmlessKeeps
    <3> QED BY <2>3, <3>1, <3>2 DEF Read
  <2>4. CASE TraceRelock(c)
    <3> DEFINE x == At(th[c], "relock")
    <3>1. CASE th' = [th EXCEPT ![c] = x] /\ UNCHANGED <<queues, cursor>>
      <4>1. x.pc # "waiting"
        BY DEF At, Thread
      <4> HIDE DEF x
      <4> QED BY <3>1, <4>1, MoveHarmless, HarmlessKeeps
    <3>2. CASE DoTrace(c, th[c].session, th[c].rq)
      BY <1>0, <3>2, TraceHarmless, HarmlessKeeps
    <3> QED BY <2>4, <3>1, <3>2 DEF TraceRelock
  <2>5. CASE TraceResume(c)
    BY <1>0, <2>5, TraceHarmless, HarmlessKeeps DEF TraceResume
  <2> QED BY <1>3, <2>1, <2>2, <2>3, <2>4, <2>5 DEF ThreadStep
<1>4. CASE PushStep(c)
  <2>1. PICK op \in th[c].ops : Push(c, op)
    BY <1>4 DEF PushStep
  <2>2. CASE Finish(c, th[c].session, th[c].rq, th, th[c].newq)
    BY <2>2, KeptNow, FinishSilent, HarmlessKeeps DEF Harmless
  <2> DEFINE x == Thread(th[c].pc, th[c].session, th[c].rq, th[c].ops \ {op}, th[c].newq)
  <2>3. CASE th' = [th EXCEPT ![c] = x] /\ UNCHANGED <<queues, cursor>>
    <3>1. x.pc # "waiting"
      BY <2>1 DEF Thread, Push
    <3> HIDE DEF x
    <3> QED BY <2>3, <3>1, MoveHarmless, HarmlessKeeps
  <2> QED BY <2>1, <2>2, <2>3 DEF Push
<1>5. CASE TransferTimeout(c)
  BY <1>0, <1>5, LockAndHandleHarmless, HarmlessKeeps DEF TransferTimeout
<1>6. CASE TraceTimeout(c)
  BY <1>6, TraceTimeoutSilent, HarmlessKeeps DEF Harmless
<1>7. CASE PushFail(c)
  BY <1>7, AbandonHarmless, HarmlessKeeps DEF PushFail
<1>8. CASE Close(c)
  <2>1. CASE th' = [th EXCEPT ![c] = Parked("closed")] /\ UNCHANGED <<queues, cursor>>
    <3>1. Parked("closed").pc # "waiting"
      BY DEF Parked, Thread
    <3> QED BY <2>1, <3>1, MoveHarmless, HarmlessKeeps
  <2>2. ASSUME NEW s, NEW rq, Enqueue(c, s, rq) \/ DoCleanup(c, s, rq)
        PROVE  NoLostWakeup'
    BY <2>2, EnqueueHarmless, CleanupHarmless, HarmlessKeeps
  <2> QED BY <1>8, <2>1, <2>2 DEF Close
<1> QED BY <1>1, <1>2, <1>3, <1>4, <1>5, <1>6, <1>7, <1>8

\* NoLostWakeup and Quiet are inductive over the type invariant.
THEOREM WakeInductive == WakeInv /\ [Next]_vars => WakeInv'
<1> SUFFICES ASSUME WakeInv, [Next]_vars PROVE WakeInv'
  OBVIOUS
<1>1. Inv'
  BY InvInductive DEF WakeInv
<1>2. CASE UNCHANGED vars
  <2>1. UNCHANGED <<status, queues, th, cursor>>
    BY <1>2 DEF vars
  <2> QED BY <1>1, <2>1 DEF WakeInv, Quiet, NoLostWakeup
<1>3. ASSUME NEW c \in Conn,
             \/ Connect(c)
             \/ \E rq \in Askable(c) : Arrive(c, rq)
             \/ ThreadStep(c)
             \/ PushStep(c)
             \/ TransferTimeout(c)
             \/ TraceTimeout(c)
             \/ PushFail(c)
             \/ Close(c)
      PROVE  WakeInv'
  <2>1. status' = "up"
    BY <1>3 DEF Up, Connect, Arrive, ThreadStep, Wake, Resume, Read, TraceRelock,
       TraceResume, PushStep, Push, TransferTimeout, TraceTimeout, PushFail, Close
  <2> QED BY <1>1, <1>3, <2>1, ClientKeeps DEF WakeInv, Quiet
<1>4. CASE Flush \/ Start
  <2>1. UNCHANGED <<queues, th, cursor>> /\ (UNCHANGED status \/ status # "up")
    BY <1>4 DEF Flush, FlushBegin, FlushApply, FlushSave, FlushAdvance, Start
  <2> QED BY <1>1, <2>1 DEF WakeInv, Quiet, NoLostWakeup
<1>5. CASE Replayed
  <2>1. status = "replay" /\ status' = "up" /\ UNCHANGED th
    BY <1>5 DEF Replayed
  <2>2. Silent(th')
    BY <2>1 DEF WakeInv, Quiet, Silent
  <2> QED BY <1>1, <2>1, <2>2 DEF WakeInv, Quiet, NoLostWakeup, Silent
<1>6. CASE Crash
  <2>1. th' = [c \in Conn |-> IF th[c].pc = "new" THEN th[c] ELSE Parked("closed")]
    BY <1>6 DEF Crash
  <2>2. \A c \in Conn : th'[c].pc \in {"new", "closed"}
    BY <2>1 DEF Parked, Thread
  <2> QED BY <1>1, <2>2 DEF WakeInv, Quiet, NoLostWakeup
<1> QED BY <1>2, <1>3, <1>4, <1>5, <1>6 DEF Next

\* No connection is open initially.
THEOREM WakeInitial == Init => WakeInv
<1> SUFFICES ASSUME Init PROVE WakeInv
  OBVIOUS
<1>1. \A c \in Conn : th[c].pc = "new"
  BY DEF Init, Parked, Thread
<1> QED BY <1>1, InvInitial DEF WakeInv, Quiet, NoLostWakeup

\* No Transfer stays blocked while a message it asks for is in the directory:
\* however many clients send, acknowledge, destroy, crash or time out, the
\* condition queues_c misses nobody.
THEOREM NoWakeupIsLost == Spec => []NoLostWakeup
<1>1. WakeInv => NoLostWakeup
  BY DEF WakeInv
<1> QED BY <1>1, WakeInitial, WakeInductive, PTL DEF Spec
-----------------------------------------------------------------------------
(* The critical section.  The mutex excludes nobody once a client traces:  *)
(* a Trace whose time is up unlocks a mutex it does not hold.  So          *)
(* exclusion is proved, and used, for clients that do not (NoTrace).       *)

\* No client asks for a Trace.
NoTrace == \A c \in Conn : \A rq \in Request[c] : rq.type # "Trace"

-----------------------------------------------------------------------------
(* The kinds of steps a connection's thread makes *)

\* Where a thread is while it has the mutex, and while it may ask for it.
Inside  == {"granted", "pushing", "reading"}
Outside == {"idle", "waiting", "woken"}

\* The thread may be in the critical section in this step.
Enters(c) == \/ ~locked /\ th[c].pc \in Outside
             \/ th[c].pc = "granted"

\* Which request a step of c is about: one that arrives, one under way, or the
\* clean-up of the session whose last connection c was.
Asking(c, s, rq) ==
    th[c].pc = "idle" /\ s = GetSession(c) /\ rq \in Askable(c)

Going(c, s, rq) ==
    th[c].pc \notin {"new", "idle", "closed"} /\ s = th[c].session /\ rq = th[c].rq

Closing(c, s, rq) ==
    /\ th[c].pc = "idle" /\ s = GetSession(c) /\ s # None
    /\ rq = [type |-> "Cleanup", names |-> OwnedQueues(queues, s)]
    /\ sessions' = {p \in sessions : p[1] # c}
    /\ ~IsSessionActive(s, sessions')

Serving(c, s, rq) ==
    /\ s \in Session \cup {None} /\ rq \in AnyRequest
    /\ \/ (Asking(c, s, rq) \/ Going(c, s, rq)) /\ UNCHANGED sessions
       \/ (Asking(c, s, rq) \/ Going(c, s, rq)) /\ rq.type = "Login"
                                               /\ sessions' = sessions \cup {<<c, rq.session>>}
       \/ Closing(c, s, rq)

\* A Transfer blocks.
Blocks(c, s, rq) ==
    /\ th[c].pc \in {"idle", "woken"} /\ rq.type = "Transfer"
    /\ \E x : /\ th' = [th EXCEPT ![c] = x]
              /\ x.pc = "waiting" /\ x.session = s /\ x.rq = rq
    /\ UNCHANGED <<queues, sessions, locked, waiters, cursor, seen, promised>>

\* A request, or a clean-up, joins the queue of the mutex.
Joins(c, s, rq) ==
    /\ Enqueue(c, s, rq) /\ th[c].pc \in Outside
    /\ UNCHANGED sessions \/ Closing(c, s, rq)

\* A request is answered and the directory stays as it is.
Answers(c, s, rq) ==
    /\ Enters(c) \/ th[c].pc = "reading" \/ rq.type = "Trace"
    /\ rq.type # "Cleanup"
    /\ rq.type # "Login" => UNCHANGED sessions
    /\ \E t \in {th, TraceAdd(th)} :
          th' = HandOver(Broadcast([t EXCEPT ![c] = Parked("idle")]), waiters)
    /\ Unlock(waiters)
    /\ promised' = PromisedAfter(None, rq, queues)
    /\ UNCHANGED queues
    /\ \/ UNCHANGED <<cursor, seen>>
       \/ LET ids == TransferMessages(queues, cursor[c], rq.names)
          IN  /\ rq.type = "Transfer"
              /\ cursor' = [cursor EXCEPT ![c] = TransferNext(@, ids)]
              /\ seen' = [seen EXCEPT ![c] = @ \cup ids]

\* A Get begins to read.
Reads(c, s, rq) == Enters(c) /\ DoGet(c, s, rq)

\* What the operations of a request make of the directory.
Prepared(s, rq, qs, ops, newq) ==
    \/ /\ rq.type = "CreateTransient" /\ s # None
       /\ qs = queues /\ ops = {OpAdd(s, rq.name)}
       /\ newq = DirectoryAdd(queues, s, rq.name)
    \/ /\ rq.type = "CreatePersistent"
       /\ qs = queues /\ ops = {OpAdd(None, rq.name)}
       /\ newq = DirectoryAdd(queues, None, rq.name)
    \/ /\ rq.type = "Destroy" /\ s # None
       /\ qs = queues /\ ops = {OpRemove(rq.name)}
       /\ newq = RemoveAll(queues, {rq.name})
    \/ /\ rq.type = "Ack"
       /\ qs = queues /\ ops = {OpAck(rq.name, rq.id)}
       /\ newq = InternalAck(queues, rq.name, rq.id)
    \/ /\ rq.type = "Send" /\ s # None /\ Exists(queues, rq.name)
       /\ qs = TakeNextId(queues, rq.name)
       /\ ops = {OpSend(s, rq.name, queues.queues[rq.name].next_id, rq.msg)}
       /\ newq = InternalSend(qs, s, rq.name, queues.queues[rq.name].next_id, rq.msg)
    \/ /\ rq.type = "Cleanup"
       /\ qs = queues /\ ops = {OpRemove(n) : n \in rq.names}
       /\ newq = RemoveAll(queues, rq.names)

\* A request, or a clean-up, performs its operations, or begins to push them.
Performs(c, s, rq) ==
    /\ Enters(c)
    /\ \E t \in {th, TraceAdd(th)} : \E qs, ops, newq :
          Prepared(s, rq, qs, ops, newq) /\ Perform(c, s, rq, t, qs, ops, newq)
    /\ rq.type # "Cleanup" => UNCHANGED sessions
    /\ UNCHANGED <<cursor, seen>>

\* An operation is pushed that is not the last.
Pushes(c, s, rq) ==
    /\ th[c].pc = "pushing"
    /\ \E op \in th[c].ops : journal' = Append(journal, op)
    /\ \E ops \in SUBSET th[c].ops :
          th' = [th EXCEPT ![c] = Thread("pushing", s, rq, ops, th[c].newq)]
    /\ UNCHANGED <<queues, sessions, locked, waiters, cursor, seen, promised>>

\* The last is, and the directory is published.
Publishes(c, s, rq) ==
    /\ th[c].pc = "pushing"
    /\ \E op \in th[c].ops : journal' = Append(journal, op)
    /\ Finish(c, s, rq, th, th[c].newq)
    /\ UNCHANGED <<sessions, cursor, seen>>

\* An exception ends a critical section.
GivesUp(c) ==
    /\ th[c].pc = "reading" \/ (th[c].pc = "pushing" /\ PushMayFail)
    /\ Abandon(c)
    /\ UNCHANGED <<sessions, cursor, seen>>

\* A Trace waits, is woken or times out.
Traces(c, s, rq) ==
    /\ \/ /\ rq.type = "Trace"
          /\ th' = HandOver([th EXCEPT ![c] = Thread("tracing", s, rq, {}, EmptyQueues)], waiters)
       \/ /\ th[c].pc \in {"tracing", "relock"}
          /\ \E w \in Waiters : th' = HandOver(Broadcast([th EXCEPT ![c] = Parked("idle")]), w)
       \/ /\ th[c].pc = "traced"
          /\ th' = [th EXCEPT ![c] = At(th[c], "relock")]
    /\ UNCHANGED <<queues, sessions, cursor, seen, promised>>

\* A connection opens, or closes and its session goes on or there was none.
Opens(c) ==
    /\ Connect(c) /\ th[c].pc = "new"
    /\ th' = [th EXCEPT ![c] = Parked("idle")]

Shuts(c) ==
    /\ th[c].pc = "idle"
    /\ sessions' = {p \in sessions : p[1] # c}
    /\ GetSession(c) = None \/ IsSessionActive(GetSession(c), sessions')
    /\ th' = [th EXCEPT ![c] = Parked("closed")]
    /\ UNCHANGED <<queues, locked, waiters, cursor, seen, promised>>

\* The steps of c's thread, as Next lists them.
Client(c) ==
    \/ Connect(c)
    \/ \E rq \in Askable(c) : Arrive(c, rq)
    \/ ThreadStep(c)
    \/ PushStep(c)
    \/ TransferTimeout(c)
    \/ TraceTimeout(c)
    \/ PushFail(c)
    \/ Close(c)

\* And as kinds.
Kind(c, s, rq) ==
    \/ Blocks(c, s, rq) \/ Joins(c, s, rq) \/ Answers(c, s, rq) \/ Reads(c, s, rq)
    \/ Performs(c, s, rq) \/ Pushes(c, s, rq) \/ Publishes(c, s, rq)
    \/ Traces(c, s, rq)

-----------------------------------------------------------------------------
(* What a thread is about *)

\* A thread of connection c with the sessions ss: a request is one c asks for,
\* made with a session c is logged in with; a clean-up goes from the queue of
\* the mutex to its pushes; between requests there is neither.
RequestOK(c, x, ss) ==
    /\ x.rq.type \notin {"None", "Ack", "Cleanup"} => x.rq \in Request[c]
    /\ x.rq.type = "Cleanup" => /\ x.pc \in {"locking", "granted", "pushing", "regain"}
                                /\ x.session # None
    /\ x.session # None /\ x.rq.type # "Cleanup" => <<c, x.session>> \in ss
    /\ x.pc \in {"new", "idle", "closed"} => x.rq.type = "None" /\ x.session = None
    /\ x.pc = "reading" => x.rq.type = "Get"
    /\ x.pc \in {"waiting", "woken"} => x.rq.type = "Transfer"

Asked ==
    /\ \A c \in Conn : RequestOK(c, th[c], sessions)
    /\ \A p \in sessions : [type |-> "Login", session |-> p[2]] \in Request[p[1]]
    /\ status # "up" => sessions = {}

-----------------------------------------------------------------------------
(* Every step of a client's thread is of one of the kinds *)

\* The end of a critical section that performs nothing is an answer.
LEMMA NothingAnswers ==
  ASSUME NEW c \in Conn, NEW s, NEW z, NEW rq, NEW t \in {th, TraceAdd(th)},
         rq.type \notin {"CreateTransient", "Destroy", "Cleanup"} \/ z = None,
         rq.type # "Cleanup", rq.type # "Login" => UNCHANGED sessions,
         Enters(c) \/ th[c].pc = "reading" \/ rq.type = "Trace",
         PerformNothing(c, z, rq, t),
         \/ UNCHANGED <<cursor, seen>>
         \/ LET ids == TransferMessages(queues, cursor[c], rq.names)
            IN  /\ rq.type = "Transfer"
                /\ cursor' = [cursor EXCEPT ![c] = TransferNext(@, ids)]
                /\ seen' = [seen EXCEPT ![c] = @ \cup ids]
  PROVE  Answers(c, s, rq)
<1>1. Finish(c, z, rq, t, queues)
  BY DEF PerformNothing, Perform
<1>2. /\ th' = HandOver(Broadcast([t EXCEPT ![c] = Parked("idle")]), waiters)
      /\ Unlock(waiters) /\ UNCHANGED queues
      /\ promised' = PromisedAfter(z, rq, queues)
  BY <1>1 DEF Finish
<1>3. PromisedAfter(z, rq, queues) = PromisedAfter(None, rq, queues)
  BY DEF PromisedAfter
<1> QED BY <1>2, <1>3 DEF Answers

\* A Trace answers or waits.
LEMMA TraceKinds ==
  ASSUME Shared, NEW c \in Conn, NEW s \in Session \cup {None}, NEW rq, DoTrace(c, s, rq)
  PROVE  (Answers(c, s, rq) \/ Traces(c, s, rq)) /\ UNCHANGED sessions
<1>1. CASE PerformNothing(c, s, rq, th)
  BY <1>1, NothingAnswers DEF DoTrace
<1>2. CASE th' = HandOver([th EXCEPT ![c] = Thread("tracing", s, rq, {}, EmptyQueues)], waiters)
           /\ UNCHANGED <<queues, promised>>
  BY <1>2 DEF DoTrace, Traces
<1> QED BY <1>1, <1>2 DEF DoTrace

\* So does any request whose critical section begins now.
LEMMA HandleKinds ==
  ASSUME Shared, NEW c \in Conn, NEW s \in Session \cup {None}, NEW rq \in AnyRequest,
         Enters(c), Handle(c, s, rq)
  PROVE  /\ Answers(c, s, rq) \/ Reads(c, s, rq) \/ Performs(c, s, rq) \/ Traces(c, s, rq)
         /\ \/ UNCHANGED sessions
            \/ rq.type = "Login" /\ sessions' = sessions \cup {<<c, rq.session>>}
<1>1. CASE DoLogin(c, s, rq)
  <2>1. PerformNothing(c, s, rq, th) /\ UNCHANGED <<cursor, seen>> /\ rq.type = "Login"
        /\ sessions' = sessions \cup {<<c, rq.session>>}
    BY <1>1 DEF DoLogin, clientVars
  <2> QED BY <2>1, NothingAnswers
<1>2. CASE DoQuery(c, s, rq)
  <2>1. PerformNothing(c, None, rq, th) /\ UNCHANGED <<sessions, cursor, seen>>
        /\ rq.type # "Cleanup"
    BY <1>2 DEF DoQuery
  <2> QED BY <2>1, NothingAnswers
<1>3. CASE DoCreate(c, s, rq)
  <2> DEFINE op == OpAdd(IF rq.type = "CreateTransient" THEN s ELSE None, rq.name)
  <2>1. Prepared(s, rq, queues, {op}, DoOp(queues, op))
    BY <1>3 DEF DoCreate, Prepared, DoOp, OpAdd
  <2> QED BY <1>3, <2>1 DEF DoCreate, Performs
<1>4. CASE DoDestroy(c, s, rq)
  <2> DEFINE op == OpRemove(rq.name)
  <2>1. Prepared(s, rq, queues, {op}, DoOp(queues, op))
    BY <1>4 DEF DoDestroy, Prepared, DoOp, OpRemove, DirectoryRemove
  <2> QED BY <1>4, <2>1 DEF DoDestroy, Performs
<1>5. CASE DoAck(c, s, rq)
  <2> DEFINE op == OpAck(rq.name, rq.id)
  <2>1. Prepared(s, rq, queues, {op}, DoOp(queues, op))
    BY <1>5 DEF DoAck, Prepared, DoOp, OpAck
  <2> QED BY <1>5, <2>1 DEF DoAck, Performs
<1>6. CASE DoSend(c, s, rq)
  <2> DEFINE op == OpSend(s, rq.name, queues.queues[rq.name].next_id, rq.msg)
             qs == TakeNextId(queues, rq.name)
  <2>1. CASE Exists(queues, rq.name)
    <3>1. Prepared(s, rq, qs, {op}, DoOp(qs, op))
      BY <1>6, <2>1 DEF DoSend, Prepared, DoOp, OpSend
    <3>2. Perform(c, s, rq, TraceAdd(th), qs, {op}, DoOp(qs, op))
          /\ UNCHANGED <<sessions, cursor, seen>>
      BY <1>6, <2>1 DEF DoSend
    <3> HIDE DEF op, qs
    <3> QED BY <3>1, <3>2 DEF Performs
  <2>2. CASE ~Exists(queues, rq.name)
    <3>1. PerformNothing(c, s, rq, th) /\ UNCHANGED <<sessions, cursor, seen>>
          /\ rq.type = "Send"
      BY <1>6, <2>2 DEF DoSend
    <3> QED BY <3>1, NothingAnswers
  <2> QED BY <2>1, <2>2
<1>7. CASE DoTransfer(c, s, rq)
  <2> DEFINE ids == TransferMessages(queues, cursor[c], rq.names)
  <2>1. PICK t \in {th, TraceAdd(th)} : PerformNothing(c, s, rq, t)
    BY <1>7 DEF DoTransfer
  <2>2. /\ rq.type = "Transfer" /\ UNCHANGED sessions
        /\ cursor' = [cursor EXCEPT ![c] = TransferNext(@, ids)]
        /\ seen' = [seen EXCEPT ![c] = @ \cup ids]
    BY <1>7 DEF DoTransfer
  <2> QED BY <2>1, <2>2, NothingAnswers
<1>8. CASE DoTrace(c, s, rq)
  BY <1>8, TraceKinds
<1>9. CASE DoGet(c, s, rq)
  BY <1>9 DEF DoGet, Reads
<1> QED BY <1>1, <1>2, <1>3, <1>4, <1>5, <1>6, <1>7, <1>8, <1>9 DEF Handle

\* A clean-up whose critical section begins now performs its operations.
LEMMA CleanupKind ==
  ASSUME NEW c \in Conn, NEW s, NEW rq, Enters(c), DoCleanup(c, s, rq)
  PROVE  Performs(c, s, rq)
<1> DEFINE ops == {OpRemove(n) : n \in rq.names}
<1>1. Prepared(s, rq, queues, ops, RemoveAll(queues, rq.names)) /\ rq.type = "Cleanup"
  BY DEF DoCleanup, Prepared
<1>2. Perform(c, s, rq, th, queues, ops, RemoveAll(queues, rq.names))
      /\ UNCHANGED <<cursor, seen>>
  BY DEF DoCleanup
<1> HIDE DEF ops
<1> QED BY <1>1, <1>2 DEF Performs

\* What a thread that asks for the mutex does.
LEMMA LockKinds ==
  ASSUME Shared, NEW c \in Conn, NEW s \in Session \cup {None}, NEW rq \in AnyRequest,
         th[c].pc \in Outside, LockAndHandle(c, s, rq)
  PROVE  /\ Kind(c, s, rq)
         /\ \/ UNCHANGED sessions
            \/ rq.type = "Login" /\ sessions' = sessions \cup {<<c, rq.session>>}
<1>1. CASE Enqueue(c, s, rq) /\ UNCHANGED sessions
  BY <1>1 DEF Joins, Kind
<1>2. CASE ~locked /\ Handle(c, s, rq)
  <2>1. Enters(c)
    BY <1>2 DEF Enters
  <2> QED BY <1>2, <2>1, HandleKinds DEF Kind
<1> QED BY <1>1, <1>2 DEF LockAndHandle

\* A request arrives.
LEMMA ArriveKinds ==
  ASSUME Inv, NEW c \in Conn, NEW rq \in Askable(c), Arrive(c, rq)
  PROVE  Serving(c, GetSession(c), rq) /\ Kind(c, GetSession(c), rq)
<1> DEFINE s == GetSession(c)
           x == Thread("waiting", s, rq, {}, EmptyQueues)
<1>1. s \in Session \cup {None} /\ rq \in AnyRequest
  BY GetSessionType, AskableType DEF Inv
<1>2. th[c].pc = "idle" /\ th[c].pc \in Outside
  BY DEF Arrive, Outside
<1>3. CASE /\ rq.type = "Transfer"
           /\ th' = [th EXCEPT ![c] = x]
           /\ UNCHANGED <<queues, sessions, locked, waiters, cursor, seen, promised>>
  <2>1. x.pc = "waiting" /\ x.session = s /\ x.rq = rq
    BY DEF Thread
  <2>2. Serving(c, s, rq)
    BY <1>1, <1>2, <1>3 DEF Serving, Asking
  <2> HIDE DEF x, s
  <2>3. Blocks(c, s, rq)
    BY <1>2, <1>3, <2>1 DEF Blocks
  <2> QED BY <2>2, <2>3 DEF Kind, s
<1>4. CASE LockAndHandle(c, s, rq)
  <2>1. Asking(c, s, rq)
    BY <1>2 DEF Asking
  <2> HIDE DEF s
  <2>2. /\ Kind(c, s, rq)
        /\ \/ UNCHANGED sessions
           \/ rq.type = "Login" /\ sessions' = sessions \cup {<<c, rq.session>>}
    BY <1>1, <1>2, <1>4, LockKinds DEF Inv
  <2>3. Serving(c, s, rq)
    BY <1>1, <2>1, <2>2 DEF Serving
  <2> QED BY <2>2, <2>3 DEF s
<1> QED BY <1>3, <1>4 DEF Arrive

\* A thread that is under way goes on with its own request.
LEMMA GoingKinds ==
  ASSUME Inv, Asked, NEW c \in Conn,
         ThreadStep(c) \/ PushStep(c) \/ TransferTimeout(c) \/ TraceTimeout(c)
  PROVE  \/ Serving(c, th[c].session, th[c].rq) /\ Kind(c, th[c].session, th[c].rq)
         \/ GivesUp(c)
<1> DEFINE s == th[c].session
           rq == th[c].rq
<1> SUFFICES (Serving(c, s, rq) /\ Kind(c, s, rq)) \/ GivesUp(c)
  OBVIOUS
<1>1. Shared /\ s \in Session \cup {None} /\ rq \in AnyRequest
  BY ThreadFields DEF Inv
<1>2. ASSUME th[c].pc \notin {"new", "idle", "closed"}, Kind(c, s, rq),
             \/ UNCHANGED sessions
             \/ rq.type = "Login" /\ sessions' = sessions \cup {<<c, rq.session>>}
      PROVE  Serving(c, s, rq) /\ Kind(c, s, rq)
  BY <1>1, <1>2 DEF Serving, Going
<1>3. CASE Wake(c)
  <2> DEFINE x == At(th[c], "waiting")
  <2>1. CASE /\ th' = [th EXCEPT ![c] = x]
             /\ UNCHANGED <<queues, sessions, locked, waiters, cursor, seen, promised>>
    <3>1. x.pc = "waiting" /\ x.session = s /\ x.rq = rq
      BY DEF At, Thread
    <3>a. rq.type = "Transfer"
      BY <1>3 DEF Wake, Asked, RequestOK
    <3> HIDE DEF x
    <3>2. Blocks(c, s, rq)
      BY <1>3, <2>1, <3>1, <3>a DEF Blocks, Wake
    <3> QED BY <1>2, <1>3, <2>1, <3>2 DEF Kind, Wake
  <2>2. CASE LockAndHandle(c, s, rq)
    <3>1. th[c].pc \in Outside /\ th[c].pc \notin {"new", "idle", "closed"}
      BY <1>3 DEF Wake, Outside
    <3> HIDE DEF s, rq
    <3>2. Kind(c, s, rq)
      BY <1>1, <2>2, <3>1, LockKinds
    <3>3. \/ UNCHANGED sessions
          \/ rq.type = "Login" /\ sessions' = sessions \cup {<<c, rq.session>>}
      BY <1>1, <2>2, <3>1, LockKinds
    <3> QED BY <1>2, <3>1, <3>2, <3>3
  <2> QED BY <1>3, <2>1, <2>2 DEF Wake
<1>4. CASE TransferTimeout(c)
  <2>1. th[c].pc \in Outside /\ th[c].pc \notin {"new", "idle", "closed"}
    BY <1>4 DEF TransferTimeout, Outside
  <2>2. LockAndHandle(c, s, rq)
    BY <1>4 DEF TransferTimeout
  <2> HIDE DEF s, rq
  <2>3. Kind(c, s, rq)
    BY <1>1, <2>1, <2>2, LockKinds
  <2>4. \/ UNCHANGED sessions
        \/ rq.type = "Login" /\ sessions' = sessions \cup {<<c, rq.session>>}
    BY <1>1, <2>1, <2>2, LockKinds
  <2> QED BY <1>2, <2>1, <2>3, <2>4
<1>5. CASE Resume(c)
  <2>1. Enters(c) /\ th[c].pc \notin {"new", "idle", "closed"}
    BY <1>5 DEF Resume, Enters
  <2>2. Handle(c, s, rq) \/ (DoCleanup(c, s, rq) /\ UNCHANGED sessions)
    BY <1>5 DEF Resume
  <2> HIDE DEF s, rq
  <2>3. Kind(c, s, rq)
    BY <1>1, <2>1, <2>2, HandleKinds, CleanupKind DEF Kind
  <2>4. \/ UNCHANGED sessions
        \/ rq.type = "Login" /\ sessions' = sessions \cup {<<c, rq.session>>}
    BY <1>1, <2>1, <2>2, HandleKinds
  <2> QED BY <1>2, <2>1, <2>3, <2>4
<1>6. CASE Read(c)
  <2>1. CASE Abandon(c)
    BY <1>6, <2>1 DEF Read, GivesUp
  <2>2. CASE PerformNothing(c, s, rq, th)
    <3>1. /\ th[c].pc = "reading" /\ rq.type = "Get"
          /\ UNCHANGED <<sessions, cursor, seen>>
      BY <1>6 DEF Read, Asked, RequestOK
    <3>2. Answers(c, s, rq)
      BY <2>2, <3>1, NothingAnswers
    <3> QED BY <1>2, <3>1, <3>2 DEF Kind
  <2> QED BY <1>6, <2>1, <2>2 DEF Read
<1>7. CASE TraceRelock(c)
  <2>1. th[c].pc = "traced"
    BY <1>7 DEF TraceRelock
  <2>2. CASE DoTrace(c, s, rq)
    <3> HIDE DEF s, rq
    <3> QED BY <1>1, <1>2, <2>1, <2>2, TraceKinds DEF Kind
  <2>3. CASE /\ th' = [th EXCEPT ![c] = At(th[c], "relock")]
             /\ UNCHANGED <<queues, sessions, locked, cursor, seen, promised>>
    <3>1. Traces(c, s, rq)
      BY <2>1, <2>3 DEF Traces
    <3> QED BY <1>2, <2>1, <2>3, <3>1 DEF Kind
  <2> QED BY <1>7, <2>2, <2>3 DEF TraceRelock
<1>8. CASE TraceResume(c)
  <2>1. th[c].pc = "regain" /\ DoTrace(c, s, rq)
    BY <1>8 DEF TraceResume
  <2> HIDE DEF s, rq
  <2> QED BY <1>1, <1>2, <2>1, TraceKinds DEF Kind
<1>9. CASE TraceTimeout(c)
  <2> DEFINE t == Broadcast([th EXCEPT ![c] = Parked("idle")])
             e == [conn |-> c, bg |-> FALSE]
             f == [conn |-> c, bg |-> TRUE]
  <2>1. PICK w : /\ w \in {Without(waiters, e), Append(waiters, f), waiters}
                 /\ th' = HandOver(t, w)
    BY <1>9 DEF TraceTimeout
  <2>2. waiters \in Seq([conn : Conn, bg : BOOLEAN]) /\ f \in [conn : Conn, bg : BOOLEAN]
    BY <1>1 DEF Shared, Waiters
  <2>3. Append(waiters, f) \in Waiters /\ waiters \in Waiters
    BY <2>2 DEF Waiters
  <2> HIDE DEF t, e, f
  <2>4. Without(waiters, e) \in Waiters
    BY <2>2, WithoutType DEF Waiters
  <2>7. w \in Waiters
    BY <2>1, <2>3, <2>4
  <2>5. th[c].pc \in {"tracing", "relock"} /\ UNCHANGED <<queues, sessions, cursor, seen, promised>>
    BY <1>9 DEF TraceTimeout
  <2>6. Traces(c, s, rq)
    BY <2>1, <2>7, <2>5 DEF Traces, t
  <2> QED BY <1>2, <2>5, <2>6 DEF Kind
<1>10. CASE PushStep(c)
  <2>1. PICK op \in th[c].ops : Push(c, op)
    BY <1>10 DEF PushStep
  <2>2. th[c].pc = "pushing" /\ journal' = Append(journal, op)
        /\ UNCHANGED <<sessions, cursor, seen>>
    BY <2>1 DEF Push
  <2>3. CASE Finish(c, s, rq, th, th[c].newq)
    <3>1. Publishes(c, s, rq)
      BY <2>2, <2>3 DEF Publishes
    <3> QED BY <1>2, <2>2, <3>1 DEF Kind
  <2> DEFINE ops == th[c].ops \ {op}
  <2>4. CASE /\ th' = [th EXCEPT ![c] = Thread(th[c].pc, s, rq, ops, th[c].newq)]
             /\ UNCHANGED <<queues, locked, waiters, promised>>
    <3>1. ops \in SUBSET th[c].ops
      OBVIOUS
    <3> HIDE DEF ops
    <3>2. Pushes(c, s, rq)
      BY <2>2, <2>4, <3>1 DEF Pushes
    <3> QED BY <1>2, <2>2, <3>2 DEF Kind
  <2> QED BY <2>1, <2>3, <2>4 DEF Push
<1> QED BY <1>3, <1>4, <1>5, <1>6, <1>7, <1>8, <1>9, <1>10 DEF ThreadStep

\* A connection closes.
LEMMA CloseKinds ==
  ASSUME Inv, NEW c \in Conn, Close(c)
  PROVE  Shuts(c) \/ \E s, rq : Serving(c, s, rq) /\ Kind(c, s, rq)
<1> DEFINE s    == GetSession(c)
           left == {p \in sessions : p[1] # c}
           rq   == [type |-> "Cleanup", names |-> OwnedQueues(queues, s)]
<1>1. s \in Session \cup {None} /\ rq \in AnyRequest
  <2>1. OwnedQueues(queues, s) \subseteq Name
    BY DEF OwnedQueues, Inv, Shared, Good, DirectoryOK
  <2> QED BY <2>1, GetSessionType DEF AnyRequest
<1>2. th[c].pc = "idle" /\ th[c].pc \in Outside /\ sessions' = left
  BY DEF Close, Outside
<1>3. CASE /\ s = None \/ IsSessionActive(s, left)
           /\ th' = [th EXCEPT ![c] = Parked("closed")]
           /\ UNCHANGED <<queues, locked, waiters, cursor, seen, promised>>
  BY <1>2, <1>3 DEF Shuts
<1>4. CASE /\ ~(s = None \/ IsSessionActive(s, left))
           /\ Enqueue(c, s, rq) \/ (~locked /\ DoCleanup(c, s, rq))
  <2>1. Closing(c, s, rq)
    BY <1>2, <1>4 DEF Closing
  <2>2. Serving(c, s, rq)
    BY <1>1, <2>1 DEF Serving
  <2> HIDE DEF s, rq, left
  <2>3. CASE Enqueue(c, s, rq)
    BY <1>2, <2>1, <2>2, <2>3 DEF Joins, Kind
  <2>4. CASE ~locked /\ DoCleanup(c, s, rq)
    <3>1. Enters(c)
      BY <1>2, <2>4 DEF Enters
    <3> QED BY <2>2, <2>4, <3>1, CleanupKind DEF Kind
  <2> QED BY <1>4, <2>3, <2>4
<1> QED BY <1>3, <1>4 DEF Close

\* Whatever a client's thread does is of one of the kinds.
LEMMA ClientKinds ==
  ASSUME Inv, Asked, NEW c \in Conn, Client(c)
  PROVE  \/ Opens(c) \/ Shuts(c) \/ GivesUp(c)
         \/ \E s, rq : Serving(c, s, rq) /\ Kind(c, s, rq)
<1>1. CASE Connect(c)
  BY <1>1 DEF Connect, Opens
<1>2. CASE PushFail(c)
  BY <1>2 DEF PushFail, GivesUp
<1> QED BY <1>1, <1>2, ArriveKinds, GoingKinds, CloseKinds DEF Client

-----------------------------------------------------------------------------
(* What a step does to the other threads *)

\* A thread as another's step leaves it: woken, or handed the mutex.
Nudged(x) ==
    {x} \cup {y \in {At(x, "woken")}   : x.pc = "waiting"}
        \cup {y \in {At(x, "traced")}  : x.pc = "tracing"}
        \cup {y \in {At(x, "granted")} : x.pc = "locking"}
        \cup {y \in {At(x, "regain")}  : x.pc # "locking"}

\* It keeps all but its place, and is not sent into a critical section.
LEMMA NudgedKeeps ==
  ASSUME NEW x, NEW y \in Nudged(x), ThreadGood(x)
  PROVE  /\ y.session = x.session /\ y.rq = x.rq /\ y.ops = x.ops /\ y.newq = x.newq
         /\ y.pc \in {"pushing", "reading", "waiting", "new", "closed", "idle", "locking",
                      "tracing", "relock"} => y = x
         /\ y.pc \in {x.pc, "woken", "traced", "granted", "regain"}
         /\ y.pc = "woken" => x.pc \in {"waiting", "woken"}
         /\ y.pc = "granted" => x.pc \in {"locking", "granted"}
  BY DEF Nudged, At, Thread

\* Handing the mutex over nudges its next owner,
LEMMA HandOverNudges ==
  ASSUME NEW t, ThreadsGood(t), NEW w \in Waiters, NEW d \in Conn
  PROVE  HandOver(t, w)[d] \in Nudged(t[d])
<1>1. CASE w = <<>> \/ Head(w).bg
  BY <1>1 DEF HandOver, Nudged
<1>2. CASE ~(w = <<>> \/ Head(w).bg)
  <2> DEFINE e  == Head(w).conn
             pc == IF t[e].pc = "locking" THEN "granted" ELSE "regain"
  <2>1. HandOver(t, w) = [t EXCEPT ![e] = At(t[e], pc)]
    BY <1>2 DEF HandOver
  <2>2. DOMAIN t = Conn
    BY DEF ThreadsGood
  <2>3. At(t[e], pc) \in Nudged(t[e])
    BY DEF Nudged
  <2> HIDE DEF e
  <2>4. CASE d = e
    BY <2>1, <2>2, <2>3, <2>4
  <2>5. CASE d # e
    BY <2>1, <2>2, <2>5 DEF Nudged
  <2> QED BY <2>4, <2>5
<1> QED BY <1>1, <1>2

\* also after a broadcast,
LEMMA ReleaseNudges ==
  ASSUME NEW t, ThreadsGood(t), NEW w \in Waiters, NEW d \in Conn
  PROVE  HandOver(Broadcast(t), w)[d] \in Nudged(t[d])
<1>1. ThreadsGood(Broadcast(t)) /\ ThreadGood(t[d])
  BY BroadcastGood DEF ThreadsGood
<1>2. HandOver(Broadcast(t), w)[d] \in Nudged(Broadcast(t)[d])
  BY <1>1, HandOverNudges
<1>3. Broadcast(t)[d] = IF t[d].pc = "waiting" THEN At(t[d], "woken") ELSE t[d]
  BY DEF Broadcast
<1> QED BY <1>2, <1>3 DEF Nudged, At, Thread

\* and also after the blocked Traces were woken: a step that sets c's thread to
\* x does no more than nudge the others.
LEMMA SetNudges ==
  ASSUME Shared, NEW c \in Conn, NEW x, ThreadGood(x), NEW t \in {th, TraceAdd(th)},
         \/ th' = [t EXCEPT ![c] = x]
         \/ \E w \in Waiters : th' = HandOver([t EXCEPT ![c] = x], w)
         \/ \E w \in Waiters : th' = HandOver(Broadcast([t EXCEPT ![c] = x]), w)
  PROVE  th'[c] \in Nudged(x) /\ \A d \in Conn \ {c} : th'[d] \in Nudged(th[d])
<1> DEFINE u == [t EXCEPT ![c] = x]
<1>1. ThreadsGood(th) /\ ThreadsGood(t)
  BY TraceAddGood DEF Shared
<1>2. ThreadsGood(u)
  BY <1>1, SetGood
<1>3. u[c] = x /\ \A d \in Conn \ {c} : u[d] = t[d]
  BY <1>1 DEF ThreadsGood
<1>4. th' = u \/ \E w \in Waiters : th' = HandOver(u, w) \/ th' = HandOver(Broadcast(u), w)
  OBVIOUS
<1> HIDE DEF u
<1>5. \A d \in Conn : th'[d] \in Nudged(u[d])
  BY <1>2, <1>4, HandOverNudges, ReleaseNudges DEF Nudged
<1>6. ASSUME NEW d \in Conn \ {c}
      PROVE  th'[d] \in Nudged(th[d])
  <2>1. th'[d] \in Nudged(t[d])
    BY <1>3, <1>5
  <2>2. CASE t = th
    BY <2>1, <2>2
  <2>3. CASE t = TraceAdd(th)
    <3>1. t[d] = IF th[d].pc = "tracing" THEN At(th[d], "traced") ELSE th[d]
      BY <2>3 DEF TraceAdd
    <3> QED BY <2>1, <3>1 DEF Nudged, At, Thread
  <2> QED BY <2>2, <2>3
<1> QED BY <1>3, <1>5, <1>6

\* What becomes of c's own thread, kind by kind.
OwnThread(c, s, rq) ==
    \/ th'[c] \in Nudged(Parked("idle")) /\ (Opens(c) \/ Answers(c, s, rq) \/ Performs(c, s, rq) \/ Publishes(c, s, rq) \/ GivesUp(c) \/ Traces(c, s, rq))
    \/ th'[c] \in Nudged(Parked("closed")) /\ (Shuts(c) \/ GivesUp(c) \/ Performs(c, s, rq) \/ Publishes(c, s, rq))
    \/ Blocks(c, s, rq) /\ th'[c].pc = "waiting" /\ th'[c].session = s /\ th'[c].rq = rq
    \/ Joins(c, s, rq) /\ th'[c] = Thread("locking", s, rq, {}, EmptyQueues)
    \/ Reads(c, s, rq) /\ th'[c] = Thread("reading", s, rq, {}, EmptyQueues)
    \/ /\ Performs(c, s, rq)
       /\ \E ops, newq : th'[c] = Thread("pushing", s, rq, ops, newq)
    \/ /\ Pushes(c, s, rq) 
       /\ \E ops \in SUBSET th[c].ops : th'[c] = Thread("pushing", s, rq, ops, th[c].newq)
    \/ /\ Traces(c, s, rq)
       /\ \/ rq.type = "Trace" /\ th'[c] \in Nudged(Thread("tracing", s, rq, {}, EmptyQueues))
          \/ th[c].pc = "traced" /\ th'[c] = At(th[c], "relock")

\* Every kind of step sets c's thread and no more than nudges the others.
LEMMA KindThreads ==
  ASSUME Inv, NEW c \in Conn, NEW s \in Session \cup {None}, NEW rq \in AnyRequest,
         Opens(c) \/ Shuts(c) \/ GivesUp(c) \/ Kind(c, s, rq), ThreadsGood(th')
  PROVE  OwnThread(c, s, rq) /\ \A d \in Conn \ {c} : th'[d] \in Nudged(th[d])
<1>0. /\ Shared /\ ThreadsGood(th) /\ DOMAIN th = Conn /\ waiters \in Waiters /\ th \in {th, TraceAdd(th)}
      /\ \A pc \in {"idle", "closed"} : ThreadGood(Parked(pc))
  BY ParkedGood DEF Inv, Shared, ThreadsGood, PC
<1>1. CASE Opens(c)
  BY <1>0, <1>1, SetNudges DEF Opens, OwnThread
<1>2. CASE Shuts(c)
  BY <1>0, <1>2, SetNudges DEF Shuts, OwnThread
<1>3. ASSUME NEW pc \in {"idle", "closed"}, NEW t \in {th, TraceAdd(th)},
             \/ th' = HandOver([t EXCEPT ![c] = Parked(pc)], waiters)
             \/ th' = HandOver(Broadcast([t EXCEPT ![c] = Parked(pc)]), waiters)
      PROVE  th'[c] \in Nudged(Parked(pc)) /\ \A d \in Conn \ {c} : th'[d] \in Nudged(th[d])
  BY <1>0, <1>3, SetNudges
<1>4. CASE GivesUp(c)
  <2>1. \E pc \in {"idle", "closed"} : th' = HandOver([th EXCEPT ![c] = Parked(pc)], waiters)
    BY <1>4 DEF GivesUp, Abandon
  <2> QED BY <1>0, <1>3, <1>4, <2>1 DEF OwnThread
<1>5. CASE Blocks(c, s, rq)
  <2>1. PICK x : th' = [th EXCEPT ![c] = x] /\ x.pc = "waiting" /\ x.session = s /\ x.rq = rq
    BY <1>5 DEF Blocks
  <2>2. th'[c] = x /\ \A d \in Conn \ {c} : th'[d] = th[d]
    BY <1>0, <2>1
  <2> QED BY <1>5, <2>1, <2>2 DEF OwnThread, Nudged
<1>6. CASE Joins(c, s, rq)
  <2> DEFINE x == Thread("locking", s, rq, {}, EmptyQueues)
  <2>1. th' = [th EXCEPT ![c] = x]
    BY <1>6 DEF Joins, Enqueue
  <2>2. th'[c] = x /\ \A d \in Conn \ {c} : th'[d] = th[d]
    BY <1>0, <2>1
  <2> QED BY <1>6, <2>1, <2>2 DEF OwnThread, Nudged
<1>7. CASE Answers(c, s, rq)
  <2>1. \E t \in {th, TraceAdd(th)} :
           th' = HandOver(Broadcast([t EXCEPT ![c] = Parked("idle")]), waiters)
    BY <1>7 DEF Answers
  <2> QED BY <1>3, <1>7, <2>1 DEF OwnThread
<1>8. CASE Reads(c, s, rq)
  <2> DEFINE x == Thread("reading", s, rq, {}, EmptyQueues)
  <2>1. th' = [th EXCEPT ![c] = x]
    BY <1>8 DEF Reads, DoGet
  <2>2. th'[c] = x /\ \A d \in Conn \ {c} : th'[d] = th[d]
    BY <1>0, <2>1
  <2> QED BY <1>8, <2>1, <2>2 DEF OwnThread, Nudged
<1>9. CASE Performs(c, s, rq)
  <2>1. PICK t \in {th, TraceAdd(th)} : \E qs, ops, newq : Perform(c, s, rq, t, qs, ops, newq)
    BY <1>9 DEF Performs
  <2>2. PICK qs, ops, newq : Perform(c, s, rq, t, qs, ops, newq)
    BY <2>1
  <2>3. CASE Finish(c, s, rq, t, newq)
    <3>1. \E pc \in {"idle", "closed"} :
             th' = HandOver(Broadcast([t EXCEPT ![c] = Parked(pc)]), waiters)
      BY <2>3 DEF Finish
    <3> QED BY <1>3, <1>9, <3>1 DEF OwnThread
  <2>4. CASE th' = [t EXCEPT ![c] = Thread("pushing", s, rq, ops, newq)]
    <3> DEFINE x == Thread("pushing", s, rq, ops, newq)
    <3>1. ThreadsGood(t) /\ DOMAIN t = Conn
      BY <1>0, TraceAddGood DEF ThreadsGood
    <3>2. th'[c] = x
      BY <2>4, <3>1
    <3>3. ThreadGood(x)
      BY <3>2 DEF ThreadsGood
    <3>4. th' = [t EXCEPT ![c] = x]
      BY <2>4
    <3> HIDE DEF x
    <3>5. \A d \in Conn \ {c} : th'[d] \in Nudged(th[d])
      BY <1>0, <3>3, <3>4, SetNudges
    <3> QED BY <1>9, <3>2, <3>5 DEF OwnThread, x
  <2> QED BY <2>2, <2>3, <2>4 DEF Perform
<1>10. CASE Pushes(c, s, rq)
  <2>1. PICK ops \in SUBSET th[c].ops :
           th' = [th EXCEPT ![c] = Thread("pushing", s, rq, ops, th[c].newq)]
    BY <1>10 DEF Pushes
  <2>2. th'[c] = Thread("pushing", s, rq, ops, th[c].newq) /\ \A d \in Conn \ {c} : th'[d] = th[d]
    BY <1>0, <2>1
  <2> QED BY <1>10, <2>2 DEF OwnThread, Nudged
<1>11. CASE Publishes(c, s, rq)
  <2>1. \E pc \in {"idle", "closed"} :
           th' = HandOver(Broadcast([th EXCEPT ![c] = Parked(pc)]), waiters)
    BY <1>11 DEF Publishes, Finish
  <2> QED BY <1>0, <1>3, <1>11, <2>1 DEF OwnThread
<1>12. CASE Traces(c, s, rq)
  <2>1. CASE /\ rq.type = "Trace"
             /\ th' = HandOver([th EXCEPT ![c] = Thread("tracing", s, rq, {}, EmptyQueues)], waiters)
    <3> DEFINE x == Thread("tracing", s, rq, {}, EmptyQueues)
    <3>1. ThreadGood(x)
      BY ThreadIntro, EmptyGood DEF PC
    <3>2. th' = HandOver([th EXCEPT ![c] = x], waiters)
      BY <2>1
    <3> HIDE DEF x
    <3>3. th'[c] \in Nudged(x) /\ \A d \in Conn \ {c} : th'[d] \in Nudged(th[d])
      BY <1>0, <3>1, <3>2, SetNudges
    <3> QED BY <1>12, <2>1, <3>3 DEF OwnThread, x
  <2>2. CASE \E w \in Waiters : th' = HandOver(Broadcast([th EXCEPT ![c] = Parked("idle")]), w)
    BY <1>0, <1>12, <2>2, SetNudges DEF OwnThread
  <2>3. CASE th[c].pc = "traced" /\ th' = [th EXCEPT ![c] = At(th[c], "relock")]
    <3>1. th'[c] = At(th[c], "relock") /\ \A d \in Conn \ {c} : th'[d] = th[d]
      BY <1>0, <2>3
    <3> QED BY <1>12, <2>3, <3>1 DEF OwnThread, Nudged
  <2> QED BY <1>12, <2>1, <2>2, <2>3 DEF Traces
<1> QED BY <1>1, <1>2, <1>4, <1>5, <1>6, <1>7, <1>8, <1>9, <1>10, <1>11, <1>12 DEF Kind

-----------------------------------------------------------------------------
(* Asked is an invariant *)

\* A nudged thread is still about the same.
LEMMA NudgedOK ==
  ASSUME NEW d \in Conn, NEW x, ThreadGood(x), NEW y \in Nudged(x), NEW ss, NEW ts,
         RequestOK(d, x, ss), \A s : <<d, s>> \in ss => <<d, s>> \in ts
  PROVE  RequestOK(d, y, ts)
<1>1. /\ y.session = x.session /\ y.rq = x.rq
      /\ y.pc \in {x.pc, "woken", "traced", "granted", "regain"}
      /\ y.pc = "woken" => x.pc \in {"waiting", "woken"}
      /\ y.pc = "granted" => x.pc \in {"locking", "granted"}
  BY NudgedKeeps
<1>2. x.rq.type = "Cleanup" /\ y.pc = "traced" => FALSE
  BY DEF Nudged, RequestOK, At, Thread
<1> QED BY <1>1, <1>2 DEF RequestOK

\* A parked thread, nudged or not, is about nothing.
LEMMA ParkedOK ==
  ASSUME NEW c \in Conn, NEW pc \in {"new", "idle", "closed"}, NEW y \in Nudged(Parked(pc)), NEW ss
  PROVE  RequestOK(c, y, ss) /\ y.rq.type = "None" /\ y.session = None
         /\ y.pc \in {pc, "regain"}
<1>1. Parked(pc).session = None /\ Parked(pc).rq = NoRequest /\ Parked(pc).pc = pc
  BY DEF Parked, Thread
<1>2. y.session = None /\ y.rq = NoRequest /\ y.pc \in {pc, "regain"}
  BY <1>1 DEF Nudged, At, Thread
<1> QED BY <1>2 DEF RequestOK, NoRequest

\* What is asked: the request of a step is one c may make.
LEMMA ServingOK ==
  ASSUME Inv, Asked, NEW c \in Conn, NEW s, NEW rq, Serving(c, s, rq)
  PROVE  /\ rq.type \notin {"None", "Ack", "Cleanup"} => rq \in Request[c]
         /\ s # None /\ rq.type # "Cleanup" => <<c, s>> \in sessions /\ <<c, s>> \in sessions'
         /\ rq.type = "Cleanup" => s # None
         /\ \A d \in Conn \ {c} : \A x : <<d, x>> \in sessions => <<d, x>> \in sessions'
         /\ \A p \in sessions' : [type |-> "Login", session |-> p[2]] \in Request[p[1]]
<1>1. ASSUME Asking(c, s, rq)
      PROVE  /\ rq.type # "Ack" => rq \in Request[c]
             /\ s # None => <<c, s>> \in sessions
             /\ rq.type # "Cleanup"
  <2>1. (rq \in Request[c] /\ rq.type # "Ack") \/ rq.type = "Ack"
    BY <1>1 DEF Asking, Askable
  <2>2. s # None => <<c, s>> \in sessions
    BY <1>1 DEF Asking, GetSession, SessionsOf
  <2> QED BY <2>1, <2>2, SwitchAssumption
<1>2. ASSUME Going(c, s, rq)
      PROVE  /\ rq.type \notin {"None", "Ack", "Cleanup"} => rq \in Request[c]
             /\ s # None /\ rq.type # "Cleanup" => <<c, s>> \in sessions
             /\ rq.type = "Cleanup" => s # None
  BY <1>2 DEF Going, Asked, RequestOK
<1>3. \A p \in sessions : [type |-> "Login", session |-> p[2]] \in Request[p[1]]
  BY DEF Asked
<1>4. CASE (Asking(c, s, rq) \/ Going(c, s, rq)) /\ UNCHANGED sessions
  BY <1>1, <1>2, <1>3, <1>4
<1>5. CASE (Asking(c, s, rq) \/ Going(c, s, rq)) /\ rq.type = "Login"
                                                 /\ sessions' = sessions \cup {<<c, rq.session>>}
  <2>1. rq \in Request[c] /\ rq = [type |-> "Login", session |-> rq.session]
    <3>1. rq \in Request[c]
      BY <1>1, <1>2, <1>5
    <3> QED BY <1>5, <3>1, SwitchAssumption
  <2>2. ASSUME NEW p \in sessions'
        PROVE  [type |-> "Login", session |-> p[2]] \in Request[p[1]]
    <3>1. CASE p = <<c, rq.session>>
      <4>1. p[1] = c /\ p[2] = rq.session
        BY <3>1
      <4>2. [type |-> "Login", session |-> p[2]] = rq
        BY <2>1, <4>1
      <4> QED BY <2>1, <4>1, <4>2
    <3> QED BY <1>3, <1>5, <3>1
  <2> QED BY <1>1, <1>2, <1>5, <2>1, <2>2
<1>6. CASE Closing(c, s, rq)
  BY <1>3, <1>6 DEF Closing
<1> QED BY <1>4, <1>5, <1>6 DEF Serving

\* A connection that opens or closes, and a critical section that is given up,
\* leave the thread parked.
LEMMA EndsParked ==
  ASSUME Inv, NEW c \in Conn, Opens(c) \/ Shuts(c) \/ GivesUp(c)
  PROVE  \E pc \in {"idle", "closed"} : th'[c] \in Nudged(Parked(pc))
<1>1. DOMAIN th = Conn /\ waiters \in Waiters /\ Shared
  BY DEF Inv, Shared, ThreadsGood
<1>2. \A pc \in {"idle", "closed"} : ThreadGood(Parked(pc))
  BY ParkedGood DEF PC
<1>3. CASE Opens(c) \/ Shuts(c)
  BY <1>1, <1>3 DEF Opens, Shuts, Nudged
<1>4. CASE GivesUp(c)
  <2>1. \E pc \in {"idle", "closed"} : th' = HandOver([th EXCEPT ![c] = Parked(pc)], waiters)
    BY <1>4 DEF GivesUp, Abandon
  <2> QED BY <1>1, <1>2, <2>1, SetNudges
<1> QED BY <1>3, <1>4

\* A step of a client keeps it.
LEMMA ClientAsked ==
  ASSUME Inv, Asked, Inv', NEW c \in Conn, Client(c), status' = "up"
  PROVE  Asked'
<1>1. ThreadsGood(th') /\ ThreadsGood(th) /\ \A d \in Conn : ThreadGood(th[d])
  BY DEF Inv, Shared, ThreadsGood
<1>2. ASSUME NEW s \in Session \cup {None}, NEW rq \in AnyRequest,
             Opens(c) \/ Shuts(c) \/ GivesUp(c) \/ Kind(c, s, rq),
             \A d \in Conn \ {c} : \A x : <<d, x>> \in sessions => <<d, x>> \in sessions',
             RequestOK(c, th'[c], sessions'),
             \A p \in sessions' : [type |-> "Login", session |-> p[2]] \in Request[p[1]]
      PROVE  Asked'
  <2>1. \A d \in Conn \ {c} : th'[d] \in Nudged(th[d])
    BY <1>1, <1>2, KindThreads
  <2>2. \A d \in Conn \ {c} : RequestOK(d, th'[d], sessions')
    BY <1>1, <1>2, <2>1, NudgedOK DEF Asked
  <2> QED BY <1>2, <2>2 DEF Asked
<1>3. CASE Opens(c) \/ Shuts(c) \/ GivesUp(c)
  <2>1. PICK s, rq : s = None /\ rq = NoRequest
    OBVIOUS
  <2>2. s \in Session \cup {None} /\ rq \in AnyRequest
    BY <2>1 DEF NoRequest, AnyRequest
  <2>3. \A d \in Conn \ {c} : \A x : <<d, x>> \in sessions => <<d, x>> \in sessions'
    BY <1>3 DEF Opens, Connect, Shuts, GivesUp
  <2>4. \A p \in sessions' : [type |-> "Login", session |-> p[2]] \in Request[p[1]]
    BY <1>3 DEF Opens, Connect, Shuts, GivesUp, Asked
  <2>5. \E pc \in {"idle", "closed"} : th'[c] \in Nudged(Parked(pc))
    BY <1>3, EndsParked
  <2>6. RequestOK(c, th'[c], sessions')
    BY <2>5, ParkedOK
  <2> QED BY <1>2, <1>3, <2>2, <2>3, <2>4, <2>6
<1>4. ASSUME NEW s, NEW rq, Serving(c, s, rq), Kind(c, s, rq)
      PROVE  Asked'
  <2>1. s \in Session \cup {None} /\ rq \in AnyRequest
    BY <1>4 DEF Serving
  <2>2. /\ rq.type \notin {"None", "Ack", "Cleanup"} => rq \in Request[c]
        /\ s # None /\ rq.type # "Cleanup" => <<c, s>> \in sessions /\ <<c, s>> \in sessions'
        /\ rq.type = "Cleanup" => s # None
        /\ \A d \in Conn \ {c} : \A x : <<d, x>> \in sessions => <<d, x>> \in sessions'
        /\ \A p \in sessions' : [type |-> "Login", session |-> p[2]] \in Request[p[1]]
    BY <1>4, ServingOK
  <2>3. OwnThread(c, s, rq)
    BY <1>1, <1>4, <2>1, KindThreads
  <2>4. RequestOK(c, th'[c], sessions')
    <3>1. CASE \E pc \in {"idle", "closed"} : th'[c] \in Nudged(Parked(pc))
      BY <3>1, ParkedOK
    <3>2. ASSUME NEW pc \in {"locking", "reading", "pushing"}, NEW ops, NEW newq,
                 th'[c] = Thread(pc, s, rq, ops, newq), pc = "reading" => rq.type = "Get"
          PROVE  RequestOK(c, th'[c], sessions')
      <4>1. th'[c].pc = pc /\ th'[c].session = s /\ th'[c].rq = rq
        BY <3>2 DEF Thread
      <4> QED BY <2>2, <3>2, <4>1 DEF RequestOK
    <3>3. CASE Blocks(c, s, rq) /\ th'[c].pc = "waiting" /\ th'[c].session = s /\ th'[c].rq = rq
      BY <2>2, <3>3 DEF Blocks, RequestOK
    <3>4. CASE Reads(c, s, rq) /\ th'[c] = Thread("reading", s, rq, {}, EmptyQueues)
      BY <3>2, <3>4 DEF Reads, DoGet
    <3>5. CASE rq.type = "Trace" /\ th'[c] \in Nudged(Thread("tracing", s, rq, {}, EmptyQueues))
      <4>1. th'[c].session = s /\ th'[c].rq = rq /\ th'[c].pc \in {"tracing", "traced", "regain"}
        BY <3>5 DEF Nudged, At, Thread
      <4> QED BY <2>2, <3>5, <4>1 DEF RequestOK
    <3>6. CASE th[c].pc = "traced" /\ th'[c] = At(th[c], "relock") /\ Traces(c, s, rq)
      <4>1. th'[c].session = th[c].session /\ th'[c].rq = th[c].rq /\ th'[c].pc = "relock"
        BY <3>6 DEF At, Thread
      <4>2. RequestOK(c, th[c], sessions) /\ UNCHANGED sessions
        BY <3>6 DEF Asked, Traces
      <4> QED BY <3>6, <4>1, <4>2 DEF RequestOK
    <3> QED BY <2>3, <3>1, <3>2, <3>3, <3>4, <3>5, <3>6 DEF OwnThread
  <2> QED BY <1>2, <1>4, <2>1, <2>2, <2>4
<1> QED BY <1>3, <1>4, ClientKinds

\* A client's step is one of a switch that is up; it writes no file but the
\* redo-log, and the other steps touch no connection.
LEMMA ClientUp ==
  ASSUME NEW c \in Conn, Client(c)
  PROVE  /\ status = "up" /\ status' = "up"
         /\ UNCHANGED <<dump, onDisk, flush, crashes>>
  BY DEF Client, Up, Connect, Arrive, ThreadStep, Wake, Resume, Read, TraceRelock,
         TraceResume, PushStep, Push, TransferTimeout, TraceTimeout, PushFail, Close, diskVars

\* The steps that are no client's.
LEMMA OtherSteps ==
  ASSUME [Next]_vars, ~\E c \in Conn : Client(c)
  PROVE  \/ UNCHANGED vars \/ Flush \/ Start \/ Replayed \/ Crash
  BY DEF Next, Client

\* All but a crash leave the connections alone.
LEMMA OtherStepsKeep ==
  ASSUME UNCHANGED vars \/ Flush \/ Start \/ Replayed
  PROVE  /\ UNCHANGED <<sessions, locked, waiters, th, cursor, seen, promised>>
         /\ ~Replayed => UNCHANGED queues
  BY DEF vars, Flush, FlushBegin, FlushApply, FlushSave, FlushAdvance, Start, Replayed

\* A crash closes every connection.
LEMMA CrashThreads ==
  ASSUME Inv, Crash
  PROVE  /\ sessions' = {} /\ waiters' = <<>> /\ ~locked'
         /\ \A c \in Conn : th'[c] = Parked("closed") \/ (th[c].pc = "new" /\ th'[c] = th[c])
  BY DEF Crash

\* Asked is inductive.
LEMMA AskedStep ==
  ASSUME Inv, Asked, Inv', [Next]_vars
  PROVE  Asked'
<1>1. ASSUME NEW c \in Conn, Client(c)
      PROVE  Asked'
  BY <1>1, ClientAsked, ClientUp
<1>2. CASE UNCHANGED vars \/ Flush \/ Start \/ Replayed
  <2>1. UNCHANGED <<sessions, th>>
    BY <1>2, OtherStepsKeep
  <2>2. status' # "up" => status # "up"
    BY <1>2 DEF vars, Flush, FlushBegin, FlushApply, FlushSave, FlushAdvance, Start, Replayed
  <2> QED BY <2>1, <2>2 DEF Asked
<1>3. CASE Crash
  <2>1. /\ sessions' = {}
        /\ \A c \in Conn : th'[c] = Parked("closed") \/ (th[c].pc = "new" /\ th'[c] = th[c])
    BY <1>3, CrashThreads
  <2>2. \A c \in Conn : RequestOK(c, Parked("closed"), sessions')
    BY ParkedOK DEF Nudged
  <2>3. \A c \in Conn : RequestOK(c, th'[c], sessions')
    BY <2>1, <2>2 DEF Asked, RequestOK
  <2> QED BY <2>1, <2>3 DEF Asked
<1> QED BY <1>1, <1>2, <1>3, OtherSteps

-----------------------------------------------------------------------------
(* The mutex *)

\* One thread at a time is in the critical section, whoever asked for the mutex
\* is in its queue, once, and the mutex is free only if nobody has or wants it.
Exclusive ==
    /\ \A c \in Conn : th[c].pc \notin {"tracing", "traced", "relock", "regain"}
    /\ \A i \in DOMAIN waiters : ~waiters[i].bg /\ th[waiters[i].conn].pc = "locking"
    /\ \A i, j \in DOMAIN waiters : waiters[i].conn = waiters[j].conn => i = j
    /\ \A c \in Conn : th[c].pc = "locking" => \E i \in DOMAIN waiters : waiters[i].conn = c
    /\ \A c, d \in Conn : th[c].pc \in Inside /\ th[d].pc \in Inside => c = d
    /\ ~locked => waiters = <<>> /\ \A c \in Conn : th[c].pc \notin Inside

\* The thread of c has the mutex, or finds it free, in this step.
Has(c) == Enters(c) \/ th[c].pc \in Inside

\* With exclusion there are four shapes of steps: c moves outside of the critical
\* section, or within it; joins the queue of the mutex; takes the mutex or keeps
\* it; leaves.
Moves(c) ==
    /\ \E x : /\ th' = [th EXCEPT ![c] = x]
              /\ \/ /\ th[c].pc \in {"new", "idle", "woken"}
                    /\ x.pc \in {"idle", "waiting", "closed"}
                 \/ th[c].pc = "pushing" /\ x.pc = "pushing"
    /\ UNCHANGED <<locked, waiters>>

Queues(c) ==
    /\ \E x : th' = [th EXCEPT ![c] = x] /\ x.pc = "locking"
    /\ th[c].pc \in Outside /\ locked /\ UNCHANGED locked
    /\ waiters' = Append(waiters, [conn |-> c, bg |-> FALSE])

Holds(c) ==
    /\ \E x : th' = [th EXCEPT ![c] = x] /\ x.pc \in {"pushing", "reading"}
    /\ Enters(c) /\ locked' = TRUE /\ UNCHANGED waiters

Leaves(c) ==
    /\ \E pc \in {"idle", "closed"} :
          LET t == [th EXCEPT ![c] = Parked(pc)]
          IN  th' \in {HandOver(t, waiters), HandOver(Broadcast(t), waiters)}
    /\ Has(c) /\ Unlock(waiters)

\* With exclusion no Trace is blocked.
LEMMA NoTraceToWake ==
  ASSUME Inv, Exclusive
  PROVE  TraceAdd(th) = th
<1>1. th = [d \in Conn |-> th[d]]
  BY DEF Inv, Shared, ThreadsGood, IsMap
<1> QED BY <1>1 DEF TraceAdd, Exclusive

\* Every kind of step has one of the shapes.
LEMMA Shapes ==
  ASSUME Inv, Asked, NoTrace, Exclusive, NEW c \in Conn, Client(c)
  PROVE  Moves(c) \/ Queues(c) \/ Holds(c) \/ Leaves(c)
<1>1. CASE Opens(c) \/ Shuts(c)
  <2>1. Parked("idle").pc = "idle" /\ Parked("closed").pc = "closed"
    BY DEF Parked, Thread
  <2>2. UNCHANGED <<locked, waiters>>
    BY <1>1 DEF Opens, Connect, Shuts
  <2>3. CASE Opens(c)
    BY <2>1, <2>2, <2>3 DEF Opens, Moves
  <2>4. CASE Shuts(c)
    BY <2>1, <2>2, <2>4 DEF Shuts, Moves
  <2> QED BY <1>1, <2>3, <2>4
<1>2. CASE GivesUp(c)
  BY <1>2 DEF GivesUp, Abandon, Leaves, Has, Inside
<1>3. ASSUME NEW s, NEW rq, Serving(c, s, rq), Kind(c, s, rq)
      PROVE  Moves(c) \/ Queues(c) \/ Holds(c) \/ Leaves(c)
  <2>1. TraceAdd(th) = th
    BY NoTraceToWake
  <2>2. rq.type # "Trace"
    <3>1. rq.type \notin {"None", "Ack", "Cleanup"} => rq \in Request[c]
      BY <1>3, ServingOK
    <3> QED BY <3>1 DEF NoTrace
  <2>3. CASE Blocks(c, s, rq)
    BY <2>3 DEF Blocks, Moves
  <2>4. CASE Joins(c, s, rq)
    <3>1. Thread("locking", s, rq, {}, EmptyQueues).pc = "locking"
      BY DEF Thread
    <3> QED BY <2>4, <3>1 DEF Joins, Enqueue, Queues
  <2>5. CASE Answers(c, s, rq)
    <3>1. /\ th' = HandOver(Broadcast([th EXCEPT ![c] = Parked("idle")]), waiters)
          /\ Has(c) /\ Unlock(waiters)
      BY <2>1, <2>2, <2>5 DEF Answers, Has, Inside
    <3> QED BY <3>1 DEF Leaves
  <2>6. CASE Reads(c, s, rq)
    <3>1. Thread("reading", s, rq, {}, EmptyQueues).pc = "reading"
      BY DEF Thread
    <3> QED BY <2>6, <3>1 DEF Reads, DoGet, Holds
  <2>7. CASE Performs(c, s, rq)
    <3>1. PICK qs, ops, newq : Perform(c, s, rq, th, qs, ops, newq)
      BY <2>1, <2>7 DEF Performs
    <3>2. Enters(c)
      BY <2>7 DEF Performs
    <3>3. CASE Finish(c, s, rq, th, newq)
      BY <3>2, <3>3 DEF Finish, Leaves, Has
    <3>4. CASE /\ th' = [th EXCEPT ![c] = Thread("pushing", s, rq, ops, newq)]
               /\ locked' = TRUE /\ UNCHANGED waiters
      <4>1. Thread("pushing", s, rq, ops, newq).pc = "pushing"
        BY DEF Thread
      <4> QED BY <3>2, <3>4, <4>1 DEF Holds
    <3> QED BY <3>1, <3>3, <3>4 DEF Perform
  <2>8. CASE Pushes(c, s, rq)
    <3>1. PICK x : th' = [th EXCEPT ![c] = x] /\ x.pc = "pushing"
      BY <2>8 DEF Pushes, Thread
    <3> QED BY <2>8, <3>1 DEF Pushes, Moves
  <2>9. CASE Publishes(c, s, rq)
    BY <2>9 DEF Publishes, Finish, Leaves, Has, Inside
  <2>10. ~Traces(c, s, rq)
    BY <2>2 DEF Traces, Exclusive
  <2> QED BY <1>3, <2>3, <2>4, <2>5, <2>6, <2>7, <2>8, <2>9, <2>10 DEF Kind
<1> QED BY <1>1, <1>2, <1>3, ClientKinds

\* The tail of a queue, by index.
LEMMA TailByIndex ==
  ASSUME NEW D, NEW w \in Seq(D), w # <<>>
  PROVE  /\ Head(w) = w[1] /\ w[1] \in D /\ 1 \in DOMAIN w /\ Len(w) \in Nat /\ DOMAIN w = 1 .. Len(w)
         /\ DOMAIN Tail(w) = 1 .. Len(w) - 1
         /\ \A i \in 1 .. Len(w) - 1 : Tail(w)[i] = w[i + 1]
  BY HeadTailProperties, LenProperties

\* Who leaves is not in the queue of the mutex, and hands the mutex to the first
\* there; the others keep their places, but for woken Transfers.
LEMMA LeavesPlaces ==
  ASSUME Inv, Exclusive, NEW c \in Conn, Leaves(c)
  PROVE  /\ \A i \in DOMAIN waiters : waiters[i].conn # c
         /\ \E pc \in {"idle", "closed"} : th'[c] = Parked(pc)
         /\ \A d \in Conn \ {c} :
               IF waiters # <<>> /\ d = waiters[1].conn THEN th'[d] = At(th[d], "granted")
               ELSE th'[d] = th[d] \/ (th[d].pc = "waiting" /\ th'[d] = At(th[d], "woken"))
<1>1. \A i \in DOMAIN waiters : waiters[i].conn # c
  BY DEF Leaves, Has, Enters, Outside, Inside, Exclusive
<1>2. PICK pc \in {"idle", "closed"} :
         th' \in {HandOver([th EXCEPT ![c] = Parked(pc)], waiters),
                  HandOver(Broadcast([th EXCEPT ![c] = Parked(pc)]), waiters)}
  BY DEF Leaves
<1> DEFINE t == [th EXCEPT ![c] = Parked(pc)]
<1>3. PICK u : u \in {t, Broadcast(t)} /\ th' = HandOver(u, waiters)
  BY <1>2
<1>4. DOMAIN th = Conn /\ waiters \in Seq([conn : Conn, bg : BOOLEAN])
  BY DEF Inv, Shared, ThreadsGood, Waiters
<1>5. /\ DOMAIN u = Conn /\ u[c] = Parked(pc)
      /\ \A d \in Conn \ {c} : u[d] = th[d] \/ (th[d].pc = "waiting" /\ u[d] = At(th[d], "woken"))
  <2>1. t[c] = Parked(pc) /\ DOMAIN t = Conn /\ \A d \in Conn \ {c} : t[d] = th[d]
    BY <1>4
  <2>2. Parked(pc).pc # "waiting"
    BY DEF Parked, Thread
  <2> HIDE DEF t
  <2> QED BY <1>3, <2>1, <2>2 DEF Broadcast
<1> HIDE DEF t
<1>6. CASE waiters = <<>>
  <2>1. th' = u
    BY <1>3, <1>6 DEF HandOver
  <2> QED BY <1>1, <1>5, <1>6, <2>1
<1>7. CASE waiters # <<>>
  <2> DEFINE h == waiters[1].conn
  <2>1. Head(waiters) = waiters[1] /\ 1 \in DOMAIN waiters
    BY <1>4, <1>7, TailByIndex
  <2>2. h \in Conn /\ ~waiters[1].bg /\ th[h].pc = "locking" /\ h # c
    <3>1. waiters[1] \in [conn : Conn, bg : BOOLEAN]
      BY <1>4, <1>7, TailByIndex
    <3>2. ~waiters[1].bg /\ th[h].pc = "locking"
      BY <2>1 DEF Exclusive
    <3> QED BY <1>1, <2>1, <3>1, <3>2
  <2>3. u[h] = th[h]
    BY <1>5, <2>2
  <2>4. th' = [u EXCEPT ![h] = At(u[h], "granted")]
    BY <1>3, <1>7, <2>1, <2>2, <2>3 DEF HandOver
  <2> HIDE DEF h
  <2>5. th'[h] = At(th[h], "granted") /\ \A d \in Conn \ {h} : th'[d] = u[d]
    BY <1>5, <2>2, <2>3, <2>4
  <2> QED BY <1>1, <1>5, <1>7, <2>2, <2>5 DEF h
<1> QED BY <1>6, <1>7

\* Who waits for the mutex is a connection.
LEMMA WaiterConn ==
  ASSUME Inv
  PROVE  \A i \in DOMAIN waiters : waiters[i].conn \in Conn
<1> DEFINE D == [conn : Conn, bg : BOOLEAN]
<1>1. waiters \in Seq(D)
  BY DEF Inv, Shared, Waiters
<1>2. \A x \in D : x.conn \in Conn
  OBVIOUS
<1> HIDE DEF D
<1>3. \A i \in DOMAIN waiters : waiters[i] \in D
  BY <1>1, LenProperties
<1> QED BY <1>2, <1>3

\* A thread is where it is put.
LEMMA Places ==
  /\ \A pc : Parked(pc).pc = pc
  /\ \A x, pc : At(x, pc).pc = pc
  /\ \A pc, s, rq, ops, newq : Thread(pc, s, rq, ops, newq).pc = pc
  BY DEF Parked, At, Thread

\* Leaving keeps exclusion,
LEMMA LeavesExclusive ==
  ASSUME Inv, Exclusive, NEW c \in Conn, Leaves(c)
  PROVE  Exclusive'
<1> DEFINE h == waiters[1].conn
<1>1. /\ \A i \in DOMAIN waiters : waiters[i].conn # c
      /\ \E pc \in {"idle", "closed"} : th'[c] = Parked(pc)
      /\ \A d \in Conn \ {c} :
            IF waiters # <<>> /\ d = h THEN th'[d] = At(th[d], "granted")
            ELSE th'[d] = th[d] \/ (th[d].pc = "waiting" /\ th'[d] = At(th[d], "woken"))
  BY LeavesPlaces
<1>2. /\ th'[c].pc \in {"idle", "closed"}
      /\ \A d \in Conn \ {c} :
            IF waiters # <<>> /\ d = h THEN th'[d].pc = "granted"
            ELSE th'[d].pc = th[d].pc \/ (th[d].pc = "waiting" /\ th'[d].pc = "woken")
  <2>1. th'[c].pc \in {"idle", "closed"}
    BY <1>1, Places
  <2> QED BY <1>1, <2>1, Places
<1>3. locked' = (waiters # <<>>) /\ waiters' = IF waiters = <<>> THEN <<>> ELSE Tail(waiters)
  BY DEF Leaves, Unlock
<1>4. \A d \in Conn \ {c} : th[d].pc \notin Inside
  <2>1. CASE th[c].pc \in Inside
    BY <2>1 DEF Exclusive
  <2>2. CASE ~locked
    BY <2>2 DEF Exclusive
  <2> QED BY <2>1, <2>2 DEF Leaves, Has, Enters, Inside
<1>5. \A d \in Conn : th'[d].pc \notin {"tracing", "traced", "relock", "regain"}
  BY <1>2 DEF Exclusive
<1>6. CASE waiters = <<>>
  <2>1. waiters' = <<>> /\ ~locked'
    BY <1>3, <1>6
  <2>2. \A d \in Conn : th'[d].pc \notin Inside \cup {"locking"}
    BY <1>2, <1>4, <1>6 DEF Exclusive, Inside
  <2> QED BY <1>5, <2>1, <2>2 DEF Exclusive
<1>7. CASE waiters # <<>>
  <2>0. waiters \in Seq([conn : Conn, bg : BOOLEAN])
    BY DEF Inv, Shared, Waiters
  <2>1. /\ 1 \in DOMAIN waiters /\ Len(waiters) \in Nat /\ DOMAIN waiters = 1 .. Len(waiters)
        /\ waiters' = Tail(waiters) /\ locked' = TRUE
        /\ DOMAIN waiters' = 1 .. Len(waiters) - 1
        /\ \A i \in 1 .. Len(waiters) - 1 : waiters'[i] = waiters[i + 1]
    BY <1>3, <1>7, <2>0, TailByIndex
  <2>2. waiters[1] \in [conn : Conn, bg : BOOLEAN]
    BY <1>7, <2>0, TailByIndex
  <2>3. h \in Conn /\ h # c
    BY <1>1, <2>1, <2>2
  <2>4. \A i \in DOMAIN waiters : ~waiters[i].bg /\ th[waiters[i].conn].pc = "locking"
                                  /\ waiters[i].conn \in Conn \ {c}
    BY <1>1, WaiterConn DEF Exclusive
  <2> HIDE DEF h
  <2>5. \A i \in DOMAIN waiters' : i \in Nat /\ i + 1 \in DOMAIN waiters /\ waiters'[i] = waiters[i + 1]
                                   /\ waiters[i + 1].conn # h
    BY <2>1 DEF Exclusive, h
  <2>6. \A i \in DOMAIN waiters' : ~waiters'[i].bg /\ th'[waiters'[i].conn].pc = "locking"
    BY <1>2, <2>4, <2>5
  <2>7. \A i, j \in DOMAIN waiters' : waiters'[i].conn = waiters'[j].conn => i = j
    BY <2>1, <2>5 DEF Exclusive
  <2>8. ASSUME NEW d \in Conn, th'[d].pc = "locking"
        PROVE  \E i \in DOMAIN waiters' : waiters'[i].conn = d
    <3>1. d # h /\ th[d].pc = "locking"
      BY <1>2, <1>7, <2>3, <2>8
    <3>2. PICK i \in DOMAIN waiters : waiters[i].conn = d
      BY <3>1 DEF Exclusive
    <3>3. i # 1 /\ i \in 1 .. Len(waiters)
      BY <2>1, <3>1, <3>2 DEF h
    <3>4. i - 1 \in DOMAIN waiters' /\ waiters'[i - 1] = waiters[i]
      BY <2>1, <3>3
    <3> QED BY <3>2, <3>4
  <2>9. \A d \in Conn : th'[d].pc \in Inside => d = h
    BY <1>2, <1>4, <1>7 DEF Inside
  <2> QED BY <1>5, <2>1, <2>6, <2>7, <2>8, <2>9 DEF Exclusive
<1> QED BY <1>6, <1>7

\* so does every other shape,
LEMMA ShapesExclusive ==
  ASSUME Inv, Exclusive, NEW c \in Conn, Moves(c) \/ Queues(c) \/ Holds(c) \/ Leaves(c)
  PROVE  Exclusive'
<1>0. DOMAIN th = Conn /\ waiters \in Seq([conn : Conn, bg : BOOLEAN])
  BY DEF Inv, Shared, ThreadsGood, Waiters
<1>a. \A i \in DOMAIN waiters : waiters[i].conn \in Conn
  BY WaiterConn
<1>1. CASE Moves(c)
  <2>1. /\ UNCHANGED <<locked, waiters>> /\ \A d \in Conn \ {c} : th'[d] = th[d]
        /\ \/ th[c].pc \in {"new", "idle", "woken"} /\ th'[c].pc \in {"idle", "waiting", "closed"}
           \/ th[c].pc = "pushing" /\ th'[c].pc = "pushing"
    BY <1>0, <1>1 DEF Moves
  <2> QED BY <1>a, <2>1 DEF Exclusive, Inside
<1>2. CASE Queues(c)
  <2> DEFINE e == [conn |-> c, bg |-> FALSE]
  <2>1. /\ \A d \in Conn \ {c} : th'[d] = th[d]
        /\ th'[c].pc = "locking" /\ th[c].pc \in Outside /\ locked /\ locked'
        /\ waiters' = Append(waiters, e)
    BY <1>0, <1>2 DEF Queues
  <2>2. /\ Len(waiters) \in Nat /\ DOMAIN waiters = 1 .. Len(waiters)
        /\ DOMAIN waiters' = 1 .. Len(waiters) + 1
        /\ waiters'[Len(waiters) + 1] = e
        /\ \A i \in DOMAIN waiters : waiters'[i] = waiters[i]
    BY <1>0, <2>1, AppendProperties, LenProperties
  <2>3. e.conn = c /\ ~e.bg
    OBVIOUS
  <2> HIDE DEF e
  <2>4. \A i \in DOMAIN waiters' : (i \in DOMAIN waiters /\ waiters'[i] = waiters[i])
                                   \/ (i = Len(waiters) + 1 /\ waiters'[i] = e)
    BY <2>2
  <2>5. \A i \in DOMAIN waiters : waiters[i].conn # c
    BY <2>1 DEF Exclusive, Outside
  <2>6. \A i \in DOMAIN waiters' : ~waiters'[i].bg /\ th'[waiters'[i].conn].pc = "locking"
    BY <1>a, <2>1, <2>3, <2>4, <2>5 DEF Exclusive
  <2>7. \A i, j \in DOMAIN waiters' : waiters'[i].conn = waiters'[j].conn => i = j
    BY <2>3, <2>4, <2>5 DEF Exclusive
  <2>8. ASSUME NEW d \in Conn, th'[d].pc = "locking"
        PROVE  \E i \in DOMAIN waiters' : waiters'[i].conn = d
    <3>1. CASE d = c
      <4>1. Len(waiters) + 1 \in DOMAIN waiters'
        BY <2>2
      <4> QED BY <2>2, <2>3, <3>1, <4>1
    <3>2. CASE d # c
      <4>1. PICK i \in DOMAIN waiters : waiters[i].conn = d
        BY <2>1, <2>8, <3>2 DEF Exclusive
      <4> QED BY <2>2, <4>1
    <3> QED BY <3>1, <3>2
  <2>9. /\ \A d \in Conn : th'[d].pc \notin {"tracing", "traced", "relock", "regain"}
        /\ \A d \in Conn : th'[d].pc \in Inside => th[d].pc \in Inside
    BY <2>1 DEF Exclusive, Inside
  <2> QED BY <2>1, <2>6, <2>7, <2>8, <2>9 DEF Exclusive
<1>3. CASE Holds(c)
  <2>1. /\ \A d \in Conn \ {c} : th'[d] = th[d]
        /\ th'[c].pc \in {"pushing", "reading"} /\ locked' /\ UNCHANGED waiters
        /\ Enters(c)
    BY <1>0, <1>3 DEF Holds
  <2>2. \A d \in Conn \ {c} : th[d].pc \notin Inside
    BY <2>1 DEF Exclusive, Enters, Inside
  <2>3. \A i \in DOMAIN waiters : waiters[i].conn # c
    BY <2>1 DEF Exclusive, Enters, Outside
  <2> QED BY <1>a, <2>1, <2>2, <2>3 DEF Exclusive, Inside
<1> QED BY <1>1, <1>2, <1>3, LeavesExclusive

\* and the steps that are no client's.
LEMMA ExclusiveStep ==
  ASSUME Inv, Asked, NoTrace, Exclusive, [Next]_vars
  PROVE  Exclusive'
<1>1. ASSUME NEW c \in Conn, Client(c)
      PROVE  Exclusive'
  BY <1>1, Shapes, ShapesExclusive
<1>2. CASE UNCHANGED vars \/ Flush \/ Start \/ Replayed
  <2>1. UNCHANGED <<locked, waiters, th>>
    BY <1>2, OtherStepsKeep
  <2> QED BY <2>1 DEF Exclusive
<1>3. CASE Crash
  <2>1. /\ waiters' = <<>> /\ ~locked'
        /\ \A c \in Conn : th'[c] = Parked("closed") \/ (th[c].pc = "new" /\ th'[c] = th[c])
    BY <1>3, CrashThreads
  <2>2. \A c \in Conn : th'[c].pc \in {"new", "closed"}
    BY <2>1 DEF Parked, Thread
  <2> QED BY <2>1, <2>2 DEF Exclusive, Inside
<1> QED BY <1>1, <1>2, <1>3, OtherSteps

-----------------------------------------------------------------------------
(* The directory a thread keeps aside *)

\* What a handler of session s that performs rq makes of the directory qs.  A
\* Send has taken its identifier already.
Doing(rq, s, qs, newq) ==
    \/ rq.type = "CreateTransient" /\ s # None /\ newq = DirectoryAdd(qs, s, rq.name)
    \/ rq.type = "CreatePersistent" /\ newq = DirectoryAdd(qs, None, rq.name)
    \/ rq.type = "Destroy" /\ s # None /\ newq = RemoveAll(qs, {rq.name})
    \/ rq.type = "Ack" /\ newq = InternalAck(qs, rq.name, rq.id)
    \/ /\ rq.type = "Send" /\ s # None /\ Exists(qs, rq.name)
       /\ newq = InternalSend(qs, s, rq.name, qs.queues[rq.name].next_id - 1, rq.msg)
    \/ rq.type = "Cleanup" /\ newq = RemoveAll(qs, rq.names)

\* The directory a thread is about to publish is still what its request makes
\* of the present one, however long the pushes take.
Aside ==
    \A c \in Conn : th[c].pc = "pushing" =>
        Persistent /\ Doing(th[c].rq, th[c].session, queues, th[c].newq)

\* What a step makes of the directory: nothing; what a request makes of it; or,
\* while the operations are pushed, one more identifier taken.
Effect(c, s, rq) ==
    \/ /\ UNCHANGED queues
       /\ UNCHANGED promised \/ promised' = PromisedAfter(None, rq, queues)
       /\ rq.type = "Cleanup" => th'[c].rq = rq /\ th'[c].session = s
       /\ th'[c].pc = "pushing" => /\ th[c].pc = "pushing"
                                  /\ th'[c].rq = th[c].rq
                                  /\ th'[c].session = th[c].session
                                  /\ th'[c].newq = th[c].newq
                                  /\ th'[c].ops \subseteq th[c].ops
    \/ /\ Has(c) /\ th'[c].pc # "pushing"
       /\ \E qs, ops : Prepared(s, rq, qs, ops, queues')
       /\ promised' = PromisedAfter(s, rq, queues')
    \/ /\ Has(c) /\ Persistent /\ UNCHANGED promised
       /\ \E ops, newq : /\ th'[c] = Thread("pushing", s, rq, ops, newq)
                         /\ Prepared(s, rq, queues', ops, newq)
    \/ /\ th[c].pc = "pushing" /\ th'[c].pc # "pushing"
       /\ queues' = th[c].newq /\ s = th[c].session /\ rq = th[c].rq
       /\ promised' = PromisedAfter(s, rq, queues')

\* Every kind of step has an effect.
LEMMA KindEffect ==
  ASSUME Inv, Inv', Asked, NEW c \in Conn, NEW s, NEW rq, Serving(c, s, rq), Kind(c, s, rq)
  PROVE  Effect(c, s, rq)
<1>1. s \in Session \cup {None} /\ rq \in AnyRequest /\ ThreadsGood(th')
  BY DEF Serving, Inv, Shared
<1>3. th[c].pc = "pushing" => s = th[c].session /\ rq = th[c].rq
  BY DEF Serving, Asking, Going, Closing
<1>a. \A pc \in {"idle", "closed"} : \A y \in Nudged(Parked(pc)) : y.pc # "pushing"
  BY ParkedOK
<1>4. CASE Performs(c, s, rq)
  <2>a. PICK t \in {th, TraceAdd(th)} : \E qs, ops, newq :
           Prepared(s, rq, qs, ops, newq) /\ Perform(c, s, rq, t, qs, ops, newq)
    BY <1>4 DEF Performs
  <2>1. PICK qs, ops, newq :
           Prepared(s, rq, qs, ops, newq) /\ Perform(c, s, rq, t, qs, ops, newq)
    BY <2>a
  <2>2. Has(c)
    BY <1>4 DEF Performs, Has
  <2>3. CASE Finish(c, s, rq, t, newq)
    <3>1. queues' = newq /\ promised' = PromisedAfter(s, rq, newq)
      BY <2>3 DEF Finish
    <3>2. th'[c].pc # "pushing"
      <4>1. \E pc \in {"idle", "closed"} :
               th' = HandOver(Broadcast([t EXCEPT ![c] = Parked(pc)]), waiters)
        BY <2>3 DEF Finish
      <4>2. Shared /\ waiters \in Waiters /\ \A pc \in {"idle", "closed"} : ThreadGood(Parked(pc))
        BY ParkedGood DEF Inv, Shared, PC
      <4>3. \E pc \in {"idle", "closed"} : th'[c] \in Nudged(Parked(pc))
        BY <4>1, <4>2, SetNudges
      <4> QED BY <1>a, <4>3
    <3> QED BY <2>1, <2>2, <3>1, <3>2 DEF Effect
  <2>4. CASE /\ Persistent /\ queues' = qs
             /\ th' = [t EXCEPT ![c] = Thread("pushing", s, rq, ops, newq)]
             /\ UNCHANGED promised
    <3>1. DOMAIN t = Conn
      BY TraceAddGood DEF Inv, Shared, ThreadsGood
    <3>2. th'[c] = Thread("pushing", s, rq, ops, newq)
      BY <2>4, <3>1
    <3>3. Prepared(s, rq, queues', ops, newq)
      BY <2>1, <2>4
    <3> QED BY <2>2, <2>4, <3>2, <3>3 DEF Effect
  <2> QED BY <2>1, <2>3, <2>4 DEF Perform
<1>5. CASE Publishes(c, s, rq)
  <2>1. queues' = th[c].newq /\ promised' = PromisedAfter(s, rq, queues') /\ th[c].pc = "pushing"
    BY <1>5 DEF Publishes, Finish
  <2>2. th'[c].pc # "pushing"
    <3>1. \E pc \in {"idle", "closed"} :
             th' = HandOver(Broadcast([th EXCEPT ![c] = Parked(pc)]), waiters)
      BY <1>5 DEF Publishes, Finish
    <3>2. /\ Shared /\ waiters \in Waiters /\ th \in {th, TraceAdd(th)}
          /\ \A pc \in {"idle", "closed"} : ThreadGood(Parked(pc))
      BY ParkedGood DEF Inv, Shared, PC
    <3>3. \E pc \in {"idle", "closed"} : th'[c] \in Nudged(Parked(pc))
      BY <3>1, <3>2, SetNudges
    <3> QED BY <1>a, <3>3
  <2> QED BY <1>3, <2>1, <2>2 DEF Effect
<1>6. CASE Pushes(c, s, rq)
  <2>1. \E ops \in SUBSET th[c].ops : th'[c] = Thread("pushing", s, rq, ops, th[c].newq)
    BY <1>6 DEF Pushes, Inv, Shared, ThreadsGood
  <2>2. /\ th[c].pc = "pushing" /\ th'[c].rq = th[c].rq /\ th'[c].session = th[c].session
        /\ th'[c].newq = th[c].newq /\ th'[c].ops \subseteq th[c].ops
        /\ UNCHANGED <<queues, promised>>
    BY <1>3, <1>6, <2>1 DEF Pushes, Thread
  <2> QED BY <1>3, <2>2 DEF Effect
<1>7. CASE Blocks(c, s, rq) \/ Joins(c, s, rq) \/ Reads(c, s, rq)
  <2>1. /\ th'[c].pc # "pushing" /\ UNCHANGED <<queues, promised>>
        /\ rq.type = "Cleanup" => th'[c].rq = rq /\ th'[c].session = s
    <3>1. DOMAIN th = Conn
      BY DEF Inv, Shared, ThreadsGood
    <3>2. CASE Blocks(c, s, rq)
      BY <3>1, <3>2 DEF Blocks
    <3>3. CASE Joins(c, s, rq)
      <4>1. th'[c] = Thread("locking", s, rq, {}, EmptyQueues) /\ UNCHANGED <<queues, promised>>
        BY <3>1, <3>3 DEF Joins, Enqueue
      <4> QED BY <4>1 DEF Thread
    <3>4. CASE Reads(c, s, rq)
      BY <3>1, <3>4, Places DEF Reads, DoGet
    <3> QED BY <1>7, <3>2, <3>3, <3>4
  <2> QED BY <2>1 DEF Effect
<1>8. CASE Answers(c, s, rq)
  <2>1. \E t \in {th, TraceAdd(th)} :
           th' = HandOver(Broadcast([t EXCEPT ![c] = Parked("idle")]), waiters)
    BY <1>8 DEF Answers
  <2>2. Shared /\ waiters \in Waiters /\ ThreadGood(Parked("idle"))
    BY ParkedGood DEF Inv, Shared, PC
  <2>3. th'[c] \in Nudged(Parked("idle"))
    BY <2>1, <2>2, SetNudges
  <2>4. UNCHANGED queues /\ promised' = PromisedAfter(None, rq, queues) /\ rq.type # "Cleanup"
    BY <1>8 DEF Answers
  <2> QED BY <1>a, <2>3, <2>4 DEF Effect
<1>9. CASE Traces(c, s, rq)
  <2>1. UNCHANGED <<queues, promised>>
    BY <1>9 DEF Traces
  <2>a. rq.type # "Cleanup"
    BY <1>9 DEF Traces, Serving, Asking, Going, Closing, Asked, RequestOK
  <2>2. th'[c].pc # "pushing"
    <3>1. CASE th'[c] = At(th[c], "relock")
      BY <3>1, Places
    <3>2. CASE th' = HandOver([th EXCEPT ![c] = Thread("tracing", s, rq, {}, EmptyQueues)], waiters)
      <4> DEFINE x == Thread("tracing", s, rq, {}, EmptyQueues)
      <4>1. ThreadGood(x) /\ x.pc = "tracing"
        BY <1>1, ThreadIntro, EmptyGood, Places DEF PC
      <4>2. th' = HandOver([th EXCEPT ![c] = x], waiters)
        BY <3>2
      <4>3. Shared /\ waiters \in Waiters /\ th \in {th, TraceAdd(th)}
        BY DEF Inv, Shared
      <4> HIDE DEF x
      <4>4. th'[c] \in Nudged(x)
        BY <4>1, <4>2, <4>3, SetNudges
      <4> QED BY <4>1, <4>4, Places DEF Nudged
    <3>3. CASE \E w \in Waiters : th' = HandOver(Broadcast([th EXCEPT ![c] = Parked("idle")]), w)
      <4>1. Shared /\ th \in {th, TraceAdd(th)} /\ ThreadGood(Parked("idle"))
        BY ParkedGood DEF Inv, Shared, PC
      <4>2. th'[c] \in Nudged(Parked("idle"))
        BY <3>3, <4>1, SetNudges
      <4> QED BY <1>a, <4>2
    <3>4. DOMAIN th = Conn
      BY DEF Inv, Shared, ThreadsGood
    <3> QED BY <1>9, <3>1, <3>2, <3>3, <3>4 DEF Traces
  <2> QED BY <2>1, <2>2, <2>a DEF Effect
<1> QED BY <1>4, <1>5, <1>6, <1>7, <1>8, <1>9 DEF Kind

\* So has every step of a client.
LEMMA ClientEffect ==
  ASSUME Inv, Inv', Asked, NEW c \in Conn, Client(c)
  PROVE  /\ \A d \in Conn \ {c} : th'[d] \in Nudged(th[d])
         /\ \/ /\ Opens(c) \/ Shuts(c) \/ GivesUp(c)
               /\ UNCHANGED <<queues, promised>> /\ th'[c].pc # "pushing"
            \/ \E s, rq : Serving(c, s, rq) /\ Kind(c, s, rq) /\ Effect(c, s, rq)
<1>1. ThreadsGood(th') /\ Shared /\ waiters \in Waiters /\ DOMAIN th = Conn
  BY DEF Inv, Shared, ThreadsGood
<1>2. CASE Opens(c) \/ Shuts(c) \/ GivesUp(c)
  <2>1. None \in Session \cup {None} /\ NoRequest \in AnyRequest
    BY DEF NoRequest, AnyRequest
  <2>2. \A d \in Conn \ {c} : th'[d] \in Nudged(th[d])
    BY <1>1, <1>2, <2>1, KindThreads
  <2>3. UNCHANGED <<queues, promised>>
    BY <1>2 DEF Opens, Connect, Shuts, GivesUp, Abandon
  <2>4. \A pc \in {"idle", "closed"} : \A y \in Nudged(Parked(pc)) : y.pc # "pushing"
    BY ParkedOK
  <2>5. th'[c].pc # "pushing"
    BY <1>2, <2>4, EndsParked
  <2> QED BY <1>2, <2>2, <2>3, <2>5
<1>3. ASSUME NEW s, NEW rq, Serving(c, s, rq), Kind(c, s, rq)
      PROVE  Effect(c, s, rq) /\ \A d \in Conn \ {c} : th'[d] \in Nudged(th[d])
  <2>1. s \in Session \cup {None} /\ rq \in AnyRequest
    BY <1>3 DEF Serving
  <2> QED BY <1>1, <1>3, <2>1, KindEffect, KindThreads
<1> QED BY <1>2, <1>3, ClientKinds

\* A request that begins to push is what it prepared.
LEMMA PreparedDoing ==
  ASSUME Inv, NEW s, NEW rq, NEW qs, NEW ops, NEW newq, Prepared(s, rq, qs, ops, newq)
  PROVE  Doing(rq, s, qs, newq)
<1>1. CASE rq.type = "Send"
  <2> DEFINE n == rq.name
             k == queues.queues[n].next_id
  <2>1. /\ s # None /\ Exists(queues, n) /\ qs = TakeNextId(queues, n)
        /\ newq = InternalSend(qs, s, n, k, rq.msg)
    BY <1>1 DEF Prepared
  <2>2. k \in Nat
    BY <2>1 DEF Inv, Shared, Good, DirectoryOK, QueueOK, Exists
  <2>3. Exists(qs, n) /\ qs.queues[n].next_id = k + 1
    BY <2>1 DEF TakeNextId, WithQueue, MapAdd, Queue, Exists
  <2> HIDE DEF k
  <2>4. (k + 1) - 1 = k
    BY <2>2
  <2> QED BY <1>1, <2>1, <2>3, <2>4 DEF Doing
<1>2. CASE rq.type # "Send"
  BY <1>2 DEF Prepared, Doing
<1> QED BY <1>1, <1>2

\* The directories kept aside stay up to date: nobody but the thread that has
\* the mutex changes the published one.
LEMMA AsideStep ==
  ASSUME Inv, Inv', Quiet, Asked, Aside, Persistent => Exclusive, [Next]_vars
  PROVE  Aside'
<1>1. ASSUME NEW c \in Conn, Client(c)
      PROVE  Aside'
  <2> SUFFICES ASSUME NEW d \in Conn, th'[d].pc = "pushing"
               PROVE  Persistent /\ Doing(th'[d].rq, th'[d].session, queues', th'[d].newq)
    BY DEF Aside
  <2>0. ThreadGood(th[d])
    BY DEF Inv, Shared, ThreadsGood
  <2>1. CASE d # c
    <3>1. th'[d] = th[d]
      BY <1>1, <2>0, <2>1, ClientEffect, NudgedKeeps
    <3>2. Persistent /\ Doing(th[d].rq, th[d].session, queues, th[d].newq) /\ th[d].pc = "pushing"
      BY <3>1 DEF Aside
    <3>3. ~Has(c) /\ th[c].pc # "pushing"
      BY <2>1, <3>2 DEF Has, Enters, Inside, Exclusive
    <3>4. UNCHANGED queues
      BY <1>1, <3>3, ClientEffect DEF Effect
    <3> QED BY <3>1, <3>2, <3>4
  <2>2. CASE d = c
    <3>1. PICK s, rq : Effect(c, s, rq)
      BY <1>1, <2>2, ClientEffect
    <3>2. CASE /\ UNCHANGED queues /\ th[c].pc = "pushing" /\ th'[c].rq = th[c].rq
               /\ th'[c].session = th[c].session /\ th'[c].newq = th[c].newq
      BY <2>2, <3>2 DEF Aside
    <3>3. ASSUME NEW ops, NEW newq, Persistent, th'[c] = Thread("pushing", s, rq, ops, newq),
                 Prepared(s, rq, queues', ops, newq)
          PROVE  Persistent /\ Doing(th'[d].rq, th'[d].session, queues', th'[d].newq)
      <4>1. th'[c].rq = rq /\ th'[c].session = s /\ th'[c].newq = newq
        BY <3>3 DEF Thread
      <4> QED BY <2>2, <3>3, <4>1, PreparedDoing
    <3> QED BY <2>2, <3>1, <3>2, <3>3 DEF Effect
  <2> QED BY <2>1, <2>2
<1>2. CASE UNCHANGED vars \/ Flush \/ Start
  <2>1. UNCHANGED <<th, queues>>
    BY <1>2, OtherStepsKeep DEF Flush, FlushBegin, FlushApply, FlushSave, FlushAdvance, Start, vars
  <2> QED BY <2>1 DEF Aside
<1>3. CASE Replayed
  <2>1. UNCHANGED th /\ status # "up"
    BY <1>3 DEF Replayed
  <2> QED BY <2>1 DEF Quiet, Aside
<1>4. CASE Crash
  <2>1. \A c \in Conn : th'[c].pc \in {"closed", "new"}
    BY <1>4, CrashThreads, Places
  <2> QED BY <2>1 DEF Aside
<1> QED BY <1>1, <1>2, <1>3, <1>4, OtherSteps

-----------------------------------------------------------------------------
(* The switch as a store of mailboxes *)

\* Before it is up for the first time, a switch that does not come back from a
\* crash has nothing on disk.
Fresh ==
    status # "up" =>
        /\ queues = EmptyQueues
        /\ Persistent => /\ dump = EmptyQueues /\ onDisk = EmptyQueues
                         /\ journal = <<>> /\ flush.pc = "idle"
        /\ ~Persistent => status = "down"

\* Identifiers stay below the queue's counter,
Below(qs) ==
    \A n \in DOMAIN qs.queues : \A i \in DOMAIN qs.queues[n].q : i < qs.queues[n].next_id

\* and below the one a Send under way has taken.
Pending(qs, n) ==
    /\ Exists(qs, n) /\ qs.queues[n].next_id > 0
    /\ \A i \in DOMAIN qs.queues[n].q : i < qs.queues[n].next_id - 1

IdsBelow ==
    /\ Below(queues)
    /\ \A c \in Conn : th[c].pc = "pushing" /\ th[c].rq.type = "Send" =>
          Pending(queues, th[c].rq.name)

\* Fresh is inductive for a switch that keeps nothing or is not started again.
LEMMA FreshStep ==
  ASSUME Inv, Fresh, [Next]_vars, Persistent => ~MayCrash
  PROVE  Fresh'
<1>1. ASSUME NEW c \in Conn, Client(c)
      PROVE  Fresh'
  BY <1>1, ClientUp DEF Fresh
<1>2. CASE UNCHANGED vars
  BY <1>2 DEF vars, Fresh
<1>3. CASE Flush
  BY <1>3 DEF Flush, FlushBegin, FlushApply, FlushSave, FlushAdvance, Fresh, Running
<1>4. CASE Start
  <2>1. LoadQueues(EmptyQueues) = EmptyQueues
    BY DEF LoadQueues, EmptyQueues, EmptyMap
  <2> QED BY <1>4, <2>1 DEF Start, Fresh
<1>5. CASE Replayed
  BY <1>5 DEF Replayed, Fresh
<1>6. CASE Crash
  BY <1>6 DEF Crash, Fresh
<1> QED BY <1>1, <1>2, <1>3, <1>4, <1>5, <1>6, OtherSteps

\* Creating a queue: it is empty and the others are as they were.
LEMMA AddQueues ==
  ASSUME NEW qs, NEW o, NEW n
  PROVE  LET new == DirectoryAdd(qs, o, n)
         IN  IF Exists(qs, n) THEN new = qs
             ELSE /\ DOMAIN new.queues = DOMAIN qs.queues \cup {n}
                  /\ new.queues[n] = Make(o)
                  /\ \A m \in DOMAIN qs.queues : new.queues[m] = qs.queues[m]
  BY DEF DirectoryAdd, MapAdd, Exists

\* Removing queues: the others are as they were.
LEMMA RemoveQueues ==
  ASSUME NEW qs, NEW S
  PROVE  LET new == RemoveAll(qs, S)
         IN  /\ DOMAIN new.queues = DOMAIN qs.queues \ S
             /\ \A m \in DOMAIN qs.queues \ S : new.queues[m] = qs.queues[m]
  BY DEF RemoveAll, MapRemove

\* Replacing a queue: the others are as they were.
LEMMA WithQueues ==
  ASSUME NEW qs, NEW n \in DOMAIN qs.queues, NEW x
  PROVE  LET new == WithQueue(qs, n, x)
         IN  /\ DOMAIN new.queues = DOMAIN qs.queues
             /\ new.queues[n] = x
             /\ \A m \in DOMAIN qs.queues \ {n} : new.queues[m] = qs.queues[m]
  BY DEF WithQueue, MapAdd

\* A request finds the identifiers it needs.
LEMMA PreparedBelow ==
  ASSUME Inv, Below(queues), NEW s, NEW rq, NEW qs, NEW ops, NEW newq,
         Prepared(s, rq, qs, ops, newq)
  PROVE  Below(qs) /\ (rq.type = "Send" => Pending(qs, rq.name))
<1>1. CASE rq.type = "Send"
  <2> DEFINE n == rq.name
             x == queues.queues[n]
             y == Queue(x.q, x.owner, x.next_id + 1)
  <2>1. Exists(queues, n) /\ n \in DOMAIN queues.queues /\ qs = WithQueue(queues, n, y)
    BY <1>1 DEF Prepared, TakeNextId, Exists
  <2>2. QueueOK(x) /\ x.next_id \in Nat /\ DOMAIN x.q \subseteq Nat
    BY <2>1 DEF Inv, Shared, Good, DirectoryOK, QueueOK, IsMap
  <2>3. y.q = x.q /\ y.next_id = x.next_id + 1 /\ \A i \in DOMAIN x.q : i < x.next_id
    BY <2>1 DEF Queue, Below
  <2> HIDE DEF y
  <2>4. /\ DOMAIN qs.queues = DOMAIN queues.queues /\ qs.queues[n] = y
        /\ \A m \in DOMAIN queues.queues \ {n} : qs.queues[m] = queues.queues[m]
    BY <2>1, WithQueues
  <2>5. y.next_id > 0 /\ \A i \in DOMAIN y.q : i < y.next_id - 1 /\ i < y.next_id
    BY <2>2, <2>3
  <2>6. Pending(qs, n)
    BY <2>1, <2>4, <2>5 DEF Pending, Exists
  <2>7. Below(qs)
    BY <2>4, <2>5 DEF Below
  <2> QED BY <2>6, <2>7
<1>2. CASE rq.type # "Send"
  BY <1>2 DEF Prepared
<1> QED BY <1>1, <1>2

\* What a request makes of the directory keeps identifiers below the counters.
LEMMA DoingBelow ==
  ASSUME NEW qs, Good(qs), Below(qs), NEW s, NEW rq, NEW newq, Doing(rq, s, qs, newq),
         rq.type = "Send" => Pending(qs, rq.name)
  PROVE  Below(newq)
<1>1. ASSUME NEW o, NEW n, newq = DirectoryAdd(qs, o, n)
      PROVE  Below(newq)
  <2>1. Make(o).q = EmptyMap /\ DOMAIN EmptyMap = {}
    BY DEF Make, Queue, EmptyMap
  <2> QED BY <1>1, <2>1, AddQueues DEF Below
<1>2. ASSUME NEW S, newq = RemoveAll(qs, S)
      PROVE  Below(newq)
  BY <1>2, RemoveQueues DEF Below
<1>3. ASSUME NEW n, NEW i, newq = InternalAck(qs, n, i)
      PROVE  Below(newq)
  <2> DEFINE x == qs.queues[n]
             y == Queue(MapRemove(x.q, {i}), x.owner, x.next_id)
  <2>1. CASE Exists(qs, n) /\ i \in DOMAIN qs.queues[n].q
    <3>1. n \in DOMAIN qs.queues /\ newq = WithQueue(qs, n, y)
      BY <1>3, <2>1 DEF InternalAck, Exists
    <3>2. y.next_id = x.next_id /\ DOMAIN y.q \subseteq DOMAIN x.q
      BY DEF Queue, MapRemove
    <3> HIDE DEF y
    <3>3. /\ DOMAIN newq.queues = DOMAIN qs.queues /\ newq.queues[n] = y
          /\ \A m \in DOMAIN qs.queues \ {n} : newq.queues[m] = qs.queues[m]
      BY <3>1, WithQueues
    <3> QED BY <3>1, <3>2, <3>3 DEF Below
  <2>2. CASE ~(Exists(qs, n) /\ i \in DOMAIN qs.queues[n].q)
    BY <1>3, <2>2 DEF InternalAck
  <2> QED BY <2>1, <2>2
<1>4. CASE /\ rq.type = "Send" /\ Exists(qs, rq.name)
           /\ newq = InternalSend(qs, s, rq.name, qs.queues[rq.name].next_id - 1, rq.msg)
  <2> DEFINE n == rq.name
             x == qs.queues[n]
             e == [origin |-> s, message |-> rq.msg]
             y == Queue(MapAdd(x.q, x.next_id - 1, e), x.owner, x.next_id)
  <2>1. n \in DOMAIN qs.queues /\ newq = WithQueue(qs, n, y)
    BY <1>4 DEF InternalSend, Exists
  <2>2. x.next_id \in Nat
    BY <2>1 DEF Good, DirectoryOK, QueueOK
  <2>3. y.next_id = x.next_id /\ DOMAIN y.q = DOMAIN x.q \cup {x.next_id - 1}
    BY DEF Queue, MapAdd
  <2> HIDE DEF y
  <2>4. /\ DOMAIN newq.queues = DOMAIN qs.queues /\ newq.queues[n] = y
        /\ \A m \in DOMAIN qs.queues \ {n} : newq.queues[m] = qs.queues[m]
    BY <2>1, WithQueues
  <2>5. \A i \in DOMAIN y.q : i < y.next_id
    BY <2>1, <2>2, <2>3 DEF Below
  <2> QED BY <2>4, <2>5 DEF Below
<1> QED BY <1>1, <1>2, <1>3, <1>4 DEF Doing

\* IdsBelow is inductive.
LEMMA IdsBelowStep ==
  ASSUME Inv, Inv', Quiet, Asked, Aside, IdsBelow, Fresh, [Next]_vars,
         Persistent => Exclusive, Persistent => ~MayCrash
  PROVE  IdsBelow'
<1>1. ASSUME NEW c \in Conn, Client(c)
      PROVE  IdsBelow'
  <2>0. Good(queues)
    BY DEF Inv, Shared
  <2>1. CASE UNCHANGED queues /\ th'[c].pc # "pushing"
    <3>1. ASSUME NEW d \in Conn, th'[d].pc = "pushing", th'[d].rq.type = "Send"
          PROVE  Pending(queues', th'[d].rq.name)
      <4>1. d # c /\ ThreadGood(th[d])
        BY <2>1, <3>1 DEF Inv, Shared, ThreadsGood
      <4>2. th'[d] = th[d]
        BY <1>1, <3>1, <4>1, ClientEffect, NudgedKeeps
      <4> QED BY <2>1, <3>1, <4>2 DEF IdsBelow
    <3> QED BY <2>1, <3>1 DEF IdsBelow
  <2>2. ASSUME NEW s, NEW rq, Effect(c, s, rq)
        PROVE  IdsBelow'
    <3>1. CASE /\ UNCHANGED queues
               /\ th'[c].pc = "pushing" => th[c].pc = "pushing" /\ th'[c].rq = th[c].rq
      <4>1. ASSUME NEW d \in Conn, th'[d].pc = "pushing", th'[d].rq.type = "Send"
            PROVE  Pending(queues', th'[d].rq.name)
        <5>1. ThreadGood(th[d])
          BY DEF Inv, Shared, ThreadsGood
        <5>2. th[d].pc = "pushing" /\ th'[d].rq = th[d].rq
          BY <1>1, <3>1, <4>1, <5>1, ClientEffect, NudgedKeeps
        <5> QED BY <3>1, <4>1, <5>2 DEF IdsBelow
      <4> QED BY <3>1, <4>1 DEF IdsBelow
    <3>2. ASSUME Has(c) \/ th[c].pc = "pushing", NEW d \in Conn \ {c}
          PROVE  th'[d].pc # "pushing"
      <4>1. SUFFICES ASSUME th'[d].pc = "pushing" PROVE FALSE
        OBVIOUS
      <4>2. ThreadGood(th[d])
        BY DEF Inv, Shared, ThreadsGood
      <4>3. th'[d] = th[d]
        BY <1>1, <4>1, <4>2, ClientEffect, NudgedKeeps
      <4>4. Persistent
        BY <4>1, <4>3 DEF Aside
      <4> QED BY <3>2, <4>1, <4>3, <4>4 DEF Has, Enters, Inside, Exclusive
    <3>3. ASSUME NEW qs, NEW ops, Has(c), th'[c].pc # "pushing", Prepared(s, rq, qs, ops, queues')
          PROVE  IdsBelow'
      <4>1. Below(qs) /\ (rq.type = "Send" => Pending(qs, rq.name)) /\ Doing(rq, s, qs, queues')
        BY <3>3, PreparedBelow, PreparedDoing DEF IdsBelow
      <4>2. Good(qs)
        <5>1. CASE rq.type = "Send"
          <6>1. Exists(queues, rq.name) /\ qs = TakeNextId(queues, rq.name)
            BY <3>3, <5>1 DEF Prepared
          <6>2. rq.name \in Name
            BY <6>1, <2>0 DEF Good, DirectoryOK, IsMap, Exists
          <6> QED BY <2>0, <6>1, <6>2, TakeGood
        <5>2. CASE rq.type # "Send"
          BY <2>0, <3>3, <5>2 DEF Prepared
        <5> QED BY <5>1, <5>2
      <4>3. Below(queues')
        BY <4>1, <4>2, DoingBelow
      <4> QED BY <3>2, <3>3, <4>3 DEF IdsBelow
    <3>4. ASSUME NEW ops, NEW newq, Has(c), th'[c] = Thread("pushing", s, rq, ops, newq),
                 Prepared(s, rq, queues', ops, newq)
          PROVE  IdsBelow'
      <4>1. Below(queues') /\ (rq.type = "Send" => Pending(queues', rq.name))
        BY <3>4, PreparedBelow DEF IdsBelow
      <4>2. th'[c].rq = rq
        BY <3>4 DEF Thread
      <4> QED BY <3>2, <3>4, <4>1, <4>2 DEF IdsBelow
    <3>5. CASE /\ th[c].pc = "pushing" /\ th'[c].pc # "pushing"
               /\ queues' = th[c].newq /\ s = th[c].session /\ rq = th[c].rq
      <4>1. Doing(rq, s, queues, queues') /\ (rq.type = "Send" => Pending(queues, rq.name))
        BY <3>5 DEF Aside, IdsBelow
      <4>2. Below(queues')
        BY <2>0, <4>1, DoingBelow DEF IdsBelow
      <4> QED BY <3>2, <3>5, <4>2 DEF IdsBelow
    <3> QED BY <2>2, <3>1, <3>3, <3>4, <3>5 DEF Effect
  <2> QED BY <1>1, <2>1, <2>2, ClientEffect
<1>2. CASE UNCHANGED vars \/ Flush \/ Start
  <2>1. UNCHANGED <<th, queues>>
    BY <1>2, OtherStepsKeep DEF Flush, FlushBegin, FlushApply, FlushSave, FlushAdvance, Start, vars
  <2> QED BY <2>1 DEF IdsBelow
<1>3. CASE Replayed \/ Crash
  <2>1. queues' = EmptyQueues
    BY <1>3 DEF Replayed, Crash, Fresh
  <2>2. \A c \in Conn : th'[c].pc \in {"closed", "new"}
    BY <1>3, CrashThreads, Places DEF Replayed, Quiet
  <2>3. Below(queues')
    BY <2>1 DEF Below, EmptyQueues, EmptyMap
  <2> QED BY <2>2, <2>3 DEF IdsBelow
<1> QED BY <1>1, <1>2, <1>3, OtherSteps

\* The mailboxes of the directory, and their counters.
Boxes    == [n \in DOMAIN queues.queues |-> queues.queues[n].q]
Counters == [n \in DOMAIN queues.queues |-> queues.queues[n].next_id]

\* A step of the store, or none.
StoreStep == Store!Next \/ UNCHANGED <<Boxes, Counters>>

\* A queue is created, or was there.
LEMMA StoreCreates ==
  ASSUME NEW o, NEW n \in Name, queues' = DirectoryAdd(queues, o, n)
  PROVE  StoreStep
<1>1. CASE Exists(queues, n)
  BY <1>1 DEF DirectoryAdd, StoreStep, Boxes, Counters
<1>2. CASE ~Exists(queues, n)
  <2>1. /\ n \notin DOMAIN queues.queues
        /\ DOMAIN queues'.queues = DOMAIN queues.queues \cup {n}
        /\ queues'.queues[n] = Make(o)
        /\ \A m \in DOMAIN queues.queues : queues'.queues[m] = queues.queues[m]
    BY <1>2, AddQueues DEF Exists
  <2>2. Make(o).q = [i \in {} |-> {}] /\ Make(o).next_id = 0
    BY DEF Make, Queue, EmptyMap
  <2>3. Store!Create(n)
    BY <2>1, <2>2 DEF Store!Create, Store!With
  <2> QED BY <2>3 DEF StoreStep, Store!Next
<1> QED BY <1>1, <1>2

\* Queues are removed.
LEMMA StoreRemoves ==
  ASSUME NEW S \in SUBSET Name, queues' = RemoveAll(queues, S)
  PROVE  StoreStep
<1>1. /\ DOMAIN queues'.queues = DOMAIN queues.queues \ S
      /\ \A m \in DOMAIN queues.queues \ S : queues'.queues[m] = queues.queues[m]
  BY RemoveQueues
<1>2. Store!Remove(S)
  BY <1>1 DEF Store!Remove, Store!Without
<1> QED BY <1>2 DEF StoreStep, Store!Next

\* One queue is replaced by another.
LEMMA StoreReplaces ==
  ASSUME NEW n \in DOMAIN queues.queues, NEW y, queues' = WithQueue(queues, n, y)
  PROVE  /\ Boxes' = [Boxes EXCEPT ![n] = y.q]
         /\ Counters' = [Counters EXCEPT ![n] = y.next_id]
         /\ n \in DOMAIN Boxes
         /\ Boxes[n] = queues.queues[n].q /\ Counters[n] = queues.queues[n].next_id
<1>1. /\ DOMAIN queues'.queues = DOMAIN queues.queues /\ queues'.queues[n] = y
      /\ \A m \in DOMAIN queues.queues \ {n} : queues'.queues[m] = queues.queues[m]
  BY WithQueues
<1> QED BY <1>1 DEF Boxes, Counters

\* A message is acknowledged, or there is none.
LEMMA StoreAcknowledges ==
  ASSUME NEW n, NEW i, queues' = InternalAck(queues, n, i)
  PROVE  StoreStep
<1> DEFINE x == queues.queues[n]
           y == Queue(MapRemove(x.q, {i}), x.owner, x.next_id)
<1>1. CASE Exists(queues, n) /\ i \in DOMAIN x.q
  <2>1. n \in DOMAIN queues.queues /\ queues' = WithQueue(queues, n, y)
    BY <1>1 DEF InternalAck, Exists
  <2>2. y.q = MapRemove(x.q, {i}) /\ y.next_id = x.next_id
    BY DEF Queue
  <2> HIDE DEF y
  <2>3. /\ Boxes' = [Boxes EXCEPT ![n] = y.q] /\ n \in DOMAIN Boxes
        /\ Counters' = [Counters EXCEPT ![n] = y.next_id]
        /\ Boxes[n] = x.q /\ Counters[n] = x.next_id
    BY <2>1, StoreReplaces
  <2>4. Boxes' = [Boxes EXCEPT ![n] = Store!Without(Boxes[n], {i})]
    BY <2>2, <2>3 DEF MapRemove, Store!Without
  <2>5. UNCHANGED Counters
    BY <2>2, <2>3 DEF Counters
  <2>6. Store!Acknowledge(n, i)
    BY <1>1, <2>3, <2>4, <2>5 DEF Store!Acknowledge, Boxes, Counters
  <2> QED BY <1>1, <2>3, <2>6 DEF StoreStep, Store!Next, Boxes
<1>2. CASE ~(Exists(queues, n) /\ i \in DOMAIN x.q)
  BY <1>2 DEF InternalAck, StoreStep, Boxes, Counters
<1> QED BY <1>1, <1>2

\* An identifier is taken.
LEMMA StoreAllocates ==
  ASSUME NEW n \in Name, Exists(queues, n), queues' = TakeNextId(queues, n)
  PROVE  StoreStep
<1> DEFINE x == queues.queues[n]
           y == Queue(x.q, x.owner, x.next_id + 1)
<1>1. n \in DOMAIN queues.queues /\ queues' = WithQueue(queues, n, y)
  BY DEF TakeNextId, Exists
<1>2. y.q = x.q /\ y.next_id = x.next_id + 1
  BY DEF Queue
<1> HIDE DEF y
<1>3. /\ Boxes' = [Boxes EXCEPT ![n] = y.q] /\ n \in DOMAIN Boxes
      /\ Counters' = [Counters EXCEPT ![n] = y.next_id]
      /\ Boxes[n] = x.q /\ Counters[n] = x.next_id
  BY <1>1, StoreReplaces
<1>4. UNCHANGED Boxes /\ Counters' = [Counters EXCEPT ![n] = @ + 1]
  BY <1>2, <1>3 DEF Boxes
<1>5. Store!Allocate(n)
  BY <1>3, <1>4 DEF Store!Allocate, Boxes, Counters
<1> QED BY <1>5 DEF StoreStep, Store!Next

\* The message of an identifier taken before arrives.
LEMMA StoreDelivers ==
  ASSUME NEW n, Good(queues), Pending(queues, n), NEW s \in Session, NEW m \in Msg,
         queues' = InternalSend(queues, s, n, queues.queues[n].next_id - 1, m)
  PROVE  StoreStep
<1> DEFINE x == queues.queues[n]
           e == [origin |-> s, message |-> m]
           i == x.next_id - 1
           y == Queue(MapAdd(x.q, i, e), x.owner, x.next_id)
<1>1. n \in DOMAIN queues.queues /\ queues' = WithQueue(queues, n, y)
  BY DEF InternalSend, Pending, Exists
<1>2. y.q = MapAdd(x.q, i, e) /\ y.next_id = x.next_id
  BY DEF Queue
<1>3. x.next_id \in Nat /\ i \in 0 .. x.next_id /\ i < x.next_id /\ \A j \in DOMAIN x.q : j < i
  BY <1>1 DEF Good, DirectoryOK, QueueOK, Pending
<1>4. e \in [origin : Session, message : Msg]
  OBVIOUS
<1> HIDE DEF y, i, e
<1>5. /\ Boxes' = [Boxes EXCEPT ![n] = y.q] /\ n \in DOMAIN Boxes
      /\ Counters' = [Counters EXCEPT ![n] = y.next_id]
      /\ Boxes[n] = x.q /\ Counters[n] = x.next_id
  BY <1>1, StoreReplaces
<1>6. Boxes' = [Boxes EXCEPT ![n] = Store!With(@, i, e)]
  BY <1>2, <1>5 DEF MapAdd, Store!With
<1>7. UNCHANGED Counters
  BY <1>2, <1>5 DEF Counters
<1>8. Store!Deliver(n, i, e)
  BY <1>3, <1>5, <1>6, <1>7 DEF Store!Deliver, Boxes, Counters
<1> QED BY <1>3, <1>4, <1>5, <1>8 DEF StoreStep, Store!Next, Boxes, Counters

\* Both at once, without a redo-log.
LEMMA StorePosts ==
  ASSUME NEW n, Exists(queues, n), Good(queues), NEW s \in Session, NEW m \in Msg,
         queues' = InternalSend(TakeNextId(queues, n), s, n, queues.queues[n].next_id, m)
  PROVE  StoreStep
<1> DEFINE x == queues.queues[n]
           e == [origin |-> s, message |-> m]
           z == Queue(x.q, x.owner, x.next_id + 1)
           y == Queue(MapAdd(x.q, x.next_id, e), x.owner, x.next_id + 1)
<1>1. n \in DOMAIN queues.queues /\ TakeNextId(queues, n) = WithQueue(queues, n, z)
  BY DEF TakeNextId, Exists
<1>2. /\ z.q = x.q /\ z.owner = x.owner /\ z.next_id = x.next_id + 1
      /\ y.q = MapAdd(x.q, x.next_id, e) /\ y.next_id = x.next_id + 1
  BY DEF Queue
<1>3. e \in [origin : Session, message : Msg]
  OBVIOUS
<1>4. /\ DOMAIN WithQueue(queues, n, z).queues = DOMAIN queues.queues
      /\ WithQueue(queues, n, z).queues[n] = z
  BY <1>1, WithQueues
<1>5. queues' = WithQueue(WithQueue(queues, n, z), n, y)
  BY <1>1, <1>2, <1>4 DEF InternalSend, Exists
<1> HIDE DEF y, z, e
<1>6. queues' = WithQueue(queues, n, y)
  BY <1>1, <1>5 DEF WithQueue, MapAdd
<1>7. /\ Boxes' = [Boxes EXCEPT ![n] = y.q] /\ n \in DOMAIN Boxes
      /\ Counters' = [Counters EXCEPT ![n] = y.next_id]
      /\ Boxes[n] = x.q /\ Counters[n] = x.next_id
  BY <1>1, <1>6, StoreReplaces
<1>8. /\ Boxes' = [Boxes EXCEPT ![n] = Store!With(@, Counters[n], e)]
      /\ Counters' = [Counters EXCEPT ![n] = @ + 1]
  BY <1>2, <1>7 DEF MapAdd, Store!With
<1>9. Store!Post(n, e)
  BY <1>7, <1>8 DEF Store!Post, Boxes, Counters
<1> QED BY <1>3, <1>7, <1>9 DEF StoreStep, Store!Next, Boxes

\* What a request that is performed later makes of the directory.
LEMMA StoreDoes ==
  ASSUME Good(queues), NEW s \in Session \cup {None}, NEW rq \in AnyRequest,
         Doing(rq, s, queues, queues'), rq.type = "Send" => Pending(queues, rq.name)
  PROVE  StoreStep
<1>1. CASE rq.type \in {"CreateTransient", "CreatePersistent"}
  <2>1. rq.name \in Name
    BY <1>1 DEF AnyRequest
  <2> QED BY <1>1, <2>1, StoreCreates DEF Doing
<1>2. CASE rq.type = "Destroy"
  <2>1. {rq.name} \in SUBSET Name /\ queues' = RemoveAll(queues, {rq.name})
    BY <1>2 DEF AnyRequest, Doing
  <2> QED BY <2>1, StoreRemoves
<1>3. CASE rq.type = "Cleanup"
  <2>1. rq.names \in SUBSET Name /\ queues' = RemoveAll(queues, rq.names)
    BY <1>3 DEF AnyRequest, Doing
  <2> QED BY <2>1, StoreRemoves
<1>4. CASE rq.type = "Ack"
  BY <1>4, StoreAcknowledges DEF Doing
<1>5. CASE rq.type = "Send"
  <2>1. rq.msg \in Msg
    BY <1>5 DEF AnyRequest
  <2>2. /\ queues' = InternalSend(queues, s, rq.name, queues.queues[rq.name].next_id - 1, rq.msg)
        /\ s # None
    BY <1>5 DEF Doing
  <2> QED BY <1>5, <2>1, <2>2, StoreDelivers
<1> QED BY <1>1, <1>2, <1>3, <1>4, <1>5 DEF Doing

\* Every step of a client is one of the store's.
LEMMA StoreClient ==
  ASSUME Inv, Inv', Asked, Aside, IdsBelow, NEW c \in Conn, Client(c)
  PROVE  StoreStep
<1>0. Good(queues)
  BY DEF Inv, Shared
<1>1. CASE UNCHANGED queues
  BY <1>1 DEF StoreStep, Boxes, Counters
<1>2. ASSUME NEW s, NEW rq, Serving(c, s, rq), Effect(c, s, rq)
      PROVE  StoreStep
  <2>1. s \in Session \cup {None} /\ rq \in AnyRequest
    BY <1>2 DEF Serving
  <2>2. ASSUME NEW qs, NEW ops, Prepared(s, rq, qs, ops, queues')
        PROVE  StoreStep
    <3>1. CASE rq.type = "Send"
      <4>1. rq.msg \in Msg
        BY <2>1, <3>1 DEF AnyRequest
      <4>2. /\ s # None /\ Exists(queues, rq.name)
            /\ queues' = InternalSend(TakeNextId(queues, rq.name), s, rq.name,
                                      queues.queues[rq.name].next_id, rq.msg)
        BY <2>2, <3>1 DEF Prepared
      <4> QED BY <1>0, <2>1, <4>1, <4>2, StorePosts
    <3>2. CASE rq.type # "Send"
      <4>1. qs = queues /\ Doing(rq, s, qs, queues')
        BY <2>2, <3>2, PreparedDoing DEF Prepared
      <4> QED BY <1>0, <2>1, <3>2, <4>1, StoreDoes
    <3> QED BY <3>1, <3>2
  <2>3. ASSUME NEW ops, NEW newq, Prepared(s, rq, queues', ops, newq)
        PROVE  StoreStep
    <3>1. CASE rq.type = "Send"
      <4>1. rq.name \in Name /\ Exists(queues, rq.name) /\ queues' = TakeNextId(queues, rq.name)
        BY <2>1, <2>3, <3>1 DEF Prepared, AnyRequest
      <4> QED BY <4>1, StoreAllocates
    <3>2. CASE rq.type # "Send"
      BY <1>1, <2>3, <3>2 DEF Prepared
    <3> QED BY <3>1, <3>2
  <2>4. CASE th[c].pc = "pushing" /\ queues' = th[c].newq /\ s = th[c].session /\ rq = th[c].rq
    <3>1. Doing(rq, s, queues, queues') /\ (rq.type = "Send" => Pending(queues, rq.name))
      BY <2>4 DEF Aside, IdsBelow
    <3> QED BY <1>0, <2>1, <3>1, StoreDoes
  <2> QED BY <1>1, <1>2, <2>2, <2>3, <2>4 DEF Effect
<1> QED BY <1>1, <1>2, ClientEffect

\* So is every other.
LEMMA StoreSteps ==
  ASSUME Inv, Inv', Asked, Aside, IdsBelow, Fresh, [Next]_vars, Persistent => ~MayCrash
  PROVE  StoreStep
<1>1. CASE UNCHANGED vars \/ Flush \/ Start
  <2>1. UNCHANGED queues
    BY <1>1 DEF Flush, FlushBegin, FlushApply, FlushSave, FlushAdvance, Start, vars
  <2> QED BY <2>1 DEF StoreStep, Boxes, Counters
<1>2. CASE Replayed
  <2>1. UNCHANGED queues
    BY <1>2 DEF Replayed, Fresh
  <2> QED BY <2>1 DEF StoreStep, Boxes, Counters
<1>3. CASE Crash
  <2>1. DOMAIN queues'.queues = {}
    BY <1>3 DEF Crash, EmptyQueues, EmptyMap
  <2>2. DOMAIN queues.queues \subseteq Name
    BY DEF Inv, Shared, Good, DirectoryOK, IsMap
  <2>3. Store!Remove(Name)
    BY <2>1, <2>2 DEF Store!Remove, Store!Without
  <2> QED BY <2>3 DEF StoreStep, Store!Next
<1> QED BY <1>1, <1>2, <1>3, StoreClient, OtherSteps

\* What the refinement rests on.
StoreInv ==
    /\ WakeInv /\ Asked /\ Aside /\ IdsBelow /\ Fresh
    /\ Persistent => Exclusive

\* It holds at first, when there is nothing.
LEMMA StoreInvInitial == Init => StoreInv
<1> SUFFICES ASSUME Init PROVE StoreInv
  OBVIOUS
<1>1. WakeInv
  BY WakeInitial
<1>2. /\ \A c \in Conn : th[c] = Parked("new")
      /\ sessions = {} /\ queues = EmptyQueues /\ waiters = <<>> /\ ~locked /\ status = "down"
      /\ dump = EmptyQueues /\ onDisk = EmptyQueues /\ journal = <<>> /\ flush.pc = "idle"
  BY DEF Init, FlushIdle, FlushState
<1>3. /\ \A c \in Conn : th[c].pc = "new" /\ th[c].rq.type = "None" /\ th[c].session = None
  BY <1>2 DEF Parked, Thread, NoRequest
<1>4. Asked
  BY <1>2, <1>3 DEF Asked, RequestOK
<1>5. Aside /\ Fresh /\ Exclusive
  BY <1>2, <1>3 DEF Aside, Fresh, Exclusive, Inside
<1>6. IdsBelow
  BY <1>2, <1>3 DEF IdsBelow, Below, EmptyQueues, EmptyMap
<1> QED BY <1>1, <1>4, <1>5, <1>6 DEF StoreInv

\* It is inductive, and every step is one of the store's or a stutter.
LEMMA StoreInvInductive ==
  ASSUME StoreInv, [Next]_vars, Persistent => NoTrace /\ ~MayCrash
  PROVE  StoreInv' /\ StoreStep
<1>1. WakeInv' /\ Inv /\ Inv' /\ Quiet
  BY WakeInductive DEF StoreInv, WakeInv
<1>2. Asked'
  BY <1>1, AskedStep DEF StoreInv
<1>3. Persistent => Exclusive'
  BY <1>1, ExclusiveStep DEF StoreInv
<1>4. Aside'
  BY <1>1, AsideStep DEF StoreInv
<1>5. Fresh'
  BY <1>1, FreshStep DEF StoreInv
<1>6. IdsBelow'
  BY <1>1, IdsBelowStep DEF StoreInv
<1>7. StoreStep
  BY <1>1, StoreSteps DEF StoreInv
<1> QED BY <1>1, <1>2, <1>3, <1>4, <1>5, <1>6, <1>7 DEF StoreInv

\* The refinement.  The switch, whose critical section waits for the redo-log
\* once per operation and lets every other handler run meanwhile, changes its
\* directory as a store does that performs the requests one at a time: each
\* step is one operation of the store or none (perform, process_request).  A
\* switch that keeps its queues on disk is not restarted here, since it comes
\* back with another next_id, and its clients do not trace, since a Trace that
\* times out lets two handlers into the critical section.
THEOREM SwitchImplementsStore ==
  ASSUME Persistent => NoTrace /\ ~MayCrash
  PROVE  Spec => ImplementsStore
<1>1. Init => Store!Init
  <2> SUFFICES ASSUME Init PROVE Store!Init
    OBVIOUS
  <2>1. DOMAIN queues.queues = {}
    BY DEF Init, EmptyQueues, EmptyMap
  <2> QED BY <2>1 DEF Store!Init
<1>2. StoreInv /\ [Next]_vars => StoreInv'
  BY StoreInvInductive
<1>3. StoreInv /\ [Next]_vars => [Store!Next]_<<Boxes, Counters>>
  BY StoreInvInductive DEF StoreStep
<1>4. Init => StoreInv
  BY StoreInvInitial
<1> QED BY <1>1, <1>2, <1>3, <1>4, PTL DEF Spec, ImplementsStore, Store!Spec, Boxes, Counters

-----------------------------------------------------------------------------
(* The owners of the queues *)

\* The same queues with the same owners.
SameOwners(p, q) ==
    /\ DOMAIN q.queues = DOMAIN p.queues
    /\ \A n \in DOMAIN p.queues : q.queues[n].owner = p.queues[n].owner

\* What a request of session s may do to the queues and their owners: give one
\* that it creates to nobody or to s, take away those it names.
Owners(p, rq, s, q) ==
    /\ \A n \in DOMAIN q.queues :
          \/ /\ n \in DOMAIN p.queues /\ q.queues[n].owner = p.queues[n].owner
             /\ rq.type = "Cleanup" => n \notin rq.names
          \/ q.queues[n].owner = None
          \/ /\ rq.type = "CreateTransient" /\ n = rq.name
             /\ s # None /\ q.queues[n].owner = s
    /\ \A n \in DOMAIN p.queues :
          \/ n \in DOMAIN q.queues /\ q.queues[n].owner = p.queues[n].owner
          \/ rq.type = "Destroy" /\ s # None /\ n = rq.name
          \/ rq.type = "Cleanup" /\ n \in rq.names

\* A replaced queue keeps its owner.
LEMMA WithOwners ==
  ASSUME NEW qs, NEW n \in DOMAIN qs.queues, NEW q, NEW k
  PROVE  SameOwners(qs, WithQueue(qs, n, Queue(q, qs.queues[n].owner, k)))
<1> DEFINE y == Queue(q, qs.queues[n].owner, k)
<1>1. y.owner = qs.queues[n].owner
  BY DEF Queue
<1> HIDE DEF y
<1>2. SameOwners(qs, WithQueue(qs, n, y))
  BY <1>1, WithQueues DEF SameOwners
<1> QED BY <1>2 DEF y

\* What a request makes of the directory,
LEMMA DoingOwners ==
  ASSUME NEW qs, NEW s, NEW rq, NEW newq, Doing(rq, s, qs, newq)
  PROVE  Owners(qs, rq, s, newq)
<1>0. \A o : Make(o).owner = o
  BY DEF Make, Queue
<1>1. CASE rq.type = "CreateTransient"
  <2>1. s # None /\ newq = DirectoryAdd(qs, s, rq.name)
    BY <1>1 DEF Doing
  <2> QED BY <1>0, <1>1, <2>1, AddQueues DEF Owners
<1>2. CASE rq.type = "CreatePersistent"
  <2>1. newq = DirectoryAdd(qs, None, rq.name)
    BY <1>2 DEF Doing
  <2> QED BY <1>0, <1>2, <2>1, AddQueues DEF Owners
<1>3. CASE rq.type = "Destroy"
  <2>1. newq = RemoveAll(qs, {rq.name}) /\ s # None
    BY <1>3 DEF Doing
  <2> QED BY <1>3, <2>1, RemoveQueues DEF Owners
<1>4. CASE rq.type = "Cleanup"
  <2>1. newq = RemoveAll(qs, rq.names)
    BY <1>4 DEF Doing
  <2> QED BY <1>4, <2>1, RemoveQueues DEF Owners
<1>5. CASE rq.type \in {"Ack", "Send"}
  <2>1. newq = qs \/ SameOwners(qs, newq)
    BY <1>5, WithOwners DEF Doing, InternalAck, InternalSend, Exists
  <2> QED BY <1>5, <2>1 DEF Owners, SameOwners
<1> QED BY <1>1, <1>2, <1>3, <1>4, <1>5 DEF Doing

\* be it at once or after the pushes.
LEMMA PreparedOwners ==
  ASSUME Inv, NEW s, NEW rq, NEW qs, NEW ops, NEW newq, Prepared(s, rq, qs, ops, newq)
  PROVE  SameOwners(queues, qs) /\ Owners(queues, rq, s, newq)
<1>1. SameOwners(queues, qs)
  <2>1. CASE rq.type = "Send"
    <3>1. rq.name \in DOMAIN queues.queues /\ qs = TakeNextId(queues, rq.name)
      BY <2>1 DEF Prepared, Exists
    <3> QED BY <3>1, WithOwners DEF TakeNextId
  <2>2. CASE rq.type # "Send"
    BY <2>2 DEF Prepared, SameOwners
  <2> QED BY <2>1, <2>2
<1>2. Owners(qs, rq, s, newq)
  BY PreparedDoing, DoingOwners
<1> QED BY <1>1, <1>2 DEF SameOwners, Owners

\* The effect of a step on the queues and their owners.
LEMMA EffectOwners ==
  ASSUME Inv, Aside, NEW c \in Conn, NEW s, NEW rq, Effect(c, s, rq)
  PROVE  \/ /\ SameOwners(queues, queues')
            /\ UNCHANGED promised \/ promised' = PromisedAfter(None, rq, queues)
            /\ rq.type = "Cleanup" => th'[c].rq = rq /\ th'[c].session = s
         \/ /\ Has(c) /\ Owners(queues, rq, s, queues')
            /\ promised' = PromisedAfter(s, rq, queues')
<1>1. SameOwners(queues, queues)
  BY DEF SameOwners
<1>2. ASSUME NEW ops, NEW newq, th'[c] = Thread("pushing", s, rq, ops, newq),
             Prepared(s, rq, queues', ops, newq)
      PROVE  SameOwners(queues, queues') /\ th'[c].rq = rq /\ th'[c].session = s
  BY <1>2, PreparedOwners DEF Thread
<1>3. CASE /\ th[c].pc = "pushing" /\ queues' = th[c].newq /\ s = th[c].session /\ rq = th[c].rq
           /\ promised' = PromisedAfter(s, rq, queues')
  <2>1. Has(c) /\ Doing(rq, s, queues, queues')
    BY <1>3 DEF Aside, Has, Inside
  <2> QED BY <1>3, <2>1, DoingOwners
<1> QED BY <1>1, <1>2, <1>3, PreparedOwners DEF Effect

-----------------------------------------------------------------------------
(* The queues of a session that is gone *)

\* A connection logs in with one session.
OneSession ==
    \A c \in Conn : \A p, q \in Request[c] :
        p.type = "Login" /\ q.type = "Login" => p.session = q.session

\* Somebody will remove the queue n of session s.
Doomed(n, s) ==
    \E c \in Conn : th[c].rq.type = "Cleanup" /\ th[c].session = s /\ n \in th[c].rq.names

\* A queue that is owned has a session that is active, or a clean-up that names
\* it: the clean-up read the session's queues when the session ended, and the
\* session makes no more.
Owned ==
    \A n \in DOMAIN queues.queues :
        LET o == queues.queues[n].owner
        IN  o # None => IsSessionActive(o, sessions) \/ Doomed(n, o)

\* With one session a connection, it is the one that is cleaned up after.
LEMMA OnlySession ==
  ASSUME Inv, Asked, OneSession, NEW c \in Conn, NEW s \in Session, <<c, s>> \in sessions
  PROVE  GetSession(c) = s
<1>1. \A x \in Session : <<c, x>> \in sessions => x = s
  <2> SUFFICES ASSUME NEW x \in Session, <<c, x>> \in sessions PROVE x = s
    OBVIOUS
  <2>1. \A p \in sessions : [type |-> "Login", session |-> p[2]] \in Request[p[1]]
    BY DEF Asked
  <2>2. /\ [type |-> "Login", session |-> s] \in Request[c]
        /\ [type |-> "Login", session |-> x] \in Request[c]
    BY <2>1
  <2> QED BY <2>2 DEF OneSession
<1> QED BY <1>1 DEF GetSession, SessionsOf

\* A session that a step ends is cleaned up after by the step's connection.
LEMMA SessionEnds ==
  ASSUME Inv, Asked, OneSession, NEW c \in Conn, NEW o \in Session,
         IsSessionActive(o, sessions), ~IsSessionActive(o, sessions'),
         \/ Opens(c) \/ Shuts(c) \/ GivesUp(c)
         \/ \E s, rq : Serving(c, s, rq)
  PROVE  /\ ~Opens(c) /\ ~Shuts(c) /\ ~GivesUp(c)
         /\ \A s, rq : Serving(c, s, rq) => s = o /\ Closing(c, s, rq)
<1>1. PICK d \in Conn : <<d, o>> \in sessions /\ <<d, o>> \notin sessions'
  BY DEF IsSessionActive
<1>2. ~Opens(c) /\ ~GivesUp(c)
  BY <1>1 DEF Opens, Connect, GivesUp
<1>3. ASSUME sessions' = {p \in sessions : p[1] # c}
      PROVE  GetSession(c) = o
  <2>1. d = c
    BY <1>1, <1>3
  <2> QED BY <1>1, <2>1, OnlySession
<1>4. ~Shuts(c)
  BY <1>3, SwitchAssumption DEF Shuts
<1>5. ASSUME NEW s, NEW rq, Serving(c, s, rq)
      PROVE  s = o /\ Closing(c, s, rq)
  <2>1. Closing(c, s, rq)
    BY <1>1, <1>5 DEF Serving
  <2> QED BY <1>3, <2>1 DEF Closing
<1> QED BY <1>2, <1>4, <1>5

\* Owned is inductive.
LEMMA OwnedStep ==
  ASSUME Inv, Inv', Quiet, Asked, Aside, Fresh, Owned, OneSession, [Next]_vars,
         Persistent => ~MayCrash /\ ~PushMayFail
  PROVE  Owned'
<1>1. ASSUME NEW c \in Conn, Client(c)
      PROVE  Owned'
  <2> SUFFICES ASSUME NEW n \in DOMAIN queues'.queues, NEW o,
                      o = queues'.queues[n].owner, o # None
               PROVE  IsSessionActive(o, sessions') \/ Doomed(n, o)'
    BY DEF Owned
  <2>0. o \in Session
    BY DEF Inv, Shared, Good, DirectoryOK, QueueOK
  <2>1. ASSUME n \in DOMAIN queues.queues, queues.queues[n].owner = o,
               NEW d \in Conn \ {c}, th[d].rq.type = "Cleanup", th[d].session = o,
               n \in th[d].rq.names
        PROVE  Doomed(n, o)'
    <3>1. th'[d].rq = th[d].rq /\ th'[d].session = th[d].session
      BY <1>1, ClientEffect, NudgedKeeps DEF Inv, Shared, ThreadsGood
    <3> QED BY <2>1, <3>1 DEF Doomed
  <2>2. CASE (Opens(c) \/ Shuts(c) \/ GivesUp(c)) /\ UNCHANGED queues
    <3>1. CASE Doomed(n, o)
      <4>1. PICK d \in Conn : th[d].rq.type = "Cleanup" /\ th[d].session = o /\ n \in th[d].rq.names
        BY <3>1 DEF Doomed
      <4>2. d # c
        <5>1. th[c].pc \in {"new", "idle", "reading"} => th[c].rq.type # "Cleanup"
          BY DEF Asked, RequestOK
        <5>2. th[c].pc # "pushing" \/ ~PushMayFail
          BY DEF Aside
        <5> QED BY <2>2, <4>1, <5>1, <5>2 DEF Opens, Shuts, GivesUp
      <4> QED BY <2>1, <2>2, <4>1, <4>2
    <3>2. CASE IsSessionActive(o, sessions)
      BY <2>0, <2>2, <3>2, SessionEnds
    <3> QED BY <2>2, <3>1, <3>2 DEF Owned
  <2>3. ASSUME NEW s, NEW rq, Serving(c, s, rq), Effect(c, s, rq)
        PROVE  IsSessionActive(o, sessions') \/ Doomed(n, o)'
    <3>0. /\ s # None /\ rq.type # "Cleanup" => <<c, s>> \in sessions'
          /\ s # None /\ rq.type = "CreateTransient" => IsSessionActive(s, sessions')
      BY <2>3, ServingOK DEF IsSessionActive
    <3>1. CASE /\ n \in DOMAIN queues.queues /\ queues.queues[n].owner = o
               /\ rq.type = "Cleanup" => \/ th'[c].rq = rq /\ th'[c].session = s
                                         \/ n \notin rq.names
      <4>1. CASE Doomed(n, o)
        <5>1. PICK d \in Conn : th[d].rq.type = "Cleanup" /\ th[d].session = o /\ n \in th[d].rq.names
          BY <4>1 DEF Doomed
        <5>2. CASE d # c
          BY <2>1, <3>1, <5>1, <5>2
        <5>3. CASE d = c
          <6>1. rq = th[c].rq /\ s = th[c].session
            BY <2>3, <5>1, <5>3 DEF Serving, Asking, Going, Closing, Asked, RequestOK
          <6>2. th'[c].rq = rq /\ th'[c].session = s
            BY <3>1, <5>1, <5>3, <6>1
          <6> QED BY <5>1, <5>3, <6>1, <6>2 DEF Doomed
        <5> QED BY <5>2, <5>3
      <4>2. CASE IsSessionActive(o, sessions) /\ ~IsSessionActive(o, sessions')
        <5>1. s = o /\ Closing(c, s, rq)
          BY <2>0, <2>3, <4>2, SessionEnds
        <5>2. rq.type = "Cleanup" /\ rq.names = OwnedQueues(queues, o)
          BY <5>1 DEF Closing
        <5>3. n \in rq.names
          BY <2>0, <3>1, <5>2, SwitchAssumption DEF Inv, Shared, Good, IndexConsistent
        <5> QED BY <3>1, <5>1, <5>2, <5>3 DEF Doomed
      <4> QED BY <3>1, <4>1, <4>2 DEF Owned
    <3>2. CASE SameOwners(queues, queues') /\ (rq.type = "Cleanup" => th'[c].rq = rq /\ th'[c].session = s)
      BY <3>1, <3>2 DEF SameOwners
    <3>3. CASE Owners(queues, rq, s, queues')
      BY <3>0, <3>1, <3>3 DEF Owners
    <3> QED BY <2>3, <3>2, <3>3, EffectOwners
  <2> QED BY <1>1, <2>2, <2>3, ClientEffect
<1>2. CASE UNCHANGED vars \/ Flush \/ Start
  <2>1. UNCHANGED <<th, queues, sessions>>
    BY <1>2, OtherStepsKeep DEF Flush, FlushBegin, FlushApply, FlushSave, FlushAdvance, Start, vars
  <2> QED BY <2>1 DEF Owned, Doomed
<1>3. CASE Replayed \/ Crash
  <2>1. DOMAIN queues'.queues = {}
    BY <1>3 DEF Replayed, Crash, Fresh, EmptyQueues, EmptyMap
  <2> QED BY <2>1 DEF Owned
<1> QED BY <1>1, <1>2, <1>3, OtherSteps

\* When a session's last connection has closed and its clean-up is over, none
\* of its queues is left (conn_closed in switch_main.ml), whatever the other
\* handlers did between the reading of the list of queues and their removal.
\* It takes that the removals are not lost: no push fails, and a switch with a
\* statedir is not restarted, since it brings back the queues of sessions that
\* are no more.
THEOREM GoneSessionsOwnNothing ==
  ASSUME OneSession, Persistent => NoTrace /\ ~MayCrash /\ ~PushMayFail
  PROVE  Spec => []SessionDeallocated
<1>1. Init => StoreInv /\ Owned
  BY StoreInvInitial DEF Owned, Init, EmptyQueues, EmptyMap
<1>2. StoreInv /\ Owned /\ [Next]_vars => StoreInv' /\ Owned'
  <2> SUFFICES ASSUME StoreInv, Owned, [Next]_vars PROVE StoreInv' /\ Owned'
    OBVIOUS
  <2>1. StoreInv'
    BY StoreInvInductive
  <2> QED BY <2>1, OwnedStep DEF StoreInv, WakeInv
<1>3. StoreInv /\ Owned => SessionDeallocated
  <2> SUFFICES ASSUME Inv, Owned, NEW s \in Session, ~IsSessionActive(s, sessions),
                      ~\E c \in Conn : th[c].rq.type = "Cleanup" /\ th[c].session = s
               PROVE  OwnedQueues(queues, s) = {}
    BY DEF SessionDeallocated, StoreInv, WakeInv
  <2>1. \A n \in DOMAIN queues.queues : queues.queues[n].owner # s
    BY SwitchAssumption DEF Owned, Doomed
  <2> QED BY <2>1 DEF OwnedQueues, Inv, Shared, Good, IndexConsistent, Exists
<1> QED BY <1>1, <1>2, <1>3, PTL DEF Spec

-----------------------------------------------------------------------------
(* Nothing is skipped *)

Polls(c, n) == [type |-> "Transfer", names |-> {n}] \in Request[c]

\* A client that polls one queue polls no other with the same cursor.
OneQueue ==
    \A c \in Conn, n \in Name : Polls(c, n) =>
        \A rq \in Request[c] : rq.type = "Transfer" => rq.names = {n}

\* In a step: a queue that is polled is not removed.  Its successor would give
\* out the same identifiers again.
PolledStay ==
    \A c \in Conn, n \in Name :
        Polls(c, n) /\ Exists(queues, n) => Exists(queues', n)

\* The cursor k is below what queue n will give out next.
Ahead(qs, n, k) ==
    /\ k \in Nat \cup {-1}
    /\ Exists(qs, n) => k < qs.queues[n].next_id
    /\ ~Exists(qs, n) => k = -1

\* No message came to queue n at or below k.
NoneBelow(p, q, n, k) ==
    \A id \in DOMAIN Find(q, n).q : id <= k => id \in DOMAIN Find(p, n).q

\* A client's cursor is below the next identifier of its queue, and below the
\* one a Send under way has taken; what is at or below it the client has seen.
CursorBelow ==
    \A c \in Conn, n \in Name : Polls(c, n) =>
        /\ Ahead(queues, n, cursor[c])
        /\ \A d \in Conn :
              th[d].pc = "pushing" /\ th[d].rq.type = "Send" /\ th[d].rq.name = n =>
                  cursor[c] < queues.queues[n].next_id - 1
        /\ \A id \in DOMAIN Find(queues, n).q : id <= cursor[c] => <<n, id>> \in seen[c]

\* What a request makes of the directory keeps the cursors below,
LEMMA DoingAhead ==
  ASSUME NEW qs, Good(qs), NEW s, NEW rq, NEW newq, Doing(rq, s, qs, newq),
         NEW n, NEW k, Ahead(qs, n, k), Exists(qs, n) => Exists(newq, n),
         rq.type = "Send" /\ n = rq.name => k < qs.queues[n].next_id - 1
  PROVE  Ahead(newq, n, k) /\ NoneBelow(qs, newq, n, k)
<1>0. Exists(qs, n) => qs.queues[n].next_id \in Nat /\ DOMAIN qs.queues[n].q \subseteq Nat
  BY DEF Good, DirectoryOK, QueueOK, IsMap, Exists
<1>1. ASSUME NEW o, NEW m, newq = DirectoryAdd(qs, o, m)
      PROVE  Ahead(newq, n, k) /\ NoneBelow(qs, newq, n, k)
  <2>1. Make(o).q = EmptyMap /\ DOMAIN EmptyMap = {} /\ Make(o).next_id = 0
    BY DEF Make, Queue, EmptyMap
  <2>2. CASE Exists(qs, m)
    BY <1>1, <2>2 DEF DirectoryAdd, NoneBelow
  <2>3. CASE ~Exists(qs, m)
    <3>1. /\ DOMAIN newq.queues = DOMAIN qs.queues \cup {m}
          /\ newq.queues[m] = Make(o) /\ m \notin DOMAIN qs.queues
          /\ \A x \in DOMAIN qs.queues : newq.queues[x] = qs.queues[x]
      BY <1>1, <2>3, AddQueues DEF Exists
    <3>2. CASE n = m
      BY <2>1, <2>3, <3>1, <3>2 DEF Ahead, NoneBelow, Find, Exists
    <3>3. CASE n # m
      BY <3>1, <3>3 DEF Ahead, NoneBelow, Find, Exists
    <3> QED BY <3>2, <3>3
  <2> QED BY <2>2, <2>3
<1>2. ASSUME NEW S, newq = RemoveAll(qs, S)
      PROVE  Ahead(newq, n, k) /\ NoneBelow(qs, newq, n, k)
  <2>1. /\ DOMAIN newq.queues = DOMAIN qs.queues \ S
        /\ \A m \in DOMAIN qs.queues \ S : newq.queues[m] = qs.queues[m]
    BY <1>2, RemoveQueues
  <2> QED BY <2>1 DEF Ahead, NoneBelow, Find, Exists
<1>3. ASSUME NEW m \in DOMAIN qs.queues, NEW y, newq = WithQueue(qs, m, y),
             y.next_id = qs.queues[m].next_id,
             m = n => \A id \in DOMAIN y.q : id <= k => id \in DOMAIN qs.queues[n].q
      PROVE  Ahead(newq, n, k) /\ NoneBelow(qs, newq, n, k)
  <2>1. /\ DOMAIN newq.queues = DOMAIN qs.queues /\ newq.queues[m] = y
        /\ \A x \in DOMAIN qs.queues \ {m} : newq.queues[x] = qs.queues[x]
    BY <1>3, WithQueues
  <2>2. CASE n = m
    BY <1>3, <2>1, <2>2 DEF Ahead, NoneBelow, Find, Exists
  <2>3. CASE n # m
    BY <2>1, <2>3 DEF Ahead, NoneBelow, Find, Exists
  <2> QED BY <2>2, <2>3
<1>4. CASE rq.type = "Ack"
  <2> DEFINE m == rq.name
             x == qs.queues[m]
             y == Queue(MapRemove(x.q, {rq.id}), x.owner, x.next_id)
  <2>1. newq = qs \/ (m \in DOMAIN qs.queues /\ newq = WithQueue(qs, m, y))
    BY <1>4 DEF Doing, InternalAck, Exists
  <2>2. y.next_id = x.next_id /\ DOMAIN y.q \subseteq DOMAIN x.q
    BY DEF Queue, MapRemove
  <2> HIDE DEF y
  <2>3. CASE newq = qs
    BY <2>3 DEF NoneBelow
  <2>4. CASE m \in DOMAIN qs.queues /\ newq = WithQueue(qs, m, y)
    BY <1>3, <2>2, <2>4
  <2> QED BY <2>1, <2>3, <2>4
<1>5. CASE rq.type = "Send"
  <2> DEFINE m == rq.name
             x == qs.queues[m]
             e == [origin |-> s, message |-> rq.msg]
             y == Queue(MapAdd(x.q, x.next_id - 1, e), x.owner, x.next_id)
  <2>1. m \in DOMAIN qs.queues /\ newq = WithQueue(qs, m, y)
    BY <1>5 DEF Doing, InternalSend, Exists
  <2>2. y.next_id = x.next_id /\ DOMAIN y.q = DOMAIN x.q \cup {x.next_id - 1}
    BY DEF Queue, MapAdd
  <2> HIDE DEF y
  <2>3. m = n => \A id \in DOMAIN y.q : id <= k => id \in DOMAIN x.q
    <3> SUFFICES ASSUME m = n, NEW id \in DOMAIN y.q, id <= k PROVE id \in DOMAIN x.q
      OBVIOUS
    <3>1. k < x.next_id - 1 /\ x.next_id \in Nat /\ k \in Int
      BY <1>0, <1>5, <2>1 DEF Ahead, Exists
    <3> QED BY <2>2, <3>1
  <2> QED BY <1>3, <2>1, <2>2, <2>3
<1> QED BY <1>1, <1>2, <1>4, <1>5 DEF Doing

\* and so does the taking of an identifier, which leaves room for the message.
LEMMA PreparedAhead ==
  ASSUME Inv, NEW s, NEW rq, NEW qs, NEW ops, NEW newq, Prepared(s, rq, qs, ops, newq),
         NEW n, NEW k, Ahead(queues, n, k)
  PROVE  /\ Ahead(qs, n, k) /\ NoneBelow(queues, qs, n, k) /\ Good(qs)
         /\ Exists(qs, n) <=> Exists(queues, n)
         /\ rq.type = "Send" /\ n = rq.name => k < qs.queues[n].next_id - 1
<1>0. Good(queues)
  BY DEF Inv, Shared
<1>1. CASE rq.type = "Send"
  <2> DEFINE m == rq.name
             x == queues.queues[m]
             y == Queue(x.q, x.owner, x.next_id + 1)
  <2>a. m \in DOMAIN queues.queues /\ qs = TakeNextId(queues, m)
    BY <1>1 DEF Prepared, Exists
  <2>1. m \in DOMAIN queues.queues /\ qs = WithQueue(queues, m, y)
    BY <2>a DEF TakeNextId
  <2>2. y.q = x.q /\ y.next_id = x.next_id + 1
    BY DEF Queue
  <2>3. x.next_id \in Nat /\ m \in Name
    BY <1>0, <2>1 DEF Good, DirectoryOK, QueueOK, IsMap
  <2> HIDE DEF y
  <2>4. /\ DOMAIN qs.queues = DOMAIN queues.queues /\ qs.queues[m] = y
        /\ \A z \in DOMAIN queues.queues \ {m} : qs.queues[z] = queues.queues[z]
    BY <2>1, WithQueues
  <2>5. Good(qs)
    BY <1>0, <2>a, <2>3, TakeGood DEF Exists
  <2>6. CASE n = m
    <3>1. k \in Int /\ k < x.next_id
      BY <2>1, <2>6 DEF Ahead, Exists
    <3>2. k < (x.next_id + 1) - 1 /\ k < x.next_id + 1
      BY <2>3, <3>1
    <3> QED BY <2>1, <2>2, <2>4, <2>5, <2>6, <3>2 DEF Ahead, NoneBelow, Find, Exists
  <2>7. CASE n # m
    BY <2>4, <2>5, <2>7 DEF Ahead, NoneBelow, Find, Exists
  <2> QED BY <2>6, <2>7
<1>2. CASE rq.type # "Send"
  BY <1>0, <1>2 DEF Prepared, NoneBelow
<1> QED BY <1>1, <1>2

\* The cursor a Transfer hands back is one of the identifiers it transferred,
\* with none above, or the one it was given.
LEMMA NextCursor ==
  ASSUME Inv, NEW n \in Name, NEW k \in Int,
         NEW ids, ids = TransferMessages(queues, k, {n}), NEW x, x = TransferNext(k, ids)
  PROVE  /\ \A i \in DOMAIN Find(queues, n).q : i > k => i <= x /\ <<n, i>> \in ids
         /\ x = k \/ x \in DOMAIN Find(queues, n).q
<1> DEFINE S == {i \in DOMAIN Find(queues, n).q : i > k}
<1>1. ids = {<<n, i>> : i \in S}
  BY DEF TransferMessages
<1>2. S \subseteq Nat /\ \E b \in Nat : \A j \in S : j <= b
  BY DEF Inv, Shared, Good, DirectoryOK, QueueOK, IsMap, Find, Exists, Make, Queue, EmptyMap, Bounded
<1>3. S \subseteq DOMAIN Find(queues, n).q /\ \A i \in DOMAIN Find(queues, n).q : i > k => i \in S
  OBVIOUS
<1> HIDE DEF S
<1>4. CASE S = {}
  BY <1>1, <1>3, <1>4 DEF TransferNext
<1>5. CASE S # {}
  <2>1. \E m \in S : \A j \in S : j <= m
    BY <1>2, <1>5, LargestExists
  <2>a. \A i : <<n, i>>[2] = i
    OBVIOUS
  <2>2. {y[2] : y \in ids} = S /\ ids # {}
    <3>1. \A y \in ids : y[2] \in S
      BY <1>1, <2>a
    <3>2. \A i \in S : \E y \in ids : y[2] = i
      BY <1>1, <2>a
    <3> QED BY <1>5, <3>1, <3>2
  <2>3. \E m \in S : \A y \in ids : y[2] <= m
    BY <1>1, <2>1
  <2>4. x \in S /\ \A y \in ids : y[2] <= x
    BY <2>2, <2>3 DEF TransferNext
  <2>5. \A i \in S : i <= x /\ <<n, i>> \in ids
    <3> SUFFICES ASSUME NEW i \in S PROVE i <= x /\ <<n, i>> \in ids
      OBVIOUS
    <3>1. <<n, i>> \in ids /\ <<n, i>>[2] = i
      BY <1>1
    <3> QED BY <2>4, <3>1
  <2> QED BY <1>3, <2>4, <2>5
<1> QED BY <1>4, <1>5

\* Only a Transfer that is answered moves a cursor, its client's.
LEMMA CursorMoves ==
  ASSUME NEW c \in Conn, NEW s, NEW rq, Kind(c, s, rq)
  PROVE  \/ UNCHANGED <<cursor, seen>>
         \/ /\ rq.type = "Transfer" /\ UNCHANGED queues
            /\ cursor' = [cursor EXCEPT ![c] = TransferNext(@, TransferMessages(queues, cursor[c], rq.names))]
            /\ seen' = [seen EXCEPT ![c] = @ \cup TransferMessages(queues, cursor[c], rq.names)]
<1>1. CASE Answers(c, s, rq)
  BY <1>1 DEF Answers
<1>2. CASE Blocks(c, s, rq) \/ Pushes(c, s, rq) \/ Publishes(c, s, rq) \/ Traces(c, s, rq)
  BY <1>2 DEF Blocks, Pushes, Publishes, Traces
<1>3. CASE Joins(c, s, rq) \/ Reads(c, s, rq) \/ Performs(c, s, rq)
  BY <1>3 DEF Joins, Enqueue, Reads, DoGet, Performs
<1> QED BY <1>1, <1>2, <1>3 DEF Kind

\* A step that does not move the cursor of c keeps it below.
LEMMA StillBelow ==
  ASSUME NEW c \in Conn, NEW n \in Name, Polls(c, n), CursorBelow,
         cursor'[c] = cursor[c], seen'[c] = seen[c],
         Ahead(queues', n, cursor[c]), NoneBelow(queues, queues', n, cursor[c])
  PROVE  /\ Ahead(queues', n, cursor'[c])
         /\ \A id \in DOMAIN Find(queues', n).q : id <= cursor'[c] => <<n, id>> \in seen'[c]
  BY DEF CursorBelow, NoneBelow

\* A Transfer keeps its own below.
LEMMA TransferBelow ==
  ASSUME Inv, IdsBelow, NEW c \in Conn, NEW n \in Name, Polls(c, n), CursorBelow,
         cursor' = [cursor EXCEPT ![c] = TransferNext(@, TransferMessages(queues, cursor[c], {n}))],
         seen' = [seen EXCEPT ![c] = @ \cup TransferMessages(queues, cursor[c], {n})]
  PROVE  /\ Ahead(queues, n, cursor'[c])
         /\ \A d \in Conn :
              th[d].pc = "pushing" /\ th[d].rq.type = "Send" /\ th[d].rq.name = n =>
                  cursor'[c] < queues.queues[n].next_id - 1
         /\ \A id \in DOMAIN Find(queues, n).q : id <= cursor'[c] => <<n, id>> \in seen'[c]
<1> DEFINE k == cursor[c]
           ids == TransferMessages(queues, k, {n})
           x == TransferNext(k, ids)
<1>1. cursor'[c] = x /\ seen'[c] = seen[c] \cup ids
  BY DEF Inv, Clients
<1>2. Ahead(queues, n, k) /\ k \in Int
  BY DEF CursorBelow, Ahead
<1> HIDE DEF k
<1>3. /\ \A i \in DOMAIN Find(queues, n).q : i > k => i <= x /\ <<n, i>> \in ids
      /\ x = k \/ x \in DOMAIN Find(queues, n).q
  BY <1>2, NextCursor
<1>4. DOMAIN Find(queues, n).q \subseteq Nat
  BY DEF Inv, Shared, Good, DirectoryOK, QueueOK, IsMap, Find, Exists, Make, Queue, EmptyMap
<1> HIDE DEF ids, x
<1>5. Ahead(queues, n, x)
  BY <1>2, <1>3, <1>4 DEF Ahead, Find, Exists, Make, Queue, EmptyMap, IdsBelow, Below
<1>6. ASSUME NEW d \in Conn, th[d].pc = "pushing", th[d].rq.type = "Send", th[d].rq.name = n
      PROVE  x < queues.queues[n].next_id - 1
  <2>1. Pending(queues, n)
    BY <1>6 DEF IdsBelow
  <2>2. k < queues.queues[n].next_id - 1
    BY <1>6 DEF CursorBelow, k
  <2> QED BY <1>3, <2>1, <2>2 DEF Pending, Find, Exists
<1>7. ASSUME NEW id \in DOMAIN Find(queues, n).q, id <= x
      PROVE  <<n, id>> \in seen[c] \cup ids
  <2>1. CASE id <= k
    BY <1>7, <2>1 DEF CursorBelow, k
  <2>2. CASE id > k
    BY <1>3, <1>7, <2>2
  <2> QED BY <1>2, <1>4, <2>1, <2>2
<1> QED BY <1>1, <1>5, <1>6, <1>7

\* CursorBelow is inductive for queues that stay.
LEMMA CursorBelowStep ==
  ASSUME StoreInv, Inv', CursorBelow, OneQueue, PolledStay, [Next]_vars, Persistent => ~MayCrash
  PROVE  CursorBelow'
<1>0. /\ Inv /\ Quiet /\ Asked /\ Aside /\ IdsBelow /\ Fresh /\ (Persistent => Exclusive)
      /\ Good(queues) /\ DOMAIN cursor = Conn /\ DOMAIN seen = Conn
  BY DEF StoreInv, WakeInv, Inv, Shared, Clients
<1>1. ASSUME NEW e \in Conn, Client(e)
      PROVE  CursorBelow'
  <2> SUFFICES ASSUME NEW c \in Conn, NEW n \in Name, Polls(c, n)
               PROVE  /\ Ahead(queues', n, cursor'[c])
                      /\ \A d \in Conn :
                            th'[d].pc = "pushing" /\ th'[d].rq.type = "Send" /\ th'[d].rq.name = n =>
                                cursor'[c] < queues'.queues[n].next_id - 1
                      /\ \A id \in DOMAIN Find(queues', n).q : id <= cursor'[c] => <<n, id>> \in seen'[c]
    BY DEF CursorBelow
  <2>a. /\ Ahead(queues, n, cursor[c])
        /\ \A d \in Conn :
              th[d].pc = "pushing" /\ th[d].rq.type = "Send" /\ th[d].rq.name = n =>
                  cursor[c] < queues.queues[n].next_id - 1
        /\ Exists(queues, n) => Exists(queues', n)
    BY DEF CursorBelow, PolledStay
  <2>b. NoneBelow(queues, queues, n, cursor[c])
    BY DEF NoneBelow
  <2>c. ASSUME NEW d \in Conn \ {e}, th'[d].pc = "pushing"
        PROVE  th'[d] = th[d]
    BY <1>0, <1>1, <2>c, ClientEffect, NudgedKeeps DEF Inv, Shared, ThreadsGood
  <2>1. CASE (Opens(e) \/ Shuts(e) \/ GivesUp(e)) /\ UNCHANGED queues /\ th'[e].pc # "pushing"
    <3>1. cursor'[c] = cursor[c] /\ seen'[c] = seen[c]
      BY <2>1 DEF Opens, Connect, Shuts, GivesUp
    <3>2. \A d \in Conn : th'[d].pc = "pushing" => th'[d] = th[d]
      BY <2>1, <2>c
    <3> QED BY <2>1, <2>a, <2>b, <3>1, <3>2, StillBelow
  <2>2. ASSUME NEW s, NEW rq, Serving(e, s, rq), Kind(e, s, rq), Effect(e, s, rq)
        PROVE  /\ Ahead(queues', n, cursor'[c])
               /\ \A d \in Conn :
                     th'[d].pc = "pushing" /\ th'[d].rq.type = "Send" /\ th'[d].rq.name = n =>
                         cursor'[c] < queues'.queues[n].next_id - 1
               /\ \A id \in DOMAIN Find(queues', n).q : id <= cursor'[c] => <<n, id>> \in seen'[c]
    <3>1. CASE rq.type = "Transfer"
      <4>1. /\ UNCHANGED queues
            /\ \A d \in Conn : th'[d].pc = "pushing" => th[d].pc = "pushing" /\ th'[d].rq = th[d].rq
        <5>1. \A qs, ops, newq : ~Prepared(s, rq, qs, ops, newq)
          BY <3>1 DEF Prepared
        <5>2. /\ UNCHANGED queues \/ (th[e].pc = "pushing" /\ rq = th[e].rq)
              /\ th'[e].pc = "pushing" => th[e].pc = "pushing" /\ th'[e].rq = th[e].rq
          BY <2>2, <5>1 DEF Effect
        <5>3. ~(th[e].pc = "pushing" /\ rq = th[e].rq)
          BY <1>0, <3>1 DEF Aside, Doing
        <5> QED BY <2>c, <5>2, <5>3
      <4>2. CASE cursor'[c] = cursor[c] /\ seen'[c] = seen[c]
        BY <2>a, <2>b, <4>1, <4>2, StillBelow
      <4>3. CASE c = e /\ ~UNCHANGED <<cursor, seen>>
        <5>1. rq \in Request[c]
          BY <1>0, <2>2, <3>1, <4>3, ServingOK
        <5>2. rq.names = {n}
          BY <3>1, <5>1 DEF OneQueue
        <5>a. /\ cursor' = [cursor EXCEPT ![e] = TransferNext(@, TransferMessages(queues, cursor[e], rq.names))]
              /\ seen' = [seen EXCEPT ![e] = @ \cup TransferMessages(queues, cursor[e], rq.names)]
          BY <2>2, <4>3, CursorMoves
        <5>3. /\ cursor' = [cursor EXCEPT ![c] = TransferNext(@, TransferMessages(queues, cursor[c], {n}))]
              /\ seen' = [seen EXCEPT ![c] = @ \cup TransferMessages(queues, cursor[c], {n})]
          BY <4>3, <5>2, <5>a
        <5>4. /\ Ahead(queues, n, cursor'[c])
              /\ \A d \in Conn :
                   th[d].pc = "pushing" /\ th[d].rq.type = "Send" /\ th[d].rq.name = n =>
                       cursor'[c] < queues.queues[n].next_id - 1
              /\ \A id \in DOMAIN Find(queues, n).q : id <= cursor'[c] => <<n, id>> \in seen'[c]
          BY <1>0, <5>3, TransferBelow
        <5> QED BY <4>1, <5>4
      <4> QED BY <1>0, <2>2, <4>2, <4>3, CursorMoves
    <3>2. CASE rq.type # "Transfer"
      <4>1. cursor'[c] = cursor[c] /\ seen'[c] = seen[c]
        BY <2>2, <3>2, CursorMoves
      <4>2. ASSUME Has(e) \/ th[e].pc = "pushing", NEW d \in Conn \ {e}
            PROVE  th'[d].pc # "pushing"
        <5> SUFFICES ASSUME th'[d].pc = "pushing" PROVE FALSE
          OBVIOUS
        <5>1. th[d].pc = "pushing" /\ Persistent
          BY <1>0, <2>c DEF Aside
        <5> QED BY <1>0, <4>2, <5>1 DEF Has, Enters, Inside, Exclusive
      <4>3. CASE /\ UNCHANGED queues
                 /\ th'[e].pc = "pushing" => th[e].pc = "pushing" /\ th'[e].rq = th[e].rq
        <5>1. \A d \in Conn : th'[d].pc = "pushing" => th[d].pc = "pushing" /\ th'[d].rq = th[d].rq
          BY <2>c, <4>3
        <5> QED BY <2>a, <2>b, <4>1, <4>3, <5>1, StillBelow
      <4>4. ASSUME NEW qs, NEW ops, Has(e), th'[e].pc # "pushing", Prepared(s, rq, qs, ops, queues')
            PROVE  /\ Ahead(queues', n, cursor[c]) /\ NoneBelow(queues, queues', n, cursor[c])
                   /\ \A d \in Conn : th'[d].pc # "pushing"
        <5>1. /\ Ahead(qs, n, cursor[c]) /\ NoneBelow(queues, qs, n, cursor[c]) /\ Good(qs)
              /\ Exists(qs, n) <=> Exists(queues, n)
              /\ rq.type = "Send" /\ n = rq.name => cursor[c] < qs.queues[n].next_id - 1
          BY <1>0, <2>a, <4>4, PreparedAhead
        <5>2. Doing(rq, s, qs, queues')
          BY <1>0, <4>4, PreparedDoing
        <5>3. Ahead(queues', n, cursor[c]) /\ NoneBelow(qs, queues', n, cursor[c])
          BY <2>a, <5>1, <5>2, DoingAhead
        <5> QED BY <4>2, <4>4, <5>1, <5>3 DEF NoneBelow
      <4>5. ASSUME NEW ops, NEW newq, Has(e), th'[e] = Thread("pushing", s, rq, ops, newq),
                   Prepared(s, rq, queues', ops, newq)
            PROVE  /\ Ahead(queues', n, cursor[c]) /\ NoneBelow(queues, queues', n, cursor[c])
                   /\ \A d \in Conn :
                        th'[d].pc = "pushing" /\ th'[d].rq.type = "Send" /\ th'[d].rq.name = n =>
                            cursor[c] < queues'.queues[n].next_id - 1
        <5>1. /\ Ahead(queues', n, cursor[c]) /\ NoneBelow(queues, queues', n, cursor[c])
              /\ rq.type = "Send" /\ n = rq.name => cursor[c] < queues'.queues[n].next_id - 1
          BY <1>0, <2>a, <4>5, PreparedAhead
        <5>2. th'[e].rq = rq
          BY <4>5 DEF Thread
        <5> QED BY <4>2, <4>5, <5>1, <5>2
      <4>6. CASE /\ th[e].pc = "pushing" /\ th'[e].pc # "pushing"
                 /\ queues' = th[e].newq /\ s = th[e].session /\ rq = th[e].rq
        <5>1. Doing(rq, s, queues, queues')
          BY <1>0, <4>6 DEF Aside
        <5>2. rq.type = "Send" /\ n = rq.name => cursor[c] < queues.queues[n].next_id - 1
          BY <2>a, <4>6
        <5>3. Ahead(queues', n, cursor[c]) /\ NoneBelow(queues, queues', n, cursor[c])
          BY <1>0, <2>a, <5>1, <5>2, DoingAhead
        <5>4. \A d \in Conn : th'[d].pc # "pushing"
          BY <4>2, <4>6
        <5> QED BY <4>1, <5>3, <5>4, StillBelow
      <4> QED BY <2>2, <4>1, <4>3, <4>4, <4>5, <4>6, StillBelow DEF Effect
    <3> QED BY <3>1, <3>2
  <2> QED BY <1>0, <1>1, <2>1, <2>2, ClientEffect
<1>2. CASE UNCHANGED vars \/ Flush \/ Start \/ Replayed
  <2>1. UNCHANGED <<th, queues, cursor, seen>>
    BY <1>0, <1>2, OtherStepsKeep DEF Replayed, Fresh
  <2> QED BY <2>1 DEF CursorBelow
<1>3. CASE Crash
  <2>1. queues' = EmptyQueues /\ UNCHANGED <<cursor, seen>>
    BY <1>3 DEF Crash
  <2>2. \A n : ~Exists(queues', n) /\ DOMAIN Find(queues', n).q = {}
    BY <2>1 DEF Exists, Find, Make, Queue, EmptyQueues, EmptyMap
  <2>3. \A d \in Conn : th'[d].pc \in {"closed", "new"}
    BY <1>0, <1>3, CrashThreads, Places
  <2>4. \A c \in Conn, n \in Name : Polls(c, n) => ~Exists(queues, n)
    BY <2>2 DEF PolledStay
  <2> QED BY <2>1, <2>2, <2>3, <2>4 DEF CursorBelow, Ahead
<1> QED BY <1>0, <1>1, <1>2, <1>3, OtherSteps

\* A client that polls one queue, and gives back the cursor it was given, is
\* sent every message (transfer in q.ml): whatever Sends take identifiers and
\* deliver later, in whatever order the handlers run, no message comes to the
\* queue at or below a cursor that was handed out.  The queue must stay: one
\* that is destroyed and created again counts from zero.
THEOREM PollersMissNothing ==
  ASSUME OneQueue, Persistent => NoTrace /\ ~MayCrash
  PROVE  Spec /\ [][PolledStay]_vars => []NothingSkipped
<1>1. Init => StoreInv /\ CursorBelow
  <2> SUFFICES ASSUME Init PROVE StoreInv /\ CursorBelow
    OBVIOUS
  <2>1. StoreInv
    BY StoreInvInitial
  <2>2. queues = EmptyQueues /\ \A c \in Conn : cursor[c] = -1 /\ th[c] = Parked("new")
    BY DEF Init
  <2>3. \A n : ~Exists(queues, n) /\ DOMAIN Find(queues, n).q = {}
    BY <2>2 DEF Exists, Find, Make, Queue, EmptyQueues, EmptyMap
  <2>4. \A c \in Conn : th[c].pc = "new"
    BY <2>2, Places
  <2> QED BY <2>1, <2>2, <2>3, <2>4 DEF CursorBelow, Ahead
<1>2. StoreInv /\ CursorBelow /\ [Next]_vars /\ [PolledStay]_vars => StoreInv' /\ CursorBelow'
  <2> SUFFICES ASSUME StoreInv, CursorBelow, [Next]_vars, [PolledStay]_vars
               PROVE  StoreInv' /\ CursorBelow'
    OBVIOUS
  <2>1. StoreInv' /\ Inv'
    BY StoreInvInductive DEF StoreInv, WakeInv
  <2>2. PolledStay
    BY DEF PolledStay, vars
  <2> QED BY <2>1, <2>2, CursorBelowStep
<1>3. CursorBelow => NothingSkipped
  <2> SUFFICES ASSUME CursorBelow, NEW c \in Conn, NEW n \in Name,
                      NEW rq, rq = [type |-> "Transfer", names |-> {n}], rq \in Request[c],
                      NEW id \in DOMAIN Find(queues, n).q, id <= cursor[c]
               PROVE  <<n, id>> \in seen[c]
    BY DEF NothingSkipped
  <2> QED BY DEF CursorBelow, Polls
<1> QED BY <1>1, <1>2, <1>3, PTL DEF Spec

-----------------------------------------------------------------------------
(* Who makes which queue *)

\* Some client logs in with session s and creates the transient queue n.
HomeOf(n, s) ==
    \E c \in Conn : /\ [type |-> "CreateTransient", name |-> n] \in Request[c]
                    /\ [type |-> "Login", session |-> s] \in Request[c]

\* Sessions do not share the names of their transient queues.
OwnNames ==
    \A n \in Name : \A s, t \in Session : HomeOf(n, s) /\ HomeOf(n, t) => s = t

Homes(qs) ==
    \A n \in DOMAIN qs.queues :
        qs.queues[n].owner # None => HomeOf(n, qs.queues[n].owner)

HomeOps == {o \in Operation : o.op = "Add" /\ o.owner # None => HomeOf(o.name, o.owner)}

\* In memory, on disk and on the way there, an owned queue is one its owner
\* asked for.
HomesOK ==
    /\ Homes(queues) /\ Homes(dump) /\ Homes(onDisk) /\ Homes(flush.acc)
    /\ journal \in Seq(HomeOps) /\ flush.todo \in Seq(HomeOps)
    /\ \A c \in Conn : th[c].pc = "pushing" => th[c].ops \subseteq HomeOps
    /\ \A c \in Conn : th[c].rq.type = "Cleanup" =>
          \A n \in th[c].rq.names : HomeOf(n, th[c].session)

\* The same owners, the same homes.
LEMMA SameHomes ==
  ASSUME NEW p, NEW q, SameOwners(p, q), Homes(p)
  PROVE  Homes(q)
  BY DEF SameOwners, Homes

\* Performing an operation,
LEMMA DoOpHomes ==
  ASSUME NEW qs, Homes(qs), NEW o \in HomeOps
  PROVE  Homes(DoOp(qs, o))
<1>1. CASE o.op = "Add"
  <2>1. DoOp(qs, o) = DirectoryAdd(qs, o.owner, o.name)
    BY <1>1 DEF DoOp
  <2>2. Make(o.owner).owner = o.owner /\ (o.owner # None => HomeOf(o.name, o.owner))
    BY <1>1 DEF Make, Queue, HomeOps
  <2> QED BY <2>1, <2>2, AddQueues DEF Homes
<1>2. CASE o.op = "Remove"
  <2>1. DoOp(qs, o) = RemoveAll(qs, {o.name})
    BY <1>2 DEF DoOp, DirectoryRemove
  <2> QED BY <2>1, RemoveQueues DEF Homes
<1>3. CASE o.op = "Ack"
  <2>1. DoOp(qs, o) = InternalAck(qs, o.name, o.id)
    BY <1>3 DEF DoOp
  <2>2. InternalAck(qs, o.name, o.id) = qs \/ SameOwners(qs, InternalAck(qs, o.name, o.id))
    BY WithOwners DEF InternalAck, Exists
  <2> QED BY <2>1, <2>2, SameHomes
<1>4. CASE o.op = "Send"
  <2>1. DoOp(qs, o) = InternalSend(qs, o.origin, o.name, o.id, o.msg)
    BY <1>4 DEF DoOp
  <2> DEFINE new == InternalSend(qs, o.origin, o.name, o.id, o.msg)
  <2>2. new = qs \/ SameOwners(qs, new)
    BY WithOwners DEF InternalSend, Exists
  <2> HIDE DEF new
  <2> QED BY <2>1, <2>2, SameHomes DEF new
<1> QED BY <1>1, <1>2, <1>3, <1>4 DEF HomeOps, Operation

\* loading a dump,
LEMMA LoadHomes ==
  ASSUME NEW qs, Homes(qs)
  PROVE  Homes(LoadQueues(qs))
<1>1. SameOwners(qs, LoadQueues(qs))
  BY DEF SameOwners, LoadQueues, Queue
<1> QED BY <1>1, SameHomes

\* creating a queue for a session,
LEMMA CreatesHome ==
  ASSUME Inv, Asked, NEW c \in Conn, NEW s, NEW rq, Serving(c, s, rq),
         rq.type = "CreateTransient", s # None
  PROVE  HomeOf(rq.name, s)
<1>1. rq \in Request[c] /\ <<c, s>> \in sessions
  BY ServingOK
<1>2. rq = [type |-> "CreateTransient", name |-> rq.name]
  BY <1>1, SwitchAssumption
<1>3. \A p \in sessions : [type |-> "Login", session |-> p[2]] \in Request[p[1]]
  BY DEF Asked
<1>4. [type |-> "Login", session |-> s] \in Request[c]
  BY <1>1, <1>3
<1> QED BY <1>1, <1>2, <1>4 DEF HomeOf

\* preparing the operations of a request: all is as it should.
LEMMA PreparedHomes ==
  ASSUME Inv, Asked, NEW c \in Conn, NEW s, NEW rq, Serving(c, s, rq),
         NEW qs, NEW ops, NEW newq, Prepared(s, rq, qs, ops, newq)
  PROVE  ops \cap Operation \subseteq HomeOps
<1>1. ASSUME NEW o \in ops, o.op = "Add", o.owner # None
      PROVE  HomeOf(o.name, o.owner)
  <2>1. CASE rq.type = "CreateTransient" /\ s # None /\ o = OpAdd(s, rq.name)
    BY <2>1, CreatesHome DEF OpAdd
  <2>2. CASE o = OpAdd(None, rq.name)
    BY <1>1, <2>2 DEF OpAdd
  <2>3. CASE \E n : o = OpRemove(n)
    BY <1>1, <2>3 DEF OpRemove
  <2>4. CASE o = OpAck(rq.name, rq.id)
    BY <1>1, <2>4 DEF OpAck
  <2>5. CASE o = OpSend(s, rq.name, queues.queues[rq.name].next_id, rq.msg)
    BY <1>1, <2>5 DEF OpSend
  <2> QED BY <1>1, <2>1, <2>2, <2>3, <2>4, <2>5 DEF Prepared
<1> QED BY <1>1 DEF HomeOps

\* What a client's step writes to the redo-log is an operation of its thread.
LEMMA ClientJournal ==
  ASSUME NEW c \in Conn, Client(c)
  PROVE  \/ UNCHANGED journal
         \/ /\ th[c].pc = "pushing"
            /\ \E o \in th[c].ops : journal' = Append(journal, o)
  BY DEF Client, Connect, Arrive, ThreadStep, Wake, Resume, Read, TraceRelock,
         TraceResume, PushStep, Push, TransferTimeout, TraceTimeout, PushFail, Close, diskVars

\* A thread with a session is about the request its last step served.
LEMMA OwnRequest ==
  ASSUME Inv, Inv', Asked, NEW c \in Conn, NEW s, NEW rq, Serving(c, s, rq), Kind(c, s, rq),
         th'[c].rq.type # "None" \/ th'[c].session # None
  PROVE  th'[c].session = s /\ th'[c].rq = rq
<1>1. s \in Session \cup {None} /\ rq \in AnyRequest /\ ThreadsGood(th')
  BY DEF Serving, Inv, Shared
<1>2. OwnThread(c, s, rq)
  BY <1>1, KindThreads
<1>3. \A pc \in {"idle", "closed"} : \A y \in Nudged(Parked(pc)) : y.rq.type = "None" /\ y.session = None
  BY ParkedOK
<1>4. \A pc, ops, newq : Thread(pc, s, rq, ops, newq).session = s /\ Thread(pc, s, rq, ops, newq).rq = rq
  BY DEF Thread
<1>5. CASE th'[c] \in Nudged(Thread("tracing", s, rq, {}, EmptyQueues))
  BY <1>5 DEF Nudged, At, Thread
<1>6. CASE th[c].pc = "traced" /\ th'[c] = At(th[c], "relock")
  <2>1. th'[c].session = th[c].session /\ th'[c].rq = th[c].rq
    BY <1>6 DEF At, Thread
  <2> QED BY <1>6, <2>1 DEF Serving, Asking, Going, Closing
<1> QED BY <1>2, <1>3, <1>4, <1>5, <1>6 DEF OwnThread

\* The clean-up of a step goes on, or begins with the queues the session owns.
LEMMA CleanupNames ==
  ASSUME Inv, Asked, NEW c \in Conn, NEW s, NEW rq, Serving(c, s, rq), rq.type = "Cleanup"
  PROVE  \/ Going(c, s, rq) /\ UNCHANGED sessions
         \/ /\ Closing(c, s, rq)
            /\ \A n \in rq.names : Exists(queues, n) /\ queues.queues[n].owner = s
<1>1. ~Asking(c, s, rq)
  BY SwitchAssumption DEF Asking, Askable
<1>2. CASE Closing(c, s, rq)
  <2>1. rq.names = OwnedQueues(queues, s)
    BY <1>2 DEF Closing
  <2> QED BY <1>2, <2>1 DEF OwnedQueues, Inv, Shared, Good, IndexConsistent
<1> QED BY <1>1, <1>2 DEF Serving

\* HomesOK is inductive.
LEMMA HomesStep ==
  ASSUME Inv, Inv', Asked, Aside, HomesOK, [Next]_vars
  PROVE  HomesOK'
<1>1. ASSUME NEW c \in Conn, Client(c)
      PROVE  HomesOK'
  <2>1. Homes(dump)' /\ Homes(onDisk)' /\ Homes(flush.acc)' /\ flush'.todo \in Seq(HomeOps)
    BY <1>1, ClientUp DEF HomesOK
  <2>2. journal' \in Seq(HomeOps)
    BY <1>1, ClientJournal DEF HomesOK
  <2>3. \A d \in Conn \ {c} : /\ th'[d].rq = th[d].rq /\ th'[d].session = th[d].session
                              /\ th'[d].pc = "pushing" => th'[d] = th[d]
    BY <1>1, ClientEffect, NudgedKeeps DEF Inv, Shared, ThreadsGood
  <2>4. CASE (Opens(c) \/ Shuts(c) \/ GivesUp(c)) /\ UNCHANGED queues /\ th'[c].pc # "pushing"
    <3>1. th'[c].rq.type = "None"
      BY <2>4, EndsParked, ParkedOK
    <3> QED BY <2>1, <2>2, <2>3, <2>4, <3>1 DEF HomesOK
  <2>5. ASSUME NEW s, NEW rq, Serving(c, s, rq), Kind(c, s, rq), Effect(c, s, rq)
        PROVE  HomesOK'
    <3>1. Homes(queues')
      <4>1. CASE SameOwners(queues, queues')
        BY <4>1, SameHomes DEF HomesOK
      <4>2. CASE Owners(queues, rq, s, queues')
        BY <2>5, <4>2, CreatesHome DEF Owners, Homes, HomesOK
      <4> QED BY <2>5, <4>1, <4>2, EffectOwners
    <3>2. th'[c].pc = "pushing" => th'[c].ops \subseteq HomeOps
      <4> SUFFICES ASSUME th'[c].pc = "pushing" PROVE th'[c].ops \subseteq HomeOps
        OBVIOUS
      <4>1. CASE th[c].pc = "pushing" /\ th'[c].ops \subseteq th[c].ops
        BY <4>1 DEF HomesOK
      <4>2. ASSUME NEW ops, NEW newq, th'[c] = Thread("pushing", s, rq, ops, newq),
                   Prepared(s, rq, queues', ops, newq)
            PROVE  th'[c].ops \subseteq HomeOps
        <5>1. th'[c].ops = ops
          BY <4>2 DEF Thread
        <5>2. th'[c].ops \subseteq Operation
          BY DEF Inv, Shared, ThreadsGood, ThreadGood, ThreadOK
        <5> QED BY <2>5, <4>2, <5>1, <5>2, PreparedHomes
      <4> QED BY <2>5, <4>1, <4>2 DEF Effect
    <3>3. th'[c].rq.type = "Cleanup" => \A n \in th'[c].rq.names : HomeOf(n, th'[c].session)
      <4> SUFFICES ASSUME th'[c].rq.type = "Cleanup"
                   PROVE  \A n \in th'[c].rq.names : HomeOf(n, th'[c].session)
        OBVIOUS
      <4>1. th'[c].session = s /\ th'[c].rq = rq
        BY <2>5, OwnRequest
      <4>2. CASE Going(c, s, rq)
        BY <4>1, <4>2 DEF Going, HomesOK
      <4>3. CASE /\ Closing(c, s, rq)
                 /\ \A n \in rq.names : Exists(queues, n) /\ queues.queues[n].owner = s
        BY <4>1, <4>3 DEF Closing, HomesOK, Homes, Exists
      <4> QED BY <2>5, <4>1, <4>2, <4>3, CleanupNames
    <3> QED BY <2>1, <2>2, <2>3, <3>1, <3>2, <3>3 DEF HomesOK
  <2> QED BY <1>1, <2>4, <2>5, ClientEffect
<1>2. CASE UNCHANGED vars
  BY <1>2 DEF vars, HomesOK
<1>3. CASE Flush
  <2>0. UNCHANGED <<queues, th>>
    BY <1>3, OtherStepsKeep DEF Flush, FlushBegin, FlushApply, FlushSave, FlushAdvance
  <2>a. /\ \A pc, acc, todo, size : /\ FlushState(pc, acc, todo, size).acc = acc
                                    /\ FlushState(pc, acc, todo, size).todo = todo
        /\ Homes(EmptyQueues) /\ <<>> \in Seq(HomeOps)
    BY DEF FlushState, Homes, EmptyQueues, EmptyMap
  <2>1. CASE FlushBegin
    BY <2>0, <2>1, <2>a DEF FlushBegin, HomesOK
  <2>2. CASE FlushApply
    <3>1. flush.todo \in Seq(HomeOps) /\ flush.todo # <<>>
      BY <2>2 DEF FlushApply, HomesOK
    <3>2. Head(flush.todo) \in HomeOps /\ Tail(flush.todo) \in Seq(HomeOps)
      BY <3>1
    <3>3. Homes(DoOp(flush.acc, Head(flush.todo)))
      BY <3>2, DoOpHomes DEF HomesOK
    <3>4. /\ flush'.acc = DoOp(flush.acc, Head(flush.todo)) /\ flush'.todo = Tail(flush.todo)
          /\ UNCHANGED <<dump, onDisk, journal>>
      BY <2>2, <2>a DEF FlushApply
    <3> QED BY <2>0, <3>2, <3>3, <3>4 DEF HomesOK
  <2>3. CASE FlushSave
    <3>1. /\ flush'.acc = flush.acc /\ flush'.todo = <<>>
          /\ dump' = flush.acc /\ onDisk' = flush.acc /\ UNCHANGED journal
      BY <2>3, <2>a DEF FlushSave
    <3> QED BY <2>0, <2>a, <3>1 DEF HomesOK
  <2>4. CASE FlushAdvance
    <3>1. journal' = SubSeq(journal, flush.size + 1, Len(journal)) /\ flush.size \in Nat
      BY <2>4 DEF FlushAdvance, Inv, Disk, FlushOK
    <3>2. journal' \in Seq(HomeOps)
      BY <3>1, SubSeqProperties DEF HomesOK
    <3>3. flush'.acc = EmptyQueues /\ flush'.todo = <<>> /\ UNCHANGED <<dump, onDisk>>
      BY <2>4, <2>a DEF FlushAdvance, FlushIdle
    <3> QED BY <2>0, <2>a, <3>2, <3>3 DEF HomesOK
  <2> QED BY <1>3, <2>1, <2>2, <2>3, <2>4 DEF Flush
<1>4. CASE Start
  BY <1>4, LoadHomes DEF Start, HomesOK
<1>5. CASE Replayed
  BY <1>5 DEF Replayed, diskVars, HomesOK
<1>6. CASE Crash
  <2>1. \A c \in Conn : th'[c].pc \in {"closed", "new"} /\ th'[c].rq.type = "None"
    <3>1. \A c \in Conn : th'[c] = Parked("closed") \/ (th[c].pc = "new" /\ th'[c] = th[c])
      BY <1>6, CrashThreads
    <3>2. Parked("closed").pc = "closed" /\ Parked("closed").rq.type = "None"
      BY DEF Parked, Thread, NoRequest
    <3> QED BY <3>1, <3>2 DEF Asked, RequestOK
  <2>2. /\ queues' = EmptyQueues /\ onDisk' = EmptyQueues /\ flush' = FlushIdle
        /\ UNCHANGED <<dump, journal>>
    BY <1>6 DEF Crash
  <2>3. Homes(EmptyQueues) /\ FlushIdle.acc = EmptyQueues /\ FlushIdle.todo \in Seq(HomeOps)
    BY DEF Homes, EmptyQueues, EmptyMap, FlushIdle, FlushState
  <2> QED BY <2>1, <2>2, <2>3 DEF HomesOK
<1> QED BY <1>1, <1>2, <1>3, <1>4, <1>5, <1>6, OtherSteps

\* Nobody destroys a queue that is polled, and it is nobody's own.
Lasting ==
    \A c \in Conn, n \in Name : Polls(c, n) =>
        \A d \in Conn : \A rq \in Request[d] :
            rq.type \in {"Destroy", "CreateTransient"} => rq.name # n

\* Then it stays,
LEMMA LastingStay ==
  ASSUME StoreInv, Inv', HomesOK, Lasting, ~MayCrash, [Next]_vars
  PROVE  PolledStay
<1>0. Inv /\ Asked /\ Aside /\ Fresh
  BY DEF StoreInv, WakeInv
<1> SUFFICES ASSUME NEW c \in Conn, NEW n \in Name, Polls(c, n), Exists(queues, n)
             PROVE  Exists(queues', n)
  BY DEF PolledStay
<1>1. \A s : ~HomeOf(n, s)
  BY DEF Lasting, HomeOf
<1>2. ASSUME NEW e \in Conn, Client(e)
      PROVE  Exists(queues', n)
  <2>1. ASSUME NEW s, NEW rq, Serving(e, s, rq), Effect(e, s, rq)
        PROVE  Exists(queues', n)
    <3>1. CASE SameOwners(queues, queues')
      BY <3>1 DEF SameOwners, Exists
    <3>2. CASE Owners(queues, rq, s, queues')
      <4>1. ~(rq.type = "Destroy" /\ n = rq.name)
        BY <1>0, <2>1, ServingOK DEF Lasting
      <4>2. ~(rq.type = "Cleanup" /\ n \in rq.names)
        <5> SUFFICES ASSUME rq.type = "Cleanup", n \in rq.names PROVE FALSE
          OBVIOUS
        <5>1. CASE Going(e, s, rq)
          BY <1>1, <5>1 DEF Going, HomesOK
        <5>2. CASE Closing(e, s, rq) /\ queues.queues[n].owner = s
          BY <1>1, <5>2 DEF Closing, HomesOK, Homes, Exists
        <5> QED BY <1>0, <2>1, <5>1, <5>2, CleanupNames
      <4> QED BY <3>2, <4>1, <4>2 DEF Owners, Exists
    <3> QED BY <1>0, <2>1, <3>1, <3>2, EffectOwners
  <2> QED BY <1>0, <1>2, <2>1, ClientEffect
<1>3. CASE UNCHANGED vars \/ Flush \/ Start \/ Replayed
  <2>1. UNCHANGED queues
    BY <1>0, <1>3, OtherStepsKeep DEF Replayed, Fresh
  <2> QED BY <2>1
<1> QED BY <1>2, <1>3, OtherSteps DEF Crash

\* It holds at first.
LEMMA HomesInitial == Init => HomesOK
<1> SUFFICES ASSUME Init PROVE HomesOK
  OBVIOUS
<1>1. /\ queues = EmptyQueues /\ dump = EmptyQueues /\ onDisk = EmptyQueues
      /\ journal = <<>> /\ flush = FlushIdle /\ \A c \in Conn : th[c] = Parked("new")
  BY DEF Init
<1>2. Homes(EmptyQueues) /\ FlushIdle.acc = EmptyQueues /\ FlushIdle.todo = <<>>
  BY DEF Homes, EmptyQueues, EmptyMap, FlushIdle, FlushState
<1>3. Parked("new").pc = "new" /\ Parked("new").rq.type = "None"
  BY DEF Parked, Thread, NoRequest
<1> QED BY <1>1, <1>2, <1>3 DEF HomesOK

\* and nothing is skipped: the hypothesis of PollersMissNothing is met by
\* clients that poll persistent queues which nobody destroys, as the servers of
\* message-switch do.
THEOREM ServersMissNothing ==
  ASSUME OneQueue, Lasting, ~MayCrash, Persistent => NoTrace
  PROVE  Spec => []NothingSkipped
<1>1. Init => StoreInv /\ HomesOK
  BY StoreInvInitial, HomesInitial
<1>2. StoreInv /\ HomesOK /\ [Next]_vars => StoreInv' /\ HomesOK' /\ [PolledStay]_vars
  <2> SUFFICES ASSUME StoreInv, HomesOK, [Next]_vars
               PROVE  StoreInv' /\ HomesOK' /\ PolledStay
    OBVIOUS
  <2>1. StoreInv' /\ Inv' /\ Inv /\ Asked /\ Aside
    BY StoreInvInductive DEF StoreInv, WakeInv
  <2> QED BY <2>1, HomesStep, LastingStay
<1>3. Spec => [][PolledStay]_vars
  BY <1>1, <1>2, PTL DEF Spec
<1>4. Spec /\ [][PolledStay]_vars => []NothingSkipped
  BY PollersMissNothing
<1> QED BY <1>3, <1>4, PTL

-----------------------------------------------------------------------------
(* A session keeps its queues *)

\* The mutex is fair: whoever asks for it with the session of a clean-up that is
\* not over waits behind the clean-up.
CleanupFirst ==
    \A c, d \in Conn :
        /\ th[c].rq.type = "Cleanup" /\ th[d].rq.type # "Cleanup"
        /\ th[d].session = th[c].session
        => \/ th[d].pc \in {"waiting", "woken"}
           \/ /\ th[d].pc = "locking"
              /\ \A i, j \in DOMAIN waiters :
                    waiters[i].conn = c /\ waiters[j].conn = d => i < j

\* A clean-up under way has the mutex or waits for it.
LEMMA CleanupLocks ==
  ASSUME Asked, Exclusive, NEW c \in Conn, th[c].rq.type = "Cleanup"
  PROVE  locked /\ th[c].pc \in {"locking", "granted", "pushing"} /\ th[c].session # None
<1>1. th[c].pc \in {"locking", "granted", "pushing"} /\ th[c].session # None
  BY DEF Asked, RequestOK, Exclusive
<1>2. CASE th[c].pc = "locking"
  <2>1. PICK i \in DOMAIN waiters : waiters[i].conn = c
    BY <1>2 DEF Exclusive
  <2>2. waiters # <<>>
    BY <2>1
  <2> QED BY <1>1, <2>2 DEF Exclusive
<1>3. CASE th[c].pc \in Inside
  BY <1>1, <1>3 DEF Exclusive
<1> QED BY <1>1, <1>2, <1>3 DEF Inside

\* So nobody with its session is in the critical section.
LEMMA CleanupBars ==
  ASSUME Inv, Asked, Exclusive, CleanupFirst, NEW c \in Conn, th[c].rq.type = "Cleanup",
         NEW d \in Conn, d # c, Has(d), NEW rq, Serving(d, th[c].session, rq)
  PROVE  rq.type = "Cleanup"
<1> SUFFICES ASSUME rq.type # "Cleanup" PROVE FALSE
  OBVIOUS
<1>1. locked /\ th[c].session # None
  BY CleanupLocks
<1>2. th[d].pc \in Inside
  BY <1>1 DEF Has, Enters, Inside
<1>3. th[d].session = th[c].session /\ th[d].rq = rq
  BY <1>2 DEF Serving, Asking, Going, Closing, Inside
<1> QED BY <1>2, <1>3 DEF CleanupFirst, Inside

\* How a step changes the queue of the mutex: by one more at the end, or one less
\* at the front.
LEMMA QueueOrder ==
  ASSUME Inv, Exclusive, NEW c \in Conn, Moves(c) \/ Queues(c) \/ Holds(c) \/ Leaves(c),
         NEW i \in DOMAIN waiters', NEW j \in DOMAIN waiters'
  PROVE  \/ /\ i \in DOMAIN waiters /\ waiters'[i] = waiters[i]
            /\ \/ j \in DOMAIN waiters /\ waiters'[j] = waiters[j]
               \/ Queues(c) /\ i < j /\ waiters'[j].conn = c
         \/ Queues(c) /\ waiters'[i].conn = c
         \/ /\ Leaves(c) /\ i \in Nat /\ j \in Nat
            /\ i + 1 \in DOMAIN waiters /\ waiters'[i] = waiters[i + 1]
            /\ j + 1 \in DOMAIN waiters /\ waiters'[j] = waiters[j + 1]
<1>0. waiters \in Seq([conn : Conn, bg : BOOLEAN])
  BY DEF Inv, Shared, Waiters
<1>1. CASE Moves(c) \/ Holds(c)
  BY <1>1 DEF Moves, Holds
<1>2. CASE Queues(c)
  <2> DEFINE e == [conn |-> c, bg |-> FALSE]
  <2>1. waiters' = Append(waiters, e)
    BY <1>2 DEF Queues
  <2>2. /\ Len(waiters) \in Nat /\ DOMAIN waiters = 1 .. Len(waiters)
        /\ DOMAIN waiters' = 1 .. Len(waiters) + 1
        /\ waiters'[Len(waiters) + 1] = e
        /\ \A k \in DOMAIN waiters : waiters'[k] = waiters[k]
    BY <1>0, <2>1, AppendProperties, LenProperties
  <2>3. e.conn = c
    OBVIOUS
  <2> HIDE DEF e
  <2> QED BY <1>2, <2>2, <2>3
<1>3. CASE Leaves(c)
  <2>1. CASE waiters = <<>>
    <3>1. waiters' = <<>>
      BY <1>3, <2>1 DEF Leaves, Unlock
    <3> QED BY <3>1
  <2>2. CASE waiters # <<>>
    <3>1. waiters' = Tail(waiters)
      BY <1>3, <2>2 DEF Leaves, Unlock
    <3>2. /\ Len(waiters) \in Nat /\ DOMAIN waiters = 1 .. Len(waiters)
          /\ DOMAIN waiters' = 1 .. Len(waiters) - 1
          /\ \A k \in 1 .. Len(waiters) - 1 : waiters'[k] = waiters[k + 1]
      BY <1>0, <2>2, <3>1, TailByIndex
    <3> QED BY <1>3, <3>2
  <2> QED BY <2>1, <2>2
<1> QED BY <1>1, <1>2, <1>3

\* A step of a third connection keeps the two in order,
LEMMA OthersInOrder ==
  ASSUME Inv, Asked, Exclusive, CleanupFirst, NEW e \in Conn,
         Moves(e) \/ Queues(e) \/ Holds(e) \/ Leaves(e),
         NEW c \in Conn \ {e}, NEW d \in Conn \ {e},
         th[c].rq.type = "Cleanup", th[d].rq.type # "Cleanup", th[d].session = th[c].session
  PROVE  \/ th'[d].pc \in {"waiting", "woken"}
         \/ /\ th'[d].pc = "locking"
            /\ \A i, j \in DOMAIN waiters' :
                  waiters'[i].conn = c /\ waiters'[j].conn = d => i < j
<1>1. \/ th[d].pc \in {"waiting", "woken"}
      \/ /\ th[d].pc = "locking"
         /\ \A i, j \in DOMAIN waiters : waiters[i].conn = c /\ waiters[j].conn = d => i < j
  BY DEF CleanupFirst
<1>2. locked /\ th[c].pc \in {"locking", "granted", "pushing"}
  BY CleanupLocks
<1>3. \/ th'[d].pc = th[d].pc
      \/ th[d].pc = "waiting" /\ th'[d].pc = "woken"
      \/ Leaves(e) /\ waiters # <<>> /\ d = waiters[1].conn
  <2>1. CASE Leaves(e)
    BY <2>1, LeavesPlaces, Places
  <2>2. CASE Moves(e) \/ Queues(e) \/ Holds(e)
    BY <2>2 DEF Moves, Queues, Holds, Inv, Shared, ThreadsGood
  <2> QED BY <2>1, <2>2
<1>4. ~(th[d].pc = "locking" /\ Leaves(e) /\ waiters # <<>> /\ d = waiters[1].conn)
  <2> SUFFICES ASSUME th[d].pc = "locking", Leaves(e), waiters # <<>>, d = waiters[1].conn
               PROVE  FALSE
    OBVIOUS
  <2>1. th[e].pc \in Inside
    BY <1>2 DEF Leaves, Has, Enters, Inside
  <2>2. th[c].pc = "locking"
    BY <1>2, <2>1 DEF Exclusive, Inside
  <2>3. PICK i \in DOMAIN waiters : waiters[i].conn = c
    BY <2>2 DEF Exclusive
  <2>4. waiters \in Seq([conn : Conn, bg : BOOLEAN])
    BY DEF Inv, Shared, Waiters
  <2>5. 1 \in DOMAIN waiters /\ i \in Nat /\ i >= 1
    BY <2>3, <2>4, TailByIndex
  <2>6. i < 1
    BY <1>1, <2>3, <2>5
  <2> QED BY <2>5, <2>6
<1>5. CASE th[d].pc = "locking"
  <2>1. th'[d].pc = "locking"
    BY <1>3, <1>4, <1>5
  <2>2. ASSUME NEW i \in DOMAIN waiters', NEW j \in DOMAIN waiters',
               waiters'[i].conn = c, waiters'[j].conn = d
        PROVE  i < j
    <3>1. \A k, l \in DOMAIN waiters : waiters[k].conn = c /\ waiters[l].conn = d => k < l
      BY <1>1, <1>5
    <3>2. CASE /\ i \in DOMAIN waiters /\ waiters'[i] = waiters[i]
               /\ j \in DOMAIN waiters /\ waiters'[j] = waiters[j]
      BY <2>2, <3>1, <3>2
    <3>3. CASE /\ i \in Nat /\ j \in Nat
               /\ i + 1 \in DOMAIN waiters /\ waiters'[i] = waiters[i + 1]
               /\ j + 1 \in DOMAIN waiters /\ waiters'[j] = waiters[j + 1]
      <4>1. i + 1 < j + 1
        BY <2>2, <3>1, <3>3
      <4> QED BY <3>3, <4>1
    <3> QED BY <2>2, <3>2, <3>3, QueueOrder
  <2> QED BY <2>1, <2>2
<1>6. CASE th[d].pc \in {"waiting", "woken"}
  <2>1. ~(Leaves(e) /\ waiters # <<>> /\ d = waiters[1].conn)
    <3> SUFFICES ASSUME waiters # <<>>, d = waiters[1].conn PROVE FALSE
      OBVIOUS
    <3>1. waiters \in Seq([conn : Conn, bg : BOOLEAN])
      BY DEF Inv, Shared, Waiters
    <3>2. 1 \in DOMAIN waiters
      BY <3>1, TailByIndex
    <3> QED BY <1>6, <3>2 DEF Exclusive
  <2> QED BY <1>3, <1>6, <2>1
<1> QED BY <1>1, <1>5, <1>6

\* a clean-up begins when its session has no other connection,
LEMMA CleanupInOrder ==
  ASSUME Inv, Inv', Asked, Asked', Exclusive, CleanupFirst, NEW c \in Conn,
         NEW s, NEW rq, Serving(c, s, rq), Kind(c, s, rq),
         Moves(c) \/ Queues(c) \/ Holds(c) \/ Leaves(c),
         th'[c].rq.type = "Cleanup", NEW d \in Conn \ {c}, th'[d] \in Nudged(th[d]),
         th'[d].rq.type # "Cleanup", th'[d].session = th'[c].session
  PROVE  \/ th'[d].pc \in {"waiting", "woken"}
         \/ /\ th'[d].pc = "locking"
            /\ \A i, j \in DOMAIN waiters' :
                  waiters'[i].conn = c /\ waiters'[j].conn = d => i < j
<1>1. th'[c].session = s /\ th'[c].rq = rq /\ s # None
  BY OwnRequest, ServingOK
<1>2. th'[d].rq = th[d].rq /\ th'[d].session = th[d].session
  BY NudgedKeeps DEF Inv, Shared, ThreadsGood
<1>3. CASE Closing(c, s, rq)
  <2>1. <<d, s>> \in sessions'
    BY <1>1 DEF Asked, RequestOK
  <2> QED BY <1>3, <2>1 DEF Closing, IsSessionActive
<1>4. CASE Going(c, s, rq)
  <2>1. th[c].rq.type = "Cleanup" /\ th[c].session = s
    BY <1>1, <1>4 DEF Going
  <2>2. \/ th[d].pc \in {"waiting", "woken"}
        \/ /\ th[d].pc = "locking"
           /\ \A i, j \in DOMAIN waiters : waiters[i].conn = c /\ waiters[j].conn = d => i < j
    BY <1>1, <1>2, <2>1 DEF CleanupFirst
  <2>3. th[c].pc \in {"locking", "granted", "pushing"} /\ locked
    BY <2>1, CleanupLocks
  <2>4. ~Leaves(c)
    <3> SUFFICES ASSUME Leaves(c) PROVE FALSE
      OBVIOUS
    <3>1. th'[c].rq.type = "None"
      BY LeavesPlaces DEF Parked, Thread, NoRequest
    <3> QED BY <3>1
  <2>5. ~Queues(c)
    BY <2>3 DEF Queues, Outside
  <2>6. UNCHANGED waiters /\ th'[d] = th[d]
    BY <2>4, <2>5 DEF Moves, Holds, Inv, Shared, ThreadsGood
  <2> QED BY <2>2, <2>6
<1> QED BY <1>1, <1>3, <1>4, CleanupNames

\* and who comes later joins the queue behind it.
LEMMA NewcomerInOrder ==
  ASSUME Inv, Inv', Asked, Asked', Exclusive, CleanupFirst, NEW d \in Conn,
         NEW s, NEW rq, Serving(d, s, rq), Kind(d, s, rq),
         Moves(d) \/ Queues(d) \/ Holds(d) \/ Leaves(d),
         NEW c \in Conn \ {d}, th'[c] \in Nudged(th[c]), th'[c].rq.type = "Cleanup",
         th'[d].rq.type # "Cleanup", th'[d].session = th'[c].session
  PROVE  \/ th'[d].pc \in {"waiting", "woken"}
         \/ /\ th'[d].pc = "locking"
            /\ \A i, j \in DOMAIN waiters' :
                  waiters'[i].conn = c /\ waiters'[j].conn = d => i < j
<1>1. th[c].rq.type = "Cleanup" /\ th'[c].session = th[c].session
  BY NudgedKeeps DEF Inv, Shared, ThreadsGood
<1>2. th[c].session # None /\ locked
  BY <1>1, CleanupLocks
<1>3. th'[d].session = s /\ th'[d].rq = rq /\ s = th[c].session
  BY <1>1, <1>2, OwnRequest
<1>4. ~Has(d)
  BY <1>1, <1>3, CleanupBars
<1>5. ~Holds(d) /\ ~Leaves(d) /\ th[d].pc # "pushing"
  BY <1>4 DEF Holds, Leaves, Has, Inside
<1>6. CASE Moves(d)
  <2>1. th'[d].pc \in {"idle", "waiting", "closed"}
    BY <1>5, <1>6 DEF Moves, Inv, Shared, ThreadsGood
  <2>2. th'[d].pc \notin {"idle", "closed"}
    BY <1>2, <1>3 DEF Asked, RequestOK
  <2> QED BY <2>1, <2>2
<1>7. CASE Queues(d)
  <2>1. th'[d].pc = "locking" /\ th[d].pc \in Outside
    BY <1>7 DEF Queues, Inv, Shared, ThreadsGood
  <2>2. \A i \in DOMAIN waiters : waiters[i].conn # d
    BY <2>1 DEF Exclusive, Outside
  <2>3. ASSUME NEW i \in DOMAIN waiters', NEW j \in DOMAIN waiters',
               waiters'[i].conn = c, waiters'[j].conn = d
        PROVE  i < j
    BY <1>5, <1>7, <2>2, <2>3, QueueOrder
  <2> QED BY <2>1, <2>3
<1> QED BY <1>5, <1>6, <1>7

\* CleanupFirst is inductive.
LEMMA CleanupFirstStep ==
  ASSUME Inv, Inv', Asked, Asked', NoTrace, Exclusive, CleanupFirst, [Next]_vars
  PROVE  CleanupFirst'
<1>1. ASSUME NEW e \in Conn, Client(e)
      PROVE  CleanupFirst'
  <2> SUFFICES ASSUME NEW c \in Conn, NEW d \in Conn, th'[c].rq.type = "Cleanup",
                      th'[d].rq.type # "Cleanup", th'[d].session = th'[c].session
               PROVE  \/ th'[d].pc \in {"waiting", "woken"}
                      \/ /\ th'[d].pc = "locking"
                         /\ \A i, j \in DOMAIN waiters' :
                               waiters'[i].conn = c /\ waiters'[j].conn = d => i < j
    BY DEF CleanupFirst
  <2>1. Moves(e) \/ Queues(e) \/ Holds(e) \/ Leaves(e)
    BY <1>1, Shapes
  <2>2. \A x \in Conn \ {e} : th'[x] \in Nudged(th[x])
    BY <1>1, ClientEffect
  <2>3. \A x \in Conn \ {e} : th'[x].rq = th[x].rq /\ th'[x].session = th[x].session
    BY <2>2, NudgedKeeps DEF Inv, Shared, ThreadsGood
  <2>4. CASE c # e /\ d # e
    BY <2>1, <2>3, <2>4, OthersInOrder
  <2>5. CASE e \in {c, d}
    <3>1. th'[c].session # None /\ c # d
      BY DEF Asked, RequestOK
    <3>2. th'[e].session # None
      BY <2>5, <3>1
    <3>3. ~(Opens(e) \/ Shuts(e) \/ GivesUp(e))
      BY <3>2, EndsParked, ParkedOK
    <3>4. PICK s, rq : Serving(e, s, rq) /\ Kind(e, s, rq)
      BY <1>1, <3>3, ClientKinds
    <3>5. CASE e = c
      BY <2>1, <2>2, <3>1, <3>4, <3>5, CleanupInOrder
    <3>6. CASE e = d
      BY <2>1, <2>2, <3>1, <3>4, <3>6, NewcomerInOrder
    <3> QED BY <2>5, <3>5, <3>6
  <2> QED BY <2>4, <2>5
<1>2. CASE UNCHANGED vars \/ Flush \/ Start \/ Replayed
  <2>1. UNCHANGED <<waiters, th>>
    BY <1>2, OtherStepsKeep
  <2> QED BY <2>1 DEF CleanupFirst
<1>3. CASE Crash
  <2>1. \A c \in Conn : th'[c].rq.type = "None"
    <3>1. \A c \in Conn : th'[c] = Parked("closed") \/ (th[c].pc = "new" /\ th'[c] = th[c])
      BY <1>3, CrashThreads
    <3>2. Parked("closed").rq.type = "None"
      BY DEF Parked, Thread, NoRequest
    <3> QED BY <3>1, <3>2 DEF Asked, RequestOK
  <2> QED BY <2>1 DEF CleanupFirst
<1> QED BY <1>1, <1>2, <1>3, OtherSteps

\* A clean-up of a session that is active again spares the queues the session
\* has been promised since.
Spared ==
    \A c \in Conn : \A s \in Session :
        th[c].rq.type = "Cleanup" /\ th[c].session = s /\ IsSessionActive(s, sessions) =>
            \A n \in th[c].rq.names : n \notin promised[s]

\* A session that becomes active has been promised nothing yet.
LEMMA LoginPromises ==
  ASSUME Inv, NEW c \in Conn, NEW s, NEW rq, Serving(c, s, rq), Kind(c, s, rq), NEW x \in Session,
         ~IsSessionActive(x, sessions), IsSessionActive(x, sessions')
  PROVE  promised'[x] = {}
<1>1. PICK d \in Conn : <<d, x>> \in sessions' /\ <<d, x>> \notin sessions
  BY DEF IsSessionActive
<1>2. rq.type = "Login" /\ rq.session = x
  BY <1>1 DEF Serving, Closing
<1>3. Answers(c, s, rq)
  <2>1. ~(Blocks(c, s, rq) \/ Pushes(c, s, rq) \/ Publishes(c, s, rq) \/ Traces(c, s, rq))
    BY <1>1 DEF Blocks, Pushes, Publishes, Traces
  <2>2. ~(Joins(c, s, rq) \/ Reads(c, s, rq) \/ Performs(c, s, rq))
    BY <1>1, <1>2 DEF Joins, Closing, Reads, DoGet, Performs
  <2> QED BY <2>1, <2>2 DEF Kind
<1>4. promised' = [promised EXCEPT ![x] = {}]
  BY <1>2, <1>3 DEF Answers, PromisedAfter
<1> QED BY <1>4 DEF Inv, Shared

\* What a step promises: no more than before, but for a queue that the step
\* creates, or finds, for its own session.
LEMMA StepPromises ==
  ASSUME Inv, NEW s \in Session \cup {None}, NEW rq, NEW q, NEW x \in Session,
         NEW n \in PromisedAfter(s, rq, q)[x]
  PROVE  \/ n \in promised[x] /\ ~(rq.type = "Destroy" /\ s # None /\ n = rq.name)
         \/ /\ rq.type = "CreateTransient" /\ s = x /\ n = rq.name
            /\ Exists(q, n) /\ q.queues[n].owner = x
<1>0. DOMAIN promised = Session
  BY DEF Inv, Shared
<1>1. CASE rq.type = "Login" /\ ~IsSessionActive(rq.session, sessions)
  BY <1>0, <1>1 DEF PromisedAfter
<1>2. CASE /\ s # None /\ rq.type = "CreateTransient"
           /\ Exists(q, rq.name) /\ q.queues[rq.name].owner = s
  BY <1>0, <1>2 DEF PromisedAfter
<1>3. CASE s # None /\ rq.type = "Destroy"
  BY <1>0, <1>3 DEF PromisedAfter
<1>4. CASE /\ ~(rq.type = "Login" /\ ~IsSessionActive(rq.session, sessions))
           /\ ~(/\ s # None /\ rq.type = "CreateTransient"
                /\ Exists(q, rq.name) /\ q.queues[rq.name].owner = s)
           /\ ~(s # None /\ rq.type = "Destroy")
  BY <1>0, <1>4 DEF PromisedAfter
<1> QED BY <1>1, <1>2, <1>3, <1>4

\* What SessionKeepsQueues rests on.
KeepInv ==
    /\ WakeInv /\ Asked /\ Exclusive /\ Aside /\ HomesOK /\ CleanupFirst /\ Spared
    /\ SessionKeepsQueues

\* A step whose session is active neither removes what was promised to another
\* session nor, by a clean-up, what was promised to its own.
LEMMA PromisedStay ==
  ASSUME KeepInv, OwnNames, NEW c \in Conn, NEW s, NEW rq, Serving(c, s, rq), Effect(c, s, rq),
         NEW x \in Session, IsSessionActive(x, sessions), IsSessionActive(x, sessions'),
         NEW n \in promised[x], ~(rq.type = "Destroy" /\ s # None /\ n = rq.name)
  PROVE  Exists(queues', n) /\ queues'.queues[n].owner = x
<1>0. Inv /\ Asked /\ Aside
  BY DEF KeepInv, WakeInv
<1>1. n \in DOMAIN queues.queues /\ queues.queues[n].owner = x /\ n \in Name
  BY <1>0 DEF KeepInv, SessionKeepsQueues, Exists, Inv, Shared
<1>2. HomeOf(n, x)
  BY <1>1, SwitchAssumption DEF KeepInv, HomesOK, Homes
<1>3. ~(rq.type = "Cleanup" /\ n \in rq.names)
  <2> SUFFICES ASSUME rq.type = "Cleanup", n \in rq.names PROVE FALSE
    OBVIOUS
  <2>1. s \in Session
    BY <1>0, ServingOK DEF Serving
  <2>2. CASE Closing(c, s, rq) /\ queues.queues[n].owner = s
    BY <1>1, <2>2 DEF Closing
  <2>3. CASE Going(c, s, rq) /\ UNCHANGED sessions
    <3>1. /\ th[c].rq.type = "Cleanup" /\ th[c].session = s /\ n \in th[c].rq.names
      BY <2>3 DEF Going
    <3>2. HomeOf(n, s)
      BY <3>1 DEF KeepInv, HomesOK
    <3>3. s = x
      BY <1>1, <1>2, <2>1, <3>2 DEF OwnNames
    <3> QED BY <2>1, <3>1, <3>3 DEF KeepInv, Spared
  <2> QED BY <1>0, <2>2, <2>3, CleanupNames
<1>4. CASE SameOwners(queues, queues')
  BY <1>1, <1>4 DEF SameOwners, Exists
<1>5. CASE Owners(queues, rq, s, queues')
  BY <1>1, <1>3, <1>5 DEF Owners, Exists
<1> QED BY <1>0, <1>4, <1>5, EffectOwners

\* What a session is newly promised, it has.
LEMMA NewPromises ==
  ASSUME Inv, Aside, NEW c \in Conn, NEW s, NEW rq, Serving(c, s, rq), Effect(c, s, rq),
         NEW x \in Session, NEW n \in promised'[x], n \notin promised[x]
  PROVE  /\ Has(c) /\ rq.type = "CreateTransient" /\ s = x
         /\ Exists(queues', n) /\ queues'.queues[n].owner = x
<1>1. s \in Session \cup {None} /\ None \in Session \cup {None}
  BY DEF Serving
<1>2. CASE Has(c) /\ promised' = PromisedAfter(s, rq, queues')
  <2>1. n \in PromisedAfter(s, rq, queues')[x]
    BY <1>2
  <2>2. \/ n \in promised[x]
        \/ /\ rq.type = "CreateTransient" /\ s = x
           /\ Exists(queues', n) /\ queues'.queues[n].owner = x
    BY <1>1, <2>1, StepPromises
  <2> QED BY <1>2, <2>2
<1>3. CASE promised' = PromisedAfter(None, rq, queues)
  <2>1. n \in PromisedAfter(None, rq, queues)[x]
    BY <1>3
  <2>2. n \in promised[x] \/ None = x
    BY <1>1, <2>1, StepPromises
  <2> QED BY <2>2, SwitchAssumption
<1> QED BY <1>2, <1>3, EffectOwners

\* What an active session is promised after a step, it has then.
LEMMA PromisesKept ==
  ASSUME KeepInv, OwnNames, NEW c \in Conn, NEW s, NEW rq,
         Serving(c, s, rq), Kind(c, s, rq), Effect(c, s, rq),
         NEW x \in Session, IsSessionActive(x, sessions'), NEW n \in promised'[x]
  PROVE  Exists(queues', n) /\ queues'.queues[n].owner = x
<1>0. Inv /\ Aside
  BY DEF KeepInv, WakeInv
<1>1. IsSessionActive(x, sessions)
  <2> SUFFICES ASSUME ~IsSessionActive(x, sessions) PROVE FALSE
    OBVIOUS
  <2>1. promised'[x] = {}
    BY <1>0, LoginPromises
  <2> QED BY <2>1
<1>2. CASE n \notin promised[x]
  BY <1>0, <1>2, NewPromises
<1>3. CASE n \in promised[x] /\ SameOwners(queues, queues')
  BY <1>1, <1>3 DEF KeepInv, SessionKeepsQueues, SameOwners, Exists
<1>4. CASE n \in promised[x] /\ promised' = PromisedAfter(s, rq, queues')
  <2>1. s \in Session \cup {None} /\ n \in PromisedAfter(s, rq, queues')[x]
    BY <1>4 DEF Serving
  <2>2. \/ n \in promised[x] /\ ~(rq.type = "Destroy" /\ s # None /\ n = rq.name)
        \/ Exists(queues', n) /\ queues'.queues[n].owner = x
    BY <1>0, <2>1, StepPromises
  <2> QED BY <1>1, <2>2, PromisedStay
<1> QED BY <1>0, <1>2, <1>3, <1>4, EffectOwners

\* The clean-ups go on sparing what their sessions were promised.
LEMMA SparedStep ==
  ASSUME KeepInv, Inv', NEW c \in Conn, NEW s, NEW rq,
         Serving(c, s, rq), Kind(c, s, rq), Effect(c, s, rq),
         \A e \in Conn \ {c} : th'[e].rq = th[e].rq /\ th'[e].session = th[e].session,
         NEW d \in Conn, NEW x \in Session, th'[d].rq.type = "Cleanup", th'[d].session = x,
         IsSessionActive(x, sessions'), NEW n \in th'[d].rq.names, n \in promised'[x]
  PROVE  FALSE
<1>0. Inv /\ Aside /\ Asked /\ Exclusive /\ CleanupFirst
  BY DEF KeepInv, WakeInv
<1>1. IsSessionActive(x, sessions)
  <2> SUFFICES ASSUME ~IsSessionActive(x, sessions) PROVE FALSE
    OBVIOUS
  <2>1. promised'[x] = {}
    BY <1>0, LoginPromises
  <2> QED BY <2>1
<1>2. CASE d # c
  <2>1. th[d].rq = th'[d].rq /\ th[d].session = x
    BY <1>2
  <2>2. n \notin promised[x]
    BY <1>1, <2>1 DEF KeepInv, Spared
  <2>3. Has(c) /\ rq.type = "CreateTransient" /\ s = x
    BY <1>0, <2>2, NewPromises
  <2>4. Serving(c, th[d].session, rq)
    BY <2>1, <2>3
  <2>5. rq.type = "Cleanup"
    BY <1>0, <1>2, <2>1, <2>3, <2>4, CleanupBars
  <2> QED BY <2>3, <2>5
<1>3. CASE d = c
  <2>1. s = x /\ rq = th'[c].rq
    BY <1>0, <1>3, OwnRequest
  <2>2. th[c].rq = rq /\ th[c].session = x
    <3>1. ~Closing(c, s, rq)
      BY <2>1 DEF Closing
    <3>2. Going(c, s, rq)
      BY <1>0, <1>3, <2>1, <3>1, CleanupNames
    <3> QED BY <2>1, <3>2 DEF Going
  <2>3. n \notin promised[x]
    BY <1>1, <1>3, <2>1, <2>2 DEF KeepInv, Spared
  <2>4. rq.type = "CreateTransient"
    BY <1>0, <2>3, NewPromises
  <2> QED BY <1>3, <2>1, <2>4
<1> QED BY <1>2, <1>3

\* The invariant is inductive.
LEMMA KeepStep ==
  ASSUME KeepInv, NoTrace, OwnNames, [Next]_vars
  PROVE  KeepInv'
<1>0. /\ Inv /\ Quiet /\ Asked /\ Aside /\ Exclusive /\ HomesOK /\ CleanupFirst
  BY DEF KeepInv, WakeInv
<1>1. WakeInv' /\ Inv'
  BY WakeInductive DEF KeepInv, WakeInv
<1>2. Asked'
  BY <1>0, <1>1, AskedStep
<1>3. Exclusive' /\ Aside' /\ HomesOK' /\ CleanupFirst'
  BY <1>0, <1>1, <1>2, ExclusiveStep, AsideStep, HomesStep, CleanupFirstStep
<1>4. ASSUME NEW c \in Conn, Client(c)
      PROVE  SessionKeepsQueues' /\ Spared'
  <2>0. \A d \in Conn \ {c} : th'[d].rq = th[d].rq /\ th'[d].session = th[d].session
    BY <1>0, <1>1, <1>4, ClientEffect, NudgedKeeps DEF Inv, Shared, ThreadsGood
  <2>1. CASE (Opens(c) \/ Shuts(c) \/ GivesUp(c)) /\ UNCHANGED <<queues, promised>>
    <3>1. \A s : IsSessionActive(s, sessions') => IsSessionActive(s, sessions)
      BY <2>1 DEF Opens, Connect, Shuts, GivesUp, IsSessionActive
    <3>2. th'[c].rq.type # "Cleanup"
      BY <1>0, <2>1, EndsParked, ParkedOK
    <3>3. SessionKeepsQueues'
      BY <2>1, <3>1 DEF SessionKeepsQueues, KeepInv
    <3>4. Spared'
      BY <2>0, <2>1, <3>1, <3>2 DEF Spared, KeepInv
    <3> QED BY <3>3, <3>4
  <2>2. ASSUME NEW s, NEW rq, Serving(c, s, rq), Kind(c, s, rq), Effect(c, s, rq)
        PROVE  SessionKeepsQueues' /\ Spared'
    <3>1. SessionKeepsQueues'
      BY <2>2, PromisesKept DEF SessionKeepsQueues
    <3>2. Spared'
      BY <1>1, <2>0, <2>2, SparedStep DEF Spared
    <3> QED BY <3>1, <3>2
  <2> QED BY <1>0, <1>1, <1>4, <2>1, <2>2, ClientEffect
<1>5. ASSUME UNCHANGED vars \/ Flush \/ Start
      PROVE  SessionKeepsQueues' /\ Spared'
  <2>1. UNCHANGED <<th, queues, sessions, promised>>
    BY <1>5, OtherStepsKeep DEF Flush, FlushBegin, FlushApply, FlushSave, FlushAdvance, Start, vars
  <2> QED BY <2>1 DEF SessionKeepsQueues, Spared, KeepInv
<1>6. ASSUME Replayed \/ Crash
      PROVE  SessionKeepsQueues' /\ Spared'
  <2>1. sessions' = {}
    BY <1>0, <1>6, CrashThreads DEF Replayed, Asked
  <2> QED BY <2>1 DEF SessionKeepsQueues, Spared, IsSessionActive
<1>7. SessionKeepsQueues' /\ Spared'
  BY <1>4, <1>5, <1>6, OtherSteps
<1> QED BY <1>1, <1>2, <1>3, <1>7 DEF KeepInv

\* Nothing is promised at first.
LEMMA KeepInitial == Init => KeepInv
<1> SUFFICES ASSUME Init PROVE KeepInv
  OBVIOUS
<1>1. StoreInv /\ HomesOK
  BY StoreInvInitial, HomesInitial
<1>2. /\ \A c \in Conn : th[c].rq.type = "None"
      /\ waiters = <<>> /\ ~locked /\ sessions = {}
  BY DEF Init, Parked, Thread, NoRequest
<1>3. /\ \A c \in Conn : th[c] = Parked("new")
      /\ Parked("new").pc = "new" /\ DOMAIN waiters = {}
  BY <1>2 DEF Init, Parked, Thread
<1>4. Exclusive
  BY <1>2, <1>3 DEF Exclusive, Inside
<1>5. CleanupFirst /\ Spared /\ SessionKeepsQueues
  BY <1>2 DEF CleanupFirst, Spared, SessionKeepsQueues, IsSessionActive
<1> QED BY <1>1, <1>4, <1>5 DEF KeepInv, StoreInv

\* A session keeps the transient queues it was told it has (the Create and
\* Login handlers of switch_main.ml against its conn_closed), even when it comes
\* back while the clean-up after its last connection is still waiting: the
\* mutex is first come, first served, so the clean-up is over before a request
\* of the session is looked at.  It holds with crashes and failing pushes too;
\* it takes a mutex that excludes (NoTrace), and sessions that do not create
\* queues of the same names, since a clean-up removes by name.
THEOREM SessionsKeepTheirQueues ==
  ASSUME NoTrace, OwnNames
  PROVE  Spec => []SessionKeepsQueues
<1>1. Init => KeepInv
  BY KeepInitial
<1>2. KeepInv /\ [Next]_vars => KeepInv'
  BY KeepStep
<1>3. KeepInv => SessionKeepsQueues
  BY DEF KeepInv
<1> QED BY <1>1, <1>2, <1>3, PTL DEF Spec

-----------------------------------------------------------------------------
(* What is in a directory *)

\* Queue n is there and w owns it.
Present(qs, n, w) == Exists(qs, n) /\ qs.queues[n].owner = w

\* Queue n has e under the identifier j.
Stored(qs, n, j, e) ==
    Exists(qs, n) /\ j \in DOMAIN qs.queues[n].q /\ qs.queues[n].q[j] = e

\* Two directories a client cannot tell apart.
Alike(p, q) ==
    /\ \A n, w : Present(p, n, w) <=> Present(q, n, w)
    /\ \A n, j, e : Stored(p, n, j, e) <=> Stored(q, n, j, e)

\* They have the same contents.
LEMMA AlikeContents ==
  ASSUME NEW p, NEW q, Good(p), Good(q)
  PROVE  Alike(p, q) <=> Contents(p) = Contents(q)
<1>1. ASSUME Alike(p, q)
      PROVE  Contents(p) = Contents(q)
  <2>1. \A n : n \in DOMAIN p.queues <=> n \in DOMAIN q.queues
    BY <1>1 DEF Alike, Present, Exists
  <2>2. DOMAIN p.queues = DOMAIN q.queues
    BY <2>1
  <2>3. ASSUME NEW n \in DOMAIN p.queues
        PROVE  p.queues[n].q = q.queues[n].q /\ p.queues[n].owner = q.queues[n].owner
    <3>1. IsMap(p.queues[n].q, Nat) /\ IsMap(q.queues[n].q, Nat)
      BY <2>2 DEF Good, DirectoryOK, QueueOK
    <3>2. \A j, e : (j \in DOMAIN p.queues[n].q /\ p.queues[n].q[j] = e)
                      <=> (j \in DOMAIN q.queues[n].q /\ q.queues[n].q[j] = e)
      BY <1>1, <2>2 DEF Alike, Stored, Exists
    <3>3. DOMAIN p.queues[n].q = DOMAIN q.queues[n].q
      BY <3>2
    <3>4. \A j \in DOMAIN p.queues[n].q : p.queues[n].q[j] = q.queues[n].q[j]
      BY <3>2
    <3>5. p.queues[n].q = q.queues[n].q
      BY <3>1, <3>3, <3>4 DEF IsMap
    <3>6. p.queues[n].owner = q.queues[n].owner
      BY <1>1, <2>2 DEF Alike, Present, Exists
    <3> QED BY <3>5, <3>6
  <2> QED BY <2>2, <2>3 DEF Contents
<1>2. ASSUME Contents(p) = Contents(q)
      PROVE  Alike(p, q)
  <2>1. /\ DOMAIN Contents(p) = DOMAIN p.queues /\ DOMAIN Contents(q) = DOMAIN q.queues
        /\ \A n \in DOMAIN p.queues : /\ Contents(p)[n].q = p.queues[n].q
                                      /\ Contents(p)[n].owner = p.queues[n].owner
        /\ \A n \in DOMAIN q.queues : /\ Contents(q)[n].q = q.queues[n].q
                                      /\ Contents(q)[n].owner = q.queues[n].owner
    BY DEF Contents
  <2>2. /\ DOMAIN p.queues = DOMAIN q.queues
        /\ \A n \in DOMAIN p.queues : /\ p.queues[n].q = q.queues[n].q
                                      /\ p.queues[n].owner = q.queues[n].owner
    BY <1>2, <2>1
  <2> QED BY <2>2 DEF Alike, Present, Stored, Exists
<1> QED BY <1>1, <1>2

\* Alike is an equivalence.
LEMMA AlikeEquivalence ==
  /\ \A p : Alike(p, p)
  /\ \A p, q : Alike(p, q) => Alike(q, p)
  /\ \A p, q, r : Alike(p, q) /\ Alike(q, r) => Alike(p, r)
  BY DEF Alike

\* The entry a Send stores.
EntryOf(o) == [origin |-> o.origin, message |-> o.msg]

Removes(o, n) == o.op = "Remove" /\ o.name = n
Touches(o, n, j) == o.op \in {"Ack", "Send"} /\ o.name = n /\ o.id = j

\* What an operation does to the queues that are there,
LEMMA DoOpPresent ==
  ASSUME NEW qs, NEW o \in Operation, NEW n, NEW w
  PROVE  Present(DoOp(qs, o), n, w) <=>
            \/ Present(qs, n, w) /\ ~Removes(o, n)
            \/ o.op = "Add" /\ o.name = n /\ ~Exists(qs, n) /\ o.owner = w
<1>1. CASE o.op = "Add"
  <2>1. DoOp(qs, o) = DirectoryAdd(qs, o.owner, o.name)
    BY <1>1 DEF DoOp
  <2>2. Make(o.owner).owner = o.owner
    BY DEF Make, Queue
  <2>3. CASE Exists(qs, o.name)
    <3>1. DoOp(qs, o) = qs
      BY <2>1, <2>3, AddQueues
    <3> QED BY <1>1, <2>3, <3>1 DEF Present, Removes
  <2>4. CASE ~Exists(qs, o.name)
    <3> DEFINE new == DoOp(qs, o)
    <3>1. /\ DOMAIN new.queues = DOMAIN qs.queues \cup {o.name}
          /\ new.queues[o.name] = Make(o.owner)
          /\ \A m \in DOMAIN qs.queues : new.queues[m] = qs.queues[m]
      BY <2>1, <2>4, AddQueues
    <3> HIDE DEF new
    <3> QED BY <1>1, <2>2, <2>4, <3>1 DEF Present, Removes, Exists, new
  <2> QED BY <2>3, <2>4
<1>2. CASE o.op = "Remove"
  <2>1. DoOp(qs, o) = RemoveAll(qs, {o.name})
    BY <1>2 DEF DoOp, DirectoryRemove
  <2> QED BY <1>2, <2>1, RemoveQueues DEF Present, Removes, Exists
<1>3. CASE o.op = "Ack"
  <2>1. DoOp(qs, o) = InternalAck(qs, o.name, o.id)
    BY <1>3 DEF DoOp
  <2>2. InternalAck(qs, o.name, o.id) = qs \/ SameOwners(qs, InternalAck(qs, o.name, o.id))
    BY WithOwners DEF InternalAck, Exists
  <2> QED BY <1>3, <2>1, <2>2 DEF SameOwners, Present, Exists, Removes
<1>4. CASE o.op = "Send"
  <2>1. DoOp(qs, o) = InternalSend(qs, o.origin, o.name, o.id, o.msg)
    BY <1>4 DEF DoOp
  <2> DEFINE new == InternalSend(qs, o.origin, o.name, o.id, o.msg)
  <2>2. new = qs \/ SameOwners(qs, new)
    BY WithOwners DEF InternalSend, Exists
  <2> HIDE DEF new
  <2> QED BY <1>4, <2>1, <2>2 DEF SameOwners, Present, Exists, Removes, new
<1> QED BY <1>1, <1>2, <1>3, <1>4 DEF Operation

\* and to what they hold.
LEMMA DoOpStored ==
  ASSUME NEW qs, NEW o \in Operation, NEW n, NEW j, NEW e
  PROVE  Stored(DoOp(qs, o), n, j, e) <=>
            \/ Stored(qs, n, j, e) /\ ~Removes(o, n) /\ ~(Touches(o, n, j) /\ Exists(qs, n))
            \/ o.op = "Send" /\ Touches(o, n, j) /\ Exists(qs, n) /\ e = EntryOf(o)
<1>1. CASE o.op = "Add"
  <2>1. DoOp(qs, o) = DirectoryAdd(qs, o.owner, o.name)
    BY <1>1 DEF DoOp
  <2>2. DOMAIN Make(o.owner).q = {}
    BY DEF Make, Queue, EmptyMap
  <2>3. CASE Exists(qs, o.name)
    <3>1. DoOp(qs, o) = qs
      BY <2>1, <2>3, AddQueues
    <3> QED BY <1>1, <3>1 DEF Removes, Touches
  <2>4. CASE ~Exists(qs, o.name)
    <3> DEFINE new == DoOp(qs, o)
    <3>1. /\ DOMAIN new.queues = DOMAIN qs.queues \cup {o.name}
          /\ new.queues[o.name] = Make(o.owner)
          /\ \A m \in DOMAIN qs.queues : new.queues[m] = qs.queues[m]
      BY <2>1, <2>4, AddQueues
    <3> HIDE DEF new
    <3> QED BY <1>1, <2>2, <2>4, <3>1 DEF Stored, Removes, Touches, Exists, new
  <2> QED BY <2>3, <2>4
<1>2. CASE o.op = "Remove"
  <2>1. DoOp(qs, o) = RemoveAll(qs, {o.name})
    BY <1>2 DEF DoOp, DirectoryRemove
  <2> QED BY <1>2, <2>1, RemoveQueues DEF Stored, Removes, Touches, Exists
<1>3. CASE o.op = "Ack"
  <2>1. DoOp(qs, o) = InternalAck(qs, o.name, o.id)
    BY <1>3 DEF DoOp
  <2>2. CASE Exists(qs, o.name) /\ o.id \in DOMAIN qs.queues[o.name].q
    <3> DEFINE x == qs.queues[o.name]
               y == Queue(MapRemove(x.q, {o.id}), x.owner, x.next_id)
               new == DoOp(qs, o)
    <3>1. o.name \in DOMAIN qs.queues /\ new = WithQueue(qs, o.name, y)
      BY <2>1, <2>2 DEF InternalAck, Exists
    <3>2. DOMAIN y.q = DOMAIN x.q \ {o.id} /\ \A i \in DOMAIN x.q \ {o.id} : y.q[i] = x.q[i]
      BY DEF Queue, MapRemove
    <3> HIDE DEF y, new
    <3>3. /\ DOMAIN new.queues = DOMAIN qs.queues /\ new.queues[o.name] = y
          /\ \A m \in DOMAIN qs.queues \ {o.name} : new.queues[m] = qs.queues[m]
      BY <3>1, WithQueues
    <3> QED BY <1>3, <3>1, <3>2, <3>3 DEF Stored, Removes, Touches, Exists, new
  <2>3. CASE ~(Exists(qs, o.name) /\ o.id \in DOMAIN qs.queues[o.name].q)
    <3>1. DoOp(qs, o) = qs
      BY <2>1, <2>3 DEF InternalAck
    <3> QED BY <1>3, <2>3, <3>1 DEF Stored, Removes, Touches
  <2> QED BY <2>2, <2>3
<1>4. CASE o.op = "Send"
  <2>1. DoOp(qs, o) = InternalSend(qs, o.origin, o.name, o.id, o.msg)
    BY <1>4 DEF DoOp
  <2>2. CASE Exists(qs, o.name)
    <3> DEFINE x == qs.queues[o.name]
               y == Queue(MapAdd(x.q, o.id, EntryOf(o)), x.owner, x.next_id)
               new == DoOp(qs, o)
    <3>1. o.name \in DOMAIN qs.queues /\ new = WithQueue(qs, o.name, y)
      BY <2>1, <2>2 DEF InternalSend, Exists, EntryOf
    <3>2. /\ DOMAIN y.q = DOMAIN x.q \cup {o.id} /\ y.q[o.id] = EntryOf(o)
          /\ \A i \in DOMAIN x.q \ {o.id} : y.q[i] = x.q[i]
      BY DEF Queue, MapAdd
    <3> HIDE DEF y, new
    <3>3. /\ DOMAIN new.queues = DOMAIN qs.queues /\ new.queues[o.name] = y
          /\ \A m \in DOMAIN qs.queues \ {o.name} : new.queues[m] = qs.queues[m]
      BY <3>1, WithQueues
    <3> QED BY <1>4, <2>2, <3>1, <3>2, <3>3 DEF Stored, Removes, Touches, Exists, new
  <2>3. CASE ~Exists(qs, o.name)
    <3>1. DoOp(qs, o) = qs
      BY <2>1, <2>3 DEF InternalSend
    <3> QED BY <1>4, <2>3, <3>1 DEF Removes, Touches
  <2> QED BY <2>2, <2>3
<1> QED BY <1>1, <1>2, <1>3, <1>4 DEF Operation

\* A queue is there when somebody, or nobody, owns it.
LEMMA ExistsPresent ==
  \A qs, n : Exists(qs, n) <=> \E w : Present(qs, n, w)
  BY DEF Present

\* It has one owner, and holds messages only while it is there.
LEMMA PresentOnce ==
  /\ \A qs, n, v, w : Present(qs, n, v) /\ Present(qs, n, w) => v = w
  /\ \A qs, n, j, e : Stored(qs, n, j, e) => Exists(qs, n)
  BY DEF Present, Stored

\* Operations keep directories alike.
LEMMA DoOpAlike ==
  ASSUME NEW p, NEW q, Alike(p, q), NEW o \in Operation
  PROVE  Alike(DoOp(p, o), DoOp(q, o))
<1>1. \A n : Exists(p, n) <=> Exists(q, n)
  BY ExistsPresent DEF Alike
<1>2. ASSUME NEW n, NEW w
      PROVE  Present(DoOp(p, o), n, w) <=> Present(DoOp(q, o), n, w)
  BY <1>1, DoOpPresent DEF Alike
<1>3. ASSUME NEW n, NEW j, NEW e
      PROVE  Stored(DoOp(p, o), n, j, e) <=> Stored(DoOp(q, o), n, j, e)
  BY <1>1, DoOpStored DEF Alike
<1> QED BY <1>2, <1>3 DEF Alike

-----------------------------------------------------------------------------
(* The replay of a redo-log *)

\* What holds for 0 and for i + 1 whenever for i holds for every natural
\* number, or there would be a smallest for which it does not.
LEMMA Induction ==
  ASSUME NEW S, 0 \in S, \A i \in Nat : i \in S => i + 1 \in S
  PROVE  \A i \in Nat : i \in S
<1> DEFINE T == Nat \ S
<1> SUFFICES ASSUME T # {} PROVE FALSE
  OBVIOUS
<1>1. PICK x \in T : \A y \in T : ~(<<y, x>> \in OpToRel(<, Nat))
  BY NatLessThanWellFounded, WFMin
<1>2. x \in Nat /\ x \notin S /\ \A y \in Nat \ S : ~(y < x)
  BY <1>1 DEF OpToRel
<1>3. x # 0
  BY <1>2
<1>4. x - 1 \in Nat /\ x - 1 < x /\ (x - 1) + 1 = x
  BY <1>2, <1>3
<1>5. x - 1 \in S
  BY <1>2, <1>4
<1> QED BY <1>2, <1>4, <1>5

Body(f, qs, ops, n) ==
    [i \in 0 .. n |-> IF i = 0 THEN qs ELSE DoOp(f[i - 1], ops[i])]

\* The directories a replay goes through.
Stages(qs, ops) == CHOOSE f : f = Body(f, qs, ops, Len(ops))

\* There are such,
LEMMA StagesExist ==
  ASSUME NEW qs, NEW ops
  PROVE  \A n \in Nat : \E f : f = Body(f, qs, ops, n)
<1> DEFINE S == {n \in Nat : \E f : f = Body(f, qs, ops, n)}
<1>1. 0 \in S
  <2> DEFINE f == [i \in 0 .. 0 |-> qs]
  <2>1. \A i \in 0 .. 0 : i = 0
    OBVIOUS
  <2>2. f = Body(f, qs, ops, 0)
    BY <2>1 DEF Body
  <2> QED BY <2>2
<1>2. ASSUME NEW n \in Nat, n \in S
      PROVE  n + 1 \in S
  <2>1. PICK f : f = Body(f, qs, ops, n)
    BY <1>2
  <2> DEFINE g == [i \in 0 .. n + 1 |-> IF i <= n THEN f[i] ELSE DoOp(f[n], ops[n + 1])]
  <2>2. ASSUME NEW i \in 0 .. n + 1
        PROVE  g[i] = IF i = 0 THEN qs ELSE DoOp(g[i - 1], ops[i])
    <3>1. CASE i = 0
      <4>1. 0 \in 0 .. n /\ 0 <= n
        OBVIOUS
      <4>2. g[0] = f[0]
        BY <4>1
      <4>3. f[0] = qs
        BY <2>1, <4>1 DEF Body
      <4> QED BY <3>1, <4>2, <4>3
    <3>2. CASE i # 0 /\ i <= n
      <4>1. i \in 0 .. n /\ i - 1 \in 0 .. n + 1 /\ i - 1 <= n
        BY <3>2
      <4>2. g[i] = f[i] /\ g[i - 1] = f[i - 1]
        BY <3>2, <4>1
      <4>3. f[i] = DoOp(f[i - 1], ops[i])
        BY <2>1, <3>2, <4>1 DEF Body
      <4> QED BY <3>2, <4>2, <4>3
    <3>3. CASE i = n + 1
      <4>1. i # 0 /\ ~(i <= n) /\ i - 1 = n /\ n \in 0 .. n + 1 /\ n <= n
        BY <3>3
      <4>2. g[i] = DoOp(f[n], ops[n + 1]) /\ g[n] = f[n]
        BY <4>1
      <4> QED BY <3>3, <4>1, <4>2
    <3> QED BY <3>1, <3>2, <3>3
  <2> HIDE DEF g
  <2>3. g = [i \in 0 .. n + 1 |-> g[i]]
    BY DEF g
  <2>4. g = Body(g, qs, ops, n + 1)
    BY <2>2, <2>3 DEF Body
  <2> QED BY <2>4
<1> HIDE DEF S
<1>3. \A n \in Nat : n \in S
  BY <1>1, <1>2, Induction
<1> QED BY <1>3 DEF S

\* the first is the directory it starts from, each operation makes the next,
\* and the last is the result.
LEMMA StagesAre ==
  ASSUME NEW qs, NEW ops \in Seq(Operation)
  PROVE  /\ Len(ops) \in Nat
         /\ Stages(qs, ops)[0] = qs
         /\ \A i \in 1 .. Len(ops) : /\ ops[i] \in Operation
                                     /\ i - 1 \in 0 .. Len(ops)
                                     /\ Stages(qs, ops)[i] = DoOp(Stages(qs, ops)[i - 1], ops[i])
         /\ Replay(qs, ops) = Stages(qs, ops)[Len(ops)]
<1> DEFINE f == Stages(qs, ops)
           n == Len(ops)
<1>1. n \in Nat
  OBVIOUS
<1>2. f = Body(f, qs, ops, n)
  BY <1>1, StagesExist DEF Stages
<1>3. Replay(qs, ops) = f[n]
  BY DEF Replay, Stages, Body
<1>4. \A i \in 1 .. n : ops[i] \in Operation
  OBVIOUS
<1> HIDE DEF f, n
<1>5. f[0] = qs
  BY <1>1, <1>2 DEF Body
<1>6. \A i \in 1 .. n : f[i] = DoOp(f[i - 1], ops[i])
  BY <1>1, <1>2 DEF Body
<1>7. \A i \in 1 .. n : i - 1 \in 0 .. n
  BY <1>1
<1> QED BY <1>1, <1>3, <1>4, <1>5, <1>6, <1>7 DEF f, n

\* They are good directories when it starts from one.
LEMMA StagesGood ==
  ASSUME NEW qs, Good(qs), NEW ops \in Seq(Operation)
  PROVE  Good(Replay(qs, ops))
<1> DEFINE f == Stages(qs, ops)
           n == Len(ops)
           S == {i \in Nat : i <= n => Good(f[i])}
<1>0. /\ n \in Nat /\ f[0] = qs /\ Replay(qs, ops) = f[n]
      /\ \A i \in 1 .. n : ops[i] \in Operation /\ f[i] = DoOp(f[i - 1], ops[i])
  BY StagesAre
<1> HIDE DEF f, n
<1>1. 0 \in S
  BY <1>0
<1>2. ASSUME NEW i \in Nat, i \in S
      PROVE  i + 1 \in S
  <2> SUFFICES ASSUME i + 1 <= n PROVE Good(f[i + 1])
    OBVIOUS
  <2>1. i + 1 \in 1 .. n /\ (i + 1) - 1 = i /\ Good(f[i])
    BY <1>0, <1>2
  <2> QED BY <1>0, <2>1, DoOpGood
<1> HIDE DEF S
<1>3. n \in S
  BY <1>0, <1>1, <1>2, Induction
<1> QED BY <1>0, <1>3 DEF S

\* A replay that starts k operations later from a directory like the one
\* reached by then goes through directories like those that follow.
LEMMA StagesAlike ==
  ASSUME NEW p, NEW a \in Seq(Operation), NEW q, NEW b \in Seq(Operation),
         NEW k \in 0 .. Len(a), NEW m \in 0 .. Len(b), k + m <= Len(a),
         \A i \in 1 .. m : b[i] = a[k + i],
         Alike(Stages(p, a)[k], q)
  PROVE  \A i \in 0 .. m : Alike(Stages(p, a)[k + i], Stages(q, b)[i])
<1> DEFINE f == Stages(p, a)
           g == Stages(q, b)
           S == {i \in Nat : i <= m => Alike(f[k + i], g[i])}
<1>0. /\ Len(a) \in Nat /\ Len(b) \in Nat /\ g[0] = q
      /\ \A i \in 1 .. Len(a) : a[i] \in Operation /\ f[i] = DoOp(f[i - 1], a[i])
      /\ \A i \in 1 .. Len(b) : b[i] \in Operation /\ g[i] = DoOp(g[i - 1], b[i])
  BY StagesAre
<1>a. k \in Nat /\ m \in Nat /\ m <= Len(b) /\ k + m <= Len(a)
  BY <1>0
<1>b. Alike(f[k], g[0]) /\ k + 0 = k
  BY <1>0
<1> HIDE DEF f, g
<1>1. 0 \in S
  BY <1>b
<1>2. ASSUME NEW i \in Nat, i \in S
      PROVE  i + 1 \in S
  <2> SUFFICES ASSUME i + 1 <= m PROVE Alike(f[k + (i + 1)], g[i + 1])
    OBVIOUS
  <2> DEFINE j == k + (i + 1)
  <2>1. i + 1 \in 1 .. m /\ i + 1 \in 1 .. Len(b) /\ (i + 1) - 1 = i /\ Alike(f[k + i], g[i])
    BY <1>0, <1>a, <1>2
  <2>2. j \in 1 .. Len(a) /\ j - 1 = k + i
    BY <1>0, <1>a
  <2>3. b[i + 1] = a[j]
    BY <2>1
  <2> HIDE DEF j
  <2>4. f[j] = DoOp(f[k + i], b[i + 1]) /\ g[i + 1] = DoOp(g[i], b[i + 1]) /\ b[i + 1] \in Operation
    BY <1>0, <2>1, <2>2, <2>3
  <2>5. Alike(DoOp(f[k + i], b[i + 1]), DoOp(g[i], b[i + 1]))
    BY <2>1, <2>4, DoOpAlike
  <2>6. Alike(f[j], g[i + 1])
    BY <2>4, <2>5
  <2> QED BY <2>6 DEF j
<1> HIDE DEF S
<1>3. \A i \in Nat : i \in S
  BY <1>1, <1>2, Induction
<1> QED BY <1>3, <1>a DEF S, f, g

\* The directories p and q agree on the queue n.
SameAt(p, q, n) ==
    /\ \A w : Present(p, n, w) <=> Present(q, n, w)
    /\ \A j, e : Stored(p, n, j, e) <=> Stored(q, n, j, e)

\* Operations keep that they do, and a Remove of n sees to it.
LEMMA DoOpSame ==
  ASSUME NEW p, NEW q, NEW n, NEW o \in Operation, SameAt(p, q, n) \/ Removes(o, n)
  PROVE  SameAt(DoOp(p, o), DoOp(q, o), n)
<1>1. CASE SameAt(p, q, n)
  <2>1. Exists(p, n) <=> Exists(q, n)
    BY <1>1, ExistsPresent DEF SameAt
  <2>2. ASSUME NEW w
        PROVE  Present(DoOp(p, o), n, w) <=> Present(DoOp(q, o), n, w)
    BY <1>1, <2>1, DoOpPresent DEF SameAt
  <2>3. ASSUME NEW j, NEW e
        PROVE  Stored(DoOp(p, o), n, j, e) <=> Stored(DoOp(q, o), n, j, e)
    BY <1>1, <2>1, DoOpStored DEF SameAt
  <2> QED BY <2>2, <2>3 DEF SameAt
<1>2. CASE Removes(o, n)
  <2>0. o.op = "Remove"
    BY <1>2 DEF Removes
  <2>1. ASSUME NEW w
        PROVE  ~Present(DoOp(p, o), n, w) /\ ~Present(DoOp(q, o), n, w)
    BY <1>2, <2>0, DoOpPresent
  <2>2. ASSUME NEW j, NEW e
        PROVE  ~Stored(DoOp(p, o), n, j, e) /\ ~Stored(DoOp(q, o), n, j, e)
    BY <1>2, <2>0, DoOpStored
  <2> QED BY <2>1, <2>2 DEF SameAt
<1> QED BY <1>1, <1>2

\* Two replays of the same operations agree on the queues removed on the way.
\* A queue that is not removed stays, and one that is there in the end was
\* there at first or is created in both.
LEMMA Lockstep ==
  ASSUME NEW p, NEW q, NEW ops \in Seq(Operation), NEW n
  PROVE  \A i \in 0 .. Len(ops) :
            IF \E l \in 1 .. i : Removes(ops[l], n)
            THEN SameAt(Stages(p, ops)[i], Stages(q, ops)[i], n)
            ELSE /\ \A w : Present(q, n, w) => Present(Stages(q, ops)[i], n, w)
                 /\ Exists(Stages(q, ops)[i], n) => Exists(q, n) \/ Exists(Stages(p, ops)[i], n)
<1> DEFINE f == Stages(p, ops)
           g == Stages(q, ops)
           R(i) == \E l \in 1 .. i : Removes(ops[l], n)
           P(i) == IF R(i) THEN SameAt(f[i], g[i], n)
                   ELSE /\ \A w : Present(q, n, w) => Present(g[i], n, w)
                        /\ Exists(g[i], n) => Exists(q, n) \/ Exists(f[i], n)
           S == {i \in Nat : i <= Len(ops) => P(i)}
<1>0. /\ Len(ops) \in Nat /\ g[0] = q
      /\ \A i \in 1 .. Len(ops) : /\ ops[i] \in Operation
                                  /\ f[i] = DoOp(f[i - 1], ops[i]) /\ g[i] = DoOp(g[i - 1], ops[i])
  BY StagesAre
<1> HIDE DEF f, g
<1>1. 0 \in S
  <2>1. ~R(0)
    OBVIOUS
  <2> QED BY <1>0, <2>1
<1>2. ASSUME NEW i \in Nat, i \in S
      PROVE  i + 1 \in S
  <2> SUFFICES ASSUME i + 1 <= Len(ops) PROVE P(i + 1)
    OBVIOUS
  <2> DEFINE o == ops[i + 1]
  <2>1. i + 1 \in 1 .. Len(ops) /\ (i + 1) - 1 = i /\ P(i)
    BY <1>0, <1>2
  <2>2. o \in Operation /\ f[i + 1] = DoOp(f[i], o) /\ g[i + 1] = DoOp(g[i], o)
    BY <1>0, <2>1
  <2>3. R(i + 1) <=> R(i) \/ Removes(o, n)
    <3>1. 1 .. i + 1 = (1 .. i) \cup {i + 1}
      BY <2>1
    <3> QED BY <3>1
  <2>4. CASE R(i + 1)
    <3>1. SameAt(f[i], g[i], n) \/ Removes(o, n)
      BY <2>1, <2>3, <2>4
    <3> HIDE DEF o
    <3> QED BY <2>2, <2>4, <3>1, DoOpSame
  <2>5. CASE ~R(i + 1)
    <3>1. ~Removes(o, n) /\ ~R(i)
      BY <2>3, <2>5
    <3>2. /\ \A w : Present(q, n, w) => Present(g[i], n, w)
          /\ Exists(g[i], n) => Exists(q, n) \/ Exists(f[i], n)
      BY <2>1, <3>1
    <3> HIDE DEF o, R
    <3>3. ASSUME NEW w, Present(q, n, w) PROVE Present(g[i + 1], n, w)
      BY <2>2, <3>1, <3>2, <3>3, DoOpPresent
    <3>4. ASSUME Exists(g[i + 1], n), ~Exists(q, n) PROVE Exists(f[i + 1], n)
      <4>1. PICK w : Present(DoOp(g[i], o), n, w)
        BY <2>2, <3>4, ExistsPresent
      <4>2. CASE Exists(g[i], n)
        <5>1. PICK v : Present(f[i], n, v)
          BY <3>2, <3>4, <4>2, ExistsPresent
        <5>2. Present(DoOp(f[i], o), n, v)
          BY <2>2, <3>1, <5>1, DoOpPresent
        <5> QED BY <2>2, <5>2, ExistsPresent
      <4>3. CASE ~Exists(g[i], n)
        <5>1. ~Present(g[i], n, w)
          BY <4>3 DEF Present
        <5>2. o.op = "Add" /\ o.name = n /\ o.owner = w
          BY <2>2, <4>1, <5>1, DoOpPresent
        <5>3. CASE Exists(f[i], n)
          <6>1. PICK v : Present(f[i], n, v)
            BY <5>3, ExistsPresent
          <6>2. Present(DoOp(f[i], o), n, v)
            BY <2>2, <3>1, <6>1, DoOpPresent
          <6> QED BY <2>2, <6>2, ExistsPresent
        <5>4. CASE ~Exists(f[i], n)
          <6>1. Present(DoOp(f[i], o), n, w)
            BY <2>2, <5>2, <5>4, DoOpPresent
          <6> QED BY <2>2, <6>1, ExistsPresent
        <5> QED BY <5>3, <5>4
      <4> QED BY <4>2, <4>3
    <3> QED BY <2>5, <3>3, <3>4
  <2> QED BY <2>4, <2>5
<1> HIDE DEF S, P
<1>3. \A i \in Nat : i \in S
  BY <1>1, <1>2, Induction
<1> QED BY <1>0, <1>3 DEF S, P, f, g

\* A queue that q has, that is not removed, and that is there in the first
\* replay whenever something is sent to it: the second replay leaves under an
\* identifier what the first does, or, where no operation names it, what q has.
LEMMA LockstepStored ==
  ASSUME NEW p, NEW q, NEW ops \in Seq(Operation), NEW n,
         Exists(q, n), \A i \in 1 .. Len(ops) : ~Removes(ops[i], n),
         \A i \in 1 .. Len(ops) : ops[i].op = "Send" /\ ops[i].name = n =>
             Exists(Stages(p, ops)[i - 1], n),
         NEW j
  PROVE  \A i \in 0 .. Len(ops) : \A e :
            Stored(Stages(q, ops)[i], n, j, e) <=>
               IF \E l \in 1 .. i : Touches(ops[l], n, j)
               THEN Stored(Stages(p, ops)[i], n, j, e) ELSE Stored(q, n, j, e)
<1> DEFINE f == Stages(p, ops)
           g == Stages(q, ops)
           T(i) == \E l \in 1 .. i : Touches(ops[l], n, j)
           P(i) == \A e : Stored(g[i], n, j, e) <=>
                             IF T(i) THEN Stored(f[i], n, j, e) ELSE Stored(q, n, j, e)
           S == {i \in Nat : i <= Len(ops) => P(i)}
<1>0. /\ Len(ops) \in Nat /\ g[0] = q
      /\ \A i \in 1 .. Len(ops) : /\ ops[i] \in Operation
                                  /\ f[i] = DoOp(f[i - 1], ops[i]) /\ g[i] = DoOp(g[i - 1], ops[i])
  BY StagesAre
<1>a. \A i \in 1 .. Len(ops) : ops[i].op = "Send" /\ ops[i].name = n => Exists(f[i - 1], n)
  OBVIOUS
<1>b. \A i \in 0 .. Len(ops) : Exists(g[i], n)
  <2> SUFFICES ASSUME NEW i \in 0 .. Len(ops) PROVE Exists(g[i], n)
    OBVIOUS
  <2>1. ~\E l \in 1 .. i : Removes(ops[l], n)
    BY <1>0
  <2>2. \A w : Present(q, n, w) => Present(g[i], n, w)
    BY <2>1, Lockstep
  <2> QED BY <2>2, ExistsPresent
<1> HIDE DEF f, g
<1>1. 0 \in S
  <2>1. ~T(0)
    OBVIOUS
  <2> QED BY <1>0, <2>1
<1>2. ASSUME NEW i \in Nat, i \in S
      PROVE  i + 1 \in S
  <2> SUFFICES ASSUME i + 1 <= Len(ops) PROVE P(i + 1)
    OBVIOUS
  <2> DEFINE o == ops[i + 1]
  <2>1. i + 1 \in 1 .. Len(ops) /\ i \in 0 .. Len(ops) /\ (i + 1) - 1 = i /\ P(i)
    BY <1>0, <1>2
  <2>2. o \in Operation /\ f[i + 1] = DoOp(f[i], o) /\ g[i + 1] = DoOp(g[i], o) /\ ~Removes(o, n)
    BY <1>0, <2>1
  <2>3. T(i + 1) <=> T(i) \/ Touches(o, n, j)
    <3>1. 1 .. i + 1 = (1 .. i) \cup {i + 1}
      BY <2>1
    <3> QED BY <3>1
  <2>4. Exists(g[i], n)
    BY <1>b, <2>1
  <2>5. o.op = "Send" /\ o.name = n => Exists(f[i], n)
    BY <1>a, <2>1
  <2> SUFFICES ASSUME NEW e
               PROVE  Stored(g[i + 1], n, j, e) <=>
                         IF T(i + 1) THEN Stored(f[i + 1], n, j, e) ELSE Stored(q, n, j, e)
    OBVIOUS
  <2>6. Stored(g[i], n, j, e) <=> IF T(i) THEN Stored(f[i], n, j, e) ELSE Stored(q, n, j, e)
    BY <2>1
  <2> HIDE DEF o, T, S, P
  <2>7. Stored(DoOp(g[i], o), n, j, e) <=>
           \/ Stored(g[i], n, j, e) /\ ~Touches(o, n, j)
           \/ o.op = "Send" /\ Touches(o, n, j) /\ e = EntryOf(o)
    BY <2>2, <2>4, DoOpStored
  <2>8. Stored(DoOp(f[i], o), n, j, e) <=>
           \/ Stored(f[i], n, j, e) /\ ~(Touches(o, n, j) /\ Exists(f[i], n))
           \/ o.op = "Send" /\ Touches(o, n, j) /\ Exists(f[i], n) /\ e = EntryOf(o)
    BY <2>2, DoOpStored
  <2>9. CASE Touches(o, n, j)
    <3>1. o.name = n
      BY <2>9 DEF Touches
    <3>2. Stored(f[i], n, j, e) => Exists(f[i], n)
      BY DEF Stored
    <3> QED BY <2>2, <2>3, <2>5, <2>7, <2>8, <2>9, <3>1, <3>2
  <2>10. CASE ~Touches(o, n, j)
    BY <2>2, <2>3, <2>6, <2>7, <2>8, <2>10
  <2> QED BY <2>9, <2>10
<1> HIDE DEF S, P
<1>3. \A i \in Nat : i \in S
  BY <1>1, <1>2, Induction
<1> QED BY <1>0, <1>3 DEF S, P, f, g

\* A redo-log whose every message is for a queue that is there when the
\* message is replayed, or one that is removed later.
Valid(qs, ops) ==
    \A i \in 1 .. Len(ops) : ops[i].op = "Send" =>
        \/ Exists(Stages(qs, ops)[i - 1], ops[i].name)
        \/ \E l \in i + 1 .. Len(ops) : Removes(ops[l], ops[i].name)

\* Alike is agreeing on every queue.
LEMMA AlikeSame ==
  \A p, q : Alike(p, q) <=> \A n : SameAt(p, q, n)
  BY DEF Alike, SameAt

LEMMA AlikeExists ==
  \A p, q, n : Alike(p, q) => (Exists(p, n) <=> Exists(q, n))
  BY ExistsPresent DEF Alike

\* Replaying what is already in the directory changes nothing.
LEMMA Absorbed ==
  ASSUME NEW qs, NEW ops \in Seq(Operation), Valid(qs, ops)
  PROVE  LET new == Replay(qs, ops)
         IN  Alike(Replay(new, ops), new)
<1> DEFINE k == Len(ops)
           f == Stages(qs, ops)
           new == f[k]
           g == Stages(new, ops)
<1>0. /\ k \in Nat /\ k \in 0 .. k /\ Replay(qs, ops) = new /\ Replay(new, ops) = g[k]
  BY StagesAre
<1>v. \A i \in 1 .. k : ops[i].op = "Send" =>
        \/ Exists(f[i - 1], ops[i].name)
        \/ \E l \in i + 1 .. k : Removes(ops[l], ops[i].name)
  BY DEF Valid
<1> SUFFICES ASSUME NEW n PROVE SameAt(g[k], f[k], n)
  BY <1>0, AlikeSame
<1>1. CASE \E l \in 1 .. k : Removes(ops[l], n)
  <2>1. SameAt(Stages(qs, ops)[k], Stages(new, ops)[k], n)
    BY <1>0, <1>1, Lockstep
  <2> QED BY <2>1 DEF SameAt
<1>2. CASE ~\E l \in 1 .. k : Removes(ops[l], n)
  <2>1. /\ \A w : Present(new, n, w) => Present(g[k], n, w)
        /\ Exists(g[k], n) => Exists(new, n) \/ Exists(f[k], n)
    BY <1>0, <1>2, Lockstep
  <2>2. \A i \in 1 .. k : ops[i].op = "Send" /\ ops[i].name = n => Exists(f[i - 1], n)
    <3> SUFFICES ASSUME NEW i \in 1 .. k, ops[i].op = "Send", ops[i].name = n
                 PROVE  Exists(f[i - 1], n)
      OBVIOUS
    <3>1. ~\E l \in i + 1 .. k : Removes(ops[l], n)
      BY <1>0, <1>2
    <3> QED BY <1>v, <3>1
  <2>3. ASSUME Exists(new, n), NEW j, NEW e
        PROVE  Stored(g[k], n, j, e) <=> Stored(new, n, j, e)
    <3>1. \A i \in 1 .. Len(ops) : ~Removes(ops[i], n)
      BY <1>2
    <3>2. Stored(Stages(new, ops)[k], n, j, e) <=>
            IF \E l \in 1 .. k : Touches(ops[l], n, j)
            THEN Stored(Stages(qs, ops)[k], n, j, e) ELSE Stored(new, n, j, e)
      BY <1>0, <2>2, <2>3, <3>1, LockstepStored
    <3> QED BY <3>2
  <2> HIDE DEF new, g
  <2>4. new = f[k]
    BY DEF new
  <2>5. \A w : Present(g[k], n, w) <=> Present(new, n, w)
    <3> HIDE DEF f
    <3> QED BY <2>1, <2>4, ExistsPresent, PresentOnce
  <2>6. \A j, e : Stored(g[k], n, j, e) <=> Stored(new, n, j, e)
    <3> HIDE DEF f
    <3> QED BY <2>1, <2>3, <2>4, PresentOnce
  <2> QED BY <2>4, <2>5, <2>6 DEF SameAt
<1> QED BY <1>1, <1>2

\* What is left of a redo-log once its first k operations are done.
LEMMA ValidRest ==
  ASSUME NEW p, NEW a \in Seq(Operation), NEW q, NEW b \in Seq(Operation),
         NEW k \in 0 .. Len(a), Len(b) = Len(a) - k,
         \A i \in 1 .. Len(b) : b[i] = a[k + i],
         Alike(Stages(p, a)[k], q)
  PROVE  /\ Alike(Replay(p, a), Replay(q, b))
         /\ Valid(p, a) => Valid(q, b)
<1> DEFINE m == Len(b)
<1>0. /\ m \in Nat /\ m \in 0 .. m /\ k \in Nat /\ Len(a) \in Nat /\ k + m = Len(a) /\ k + m <= Len(a)
      /\ Replay(p, a) = Stages(p, a)[Len(a)] /\ Replay(q, b) = Stages(q, b)[m]
  BY StagesAre
<1>1. \A i \in 0 .. m : Alike(Stages(p, a)[k + i], Stages(q, b)[i])
  BY <1>0, StagesAlike
<1>2. Alike(Replay(p, a), Replay(q, b))
  <2>1. Alike(Stages(p, a)[k + m], Stages(q, b)[m])
    BY <1>0, <1>1
  <2> QED BY <1>0, <2>1
<1>3. ASSUME Valid(p, a), NEW i \in 1 .. m, b[i].op = "Send"
      PROVE  \/ Exists(Stages(q, b)[i - 1], b[i].name)
             \/ \E l \in i + 1 .. m : Removes(b[l], b[i].name)
  <2>1. k + i \in 1 .. Len(a) /\ a[k + i] = b[i] /\ (k + i) - 1 = k + (i - 1) /\ i - 1 \in 0 .. m
    BY <1>0
  <2>2. CASE Exists(Stages(p, a)[(k + i) - 1], b[i].name)
    <3>1. Alike(Stages(p, a)[k + (i - 1)], Stages(q, b)[i - 1])
      BY <1>1, <2>1
    <3>2. Exists(Stages(p, a)[k + (i - 1)], b[i].name)
      BY <2>1, <2>2
    <3> QED BY <3>1, <3>2, AlikeExists
  <2>3. CASE \E l \in k + i + 1 .. Len(a) : Removes(a[l], b[i].name)
    <3>1. PICK l \in k + i + 1 .. Len(a) : Removes(a[l], b[i].name)
      BY <2>3
    <3>2. l - k \in i + 1 .. m /\ l - k \in 1 .. m /\ k + (l - k) = l
      BY <1>0
    <3>3. b[l - k] = a[l]
      BY <3>2
    <3> QED BY <3>1, <3>2, <3>3
  <2> QED BY <1>3, <2>1, <2>2, <2>3 DEF Valid
<1> QED BY <1>2, <1>3 DEF Valid

\* A replay depends on what is in the directory alone.
LEMMA ValidAlike ==
  ASSUME NEW p, NEW q, Alike(p, q), NEW a \in Seq(Operation)
  PROVE  /\ Alike(Replay(p, a), Replay(q, a))
         /\ Valid(p, a) => Valid(q, a)
<1>1. /\ 0 \in 0 .. Len(a) /\ Len(a) = Len(a) - 0 /\ \A i \in 1 .. Len(a) : a[i] = a[0 + i]
      /\ Stages(p, a)[0] = p
  BY StagesAre
<1> QED BY <1>1, ValidRest

\* One more operation.
LEMMA ValidAppend ==
  ASSUME NEW p, NEW a \in Seq(Operation), NEW o \in Operation
  PROVE  /\ Alike(Replay(p, Append(a, o)), DoOp(Replay(p, a), o))
         /\ Valid(p, a) /\ (o.op = "Send" => Exists(Replay(p, a), o.name))
               => Valid(p, Append(a, o))
<1> DEFINE b == Append(a, o)
           n == Len(a)
<1>0. /\ n \in Nat /\ n \in 0 .. n /\ Replay(p, a) = Stages(p, a)[n] /\ Stages(p, a)[0] = p
  BY StagesAre
<1>1. /\ b \in Seq(Operation) /\ Len(b) = n + 1 /\ b[n + 1] = o /\ \A i \in 1 .. n : b[i] = a[i]
  OBVIOUS
<1>2. /\ Stages(p, b)[0] = p /\ Replay(p, b) = Stages(p, b)[n + 1]
      /\ Stages(p, b)[n + 1] = DoOp(Stages(p, b)[n], o)
  <2>1. n + 1 \in 1 .. Len(b) /\ (n + 1) - 1 = n
    BY <1>0, <1>1
  <2> HIDE DEF b
  <2> QED BY <1>1, <2>1, StagesAre
<1> HIDE DEF b
<1>3. \A i \in 0 .. n : Alike(Stages(p, b)[i], Stages(p, a)[i])
  <2>1. /\ 0 \in 0 .. Len(b) /\ n \in 0 .. Len(a) /\ 0 + n <= Len(b)
        /\ \A i \in 1 .. n : a[i] = b[0 + i]
        /\ Alike(Stages(p, b)[0], p)
    BY <1>0, <1>1, <1>2, AlikeEquivalence
  <2>2. \A i \in 0 .. n : Alike(Stages(p, b)[0 + i], Stages(p, a)[i])
    BY <1>1, <2>1, StagesAlike
  <2>3. \A i \in 0 .. n : 0 + i = i
    BY <1>0
  <2> QED BY <2>2, <2>3
<1>4. Alike(Replay(p, b), DoOp(Replay(p, a), o))
  <2>1. Alike(Stages(p, b)[n], Stages(p, a)[n])
    BY <1>0, <1>3
  <2>2. Alike(DoOp(Stages(p, b)[n], o), DoOp(Stages(p, a)[n], o))
    BY <2>1, DoOpAlike
  <2> QED BY <1>0, <1>2, <2>2
<1>5. ASSUME Valid(p, a), o.op = "Send" => Exists(Replay(p, a), o.name),
             NEW i \in 1 .. Len(b), b[i].op = "Send"
      PROVE  \/ Exists(Stages(p, b)[i - 1], b[i].name)
             \/ \E l \in i + 1 .. Len(b) : Removes(b[l], b[i].name)
  <2>0. i - 1 \in 0 .. n /\ Alike(Stages(p, b)[i - 1], Stages(p, a)[i - 1])
    BY <1>0, <1>1, <1>3
  <2>1. CASE i = n + 1
    <3>1. b[i] = o /\ i - 1 = n /\ Exists(Stages(p, a)[i - 1], o.name)
      BY <1>0, <1>1, <1>5, <2>1
    <3> QED BY <2>0, <3>1, AlikeExists
  <2>2. CASE i \in 1 .. n
    <3>1. a[i] = b[i]
      BY <1>1, <2>2
    <3>2. CASE Exists(Stages(p, a)[i - 1], b[i].name)
      BY <2>0, <3>2, AlikeExists
    <3>3. CASE \E l \in i + 1 .. n : Removes(a[l], b[i].name)
      <4>1. PICK l \in i + 1 .. n : Removes(a[l], b[i].name)
        BY <3>3
      <4>2. l \in i + 1 .. Len(b) /\ b[l] = a[l]
        BY <1>0, <1>1, <2>2
      <4> QED BY <4>1, <4>2
    <3> QED BY <1>5, <2>2, <3>1, <3>2, <3>3 DEF Valid
  <2> QED BY <1>0, <1>1, <2>1, <2>2
<1>6. Valid(p, a) /\ (o.op = "Send" => Exists(Replay(p, a), o.name)) => Valid(p, b)
  BY <1>5 DEF Valid
<1> QED BY <1>4, <1>6 DEF b

\* The dump now holds the first k operations of a redo-log that still has them:
\* the redo-log can be replayed all the same.
LEMMA ValidSaved ==
  ASSUME NEW p, NEW a \in Seq(Operation), NEW k \in 0 .. Len(a), NEW b \in Seq(Operation),
         Len(b) = k, \A i \in 1 .. k : b[i] = a[i],
         Valid(p, a), Valid(p, b), NEW q, Alike(Replay(p, b), q)
  PROVE  /\ Alike(Replay(q, b), q)
         /\ Alike(Replay(p, a), Replay(q, a))
         /\ Valid(q, a)
<1> DEFINE n == Len(a)
           f == Stages(p, a)
           g == Stages(q, a)
<1>0. /\ n \in Nat /\ k \in Nat /\ k <= n /\ k \in 0 .. k
      /\ Replay(p, b) = Stages(p, b)[k] /\ Replay(q, b) = Stages(q, b)[k]
      /\ Stages(p, b)[0] = p /\ Stages(q, b)[0] = q /\ f[0] = p /\ g[0] = q
      /\ Replay(p, a) = f[n] /\ Replay(q, a) = g[n]
  BY StagesAre
<1>1. Alike(Replay(q, b), q)
  <2> DEFINE new == Replay(p, b)
  <2>1. Alike(Replay(new, b), new)
    BY Absorbed
  <2> HIDE DEF new
  <2>2. Alike(Replay(new, b), Replay(q, b)) /\ Alike(new, q)
    BY ValidAlike DEF new
  <2> QED BY <2>1, <2>2, AlikeEquivalence
<1>2. \A i \in 0 .. k : Alike(f[i], Stages(p, b)[i]) /\ Alike(g[i], Stages(q, b)[i])
  <2>1. /\ 0 \in 0 .. Len(a) /\ k \in 0 .. Len(b) /\ 0 + k <= Len(a)
        /\ \A i \in 1 .. k : b[i] = a[0 + i]
        /\ Alike(f[0], p) /\ Alike(g[0], q)
    BY <1>0, AlikeEquivalence
  <2>2. \A i \in 0 .. k : Alike(f[0 + i], Stages(p, b)[i])
    BY <2>1, StagesAlike
  <2>3. \A i \in 0 .. k : Alike(g[0 + i], Stages(q, b)[i])
    BY <2>1, StagesAlike
  <2>4. \A i \in 0 .. k : 0 + i = i
    BY <1>0
  <2> HIDE DEF f, g
  <2> QED BY <2>2, <2>3, <2>4
<1>3. Alike(f[k], q) /\ Alike(f[k], g[k])
  <2> HIDE DEF f, g
  <2>1. Alike(f[k], Stages(p, b)[k]) /\ Alike(g[k], Stages(q, b)[k])
    BY <1>0, <1>2
  <2> QED BY <1>0, <1>1, <2>1, AlikeEquivalence
<1>4. \A i \in k .. n : Alike(f[i], g[i])
  <2>1. /\ k \in 0 .. Len(a) /\ n - k \in 0 .. Len(a) /\ k + (n - k) <= Len(a)
    BY <1>0
  <2> DEFINE c == SubSeq(a, k + 1, n)
  <2>2. c \in Seq(Operation) /\ Len(c) = n - k /\ \A i \in 1 .. n - k : c[i] = a[k + i]
    BY <1>0, SubSeqProperties
  <2> HIDE DEF c
  <2>3. /\ n - k \in 0 .. Len(c)
        /\ Alike(Stages(p, a)[k], q) /\ Alike(Stages(q, a)[k], q)
    BY <1>3, <2>1, <2>2, AlikeEquivalence
  <2>4. \A i \in 0 .. n - k : Alike(Stages(p, a)[k + i], Stages(q, c)[i])
    BY <2>1, <2>2, <2>3, StagesAlike
  <2>5. \A i \in 0 .. n - k : Alike(Stages(q, a)[k + i], Stages(q, c)[i])
    BY <2>1, <2>2, <2>3, StagesAlike
  <2>6. \A i \in 0 .. n - k : Alike(f[k + i], g[k + i])
    BY <2>4, <2>5, AlikeEquivalence
  <2>7. \A i \in k .. n : i - k \in 0 .. n - k /\ k + (i - k) = i
    BY <1>0
  <2> HIDE DEF f, g
  <2> QED BY <2>6, <2>7
<1>5. Alike(Replay(p, a), Replay(q, a))
  BY <1>0, <1>4
<1>6. ASSUME NEW i \in 1 .. n, a[i].op = "Send"
      PROVE  \/ Exists(g[i - 1], a[i].name)
             \/ \E l \in i + 1 .. n : Removes(a[l], a[i].name)
  <2> DEFINE m == a[i].name
  <2> SUFFICES ASSUME ~\E l \in i + 1 .. n : Removes(a[l], m)
               PROVE  Exists(g[i - 1], m)
    OBVIOUS
  <2>1. Exists(f[i - 1], m)
    BY <1>6 DEF Valid
  <2>2. CASE i - 1 >= k
    <3>1. Alike(f[i - 1], g[i - 1])
      BY <1>0, <1>4, <2>2
    <3> HIDE DEF f, g, m
    <3> QED BY <2>1, <3>1, AlikeExists
  <2>3. CASE i - 1 < k
    <3>0. i \in 1 .. k /\ b[i] = a[i] /\ i - 1 \in 0 .. n /\ i - 1 \in 0 .. k /\ Len(b) = k
      BY <1>0, <2>3
    <3>1. CASE \E l \in 1 .. i - 1 : Removes(a[l], m)
      <4>1. SameAt(Stages(p, a)[i - 1], Stages(q, a)[i - 1], m)
        BY <3>0, <3>1, Lockstep
      <4> HIDE DEF m
      <4> QED BY <2>1, <4>1, ExistsPresent DEF SameAt
    <3>2. CASE ~\E l \in 1 .. i - 1 : Removes(a[l], m)
      <4>1. Exists(q, m)
        <5>1. ~\E l \in i .. k : Removes(a[l], m)
          <6>1. ~Removes(a[i], m)
            BY <1>6 DEF Removes
          <6> QED BY <1>0, <3>0, <6>1
        <5>2. ~\E l \in 1 .. k : Removes(b[l], m)
          BY <1>0, <3>0, <3>2, <5>1
        <5> DEFINE c == SubSeq(b, i, k)
        <5>3. c \in Seq(Operation) /\ Len(c) = k - (i - 1) /\ \A l \in 1 .. k - (i - 1) : c[l] = b[(i - 1) + l]
          BY <1>0, <3>0, SubSeqProperties
        <5> HIDE DEF c, m
        <5> DEFINE r == Stages(p, b)[i - 1]
        <5>4. Alike(r, r) /\ Exists(r, m)
          <6>1. Alike(f[i - 1], r)
            BY <1>2, <3>0
          <6> HIDE DEF f, r
          <6> QED BY <2>1, <6>1, AlikeExists, AlikeEquivalence
        <5>5. Alike(Replay(p, b), Replay(r, c))
          <6>1. /\ i - 1 \in 0 .. Len(b) /\ Len(c) = Len(b) - (i - 1)
                /\ \A l \in 1 .. Len(c) : c[l] = b[(i - 1) + l]
            BY <3>0, <5>3
          <6> HIDE DEF r
          <6>2. Alike(Stages(p, b)[i - 1], r)
            BY <5>4 DEF r
          <6> QED BY <5>3, <6>1, <6>2, ValidRest
        <5> HIDE DEF r
        <5>6. Exists(Replay(r, c), m)
          <6>1. ~\E l \in 1 .. Len(c) : Removes(c[l], m)
            <7>1. \A l \in 1 .. Len(c) : (i - 1) + l \in 1 .. k
              BY <1>0, <3>0, <5>3
            <7> QED BY <5>2, <5>3, <7>1
          <6>2. Len(c) \in 0 .. Len(c) /\ Replay(r, c) = Stages(r, c)[Len(c)]
            BY <5>3, StagesAre
          <6>3. \A w : Present(r, m, w) => Present(Stages(r, c)[Len(c)], m, w)
            BY <5>3, <6>1, <6>2, Lockstep
          <6> QED BY <5>4, <6>2, <6>3, ExistsPresent
        <5> QED BY <5>5, <5>6, AlikeExists
      <4>2. \A w : Present(q, m, w) => Present(Stages(q, a)[i - 1], m, w)
        BY <3>0, <3>2, Lockstep
      <4> HIDE DEF m
      <4> QED BY <4>1, <4>2, ExistsPresent
    <3> QED BY <3>1, <3>2
  <2> QED BY <1>0, <2>2, <2>3
<1>7. Valid(q, a)
  BY <1>6 DEF Valid
<1> QED BY <1>1, <1>5, <1>7

-----------------------------------------------------------------------------
(* The consumer of the redo-log *)

\* The part of the redo-log the consumer has taken.
Taken == SubSeq(journal, 1, flush.size)

\* The files can be read back: the redo-log is valid for the dump, before and
\* after the operations taken from it are in there.
Readable ==
    /\ status # "down" => Alike(onDisk, dump)
    /\ status = "down" => flush.pc = "idle"
    /\ Valid(dump, journal)
    /\ flush.pc # "idle" => flush.size <= Len(journal)
    /\ flush.pc = "apply" => /\ Valid(dump, Taken)
                             /\ Alike(Replay(flush.acc, flush.todo), Replay(dump, Taken))
    /\ flush.pc = "saved" => Alike(Replay(dump, Taken), dump)

\* What is taken is a prefix.
LEMMA TakenPrefix ==
  ASSUME NEW a \in Seq(Operation), NEW k \in Nat, k <= Len(a)
  PROVE  LET b == SubSeq(a, 1, k)
         IN  b \in Seq(Operation) /\ Len(b) = k /\ \A i \in 1 .. k : b[i] = a[i]
<1>1. Len(a) \in Nat /\ \A i \in 1 .. k : 1 + i - 1 = i /\ i \in 1 .. Len(a)
  OBVIOUS
<1> QED BY <1>1, SubSeqProperties

\* The consumer takes the redo-log,
LEMMA FlushBeginReads ==
  ASSUME Inv, Readable, FlushBegin
  PROVE  Readable' /\ UNCHANGED <<dump, journal>>
<1>1. /\ flush' = FlushState("apply", onDisk, journal, Len(journal))
      /\ UNCHANGED <<dump, journal, onDisk, status>> /\ status # "down"
  BY DEF FlushBegin, Running
<1>2. flush'.pc = "apply" /\ flush'.acc = onDisk /\ flush'.todo = journal /\ flush'.size = Len(journal)
  BY <1>1 DEF FlushState
<1>3. journal \in Seq(Operation) /\ Len(journal) \in Nat /\ Len(journal) <= Len(journal)
  BY DEF Inv, Disk
<1>4. SubSeq(journal, 1, Len(journal)) = journal
  <2> DEFINE b == SubSeq(journal, 1, Len(journal))
  <2>1. b \in Seq(Operation) /\ Len(b) = Len(journal) /\ \A i \in 1 .. Len(journal) : b[i] = journal[i]
    BY <1>3, TakenPrefix
  <2> HIDE DEF b
  <2>2. b = journal
    BY <1>3, <2>1, SeqEqual
  <2> QED BY <2>2 DEF b
<1>5. Taken' = journal
  BY <1>1, <1>2, <1>4 DEF Taken
<1>6. Alike(Replay(onDisk, journal), Replay(dump, journal))
  BY <1>1, <1>3, ValidAlike DEF Readable
<1> QED BY <1>1, <1>2, <1>3, <1>5, <1>6 DEF Readable

\* applies it, operation by operation,
LEMMA FlushApplyReads ==
  ASSUME Inv, Readable, FlushApply
  PROVE  Readable' /\ UNCHANGED <<dump, journal>>
<1> DEFINE todo == flush.todo
           acc  == DoOp(flush.acc, Head(todo))
           rest == Tail(todo)
<1>1. /\ flush.pc = "apply" /\ flush' = FlushState("apply", acc, rest, flush.size)
      /\ UNCHANGED <<dump, journal, onDisk, status>> /\ todo # <<>>
  BY DEF FlushApply
<1>2. flush'.pc = "apply" /\ flush'.acc = acc /\ flush'.todo = rest /\ flush'.size = flush.size
  BY <1>1 DEF FlushState
<1>3. todo \in Seq(Operation)
  BY DEF Inv, Disk, FlushOK
<1>4. /\ rest \in Seq(Operation) /\ Len(todo) \in Nat /\ 1 \in 0 .. Len(todo) /\ 1 \in 1 .. Len(todo)
      /\ Len(rest) = Len(todo) - 1 /\ \A i \in 1 .. Len(rest) : rest[i] = todo[1 + i]
      /\ Head(todo) = todo[1]
  BY <1>1, <1>3
<1>5. Stages(flush.acc, todo)[1] = acc
  <2>1. /\ Stages(flush.acc, todo)[1] = DoOp(Stages(flush.acc, todo)[1 - 1], todo[1])
        /\ Stages(flush.acc, todo)[0] = flush.acc /\ 1 - 1 = 0
    BY <1>3, <1>4, StagesAre
  <2> QED BY <1>4, <2>1
<1> HIDE DEF todo, acc, rest
<1>6. Alike(Stages(flush.acc, todo)[1], acc)
  BY <1>5, AlikeEquivalence
<1>7. Alike(Replay(flush.acc, todo), Replay(acc, rest))
  BY <1>3, <1>4, <1>6, ValidRest
<1>8. Alike(Replay(flush.acc, todo), Replay(dump, Taken))
  BY <1>1 DEF Readable, todo
<1>9. Taken' = Taken
  BY <1>1, <1>2 DEF Taken
<1>10. Alike(Replay(acc, rest), Replay(dump, Taken))
  BY <1>7, <1>8, AlikeEquivalence
<1>11. Alike(Replay(flush'.acc, flush'.todo), Replay(dump', Taken'))
  BY <1>1, <1>2, <1>9, <1>10
<1>12. Valid(dump', Taken') /\ Valid(dump', journal') /\ flush'.size <= Len(journal')
  BY <1>1, <1>2, <1>9 DEF Readable
<1> QED BY <1>1, <1>2, <1>11, <1>12 DEF Readable

\* writes the dump, which then holds what is still in the redo-log,
LEMMA FlushSaveReads ==
  ASSUME Inv, Readable, FlushSave
  PROVE  Readable' /\ Alike(Replay(dump, journal), Replay(dump', journal'))
<1>1. /\ status # "down" /\ flush.pc = "apply" /\ flush.todo = <<>>
      /\ dump' = flush.acc /\ onDisk' = flush.acc
      /\ flush' = FlushState("saved", flush.acc, <<>>, flush.size)
      /\ UNCHANGED <<status, journal>>
  BY DEF FlushSave, Running
<1>2. flush'.pc = "saved" /\ flush'.size = flush.size
  BY <1>1 DEF FlushState
<1>3. journal \in Seq(Operation) /\ flush.size \in Nat /\ flush.size <= Len(journal)
  BY <1>1 DEF Inv, Disk, FlushOK, Readable
<1>4. /\ Taken \in Seq(Operation) /\ Len(Taken) = flush.size /\ flush.size \in 0 .. Len(journal)
      /\ \A i \in 1 .. flush.size : Taken[i] = journal[i]
  BY <1>3, TakenPrefix DEF Taken
<1>5. Replay(flush.acc, <<>>) = flush.acc
  <2> DEFINE none == <<>>
             acc  == flush.acc
  <2>1. none \in Seq(Operation) /\ Len(none) = 0
    OBVIOUS
  <2> HIDE DEF none, acc
  <2>2. Stages(acc, none)[0] = acc /\ Replay(acc, none) = Stages(acc, none)[Len(none)]
    BY <2>1, StagesAre
  <2>3. Replay(acc, none) = acc
    BY <2>1, <2>2
  <2> QED BY <2>3 DEF none, acc
<1>6. Alike(Replay(dump, Taken), flush.acc)
  BY <1>1, <1>5, AlikeEquivalence DEF Readable
<1>7. Valid(dump, journal) /\ Valid(dump, Taken)
  BY <1>1 DEF Readable
<1>8. /\ Alike(Replay(flush.acc, Taken), flush.acc)
      /\ Alike(Replay(dump, journal), Replay(flush.acc, journal))
      /\ Valid(flush.acc, journal)
  BY <1>3, <1>4, <1>6, <1>7, ValidSaved
<1>9. Taken' = Taken
  BY <1>1, <1>2 DEF Taken
<1> QED BY <1>1, <1>2, <1>3, <1>8, <1>9, AlikeEquivalence DEF Readable

\* and drops the operations from the redo-log.
LEMMA FlushAdvanceReads ==
  ASSUME Inv, Readable, FlushAdvance
  PROVE  Readable' /\ Alike(Replay(dump, journal), Replay(dump', journal'))
<1> DEFINE k    == flush.size
           rest == SubSeq(journal, k + 1, Len(journal))
<1>1. /\ status # "down" /\ flush.pc = "saved" /\ journal' = rest /\ flush' = FlushIdle
      /\ UNCHANGED <<status, dump, onDisk>>
  BY DEF FlushAdvance, Running
<1>2. flush'.pc = "idle"
  BY <1>1 DEF FlushIdle, FlushState
<1>3. journal \in Seq(Operation) /\ k \in Nat /\ k <= Len(journal) /\ Len(journal) \in Nat
  BY <1>1 DEF Inv, Disk, FlushOK, Readable
<1>4. /\ rest \in Seq(Operation) /\ Len(rest) = Len(journal) - k
      /\ \A i \in 1 .. Len(rest) : rest[i] = journal[k + i]
  <2> HIDE DEF k
  <2> DEFINE m == k + 1
             n == Len(journal)
  <2>1. m \in 1 .. Len(journal) + 1 /\ n \in m - 1 .. Len(journal)
    BY <1>3
  <2>2. n - m + 1 = n - k /\ \A i \in 1 .. n - k : m + i - 1 = k + i
    BY <1>3
  <2> HIDE DEF m, n
  <2>3. /\ SubSeq(journal, m, n) \in Seq(Operation)
        /\ Len(SubSeq(journal, m, n)) = n - m + 1
        /\ \A i \in 1 .. n - m + 1 : SubSeq(journal, m, n)[i] = journal[m + i - 1]
    BY <1>3, <2>1, SubSeqProperties
  <2>4. /\ SubSeq(journal, m, n) \in Seq(Operation)
        /\ Len(SubSeq(journal, m, n)) = n - k
        /\ \A i \in 1 .. n - k : SubSeq(journal, m, n)[i] = journal[k + i]
    BY <2>2, <2>3
  <2>5. rest = SubSeq(journal, m, n) /\ n = Len(journal)
    BY DEF m, n
  <2> HIDE DEF rest
  <2> QED BY <2>4, <2>5
<1>5. /\ Taken \in Seq(Operation) /\ Len(Taken) = k /\ k \in 0 .. Len(journal)
      /\ \A i \in 1 .. k : Taken[i] = journal[i]
  BY <1>3, TakenPrefix DEF Taken
<1> HIDE DEF rest, k
<1>6. Alike(Stages(dump, journal)[k], dump)
  <2>1. /\ 0 \in 0 .. Len(journal) /\ k \in 0 .. Len(Taken) /\ 0 + k <= Len(journal) /\ 0 + k = k
        /\ k \in 0 .. k /\ \A i \in 1 .. k : Taken[i] = journal[0 + i]
    BY <1>3, <1>5
  <2>2. Stages(dump, journal)[0] = dump /\ Replay(dump, Taken) = Stages(dump, Taken)[k]
    BY <1>3, <1>5, StagesAre
  <2>3. Alike(Stages(dump, journal)[0], dump)
    BY <2>2, AlikeEquivalence
  <2>4. \A i \in 0 .. k : Alike(Stages(dump, journal)[0 + i], Stages(dump, Taken)[i])
    BY <1>3, <1>5, <2>1, <2>3, StagesAlike
  <2>5. Alike(Stages(dump, journal)[k], Stages(dump, Taken)[k])
    BY <2>1, <2>4
  <2>6. Alike(Replay(dump, Taken), dump)
    BY <1>1 DEF Readable
  <2> QED BY <2>2, <2>5, <2>6, AlikeEquivalence
<1>7. Alike(Replay(dump, journal), Replay(dump, rest)) /\ Valid(dump, rest)
  BY <1>3, <1>4, <1>5, <1>6, ValidRest DEF Readable
<1> QED BY <1>1, <1>2, <1>7 DEF Readable

\* Loading a dump changes the counters alone.
LEMMA LoadAlike ==
  ASSUME NEW qs
  PROVE  Alike(LoadQueues(qs), qs)
  BY DEF LoadQueues, Queue, Alike, Present, Stored, Exists

\* So every step but a client's leaves readable files that say the same.
LEMMA OthersRead ==
  ASSUME Inv, Readable, Persistent,
         UNCHANGED vars \/ Flush \/ Start \/ Replayed \/ Crash
  PROVE  Readable' /\ Alike(Replay(dump, journal), Replay(dump', journal'))
<1>0. UNCHANGED <<dump, journal>> => Alike(Replay(dump, journal), Replay(dump', journal'))
  BY AlikeEquivalence
<1>1. CASE UNCHANGED vars
  <2>1. UNCHANGED <<status, dump, journal, onDisk, flush>>
    BY <1>1 DEF vars
  <2>2. Taken' = Taken
    BY <2>1 DEF Taken
  <2> QED BY <1>0, <2>1, <2>2 DEF Readable
<1>2. CASE Flush
  BY <1>0, <1>2, FlushBeginReads, FlushApplyReads, FlushSaveReads, FlushAdvanceReads DEF Flush
<1>3. CASE Start
  <2>1. /\ status' # "down" /\ flush.pc = "idle" /\ onDisk' = LoadQueues(dump)
        /\ UNCHANGED <<dump, journal, flush>>
    BY <1>3 DEF Start, Readable
  <2>2. Alike(onDisk', dump')
    BY <2>1, LoadAlike
  <2> QED BY <1>0, <2>1, <2>2 DEF Readable
<1>4. CASE Replayed
  <2>1. status # "down" /\ status' # "down" /\ UNCHANGED <<dump, journal, onDisk, flush>>
    BY <1>4 DEF Replayed, diskVars
  <2>2. Taken' = Taken
    BY <2>1 DEF Taken
  <2> QED BY <1>0, <2>1, <2>2 DEF Readable
<1>5. CASE Crash
  <2>1. status' = "down" /\ flush'.pc = "idle" /\ UNCHANGED <<dump, journal>>
    BY <1>5 DEF Crash, FlushIdle, FlushState
  <2> QED BY <1>0, <2>1 DEF Readable
<1> QED BY <1>1, <1>2, <1>3, <1>4, <1>5

-----------------------------------------------------------------------------
(* The writers of the redo-log *)

\* A thread that pushes: a clean-up removes queues, any other request has one
\* operation; what is kept aside is what they make of the present directory.
Writes(c) ==
    \/ /\ th[c].rq.type = "Cleanup"
       /\ th[c].ops \subseteq {OpRemove(n) : n \in th[c].rq.names}
       /\ th[c].newq = RemoveAll(queues, th[c].rq.names)
    \/ /\ th[c].rq.type # "Cleanup"
       /\ \E o \in Operation : /\ th[c].ops = {o}
                               /\ th[c].newq = DoOp(queues, o)
                               /\ o.op = "Send" => Exists(queues, o.name)

Writers == \A c \in Conn : th[c].pc = "pushing" => Writes(c)

\* The queues a clean-up under way has removed in the redo-log alone.
Forgone == UNION {AheadOf(c) : c \in Conn}

Synced == status = "up" => Alike(Replay(dump, journal), RemoveAll(queues, Forgone))

\* Removing queues, seen by a client.
LEMMA RemoveSeen ==
  ASSUME NEW qs, NEW S
  PROVE  /\ \A n, w : Present(RemoveAll(qs, S), n, w) <=> Present(qs, n, w) /\ n \notin S
         /\ \A n, j, e : Stored(RemoveAll(qs, S), n, j, e) <=> Stored(qs, n, j, e) /\ n \notin S
  BY RemoveQueues DEF Present, Stored, Exists

LEMMA RemoveAlike ==
  ASSUME NEW p, NEW q, Alike(p, q), NEW S
  PROVE  Alike(RemoveAll(p, S), RemoveAll(q, S))
  BY RemoveSeen DEF Alike

LEMMA RemoveNone ==
  \A qs : Alike(RemoveAll(qs, {}), qs)
  BY RemoveSeen DEF Alike

\* What a request prepares.
LEMMA PreparedWrites ==
  ASSUME NEW s, NEW rq, NEW qs, NEW ops, NEW newq, Prepared(s, rq, qs, ops, newq)
  PROVE  /\ Alike(qs, queues)
         /\ rq.type = "Cleanup" => /\ ops = {OpRemove(n) : n \in rq.names}
                                   /\ qs = queues
                                   /\ newq = RemoveAll(qs, rq.names)
         /\ rq.type # "Cleanup" => \E o : /\ ops = {o} /\ newq = DoOp(qs, o)
                                          /\ o.op = "Send" => Exists(qs, o.name)
<1>0. Alike(queues, queues)
  BY AlikeEquivalence
<1>1. CASE rq.type \in {"CreateTransient", "CreatePersistent"}
  <2>1. PICK w : qs = queues /\ ops = {OpAdd(w, rq.name)} /\ newq = DirectoryAdd(queues, w, rq.name)
    BY <1>1 DEF Prepared
  <2>2. OpAdd(w, rq.name).op = "Add" /\ DoOp(qs, OpAdd(w, rq.name)) = newq
    BY <2>1 DEF OpAdd, DoOp
  <2> QED BY <1>0, <1>1, <2>1, <2>2
<1>2. CASE rq.type = "Destroy"
  <2>1. qs = queues /\ ops = {OpRemove(rq.name)} /\ newq = RemoveAll(queues, {rq.name})
    BY <1>2 DEF Prepared
  <2>2. OpRemove(rq.name).op = "Remove" /\ DoOp(qs, OpRemove(rq.name)) = newq
    BY <2>1 DEF OpRemove, DoOp, DirectoryRemove
  <2> QED BY <1>0, <1>2, <2>1, <2>2
<1>3. CASE rq.type = "Ack"
  <2>1. qs = queues /\ ops = {OpAck(rq.name, rq.id)} /\ newq = InternalAck(queues, rq.name, rq.id)
    BY <1>3 DEF Prepared
  <2>2. OpAck(rq.name, rq.id).op = "Ack" /\ DoOp(qs, OpAck(rq.name, rq.id)) = newq
    BY <2>1 DEF OpAck, DoOp
  <2> QED BY <1>0, <1>3, <2>1, <2>2
<1>4. CASE rq.type = "Send"
  <2> DEFINE n == rq.name
             k == queues.queues[n].next_id
             x == queues.queues[n]
             y == Queue(x.q, x.owner, x.next_id + 1)
             o == OpSend(s, n, k, rq.msg)
  <2>1. /\ Exists(queues, n) /\ qs = TakeNextId(queues, n) /\ ops = {o}
        /\ newq = InternalSend(qs, s, n, k, rq.msg)
    BY <1>4 DEF Prepared
  <2>2. o.name = n /\ DoOp(qs, o) = newq
    BY <2>1 DEF OpSend, DoOp
  <2>3. qs = WithQueue(queues, n, y) /\ y.q = x.q /\ y.owner = x.owner
    BY <2>1 DEF TakeNextId, Queue
  <2>4. n \in DOMAIN queues.queues
    BY <2>1 DEF Exists
  <2> HIDE DEF y, o, k
  <2>5. /\ DOMAIN qs.queues = DOMAIN queues.queues /\ qs.queues[n] = y
        /\ \A m \in DOMAIN queues.queues \ {n} : qs.queues[m] = queues.queues[m]
    BY <2>3, <2>4, WithQueues
  <2>6. Alike(qs, queues) /\ Exists(qs, n)
    BY <2>3, <2>4, <2>5 DEF Alike, Present, Stored, Exists
  <2> QED BY <1>4, <2>1, <2>2, <2>6
<1>5. CASE rq.type = "Cleanup"
  BY <1>0, <1>5 DEF Prepared
<1> QED BY <1>1, <1>2, <1>3, <1>4, <1>5 DEF Prepared

\* A thread that pushes keeps the others out of the critical section, and they
\* leave it alone.
LEMMA OthersPush ==
  ASSUME Inv, Inv', Asked, NoTrace, Exclusive, NEW c \in Conn, Client(c), NEW d \in Conn \ {c}
  PROVE  /\ th[d].pc = "pushing" <=> th'[d].pc = "pushing"
         /\ th'[d].pc = "pushing" => th'[d] = th[d] /\ UNCHANGED queues
<1>1. ThreadGood(th[d]) /\ DOMAIN th = Conn
  BY DEF Inv, Shared, ThreadsGood
<1>2. th'[d].pc = "pushing" => th'[d] = th[d]
  BY <1>1, ClientEffect, NudgedKeeps
<1>3. ASSUME th[d].pc = "pushing"
      PROVE  th'[d] = th[d] /\ UNCHANGED queues
  <2>1. ~Has(c) /\ th[c].pc # "pushing"
    BY <1>3 DEF Has, Enters, Inside, Exclusive
  <2>2. Moves(c) \/ Queues(c)
    BY <2>1, Shapes DEF Holds, Leaves, Has
  <2>3. th'[d] = th[d]
    BY <1>1, <2>2 DEF Moves, Queues
  <2>4. UNCHANGED queues
    BY <2>1, ClientEffect DEF Effect
  <2> QED BY <2>3, <2>4
<1> QED BY <1>2, <1>3

\* A client's step that pushes nothing leaves the redo-log and the messages as
\* they are; a thread may begin to push.
LEMMA NoPushWrites ==
  ASSUME Inv, Inv', Asked, Persistent, ~PushMayFail, NEW c \in Conn, Client(c), ~PushStep(c)
  PROVE  /\ th[c].pc # "pushing" /\ UNCHANGED journal
         /\ Alike(queues', queues)
         /\ th'[c].pc = "pushing" =>
               /\ Writes(c)'
               /\ th'[c].rq.type = "Cleanup" =>
                     th'[c].ops = {OpRemove(n) : n \in th'[c].rq.names}
<1>1. th[c].pc # "pushing"
  BY DEF Client, Connect, Arrive, ThreadStep, Wake, Resume, Read, TraceRelock,
         TraceResume, TransferTimeout, TraceTimeout, PushFail, Close
<1>2. UNCHANGED journal
  BY <1>1, ClientJournal
<1>3. CASE UNCHANGED queues /\ th'[c].pc # "pushing"
  BY <1>1, <1>2, <1>3, AlikeEquivalence
<1>4. ASSUME NEW s, NEW rq, Serving(c, s, rq), Kind(c, s, rq), Effect(c, s, rq)
      PROVE  /\ Alike(queues', queues)
             /\ th'[c].pc = "pushing" =>
                   /\ Writes(c)'
                   /\ th'[c].rq.type = "Cleanup" =>
                         th'[c].ops = {OpRemove(n) : n \in th'[c].rq.names}
  <2>1. CASE th'[c].pc = "pushing"
    <3>1. PICK ops, newq : /\ th'[c] = Thread("pushing", s, rq, ops, newq)
                           /\ Prepared(s, rq, queues', ops, newq)
      BY <1>1, <1>4, <2>1 DEF Effect
    <3>2. th'[c].rq = rq /\ th'[c].ops = ops /\ th'[c].newq = newq
      BY <3>1 DEF Thread
    <3>3. th'[c].ops \subseteq Operation
      BY DEF Inv, Shared, ThreadsGood, ThreadGood, ThreadOK
    <3>4. Alike(queues', queues)
      BY <3>1, PreparedWrites
    <3>5. CASE rq.type = "Cleanup"
      <4>1. ops = {OpRemove(n) : n \in rq.names} /\ newq = RemoveAll(queues', rq.names)
        BY <3>1, <3>5, PreparedWrites
      <4> QED BY <3>2, <3>4, <3>5, <4>1 DEF Writes
    <3>6. CASE rq.type # "Cleanup"
      <4>1. PICK o : ops = {o} /\ newq = DoOp(queues', o) /\ (o.op = "Send" => Exists(queues', o.name))
        BY <3>1, <3>6, PreparedWrites
      <4>2. o \in Operation
        BY <3>2, <3>3, <4>1
      <4> QED BY <3>2, <3>4, <3>6, <4>1, <4>2 DEF Writes
    <3> QED BY <3>5, <3>6
  <2>2. CASE th'[c].pc # "pushing"
    <3>1. CASE Performs(c, s, rq)
      <4>1. PICK t \in {th, TraceAdd(th)} : \E qs, ops, newq :
               Prepared(s, rq, qs, ops, newq) /\ Perform(c, s, rq, t, qs, ops, newq)
        BY <3>1 DEF Performs
      <4>2. PICK qs, ops, newq :
               Prepared(s, rq, qs, ops, newq) /\ Perform(c, s, rq, t, qs, ops, newq)
        BY <4>1
      <4>3. ~(th' = [t EXCEPT ![c] = Thread("pushing", s, rq, ops, newq)])
        <5>1. DOMAIN t = Conn
          BY TraceAddGood DEF Inv, Shared, ThreadsGood
        <5> QED BY <2>2, <5>1, Places
      <4>4. ops = {} /\ queues' = newq
        BY <4>2, <4>3 DEF Perform, Finish
      <4>5. /\ {OpRemove(n) : n \in rq.names} = {} /\ newq = RemoveAll(qs, rq.names) /\ qs = queues
        BY <4>2, <4>4, PreparedWrites
      <4>6. rq.names = {}
        BY <4>5
      <4> QED BY <2>2, <4>4, <4>5, <4>6, RemoveNone
    <3>2. CASE ~Performs(c, s, rq)
      <4>1. UNCHANGED queues
        BY <1>1, <1>4, <3>2 DEF Kind, Blocks, Joins, Enqueue, Answers, Reads, DoGet, Traces, Pushes, Publishes
      <4> QED BY <2>2, <4>1, AlikeEquivalence
    <3> QED BY <3>1, <3>2
  <2> QED BY <2>1, <2>2
<1> QED BY <1>1, <1>2, <1>3, <1>4, ClientEffect

\* A client's step keeps the files readable and in step with the memory:
\* unless it pushes, they say the same as before,
LEMMA NoPushReads ==
  ASSUME Inv, Inv', Asked, NoTrace, Persistent, ~PushMayFail, Exclusive,
         Writers, Readable, Synced, NEW c \in Conn, Client(c), ~PushStep(c)
  PROVE  Writers' /\ Readable' /\ Synced'
<1>1. /\ status = "up" /\ status' = "up" /\ UNCHANGED <<dump, onDisk, flush, journal>>
      /\ th[c].pc # "pushing" /\ Alike(queues', queues)
      /\ th'[c].pc = "pushing" =>
            /\ Writes(c)'
            /\ th'[c].rq.type = "Cleanup" => th'[c].ops = {OpRemove(n) : n \in th'[c].rq.names}
  BY ClientUp, NoPushWrites
<1>2. \A d \in Conn \ {c} : /\ th[d].pc = "pushing" <=> th'[d].pc = "pushing"
                            /\ th'[d].pc = "pushing" => th'[d] = th[d] /\ UNCHANGED queues
  BY OthersPush
<1>3. Writers'
  <2> SUFFICES ASSUME NEW d \in Conn, th'[d].pc = "pushing"
               PROVE  Writes(d)'
    BY DEF Writers
  <2>1. CASE d # c
    BY <1>2, <2>1 DEF Writers, Writes
  <2>2. CASE d = c
    BY <1>1, <2>2
  <2> QED BY <2>1, <2>2
<1>4. Readable'
  <2>1. Taken' = Taken
    BY <1>1 DEF Taken
  <2> QED BY <1>1, <2>1 DEF Readable
<1>5. ASSUME NEW d \in Conn
      PROVE  AheadOf(d)' = AheadOf(d)
  <2>1. CASE d # c
    BY <1>2, <2>1 DEF AheadOf
  <2>2. CASE d = c
    <3>1. \A n : OpRemove(n).name = n
      BY DEF OpRemove
    <3>2. AheadOf(c) = {}
      BY <1>1 DEF AheadOf
    <3>3. AheadOf(c)' = {}
      BY <1>1, <3>1 DEF AheadOf
    <3> QED BY <2>2, <3>2, <3>3
  <2> QED BY <2>1, <2>2
<1>6. Forgone' = Forgone
  BY <1>5 DEF Forgone
<1>7. Alike(RemoveAll(queues', Forgone'), RemoveAll(queues, Forgone))
  BY <1>1, <1>6, RemoveAlike
<1>8. Synced'
  BY <1>1, <1>7, AlikeEquivalence DEF Synced
<1> QED BY <1>3, <1>4, <1>8

\* A push writes one operation and either goes on or publishes the directory.
LEMMA PushSteps ==
  ASSUME Inv, NEW c \in Conn, NEW o \in th[c].ops, Push(c, o)
  PROVE  /\ th[c].pc = "pushing" /\ journal' = Append(journal, o)
         /\ \/ /\ th[c].ops = {o} /\ queues' = th[c].newq
               /\ th'[c].pc # "pushing"
            \/ /\ th[c].ops # {o} /\ UNCHANGED queues
               /\ th'[c] = Thread("pushing", th[c].session, th[c].rq, th[c].ops \ {o}, th[c].newq)
<1>1. th[c].pc = "pushing" /\ journal' = Append(journal, o) /\ DOMAIN th = Conn
  BY DEF Push, Inv, Shared, ThreadsGood
<1>2. CASE th[c].ops = {o}
  <2>1. Finish(c, th[c].session, th[c].rq, th, th[c].newq)
    BY <1>2 DEF Push
  <2>2. \E pc \in {"idle", "closed"} :
           th' = HandOver(Broadcast([th EXCEPT ![c] = Parked(pc)]), waiters)
    BY <2>1 DEF Finish
  <2>3. /\ Shared /\ waiters \in Waiters /\ th \in {th, TraceAdd(th)}
        /\ \A pc \in {"idle", "closed"} : ThreadGood(Parked(pc))
    BY ParkedGood DEF Inv, Shared, PC
  <2>4. \E pc \in {"idle", "closed"} : th'[c] \in Nudged(Parked(pc))
    BY <2>2, <2>3, SetNudges
  <2>5. th'[c].pc # "pushing"
    BY <2>4, ParkedOK
  <2> QED BY <1>1, <1>2, <2>1, <2>5 DEF Finish
<1>3. CASE th[c].ops # {o}
  <2>1. /\ th' = [th EXCEPT ![c] = Thread(th[c].pc, th[c].session, th[c].rq, th[c].ops \ {o}, th[c].newq)]
        /\ UNCHANGED queues
    BY <1>3 DEF Push
  <2> QED BY <1>1, <1>3, <2>1
<1> QED BY <1>2, <1>3

\* and if it does, they follow the thread that pushes.
LEMMA PushReads ==
  ASSUME Inv, Inv', Asked, NoTrace, Persistent, ~PushMayFail, Exclusive,
         Writers, Readable, Synced, NEW c \in Conn, Client(c), PushStep(c)
  PROVE  Writers' /\ Readable' /\ Synced'
<1> DEFINE old == Replay(dump, journal)
           new == Replay(dump, journal')
           ns  == th[c].rq.names
<1>0. PICK o \in th[c].ops : Push(c, o)
  BY DEF PushStep
<1>1. /\ th[c].pc = "pushing" /\ journal' = Append(journal, o)
      /\ \/ /\ th[c].ops = {o} /\ queues' = th[c].newq
            /\ th'[c].pc # "pushing"
         \/ /\ th[c].ops # {o} /\ UNCHANGED queues
            /\ th'[c] = Thread("pushing", th[c].session, th[c].rq, th[c].ops \ {o}, th[c].newq)
  BY <1>0, PushSteps
<1>2. /\ status = "up" /\ status' = "up" /\ UNCHANGED <<dump, onDisk, flush>>
      /\ o \in Operation /\ journal \in Seq(Operation) /\ Writes(c)
  BY <1>1, ClientUp DEF Writers, Inv, Shared, Disk, ThreadsGood, ThreadGood, ThreadOK
<1>3. \A d \in Conn \ {c} : th[d].pc # "pushing" /\ th'[d].pc # "pushing"
  BY <1>1, OthersPush DEF Exclusive, Inside
<1>4. Forgone = AheadOf(c) /\ Forgone' = AheadOf(c)'
  <2>1. \A d \in Conn \ {c} : AheadOf(d) = {} /\ AheadOf(d)' = {}
    BY <1>3 DEF AheadOf
  <2> QED BY <2>1 DEF Forgone
<1>5. Alike(old, RemoveAll(queues, AheadOf(c)))
  BY <1>2, <1>4 DEF Synced
<1>6. /\ Alike(new, DoOp(old, o))
      /\ Valid(dump, journal) /\ (o.op = "Send" => Exists(old, o.name)) => Valid(dump, journal')
  BY <1>1, <1>2, ValidAppend
<1> HIDE DEF old, new
<1>7. ASSUME o.op = "Send" => Exists(old, o.name)
      PROVE  Readable'
  <2>1. Valid(dump', journal')
    BY <1>2, <1>6, <1>7 DEF Readable
  <2>2. CASE flush.pc = "idle"
    BY <1>2, <2>1, <2>2 DEF Readable
  <2>3. CASE flush.pc # "idle"
    <3>1. flush.size \in Nat /\ flush.size <= Len(journal) /\ Len(journal) \in Nat
      BY <1>2, <2>3 DEF Readable, Inv, Disk, FlushOK
    <3>2. /\ journal' \in Seq(Operation) /\ Len(journal') = Len(journal) + 1
          /\ \A i \in 1 .. Len(journal) : journal'[i] = journal[i]
      BY <1>1, <1>2
    <3>3. flush.size <= Len(journal')
      BY <3>1, <3>2
    <3> DEFINE a == SubSeq(journal, 1, flush.size)
               b == SubSeq(journal', 1, flush.size)
    <3>4. /\ a \in Seq(Operation) /\ Len(a) = flush.size
          /\ \A i \in 1 .. flush.size : a[i] = journal[i]
      BY <1>2, <3>1, TakenPrefix
    <3>5. /\ b \in Seq(Operation) /\ Len(b) = flush.size
          /\ \A i \in 1 .. flush.size : b[i] = journal'[i]
      BY <3>1, <3>2, <3>3, TakenPrefix
    <3> HIDE DEF a, b
    <3>6. \A i \in 1 .. flush.size : a[i] = b[i]
      BY <3>1, <3>2, <3>4, <3>5
    <3>7. a = b
      BY <3>4, <3>5, <3>6, SeqEqual
    <3>8. Taken' = Taken
      BY <1>2, <3>7 DEF Taken, a, b
    <3> QED BY <1>2, <2>1, <3>3, <3>8 DEF Readable
  <2> QED BY <2>2, <2>3
<1>8. CASE th[c].rq.type # "Cleanup"
  <2>1. /\ th[c].ops = {o} /\ th[c].newq = DoOp(queues, o)
        /\ o.op = "Send" => Exists(queues, o.name)
    BY <1>2, <1>8 DEF Writes
  <2>2. queues' = DoOp(queues, o) /\ th'[c].pc # "pushing"
    BY <1>1, <2>1
  <2>3. AheadOf(c) = {} /\ AheadOf(c)' = {}
    BY <1>8, <2>2 DEF AheadOf
  <2>4. Alike(old, queues)
    BY <1>5, <2>3, RemoveNone, AlikeEquivalence
  <2>5. Alike(DoOp(old, o), queues')
    BY <1>2, <2>2, <2>4, DoOpAlike
  <2>6. Alike(new, RemoveAll(queues', {}))
    BY <1>6, <2>5, RemoveNone, AlikeEquivalence
  <2>7. Synced'
    BY <1>2, <1>4, <2>3, <2>6 DEF Synced, new
  <2>8. Readable'
    BY <1>7, <2>1, <2>4, AlikeExists
  <2>9. Writers'
    BY <1>3, <2>2 DEF Writers
  <2> QED BY <2>7, <2>8, <2>9
<1>9. CASE th[c].rq.type = "Cleanup"
  <2>0. \A n : OpRemove(n).name = n /\ OpRemove(n).op = "Remove"
    BY DEF OpRemove
  <2>1. th[c].ops \subseteq {OpRemove(n) : n \in ns} /\ th[c].newq = RemoveAll(queues, ns)
    BY <1>2, <1>9 DEF Writes
  <2>2. PICK n \in ns : o = OpRemove(n)
    BY <2>1
  <2>3. AheadOf(c) = {m \in ns : \A x \in th[c].ops : x.name # m}
    BY <1>1, <1>9 DEF AheadOf
  <2> HIDE DEF ns
  <2>4. Readable'
    BY <1>7, <2>0, <2>2
  <2>5. Alike(new, RemoveAll(queues, AheadOf(c) \cup {n}))
    <3> DEFINE rem == RemoveAll(queues, AheadOf(c))
    <3>1. Alike(DoOp(old, o), DoOp(rem, o))
      BY <1>2, <1>5, DoOpAlike
    <3>2. DoOp(rem, o) = RemoveAll(rem, {n})
      BY <2>0, <2>2 DEF DoOp, DirectoryRemove
    <3>3. Alike(RemoveAll(rem, {n}), RemoveAll(queues, AheadOf(c) \cup {n}))
      BY RemoveSeen DEF Alike
    <3> HIDE DEF rem
    <3> QED BY <1>6, <3>1, <3>2, <3>3, AlikeEquivalence
  <2>6. CASE th[c].ops = {o}
    <3>1. queues' = RemoveAll(queues, ns) /\ th'[c].pc # "pushing"
      BY <1>1, <2>1, <2>6
    <3>2. AheadOf(c) \cup {n} = ns
      BY <2>0, <2>2, <2>3, <2>6
    <3>3. Alike(new, RemoveAll(queues', {}))
      BY <2>5, <3>1, <3>2, RemoveNone, AlikeEquivalence
    <3>4. AheadOf(c)' = {}
      BY <3>1 DEF AheadOf
    <3>5. Synced'
      BY <1>2, <1>4, <3>3, <3>4 DEF Synced, new
    <3>6. Writers'
      BY <1>3, <3>1 DEF Writers
    <3> QED BY <2>4, <3>5, <3>6
  <2>7. CASE th[c].ops # {o}
    <3>1. /\ UNCHANGED queues
          /\ th'[c] = Thread("pushing", th[c].session, th[c].rq, th[c].ops \ {o}, th[c].newq)
      BY <1>1, <2>7
    <3>2. /\ th'[c].pc = "pushing" /\ th'[c].rq = th[c].rq /\ th'[c].ops = th[c].ops \ {o}
          /\ th'[c].newq = th[c].newq
      BY <3>1 DEF Thread
    <3>3. AheadOf(c)' = {m \in ns : \A x \in th[c].ops \ {o} : x.name # m}
      BY <1>9, <3>2 DEF AheadOf, ns
    <3>4. \A x \in th[c].ops : x.name = n <=> x = o
      BY <2>0, <2>1, <2>2
    <3>5. AheadOf(c)' = AheadOf(c) \cup {n}
      BY <2>2, <2>3, <3>3, <3>4
    <3>6. Synced'
      BY <1>2, <1>4, <2>5, <3>1, <3>5 DEF Synced, new
    <3>7. Writes(c)'
      BY <1>9, <2>1, <3>1, <3>2 DEF Writes, ns
    <3>8. Writers'
      BY <1>3, <3>7 DEF Writers
    <3> QED BY <2>4, <3>6, <3>8
  <2> QED BY <2>6, <2>7
<1> QED BY <1>8, <1>9

-----------------------------------------------------------------------------
(* A switch that stops comes back with the queues it had *)

\* The inductive invariant.
SyncInv == WakeInv /\ Asked /\ Exclusive /\ Writers /\ Readable /\ Synced

\* It holds at first, when there is nothing.
LEMMA SyncInitial ==
  ASSUME Persistent
  PROVE  Init => SyncInv
<1> SUFFICES ASSUME Init PROVE SyncInv
  OBVIOUS
<1>1. WakeInv /\ Asked /\ Exclusive
  BY StoreInvInitial DEF StoreInv
<1>2. /\ status = "down" /\ journal = <<>> /\ flush = FlushIdle
      /\ \A c \in Conn : th[c] = Parked("new")
  BY DEF Init
<1>3. flush.pc = "idle" /\ \A c \in Conn : th[c].pc # "pushing"
  BY <1>2 DEF FlushIdle, FlushState, Parked, Thread
<1>4. Valid(dump, journal)
  BY <1>2 DEF Valid
<1>5. Writers /\ Readable /\ Synced
  BY <1>2, <1>3, <1>4 DEF Writers, Readable, Synced
<1> QED BY <1>1, <1>5 DEF SyncInv

\* The steps that are no client's keep the files in step.
LEMMA OthersSync ==
  ASSUME Inv, Inv', Quiet, Persistent, Writers, Readable, Synced,
         UNCHANGED vars \/ Flush \/ Start \/ Replayed \/ Crash
  PROVE  Writers' /\ Readable' /\ Synced'
<1>1. Readable' /\ Alike(Replay(dump, journal), Replay(dump', journal'))
  BY OthersRead
<1>2. CASE UNCHANGED vars \/ Flush
  <2>1. UNCHANGED <<status, queues, th>>
    BY <1>2 DEF vars, Flush, FlushBegin, FlushApply, FlushSave, FlushAdvance
  <2>2. Forgone' = Forgone
    BY <2>1 DEF Forgone, AheadOf
  <2>3. Writers'
    BY <2>1 DEF Writers, Writes
  <2>4. Synced'
    BY <1>1, <2>1, <2>2, AlikeEquivalence DEF Synced
  <2> QED BY <1>1, <2>3, <2>4
<1>3. CASE Start
  <2>1. status' = "replay" /\ UNCHANGED <<queues, th>>
    BY <1>3 DEF Start
  <2>2. Writers' /\ Synced'
    BY <2>1 DEF Writers, Writes, Synced
  <2> QED BY <1>1, <2>2
<1>4. CASE Replayed
  <2>1. status # "up" /\ status # "down" /\ journal = <<>> /\ queues' = onDisk
        /\ UNCHANGED <<th, dump, journal>>
    BY <1>4 DEF Replayed, diskVars
  <2>2. \A c \in Conn : th'[c].pc # "pushing"
    BY <2>1 DEF Quiet
  <2>3. Forgone' = {}
    BY <2>2 DEF Forgone, AheadOf
  <2>4. Replay(dump, journal) = dump
    <3>1. journal \in Seq(Operation) /\ Len(journal) = 0
      BY <2>1
    <3>2. /\ Stages(dump, journal)[0] = dump
          /\ Replay(dump, journal) = Stages(dump, journal)[Len(journal)]
      BY <3>1, StagesAre
    <3> QED BY <3>1, <3>2
  <2>5. Alike(dump, queues')
    BY <2>1, AlikeEquivalence DEF Readable
  <2>6. Alike(queues', RemoveAll(queues', {}))
    BY RemoveNone, AlikeEquivalence
  <2>7. Alike(Replay(dump', journal'), RemoveAll(queues', Forgone'))
    BY <2>1, <2>3, <2>4, <2>5, <2>6, AlikeEquivalence
  <2> QED BY <1>1, <2>2, <2>7 DEF Writers, Synced
<1>5. CASE Crash
  <2>1. status' = "down" /\ \A c \in Conn : th'[c].pc \in {"closed", "new"}
    BY <1>5, CrashThreads, Places DEF Crash
  <2> QED BY <1>1, <2>1 DEF Writers, Synced
<1> QED BY <1>2, <1>3, <1>4, <1>5

\* It is inductive.
LEMMA SyncInductive ==
  ASSUME NoTrace, Persistent, ~PushMayFail, SyncInv, [Next]_vars
  PROVE  SyncInv'
<1>1. /\ Inv /\ Quiet /\ Asked /\ Exclusive /\ Writers /\ Readable /\ Synced
      /\ WakeInv' /\ Inv'
  BY WakeInductive DEF SyncInv, WakeInv
<1>2. Asked' /\ Exclusive'
  BY <1>1, AskedStep, ExclusiveStep
<1>3. Writers' /\ Readable' /\ Synced'
  BY <1>1, NoPushReads, PushReads, OthersSync, OtherSteps
<1> QED BY <1>1, <1>2, <1>3 DEF SyncInv

\* What the files say is what a client is told.
LEMMA SyncedInSync ==
  ASSUME Inv, Synced
  PROVE  InSync
<1> SUFFICES ASSUME status = "up"
             PROVE  Contents(Recovered) = Contents(RemoveAll(queues, Forgone))
  BY DEF InSync, Up, Forgone
<1>1. /\ journal \in Seq(Operation) /\ Good(dump) /\ Good(queues)
      /\ Good(LoadQueues(dump))
  BY LoadGood DEF Inv, Shared, Disk
<1>2. Good(Recovered) /\ Good(RemoveAll(queues, Forgone))
  BY <1>1, StagesGood, RemoveGood DEF Recovered
<1>3. Alike(Recovered, Replay(dump, journal))
  BY <1>1, LoadAlike, ValidAlike DEF Recovered
<1>4. Alike(Recovered, RemoveAll(queues, Forgone))
  BY <1>3, AlikeEquivalence DEF Synced
<1> QED BY <1>2, <1>4, AlikeContents

\* "everything should be in sync" (the comment on the end of playback in
\* switch_main.ml), and at every moment after it: what the files say, the dump
\* with the redo-log replayed on it, is what the switch would tell its clients.
\* A crash may come between any two steps of the consumer, even when the dump
\* already has operations that the redo-log still has: replaying them a second
\* time changes nothing.  No push may fail, since a clean-up that fails half-way
\* has removed queues in the redo-log that stay in memory; and no client
\* traces, since a Trace that times out lets two handlers into the critical
\* section.
THEOREM FilesInSync ==
  ASSUME NoTrace, Persistent, ~PushMayFail
  PROVE  Spec => []InSync
<1>1. Init => SyncInv
  BY SyncInitial
<1>2. SyncInv /\ [Next]_vars => SyncInv'
  BY SyncInductive
<1>3. SyncInv => InSync
  BY SyncedInSync DEF SyncInv, WakeInv
<1> QED BY <1>1, <1>2, <1>3, PTL DEF Spec
=============================================================================
