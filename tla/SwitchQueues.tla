----------------------------- MODULE SwitchQueues -----------------------------
(***************************************************************************)
(* The queue directory of the message switch (message-switch/switch/q.ml): *)
(* named queues of messages, each either persistent or owned by a session, *)
(* and the operations on them as pure functions.  A string map is a        *)
(* function with a finite domain.  Entry times, the queue's own copy of    *)
(* its name and the `length' counter (read only by the unused _measure)    *)
(* are left out.                                                           *)
(***************************************************************************)
EXTENDS Integers, FiniteSets

CONSTANT None                     \* OCaml's None: no owner, no session

-----------------------------------------------------------------------------
(* Maps *)

EmptyMap == [x \in {} |-> x]

MapAdd(f, k, v) ==
    [x \in DOMAIN f \cup {k} |-> IF x = k THEN v ELSE f[x]]

MapRemove(f, S) == [x \in DOMAIN f \ S |-> f[x]]

-----------------------------------------------------------------------------
(* One queue, and the directory of queues *)

\* A fresh queue; next_id is the waiter's mutable counter.
Queue(q, owner, next_id) == [q |-> q, owner |-> owner, next_id |-> next_id]

Make(owner) == Queue(EmptyMap, owner, 0)

EmptyQueues == [queues |-> EmptyMap, by_owner |-> EmptyMap]

Exists(qs, name) == name \in DOMAIN qs.queues

Find(qs, name) == IF Exists(qs, name) THEN qs.queues[name] ELSE Make(None)

OwnedQueues(qs, owner) ==
    IF owner \in DOMAIN qs.by_owner THEN qs.by_owner[owner] ELSE {}

\* Creating a queue that exists is a no-op, whoever owns it.
DirectoryAdd(qs, owner, name) ==
    IF Exists(qs, name) THEN qs
    ELSE [queues   |-> MapAdd(qs.queues, name, Make(owner)),
          by_owner |-> IF owner = None THEN qs.by_owner
                       ELSE MapAdd(qs.by_owner, owner,
                                   OwnedQueues(qs, owner) \cup {name})]

\* Remove a set of queues, one Remove after another: each leaves its owner's
\* set in the index, and a set that becomes empty leaves the index.
RemoveAll(qs, names) ==
    LET left(o) == {n \in qs.by_owner[o] :
                       ~(n \in names /\ Exists(qs, n) /\ qs.queues[n].owner = o)}
    IN  [queues   |-> MapRemove(qs.queues, names),
         by_owner |-> [o \in {x \in DOMAIN qs.by_owner : left(x) # {}} |-> left(o)]]

\* Mutant: the queue goes, its owner keeps it in the index.
DirectoryRemoveKeepIndex(qs, name) ==
    [queues |-> MapRemove(qs.queues, {name}), by_owner |-> qs.by_owner]

DirectoryRemove(qs, name) == RemoveAll(qs, {name})

\* {queues with queues = StringMap.add name q' queues.queues}
WithQueue(qs, name, x) ==
    [queues |-> MapAdd(qs.queues, name, x), by_owner |-> qs.by_owner]

InternalAck(qs, name, id) ==
    IF Exists(qs, name) /\ id \in DOMAIN qs.queues[name].q
    THEN LET x == qs.queues[name]
         IN  WithQueue(qs, name, Queue(MapRemove(x.q, {id}), x.owner, x.next_id))
    ELSE qs

\* A message for a queue that does not exist is dropped.
InternalSend(qs, origin, name, id, msg) ==
    IF Exists(qs, name)
    THEN LET x == qs.queues[name]
             e == [origin |-> origin, message |-> msg]
         IN  WithQueue(qs, name, Queue(MapAdd(x.q, id, e), x.owner, x.next_id))
    ELSE qs

\* get_next_id increments the counter in place, before the Send is performed.
TakeNextId(qs, name) ==
    LET x == qs.queues[name]
    IN  WithQueue(qs, name, Queue(x.q, x.owner, x.next_id + 1))

-----------------------------------------------------------------------------
(* The operations that are persisted *)

OpAdd(owner, name)             == [op |-> "Add", owner |-> owner, name |-> name]
OpRemove(name)                 == [op |-> "Remove", name |-> name]
OpAck(name, id)                == [op |-> "Ack", name |-> name, id |-> id]
OpSend(origin, name, id, msg)  == [op |-> "Send", origin |-> origin,
                                   name |-> name, id |-> id, msg |-> msg]

DoOp(qs, o) ==
    CASE o.op = "Add"    -> DirectoryAdd(qs, o.owner, o.name)
      [] o.op = "Remove" -> DirectoryRemove(qs, o.name)
      [] o.op = "Ack"    -> InternalAck(qs, o.name, o.id)
      [] o.op = "Send"   -> InternalSend(qs, o.origin, o.name, o.id, o.msg)

-----------------------------------------------------------------------------
(* Reading *)

\* The messages of the named queues with an identifier above `from'.
TransferMessages(qs, from, names) ==
    UNION {{<<n, id>> : id \in {i \in DOMAIN Find(qs, n).q : i > from}} :
              n \in names}

\* Mutant: the cursor is the first identifier not transferred.
TransferNextAhead(from, ids) ==
    IF ids = {} THEN from
    ELSE 1 + CHOOSE m \in {x[2] : x \in ids} : \A x \in ids : x[2] <= m

\* The cursor handed back: the largest identifier transferred.
TransferNext(from, ids) ==
    IF ids = {} THEN from
    ELSE CHOOSE m \in {x[2] : x \in ids} : \A x \in ids : x[2] <= m

\* Loading a dump recomputes next_id from the highest identifier stored in
\* each queue (t_of_sexp).
HighestId(ids) == IF ids = {} THEN -1
                  ELSE CHOOSE i \in ids : \A j \in ids : j <= i

LoadQueues(qs) ==
    [queues   |-> [n \in DOMAIN qs.queues |->
                      LET x == qs.queues[n]
                      IN  Queue(x.q, x.owner, 1 + HighestId(DOMAIN x.q))],
     by_owner |-> qs.by_owner]

\* What a client can tell of a directory: its queues, their owners and their
\* messages, without the counters.
Contents(qs) ==
    [n \in DOMAIN qs.queues |-> [q     |-> qs.queues[n].q,
                                 owner |-> qs.queues[n].owner]]

\* The owner index and the queues' owners describe the same relation, and no
\* owner is listed without a queue: what Directory.remove relies on when it
\* looks its owner up without a guard.
IndexConsistent(qs) ==
    /\ \A o \in DOMAIN qs.by_owner : qs.by_owner[o] # {}
    /\ \A o \in DOMAIN qs.by_owner : \A n \in qs.by_owner[o] :
          Exists(qs, n) /\ qs.queues[n].owner = o
    /\ \A n \in DOMAIN qs.queues :
          qs.queues[n].owner # None => n \in OwnedQueues(qs, qs.queues[n].owner)
=============================================================================
