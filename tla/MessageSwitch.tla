----------------------------- MODULE MessageSwitch -----------------------------
(***************************************************************************)
(* The message switch daemon (message-switch/switch: mswitch.ml,           *)
(* switch_main.ml, traceext.ml).  It is a single Lwt process: a handler    *)
(* runs until it waits, so an action below is the code between two waits.  *)
(* A handler waits                                                         *)
(*   - in a Transfer, until the queue directory changes or it times out;   *)
(*   - for the one global mutex, granted in FIFO order;                    *)
(*   - in a Trace, on a condition that releases the mutex meanwhile;       *)
(*   - for each push to the redo-log, holding the mutex;                   *)
(*   - in a Get, for the file it reads, holding the mutex.                 *)
(* Each connection has one handler at a time; when a session's last        *)
(* connection closes, the connection's thread becomes the clean-up thread  *)
(* that removes the queues the session owns.                               *)
(***************************************************************************)
EXTENDS SwitchQueues, Sequences

CONSTANTS
    Conn,          \* connection identifiers; one is never used twice
    Session,       \* session tokens
    Name,          \* queue names
    Msg,           \* messages
    Request,       \* [Conn -> SUBSET requests]: what each client asks for
    Persistent,    \* TRUE iff the switch runs with a statedir (redo-log)
    PushMayFail,   \* TRUE iff a push to the redo-log may return an error
    MayCrash,      \* TRUE iff the process may stop and be started again
    MaxId,         \* bound: identifiers given out in one queue
    JournalSize,   \* bound: operations the redo-log has room for
    MaxCrash       \* bound: number of crashes

ASSUME SwitchAssumption ==
    /\ None \notin Session
    /\ MaxId \in Nat /\ JournalSize \in Nat \ {0} /\ MaxCrash \in Nat
    /\ {Persistent, PushMayFail, MayCrash} \subseteq BOOLEAN
    /\ Request \in [Conn -> SUBSET
          (   [type : {"Login"}, session : Session]
         \cup [type : {"CreatePersistent", "CreateTransient", "Destroy"}, name : Name]
         \cup [type : {"Send"}, name : Name, msg : Msg]
         \cup [type : {"Transfer"}, names : SUBSET Name]
         \cup [type : {"Ack", "Trace", "Query", "Get"}])]

VARIABLES
    status,      \* of the process: "down", "replay" (reading the redo-log), "up"
    queues,      \* the in-memory queue directory
    sessions,    \* Connections.t, a relation between connections and sessions
    locked,      \* Switch_main_helper.m: is it locked,
    waiters,     \*   and who waits for it, in order
    th,          \* per connection: its handler or clean-up thread
    cursor,      \* per client: the `from' of its next Transfer
    seen,        \* per client: the messages transferred to it
    dump,        \* the queues file on disk
    journal,     \* the redo-log on disk: operations not yet in the dump
    onDisk,      \* on_disk_queues, what the dump is believed to hold
    flush,       \* the redo-log's consumer
    crashes,     \* how often the process stopped
    promised     \* per session: the transient queues it was told it has

diskVars   == <<dump, journal, onDisk, flush>>
clientVars == <<cursor, seen>>
vars == <<status, queues, sessions, locked, waiters, th, cursor, seen,
          dump, journal, onDisk, flush, crashes, promised>>

-----------------------------------------------------------------------------
(* Threads *)

NoRequest == [type |-> "None"]

\* pc: "new"      the connection is not open yet
\*     "idle"     open, no request being handled
\*     "waiting"  in a Transfer, on the condition queues_c
\*     "woken"    in a Transfer, the condition was broadcast
\*     "locking"  in the mutex's queue
\*     "granted"  the mutex was handed over, the handler has not resumed
\*     "pushing"  holds the mutex, ops are to be pushed to the redo-log
\*     "reading"  in a Get, holds the mutex, a file is being read
\*     "tracing"  in a Trace, waiting for an event, the mutex released
\*     "traced"   in a Trace, an event came, the mutex is wanted back
\*     "relock"   in a Trace, in the mutex's queue again
\*     "regain"   in a Trace, the mutex was handed over
\*     "closed"   the connection is closed and cleaned up after
PC == {"new", "idle", "waiting", "woken", "locking", "granted", "pushing",
       "reading", "tracing", "traced", "relock", "regain", "closed"}

Thread(pc, s, rq, ops, newq) ==
    [pc |-> pc, session |-> s, rq |-> rq, ops |-> ops, newq |-> newq]

At(t, pc) == Thread(pc, t.session, t.rq, t.ops, t.newq)

Parked(pc) == Thread(pc, None, NoRequest, {}, EmptyQueues)

\* The session of a connection.  A connection may log in more than once, and
\* then any of its sessions is chosen.
SessionsOf(c) == {s \in Session : <<c, s>> \in sessions}

GetSession(c) == IF SessionsOf(c) = {} THEN None
                 ELSE CHOOSE s \in Session : s \in SessionsOf(c)

IsSessionActive(s, ss) == \E c \in Conn : <<c, s>> \in ss

\* Mutant: nobody is told.
BroadcastToNone(t) == t

\* Lwt_condition.broadcast queues_c: every blocked Transfer will look again.
Broadcast(t) ==
    [d \in Conn |-> IF t[d].pc = "waiting" THEN At(t[d], "woken")
                    ELSE t[d]]

\* Traceext.add: every blocked Trace has something to report.
TraceAdd(t) ==
    [d \in Conn |-> IF t[d].pc = "tracing" THEN At(t[d], "traced")
                    ELSE t[d]]

\* Lwt_mutex.unlock: hand the mutex to the first waiter, or release it.  A
\* waiter whose Trace has timed out (bg) is past caring.
HandOver(t, w) ==
    IF w = <<>> \/ Head(w).bg THEN t
    ELSE [t EXCEPT ![Head(w).conn] =
                At(@, IF @.pc = "locking" THEN "granted" ELSE "regain")]

Unlock(w) ==
    /\ locked' = (w # <<>>)
    /\ waiters' = IF w = <<>> THEN <<>> ELSE Tail(w)

\* The queue of the mutex once a waiter in it is cancelled.
Without(w, x) ==
    LET i == CHOOSE i \in DOMAIN w : w[i] = x
    IN  [j \in 1 .. Len(w) - 1 |-> IF j < i THEN w[j] ELSE w[j + 1]]

\* What a session has been told since it last became active: a
\* CreateTransient that finds or makes the session's queue promises it, a
\* Destroy takes the promise back.
PromisedAfter(s, rq, qs) ==
    CASE rq.type = "Login" /\ ~IsSessionActive(rq.session, sessions)
            -> [promised EXCEPT ![rq.session] = {}]
      [] s # None /\ rq.type = "CreateTransient"
                  /\ Exists(qs, rq.name) /\ qs.queues[rq.name].owner = s
            -> [promised EXCEPT ![s] = @ \cup {rq.name}]
      [] s # None /\ rq.type = "Destroy"
            -> [x \in Session |-> promised[x] \ {rq.name}]
      [] OTHER -> promised

\* The end of `perform' and of the critical section: publish the directory,
\* wake the blocked Transfers, release the mutex, answer.
Finish(c, s, rq, t, qs) ==
    /\ queues' = qs
    /\ th' = HandOver(Broadcast([t EXCEPT ![c] =
                          Parked(IF rq.type = "Cleanup" THEN "closed" ELSE "idle")]),
                      waiters)
    /\ Unlock(waiters)
    /\ promised' = PromisedAfter(s, rq, qs)

-----------------------------------------------------------------------------
(* The critical section: process_request, then perform on its operations *)

\* Mutant: the mutex is released before the pushes.
PerformUnlocked(c, s, rq, t, qs, ops, newq) ==
    \/ /\ ops = {} \/ ~Persistent
       /\ Finish(c, s, rq, t, newq)
    \/ /\ ops # {} /\ Persistent
       /\ queues' = qs
       /\ th' = HandOver([t EXCEPT ![c] = Thread("pushing", s, rq, ops, newq)], waiters)
       /\ Unlock(waiters)
       /\ UNCHANGED promised

\* Without a redo-log there is nothing to wait for; with one, the new
\* directory is kept aside until every operation is pushed.
Perform(c, s, rq, t, qs, ops, newq) ==
    \/ /\ ops = {} \/ ~Persistent
       /\ Finish(c, s, rq, t, newq)
    \/ /\ ops # {} /\ Persistent
       /\ queues' = qs
       /\ th' = [t EXCEPT ![c] = Thread("pushing", s, rq, ops, newq)]
       /\ locked' = TRUE
       /\ UNCHANGED <<waiters, promised>>

\* A request that changes no queue: performing no operation still broadcasts.
PerformNothing(c, s, rq, t) == Perform(c, s, rq, t, queues, {}, queues)

DoLogin(c, s, rq) ==
    /\ rq.type = "Login"
    /\ sessions' = sessions \cup {<<c, rq.session>>}
    /\ PerformNothing(c, s, rq, th)
    /\ UNCHANGED clientVars

\* List, Diagnostics, Shutdown's answer, and Not_logged_in.
DoQuery(c, s, rq) ==
    /\ \/ rq.type = "Query"
       \/ s = None /\ rq.type \notin {"Login", "Trace", "Get", "Cleanup"}
    /\ PerformNothing(c, None, rq, th)
    /\ UNCHANGED <<sessions, cursor, seen>>

\* A file is read in the critical section.
DoGet(c, s, rq) ==
    /\ rq.type = "Get"
    /\ th' = [th EXCEPT ![c] = Thread("reading", s, rq, {}, EmptyQueues)]
    /\ locked' = TRUE
    /\ UNCHANGED <<queues, sessions, waiters, cursor, seen, promised>>

DoCreate(c, s, rq) ==
    /\ s # None /\ rq.type \in {"CreatePersistent", "CreateTransient"}
    /\ LET op == OpAdd(IF rq.type = "CreateTransient" THEN s ELSE None, rq.name)
       IN  Perform(c, s, rq, th, queues, {op}, DoOp(queues, op))
    /\ UNCHANGED <<sessions, cursor, seen>>

DoDestroy(c, s, rq) ==
    /\ s # None /\ rq.type = "Destroy"
    /\ LET op == OpRemove(rq.name)
       IN  Perform(c, s, rq, th, queues, {op}, DoOp(queues, op))
    /\ UNCHANGED <<sessions, cursor, seen>>

DoAck(c, s, rq) ==
    /\ s # None /\ rq.type = "Ack"
    /\ LET op == OpAck(rq.name, rq.id)
       IN  Perform(c, s, rq, TraceAdd(th), queues, {op}, DoOp(queues, op))
    /\ UNCHANGED <<sessions, cursor, seen>>

\* Mutant: a connection that has not logged in may send.
DoSendAnonymous(c, s, rq) ==
    /\ rq.type = "Send"
    /\ IF Exists(queues, rq.name)
       THEN LET op == OpSend(s, rq.name, queues.queues[rq.name].next_id, rq.msg)
                qs == TakeNextId(queues, rq.name)
            IN  Perform(c, s, rq, TraceAdd(th), qs, {op}, DoOp(qs, op))
       ELSE PerformNothing(c, s, rq, th)
    /\ UNCHANGED <<sessions, cursor, seen>>

\* The identifier is taken at once, in place; the message follows the push.
DoSend(c, s, rq) ==
    /\ s # None /\ rq.type = "Send"
    /\ IF Exists(queues, rq.name)
       THEN LET op == OpSend(s, rq.name, queues.queues[rq.name].next_id, rq.msg)
                qs == TakeNextId(queues, rq.name)
            IN  Perform(c, s, rq, TraceAdd(th), qs, {op}, DoOp(qs, op))
       ELSE PerformNothing(c, s, rq, th)
    /\ UNCHANGED <<sessions, cursor, seen>>

DoTransfer(c, s, rq) ==
    /\ s # None /\ rq.type = "Transfer"
    /\ LET ids == TransferMessages(queues, cursor[c], rq.names)
       IN  /\ PerformNothing(c, s, rq, IF ids = {} THEN th ELSE TraceAdd(th))
           /\ cursor' = [cursor EXCEPT ![c] = TransferNext(@, ids)]
           /\ seen' = [seen EXCEPT ![c] = @ \cup ids]
    /\ UNCHANGED sessions

\* Events newer than the client's may be there already; if not, the condition
\* variable releases the mutex while the Trace waits for one.
DoTrace(c, s, rq) ==
    /\ rq.type = "Trace"
    /\ \/ PerformNothing(c, s, rq, th)
       \/ /\ th' = HandOver([th EXCEPT ![c] =
                                Thread("tracing", s, rq, {}, EmptyQueues)], waiters)
          /\ Unlock(waiters)
          /\ UNCHANGED <<queues, promised>>
    /\ UNCHANGED <<sessions, cursor, seen>>

DoCleanup(c, s, rq) ==
    /\ rq.type = "Cleanup"
    /\ Perform(c, s, rq, th, queues, {OpRemove(n) : n \in rq.names},
               RemoveAll(queues, rq.names))
    /\ UNCHANGED <<cursor, seen>>

Handle(c, s, rq) ==
    \/ DoLogin(c, s, rq)    \/ DoQuery(c, s, rq)   \/ DoCreate(c, s, rq)
    \/ DoDestroy(c, s, rq)  \/ DoAck(c, s, rq)     \/ DoSend(c, s, rq)
    \/ DoTransfer(c, s, rq) \/ DoTrace(c, s, rq)   \/ DoGet(c, s, rq)

\* Mutant: the last to come is the first to be served.
EnqueueFirst(c, s, rq) ==
    /\ locked
    /\ th' = [th EXCEPT ![c] = Thread("locking", s, rq, {}, EmptyQueues)]
    /\ waiters' = <<[conn |-> c, bg |-> FALSE]>> \o waiters
    /\ UNCHANGED <<queues, locked, cursor, seen, promised>>

\* Lwt_mutex.lock: enter at once, or join the queue.
Enqueue(c, s, rq) ==
    /\ locked
    /\ th' = [th EXCEPT ![c] = Thread("locking", s, rq, {}, EmptyQueues)]
    /\ waiters' = Append(waiters, [conn |-> c, bg |-> FALSE])
    /\ UNCHANGED <<queues, locked, cursor, seen, promised>>

LockAndHandle(c, s, rq) ==
    \/ Enqueue(c, s, rq) /\ UNCHANGED sessions
    \/ ~locked /\ Handle(c, s, rq)

-----------------------------------------------------------------------------
(* Connections and requests *)

Up == status = "up"

Connect(c) ==
    /\ Up /\ th[c].pc = "new"
    /\ th' = [th EXCEPT ![c] = Parked("idle")]
    /\ UNCHANGED <<status, queues, sessions, locked, waiters, cursor, seen,
                   diskVars, crashes, promised>>

\* What a client may ask for now: it acknowledges messages it has received,
\* and identifiers stay below MaxId.
Askable(c) ==
    {rq \in Request[c] :
        /\ rq.type # "Ack"
        /\ rq.type = "Send" => Find(queues, rq.name).next_id
             + Cardinality({d \in Conn : th[d].rq.type = "Send"}) < MaxId}
    \cup {[type |-> "Ack", name |-> m[1], id |-> m[2]] :
             m \in IF \E rq \in Request[c] : rq.type = "Ack" THEN seen[c] ELSE {}}

\* `callback': read the request and the connection's session; a Transfer that
\* finds nothing blocks before it asks for the mutex.
Arrive(c, rq) ==
    /\ Up /\ th[c].pc = "idle"
    /\ LET s == GetSession(c)
       IN  IF /\ s # None /\ rq.type = "Transfer"
              /\ TransferMessages(queues, cursor[c], rq.names) = {}
           THEN /\ th' = [th EXCEPT ![c] = Thread("waiting", s, rq, {}, EmptyQueues)]
                /\ UNCHANGED <<queues, sessions, locked, waiters, cursor, seen, promised>>
           ELSE LockAndHandle(c, s, rq)
    /\ UNCHANGED <<status, diskVars, crashes>>

\* After a broadcast: look again, and block again if there is still nothing.
Wake(c) ==
    /\ Up /\ th[c].pc = "woken"
    /\ IF TransferMessages(queues, cursor[c], th[c].rq.names) = {}
       THEN /\ th' = [th EXCEPT ![c] = At(@, "waiting")]
            /\ UNCHANGED <<queues, sessions, locked, waiters, cursor, seen, promised>>
       ELSE LockAndHandle(c, th[c].session, th[c].rq)
    /\ UNCHANGED <<status, diskVars, crashes>>

\* Mutant: a Transfer waits until there is something to transfer.
TransferTimeoutNever(c) ==
    /\ Up /\ th[c].pc \in {"waiting", "woken"}
    /\ TransferMessages(queues, cursor[c], th[c].rq.names) # {}
    /\ LockAndHandle(c, th[c].session, th[c].rq)
    /\ UNCHANGED <<status, diskVars, crashes>>

\* The Transfer's time is up.
TransferTimeout(c) ==
    /\ Up /\ th[c].pc \in {"waiting", "woken"}
    /\ LockAndHandle(c, th[c].session, th[c].rq)
    /\ UNCHANGED <<status, diskVars, crashes>>

\* The mutex was handed over: the handler, or the clean-up, goes on.
Resume(c) ==
    /\ Up /\ th[c].pc = "granted"
    /\ \/ Handle(c, th[c].session, th[c].rq)
       \/ DoCleanup(c, th[c].session, th[c].rq) /\ UNCHANGED sessions
    /\ UNCHANGED <<status, diskVars, crashes>>

\* One push to the redo-log; after the last, the handler runs to its end.
Push(c, op) ==
    /\ Up /\ th[c].pc = "pushing" /\ op \in th[c].ops
    /\ Len(journal) < JournalSize
    /\ journal' = Append(journal, op)
    /\ IF th[c].ops = {op}
       THEN Finish(c, th[c].session, th[c].rq, th, th[c].newq)
       ELSE /\ th' = [th EXCEPT ![c] = Thread(@.pc, @.session, @.rq, @.ops \ {op}, @.newq)]
            /\ UNCHANGED <<queues, locked, waiters, promised>>
    /\ UNCHANGED <<status, sessions, cursor, seen, dump, onDisk, flush, crashes>>

\* An exception leaves the critical section: the mutex is released, the
\* directory stays as it was, the request is answered with an error.
Abandon(c) ==
    /\ th' = HandOver([th EXCEPT ![c] =
                 Parked(IF th[c].rq.type = "Cleanup" THEN "closed" ELSE "idle")], waiters)
    /\ Unlock(waiters)
    /\ UNCHANGED <<queues, promised>>

\* A push that fails raises.
PushFail(c) ==
    /\ Up /\ PushMayFail /\ th[c].pc = "pushing"
    /\ Abandon(c)
    /\ UNCHANGED <<status, sessions, cursor, seen, diskVars, crashes>>

\* The file was read, or could not be: an error releases the mutex and wakes
\* nobody.
Read(c) ==
    /\ Up /\ th[c].pc = "reading"
    /\ \/ PerformNothing(c, th[c].session, th[c].rq, th)
       \/ Abandon(c)
    /\ UNCHANGED <<status, sessions, cursor, seen, diskVars, crashes>>

\* An event was added: the blocked Trace asks for the mutex again,
TraceRelock(c) ==
    /\ Up /\ th[c].pc = "traced"
    /\ \/ /\ locked
          /\ th' = [th EXCEPT ![c] = At(@, "relock")]
          /\ waiters' = Append(waiters, [conn |-> c, bg |-> FALSE])
          /\ UNCHANGED <<queues, sessions, locked, cursor, seen, promised>>
       \/ ~locked /\ DoTrace(c, th[c].session, th[c].rq)
    /\ UNCHANGED <<status, diskVars, crashes>>

\* and looks again when it has it.
TraceResume(c) ==
    /\ Up /\ th[c].pc = "regain"
    /\ DoTrace(c, th[c].session, th[c].rq)
    /\ UNCHANGED <<status, diskVars, crashes>>

\* Lwt.pick cancels the wait when the Trace's time is up.  A cancelled
\* Lwt_condition.wait locks the mutex in the background, a cancelled
\* Lwt_mutex.lock leaves the queue; in both cases the Trace goes on at once,
\* answers, and unlocks.
TraceTimeout(c) ==
    /\ Up /\ th[c].pc \in {"tracing", "relock"}
    /\ LET w == CASE th[c].pc = "relock" ->
                       Without(waiters, [conn |-> c, bg |-> FALSE])
                  [] th[c].pc = "tracing" /\ locked ->
                       Append(waiters, [conn |-> c, bg |-> TRUE])
                  [] OTHER -> waiters
       IN  /\ th' = HandOver(Broadcast([th EXCEPT ![c] = Parked("idle")]), w)
           /\ Unlock(w)
    /\ UNCHANGED <<status, queues, sessions, cursor, seen, diskVars, crashes, promised>>

\* Mutant: the connection counts as one of the session's until it is gone.
CloseLate(c) ==
    /\ Up /\ th[c].pc = "idle"
    /\ sessions' = {p \in sessions : p[1] # c}
    /\ LET s  == GetSession(c)
           rq == [type |-> "Cleanup", names |-> OwnedQueues(queues, s)]
       IN  IF s = None \/ IsSessionActive(s, sessions)
           THEN /\ th' = [th EXCEPT ![c] = Parked("closed")]
                /\ UNCHANGED <<queues, locked, waiters, cursor, seen, promised>>
           ELSE \/ Enqueue(c, s, rq)
                \/ ~locked /\ DoCleanup(c, s, rq)
    /\ UNCHANGED <<status, diskVars, crashes>>

\* conn_closed: the queues to remove are read now, the mutex is taken later.
Close(c) ==
    /\ Up /\ th[c].pc = "idle"
    /\ LET s    == GetSession(c)
           left == {p \in sessions : p[1] # c}
           rq   == [type |-> "Cleanup", names |-> OwnedQueues(queues, s)]
       IN  /\ sessions' = left
           /\ IF s = None \/ IsSessionActive(s, left)
              THEN /\ th' = [th EXCEPT ![c] = Parked("closed")]
                   /\ UNCHANGED <<queues, locked, waiters, cursor, seen, promised>>
              ELSE \/ Enqueue(c, s, rq)
                   \/ ~locked /\ DoCleanup(c, s, rq)
    /\ UNCHANGED <<status, diskVars, crashes>>

-----------------------------------------------------------------------------
(* The redo-log, the dump, and the life of the process *)

FlushState(pc, acc, todo, size) ==
    [pc |-> pc, acc |-> acc, todo |-> todo, size |-> size]

FlushIdle == FlushState("idle", EmptyQueues, <<>>, 0)

Running == status \in {"replay", "up"}

\* Mutant: the consumer forgets what it takes before it is saved.
FlushBeginForgets ==
    /\ Running /\ flush.pc = "idle" /\ journal # <<>>
    /\ flush' = FlushState("apply", onDisk, journal, 0)
    /\ journal' = <<>>
    /\ UNCHANGED <<status, queues, sessions, locked, waiters, th, cursor, seen,
                   dump, onDisk, crashes, promised>>

\* The redo-log's consumer takes everything that is in the log,
FlushBegin ==
    /\ Running /\ flush.pc = "idle" /\ journal # <<>>
    /\ flush' = FlushState("apply", onDisk, journal, Len(journal))
    /\ UNCHANGED <<status, queues, sessions, locked, waiters, th, cursor, seen,
                   dump, journal, onDisk, crashes, promised>>

\* process_redo_log applies it, operation by operation,
FlushApply ==
    /\ Running /\ flush.pc = "apply" /\ flush.todo # <<>>
    /\ flush' = FlushState("apply", DoOp(flush.acc, Head(flush.todo)),
                           Tail(flush.todo), flush.size)
    /\ UNCHANGED <<status, queues, sessions, locked, waiters, th, cursor, seen,
                   dump, journal, onDisk, crashes, promised>>

\* saves the result by renaming a complete file over the dump,
FlushSave ==
    /\ Running /\ flush.pc = "apply" /\ flush.todo = <<>>
    /\ dump' = flush.acc
    /\ onDisk' = flush.acc
    /\ flush' = FlushState("saved", flush.acc, <<>>, flush.size)
    /\ UNCHANGED <<status, queues, sessions, locked, waiters, th, cursor, seen,
                   journal, crashes, promised>>

\* and the consumer forgets what it took.
FlushAdvance ==
    /\ Running /\ flush.pc = "saved"
    /\ journal' = SubSeq(journal, flush.size + 1, Len(journal))
    /\ flush' = FlushIdle
    /\ UNCHANGED <<status, queues, sessions, locked, waiters, th, cursor, seen,
                   dump, onDisk, crashes, promised>>

\* Start the process.  With a statedir the dump is loaded and the redo-log
\* replayed before any request is looked at.
Start ==
    /\ status = "down"
    /\ status' = IF Persistent THEN "replay" ELSE "up"
    /\ onDisk' = IF Persistent THEN LoadQueues(dump) ELSE onDisk
    /\ UNCHANGED <<queues, sessions, locked, waiters, th, cursor, seen,
                   dump, journal, flush, crashes, promised>>

\* Playback complete: `everything should be in sync'.
Replayed ==
    /\ status = "replay" /\ flush.pc = "idle" /\ journal = <<>>
    /\ status' = "up"
    /\ queues' = onDisk
    /\ UNCHANGED <<sessions, locked, waiters, th, cursor, seen, diskVars,
                   crashes, promised>>

\* The process stops, by a crash or by Shutdown's exit: memory is gone, every
\* connection is closed, the files stay.
Crash ==
    /\ MayCrash /\ status # "down" /\ crashes < MaxCrash
    /\ status' = "down"
    /\ queues' = EmptyQueues
    /\ sessions' = {}
    /\ locked' = FALSE
    /\ waiters' = <<>>
    /\ th' = [c \in Conn |-> IF th[c].pc = "new" THEN th[c] ELSE Parked("closed")]
    /\ onDisk' = EmptyQueues
    /\ flush' = FlushIdle
    /\ crashes' = crashes + 1
    /\ promised' = [s \in Session |-> {}]
    /\ UNCHANGED <<cursor, seen, dump, journal>>

-----------------------------------------------------------------------------

Init ==
    /\ status = "down"
    /\ queues = EmptyQueues
    /\ sessions = {}
    /\ locked = FALSE
    /\ waiters = <<>>
    /\ th = [c \in Conn |-> Parked("new")]
    /\ cursor = [c \in Conn |-> -1]
    /\ seen = [c \in Conn |-> {}]
    /\ dump = EmptyQueues
    /\ journal = <<>>
    /\ onDisk = EmptyQueues
    /\ flush = FlushIdle
    /\ crashes = 0
    /\ promised = [s \in Session |-> {}]

\* What a connection's thread does by itself, given time.
ThreadStep(c) ==
    \/ Wake(c)
    \/ Resume(c)
    \/ Read(c)
    \/ TraceRelock(c)
    \/ TraceResume(c)

PushStep(c) == \E op \in th[c].ops : Push(c, op)

Flush == FlushBegin \/ FlushApply \/ FlushSave \/ FlushAdvance

Next ==
    \/ \E c \in Conn :
          \/ Connect(c)
          \/ \E rq \in Askable(c) : Arrive(c, rq)
          \/ ThreadStep(c)
          \/ PushStep(c)
          \/ TransferTimeout(c)
          \/ TraceTimeout(c)
          \/ PushFail(c)
          \/ Close(c)
    \/ Flush
    \/ Start
    \/ Replayed
    \/ Crash

Spec == Init /\ [][Next]_vars

\* Lwt runs every runnable thread, the redo-log's consumer runs, and timers
\* fire: one that has expired stays so, hence a Trace that is woken again and
\* again still times out.  The redo-log takes pushes in turn.
FairSpec ==
    /\ Spec
    /\ \A c \in Conn : /\ WF_vars(ThreadStep(c))
                       /\ SF_vars(PushStep(c))
                       /\ WF_vars(TransferTimeout(c))
                       /\ SF_vars(TraceTimeout(c))
    /\ WF_vars(Flush)
    /\ WF_vars(Start)
    /\ WF_vars(Replayed)

-----------------------------------------------------------------------------
(* Properties *)

\* What a thread may be handling: a client's request, an Ack of a message, a
\* clean-up, or nothing.
AnyRequest ==
         [type : {"Login"}, session : Session]
    \cup [type : {"CreatePersistent", "CreateTransient", "Destroy"}, name : Name]
    \cup [type : {"Send"}, name : Name, msg : Msg]
    \cup [type : {"Transfer", "Cleanup"}, names : SUBSET Name]
    \cup [type : {"Ack"}, name : Name, id : Nat]
    \cup [type : {"None", "Trace", "Query", "Get"}]

Operation ==
         [op : {"Add"}, owner : Session \cup {None}, name : Name]
    \cup [op : {"Remove"}, name : Name]
    \cup [op : {"Ack"}, name : Name, id : Nat]
    \cup [op : {"Send"}, origin : Session, name : Name, id : Nat, msg : Msg]

IsMap(f, D) == DOMAIN f \subseteq D /\ f = [x \in DOMAIN f |-> f[x]]

QueueOK(x) ==
    /\ x = Queue(x.q, x.owner, x.next_id)
    /\ IsMap(x.q, Nat)
    /\ \A i \in DOMAIN x.q : x.q[i] \in [origin : Session, message : Msg]
    /\ x.owner \in Session \cup {None}
    /\ x.next_id \in Nat

DirectoryOK(qs) ==
    /\ qs = [queues |-> qs.queues, by_owner |-> qs.by_owner]
    /\ IsMap(qs.queues, Name) /\ IsMap(qs.by_owner, Session)
    /\ \A n \in DOMAIN qs.queues : QueueOK(qs.queues[n])
    /\ \A o \in DOMAIN qs.by_owner : qs.by_owner[o] \subseteq Name

ThreadOK(t) ==
    /\ t = Thread(t.pc, t.session, t.rq, t.ops, t.newq)
    /\ t.pc \in PC
    /\ t.session \in Session \cup {None}
    /\ t.rq \in AnyRequest
    /\ t.ops \subseteq Operation
    /\ DirectoryOK(t.newq)

FlushOK(f) ==
    /\ f = FlushState(f.pc, f.acc, f.todo, f.size)
    /\ f.pc \in {"idle", "apply", "saved"}
    /\ DirectoryOK(f.acc)
    /\ f.todo \in Seq(Operation)
    /\ f.size \in Nat

\* Every variable has its type.
TypeOK ==
    /\ status \in {"down", "replay", "up"}
    /\ DirectoryOK(queues)
    /\ sessions \subseteq Conn \X Session
    /\ locked \in BOOLEAN
    /\ waiters \in Seq([conn : Conn, bg : BOOLEAN])
    /\ IsMap(th, Conn) /\ DOMAIN th = Conn /\ \A c \in Conn : ThreadOK(th[c])
    /\ DOMAIN cursor = Conn
    /\ seen \in [Conn -> SUBSET (Name \X Nat)]
    /\ DirectoryOK(dump) /\ DirectoryOK(onDisk)
    /\ journal \in Seq(Operation)
    /\ FlushOK(flush)
    /\ crashes \in Nat
    /\ promised \in [Session -> SUBSET Name]

\* In every copy of the directory (in memory, being performed, on disk, being
\* flushed) the owner index agrees with the queues' owners, so that
\* Directory.remove's lookup of the owner cannot fail and a session's end
\* finds all its queues.
IndexAgrees ==
    \A qs \in {queues, dump, onDisk, flush.acc} \cup {th[c].newq : c \in Conn} :
        IndexConsistent(qs)

\* No lost wake-up: a Transfer never stays blocked on the condition while a
\* message it asks for is in the directory.
NoLostWakeup ==
    \A c \in Conn : th[c].pc = "waiting" =>
        TransferMessages(queues, cursor[c], th[c].rq.names) = {}

\* A client that polls one queue and passes back the cursor it is given is
\* sent every message: nothing at or below its cursor is left unseen.
NothingSkipped ==
    \A c \in Conn, rq \in {[type |-> "Transfer", names |-> {n}] : n \in Name} :
        rq \in Request[c] =>
            \A n \in rq.names : \A id \in DOMAIN Find(queues, n).q :
                id <= cursor[c] => <<n, id>> \in seen[c]

\* A transient queue a session was told it has exists as long as the session
\* is active: the clean-up after an earlier incarnation of the session never
\* takes it away.
SessionKeepsQueues ==
    \A s \in Session : IsSessionActive(s, sessions) =>
        \A n \in promised[s] : Exists(queues, n) /\ queues.queues[n].owner = s

\* "When the last socket is closed resources associated with the client are
\* deallocated": a session with no connection and no clean-up under way owns
\* no queue.
SessionDeallocated ==
    status = "up" => \A s \in Session :
        \/ IsSessionActive(s, sessions)
        \/ \E c \in Conn : th[c].rq.type = "Cleanup" /\ th[c].session = s
        \/ OwnedQueues(queues, s) = {}

\* What a redo-log makes of a directory, operation by operation.
Replay(qs, ops) ==
    LET after[i \in 0 .. Len(ops)] ==
            IF i = 0 THEN qs ELSE DoOp(after[i - 1], ops[i])
    IN  after[Len(ops)]

\* What the queues would be were the process to stop here and start again.
Recovered == Replay(LoadQueues(dump), journal)

\* A clean-up that has pushed some of its operations is ahead by those.
AheadOf(c) ==
    IF th[c].pc = "pushing" /\ th[c].rq.type = "Cleanup"
    THEN {n \in th[c].rq.names : \A o \in th[c].ops : o.name # n}
    ELSE {}

\* "everything should be in sync": what the files say, read back as `load' and
\* the replay of the redo-log read them, is what is in memory.
InSync ==
    Up => Contents(Recovered) =
              Contents(RemoveAll(queues, UNION {AheadOf(c) : c \in Conn}))

\* Every request is answered, whatever it waits for.
Answered ==
    \A c \in Conn : (th[c].pc \notin {"new", "idle", "closed"}) ~>
                    (th[c].pc \in {"idle", "closed"})

\* The switch as a store of mailboxes.
Store == INSTANCE QueueStore WITH
    Entry <- [origin : Session, message : Msg],
    box   <- [n \in DOMAIN queues.queues |-> queues.queues[n].q],
    next  <- [n \in DOMAIN queues.queues |-> queues.queues[n].next_id]

\* Whatever the handlers' interleaving, the directory changes as if the
\* requests were performed one at a time: the critical section is atomic
\* although it waits for the redo-log, and a failed push leaves no trace but
\* an unused identifier.
ImplementsStore == Store!Spec
=============================================================================
