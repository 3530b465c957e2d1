------------------------------- MODULE SwitchRpc -------------------------------
(***************************************************************************)
(* Remote procedure calls over the message switch                          *)
(* (message-switch/unix/protocol_unix.ml): one client process whose        *)
(* threads call Client.rpc, its event thread that polls the client's reply *)
(* queue, and a service that runs Server.listen on its own queue and       *)
(* starts a thread for every request.  Each call to the switch is atomic   *)
(* (QueueStore, which MessageSwitch implements).  The service may crash    *)
(* and be started again; the switch, run without a statedir, may stop and  *)
(* come back empty, and every connection to it breaks.                     *)
(***************************************************************************)
EXTENDS SwitchQueues, Sequences

CONSTANTS
    Rpc,             \* the calls, each made by a thread of its own
    Timed,           \* the calls made with a timeout
    Svc, Reply,      \* the queues of the service and of the client's replies
    Client,          \* the client's session
    MaxFaults        \* bound: crashes of the service and restarts of the switch

ASSUME RpcAssumption ==
    /\ Timed \subseteq Rpc
    /\ Svc # Reply /\ Client # None /\ None \notin Rpc
    /\ MaxFaults \in Nat

VARIABLES
    queues,       \* the switch's directory
    clientUp,     \* the client's connections work
    requestsM,    \* requests_m: the call that holds it, or None
    wakener,      \* request identifier -> the calls waiting for its reply,
                  \*   newest first (Hashtbl.add shadows)
    call,         \* per call: pc, the request's identifier, its Ivar, whether
                  \*   its timer has fired, what it returns
    events,       \* the event thread: its cursor, and the transfer in hand
    server,       \* the service: running, its connections work, its cursor
    workers,      \* the service's threads, one for each request received
    processed,    \* per call: how often the service processed its request
    crashes, restarts

vars == <<queues, clientUp, requestsM, wakener, call, events, server, workers,
          processed, crashes, restarts>>

-----------------------------------------------------------------------------

Request(r)       == [kind |-> "Request", call |-> r]
Response(j, r)   == [kind |-> "Response", to |-> j, answer |-> r]

\* Send as the switch performs it on an existing queue.
Sent(qs, origin, name, msg) ==
    InternalSend(TakeNextId(qs, name), origin, name, qs.queues[name].next_id, msg)

\* The messages of one queue above a cursor.
Above(name, from) == {id \in DOMAIN Find(queues, name).q : id > from}

Largest(S) == CHOOSE i \in S : \A j \in S : j <= i

\* pc of a call:
\*     "start"     before the mutex
\*     "create"    holds the mutex, CreatePersistent is next
\*     "send"      holds the mutex, Send is next
\*     "register"  holds the mutex, the Send was performed
\*     "read"      blocked on the Ivar
\*     "release"   a reply was read, the wakener is still there
\*     "done"      returned

\* An Ivar is empty (None), or holds a reply or an error.
IvarReply(r) == [ok |-> TRUE, answer |-> r]
IvarTimeout  == [ok |-> FALSE, error |-> "Timeout"]
IvarDeleted  == [ok |-> FALSE, error |-> "Queue_deleted"]

ASSUME IvarAssumption ==
    IvarTimeout # None /\ IvarDeleted # None /\ \A r \in Rpc : IvarReply(r) # None

clientVars == <<clientUp, requestsM, wakener, call, events>>
serverVars == <<server, workers, processed, crashes>>

-----------------------------------------------------------------------------
(* Client.rpc *)

RpcLock(r) ==
    /\ call[r].pc = "start" /\ requestsM = None
    /\ requestsM' = r
    /\ call' = [call EXCEPT ![r].pc = "create"]
    /\ UNCHANGED <<queues, clientUp, wakener, events, serverVars, restarts>>

\* A communication error: release the mutex, wait, start over.  The switch
\* may have performed the Send and stopped before its answer arrived.
RpcRetry(r) ==
    /\ call[r].pc \in {"create", "send", "register"} /\ ~clientUp
    /\ requestsM' = None
    /\ call' = [call EXCEPT ![r].pc = "start"]
    /\ UNCHANGED <<queues, clientUp, wakener, events, serverVars, restarts>>

RpcCreate(r) ==
    /\ call[r].pc = "create" /\ clientUp
    /\ queues' = DirectoryAdd(queues, None, Svc)
    /\ call' = [call EXCEPT ![r].pc = "send"]
    /\ UNCHANGED <<clientUp, requestsM, wakener, events, serverVars, restarts>>

RpcSend(r) ==
    /\ call[r].pc = "send" /\ clientUp /\ Exists(queues, Svc)
    /\ queues' = Sent(queues, Client, Svc, Request(r))
    /\ call' = [call EXCEPT ![r].pc = "register",
                            ![r].id = queues.queues[Svc].next_id]
    /\ UNCHANGED <<clientUp, requestsM, wakener, events, serverVars, restarts>>

\* The queue has gone since it was created: the call fails (Queue_deleted).
RpcDeleted(r) ==
    /\ call[r].pc = "send" /\ clientUp /\ ~Exists(queues, Svc)
    /\ requestsM' = None
    /\ call' = [call EXCEPT ![r].pc = "done", ![r].result = IvarDeleted]
    /\ UNCHANGED <<queues, clientUp, wakener, events, serverVars, restarts>>

RpcRegister(r) ==
    /\ call[r].pc = "register"
    /\ LET j == call[r].id
           w == IF j \in DOMAIN wakener THEN wakener[j] ELSE <<>>
       IN  wakener' = MapAdd(wakener, j, <<r>> \o w)
    /\ requestsM' = None
    /\ call' = [call EXCEPT ![r].pc = "read"]
    /\ UNCHANGED <<queues, clientUp, events, serverVars, restarts>>

\* The timer fills the Ivar with an error, whatever the call is doing.
RpcTimeout(r) ==
    /\ r \in Timed /\ call[r].pc # "done" /\ ~call[r].fired
    /\ call' = [call EXCEPT ![r].ivar = IvarTimeout, ![r].fired = TRUE]
    /\ UNCHANGED <<queues, clientUp, requestsM, wakener, events, serverVars, restarts>>

\* Hashtbl.remove: the newest binding goes, an older one shows again.
Forget(w, j) ==
    IF j \notin DOMAIN w THEN w
    ELSE IF Len(w[j]) = 1 THEN MapRemove(w, {j})
    ELSE MapAdd(w, j, Tail(w[j]))

\* Ivar.read returns: with an error the call is over, and its wakener stays.
RpcRead(r) ==
    /\ call[r].pc = "read" /\ call[r].ivar # None
    /\ call' = [call EXCEPT ![r].result = call[r].ivar,
                            ![r].pc = IF call[r].ivar.ok THEN "release" ELSE "done"]
    /\ UNCHANGED <<queues, clientUp, requestsM, wakener, events, serverVars, restarts>>

\* With a reply the timer is cancelled and the wakener removed, under the
\* mutex.
RpcReturn(r) ==
    /\ call[r].pc = "release" /\ requestsM = None
    /\ wakener' = Forget(wakener, call[r].id)
    /\ call' = [call EXCEPT ![r].pc = "done"]
    /\ UNCHANGED <<queues, clientUp, requestsM, events, serverVars, restarts>>

-----------------------------------------------------------------------------
(* The client's event thread *)

\* A Transfer that returns messages; one that returns none starts over.
EventPoll ==
    /\ clientUp /\ events.batch = {} /\ Above(Reply, events.from) # {}
    /\ LET ids == Above(Reply, events.from)
       IN  events' = [events EXCEPT
                        !.batch = {[id |-> i, msg |-> queues.queues[Reply].q[i].message] :
                                      i \in ids},
                        !.next = Largest(ids)]
    /\ UNCHANGED <<queues, clientUp, requestsM, wakener, call, serverVars, restarts>>

\* The messages of a transfer come newest first.
NextEvent == CHOOSE e \in events.batch : \A d \in events.batch : d.id <= e.id

\* One message done: after the last, the cursor moves.
EventDone ==
    LET rest == events.batch \ {NextEvent}
    IN  events' = [events EXCEPT !.batch = rest,
                                 !.from = IF rest = {} THEN events.next ELSE @]

\* Mutant: the mutex is not asked for.
EventHandleUnlocked ==
    /\ events.batch # {} /\ clientUp
    /\ LET j == NextEvent.msg.to
       IN  IF j \in DOMAIN wakener
           THEN /\ queues' = InternalAck(queues, Reply, NextEvent.id)
                /\ call' = [call EXCEPT ![Head(wakener[j])].ivar =
                                            IvarReply(NextEvent.msg.answer)]
           ELSE UNCHANGED <<queues, call>>
    /\ EventDone
    /\ UNCHANGED <<clientUp, requestsM, wakener, serverVars, restarts>>

\* Mutant: the answer is the one of the last message of the transfer.
EventHandleLast ==
    LET end == CHOOSE e \in events.batch : \A d \in events.batch : e.id <= d.id
    IN  /\ events.batch # {} /\ requestsM = None /\ clientUp
        /\ NextEvent.msg.to \in DOMAIN wakener
        /\ queues' = InternalAck(queues, Reply, NextEvent.id)
        /\ call' = [call EXCEPT ![Head(wakener[NextEvent.msg.to])].ivar =
                                    IvarReply(end.msg.answer)]
        /\ EventDone
        /\ UNCHANGED <<clientUp, requestsM, wakener, serverVars, restarts>>

\* Under the mutex: acknowledge the reply and fill its call's Ivar; a reply
\* nobody waits for is passed over, and not acknowledged.
EventHandle ==
    /\ events.batch # {} /\ requestsM = None
    /\ LET j == NextEvent.msg.to
       IN  \/ /\ j \notin DOMAIN wakener
              /\ EventDone
              /\ UNCHANGED <<queues, call>>
           \/ /\ j \in DOMAIN wakener /\ clientUp
              /\ queues' = InternalAck(queues, Reply, NextEvent.id)
              /\ call' = [call EXCEPT ![Head(wakener[j])].ivar =
                                          IvarReply(NextEvent.msg.answer)]
              /\ EventDone
           \* the Ack fails: drop the rest, and the cursor stays
           \/ /\ j \in DOMAIN wakener /\ ~clientUp
              /\ events' = [events EXCEPT !.batch = {}]
              /\ UNCHANGED <<queues, call>>
    /\ UNCHANGED <<clientUp, requestsM, wakener, serverVars, restarts>>

\* New connections, both logged in; the reply queue is not created again.  The
\* cursor is kept, unless an exception has started the loop again.
EventReconnect ==
    /\ ~clientUp /\ events.batch = {}
    /\ clientUp' = TRUE
    /\ \E from \in {events.from, -1} : events' = [events EXCEPT !.from = from]
    /\ UNCHANGED <<queues, requestsM, wakener, call, serverVars, restarts>>

-----------------------------------------------------------------------------
(* Server.listen *)

\* Mutant: a service that starts is only interested in new requests.
ServerStartAtEnd ==
    /\ ~server.running
    /\ server' = [running |-> TRUE, up |-> TRUE,
                  from |-> Find(queues, Svc).next_id - 1]
    /\ queues' = DirectoryAdd(queues, None, Svc)
    /\ UNCHANGED <<clientVars, workers, processed, crashes, restarts>>

ServerStart ==
    /\ ~server.running
    /\ server' = [running |-> TRUE, up |-> TRUE, from |-> -1]
    /\ queues' = DirectoryAdd(queues, None, Svc)
    /\ UNCHANGED <<clientVars, workers, processed, crashes, restarts>>

\* Mutant: the cursor stays.
ServerPollAgain ==
    /\ server.running /\ server.up /\ Above(Svc, server.from) # {}
    /\ workers' = workers \cup
           {[id |-> i, call |-> queues.queues[Svc].q[i].message.call,
             pc |-> "process", epoch |-> restarts] : i \in Above(Svc, server.from)}
    /\ UNCHANGED <<queues, clientVars, server, processed, crashes, restarts>>

\* A thread for every message, and the cursor moves at once.  A thread keeps
\* the connection of its time.
ServerPoll ==
    /\ server.running /\ server.up /\ Above(Svc, server.from) # {}
    /\ LET ids == Above(Svc, server.from)
       IN  /\ workers' = workers \cup
                 {[id |-> i, call |-> queues.queues[Svc].q[i].message.call,
                   pc |-> "process", epoch |-> restarts] : i \in ids}
           /\ server' = [server EXCEPT !.from = Largest(ids)]
    /\ UNCHANGED <<queues, clientVars, processed, crashes, restarts>>

\* New connections; the queue is not created again, and the cursor is kept,
\* unless an exception has started the loop again.
ServerReconnect ==
    /\ server.running /\ ~server.up
    /\ \E from \in {server.from, -1} : server' = [server EXCEPT !.up = TRUE, !.from = from]
    /\ UNCHANGED <<queues, clientVars, workers, processed, crashes, restarts>>

Advance(w, pc) == workers' = (workers \ {w}) \cup {[w EXCEPT !.pc = pc]}

\* The worker's connection still works.
Linked(w) == server.up /\ w.epoch = restarts

WorkerProcess(w) ==
    /\ w.pc = "process"
    /\ processed' = [processed EXCEPT ![w.call] = @ + 1]
    /\ Advance(w, "reply")
    /\ UNCHANGED <<queues, clientVars, server, crashes, restarts>>

\* The reply is sent, and dropped if its queue does not exist; an error is
\* ignored.
WorkerReply(w) ==
    /\ w.pc = "reply"
    /\ queues' = IF Linked(w) /\ Exists(queues, Reply)
                 THEN Sent(queues, Svc, Reply, Response(w.id, w.call))
                 ELSE queues
    /\ Advance(w, "ack")
    /\ UNCHANGED <<clientVars, server, processed, crashes, restarts>>

\* Mutant: the request is never acknowledged.
WorkerAckNever(w) ==
    /\ w.pc = "ack"
    /\ workers' = workers \ {w}
    /\ UNCHANGED <<queues, clientVars, server, processed, crashes, restarts>>

WorkerAck(w) ==
    /\ w.pc = "ack"
    /\ queues' = IF Linked(w) THEN InternalAck(queues, Svc, w.id) ELSE queues
    /\ workers' = workers \ {w}
    /\ UNCHANGED <<clientVars, server, processed, crashes, restarts>>

ServerCrash ==
    /\ server.running /\ crashes + restarts < MaxFaults
    /\ crashes' = crashes + 1
    /\ server' = [running |-> FALSE, up |-> FALSE, from |-> -1]
    /\ workers' = {}
    /\ UNCHANGED <<queues, clientVars, processed, restarts>>

-----------------------------------------------------------------------------
(* The switch stops and is started again, without its queues. *)

SwitchRestart ==
    /\ crashes + restarts < MaxFaults
    /\ restarts' = restarts + 1
    /\ queues' = EmptyQueues
    /\ clientUp' = FALSE
    /\ server' = [server EXCEPT !.up = FALSE]
    /\ UNCHANGED <<requestsM, wakener, call, events, workers, processed, crashes>>

-----------------------------------------------------------------------------

\* The client has connected and created its reply queue; the service has not
\* been started yet.
Init ==
    /\ queues = DirectoryAdd(EmptyQueues, Client, Reply)
    /\ clientUp = TRUE
    /\ requestsM = None
    /\ wakener = EmptyMap
    /\ call = [r \in Rpc |-> [pc |-> "start", id |-> -1, ivar |-> None,
                              fired |-> FALSE, result |-> None]]
    /\ events = [from |-> -1, batch |-> {}, next |-> -1]
    /\ server = [running |-> FALSE, up |-> FALSE, from |-> -1]
    /\ workers = {}
    /\ processed = [r \in Rpc |-> 0]
    /\ crashes = 0
    /\ restarts = 0

RpcStep(r) ==
    \/ RpcLock(r)     \/ RpcRetry(r)  \/ RpcCreate(r) \/ RpcSend(r)
    \/ RpcDeleted(r)  \/ RpcRegister(r) \/ RpcRead(r) \/ RpcReturn(r)

EventStep == EventPoll \/ EventHandle \/ EventReconnect

ServerStep == ServerStart \/ ServerPoll \/ ServerReconnect

WorkerStep(w) == WorkerProcess(w) \/ WorkerReply(w) \/ WorkerAck(w)

Next ==
    \/ \E r \in Rpc : RpcStep(r) \/ RpcTimeout(r)
    \/ EventStep
    \/ ServerStep
    \/ \E w \in workers : WorkerStep(w)
    \/ ServerCrash
    \/ SwitchRestart

Spec == Init /\ [][Next]_vars

\* Threads run, blocking polls return, the service is started again after a
\* crash.  requests_m is taken again and again only by a call that failed and
\* then sleeps for five seconds, so that everyone else gets it: strong
\* fairness for those who want it.
FairSpec ==
    /\ Spec
    /\ \A r \in Rpc : SF_vars(RpcStep(r))
    /\ SF_vars(EventStep)
    /\ WF_vars(ServerStep)
    /\ WF_vars(\E w \in workers : WorkerStep(w))

-----------------------------------------------------------------------------
(* Properties *)

SvcMessages   == Find(queues, Svc).q
ReplyMessages == Find(queues, Reply).q

\* A call that returns a reply returns the reply to its own request, however
\* many calls share the two queues and whatever has been restarted.
Correlated ==
    \A r \in Rpc : call[r].result # None /\ call[r].result.ok
        => call[r].result.answer = r

Pending(r) == call[r].pc \in {"register", "read"} /\ call[r].ivar = None

\* A reply does not overtake the registration of its call: no reply is passed
\* over as nobody's while its call is waiting for it.
NoReplyPassedOver ==
    \A r \in Rpc : Pending(r) =>
        \A i \in DOMAIN ReplyMessages :
            ReplyMessages[i].message.to = call[r].id =>
                i > events.from /\ (i <= events.next /\ events.batch # {} =>
                                      \E e \in events.batch : e.id = i)

\* A request is processed more than once only if the service has crashed
\* since, or the switch has, whose lost answer makes the client send again.
ProcessedOnce == \A r \in Rpc : processed[r] <= 1 + crashes + restarts

\* "If any client or server process restarts then the transient failures will
\* be hidden by the switch": every call returns, unless the switch itself is
\* restarted, which may lose the request or the reply.
Returns ==
    \A r \in Rpc : (call[r].pc = "start") ~> (call[r].pc = "done" \/ restarts > 0)

\* Unless the service crashes or the switch is restarted, every message is acknowledged in the end and
\* nothing piles up in the switch, not even for calls that timed out.
Drained ==
    (\A r \in Rpc : call[r].pc = "done") ~>
        (crashes > 0 \/ restarts > 0 \/ (DOMAIN SvcMessages = {} /\ DOMAIN ReplyMessages = {}))
=============================================================================
