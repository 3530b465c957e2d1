---------------------------- MODULE MCMessageSwitch ----------------------------
(***************************************************************************)
(* Instances of MessageSwitch for TLC.  Each gives every connection the    *)
(* requests one kind of client sends, the way Client and Server of         *)
(* message-switch/unix/protocol_unix.ml do.                                *)
(***************************************************************************)
EXTENDS MessageSwitch, TLC

CONSTANTS c1, c2, c3, s1, s2, q, r, m

Login(s)             == [type |-> "Login", session |-> s]
CreatePersistent(n)  == [type |-> "CreatePersistent", name |-> n]
CreateTransient(n)   == [type |-> "CreateTransient", name |-> n]
Destroy(n)           == [type |-> "Destroy", name |-> n]
Send(n)              == [type |-> "Send", name |-> n, msg |-> m]
Transfer(ns)         == [type |-> "Transfer", names |-> ns]
Simple(t)            == [type |-> t]

\* A service that polls queue q, a client with two connections, one to send
\* and one to poll its reply queue r, to look around and to trace.
RpcRequests ==
    (c1 :> {Login(s1), CreatePersistent(q), Transfer({q}), Simple("Ack"), Send(r)})
 @@ (c2 :> {Login(s2), CreateTransient(r), Send(q)})
 @@ (c3 :> {Login(s2), Transfer({r}), Simple("Ack"), Simple("Query"), Simple("Get"), Simple("Trace")})

\* The same two connections of one client and a third that comes later with
\* the same session, as after a reconnection.
ReconnectRequests ==
    (c1 :> {Login(s1), CreateTransient(r)})
 @@ (c2 :> {Login(s2), CreatePersistent(q), Send(q)})
 @@ (c3 :> {Login(s1), CreateTransient(r)})

\* Two senders on one queue, one of which reads it and the other destroys it.
SendersRequests ==
    (c1 :> {Login(s1), CreatePersistent(q), Send(q), Destroy(q)})
 @@ (c2 :> {Login(s2), Send(q), Transfer({q}), Simple("Ack")})
=============================================================================
