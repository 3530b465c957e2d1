-------------------------- MODULE NbdManagerProofs --------------------------
(***************************************************************************)
(* The safety of nbd_client_manager.py for any number of clients, devices, *)
(* retries, uses and killed processes.                                     *)
(***************************************************************************)
EXTENDS NbdManager, TLAPS

Connecting == {"lock"} \cup InConnect

(* A connect in its locked section is the holder of LOCK_FILE. *)
LockHeld == \A c \in Clients : pc[c] \in InConnect => lock = c

(* A connect that is under way has a try left. *)
TryLeft == \A c \in Clients : pc[c] \in Connecting => retries[c] < MaxRetries

TypeInv == TypeOK /\ LockHeld /\ TryLeft

(* From nbd-client's attach to its detach the device is the client's. *)
Using == {"waitUp", "persist", "tune", "held", "check", "forget", "detach"}

(* A disconnect has been started by a client whose disconnect has failed. *)
EndsCounted ==
    \A c \in Clients : pc[c] \in InDisconnect \cup {"broken"} => ends[c] >= 1

DeviceUsed ==
    \A c \in Clients : pc[c] \in Using =>
        /\ owner[dev[c]] = c
        /\ \/ kern[dev[c]] = "connected"
           \/ pc[c] = "waitUp" /\ kern[dev[c]] = "starting"

(* The file is there between persist and forget, and nowhere else. *)
InfoUsed ==
    /\ \A c \in Clients :
        /\ pc[c] \in {"tune", "held", "check", "forget"} => info[dev[c]] = c
        /\ pc[c] = "detach" => info[dev[c]] = None
    /\ \A d \in Devices : info[d] # None => owner[d] = info[d] /\ kern[d] = "connected"

UseInv == EndsCounted /\ DeviceUsed /\ InfoUsed

-----------------------------------------------------------------------------
\* The type invariant holds at first.
LEMMA InitTypeInv == Init => TypeInv
  BY NoneAssumption, BoundsAssumption
     DEF Init, TypeInv, TypeOK, LockHeld, TryLeft, Connecting, InConnect,
         InDisconnect, Devices

(* Leaving the locked section, by an exception or at its end. *)
LEMMA ReleaseTypeInv ==
  ASSUME TypeInv, NEW c \in Clients, ReleaseLock(c),
         pc' = [pc EXCEPT ![c] = "lock"] \/ pc' = [pc EXCEPT ![c] = "nothing"]
           \/ pc' = [pc EXCEPT ![c] = "held"] \/ pc' = [pc EXCEPT ![c] = "broken"]
  PROVE  lock' \in Clients \cup {None} /\ LockHeld'
  BY DEF TypeInv, TypeOK, LockHeld, ReleaseLock, InConnect, InDisconnect

\* A connect that tries again, or gives up, keeps it.
LEMMA RetryTypeInv ==
  ASSUME TypeInv, NEW c \in Clients, pc[c] \in Connecting,
         RetryConnect(c) \/ FailConnect(c),
         UNCHANGED <<dev, uses, ends, info, kills>>,
         kern' = kern, owner' = owner
  PROVE  TypeInv'
<1>1. lock' \in Clients \cup {None} /\ LockHeld'
  BY ReleaseTypeInv DEF RetryConnect, FailConnect, Goto
<1>2. CASE FailConnect(c)
  BY <1>1, <1>2
     DEF TypeInv, TypeOK, TryLeft, Connecting, InConnect, InDisconnect,
         FailConnect, Goto
<1>3. CASE RetryConnect(c)
  <2>1. retries[c] \in Nat /\ retries[c] < MaxRetries /\ MaxRetries \in Nat
    BY BoundsAssumption DEF TypeInv, TypeOK, TryLeft
  <2>2. retries[c] + 1 \in 0..MaxRetries
    BY <2>1
  <2>3. retries' = [retries EXCEPT ![c] = retries[c] + 1]
    BY <1>3 DEF RetryConnect
  <2>4. retries' \in [Clients -> 0..MaxRetries]
    BY <2>2, <2>3 DEF TypeInv, TypeOK
  <2>5. TypeOK'
    BY <1>1, <1>3, <2>4 DEF TypeInv, TypeOK, InConnect, InDisconnect, RetryConnect, Goto
  <2>6. TryLeft'
    BY <1>3, <2>3
       DEF TypeInv, TypeOK, TryLeft, Connecting, InConnect, RetryConnect, Goto
  <2> QED BY <1>1, <2>5, <2>6 DEF TypeInv
<1> QED BY <1>2, <1>3

\* The type invariant is inductive.
LEMMA NextTypeInv == TypeInv /\ [Next]_vars => TypeInv'
<1> SUFFICES ASSUME TypeInv, [Next]_vars PROVE TypeInv'
  OBVIOUS
<1> USE BoundsAssumption, NoneAssumption
<1>1. ASSUME NEW c \in Clients, ConnectStart(c) PROVE TypeInv'
  BY <1>1 DEF TypeInv, TypeOK, LockHeld, TryLeft, Connecting, InConnect,
              InDisconnect, Devices, ConnectStart, Goto
<1>2. ASSUME NEW c \in Clients, ConnectLock(c) PROVE TypeInv'
  BY <1>2 DEF TypeInv, TypeOK, LockHeld, TryLeft, Connecting, InConnect,
              InDisconnect, Devices, ConnectLock, AcquireLock, Goto
<1>3. ASSUME NEW c \in Clients, ConnectFind(c) PROVE TypeInv'
  <2>1. CASE (RetryConnect(c) \/ FailConnect(c)) /\ UNCHANGED dev
    BY <1>3, <2>1, RetryTypeInv DEF ConnectFind, Connecting, InConnect
  <2>2. CASE Goto(c, "attach") /\ UNCHANGED <<dev, retries, lock>>
    BY <1>3, <2>2
       DEF TypeInv, TypeOK, LockHeld, TryLeft, Connecting, InConnect,
           InDisconnect, Devices, ConnectFind, Goto
  <2>3. CASE /\ dev[c] + 1 \in Devices
             /\ dev' = [dev EXCEPT ![c] = @ + 1] /\ UNCHANGED <<pc, retries, lock>>
    BY <1>3, <2>3
       DEF TypeInv, TypeOK, LockHeld, TryLeft, Connecting, InConnect,
           InDisconnect, Devices, ConnectFind
  <2> QED BY <1>3, <2>1, <2>2, <2>3 DEF ConnectFind
<1>4. ASSUME NEW c \in Clients, ConnectAttach(c) PROVE TypeInv'
  <2>1. CASE (RetryConnect(c) \/ FailConnect(c)) /\ UNCHANGED <<kern, owner>>
    BY <1>4, <2>1, RetryTypeInv DEF ConnectAttach, Connecting, InConnect
  <2>2. CASE /\ kern' = [kern EXCEPT ![dev[c]] = "starting"]
             /\ owner' = [owner EXCEPT ![dev[c]] = c]
             /\ Goto(c, "waitUp") /\ UNCHANGED <<retries, lock>>
    BY <1>4, <2>2
       DEF TypeInv, TypeOK, LockHeld, TryLeft, Connecting, InConnect,
           InDisconnect, Devices, ConnectAttach, Goto
  <2> QED BY <1>4, <2>1, <2>2 DEF ConnectAttach
<1>5. ASSUME NEW c \in Clients, ConnectWait(c) PROVE TypeInv'
  <2>1. CASE FailConnect(c)
    BY <1>5, <2>1, RetryTypeInv DEF ConnectWait, Connecting, InConnect
  <2>2. CASE Goto(c, "persist") /\ UNCHANGED <<retries, lock>>
    BY <1>5, <2>2
       DEF TypeInv, TypeOK, LockHeld, TryLeft, Connecting, InConnect,
           InDisconnect, Devices, ConnectWait, Goto
  <2> QED BY <1>5, <2>1, <2>2 DEF ConnectWait
<1>6. ASSUME NEW c \in Clients, ConnectPersist(c) PROVE TypeInv'
  <2>1. CASE FailConnect(c) /\ UNCHANGED info
    BY <1>6, <2>1, RetryTypeInv DEF ConnectPersist, Connecting, InConnect
  <2>2. CASE /\ info' = [info EXCEPT ![dev[c]] = c]
             /\ Goto(c, "tune") /\ UNCHANGED <<retries, lock>>
    BY <1>6, <2>2
       DEF TypeInv, TypeOK, LockHeld, TryLeft, Connecting, InConnect,
           InDisconnect, Devices, ConnectPersist, Goto
  <2> QED BY <1>6, <2>1, <2>2 DEF ConnectPersist
<1>7. ASSUME NEW c \in Clients, ConnectTune(c) PROVE TypeInv'
  <2>1. CASE FailConnect(c)
    BY <1>7, <2>1, RetryTypeInv DEF ConnectTune, Connecting, InConnect
  <2>2. CASE ReleaseLock(c) /\ Goto(c, "held") /\ UNCHANGED retries
    <3>1. lock' \in Clients \cup {None} /\ LockHeld'
      BY <2>2, ReleaseTypeInv DEF Goto
    <3> QED
      BY <1>7, <2>2, <3>1 DEF TypeInv, TypeOK, TryLeft, Connecting, InConnect,
                              InDisconnect, Devices, ConnectTune, Goto
  <2> QED BY <1>7, <2>1, <2>2 DEF ConnectTune
<1>8. ASSUME NEW c \in Clients, DisconnectStart(c) PROVE TypeInv'
  BY <1>8 DEF TypeInv, TypeOK, LockHeld, TryLeft, Connecting, InConnect,
              InDisconnect, Devices, DisconnectStart, Goto
<1>9. ASSUME NEW c \in Clients, DisconnectStep(c) PROVE TypeInv'
  <2>1. CASE DisconnectCheck(c)
    BY <2>1 DEF TypeInv, TypeOK, LockHeld, TryLeft, Connecting, InConnect,
                InDisconnect, Devices, DisconnectCheck, Goto
  <2>2. CASE DisconnectForget(c)
    BY <2>2 DEF TypeInv, TypeOK, LockHeld, TryLeft, Connecting, InConnect,
                InDisconnect, Devices, DisconnectForget, Goto
  <2>3. CASE DisconnectDetach(c)
    BY <2>3 DEF TypeInv, TypeOK, LockHeld, TryLeft, Connecting, InConnect,
                InDisconnect, Devices, DisconnectDetach, Goto
  <2>4. CASE DisconnectWait(c)
    BY <2>4 DEF TypeInv, TypeOK, LockHeld, TryLeft, Connecting, InConnect,
                InDisconnect, Devices, DisconnectWait, Goto
  <2> QED BY <1>9, <2>1, <2>2, <2>3, <2>4 DEF DisconnectStep
<1>10. ASSUME NEW c \in Clients, Kill(c) PROVE TypeInv'
  <2>1. lock' \in Clients \cup {None} /\ LockHeld'
    BY <1>10, ReleaseTypeInv DEF Kill, Goto
  <2> QED
    BY <1>10, <2>1 DEF TypeInv, TypeOK, TryLeft, Connecting, InConnect,
                       InDisconnect, Devices, Kill, Goto
<1>11. ASSUME NEW d \in Devices, KernelUp(d) \/ KernelDown(d) PROVE TypeInv'
  BY <1>11 DEF TypeInv, TypeOK, LockHeld, TryLeft, Connecting, InConnect,
               InDisconnect, Devices, KernelUp, KernelDown, clientVars
<1>12. CASE UNCHANGED vars
  BY <1>12 DEF TypeInv, TypeOK, LockHeld, TryLeft, vars
<1> QED
  BY <1>1, <1>2, <1>3, <1>4, <1>5, <1>6, <1>7, <1>8, <1>9, <1>10, <1>11, <1>12
     DEF Next, ConnectStep

(* Every variable of the model keeps its type: a connect never counts more *)
(* tries than MAX_DEVICE_WAIT allows and the search of a free device never *)
(* leaves the devices of the module.                                       *)
THEOREM TypeCorrect == Spec => []TypeOK
<1>1. TypeInv => TypeOK
  BY DEF TypeInv
<1> QED BY <1>1, InitTypeInv, NextTypeInv, PTL DEF Spec

(* Two connects never set up the same device: they are in the locked       *)
(* section one at a time, whoever retries, fails or is killed.             *)
THEOREM ConnectsExclude == Spec => []NoClash
<1>1. TypeInv => NoClash
  BY DEF TypeInv, LockHeld, NoClash, InConnect
<1> QED BY <1>1, InitTypeInv, NextTypeInv, PTL DEF Spec

-----------------------------------------------------------------------------
(* With one disconnect per use, a disconnect that failed is not repeated.  *)
(* A second one could find the device in the hands of the next client.     *)
LEMMA InitUseInv == Init => UseInv
  BY NoneAssumption
     DEF Init, UseInv, EndsCounted, DeviceUsed, InfoUsed, Using, InDisconnect

(* Steps that change neither a device nor its file, and leave the client   *)
(* where the device is as much its own as before.                          *)
LEMMA QuietUseInv ==
  ASSUME TypeInv, UseInv, NEW c \in Clients,
         UNCHANGED <<kern, owner, info, ends>>,
         NEW label, pc' = [pc EXCEPT ![c] = label],
         \/ label = "broken" /\ pc[c] \in InDisconnect \cup {"broken"}
         \/ label \in {"lock", "find", "attach", "nothing"},
         \A e \in Clients \ {c} : dev'[e] = dev[e]
  PROVE  UseInv'
<1>1. EndsCounted'
  BY DEF TypeInv, TypeOK, UseInv, EndsCounted, InDisconnect
<1>2. \A e \in Clients : pc'[e] \in Using => e # c /\ pc'[e] = pc[e]
  BY DEF TypeInv, TypeOK, Using
<1>3. DeviceUsed'
  BY <1>2 DEF UseInv, DeviceUsed
<1>4. InfoUsed'
  BY <1>2 DEF UseInv, InfoUsed, Using
<1> QED BY <1>1, <1>3, <1>4 DEF UseInv

(* The device of a client that uses it is not that of any other such one. *)
LEMMA UsesApart ==
  ASSUME DeviceUsed, NEW c \in Clients, NEW e \in Clients,
         pc[c] \in Using, pc[e] \in Using, dev[c] = dev[e]
  PROVE  c = e
  BY DEF DeviceUsed

\* The invariant of use is inductive.
LEMMA NextUseInv ==
  ASSUME MaxDisconnects \in {0, 1}, TypeInv, TypeInv', UseInv, [Next]_vars
  PROVE  UseInv'
<1> USE BoundsAssumption, NoneAssumption
<1>1. ASSUME NEW c \in Clients, ConnectStart(c) PROVE UseInv'
  BY <1>1 DEF TypeInv, TypeOK, UseInv, EndsCounted, DeviceUsed, InfoUsed,
              Using, InDisconnect, ConnectStart, Goto
<1>2. ASSUME NEW c \in Clients, ConnectLock(c) PROVE UseInv'
  BY <1>2, QuietUseInv DEF ConnectLock, Goto, TypeInv, TypeOK
<1>3. ASSUME NEW c \in Clients, ConnectFind(c) PROVE UseInv'
  <2>1. UNCHANGED <<kern, owner, info, ends>> /\ pc[c] = "find"
    BY <1>3 DEF ConnectFind
  <2>2. \A e \in Clients \ {c} : dev'[e] = dev[e]
    BY <1>3 DEF ConnectFind, TypeInv, TypeOK
  <2>3. \E label \in {"lock", "find", "attach", "nothing"} :
           pc' = [pc EXCEPT ![c] = label]
    <3>1. CASE UNCHANGED pc
      BY <2>1, <3>1 DEF TypeInv, TypeOK
    <3>2. CASE ~UNCHANGED pc
      BY <1>3, <3>2 DEF ConnectFind, RetryConnect, FailConnect, Goto
    <3> QED BY <3>1, <3>2
  <2> QED BY <2>1, <2>2, <2>3, QuietUseInv
<1>4. ASSUME NEW c \in Clients, ConnectAttach(c) PROVE UseInv'
  <2>1. CASE (RetryConnect(c) \/ FailConnect(c)) /\ UNCHANGED <<kern, owner>>
    <3>1. \E label \in {"lock", "nothing"} : pc' = [pc EXCEPT ![c] = label]
      BY <2>1 DEF RetryConnect, FailConnect, Goto
    <3> QED BY <1>4, <2>1, <3>1, QuietUseInv DEF ConnectAttach
  <2>2. CASE /\ kern[dev[c]] = "free"
             /\ kern' = [kern EXCEPT ![dev[c]] = "starting"]
             /\ owner' = [owner EXCEPT ![dev[c]] = c]
             /\ Goto(c, "waitUp")
    <3>1. \A e \in Clients \ {c} : pc[e] \in Using => dev[e] # dev[c]
      BY <2>2 DEF UseInv, DeviceUsed
    <3>2. EndsCounted'
      BY <1>4, <2>2
         DEF ConnectAttach, Goto, TypeInv, TypeOK, UseInv, EndsCounted, InDisconnect
    <3>3. DeviceUsed'
      BY <1>4, <2>2, <3>1
         DEF ConnectAttach, Goto, TypeInv, TypeOK, UseInv, DeviceUsed, Using
    <3>4. InfoUsed'
      BY <1>4, <2>2, <3>1
         DEF ConnectAttach, Goto, TypeInv, TypeOK, UseInv, InfoUsed, Using
    <3> QED BY <3>2, <3>3, <3>4 DEF UseInv
  <2> QED BY <1>4, <2>1, <2>2 DEF ConnectAttach
<1>5. ASSUME NEW c \in Clients, ConnectWait(c) PROVE UseInv'
  <2>1. CASE FailConnect(c)
    BY <1>5, <2>1, QuietUseInv DEF ConnectWait, FailConnect, Goto
  <2>2. CASE IsConnected(dev[c]) /\ Goto(c, "persist")
    <3>1. kern[dev[c]] = "connected"
      BY <1>5, <2>2 DEF ConnectWait, IsConnected, UseInv, DeviceUsed, Using
    <3> QED
      BY <1>5, <2>2, <3>1
         DEF ConnectWait, Goto, TypeInv, TypeOK, UseInv, EndsCounted, DeviceUsed,
             InfoUsed, Using, InDisconnect
  <2> QED BY <1>5, <2>1, <2>2 DEF ConnectWait
<1>6. ASSUME NEW c \in Clients, ConnectPersist(c) PROVE UseInv'
  <2>1. CASE FailConnect(c) /\ UNCHANGED info
    BY <1>6, <2>1, QuietUseInv DEF ConnectPersist, FailConnect, Goto
  <2>2. CASE info' = [info EXCEPT ![dev[c]] = c] /\ Goto(c, "tune")
    <3>1. \A e \in Clients \ {c} : pc[e] \in Using => dev[e] # dev[c]
      BY <1>6, UsesApart DEF ConnectPersist, UseInv, Using
    <3>2. EndsCounted' /\ DeviceUsed'
      BY <1>6, <2>2 DEF ConnectPersist, Goto, TypeInv, TypeOK, UseInv, EndsCounted,
                        DeviceUsed, Using, InDisconnect
    <3>3. owner[dev[c]] = c /\ kern[dev[c]] = "connected"
      BY <1>6 DEF ConnectPersist, UseInv, DeviceUsed, Using
    <3>4. InfoUsed'
      BY <1>6, <2>2, <3>1, <3>3
         DEF ConnectPersist, Goto, TypeInv, TypeOK, UseInv, InfoUsed, Using
    <3> QED BY <3>2, <3>4 DEF UseInv
  <2> QED BY <1>6, <2>1, <2>2 DEF ConnectPersist
<1>7. ASSUME NEW c \in Clients, ConnectTune(c) PROVE UseInv'
  <2>1. CASE FailConnect(c)
    BY <1>7, <2>1, QuietUseInv DEF ConnectTune, FailConnect, Goto
  <2>2. CASE Goto(c, "held")
    BY <1>7, <2>2 DEF ConnectTune, Goto, TypeInv, TypeOK, UseInv, EndsCounted,
                      DeviceUsed, InfoUsed, Using, InDisconnect
  <2> QED BY <1>7, <2>1, <2>2 DEF ConnectTune
<1>8. ASSUME NEW c \in Clients, DisconnectStart(c) PROVE UseInv'
  <2>1. pc[c] = "held"
    BY <1>8 DEF DisconnectStart, TypeInv, TypeOK, UseInv, EndsCounted, InDisconnect
  <2> QED
    BY <1>8, <2>1
       DEF DisconnectStart, Goto, TypeInv, TypeOK, UseInv, EndsCounted,
           DeviceUsed, InfoUsed, Using, InDisconnect
<1>9. ASSUME NEW c \in Clients, DisconnectCheck(c) PROVE UseInv'
  BY <1>9 DEF DisconnectCheck, IsConnected, Goto, TypeInv, TypeOK, UseInv,
              EndsCounted, DeviceUsed, InfoUsed, Using, InDisconnect
<1>10. ASSUME NEW c \in Clients, DisconnectForget(c) PROVE UseInv'
  <2>1. \A e \in Clients \ {c} : pc[e] \in Using => dev[e] # dev[c]
    BY <1>10, UsesApart DEF DisconnectForget, UseInv, Using
  <2>2. EndsCounted' /\ DeviceUsed'
    BY <1>10 DEF DisconnectForget, Goto, TypeInv, TypeOK, UseInv, EndsCounted,
                 DeviceUsed, Using, InDisconnect
  <2>3. InfoUsed'
    BY <1>10, <2>1
       DEF DisconnectForget, Goto, TypeInv, TypeOK, UseInv, InfoUsed, Using
  <2> QED BY <2>2, <2>3 DEF UseInv
<1>11. ASSUME NEW c \in Clients, DisconnectDetach(c) PROVE UseInv'
  <2>1. \A e \in Clients \ {c} : pc[e] \in Using => dev[e] # dev[c]
    BY <1>11, UsesApart DEF DisconnectDetach, UseInv, Using
  <2>2. kern[dev[c]] = "connected" /\ info[dev[c]] = None
    BY <1>11 DEF DisconnectDetach, UseInv, DeviceUsed, InfoUsed, Using
  <2>3. CASE Goto(c, "broken") /\ UNCHANGED kern
    BY <1>11, <2>3, QuietUseInv DEF DisconnectDetach, InDisconnect, Goto
  <2>4. CASE /\ kern' = [kern EXCEPT ![dev[c]] = "stopping"]
             /\ pc' = [pc EXCEPT ![c] = "waitDown"]
    <3>1. EndsCounted'
      BY <1>11, <2>4
         DEF DisconnectDetach, TypeInv, TypeOK, UseInv, EndsCounted, InDisconnect
    <3>2. DeviceUsed' /\ InfoUsed'
      BY <1>11, <2>1, <2>2, <2>4
         DEF DisconnectDetach, TypeInv, TypeOK, UseInv, DeviceUsed, InfoUsed, Using
    <3> QED BY <3>1, <3>2 DEF UseInv
  <2> QED BY <1>11, <2>3, <2>4 DEF DisconnectDetach, Goto
<1>12. ASSUME NEW c \in Clients, DisconnectWait(c) PROVE UseInv'
  <2>1. \E label \in {"broken", "nothing"} : pc' = [pc EXCEPT ![c] = label]
    BY <1>12 DEF DisconnectWait, Goto
  <2> QED BY <1>12, <2>1, QuietUseInv DEF DisconnectWait, InDisconnect
<1>13. ASSUME NEW c \in Clients, Kill(c) PROVE UseInv'
  <2>1. \E label \in {"broken", "nothing"} :
           /\ pc' = [pc EXCEPT ![c] = label]
           /\ label = "broken" => pc[c] \in InDisconnect
    BY <1>13 DEF Kill, Goto
  <2> QED BY <1>13, <2>1, QuietUseInv DEF Kill
<1>14. ASSUME NEW d \in Devices, KernelUp(d) PROVE UseInv'
  BY <1>14 DEF KernelUp, clientVars, TypeInv, TypeOK, UseInv, EndsCounted,
               DeviceUsed, InfoUsed
<1>15. ASSUME NEW d \in Devices, KernelDown(d) PROVE UseInv'
  BY <1>15 DEF KernelDown, clientVars, TypeInv, TypeOK, UseInv, EndsCounted,
               DeviceUsed, InfoUsed
<1>16. CASE UNCHANGED vars
  BY <1>16 DEF vars, UseInv, EndsCounted, DeviceUsed, InfoUsed
<1> QED
  BY <1>1, <1>2, <1>3, <1>4, <1>5, <1>6, <1>7, <1>8, <1>9, <1>10, <1>11,
     <1>12, <1>13, <1>14, <1>15, <1>16 DEF Next, ConnectStep, DisconnectStep

\* Both invariants hold always.
LEMMA UseInvariant == ASSUME MaxDisconnects \in {0, 1} PROVE Spec => [](TypeInv /\ UseInv)
<1>1. Init => TypeInv /\ UseInv
  BY InitTypeInv, InitUseInv
<1>2. TypeInv /\ UseInv /\ [Next]_vars => (TypeInv /\ UseInv)'
  BY NextTypeInv, NextUseInv
<1> QED BY <1>1, <1>2, PTL DEF Spec

(* Where a device is given back once, a client that holds one has its own  *)
(* connection and its own file on it, whatever other connects, disconnects *)
(* and killed processes do between the steps of its own.                   *)
THEOREM HoldersKeepTheirs ==
  ASSUME MaxDisconnects \in {0, 1} PROVE Spec => []HeldIsMine
<1>1. UseInv => HeldIsMine
  BY DEF UseInv, DeviceUsed, InfoUsed, HeldIsMine, Using
<1> QED BY <1>1, UseInvariant, PTL

(* Where a device is given back once, a file in PERSISTENT_INFO_DIR        *)
(* describes a connection that is there, wherever a process is killed.     *)
THEOREM FilesDescribe ==
  ASSUME MaxDisconnects \in {0, 1} PROVE Spec => []InfoImpliesAttached
<1>1. UseInv => InfoImpliesAttached
  BY DEF UseInv, InfoUsed, InfoImpliesAttached
<1> QED BY <1>1, UseInvariant, PTL
=============================================================================
