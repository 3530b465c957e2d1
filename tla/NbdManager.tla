----------------------------- MODULE NbdManager -----------------------------
(***************************************************************************)
(* nbd_client_manager.py: xapi and xenopsd run it once to attach an export *)
(* of an NBD server to a free /dev/nbdX and once more to detach it.  The   *)
(* runs are processes that interleave; connects take a file lock,          *)
(* disconnects take none, and a process may be killed between two steps.   *)
(* A client stands for one user of a device and the runs it starts; its    *)
(* name is also the name of its export.                                    *)
(***************************************************************************)
EXTENDS Integers, FiniteSets

CONSTANTS
    Clients,        \* users of a device, and the exports they ask for
    NbdsMax,        \* devices the nbd module was loaded with (24 in the code)
    MaxRetries,     \* tries of a connect before it gives up (30 in the code)
    MaxUses,        \* bound on the connects of a client
    MaxDisconnects, \* bound on the disconnects a client starts for a device
    MaxKills,       \* bound on the processes that are killed
    None            \* no client: the lock is free, the device is, no file

ASSUME NoneAssumption == None \notin Clients
ASSUME BoundsAssumption ==
    /\ NbdsMax \in Nat \ {0}
    /\ MaxRetries \in Nat \ {0}
    /\ MaxUses \in Nat /\ MaxDisconnects \in Nat /\ MaxKills \in Nat

VARIABLES
    pc,      \* what the process of each client is about to do
    dev,     \* the device it is about: nbd_device, or device_no in the search
    retries, \* of the connect
    uses,    \* connects the client has started
    ends,    \* disconnects the client has started for dev
    lock,    \* holder of LOCK_FILE
    kern,    \* the kernel's state of each device
    owner,   \* the export it is, or is being, attached to
    info,    \* the export named by the file of each device in PERSISTENT_INFO_DIR
    kills

clientVars == <<pc, dev, retries, uses, ends>>
vars == <<pc, dev, retries, uses, ends, lock, kern, owner, info, kills>>

Devices == 0..(NbdsMax - 1)

InConnect == {"find", "attach", "waitUp", "persist", "tune"}   \* with FILE_LOCK
InDisconnect == {"check", "forget", "detach", "waitDown"}

(* nothing: no device; held: connect has printed the device; broken: a     *)
(* disconnect raised or was killed.                                        *)
TypeOK ==
    /\ pc \in [Clients -> {"nothing", "lock", "held", "broken"}
                            \cup InConnect \cup InDisconnect]
    /\ dev \in [Clients -> Devices]
    /\ retries \in [Clients -> 0..MaxRetries]
    /\ uses \in [Clients -> 0..MaxUses]
    /\ ends \in [Clients -> 0..MaxDisconnects]
    /\ lock \in Clients \cup {None}
    /\ kern \in [Devices -> {"free", "starting", "connected", "stopping"}]
    /\ owner \in [Devices -> Clients \cup {None}]
    /\ info \in [Devices -> Clients \cup {None}]
    /\ kills \in 0..MaxKills

Init ==
    /\ pc = [c \in Clients |-> "nothing"]
    /\ dev = [c \in Clients |-> 0]
    /\ retries = [c \in Clients |-> 0]
    /\ uses = [c \in Clients |-> 0]
    /\ ends = [c \in Clients |-> 0]
    /\ lock = None
    /\ kern = [d \in Devices |-> "free"]
    /\ owner = [d \in Devices |-> None]
    /\ info = [d \in Devices |-> None]
    /\ kills = 0

-----------------------------------------------------------------------------
(* What nbd-client -check says of a device: one that is being torn down    *)
(* still counts as connected, one that is being set up does not yet.       *)
IsConnected(d) == kern[d] \in {"connected", "stopping"}

Goto(c, label) == pc' = [pc EXCEPT ![c] = label]

AcquireNoLock(c) == lock' = lock    \* mutant
(* with FILE_LOCK: leaving the block, by an exception too, unlocks. *)
AcquireLock(c) == lock = None /\ lock' = c
ReleaseLock(c) == lock' = IF lock = c THEN None ELSE lock

RetryConnectOnce(c) ==    \* mutant: one try too many
    /\ ReleaseLock(c)
    /\ retries' = [retries EXCEPT ![c] = @ + 1]
    /\ Goto(c, IF retries[c] < MaxRetries THEN "lock" ELSE "nothing")
(* NbdDeviceNotFound in connect_nbd: sleep and try again, or give up. *)
RetryConnect(c) ==
    /\ ReleaseLock(c)
    /\ retries' = [retries EXCEPT ![c] = @ + 1]
    /\ Goto(c, IF retries[c] + 1 < MaxRetries THEN "lock" ELSE "nothing")

(* Any other exception in connect_nbd reaches the caller. *)
FailConnect(c) == ReleaseLock(c) /\ Goto(c, "nothing") /\ UNCHANGED retries

-----------------------------------------------------------------------------
(* connect_nbd *)

ConnectStart(c) ==
    /\ pc[c] = "nothing" /\ uses[c] < MaxUses
    /\ Goto(c, "lock")
    /\ uses' = [uses EXCEPT ![c] = @ + 1]
    /\ retries' = [retries EXCEPT ![c] = 0]
    /\ ends' = [ends EXCEPT ![c] = 0]
    /\ UNCHANGED <<dev, lock, kern, owner, info, kills>>

ConnectLock(c) ==
    /\ pc[c] = "lock"
    /\ AcquireLock(c)
    /\ dev' = [dev EXCEPT ![c] = 0]
    /\ Goto(c, "find")
    /\ UNCHANGED <<retries, uses, ends, kern, owner, info, kills>>

(* _find_unused_nbd_device: one device at a time, while others disconnect; *)
(* nbd-client -check may end with an error, here and in the waits.         *)
ConnectFind(c) ==
    /\ pc[c] = "find"
    /\ \/ /\ ~IsConnected(dev[c])
          /\ Goto(c, "attach")
          /\ UNCHANGED <<dev, retries, lock>>
       \/ /\ IsConnected(dev[c]) /\ dev[c] + 1 \in Devices
          /\ dev' = [dev EXCEPT ![c] = @ + 1]
          /\ UNCHANGED <<pc, retries, lock>>
       \/ /\ IsConnected(dev[c]) /\ dev[c] + 1 \notin Devices
          /\ RetryConnect(c)
          /\ UNCHANGED dev
       \/ FailConnect(c) /\ UNCHANGED dev
    /\ UNCHANGED <<uses, ends, kern, owner, info, kills>>

(* nbd-client -unix: busy when the device is in use, and also when another *)
(* process such as udevd has it open; any other error is raised.           *)
ConnectAttach(c) ==
    /\ pc[c] = "attach"
    /\ \/ /\ kern[dev[c]] = "free"
          /\ kern' = [kern EXCEPT ![dev[c]] = "starting"]
          /\ owner' = [owner EXCEPT ![dev[c]] = c]
          /\ Goto(c, "waitUp")
          /\ UNCHANGED <<retries, lock>>
       \/ RetryConnect(c) /\ UNCHANGED <<kern, owner>>
       \/ FailConnect(c) /\ UNCHANGED <<kern, owner>>
    /\ UNCHANGED <<dev, uses, ends, info, kills>>

ConnectWaitEver(c) ==    \* mutant: no deadline
    /\ pc[c] = "waitUp"
    /\ IsConnected(dev[c]) /\ Goto(c, "persist")
    /\ UNCHANGED <<dev, retries, uses, ends, lock, kern, owner, info, kills>>
(* _wait_for_nbd_device(connected=True): the deadline may pass first, or *)
(* the last look at the device fail.                                     *)
ConnectWait(c) ==
    /\ pc[c] = "waitUp"
    /\ \/ IsConnected(dev[c]) /\ Goto(c, "persist") /\ UNCHANGED <<retries, lock>>
       \/ FailConnect(c)
    /\ UNCHANGED <<dev, uses, ends, kern, owner, info, kills>>

ConnectPersistNot(c) ==    \* mutant: the details are not persisted
    /\ pc[c] = "persist"
    /\ Goto(c, "tune")
    /\ UNCHANGED <<dev, retries, uses, ends, lock, kern, owner, info, kills>>
(* _persist_connect_info *)
ConnectPersist(c) ==
    /\ pc[c] = "persist"
    /\ \/ /\ info' = [info EXCEPT ![dev[c]] = c]
          /\ Goto(c, "tune") /\ UNCHANGED <<retries, lock>>
       \/ FailConnect(c) /\ UNCHANGED info    \* the directory or the file cannot be made
    /\ UNCHANGED <<dev, uses, ends, kern, owner, kills>>

(* The block queue's settings, which sysfs may refuse; then unlock and     *)
(* print the device.                                                       *)
ConnectTune(c) ==
    /\ pc[c] = "tune"
    /\ \/ ReleaseLock(c) /\ Goto(c, "held") /\ UNCHANGED retries
       \/ FailConnect(c)
    /\ UNCHANGED <<dev, uses, ends, kern, owner, info, kills>>

-----------------------------------------------------------------------------
(* disconnect_nbd_device *)

DisconnectStart(c) ==
    /\ pc[c] \in {"held", "broken"} /\ ends[c] < MaxDisconnects
    /\ ends' = [ends EXCEPT ![c] = @ + 1]
    /\ Goto(c, "check")
    /\ UNCHANGED <<dev, retries, uses, lock, kern, owner, info, kills>>

(* A disconnect that raises leaves what it has done. *)
DisconnectCheck(c) ==
    /\ pc[c] = "check"
    /\ \/ Goto(c, IF IsConnected(dev[c]) THEN "forget" ELSE "nothing")
       \/ Goto(c, "broken")
    /\ UNCHANGED <<dev, retries, uses, ends, lock, kern, owner, info, kills>>

DisconnectKeepInfo(c) ==    \* mutant: the file stays
    /\ pc[c] = "forget"
    /\ Goto(c, "detach")
    /\ UNCHANGED <<dev, retries, uses, ends, lock, kern, owner, info, kills>>
(* _remove_persistent_connect_info *)
DisconnectForget(c) ==
    /\ pc[c] = "forget"
    /\ info' = [info EXCEPT ![dev[c]] = None]
    /\ Goto(c, "detach")
    /\ UNCHANGED <<dev, retries, uses, ends, lock, kern, owner, kills>>

(* nbd-client -disconnect, which may fail, and does so on a device that is *)
(* not connected.                                                          *)
DisconnectDetach(c) ==
    /\ pc[c] = "detach"
    /\ \/ /\ IsConnected(dev[c])
          /\ kern' = [kern EXCEPT ![dev[c]] = "stopping"]
          /\ Goto(c, "waitDown")
       \/ Goto(c, "broken") /\ UNCHANGED kern
    /\ UNCHANGED <<dev, retries, uses, ends, lock, owner, info, kills>>

(* _wait_for_nbd_device(connected=False) *)
DisconnectWait(c) ==
    /\ pc[c] = "waitDown"
    /\ \/ ~IsConnected(dev[c]) /\ Goto(c, "nothing")
       \/ Goto(c, "broken")
    /\ UNCHANGED <<dev, retries, uses, ends, lock, kern, owner, info, kills>>

-----------------------------------------------------------------------------
(* The kernel, from how the code waits for it: a connection is set up and  *)
(* torn down some time after nbd-client returns.                           *)
KernelUp(d) ==
    /\ kern[d] = "starting"
    /\ kern' = [kern EXCEPT ![d] = "connected"]
    /\ UNCHANGED <<clientVars, lock, owner, info, kills>>

KernelDown(d) ==
    /\ kern[d] = "stopping"
    /\ kern' = [kern EXCEPT ![d] = "free"]
    /\ owner' = [owner EXCEPT ![d] = None]
    /\ UNCHANGED <<clientVars, lock, info, kills>>

(* A process is killed; the kernel drops its file lock.  The caller of a   *)
(* connect never learns the device.                                        *)
Kill(c) ==
    /\ kills < MaxKills
    /\ pc[c] \in {"lock"} \cup InConnect \cup InDisconnect
    /\ Goto(c, IF pc[c] \in InDisconnect THEN "broken" ELSE "nothing")
    /\ ReleaseLock(c)
    /\ kills' = kills + 1
    /\ UNCHANGED <<dev, retries, uses, ends, kern, owner, info>>

ConnectStep(c) ==
    \/ ConnectLock(c) \/ ConnectFind(c) \/ ConnectAttach(c)
    \/ ConnectWait(c) \/ ConnectPersist(c) \/ ConnectTune(c)

DisconnectStep(c) ==
    \/ DisconnectCheck(c) \/ DisconnectForget(c)
    \/ DisconnectDetach(c) \/ DisconnectWait(c)

Next ==
    \/ \E c \in Clients :
        \/ ConnectStart(c) \/ ConnectStep(c)
        \/ DisconnectStart(c) \/ DisconnectStep(c)
        \/ Kill(c)
    \/ \E d \in Devices : KernelUp(d) \/ KernelDown(d)

(* A process that is not killed goes on; waits end at their deadline. *)
Spec ==
    /\ Init /\ [][Next]_vars
    /\ \A c \in Clients : WF_vars(ConnectStep(c)) /\ WF_vars(DisconnectStep(c))

-----------------------------------------------------------------------------
(* A client that was given a device and has not begun to give it back has  *)
(* a connection to its own export on it, and the file that xapi reads to   *)
(* find the device of an export says so: neither another connect, nor the  *)
(* late steps of a disconnect of the same device, took it away.            *)
HeldIsMine ==
    \A c \in Clients : pc[c] = "held" =>
        /\ kern[dev[c]] = "connected"
        /\ owner[dev[c]] = c
        /\ info[dev[c]] = c

(* A file in PERSISTENT_INFO_DIR never outlives the connection it          *)
(* describes, wherever a connect or a disconnect is killed.                *)
InfoImpliesAttached ==
    \A d \in Devices : info[d] # None =>
        owner[d] = info[d] /\ kern[d] \in {"connected", "stopping"}

(* With the lock, a connect meets a device that another one is setting up  *)
(* only when that one was killed or gave up: no other connect uses up its  *)
(* retries.                                                                *)
NoClash ==
    \A c \in Clients : pc[c] = "attach" =>
        \A e \in Clients \ {c} :
            pc[e] \in InConnect \ {"find"} => dev[e] # dev[c]

(* Every connect and every disconnect ends: the lock is not kept for ever, *)
(* and no wait for the kernel outlasts its deadline.                       *)
CommandsEnd ==
    \A c \in Clients :
        pc[c] \in {"lock"} \cup InConnect \cup InDisconnect
            ~> pc[c] \in {"nothing", "held", "broken"}
=============================================================================
