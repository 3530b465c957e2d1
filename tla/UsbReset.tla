------------------------------ MODULE UsbReset ------------------------------
(***************************************************************************)
(* usb_reset.py: xenopsd runs it to make a device of the host, one that    *)
(* usb_scan.py offered, available in the chroot of a domain's QEMU, to     *)
(* take it away and to clean the chroot.  The commands of one domain do    *)
(* not overlap; each takes several steps, any of which may fail and end    *)
(* it, while devices come and go.  A domain has one QEMU, and so one pid.  *)
(***************************************************************************)
EXTENDS UsbScan

CONSTANTS
    Domains,
    MaxCommands,  \* bound on the attach commands
    MayFail       \* what may fail: "chroot", "stat", "chown", "mount", "umount"

ASSUME ResetAssumption ==
    /\ MaxCommands \in Nat
    /\ MayFail \subseteq {"chroot", "stat", "chown", "mount", "umount"}

VARIABLES
    cmd,       \* the command of each domain: step, port, and number once read
    nodes,     \* device files in the chroot: number and owner
    sysMount,  \* is /sys mounted in the chroot?
    procMount, \* is /proc/<pid> bound to its /proc/self?
    attached,  \* devices whose attach has succeeded and that were not detached
    spoilt,    \* history: device files in the chroot whose chown has failed
    commands   \* attach commands so far

resetVars == <<cmd, nodes, sysMount, procMount, attached, spoilt, commands>>
allVars == <<vars, resetVars>>

Idle == [step |-> "idle"]

ResetInit ==
    /\ Init
    /\ cmd = [d \in Domains |-> Idle]
    /\ nodes = [d \in Domains |-> {}]
    /\ sysMount \in [Domains -> BOOLEAN]    \* mounted already for PCI pass-through
    /\ procMount = [d \in Domains |-> FALSE]
    /\ attached = [d \in Domains |-> {}]
    /\ spoilt = [d \in Domains |-> {}]
    /\ commands = 0

-----------------------------------------------------------------------------
Goto(d, step) == cmd' = [cmd EXCEPT ![d].step = step]
End(d) == cmd' = [cmd EXCEPT ![d] = Idle]    \* return, or sys.exit(1)

Numbers(d) == {n.num : n \in nodes[d]}

(* dev_path: the number the device at the port has now. *)
DevPath(p) == {d.num : d \in {e \in plugged[p] : ~e.leaving}}

(* attach: dev_path fails without a device; the reset is done, or fails    *)
(* and is logged; with -r that is all; without a chroot it ends here.      *)
Attach(d, p, resetOnly) ==
    /\ cmd[d].step = "idle" /\ commands < MaxCommands
    /\ \E u \in pusbs : u.port = p
    /\ commands' = commands + 1
    /\ \/ /\ ~resetOnly
          /\ \E n \in DevPath(p) :
                cmd' = [cmd EXCEPT ![d] = [step |-> "clone", port |-> p, num |-> n]]
       \/ (resetOnly \/ DevPath(p) = {} \/ "chroot" \in MayFail) /\ UNCHANGED cmd
    /\ UNCHANGED <<nodes, sysMount, procMount, attached, spoilt>>

(* clone_device up to mknod: nothing to do when the file is there; stat    *)
(* fails when the device has gone.                                         *)
CloneNode(d) ==
    /\ cmd[d].step = "clone"
    /\ \/ /\ cmd[d].num \in Numbers(d)
          /\ Goto(d, "sys") /\ UNCHANGED nodes
       \/ /\ cmd[d].num \notin Numbers(d)
          /\ cmd[d].num \in UNION {DevPath(p) : p \in Ports}
          /\ nodes' = [nodes EXCEPT ![d] = @ \cup {[num |-> cmd[d].num, owner |-> "root"]}]
          /\ Goto(d, "chown")
       \/ /\ cmd[d].num \notin Numbers(d)
          /\ \/ "stat" \in MayFail
             \/ cmd[d].num \notin UNION {DevPath(p) : p \in Ports}
          /\ End(d) /\ UNCHANGED nodes
    /\ UNCHANGED <<sysMount, procMount, attached, spoilt, commands>>

(* A chown that fails leaves the file as mknod made it. *)
CloneChown(d) ==
    /\ cmd[d].step = "chown"
    /\ \/ /\ nodes' = [nodes EXCEPT ![d] =
              {IF n.num = cmd[d].num THEN [n EXCEPT !.owner = "qemu"] ELSE n : n \in @}]
          /\ Goto(d, "sys") /\ UNCHANGED spoilt
       \/ /\ "chown" \in MayFail
          /\ spoilt' = [spoilt EXCEPT ![d] = @ \cup {cmd[d].num}]
          /\ End(d) /\ UNCHANGED nodes
    /\ UNCHANGED <<sysMount, procMount, attached, commands>>

AttachMountSys(d) ==
    /\ cmd[d].step = "sys"
    /\ \/ sysMount' = [sysMount EXCEPT ![d] = TRUE] /\ Goto(d, "proc")
       \/ "mount" \in MayFail /\ ~sysMount[d] /\ End(d) /\ UNCHANGED sysMount
    /\ UNCHANGED <<nodes, procMount, attached, spoilt, commands>>

AttachMountProc(d) ==
    /\ cmd[d].step = "proc"
    /\ \/ /\ procMount' = [procMount EXCEPT ![d] = TRUE]
          /\ attached' = [attached EXCEPT ![d] =
                 @ \cup {[port |-> cmd[d].port, num |-> cmd[d].num]}]
       \/ "mount" \in MayFail /\ ~procMount[d] /\ UNCHANGED <<procMount, attached>>
    /\ End(d)
    /\ UNCHANGED <<nodes, sysMount, spoilt, commands>>

Remove(d, n) ==
    /\ nodes' = [nodes EXCEPT ![d] = {m \in @ : m.num # n}]
    /\ spoilt' = [spoilt EXCEPT ![d] = @ \ {n}]

DetachUmounts(d, p) ==    \* mutant: as the script's header has it, /proc/self goes too
    /\ cmd[d].step = "idle"
    /\ \E n \in DevPath(p) : n \in Numbers(d) /\ Remove(d, n)
    /\ attached' = [attached EXCEPT ![d] = {a \in @ : a.port # p}]
    /\ procMount' = [procMount EXCEPT ![d] = FALSE]
    /\ UNCHANGED <<cmd, sysMount, commands>>

(* detach: the file of the device that is at the port now; an exception if *)
(* there is no device, or no file of that number.  The mounts stay.        *)
Detach(d, p) ==
    /\ cmd[d].step = "idle"
    /\ \E n \in DevPath(p) : n \in Numbers(d) /\ Remove(d, n)
    /\ attached' = [attached EXCEPT ![d] = {a \in @ : a.port # p}]
    /\ UNCHANGED <<cmd, sysMount, procMount, commands>>

(* cleanup, when the domain is gone: a umount that fails is logged. *)
Cleanup(d, sysLeft, procLeft) ==
    /\ cmd[d].step = "idle"
    /\ nodes' = [nodes EXCEPT ![d] = {}]
    /\ attached' = [attached EXCEPT ![d] = {}]
    /\ spoilt' = [spoilt EXCEPT ![d] = {}]
    /\ sysMount' = [sysMount EXCEPT ![d] = @ /\ sysLeft]
    /\ procMount' = [procMount EXCEPT ![d] = @ /\ procLeft]
    /\ UNCHANGED <<cmd, commands>>

UmountFails == IF "umount" \in MayFail THEN BOOLEAN ELSE {FALSE}

Command(d) ==
    \/ \E p \in Ports, resetOnly \in BOOLEAN : Attach(d, p, resetOnly)
    \/ CloneNode(d) \/ CloneChown(d) \/ AttachMountSys(d) \/ AttachMountProc(d)
    \/ \E p \in Ports : Detach(d, p)
    \/ \E s, q \in UmountFails : Cleanup(d, s, q)

Next ==
    \/ (Hotplug \/ Scan) /\ UNCHANGED resetVars
    \/ (\E d \in Domains : Command(d)) /\ UNCHANGED vars

Spec == ResetInit /\ [][Next]_allVars

-----------------------------------------------------------------------------
(* A device whose attach succeeded, and that is still the one plugged in,  *)
(* has what QEMU needs until it is detached: the chroot has its file and   *)
(* the two mounts, although other attach commands may have stopped half    *)
(* way and other devices were detached.  This needs detach to leave        *)
(* /proc/self mounted, which the header of the script (lines 30 to 34)     *)
(* does not.  The file is QEMU's, except where the header's step 3 is not  *)
(* made up for: after a failed chown the next attach takes the file as     *)
(* done, and it stays root's until a detach or cleanup removes it.         *)
OwnerOf(d, num) == IF num \in spoilt[d] THEN "root" ELSE "qemu"

AttachedUsable ==
    \A d \in Domains : \A a \in attached[d] : a.num \in DevPath(a.port) =>
        /\ [num |-> a.num, owner |-> OwnerOf(d, a.num)] \in nodes[d]
        /\ sysMount[d] /\ procMount[d]
=============================================================================
