------------------------------ MODULE UsbProofs ------------------------------
(***************************************************************************)
(* What usb_scan.py offers and usb_reset.py attaches, for any ports,       *)
(* models of device, policy files, domains and numbers of commands.        *)
(***************************************************************************)
EXTENDS UsbReset, FiniteSetTheorems, WellFoundedInduction, TLAPS

DeviceType == [num : Nat, model : Models, up : Nat, leaving : BOOLEAN]

(* The host: at most one device at a port, each with a number of its own.  *)
HostInv ==
    /\ plugs \in Nat
    /\ plugged \in [Ports -> SUBSET DeviceType]
    /\ \A p \in Ports : \A d \in plugged[p] : d.num <= plugs /\ d.up <= Len(d.model.ifs)
    /\ \A p, q \in Ports : \A d \in plugged[p], e \in plugged[q] :
           (p = q \/ d.num = e.num) => p = q /\ d = e

CommandType ==
    {Idle} \cup [step : {"clone", "chown", "sys", "proc"}, port : Ports, num : Nat]

NodeType == [num : Nat, owner : {"root", "qemu"}]

(* A chroot: a file not owned by QEMU is one an attach is about to hand    *)
(* over, or one whose chown failed; an attach past that has its file, and  *)
(* /sys before /proc.                                                      *)
KnownNumbers(d) ==
    /\ cmd[d].step # "idle" => cmd[d].num <= plugs
    /\ \A a \in attached[d] : a.num <= plugs
Owners(d) ==
    /\ \A n \in nodes[d] :
          n.owner = OwnerOf(d, n.num) \/ (cmd[d].step = "chown" /\ cmd[d].num = n.num)
    /\ \A num \in spoilt[d] : \E n \in nodes[d] : n.num = num
HasFile(d, num) == [num |-> num, owner |-> OwnerOf(d, num)] \in nodes[d]
Progress(d) ==
    /\ cmd[d].step = "chown" =>
          /\ cmd[d].num \notin spoilt[d]
          /\ \E n \in nodes[d] : n.num = cmd[d].num
          /\ \A n \in nodes[d] : n.num = cmd[d].num => n.owner = "root"
    /\ cmd[d].step \in {"sys", "proc"} => HasFile(d, cmd[d].num)
    /\ cmd[d].step = "proc" => sysMount[d]
ChrootOK(d) == KnownNumbers(d) /\ Owners(d) /\ Progress(d)

ChrootType ==
    /\ cmd \in [Domains -> CommandType]
    /\ nodes \in [Domains -> SUBSET NodeType]
    /\ sysMount \in [Domains -> BOOLEAN] /\ procMount \in [Domains -> BOOLEAN]
    /\ attached \in [Domains -> SUBSET [port : Ports, num : Nat]]
    /\ spoilt \in [Domains -> SUBSET Nat]

ChrootInv == ChrootType /\ \A d \in Domains : ChrootOK(d)

AttachInv == HostInv /\ ChrootInv /\ AttachedUsable

-----------------------------------------------------------------------------
(* The host's devices *)

\* Nothing is plugged in at first.
LEMMA HostInitial == Init => HostInv
  BY DEF Init, HostInv, DeviceType

\* A device comes, with a new number,
LEMMA PlugHost ==
  ASSUME HostInv, NEW p \in Ports, NEW m \in Models, Plug(p, m)
  PROVE  HostInv'
<1>1. Device(plugs + 1, m) \in DeviceType /\ Device(plugs + 1, m).num = plugs + 1
      /\ Device(plugs + 1, m).up = 0 /\ Device(plugs + 1, m).model = m
  BY DEF Device, DeviceType, HostInv
<1>2. Len(m.ifs) \in Nat
  BY ModelsAssumption
<1> DEFINE e == Device(plugs + 1, m)
<1>3. plugs' = plugs + 1 /\ plugged' = [plugged EXCEPT ![p] = {e}] /\ plugged[p] = {}
  BY DEF Plug
<1>4. e \in DeviceType /\ e.num = plugs + 1 /\ e.up = 0 /\ e.model = m
  BY <1>1
<1> HIDE DEF e
<1>5. \A q \in Ports : \A d \in plugged[q] : d \in DeviceType /\ d.num \in Nat /\ d.num <= plugs
  BY DEF HostInv, DeviceType
<1>6. \A q \in Ports : plugged'[q] = IF q = p THEN {e} ELSE plugged[q]
  BY <1>3 DEF HostInv
<1>7. plugs' \in Nat /\ plugged' \in [Ports -> SUBSET DeviceType]
  BY <1>3, <1>4 DEF HostInv
<1>8. \A q \in Ports : \A d \in plugged'[q] : d.num <= plugs' /\ d.up <= Len(d.model.ifs)
  BY <1>2, <1>3, <1>4, <1>5, <1>6 DEF HostInv
<1>9. \A q, r \in Ports : \A d \in plugged'[q], f \in plugged'[r] :
           (q = r \/ d.num = f.num) => q = r /\ d = f
  BY <1>3, <1>4, <1>5, <1>6 DEF HostInv
<1> QED BY <1>7, <1>8, <1>9 DEF HostInv

(* A device that changes stays itself. *)
LEMMA ChangeHost ==
  ASSUME HostInv, NEW p \in Ports, NEW d \in plugged[p], NEW e \in DeviceType,
         e.num = d.num, e.up <= Len(e.model.ifs),
         plugged' = [plugged EXCEPT ![p] = {e}], plugs' = plugs
  PROVE  HostInv'
<1>1. \A q \in Ports : plugged'[q] = IF q = p THEN {e} ELSE plugged[q]
  BY DEF HostInv
<1>2. plugs' \in Nat /\ plugged' \in [Ports -> SUBSET DeviceType]
  BY DEF HostInv
<1>3. \A q \in Ports : \A f \in plugged'[q] : f.num <= plugs' /\ f.up <= Len(f.model.ifs)
  BY <1>1 DEF HostInv
<1>4. \A q, r \in Ports : \A f \in plugged'[q], g \in plugged'[r] :
           (q = r \/ f.num = g.num) => q = r /\ f = g
  BY <1>1 DEF HostInv
<1> QED BY <1>2, <1>3, <1>4 DEF HostInv

\* an interface comes up,
LEMMA InterfaceUpHost ==
  ASSUME HostInv, NEW p \in Ports, InterfaceUp(p)
  PROVE  HostInv'
<1>1. PICK d \in plugged[p] :
        /\ ~d.leaving /\ d.up < Len(d.model.ifs)
        /\ plugged' = [plugged EXCEPT ![p] = {[d EXCEPT !.up = @ + 1]}]
  BY DEF InterfaceUp
<1>2. d \in DeviceType /\ d.model \in Models
  BY DEF HostInv, DeviceType
<1>3. Len(d.model.ifs) \in Nat
  BY <1>2, ModelsAssumption
<1> DEFINE e == [d EXCEPT !.up = @ + 1]
<1>4. e \in DeviceType /\ e.num = d.num /\ e.model = d.model /\ e.up = d.up + 1 /\ d.up \in Nat
  BY <1>2 DEF DeviceType
<1>5. plugs' = plugs /\ plugged' = [plugged EXCEPT ![p] = {e}]
  BY <1>1 DEF InterfaceUp
<1> HIDE DEF e
<1>6. e.up <= Len(e.model.ifs)
  BY <1>1, <1>3, <1>4
<1> QED BY <1>4, <1>5, <1>6, ChangeHost

\* a device begins to go,
LEMMA StartLeavingHost ==
  ASSUME HostInv, NEW p \in Ports, StartLeaving(p)
  PROVE  HostInv'
<1>1. PICK d \in plugged[p] :
        ~d.leaving /\ plugged' = [plugged EXCEPT ![p] = {[d EXCEPT !.leaving = TRUE]}]
  BY DEF StartLeaving
<1>2. d \in DeviceType /\ d.up <= Len(d.model.ifs)
  BY DEF HostInv
<1> DEFINE e == [d EXCEPT !.leaving = TRUE]
<1>3. e \in DeviceType /\ e.num = d.num /\ e.model = d.model /\ e.up = d.up
  BY <1>2 DEF DeviceType
<1>4. plugs' = plugs /\ plugged' = [plugged EXCEPT ![p] = {e}]
  BY <1>1 DEF StartLeaving
<1> HIDE DEF e
<1> QED BY <1>2, <1>3, <1>4, ChangeHost

\* and is gone.
LEMMA UnplugHost ==
  ASSUME HostInv, NEW p \in Ports, Unplug(p)
  PROVE  HostInv'
  BY DEF HostInv, Unplug

\* Whatever happens to the devices,
LEMMA HotplugHost == HostInv /\ Hotplug => HostInv'
  BY PlugHost, InterfaceUpHost, StartLeavingHost, UnplugHost DEF Hotplug

\* the invariant of the host is inductive.
LEMMA NextHost == HostInv /\ [Next]_allVars => HostInv'
<1> SUFFICES ASSUME HostInv, [Next]_allVars PROVE HostInv'
  OBVIOUS
<1>1. CASE Hotplug
  BY <1>1, HotplugHost
<1>2. CASE UNCHANGED usbVars
  BY <1>2 DEF HostInv, usbVars
<1> QED
  BY <1>1, <1>2 DEF Next, Scan, ListDevices, ListInterfaces, MakePusbsList, Rescan,
     allVars, vars

(* Which devices an attach may find: those that were there, or a new one. *)
LEMMA DevPathStep ==
  ASSUME HostInv, [Next]_allVars, NEW p \in Ports
  PROVE  /\ plugs' >= plugs
         /\ \A n \in DevPath(p)' : n \in DevPath(p) \/ n > plugs
<1>1. ASSUME NEW q \in Ports, NEW m \in Models, Plug(q, m)
      PROVE  plugs' >= plugs /\ \A n \in DevPath(p)' : n \in DevPath(p) \/ n > plugs
  BY <1>1 DEF Plug, Device, DevPath, HostInv
<1>2. ASSUME NEW q \in Ports, InterfaceUp(q)
      PROVE  plugs' >= plugs /\ \A n \in DevPath(p)' : n \in DevPath(p) \/ n > plugs
  BY <1>2 DEF InterfaceUp, DevPath, HostInv, DeviceType
<1>3. ASSUME NEW q \in Ports, StartLeaving(q)
      PROVE  plugs' >= plugs /\ \A n \in DevPath(p)' : n \in DevPath(p) \/ n > plugs
  BY <1>3 DEF StartLeaving, DevPath, HostInv, DeviceType
<1>4. ASSUME NEW q \in Ports, Unplug(q)
      PROVE  plugs' >= plugs /\ \A n \in DevPath(p)' : n \in DevPath(p) \/ n > plugs
  BY <1>4 DEF Unplug, DevPath, HostInv
<1>5. CASE UNCHANGED usbVars
  BY <1>5 DEF usbVars, DevPath, HostInv
<1> QED
  BY <1>1, <1>2, <1>3, <1>4, <1>5 DEF Next, Hotplug, Scan, ListDevices, ListInterfaces,
     MakePusbsList, Rescan, allVars, vars

(* A number belongs to one port. *)
LEMMA DevPathUnique ==
  ASSUME HostInv, NEW p \in Ports, NEW n \in DevPath(p)
  PROVE  n \in Nat /\ n <= plugs /\ \A q \in Ports : n \in DevPath(q) => p = q
  BY DEF DevPath, HostInv, DeviceType

-----------------------------------------------------------------------------
(* The chroots *)

\* Nothing is attached at first.
LEMMA AttachInitial == ResetInit => AttachInv
<1> SUFFICES ASSUME ResetInit PROVE AttachInv
  OBVIOUS
<1>1. HostInv
  BY HostInitial DEF ResetInit
<1>2. ChrootInv
  BY DEF ResetInit, ChrootInv, ChrootType, ChrootOK, KnownNumbers, Owners, Progress, HasFile, OwnerOf,
       CommandType, Idle
<1>3. AttachedUsable
  BY DEF ResetInit, AttachedUsable, OwnerOf
<1> QED BY <1>1, <1>2, <1>3 DEF AttachInv

\* A command under way is about a device.
LEMMA BusyType ==
  ASSUME ChrootType, NEW d \in Domains, cmd[d].step # "idle"
  PROVE  /\ cmd[d] \in [step : {"clone", "chown", "sys", "proc"}, port : Ports, num : Nat]
         /\ cmd[d].num \in Nat /\ cmd[d].port \in Ports
<1>1. cmd[d] \in CommandType /\ Idle.step = "idle"
  BY DEF ChrootType, Idle
<1>2. cmd[d] \in [step : {"clone", "chown", "sys", "proc"}, port : Ports, num : Nat]
  BY <1>1 DEF CommandType
<1> QED BY <1>2

\* A step elsewhere, and devices that come and go, keep a chroot.
LEMMA ChrootKept ==
  ASSUME NEW d \in Domains, ChrootType, ChrootOK(d), plugs \in Nat, plugs' \in Nat, plugs <= plugs',
         cmd'[d] = cmd[d], nodes'[d] = nodes[d], sysMount'[d] = sysMount[d],
         attached'[d] = attached[d], spoilt'[d] = spoilt[d]
  PROVE  ChrootOK(d)'
<1>1. cmd[d].step # "idle" => cmd[d].num \in Nat
  BY BusyType
<1>2. \A a \in attached[d] : a.num \in Nat
  BY DEF ChrootType
<1>3. KnownNumbers(d)'
  BY <1>1, <1>2 DEF ChrootOK, KnownNumbers
<1>4. Owners(d)' /\ Progress(d)'
  BY DEF ChrootOK, Owners, Progress, HasFile, OwnerOf
<1> QED BY <1>3, <1>4 DEF ChrootOK

(* The host's and the scan's steps leave the chroots alone. *)
LEMMA HostKeepsAttached ==
  ASSUME AttachInv, [Next]_allVars, UNCHANGED resetVars
  PROVE  ChrootInv' /\ AttachedUsable'
<1>1. \A p \in Ports : plugs' >= plugs /\ \A n \in DevPath(p)' : n \in DevPath(p) \/ n > plugs
  BY DevPathStep DEF AttachInv
<1>2. plugs \in Nat /\ plugs' \in Nat
  BY NextHost DEF AttachInv, HostInv
<1>3. plugs <= plugs'
  BY <1>2 DEF Next, allVars, vars, usbVars, Hotplug, Plug, InterfaceUp, StartLeaving, Unplug,
     Scan, ListDevices, ListInterfaces, MakePusbsList, Rescan
<1>4. UNCHANGED <<cmd, nodes, sysMount, procMount, attached, spoilt>> /\ ChrootType
  BY DEF resetVars, AttachInv, ChrootInv
<1>5. ChrootType'
  BY <1>4 DEF ChrootType
<1>6. \A d \in Domains : ChrootOK(d)
  BY DEF AttachInv, ChrootInv
<1>7. \A d \in Domains : ChrootOK(d)'
  BY <1>2, <1>3, <1>4, <1>6, ChrootKept
<1>8. \A d \in Domains : \A a \in attached[d] : a.num \in Nat /\ a.num <= plugs /\ a.port \in Ports
  <2>1. \A d \in Domains : attached[d] \subseteq [port : Ports, num : Nat]
    BY <1>4 DEF ChrootType
  <2>2. \A d \in Domains : \A a \in attached[d] : a.num <= plugs
    BY <1>6 DEF ChrootOK, KnownNumbers
  <2> QED BY <2>1, <2>2
<1>9. AttachedUsable'
  BY <1>1, <1>2, <1>4, <1>8 DEF AttachInv, AttachedUsable, OwnerOf
<1> QED BY <1>5, <1>7, <1>9 DEF ChrootInv

(* A command changes the chroot of its domain only. *)
LEMMA OneChroot ==
  ASSUME AttachInv, UNCHANGED plugs, NEW d \in Domains, ChrootType', ChrootOK(d)',
         \A e \in Domains \ {d} :
             /\ cmd'[e] = cmd[e] /\ nodes'[e] = nodes[e] /\ sysMount'[e] = sysMount[e]
             /\ attached'[e] = attached[e] /\ spoilt'[e] = spoilt[e]
  PROVE  ChrootInv'
<1>1. plugs \in Nat /\ plugs <= plugs' /\ ChrootType /\ \A e \in Domains : ChrootOK(e)
  BY DEF AttachInv, HostInv, ChrootInv
<1>2. \A e \in Domains \ {d} : ChrootOK(e)'
  BY <1>1, ChrootKept
<1> QED BY <1>2 DEF ChrootInv

\* A command goes on,
LEMMA GotoType ==
  ASSUME ChrootType, NEW d \in Domains, cmd[d].step # "idle",
         NEW step \in {"clone", "chown", "sys", "proc"}, Goto(d, step)
  PROVE  /\ cmd' \in [Domains -> CommandType]
         /\ cmd'[d].step = step /\ cmd'[d].num = cmd[d].num
         /\ \A e \in Domains \ {d} : cmd'[e] = cmd[e]
<1> DEFINE new == [cmd[d] EXCEPT !.step = step]
<1>1. /\ new \in [step : {"clone", "chown", "sys", "proc"}, port : Ports, num : Nat]
      /\ new.step = step /\ new.num = cmd[d].num
  BY BusyType
<1>2. cmd' = [cmd EXCEPT ![d] = new]
  BY DEF Goto
<1> HIDE DEF new
<1>3. new \in CommandType
  BY <1>1 DEF CommandType
<1> QED BY <1>1, <1>2, <1>3 DEF ChrootType

\* or ends.
LEMMA EndType ==
  ASSUME ChrootType, NEW d \in Domains, End(d)
  PROVE  /\ cmd' \in [Domains -> CommandType] /\ cmd'[d].step = "idle"
         /\ \A e \in Domains \ {d} : cmd'[e] = cmd[e]
<1>1. Idle \in CommandType /\ Idle.step = "idle"
  BY DEF CommandType, Idle
<1> QED BY <1>1 DEF ChrootType, End

\* attach looks at what is there already.
LEMMA AttachStep ==
  ASSUME AttachInv, UNCHANGED vars, NEW d \in Domains, NEW p \in Ports,
         NEW resetOnly \in BOOLEAN, Attach(d, p, resetOnly)
  PROVE  ChrootInv' /\ AttachedUsable'
<1>1. AttachedUsable'
  BY DEF AttachInv, AttachedUsable, OwnerOf, Attach, vars, usbVars, DevPath
<1>2. CASE UNCHANGED cmd
  <2>1. ChrootType' /\ ChrootType /\ plugs \in Nat /\ \A e \in Domains : ChrootOK(e)
    BY <1>2 DEF AttachInv, HostInv, ChrootInv, ChrootType, Attach
  <2>2. UNCHANGED <<plugs, cmd, nodes, sysMount, attached, spoilt>>
    BY <1>2 DEF Attach, vars, usbVars
  <2>3. \A e \in Domains : ChrootOK(e)'
    BY <2>1, <2>2, ChrootKept
  <2> QED BY <1>1, <2>1, <2>3 DEF ChrootInv
<1>3. ASSUME NEW n \in DevPath(p),
             cmd' = [cmd EXCEPT ![d] = [step |-> "clone", port |-> p, num |-> n]]
      PROVE  ChrootInv'
  <2>1. n \in Nat /\ n <= plugs
    BY DevPathUnique DEF AttachInv
  <2>2. /\ ChrootType' /\ cmd'[d] = [step |-> "clone", port |-> p, num |-> n]
        /\ \A e \in Domains \ {d} : cmd'[e] = cmd[e]
    BY <1>3, <2>1 DEF AttachInv, ChrootInv, ChrootType, CommandType, Attach
  <2>3. ChrootOK(d) /\ cmd[d].step = "idle" /\ UNCHANGED <<plugs, nodes, attached, spoilt>>
    BY DEF AttachInv, ChrootInv, Attach, vars, usbVars
  <2>4. cmd'[d].step = "clone" /\ cmd'[d].num = n
    BY <2>2
  <2>6. KnownNumbers(d)'
    BY <2>1, <2>3, <2>4 DEF ChrootOK, KnownNumbers
  <2>7. Owners(d)'
    BY <2>3, <2>4 DEF ChrootOK, Owners, OwnerOf
  <2>8. Progress(d)'
    BY <2>4 DEF Progress
  <2>5. ChrootOK(d)'
    BY <2>6, <2>7, <2>8 DEF ChrootOK
  <2> QED
    BY <2>2, <2>3, <2>5, OneChroot DEF Attach
<1> QED BY <1>1, <1>2, <1>3 DEF Attach

\* The device file is made.
LEMMA CloneNodeStep ==
  ASSUME AttachInv, UNCHANGED vars, NEW d \in Domains, CloneNode(d)
  PROVE  ChrootInv' /\ AttachedUsable'
<1>1. cmd[d].step = "clone" /\ cmd[d].num \in Nat /\ cmd[d].num <= plugs
  BY BusyType DEF AttachInv, ChrootInv, ChrootOK, KnownNumbers, Owners, Progress, HasFile, OwnerOf, CloneNode
<1>2. /\ \A n \in nodes[d] : n.owner = OwnerOf(d, n.num) /\ n \in NodeType
      /\ \A num \in spoilt[d] : \E n \in nodes[d] : n.num = num
  BY <1>1 DEF AttachInv, ChrootInv, ChrootType, ChrootOK, Owners
<1>3. /\ UNCHANGED <<sysMount, attached, spoilt, plugs, plugged>> /\ procMount' = procMount
      /\ ChrootOK(d) /\ ChrootType
  BY DEF AttachInv, ChrootInv, CloneNode, vars, usbVars
<1>4. CASE cmd[d].num \in Numbers(d) /\ Goto(d, "sys") /\ UNCHANGED nodes
  <2>1. HasFile(d, cmd[d].num)
    BY <1>2, <1>4 DEF Numbers, NodeType, HasFile
  <2>2. cmd'[d].step = "sys" /\ cmd'[d].num = cmd[d].num /\ ChrootType'
    BY <1>1, <1>3, <1>4, GotoType DEF ChrootType
  <2>6. Owners(d)' /\ Progress(d)'
    BY <1>2, <1>3, <1>4, <2>1, <2>2 DEF Owners, Progress, HasFile, OwnerOf
  <2>5. ChrootOK(d)'
    BY <1>1, <1>3, <1>4, <2>2, <2>6 DEF ChrootOK, KnownNumbers
  <2>3. ChrootInv'
    BY <1>1, <1>3, <1>4, <2>2, <2>5, GotoType, OneChroot
  <2>4. AttachedUsable'
    BY <1>3, <1>4 DEF AttachInv, AttachedUsable, OwnerOf, DevPath
  <2> QED BY <2>3, <2>4
<1>5. CASE /\ cmd[d].num \notin Numbers(d)
           /\ nodes' = [nodes EXCEPT ![d] = @ \cup {[num |-> cmd[d].num, owner |-> "root"]}]
           /\ Goto(d, "chown")
  <2>1. ChrootType'
    BY <1>1, <1>3, <1>5, GotoType DEF ChrootType, NodeType
  <2>2. nodes'[d] = nodes[d] \cup {[num |-> cmd[d].num, owner |-> "root"]}
    BY <1>3, <1>5 DEF ChrootType
  <2>6. cmd'[d].step = "chown" /\ cmd'[d].num = cmd[d].num
    BY <1>1, <1>3, <1>5, GotoType
  <2>7. KnownNumbers(d)'
    BY <1>1, <1>3, <2>6 DEF ChrootOK, KnownNumbers
  <2>9. \A n \in nodes'[d] : n.owner = OwnerOf(d, n.num) \/ n.num = cmd[d].num
    BY <1>2, <2>2
  <2>10. cmd[d].num \notin spoilt[d] /\ \A n \in nodes[d] : n.num # cmd[d].num
    BY <1>2, <1>5 DEF Numbers
  <2>11. \A num \in spoilt[d] : \E n \in nodes'[d] : n.num = num
    BY <1>2, <2>2
  <2>12. Owners(d)'
    BY <1>3, <2>6, <2>9, <2>11 DEF Owners, OwnerOf
  <2>13. /\ \E n \in nodes'[d] : n.num = cmd[d].num
         /\ \A n \in nodes'[d] : n.num = cmd[d].num => n.owner = "root"
    <3>1. PICK new : new = [num |-> cmd[d].num, owner |-> "root"]
      OBVIOUS
    <3>2. new.num = cmd[d].num /\ new.owner = "root" /\ nodes'[d] = nodes[d] \cup {new}
      BY <2>2, <3>1
    <3> QED BY <2>10, <3>2
  <2>8. Progress(d)'
    BY <1>3, <2>6, <2>10, <2>13 DEF Progress
  <2>3. ChrootOK(d)'
    BY <2>7, <2>8, <2>12 DEF ChrootOK
  <2>4. ChrootInv'
    BY <1>1, <1>3, <1>5, <2>1, <2>3, GotoType, OneChroot DEF ChrootType
  <2>5. AttachedUsable'
    BY <1>3, <1>5 DEF AttachInv, ChrootType, AttachedUsable, OwnerOf, DevPath
  <2> QED BY <2>4, <2>5
<1>6. CASE End(d) /\ UNCHANGED nodes
  <2>1. ChrootType' /\ cmd'[d].step = "idle"
    BY <1>3, <1>6, EndType DEF ChrootType
  <2>5. Owners(d)' /\ Progress(d)'
    BY <1>2, <1>3, <1>6, <2>1 DEF Owners, Progress, OwnerOf
  <2>4. ChrootOK(d)'
    BY <1>3, <2>1, <2>5 DEF ChrootOK, KnownNumbers
  <2>2. ChrootInv'
    BY <1>3, <1>6, <2>1, <2>4, EndType, OneChroot
  <2>3. AttachedUsable'
    BY <1>3, <1>6 DEF AttachInv, AttachedUsable, OwnerOf, DevPath
  <2> QED BY <2>2, <2>3
<1> QED BY <1>4, <1>5, <1>6 DEF CloneNode

\* It gets its owner; if this fails, the next attach does not repeat it.
LEMMA CloneChownStep ==
  ASSUME AttachInv, UNCHANGED vars, NEW d \in Domains, CloneChown(d)
  PROVE  ChrootInv' /\ AttachedUsable'
<1>1. /\ cmd[d].step = "chown" /\ cmd[d].num <= plugs
      /\ \E n \in nodes[d] : n.num = cmd[d].num
      /\ \A n \in nodes[d] : n.num = cmd[d].num => n.owner = "root"
      /\ cmd[d].num \notin spoilt[d]
      /\ cmd[d].num \in Nat
  BY BusyType DEF AttachInv, ChrootInv, ChrootOK, KnownNumbers, Progress, CloneChown
<1>3. nodes[d] \subseteq NodeType /\ ChrootOK(d) /\ ChrootType
  BY DEF AttachInv, ChrootInv, ChrootType
<1>4. /\ \A n \in nodes[d] : n.owner = OwnerOf(d, n.num) \/ n.num = cmd[d].num
      /\ \A num \in spoilt[d] : \E n \in nodes[d] : n.num = num
  BY <1>3 DEF ChrootOK, Owners
<1>8. UNCHANGED <<sysMount, procMount, attached, plugs, plugged>>
  BY DEF CloneChown, vars, usbVars
<1>2. ASSUME nodes' = [nodes EXCEPT ![d] =
                 {IF n.num = cmd[d].num THEN [n EXCEPT !.owner = "qemu"] ELSE n : n \in @}],
             Goto(d, "sys"), UNCHANGED spoilt
      PROVE  ChrootInv' /\ AttachedUsable'
  <2> DEFINE handed == {IF n.num = cmd[d].num THEN [n EXCEPT !.owner = "qemu"] ELSE n : n \in nodes[d]}
  <2>1. \A num : OwnerOf(d, num)' = OwnerOf(d, num)
    BY <1>2 DEF OwnerOf
  <2>2. OwnerOf(d, cmd[d].num) = "qemu"
    BY <1>1 DEF OwnerOf
  <2>3. handed \subseteq NodeType
    BY <1>3 DEF NodeType
  <2>4. \A n \in handed : n.owner = OwnerOf(d, n.num)
    BY <1>3, <1>4, <2>2 DEF NodeType
  <2>5. [num |-> cmd[d].num, owner |-> "qemu"] \in handed
    BY <1>1, <1>3 DEF NodeType
  <2>6. \A n \in nodes[d] : n.owner = OwnerOf(d, n.num) => n \in handed
    BY <1>3, <2>2 DEF NodeType
  <2>7. \A num \in spoilt[d] : \E n \in handed : n.num = num
    <3> SUFFICES ASSUME NEW num \in spoilt[d] PROVE \E n \in handed : n.num = num
      OBVIOUS
    <3>1. PICK n \in nodes[d] : n.num = num
      BY <1>4
    <3>2. n \in handed
      BY <1>1, <3>1
    <3> HIDE DEF handed
    <3> QED BY <3>1, <3>2
  <2>8. nodes' = [nodes EXCEPT ![d] = handed]
    BY <1>2
  <2> HIDE DEF handed
  <2>9. ChrootType' /\ nodes'[d] = handed
    BY <1>1, <1>2, <1>3, <1>8, <2>3, <2>8, GotoType DEF ChrootType
  <2>10. cmd'[d].step = "sys" /\ cmd'[d].num = cmd[d].num
    BY <1>1, <1>2, <1>3, GotoType
  <2>11. Owners(d)' /\ Progress(d)'
    BY <1>2, <2>2, <2>4, <2>5, <2>7, <2>9, <2>10 DEF Owners, Progress, HasFile, OwnerOf
  <2>12. ChrootOK(d)'
    BY <1>1, <1>3, <1>8, <2>10, <2>11 DEF ChrootOK, KnownNumbers
  <2>13. ChrootInv'
    BY <1>1, <1>2, <1>3, <1>8, <2>8, <2>9, <2>12, GotoType, OneChroot DEF ChrootType
  <2>14. \A a \in attached[d] : HasFile(d, a.num) => HasFile(d, a.num)'
    BY <1>3, <2>1, <2>6, <2>9 DEF HasFile, ChrootType
  <2>15. \A e \in Domains \ {d} : nodes'[e] = nodes[e] /\ spoilt'[e] = spoilt[e]
    BY <1>2, <1>3, <2>8 DEF ChrootType
  <2>16. AttachedUsable'
    BY <1>8, <2>14, <2>15 DEF AttachInv, AttachedUsable, HasFile, OwnerOf, DevPath
  <2> QED BY <2>13, <2>16
<1>5. ASSUME spoilt' = [spoilt EXCEPT ![d] = @ \cup {cmd[d].num}], End(d), UNCHANGED nodes
      PROVE  ChrootInv' /\ AttachedUsable'
  <2>1. spoilt'[d] = spoilt[d] \cup {cmd[d].num} /\ \A e \in Domains \ {d} : spoilt'[e] = spoilt[e]
    BY <1>3, <1>5 DEF ChrootType
  <2>2. ChrootType' /\ cmd'[d].step = "idle"
    BY <1>1, <1>3, <1>5, <1>8, EndType DEF ChrootType
  <2>3. \A n \in nodes[d] : n.owner = IF n.num \in spoilt'[d] THEN "root" ELSE "qemu"
    BY <1>1, <1>4, <2>1 DEF OwnerOf
  <2>4. Owners(d)' /\ Progress(d)'
    <3>1. \A num \in spoilt'[d] : \E n \in nodes'[d] : n.num = num
      BY <1>1, <1>4, <1>5, <2>1
    <3> QED BY <1>5, <2>2, <2>3, <3>1 DEF Owners, Progress, OwnerOf
  <2>5. ChrootOK(d)'
    BY <1>3, <1>8, <2>2, <2>4 DEF ChrootOK, KnownNumbers
  <2>6. ChrootInv'
    BY <1>3, <1>5, <1>8, <2>1, <2>2, <2>5, EndType, OneChroot
  <2>7. \A a \in attached[d] : HasFile(d, a.num) => HasFile(d, a.num)'
    BY <1>5, <2>3 DEF HasFile, OwnerOf
  <2>8. AttachedUsable'
    BY <1>5, <1>8, <2>1, <2>7 DEF AttachInv, AttachedUsable, HasFile, OwnerOf, DevPath
  <2> QED BY <2>6, <2>8
<1> QED BY <1>2, <1>5 DEF CloneChown

\* /sys is mounted in the chroot.
LEMMA MountSysStep ==
  ASSUME AttachInv, UNCHANGED vars, NEW d \in Domains, AttachMountSys(d)
  PROVE  ChrootInv' /\ AttachedUsable'
<1>1. /\ cmd[d].step = "sys" /\ cmd[d].num <= plugs
      /\ HasFile(d, cmd[d].num) /\ Owners(d)
      /\ cmd[d].num \in Nat /\ ChrootOK(d) /\ ChrootType
  BY BusyType DEF AttachInv, ChrootInv, ChrootOK, KnownNumbers, Owners, Progress, HasFile, OwnerOf,
       AttachMountSys
<1>2. UNCHANGED <<nodes, procMount, attached, spoilt, plugs, plugged>>
  BY DEF AttachMountSys, vars, usbVars
<1>3. ASSUME sysMount' = [sysMount EXCEPT ![d] = TRUE], Goto(d, "proc")
      PROVE  ChrootInv'
  <2>1. cmd'[d].step = "proc" /\ cmd'[d].num = cmd[d].num
    BY <1>1, <1>3, GotoType
  <2>2. ChrootType' /\ sysMount'[d] = TRUE
    BY <1>1, <1>2, <1>3, GotoType DEF ChrootType
  <2>3. ChrootOK(d)'
    BY <1>1, <1>2, <2>1, <2>2 DEF ChrootOK, KnownNumbers, Owners, Progress, HasFile, OwnerOf
  <2>4. ChrootInv'
    BY <1>1, <1>2, <1>3, <2>2, <2>3, GotoType, OneChroot DEF ChrootType
  <2> QED BY <2>4
<1>4. ASSUME End(d), UNCHANGED sysMount
      PROVE  ChrootInv'
  <2>1. ChrootType' /\ cmd'[d].step = "idle"
    BY <1>1, <1>2, <1>4, EndType DEF ChrootType
  <2>2. ChrootOK(d)'
    <3>1. \A n \in nodes[d] : n.owner = OwnerOf(d, n.num)
      BY <1>1 DEF Owners
    <3>2. Owners(d)' /\ Progress(d)'
      BY <1>1, <1>2, <2>1, <3>1 DEF Owners, Progress, OwnerOf
    <3> QED BY <1>1, <1>2, <2>1, <3>2 DEF ChrootOK, KnownNumbers
  <2>3. ChrootInv'
    BY <1>1, <1>2, <1>4, <2>1, <2>2, EndType, OneChroot
  <2> QED BY <2>3
<1>5. AttachedUsable'
  BY DEF AttachInv, ChrootInv, ChrootType, AttachedUsable, OwnerOf, AttachMountSys, vars, usbVars, DevPath
<1>6. ChrootInv'
  BY <1>3, <1>4 DEF AttachMountSys
<1> QED BY <1>5, <1>6

\* /proc/self is, and the device is attached.
LEMMA MountProcStep ==
  ASSUME AttachInv, UNCHANGED vars, NEW d \in Domains, AttachMountProc(d)
  PROVE  ChrootInv' /\ AttachedUsable'
<1>1. /\ cmd[d].step = "proc" /\ cmd[d].num <= plugs
      /\ HasFile(d, cmd[d].num) /\ sysMount[d] /\ Owners(d)
      /\ cmd[d].num \in Nat /\ cmd[d].port \in Ports /\ ChrootOK(d) /\ ChrootType
  BY BusyType DEF AttachInv, ChrootInv, ChrootOK, KnownNumbers, Owners, Progress, HasFile, OwnerOf,
       AttachMountProc
<1>2. UNCHANGED <<nodes, sysMount, spoilt, plugs, plugged>> /\ End(d)
  BY DEF AttachMountProc, vars, usbVars
<1> DEFINE new == [port |-> cmd[d].port, num |-> cmd[d].num]
<1>7. new \in [port : Ports, num : Nat] /\ new.num = cmd[d].num
  BY <1>1
<1>8. /\ procMount' = [procMount EXCEPT ![d] = TRUE] \/ procMount' = procMount
      /\ attached' = [attached EXCEPT ![d] = @ \cup {new}] \/ attached' = attached
  BY DEF AttachMountProc
<1> HIDE DEF new
<1>10. procMount' \in [Domains -> BOOLEAN]
  BY <1>1, <1>8 DEF ChrootType
<1>11. attached' \in [Domains -> SUBSET [port : Ports, num : Nat]]
  BY <1>1, <1>7, <1>8 DEF ChrootType
<1>3. /\ attached'[d] \subseteq attached[d] \cup {new}
      /\ \A e \in Domains \ {d} : attached'[e] = attached[e]
  BY <1>1, <1>8 DEF ChrootType
<1>4. ChrootType' /\ cmd'[d].step = "idle"
  BY <1>1, <1>2, <1>10, <1>11, EndType DEF ChrootType
<1>9. ChrootOK(d)'
  <2>1. \A n \in nodes[d] : n.owner = OwnerOf(d, n.num)
    BY <1>1 DEF Owners
  <2>2. Owners(d)' /\ Progress(d)'
    BY <1>1, <1>2, <1>4, <2>1 DEF Owners, Progress, OwnerOf
  <2> QED BY <1>1, <1>2, <1>3, <1>4, <1>7, <2>2 DEF ChrootOK, KnownNumbers
<1>5. ChrootInv'
  BY <1>1, <1>2, <1>3, <1>4, <1>9, EndType, OneChroot
<1>6. AttachedUsable'
  <2>1. \A a \in attached'[d] : a \in attached[d] \/ (HasFile(d, a.num) /\ sysMount[d] /\ procMount'[d])
    BY <1>1 DEF AttachMountProc, ChrootType
  <2>2. \A e \in Domains : procMount[e] => procMount'[e]
    BY <1>1, <1>8 DEF ChrootType
  <2> QED BY <1>2, <1>3, <2>1, <2>2 DEF AttachInv, AttachedUsable, HasFile, OwnerOf, DevPath
<1> QED BY <1>5, <1>6

(* Another device keeps its file: it has another number. *)
LEMMA DetachStep ==
  ASSUME AttachInv, UNCHANGED vars, NEW d \in Domains, NEW p \in Ports, Detach(d, p)
  PROVE  ChrootInv' /\ AttachedUsable'
<1>1. PICK n \in DevPath(p) :
        /\ nodes' = [nodes EXCEPT ![d] = {m \in @ : m.num # n}]
        /\ spoilt' = [spoilt EXCEPT ![d] = @ \ {n}]
        /\ attached' = [attached EXCEPT ![d] = {a \in @ : a.port # p}]
  BY DEF Detach, Remove
<1>2. \A q \in Ports : n \in DevPath(q) => p = q
  BY DevPathUnique DEF AttachInv
<1>3. /\ UNCHANGED <<cmd, sysMount, procMount, plugs, plugged>> /\ cmd[d].step = "idle"
      /\ ChrootOK(d) /\ ChrootType
  BY DEF AttachInv, ChrootInv, Detach, vars, usbVars
<1>4. ChrootType'
  BY <1>1, <1>3 DEF ChrootType
<1>8. \A num : num # n => OwnerOf(d, num)' = OwnerOf(d, num)
  BY <1>1, <1>3 DEF ChrootType, OwnerOf
<1>9. /\ nodes'[d] = {m \in nodes[d] : m.num # n} /\ spoilt'[d] = spoilt[d] \ {n}
      /\ attached'[d] = {a \in attached[d] : a.port # p}
  BY <1>1, <1>3 DEF ChrootType
<1>10. Owners(d)'
  BY <1>3, <1>8, <1>9 DEF ChrootOK, Owners
<1>5. ChrootOK(d)'
  BY <1>3, <1>9, <1>10 DEF ChrootOK, KnownNumbers, Progress
<1>6. ChrootInv'
  BY <1>1, <1>3, <1>4, <1>5, OneChroot DEF ChrootType
<1>11. \A e \in Domains \ {d} :
          nodes'[e] = nodes[e] /\ attached'[e] = attached[e] /\ spoilt'[e] = spoilt[e]
  BY <1>1, <1>3 DEF ChrootType
<1>12. \A a \in attached'[d] : a.num \in DevPath(a.port) /\ HasFile(d, a.num) => HasFile(d, a.num)'
  BY <1>2, <1>3, <1>8, <1>9 DEF ChrootType, HasFile
<1>7. AttachedUsable'
  BY <1>3, <1>9, <1>11, <1>12 DEF AttachInv, AttachedUsable, HasFile, OwnerOf, DevPath
<1> QED BY <1>6, <1>7

\* detach and cleanup take it all away, or fail on the way.
LEMMA CleanupStep ==
  ASSUME AttachInv, UNCHANGED vars, NEW d \in Domains, NEW s \in BOOLEAN, NEW q \in BOOLEAN,
         Cleanup(d, s, q)
  PROVE  ChrootInv' /\ AttachedUsable'
<1>1. ChrootInv /\ ChrootType /\ UNCHANGED plugs
  BY DEF AttachInv, ChrootInv, vars, usbVars
<1>2. ChrootType' /\ ChrootOK(d)'
  BY <1>1 DEF ChrootInv, ChrootType, ChrootOK, KnownNumbers, Owners, Progress, HasFile, OwnerOf, Cleanup
<1>3. ChrootInv'
  BY <1>1, <1>2, OneChroot DEF ChrootType, Cleanup
<1>4. AttachedUsable'
  BY <1>1 DEF AttachInv, ChrootType, AttachedUsable, OwnerOf, Cleanup, vars, usbVars, DevPath
<1> QED BY <1>3, <1>4

(* What was attached and is still plugged in has its file and the mounts,  *)
(* whatever stopped half way and was detached; the file is QEMU's, unless  *)
(* its chown failed and no detach or cleanup has removed it since.         *)
THEOREM AttachedDevicesUsable == Spec => []AttachedUsable
<1>1. AttachInv /\ [Next]_allVars => AttachInv'
  <2> SUFFICES ASSUME AttachInv, [Next]_allVars PROVE AttachInv'
    OBVIOUS
  <2>1. HostInv'
    BY NextHost DEF AttachInv
  <2>2. CASE UNCHANGED resetVars
    BY <2>1, <2>2, HostKeepsAttached DEF AttachInv
  <2>3. ASSUME NEW d \in Domains, Command(d), UNCHANGED vars
        PROVE  ChrootInv' /\ AttachedUsable'
    BY <2>3, AttachStep, CloneNodeStep, CloneChownStep, MountSysStep, MountProcStep,
       DetachStep, CleanupStep DEF Command, UmountFails
  <2> QED BY <2>1, <2>2, <2>3 DEF AttachInv, Next, allVars
<1>2. AttachInv => AttachedUsable
  BY DEF AttachInv
<1> QED BY AttachInitial, <1>1, <1>2, PTL DEF Spec

-----------------------------------------------------------------------------
(* The rules *)

(* What the first of the rules that match says of an interface. *)
Admits(model, class) ==
    \E r \in DOMAIN RuleList :
        /\ RuleList[r].allow /\ MatchDeviceInterface(RuleList[r], model, class)
        /\ \A q \in DOMAIN RuleList :
            q < r => ~MatchDeviceInterface(RuleList[q], model, class)

(* Going through 1..n until the first member of M tells whether that       *)
(* member is in A; no member, no.                                          *)
LEMMA FirstOf ==
  ASSUME NEW n \in Nat, NEW M \in SUBSET (1..n), NEW A, NEW f,
         ~f[n + 1],
         \A k \in 1..n : (k \in M => (f[k] <=> k \in A)) /\ (k \notin M => (f[k] <=> f[k + 1]))
  PROVE  f[1] <=> \E r \in M : r \in A /\ \A q \in M : ~(q < r)
<1> DEFINE First(k) == \E r \in M : k <= r /\ r \in A /\ \A q \in M : k <= q => ~(q < r)
           Wrong(k) == ~(f[k] <=> First(k))
           T == {m \in 0..n : Wrong(n + 1 - m)}
<1> HIDE DEF Wrong, First
<1>1. T = {}
  <2> SUFFICES ASSUME T # {} PROVE FALSE
    OBVIOUS
  <2>1. T \subseteq Nat
    OBVIOUS
  <2>2. PICK m \in T : \A y \in T : ~(<<y, m>> \in OpToRel(<, Nat))
    BY <2>1, NatLessThanWellFounded, WFMin
  <2>3. m \in 0..n /\ \A y \in T : ~(y < m)
    BY <2>1, <2>2 DEF OpToRel
  <2> DEFINE k == n + 1 - m
  <2>4. k \in 1..(n + 1) /\ Wrong(k)
    <3>1. k \in 1..(n + 1)
      BY <2>3
    <3>2. Wrong(n + 1 - m)
      BY <2>2
    <3> QED BY <3>1, <3>2
  <2>5. CASE k = n + 1
    BY <2>4, <2>5 DEF Wrong, First
  <2>6. CASE k # n + 1
    <3>1. k \in 1..n /\ m - 1 \in 0..n /\ m - 1 < m /\ n + 1 - (m - 1) = k + 1
      BY <2>3, <2>4, <2>6
    <3>2. m - 1 \notin T
      BY <2>3, <3>1
    <3>3. f[k + 1] <=> First(k + 1)
      <4>1. ~Wrong(k + 1)
        BY <3>1, <3>2
      <4> QED BY <4>1 DEF Wrong
    <3> HIDE DEF k
    <3>4. CASE k \in M
      <4>1. First(k) <=> k \in A
        BY <3>1, <3>4 DEF First
      <4> QED BY <2>4, <3>1, <3>4, <4>1 DEF Wrong
    <3>5. CASE k \notin M
      <4>1. \A r \in M : k <= r <=> k + 1 <= r
        BY <3>1, <3>5
      <4>2. First(k) <=> First(k + 1)
        BY <4>1 DEF First
      <4> QED BY <2>4, <3>1, <3>3, <3>5, <4>2 DEF Wrong
    <3> QED BY <3>4, <3>5
  <2> QED BY <2>5, <2>6
<1>2. n \in 0..n /\ n + 1 - n = 1
  OBVIOUS
<1>3. f[1] <=> First(1)
  <2>1. ~Wrong(1)
    BY <1>1, <1>2
  <2> QED BY <2>1 DEF Wrong
<1>4. \A r \in M : 1 <= r
  OBVIOUS
<1> QED BY <1>3, <1>4 DEF First

(* The policy's lines are numbered, and so are the rules. *)
LEMMA RuleNumbers ==
  ASSUME policy \in PolicyFiles
  PROVE  Len(policy) \in Nat /\ DOMAIN RuleList \subseteq 1..Len(policy)
<1>1. policy \in Seq({policy[k] : k \in DOMAIN policy})
  BY PolicyAssumption
<1>2. Len(policy) \in Nat /\ DOMAIN policy = 1..Len(policy)
  BY <1>1
<1> QED BY <1>2 DEF RuleList

(* check, of usb_scan.py: every interface is admitted by the first rule    *)
(* that matches it.                                                        *)
LEMMA CheckAdmits ==
  ASSUME policy \in PolicyFiles, NEW model, NEW classes
  PROVE  Check(model, classes) <=> \A class \in classes : Admits(model, class)
<1> DEFINE n == Len(policy)
           Match(k, class) == MatchDeviceInterface(RuleList[k], model, class)
           Body(f, class) ==
               [k \in 1..(n + 1) |->
                   IF k > n THEN FALSE
                   ELSE IF k \in DOMAIN RuleList /\ Match(k, class)
                   THEN RuleList[k].allow ELSE f[k + 1]]
           After(class) == CHOOSE f : f = Body(f, class)
<1>1. Check(model, classes) <=> \A class \in classes : After(class)[1]
  BY DEF Check
<1>2. n \in Nat /\ DOMAIN RuleList \subseteq 1..n
  BY RuleNumbers
<1>3. \A r \in DOMAIN RuleList : RuleList[r].allow \in BOOLEAN
  BY DEF RuleList, RuleOf
<1>4. ASSUME NEW class PROVE After(class)[1] <=> Admits(model, class)
  <2> DEFINE D == DOMAIN RuleList
             M == {k \in D : Match(k, class)}
             A == {k \in D : RuleList[k].allow}
             First(k) == \E r \in M : k <= r /\ r \in A /\ \A q \in M : k <= q => ~(q < r)
             F == [k \in 1..(n + 1) |-> First(k)]
  <2>1. M \in SUBSET (1..n) /\ \A k \in D : (k \in A <=> RuleList[k].allow) /\ (k \in M <=> Match(k, class))
    BY <1>2
  <2> HIDE DEF D, M, A, Match, n
  <2>2. F = Body(F, class)
    <3>1. ASSUME NEW k \in 1..(n + 1), k > n PROVE ~First(k)
      BY <1>2, <2>1, <3>1
    <3>2. ASSUME NEW k \in 1..(n + 1), ~(k > n), k \in M PROVE First(k) <=> k \in A
      BY <1>2, <2>1, <3>2
    <3>3. ASSUME NEW k \in 1..(n + 1), ~(k > n), k \notin M PROVE First(k) <=> First(k + 1)
      BY <1>2, <2>1, <3>3
    <3> HIDE DEF First
    <3>4. ASSUME NEW k \in 1..(n + 1) PROVE F[k] = Body(F, class)[k]
      <4> DEFINE G == F
                 rule == RuleList[k].allow
      <4>1. F[k] = First(k)
        OBVIOUS
      <4>2. ~(k > n) => k + 1 \in 1..(n + 1)
        BY <1>2
      <4>3. ~(k > n) => F[k + 1] = First(k + 1)
        BY <4>2
      <4>4. Body(G, class)[k] = IF k > n THEN FALSE
                                ELSE IF k \in D /\ Match(k, class) THEN rule ELSE G[k + 1]
        BY DEF D
      <4>5. k \in D /\ Match(k, class) <=> k \in M
        BY DEF M
      <4>6. k \in M => rule = (k \in A)
        BY <1>3, <2>1 DEF D, M
      <4>7. First(k) \in BOOLEAN /\ (~(k > n) => First(k + 1) \in BOOLEAN)
        BY DEF First
      <4> HIDE DEF G, rule, Body
      <4>8. F[k] = Body(G, class)[k]
        <5> HIDE DEF F
        <5>1. CASE k > n
          BY <3>1, <4>1, <4>4, <4>7, <5>1
        <5>2. CASE ~(k > n) /\ k \in M
          BY <3>2, <4>1, <4>4, <4>5, <4>6, <4>7, <5>2
        <5>3. CASE ~(k > n) /\ k \notin M
          <6>1. F[k] = F[k + 1]
            BY <3>3, <4>1, <4>3, <4>7, <5>3
          <6> QED BY <4>4, <4>5, <5>3, <6>1 DEF G
        <5> QED BY <5>1, <5>2, <5>3
      <4> QED BY <4>8 DEF G
    <3> QED BY <3>4
  <2> HIDE DEF First
  <2> DEFINE f == After(class)
  <2>3. f = Body(f, class)
    BY <2>2
  <2> HIDE DEF After, F, f
  <2>4. ~f[n + 1]
    BY <1>2, <2>3
  <2>5. \A k \in 1..n : (k \in M => (f[k] <=> k \in A)) /\ (k \notin M => (f[k] <=> f[k + 1]))
    <3> SUFFICES ASSUME NEW k \in 1..n
                 PROVE  (k \in M => (f[k] <=> k \in A)) /\ (k \notin M => (f[k] <=> f[k + 1]))
      OBVIOUS
    <3>1. k \in 1..(n + 1) /\ ~(k > n)
      BY <1>2
    <3>2. f[k] = IF k \in D /\ Match(k, class) THEN RuleList[k].allow ELSE f[k + 1]
      BY <2>3, <3>1 DEF D
    <3>3. k \in D /\ Match(k, class) <=> k \in M
      BY DEF M
    <3>4. k \in M => (RuleList[k].allow <=> k \in A)
      BY <2>1, <3>3
    <3> QED BY <3>2, <3>3, <3>4
  <2>6. f[1] <=> \E r \in M : r \in A /\ \A q \in M : ~(q < r)
    BY <1>2, <2>1, <2>4, <2>5, FirstOf
  <2>7. Admits(model, class) <=> \E r \in M : r \in A /\ \A q \in M : ~(q < r)
    BY <2>1 DEF Admits, D, M, A, Match
  <2> QED BY <2>6, <2>7 DEF f
<1> QED BY <1>1, <1>4

-----------------------------------------------------------------------------
(* What a scan has listed *)

ListedType == [port : Ports, num : Nat, model : Models]
FoundType == [port : Ports, num : Nat, index : Nat, class : Nat]

(* The device a listed one was, if it is still there, has its model; so    *)
(* have the interfaces found after it, if they are of the same device.     *)
SameModel(d) == \A e \in plugged[d.port] : e.num = d.num => e.model = d.model
PartOf(i, model) ==
    /\ i.index \in 1..Len(model.ifs)
    /\ i.class = model.ifs[i.index] /\ i.class # HUB
ScanInv ==
    /\ policy \in PolicyFiles
    /\ devices \subseteq ListedType /\ interfaces \subseteq FoundType
    /\ \A d \in devices : d.model.class # HUB /\ d.num <= plugs /\ SameModel(d)
    /\ scan \in {"interfaces", "idle"} =>
        \A d \in devices, i \in interfaces :
            i.port = d.port /\ i.num = d.num => PartOf(i, d.model)

OfferedInv == HostInv /\ ScanInv /\ OfferedAllowed

\* The interfaces of a device.
LEMMA ModelType ==
  ASSUME NEW m \in Models
  PROVE  Len(m.ifs) \in Nat /\ DOMAIN m.ifs = 1..Len(m.ifs) /\ \A k \in 1..Len(m.ifs) : m.ifs[k] \in Nat
<1>1. m.ifs \in Seq(Nat)
  BY ModelsAssumption
<1> QED BY <1>1

(* Interfaces with numbers of their own among n are n if they have all.    *)
LEMMA AllIndices ==
  ASSUME NEW S, NEW n \in Nat, \A i \in S : i.index \in 1..n,
         \A i, j \in S : i.index = j.index => i = j
  PROVE  Cardinality(S) = n <=> \A k \in 1..n : \E i \in S : i.index = k
<1> DEFINE f == [i \in S |-> i.index]
<1>1. f \in Injection(S, 1..n)
  BY DEF Injection, IsInjective
<1>2. IsFiniteSet(1..n) /\ Cardinality(1..n) = n
  BY FS_Interval
<1>3. Cardinality(S) = n <=> f \in Surjection(S, 1..n)
  BY <1>1, <1>2, FS_Injection
<1>4. f \in Surjection(S, 1..n) <=> \A k \in 1..n : \E i \in S : i.index = k
  BY DEF Surjection
<1> QED BY <1>3, <1>4

\* What is allowed, with every rule's decision spelled out.
LEMMA AllowedAdmits ==
  ASSUME NEW m \in Models
  PROVE  Allowed(m) <=> /\ m.class # HUB /\ Len(m.ifs) > 0
                        /\ \A k \in 1..Len(m.ifs) : m.ifs[k] # HUB /\ Admits(m, m.ifs[k])
  BY ModelType DEF Allowed, Admits

\* Nothing is offered at first.
LEMMA OfferedInitial == Init => OfferedInv
<1> SUFFICES ASSUME Init PROVE OfferedInv
  OBVIOUS
<1>1. HostInv
  BY HostInitial
<1>2. ScanInv /\ OfferedAllowed
  BY DEF Init, ScanInv, OfferedAllowed
<1> QED BY <1>1, <1>2 DEF OfferedInv

\* Devices that come and go do not change what was listed.
LEMMA HotplugOffered ==
  ASSUME OfferedInv, Hotplug
  PROVE  ScanInv' /\ OfferedAllowed'
<1>1. UNCHANGED <<policy, scan, devices, interfaces, pusbs>>
  BY DEF Hotplug, scanVars
<1>2. plugs \in Nat /\ plugs' \in Nat /\ devices \subseteq ListedType
  BY HotplugHost DEF OfferedInv, HostInv, ScanInv
<1>3. plugs <= plugs'
  BY <1>2 DEF Hotplug, Plug, InterfaceUp, StartLeaving, Unplug
<1>4. ASSUME NEW d \in devices PROVE SameModel(d)' /\ d.num <= plugs'
  <2>1. d.num <= plugs /\ SameModel(d) /\ d.num \in Nat /\ d.port \in Ports
    BY <1>2 DEF OfferedInv, ScanInv, ListedType
  <2>2. ASSUME NEW p \in Ports, NEW m \in Models, Plug(p, m) PROVE SameModel(d)'
    <3>1. Device(plugs + 1, m).num = plugs + 1
      BY DEF Device
    <3> QED BY <2>1, <2>2, <1>2, <3>1 DEF Plug, SameModel, OfferedInv, HostInv
  <2>3. ASSUME NEW p \in Ports, InterfaceUp(p) \/ StartLeaving(p) PROVE SameModel(d)'
    <3>1. PICK e \in plugged[p] :
            \E f \in {[e EXCEPT !.up = @ + 1], [e EXCEPT !.leaving = TRUE]} :
                plugged' = [plugged EXCEPT ![p] = {f}]
      BY <2>3 DEF InterfaceUp, StartLeaving
    <3>3. PICK f \in {[e EXCEPT !.up = @ + 1], [e EXCEPT !.leaving = TRUE]} :
            plugged' = [plugged EXCEPT ![p] = {f}]
      BY <3>1
    <3>2. f.num = e.num /\ f.model = e.model
      BY <3>1 DEF OfferedInv, HostInv, DeviceType
    <3> QED BY <2>1, <3>3, <3>2 DEF SameModel, OfferedInv, HostInv
  <2>4. ASSUME NEW p \in Ports, Unplug(p) PROVE SameModel(d)'
    BY <2>1, <2>4 DEF Unplug, SameModel, OfferedInv, HostInv
  <2>5. SameModel(d)'
    BY <2>2, <2>3, <2>4 DEF Hotplug
  <2> QED BY <1>2, <1>3, <2>1, <2>5
<1>5. ScanInv'
  BY <1>1, <1>4 DEF OfferedInv, ScanInv, PartOf
<1>6. OfferedAllowed'
  BY <1>1 DEF OfferedInv, OfferedAllowed, InterfacesOf, Allowed, RuleList
<1> QED BY <1>5, <1>6

\* The devices are listed.
LEMMA ListDevicesOffered ==
  ASSUME OfferedInv, ListDevices
  PROVE  ScanInv' /\ OfferedAllowed'
<1>1. scan' \in {"failed", "devices"} /\ UNCHANGED <<plugged, plugs, policy, interfaces>>
  BY DEF ListDevices, usbVars
<1>2. ASSUME NEW d \in devices' 
      PROVE  \E p \in Ports : \E e \in plugged[p] : e.model.class # HUB /\ d = Listed(p, e)
  BY DEF ListDevices
<1>3. ASSUME NEW d \in devices'
      PROVE  d \in ListedType /\ d.model.class # HUB /\ d.num <= plugs /\ SameModel(d)
  <2>6. PICK p \in Ports : \E e \in plugged[p] : e.model.class # HUB /\ d = Listed(p, e)
    BY <1>2
  <2>1. PICK e \in plugged[p] : e.model.class # HUB /\ d = Listed(p, e)
    BY <2>6
  <2>2. e \in DeviceType /\ e.num <= plugs
    BY DEF OfferedInv, HostInv
  <2>3. d.port = p /\ d.num = e.num /\ d.model = e.model /\ d \in ListedType
    BY <2>1, <2>2 DEF Listed, ListedType, DeviceType
  <2>4. SameModel(d)
    BY <2>1, <2>3 DEF SameModel, OfferedInv, HostInv
  <2> QED BY <2>1, <2>2, <2>3, <2>4
<1>4. ScanInv'
  BY <1>1, <1>3 DEF OfferedInv, ScanInv, SameModel
<1> QED BY <1>1, <1>4 DEF OfferedAllowed

(* What get_usb_info's second loop finds. *)
Found == UNION {UNION {{Interface(p, d, k) : k \in Usable(d)} : d \in plugged[p]} : p \in Ports}

\* What the second listing finds is an interface of a device that is there.
LEMMA FoundParts ==
  ASSUME HostInv, NEW i \in Found
  PROVE  /\ i \in FoundType
         /\ \E e \in plugged[i.port] : i.num = e.num /\ i.index \in Usable(e) /\ PartOf(i, e.model)
<1>1. PICK p \in Ports : \E e \in plugged[p] : \E k \in Usable(e) : i = Interface(p, e, k)
  BY DEF Found
<1>2. PICK e \in plugged[p] : \E k \in Usable(e) : i = Interface(p, e, k)
  BY <1>1
<1>3. PICK k \in Usable(e) : i = Interface(p, e, k)
  BY <1>2
<1>4. e \in DeviceType /\ e.up <= Len(e.model.ifs) /\ e.up \in Nat /\ e.model \in Models /\ e.num \in Nat
  BY DEF HostInv, DeviceType
<1>5. k \in 1..Len(e.model.ifs) /\ e.model.ifs[k] \in Nat /\ e.model.ifs[k] # HUB
  BY <1>4, ModelType DEF Usable
<1>6. i.port = p /\ i.num = e.num /\ i.index = k /\ i.class = e.model.ifs[k]
  BY <1>3 DEF Interface
<1>7. i \in FoundType
  BY <1>3, <1>4, <1>5 DEF Interface, FoundType
<1> QED BY <1>5, <1>6, <1>7 DEF PartOf

\* The interfaces are listed.
LEMMA ListInterfacesOffered ==
  ASSUME OfferedInv, ListInterfaces
  PROVE  ScanInv' /\ OfferedAllowed'
<1>1. scan' = "interfaces" /\ UNCHANGED <<plugged, plugs, policy, devices>> /\ interfaces' = Found
  BY DEF ListInterfaces, usbVars, Found
<1>2. HostInv /\ ScanInv
  BY DEF OfferedInv
<1>3. ASSUME NEW d \in devices, NEW i \in Found, i.port = d.port, i.num = d.num
      PROVE  PartOf(i, d.model)
  <2>1. PICK e \in plugged[i.port] : i.num = e.num /\ PartOf(i, e.model)
    BY <1>2, FoundParts
  <2>2. e.model = d.model
    BY <1>2, <1>3, <2>1 DEF ScanInv, SameModel
  <2> QED BY <2>1, <2>2
<1>4. interfaces' \subseteq FoundType
  BY <1>1, <1>2, FoundParts
<1>5. \A d \in devices : SameModel(d)'
  BY <1>1, <1>2 DEF ScanInv, SameModel
<1>6. ScanInv'
  BY <1>1, <1>2, <1>3, <1>4, <1>5 DEF ScanInv, PartOf
<1> QED BY <1>1, <1>6 DEF OfferedAllowed

(* A device that is ready and passes the check is allowed. *)
LEMMA ReadyAllowed ==
  ASSUME ScanInv, scan = "interfaces", NEW d \in devices, IsReady(d),
         Check(d.model, {i.class : i \in InterfacesOf(d)}), \A i \in InterfacesOf(d) : i.num = d.num
  PROVE  Allowed(d.model)
<1> DEFINE S == InterfacesOf(d)
           n == Len(d.model.ifs)
<1>1. d.model \in Models /\ d.model.class # HUB /\ policy \in PolicyFiles
  BY DEF ScanInv, ListedType
<1>2. n \in Nat /\ n > 0 /\ Cardinality(S) = n
  BY <1>1, ModelType DEF IsReady
<1>3. \A i \in S : PartOf(i, d.model) /\ i \in FoundType /\ i.port = d.port /\ i.num = d.num
  BY DEF ScanInv, InterfacesOf
<1>4. \A i, j \in S : i.index = j.index => i = j
  BY <1>3 DEF PartOf, FoundType
<1>5. \A i \in S : Admits(d.model, i.class)
  BY <1>1, CheckAdmits
<1> HIDE DEF S
<1>6. \A i \in S : i.index \in 1..n
  BY <1>3 DEF PartOf
<1>7. \A k \in 1..n : \E i \in S : i.index = k
  BY <1>2, <1>4, <1>6, AllIndices
<1>8. \A k \in 1..n : d.model.ifs[k] # HUB /\ Admits(d.model, d.model.ifs[k])
  BY <1>3, <1>5, <1>7 DEF PartOf
<1> QED BY <1>1, <1>2, <1>8, AllowedAdmits

\* Devices and interfaces are put together and checked.
LEMMA MakePusbsListOffered ==
  ASSUME OfferedInv, MakePusbsList
  PROVE  ScanInv' /\ OfferedAllowed'
<1>1. /\ scan = "interfaces" /\ UNCHANGED <<plugged, plugs, policy, devices, interfaces>>
      /\ scan' \in {"idle", "failed"} /\ ScanInv
      /\ scan' = "idle" => pusbs' = {d \in devices : IsReady(d) /\
                                        Check(d.model, {i.class : i \in InterfacesOf(d)})}
  BY DEF MakePusbsList, usbVars, OfferedInv
<1>2. ScanInv'
  BY <1>1 DEF ScanInv, SameModel, PartOf
<1>3. ASSUME scan' = "idle", NEW d \in pusbs', \A i \in InterfacesOf(d) : i.num = d.num
      PROVE  Allowed(d.model)
  BY <1>1, <1>3, ReadyAllowed
<1>4. OfferedAllowed'
  BY <1>1, <1>3 DEF OfferedAllowed, InterfacesOf, Allowed, RuleList
<1> QED BY <1>2, <1>4

\* The invariant is inductive.
LEMMA OfferedStep ==
  ASSUME OfferedInv, [Next]_allVars
  PROVE  OfferedInv'
<1>1. HostInv'
  BY NextHost DEF OfferedInv
<1>2. CASE Rescan
  <2>1. UNCHANGED <<plugged, plugs, policy>> /\ devices' = {} /\ interfaces' = {}
    BY <1>2 DEF Rescan, usbVars
  <2>2. ScanInv' /\ OfferedAllowed'
    BY <2>1 DEF OfferedInv, ScanInv, OfferedAllowed
  <2> QED BY <1>1, <2>2 DEF OfferedInv
<1>3. CASE UNCHANGED vars
  <2>1. UNCHANGED <<plugged, plugs, policy, scan, devices, interfaces, pusbs>>
    BY <1>3 DEF vars, usbVars, scanVars
  <2>2. ScanInv'
    BY <2>1 DEF OfferedInv, ScanInv, SameModel, PartOf
  <2>3. OfferedAllowed'
    BY <2>1 DEF OfferedInv, OfferedAllowed, InterfacesOf, Allowed, RuleList
  <2> QED BY <1>1, <2>2, <2>3 DEF OfferedInv
<1> QED
  BY <1>1, <1>2, <1>3, HotplugOffered, ListDevicesOffered, ListInterfacesOffered,
     MakePusbsListOffered DEF OfferedInv, Next, Scan, allVars

(* The device at a port may be replaced between the two listings; short of *)
(* that, no device is offered unless the policy admits all its interfaces, *)
(* whatever the file says and whatever was plugged in meanwhile.           *)
THEOREM OfferedDevicesAllowed == Spec => []OfferedAllowed
<1>1. OfferedInv /\ [Next]_allVars => OfferedInv'
  BY OfferedStep
<1>2. OfferedInv => OfferedAllowed
  BY DEF OfferedInv
<1> QED BY OfferedInitial, <1>1, <1>2, PTL DEF Spec, ResetInit

-----------------------------------------------------------------------------
(* A scan that nothing disturbs: what it listed is what is there. *)
QuietInv ==
    quiet /\ devices # {} =>
        /\ \A d \in devices : \E e \in plugged[d.port] :
               ~e.leaving /\ e.num = d.num /\ e.model = d.model
        /\ scan \in {"interfaces", "idle"} => interfaces = Found

ExactInv == HostInv /\ ScanInv /\ QuietInv /\ QuietScanExact

(* Then ready and checked is the same as set up and allowed. *)
LEMMA ReadyExact ==
  ASSUME HostInv, ScanInv, interfaces = Found, NEW d \in devices, NEW e \in plugged[d.port],
         ~e.leaving, e.num = d.num, e.model = d.model
  PROVE  IsReady(d) /\ Check(d.model, {i.class : i \in InterfacesOf(d)})
             <=> Allowed(d.model) /\ e.up = Len(e.model.ifs)
<1> DEFINE S == InterfacesOf(d)
           n == Len(d.model.ifs)
<1>1. d.model \in Models /\ d.model.class # HUB /\ policy \in PolicyFiles /\ d.port \in Ports
  BY DEF ScanInv, ListedType
<1>2. n \in Nat /\ e.up \in Nat /\ e.up <= n
  BY <1>1, ModelType DEF HostInv, DeviceType
<1>3. \A f \in plugged[d.port] : f = e
  BY <1>1 DEF HostInv
<1>4. \A i \in S : i.index \in Usable(e) /\ PartOf(i, d.model) /\ i = Interface(d.port, e, i.index)
  <2> SUFFICES ASSUME NEW i \in S
               PROVE  /\ i.index \in Usable(e) /\ PartOf(i, d.model)
                      /\ i = Interface(d.port, e, i.index)
    OBVIOUS
  <2>1. i \in Found /\ i.port = d.port
    BY DEF InterfacesOf
  <2>2. /\ i \in FoundType
        /\ \E f \in plugged[i.port] : i.num = f.num /\ i.index \in Usable(f) /\ PartOf(i, f.model)
    BY <2>1, FoundParts
  <2>3. i.num = e.num /\ i.index \in Usable(e) /\ PartOf(i, e.model)
    BY <1>3, <2>1, <2>2
  <2>4. i = Interface(d.port, e, i.index)
    BY <2>1, <2>2, <2>3 DEF Interface, PartOf, FoundType
  <2> QED BY <2>3, <2>4
<1>5. \A k \in Usable(e) : Interface(d.port, e, k) \in S
  BY <1>1 DEF InterfacesOf, Found, Interface
<1>6. \A k \in Usable(e) : Interface(d.port, e, k).index = k
  BY DEF Interface
<1>7. \A i \in S : i.class = d.model.ifs[i.index]
  BY <1>4 DEF PartOf
<1>8. Check(d.model, {i.class : i \in S}) <=> \A i \in S : Admits(d.model, i.class)
  BY <1>1, CheckAdmits
<1>9. IsReady(d) <=> n > 0 /\ Cardinality(S) = n
  BY DEF IsReady
<1> HIDE DEF S
<1>10. Cardinality(S) = n <=> \A k \in 1..n : \E i \in S : i.index = k
  <2>1. \A i, j \in S : i.index = j.index => i = j
    BY <1>4
  <2>2. \A i \in S : i.index \in 1..n
    BY <1>4 DEF PartOf
  <2> QED BY <1>2, <2>1, <2>2, AllIndices
<1>11. (\A k \in 1..n : \E i \in S : i.index = k) <=> \A k \in 1..n : k \in Usable(e)
  BY <1>4, <1>5, <1>6
<1>12. (\A k \in 1..n : k \in Usable(e)) <=> e.up = n /\ \A k \in 1..n : d.model.ifs[k] # HUB
  <2>1. ASSUME \A k \in 1..n : k \in Usable(e)
        PROVE  e.up = n /\ \A k \in 1..n : d.model.ifs[k] # HUB
    <3>1. n \in 1..n => n <= e.up
      BY <1>2, <2>1 DEF Usable
    <3> QED BY <1>2, <2>1, <3>1 DEF Usable
  <2>2. ASSUME e.up = n, \A k \in 1..n : d.model.ifs[k] # HUB
        PROVE  \A k \in 1..n : k \in Usable(e)
    BY <2>2 DEF Usable, IsInitialized
  <2> QED BY <2>1, <2>2
<1>13. (\A k \in 1..n : \E i \in S : i.index = k) =>
          ((\A i \in S : Admits(d.model, i.class)) <=> \A k \in 1..n : Admits(d.model, d.model.ifs[k]))
  BY <1>4, <1>7 DEF PartOf
<1>14. IsReady(d) /\ (\A i \in S : Admits(d.model, i.class))
           <=> Allowed(d.model) /\ e.up = n
  BY <1>1, <1>9, <1>10, <1>11, <1>12, <1>13, AllowedAdmits
<1> QED BY <1>8, <1>14 DEF S

\* A scan begins.
LEMMA ListDevicesExact ==
  ASSUME HostInv, ListDevices
  PROVE  QuietInv' /\ QuietScanExact'
<1>1. scan' \in {"failed", "devices"} /\ UNCHANGED plugged
  BY DEF ListDevices, usbVars
<1>2. ASSUME NEW d \in devices'
      PROVE  \E e \in plugged[d.port] : ~e.leaving /\ e.num = d.num /\ e.model = d.model
  <2>1. PICK p \in Ports : \E e \in plugged[p] : e.model.class # HUB /\ d = Listed(p, e)
    BY DEF ListDevices
  <2>2. PICK e \in plugged[p] : e.model.class # HUB /\ d = Listed(p, e)
    BY <2>1
  <2>3. d.port = p /\ d.num = e.num /\ d.model = e.model
    BY <2>2 DEF Listed
  <2>4. ~e.leaving
    BY DEF ListDevices, IsInitialized
  <2> QED BY <2>3, <2>4
<1> QED BY <1>1, <1>2 DEF QuietInv, QuietScanExact

\* A scan that was not disturbed ends with all that is allowed.
LEMMA MakePusbsListExact ==
  ASSUME ExactInv, MakePusbsList
  PROVE  QuietInv' /\ QuietScanExact'
<1>1. /\ scan = "interfaces" /\ UNCHANGED <<plugged, plugs, policy, devices, interfaces, quiet>>
      /\ scan' \in {"idle", "failed"}
      /\ scan' = "idle" => pusbs' = {d \in devices : IsReady(d) /\
                                        Check(d.model, {i.class : i \in InterfacesOf(d)})}
  BY DEF MakePusbsList, usbVars
<1>2. QuietInv'
  BY <1>1 DEF ExactInv, QuietInv, Found, Interface, Usable, IsInitialized
<1>3. ASSUME scan' = "idle", quiet, devices # {}, NEW d \in devices
      PROVE  d \in pusbs' <=> Allowed(d.model) /\ \A e \in plugged[d.port] : e.up = Len(e.model.ifs)
  <2>1. PICK e \in plugged[d.port] : ~e.leaving /\ e.num = d.num /\ e.model = d.model
    BY <1>3 DEF ExactInv, QuietInv
  <2>2. interfaces = Found /\ d.port \in Ports
    BY <1>1, <1>3 DEF ExactInv, QuietInv, ScanInv, ListedType
  <2>3. \A f \in plugged[d.port] : f = e
    BY <2>2 DEF ExactInv, HostInv
  <2>4. IsReady(d) /\ Check(d.model, {i.class : i \in InterfacesOf(d)})
            <=> Allowed(d.model) /\ e.up = Len(e.model.ifs)
    BY <2>1, <2>2, ReadyExact DEF ExactInv
  <2> QED BY <1>1, <1>3, <2>3, <2>4
<1>4. QuietScanExact'
  <2> SUFFICES ASSUME scan' = "idle", quiet', devices' # {}
               PROVE  pusbs' = {d \in devices : Allowed(d.model) /\
                                   \A e \in plugged[d.port] : e.up = Len(e.model.ifs)}
    BY <1>1 DEF QuietScanExact, Allowed, RuleList
  <2>1. pusbs' \subseteq devices
    BY <1>1
  <2> QED BY <1>1, <1>3, <2>1
<1> QED BY <1>2, <1>4

(* A scan during which no device came, changed or left offers exactly the  *)
(* devices that are set up and allowed by the first rule that matches each *)
(* of their interfaces.                                                    *)
THEOREM QuietScansExact == Spec => []QuietScanExact
<1>1. ExactInv /\ OfferedInv /\ [Next]_allVars => ExactInv' /\ OfferedInv'
  <2> SUFFICES ASSUME ExactInv, OfferedInv, [Next]_allVars PROVE ExactInv' /\ OfferedInv'
    OBVIOUS
  <2>1. OfferedInv'
    BY OfferedStep
  <2>2. HostInv' /\ ScanInv'
    BY <2>1 DEF OfferedInv
  <2>3. ASSUME Hotplug \/ Rescan PROVE QuietInv' /\ QuietScanExact'
    BY <2>3 DEF Hotplug, Rescan, QuietInv, QuietScanExact
  <2>4. ASSUME ListInterfaces PROVE QuietInv' /\ QuietScanExact'
    BY <2>4 DEF ListInterfaces, ExactInv, QuietInv, QuietScanExact, Found, usbVars, Interface,
       Usable, IsInitialized
  <2>5. ASSUME UNCHANGED vars PROVE QuietInv' /\ QuietScanExact'
    <3>1. UNCHANGED <<plugged, plugs, policy, scan, devices, interfaces, pusbs, quiet>>
      BY <2>5 DEF vars, usbVars, scanVars
    <3>2. QuietInv'
      BY <3>1 DEF ExactInv, QuietInv, Found, Interface, Usable, IsInitialized
    <3>3. QuietScanExact'
      BY <3>1 DEF ExactInv, QuietScanExact, Allowed, RuleList
    <3> QED BY <3>2, <3>3
  <2>6. QuietInv' /\ QuietScanExact'
    BY <2>3, <2>4, <2>5, ListDevicesExact, MakePusbsListExact DEF ExactInv, Next, Scan, allVars
  <2> QED BY <2>1, <2>2, <2>6 DEF ExactInv
<1>2. Init => ExactInv
  <2> SUFFICES ASSUME Init PROVE ExactInv
    OBVIOUS
  <2>1. QuietInv /\ QuietScanExact
    BY DEF Init, QuietInv, QuietScanExact
  <2> QED BY <2>1, OfferedInitial DEF OfferedInv, ExactInv
<1>3. ExactInv => QuietScanExact
  BY DEF ExactInv
<1> QED BY OfferedInitial, <1>1, <1>2, <1>3, PTL DEF Spec, ResetInit
=============================================================================
