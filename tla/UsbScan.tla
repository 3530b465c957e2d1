------------------------------- MODULE UsbScan -------------------------------
(***************************************************************************)
(* usb_scan.py: which USB devices of the host may be passed through.  The  *)
(* script lists the devices, then the interfaces, from a udev database     *)
(* that changes meanwhile, puts interfaces and devices together by name,   *)
(* and checks them against the rules of usb-policy.conf.                   *)
(***************************************************************************)
EXTENDS Integers, Sequences, FiniteSets

CONSTANTS
    Ports,        \* sys_names of devices: "1-2", "4-1.2"
    Models,       \* kinds of device that may be plugged in
    PolicyFiles,  \* contents of /etc/xensource/usb-policy.conf: sequences of lines
    MaxPlugs      \* bound on the devices plugged in; also the device numbers

(* A model has a vendor id, a device class and the class of each of its    *)
(* interfaces.  A line has a shape and, if it is a rule, an action and the *)
(* pairs of key, value and number of hex digits that follow the colon.     *)
ASSUME ModelsAssumption ==
    \A m \in Models : m.vid \in Nat /\ m.class \in Nat /\ m.ifs \in Seq(Nat)
ASSUME PolicyAssumption == \A f \in PolicyFiles : f \in Seq({f[k] : k \in DOMAIN f})
ASSUME MaxPlugsAssumption == MaxPlugs \in Nat

VARIABLES
    plugged,   \* the device at each port: set of at most one record
    plugs,     \* devices plugged so far
    policy,    \* the policy file
    scan,      \* where the script is
    devices,   \* what get_usb_info has listed
    interfaces,
    pusbs,     \* the last list printed
    quiet      \* history: no device came, changed or left since the scan began

usbVars == <<plugged, plugs>>
scanVars == <<policy, scan, devices, interfaces, pusbs>>
vars == <<usbVars, scanVars, quiet>>

HUB == 9

(* A device gets its interfaces one after the other; up counts them.  One  *)
(* that is leaving is still listed, but its attributes cannot be read.     *)
Device(num, m) == [num |-> num, model |-> m, up |-> 0, leaving |-> FALSE]

Listed(p, d) == [port |-> p, num |-> d.num, model |-> d.model]

Init ==
    /\ plugged = [p \in Ports |-> {}]
    /\ plugs = 0
    /\ policy \in PolicyFiles
    /\ scan = "idle" /\ devices = {} /\ interfaces = {} /\ pusbs = {}
    /\ quiet = TRUE

-----------------------------------------------------------------------------
(* The host's devices *)

Plug(p, m) ==
    /\ plugged[p] = {} /\ plugs < MaxPlugs
    /\ plugs' = plugs + 1
    /\ plugged' = [plugged EXCEPT ![p] = {Device(plugs + 1, m)}]

InterfaceUp(p) ==
    /\ \E d \in plugged[p] :
        /\ ~d.leaving /\ d.up < Len(d.model.ifs)
        /\ plugged' = [plugged EXCEPT ![p] = {[d EXCEPT !.up = @ + 1]}]
    /\ UNCHANGED plugs

StartLeaving(p) ==
    /\ \E d \in plugged[p] :
        ~d.leaving /\ plugged' = [plugged EXCEPT ![p] = {[d EXCEPT !.leaving = TRUE]}]
    /\ UNCHANGED plugs

Unplug(p) ==
    /\ \E d \in plugged[p] : d.leaving
    /\ plugged' = [plugged EXCEPT ![p] = {}]
    /\ UNCHANGED plugs

Hotplug ==
    /\ \E p \in Ports :
        \/ \E m \in Models : Plug(p, m)
        \/ InterfaceUp(p) \/ StartLeaving(p) \/ Unplug(p)
    /\ quiet' = FALSE
    /\ UNCHANGED scanVars

-----------------------------------------------------------------------------
(* Policy *)

DeviceKeys == {"vid", "pid", "rel"}        \* _KEY_MAP_DEVICE
InterfaceKeys == {"class", "subclass", "prot"}

(* check_hex_length *)
CheckHexLength(pair) == pair.digits = IF pair.key \in InterfaceKeys THEN 2 ELSE 4

(* parse_line: is the line skipped, is it parsed, and the rule it gives.   *)
(* A comment must start at the first column to be skipped: one after       *)
(* spaces leaves a line without a colon and without an action.             *)
IsSkipped(line) == line.shape \in {"blank", "comment"}
IsParsed(line) ==
    /\ line.shape = "rule"
    /\ line.action \in {"allow", "deny"}
    /\ \A k \in DOMAIN line.pairs :
        /\ line.pairs[k].key \in DeviceKeys \cup InterfaceKeys
        /\ CheckHexLength(line.pairs[k])
        /\ \A l \in 1..(k - 1) : line.pairs[l].key # line.pairs[k].key
RuleOf(line) ==
    [allow |-> line.action = "allow",
     match |-> {[key |-> line.pairs[k].key, value |-> line.pairs[k].value] :
                k \in DOMAIN line.pairs}]

(* Policy.__init__: one malformed line ends the script, and a file that    *)
(* cannot be read does so in the same way.                                 *)
PolicyParses == \A k \in DOMAIN policy : IsSkipped(policy[k]) \/ IsParsed(policy[k])

(* rule_list: the rules, each under the number of its line *)
RuleList == [k \in {l \in DOMAIN policy : ~IsSkipped(policy[l])} |-> RuleOf(policy[k])]

(* match_device_interface, of a rule with a vendor id and a class *)
MatchDeviceInterface(rule, model, class) ==
    \A t \in rule.match :
        t.value = IF t.key \in DeviceKeys THEN model.vid ELSE class

(* check: every interface goes through the rules until the first match. *)
Check(model, classes) ==
    \A class \in classes :
        LET after[k \in 1..(Len(policy) + 1)] ==
                IF k > Len(policy) THEN FALSE
                ELSE IF k \in DOMAIN RuleList /\ MatchDeviceInterface(RuleList[k], model, class)
                THEN RuleList[k].allow ELSE after[k + 1]
        IN  after[1]

-----------------------------------------------------------------------------
(* is_initialized of a device; it raises if an attribute cannot be read. *)
IsInitialized(d) == ~d.leaving

(* What is read of an interface, and is_initialized and is_class_hub of it *)
(* together: the numbers of a device's interfaces that are listed.         *)
Interface(p, d, k) == [port |-> p, num |-> d.num, index |-> k, class |-> d.model.ifs[k]]
Usable(d) == {k \in 1..d.up : IsInitialized(d) /\ d.model.ifs[k] # HUB}

(* get_usb_info, first loop, taken as one reading of the database: an      *)
(* exception ends the script.                                              *)
ListDevices ==
    /\ scan = "idle"
    /\ IF \E p \in Ports : \E d \in plugged[p] : ~IsInitialized(d)
       THEN scan' = "failed" /\ devices' = {}
       ELSE /\ scan' = "devices"
            /\ devices' = UNION {
                   {Listed(p, d) : d \in {e \in plugged[p] : e.model.class # HUB}} : p \in Ports}
    /\ quiet' = TRUE
    /\ UNCHANGED <<usbVars, policy, interfaces, pusbs>>

(* Second loop: interfaces that are there, initialised and no hub. *)
ListInterfaces ==
    /\ scan = "devices" /\ scan' = "interfaces"
    /\ interfaces' = UNION {UNION {
           {Interface(p, d, k) : k \in Usable(d)} : d \in plugged[p]} : p \in Ports}
    /\ UNCHANGED <<usbVars, policy, devices, pusbs, quiet>>

(* is_child_of: by name, whichever device it was. *)
InterfacesOf(d) == {i \in interfaces : i.port = d.port}

IsReadyAnyway(d) == InterfacesOf(d) # {}    \* mutant
IsReadyMany(d) ==    \* mutant: off by one
    /\ Len(d.model.ifs) > 1
    /\ Cardinality(InterfacesOf(d)) = Len(d.model.ifs)
(* is_ready *)
IsReady(d) ==
    /\ Len(d.model.ifs) > 0
    /\ Cardinality(InterfacesOf(d)) = Len(d.model.ifs)

(* make_pusbs_list, and the output of its result *)
MakePusbsList ==
    /\ scan = "interfaces"
    /\ IF PolicyParses
       THEN /\ scan' = "idle"
            /\ pusbs' = {d \in devices : IsReady(d) /\
                            Check(d.model, {i.class : i \in InterfacesOf(d)})}
       ELSE scan' = "failed" /\ UNCHANGED pusbs
    /\ UNCHANGED <<usbVars, policy, devices, interfaces, quiet>>

(* xapi starts the script again. *)
Rescan ==
    /\ scan = "failed" /\ scan' = "idle"
    /\ devices' = {} /\ interfaces' = {}
    /\ quiet' = FALSE
    /\ UNCHANGED <<usbVars, policy, pusbs>>

Scan == ListDevices \/ ListInterfaces \/ MakePusbsList \/ Rescan

-----------------------------------------------------------------------------
(* What usb-policy.conf says of a device: no part of it is a hub, and the  *)
(* first rule that matches an interface allows it, for every interface.    *)
Allowed(model) ==
    /\ model.class # HUB /\ Len(model.ifs) > 0
    /\ \A k \in DOMAIN model.ifs :
        /\ model.ifs[k] # HUB
        /\ \E r \in DOMAIN RuleList :
            /\ RuleList[r].allow /\ MatchDeviceInterface(RuleList[r], model, model.ifs[k])
            /\ \A q \in DOMAIN RuleList :
                q < r => ~MatchDeviceInterface(RuleList[q], model, model.ifs[k])

(* A device is offered only if the policy allows all its interfaces, also  *)
(* when the scan ran while its interfaces were still being set up, unless  *)
(* it took the place of another between the two listings.                  *)
OfferedAllowed ==
    scan = "idle" => \A d \in pusbs :
        d \in devices /\ (\A i \in InterfacesOf(d) : i.num = d.num) => Allowed(d.model)

(* A scan that nothing disturbs lists exactly the devices that are fully   *)
(* set up and allowed: hubs, and devices with a hub among their            *)
(* interfaces, drop out although no rule names them.                       *)
QuietScanExact ==
    scan = "idle" /\ quiet /\ devices # {} =>
        pusbs = {d \in devices : Allowed(d.model) /\
                     \A e \in plugged[d.port] : e.up = Len(e.model.ifs)}
=============================================================================
