--------------------------- MODULE UsbEnumeration ---------------------------
(***************************************************************************)
(* How the EHCI, OHCI and UHCI drivers find the devices on their ports     *)
(* (enumerate_ports, attach_device, enumerate_hub), with enumerate_device  *)
(* and parse_configuration of usb/controller.rs, and the list of           *)
(* controllers of usb/mod.rs.  A device listens at address 0 from the      *)
(* reset of its port until SET_ADDRESS.  A control transfer is one step    *)
(* here: it fails, having had its effect or not, or is answered by a       *)
(* device that listens at its address.                                     *)
(***************************************************************************)
EXTENDS Integers, Sequences, FiniteSetsExt, Functions

CONSTANTS
  Machines,         \* sets of [ctrl: kinds of the controllers, root: the
                    \* devices at their ports, kids: the devices at the ports
                    \* of a hub, bus: the controller of each device, conf: its
                    \* descriptors], devices being 1, 2, ...
  MAX_DEVICES,      \* 16 or 8, entries of a controller's table
  MAX_ADDRESS,      \* 127
  MAX_CONTROLLERS,  \* 8
  MaxFaults         \* bound: failures

VARIABLES
  usb,     \* the drivers: the table and the place of each loop
  world    \* the devices: whether they listen, at which address

usbVars == <<usb, world>>

Devices == 1..Len(usb.machine.conf)

\* stack: the ports being enumerated, of the root and of the hubs on the way
\* down; dev, step: the device being attached; all: controllers finished.
UsbInit ==
  /\ \E m \in Machines :
       usb = [machine |-> m, phase |-> "init", n |-> 0, stack |-> <<>>, next_address |-> 1,
              devices |-> <<>>, dev |-> 0, step |-> "none", info |-> <<>>, all |-> <<>>,
              faults |-> 0]
  /\ world = [d \in 1..Len(usb.machine.conf) |-> [addr |-> -1, configured |-> FALSE]]

(***************************************************************************)
(* parse_configuration: the descriptors of a device, the first of them the *)
(* configuration's.  An interface has the first endpoints up to the next   *)
(* interface; descriptors of other kinds are passed over.                  *)
(***************************************************************************)
MAX_INTERFACES == 8

MAX_ENDPOINTS == 4

configuration_value(conf) == conf[1].num

OfKind(conf, kind) == {i \in DOMAIN conf : conf[i].desc = kind}

Interfaces(conf) ==
  LET all == OfKind(conf, "interface")
  IN  {i \in all : Cardinality({j \in all : j <= i}) <= MAX_INTERFACES}

Endpoints(conf, i) ==
  LET own == {k \in OfKind(conf, "endpoint") :
                k > i /\ \A j \in OfKind(conf, "interface") : ~(i < j /\ j < k)}
  IN  {k \in own : Cardinality({j \in own : j <= k}) <= MAX_ENDPOINTS}

\* find_bulk_in, find_bulk_out, find_interrupt_in: the number of the first such
\* endpoint, 0 for none.
find_endpoint(conf, i, kind) ==
  LET them == {k \in Endpoints(conf, i) : conf[k].is = kind}
  IN  IF them = {} THEN 0 ELSE conf[Min(them)].num

\* The flags of a device: what its interfaces are.  Of several disks, or of
\* several keyboards, the last one's endpoints are kept.
Flags(conf) ==
  LET Are(kind) == {i \in Interfaces(conf) : conf[i].is = kind}
      Last(kind, ep) == IF Are(kind) = {} THEN 0 ELSE find_endpoint(conf, Max(Are(kind)), ep)
  IN  [disk |-> Are("disk") # {}, keyboard |-> Are("keyboard") # {}, hub |-> Are("hub") # {},
       bulk_in |-> Last("disk", "in"), bulk_out |-> Last("disk", "out"),
       interrupt_in |-> Last("keyboard", "interrupt")]

(***************************************************************************)
(* Ports.                                                                  *)
(***************************************************************************)
Frame(ports, hub) == [ports |-> ports, hub |-> hub, i |-> 0]

Top == Head(usb.stack)

\* Where the loop over the ports goes on.
Onward(u) == [u EXCEPT !.dev = 0, !.step = "none"]

PastPort(u) == [u EXCEPT !.stack[1].i = @ + 1]

\* usb::init: the next controller is set up, or new fails for it.
UsbController ==
  /\ usb.phase = "init" /\ usb.stack = <<>> /\ usb.n < Len(usb.machine.ctrl)
  /\ UNCHANGED world
  /\ \/ usb' = [usb EXCEPT !.n = @ + 1, !.next_address = 1, !.devices = <<>>,
                           !.stack = <<Frame(usb.machine.root[usb.n + 1], 0)>>]
     \/ /\ usb.faults < MaxFaults
        /\ usb' = [usb EXCEPT !.n = @ + 1, !.devices = <<>>, !.faults = @ + 1]

\* The slot check comes before the address is used.
attach_device(u, d) ==
  IF u.next_address > MAX_ADDRESS \/ Len(u.devices) = MAX_DEVICES THEN Onward(u)
  ELSE [u EXCEPT !.dev = d, !.step = "desc8"]

\* The device of a port after the reset of the port.
Reset(d) == [world EXCEPT ![d] = [addr |-> 0, configured |-> FALSE]]

\* A port without a device, or one whose device is not enabled by the reset
\* (or is for a companion controller), is passed over.
UsbRootPort ==
  /\ usb.stack # <<>> /\ usb.step = "none" /\ Top.hub = 0 /\ Top.i < Len(Top.ports)
  /\ LET d == Top.ports[Top.i + 1]
     IN  \/ d # 0 /\ usb' = attach_device(PastPort(usb), d) /\ world' = Reset(d)
         \/ d = 0 /\ usb' = PastPort(usb) /\ UNCHANGED world
         \/ /\ d # 0 /\ usb.faults < MaxFaults /\ world' \in {world, Reset(d)}
            /\ usb' = [PastPort(usb) EXCEPT !.faults = @ + 1]

(***************************************************************************)
(* Control transfers.                                                      *)
(***************************************************************************)
Listening(a) == {d \in Devices : world[d].addr = a /\ usb.machine.bus[d] = usb.n}

\* A port of a hub: the status is asked for, the port reset, and the status
\* polled.  Where the reset is refused, the hub is given up.  The requests may
\* fail of themselves, or because the hub is not alone at its address.
UsbHubPort ==
  /\ usb.stack # <<>> /\ usb.step = "none" /\ Top.hub # 0 /\ Top.i < Len(Top.ports)
  /\ LET d == Top.ports[Top.i + 1]
         alone == Listening(world[Top.hub].addr) = {Top.hub}
         Failing(u) == [u EXCEPT !.faults = IF alone THEN @ + 1 ELSE @]
     IN  \/ d # 0 /\ usb' = attach_device(PastPort(usb), d) /\ world' = Reset(d)
         \/ d = 0 /\ usb' = PastPort(usb) /\ UNCHANGED world
         \/ /\ usb.faults < MaxFaults \/ ~alone
            /\ world' \in {world} \cup (IF d # 0 THEN {Reset(d)} ELSE {})
            /\ usb' \in {Failing(PastPort(usb)), Failing([usb EXCEPT !.stack = Tail(@)])}

\* The ports of a frame have all been seen.
UsbPortsDone ==
  /\ usb.stack # <<>> /\ usb.step = "none" /\ Top.i = Len(Top.ports)
  /\ UNCHANGED world
  /\ LET c == [kind |-> usb.machine.ctrl[usb.n], devices |-> usb.devices]
         u == [usb EXCEPT !.stack = Tail(@)]
     IN  usb' = IF Len(usb.stack) > 1 \/ Len(usb.all) = MAX_CONTROLLERS THEN u
                ELSE [u EXCEPT !.all = Append(@, c)]

\* Faulty: the address is used again for the next device.
Attached_same_address(u) ==
  LET e == [addr |-> u.next_address, dev |-> u.dev, flags |-> Flags(u.info)]
      v == [Onward(u) EXCEPT !.info = <<>>, !.devices = Append(@, e)]
  IN  IF e.flags.hub /\ u.machine.ctrl[u.n] = "ehci"
      THEN [v EXCEPT !.step = "hubdesc", !.dev = u.dev] ELSE v

\* attach_device after enumerate_device: only the EHCI driver knows hubs.
Attached(u) ==
  LET e == [addr |-> u.next_address, dev |-> u.dev, flags |-> Flags(u.info)]
      v == [Onward(u) EXCEPT !.info = <<>>, !.next_address = @ + 1, !.devices = Append(@, e)]
  IN  IF e.flags.hub /\ u.machine.ctrl[u.n] = "ehci"
      THEN [v EXCEPT !.step = "hubdesc", !.dev = u.dev] ELSE v

\* What follows a control transfer of enumerate_device that r answered.
Answered(r) ==
  CASE usb.step = "desc8" -> [usb EXCEPT !.step = "setaddr"]
    [] usb.step = "setaddr" -> [usb EXCEPT !.step = "desc18"]
    [] usb.step = "desc18" -> [usb EXCEPT !.step = "header"]
    [] usb.step = "header" -> [usb EXCEPT !.step = "config"]
    [] usb.step = "config" ->
         LET u == [usb EXCEPT !.step = "setconf", !.info = usb.machine.conf[r]]
         IN  IF configuration_value(u.info) > 0 THEN u ELSE Attached(u)
    [] usb.step = "setconf" -> Attached(usb)
    [] usb.step = "hubdesc" ->
         [Onward(usb) EXCEPT !.stack = <<Frame(usb.machine.kids[r], usb.dev)>> \o @]

\* The address of the transfer, and what it does to the device it reaches.
Target ==
  CASE usb.step \in {"desc8", "setaddr"} -> 0
    [] usb.step = "hubdesc" -> usb.devices[Len(usb.devices)].addr
    [] OTHER -> usb.next_address

Effect(S) ==
  [d \in Devices |->
     IF d \notin S THEN world[d]
     ELSE CASE usb.step = "setaddr" -> [world[d] EXCEPT !.addr = usb.next_address]
            [] usb.step = "setconf" -> [world[d] EXCEPT !.configured = TRUE]
            [] OTHER -> world[d]]

\* Every device that listens takes part; with several of them the transfer
\* may fail or look well.
UsbTransfer ==
  /\ usb.step # "none"
  /\ LET there == Listening(Target)
     IN  \/ \E r \in there : usb' = Answered(r) /\ world' = Effect(there)
         \/ /\ usb.faults < MaxFaults \/ Cardinality(there) # 1
            /\ usb' = [Onward(usb) EXCEPT !.info = <<>>,
                                          !.faults = IF Cardinality(there) = 1 THEN @ + 1 ELSE @]
            /\ world' \in {world, Effect(there)}

(***************************************************************************)
(* usb/mod.rs.                                                             *)
(***************************************************************************)
HasDisk(c) == \E i \in DOMAIN c.devices : c.devices[i].flags.disk

\* find_mass_storage: the first disk of the first controller that has one.
find_mass_storage ==
  LET with == {i \in DOMAIN usb.all : HasDisk(usb.all[i])}
  IN  IF with = {} THEN 0 ELSE CHOOSE i \in with : \A j \in with : i <= j

\* cleanup resets the controllers of the list; the devices go with them.
UsbCleanup ==
  /\ usb.phase = "init" /\ usb.stack = <<>> /\ usb.n = Len(usb.machine.ctrl)
  /\ usb' = [usb EXCEPT !.phase = "stopped"] /\ UNCHANGED world

UsbScan ==
  \/ UsbController \/ UsbRootPort \/ UsbHubPort \/ UsbPortsDone \/ UsbTransfer

UsbNext == UsbScan \/ UsbCleanup

(***************************************************************************)
(* What the properties say of it.                                          *)
(***************************************************************************)
Known == {usb.devices[i].dev : i \in DOMAIN usb.devices}

\* Devices that were reset and then given up listen on, at an address that
\* is or will be another device's.
Stranded == {d \in Devices : /\ usb.machine.bus[d] = usb.n /\ world[d].addr >= 0
                             /\ d \notin Known /\ d # usb.dev}

\* An entry of the table is the device at its address, and tells what that
\* device is; the only others that listen there are stranded, and may have
\* answered in its place.
EntriesAreReal ==
  \A i \in DOMAIN usb.devices :
    LET e == usb.devices[i]
        there == Listening(e.addr)
    IN  /\ e.dev \in there /\ there \subseteq {e.dev} \cup Stranded
        /\ \E d \in there :
             /\ e.flags = Flags(usb.machine.conf[d])
             /\ world[e.dev].configured \/ configuration_value(usb.machine.conf[d]) = 0

Scanned == usb.stack = <<>> /\ usb.n = Len(usb.machine.ctrl)

\* The devices at the ports, and behind the hubs of an EHCI controller.
Within(n) ==
  LET Below(S) == UNION {Range(usb.machine.kids[d]) : d \in S} \ {0}
      down[k \in Nat] == IF k = 0 THEN Range(usb.machine.root[n]) \ {0}
                         ELSE down[k - 1] \cup Below(down[k - 1])
  IN  IF usb.machine.ctrl[n] = "ehci" THEN down[Cardinality(Devices)] ELSE down[0]

\* The tables and the list of controllers have room for all there is.
RoomForAll ==
  /\ Len(usb.machine.ctrl) <= MAX_CONTROLLERS
  /\ \A n \in DOMAIN usb.machine.ctrl : Cardinality(Within(n)) <= MAX_DEVICES

DiskIsFound ==
  (find_mass_storage # 0) <=>
     \E n \in DOMAIN usb.machine.ctrl : \E d \in Within(n) : Flags(usb.machine.conf[d]).disk
=============================================================================
