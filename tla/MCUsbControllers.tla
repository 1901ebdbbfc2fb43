-------------------------- MODULE MCUsbControllers --------------------------
(***************************************************************************)
(* The USB host controller drivers side by side, with what the drivers of  *)
(* disks and keyboards rely on: a transfer that succeeds moved its data, a *)
(* request reaches the controller, a device in a table is that device, and *)
(* everything ends.  machine says which driver is at work.                 *)
(***************************************************************************)
EXTENDS UhciController, OhciController, EhciController, XhciController, UsbEnumeration

VARIABLE machine

hostVars == <<pipeVars, uhci, ohci, ehciVars, xhciVars, usbVars, machine>>

Init ==
  /\ machine \in {"uhci", "ohci", "ehci", "xhci", "enum"}
  /\ PipeInit /\ UhciInit /\ OhciInit /\ EhciInit /\ XhciInit /\ UsbInit
  /\ machine # "xhci" => xhc = NewXhc(CHOOSE s \in Sockets : TRUE)
  /\ machine # "enum" => usb.machine = CHOOSE m \in Machines : TRUE

Next ==
  /\ UNCHANGED machine
  /\ \/ machine = "uhci" /\ UhciNext /\ UNCHANGED <<ohci, ehciVars, xhciVars, usbVars>>
     \/ machine = "ohci" /\ OhciNext /\ UNCHANGED <<uhci, ehciVars, xhciVars, usbVars>>
     \/ machine = "ehci" /\ EhciNext /\ UNCHANGED <<uhci, ohci, xhciVars, usbVars>>
     \/ machine = "xhci" /\ XhciNext /\ UNCHANGED <<uhci, ohci, ehciVars, usbVars>>
     \/ machine = "enum" /\ UsbNext /\ UNCHANGED <<pipeVars, uhci, ohci, ehciVars, xhciVars>>

\* The loops of the drivers end: each polls until a timeout.  The number of
\* early timeouts of the xHCI driver is bounded, so that beyond the bound its
\* controller has to answer.
Progress ==
  /\ UNCHANGED machine
  /\ \/ machine = "uhci" /\ UhciReturns /\ UNCHANGED <<ohci, ehciVars, xhciVars, usbVars>>
     \/ machine = "ohci" /\ OhciReturns /\ UNCHANGED <<uhci, ehciVars, xhciVars, usbVars>>
     \/ machine = "ehci" /\ EhciReturns /\ UNCHANGED <<uhci, ohci, xhciVars, usbVars>>
     \/ /\ machine = "xhci" /\ (XhciReturns \/ XhcHost)
        /\ UNCHANGED <<uhci, ohci, ehciVars, usbVars>>
     \/ /\ machine = "enum" /\ UsbScan
        /\ UNCHANGED <<pipeVars, uhci, ohci, ehciVars, xhciVars>>

Spec == Init /\ [][Next]_hostVars /\ WF_hostVars(Progress)

\* A transfer of the UHCI, OHCI and EHCI drivers that succeeds has moved its
\* data: consecutive packets, each once, whatever handshakes were lost, or
\* this very request of the caller.  A bulk transfer may differ only after an
\* earlier one in the same direction failed; in the OHCI driver, where the
\* device answers with an empty packet at once, as the buffer is then
\* returned whole; in the EHCI driver, where an earlier transfer ended with an
\* empty packet, as that does not flip the toggle.  A transfer of the xHCI
\* driver that succeeds was carried out, although a wait takes any event of
\* its kind, until a wait ends before its answer (bulk_transfer and
\* control_transfer_internal of the four drivers).
TransfersAreExact ==
  \/ xfer.op \in pipe.upset \ {"control"}
  \/ machine = "ohci" /\ xfer.empty /\ xfer.took = 1
  \/ machine = "ehci" /\ xfer.op = "in" /\ pipe.empty
  \/ machine = "xhci" /\ (xhci.late = 0 /\ xfer.st = "ok" => xhc.ran)
  \/ machine # "xhci" /\ Exact

\* What a driver has set up is where the controller comes by: a request on a
\* ring of the xHCI driver across the wrap of the rings, or its answer in the
\* event ring where the driver looks, and only behind a stall it is stuck,
\* until a wait ends before its answer; the queue head of the EHCI driver on
\* the list that the controller walks, until a bulk transfer follows a stall
\* (TrbRing::enqueue, wait_command_completion, wait_transfer_completion;
\* bulk_transfer_internal and control_transfer_internal of ehci.rs).
RequestsArrive ==
  /\ (machine = "xhci" /\ xhci.wait # "none" /\ xhci.late = 0) => OnItsWay \/ Halted
  /\ machine = "ehci" => EhciReaches

\* A device in a driver's table is at its address and is what its
\* descriptors say; it shares the address only with devices that were given
\* up after the reset of their port.  A slot of the xHCI driver is the
\* controller's slot of the same device, and the driver runs out of slots
\* only when it has given them all out, until a wait ends before its answer.
\* Where nothing failed and the tables have room, a disk is found, behind
\* any number of hubs (enumerate_device, attach_device, enumerate_hub,
\* address_device, find_mass_storage).
KnownDevicesAreReal ==
  /\ EntriesAreReal
  /\ xhci.late = 0 => SlotsAreReal /\ (Panicked => FreeSlots \subseteq {MAX_SLOTS})
  /\ (Scanned /\ usb.faults = 0 /\ RoomForAll) => DiskIsFound

\* A driver is in a transfer, or enumerates.
Working ==
  \/ xfer.st = "busy"
  \/ machine = "xhci" /\ xhci.stage \notin {"off", "failed", "ready", "call"}
  \/ machine = "enum" /\ ~Scanned

\* A transfer returns, and the enumeration of the ports ends, hubs behind
\* hubs included (the polling loops with their timeouts; the recursion of
\* enumerate_hub).  The one exception is the xHCI driver with as many devices
\* as its array of slots is long: the controller then gives out a slot that
\* the array has no entry for, and address_device panics.
TransfersReturn == Working ~> (~Working \/ Panicked)

-----------------------------------------------------------------------------
(* The machines of the run.                                                *)

\* The last has as many devices as there are slots.
SocketsDef == {<<"disk">>, <<"none", "disk8">>, <<"hub", "keyboard3">>, <<"hub", "hub", "hub">>}

Descriptor(desc, is, num) == [desc |-> desc, is |-> is, num |-> num]

Configuration(value) == Descriptor("configuration", "none", value)

Interface(x) == Descriptor("interface", x, 0)

Endpoint(x, num) == Descriptor("endpoint", x, num)

DiskAt(n) == <<Interface("disk"), Endpoint("in", n), Endpoint("out", n + 1)>>

Disk == <<Configuration(1)>> \o DiskAt(1)

Keyboard == <<Configuration(1), Interface("keyboard"), Descriptor("other", "hid", 0),
              Endpoint("interrupt", 1)>>

Hub == <<Configuration(1), Interface("hub"), Endpoint("interrupt", 1)>>

\* A keyboard with a disk, and one with two disks and no configuration value.
Both == Keyboard \o DiskAt(2)

Unset == <<Configuration(0)>> \o Tail(Keyboard) \o DiskAt(2) \o DiskAt(4)

\* A disk behind two hubs; one device too many; two controllers without hubs.
MachinesDef ==
  {[ctrl |-> <<"ehci">>, root |-> <<<<1, 0, 2>>>>, bus |-> <<1, 1, 1, 1>>,
    kids |-> <<<<3, 0>>, <<>>, <<4>>, <<>>>>, conf |-> <<Hub, Keyboard, Hub, Both>>],
   [ctrl |-> <<"ehci">>, root |-> <<<<1, 2, 3, 4>>>>, bus |-> <<1, 1, 1, 1, 1>>,
    kids |-> <<<<5>>, <<>>, <<>>, <<>>, <<>>>>, conf |-> <<Hub, Keyboard, Keyboard, Keyboard, Disk>>],
   [ctrl |-> <<"uhci", "ohci">>, root |-> <<<<1, 2>>, <<3, 4>>>>, bus |-> <<1, 1, 2, 2>>,
    kids |-> <<<<>>, <<>>, <<>>, <<>>>>, conf |-> <<Keyboard, Hub, Unset, Disk>>]}
=============================================================================
