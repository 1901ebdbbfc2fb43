--------------------------- MODULE XhciController ---------------------------
(***************************************************************************)
(* drivers/usb/xhci.rs: the rings, the commands and transfers, and         *)
(* enumerate_ports.  Driver and controller share rings of transfer request *)
(* blocks (TRBs): a TRB belongs to the controller when its cycle bit is    *)
(* the controller's, and the last entry of a ring is the link back to its  *)
(* first.  The controller answers on the one event ring, and a wait of the *)
(* driver takes the first event of the kind it waits for.                  *)
(***************************************************************************)
EXTENDS UsbPipe, FiniteSets

CONSTANTS
  RING_SIZE,   \* 256, entries of a ring with its link
  EVENTS,      \* 256, entries of the event ring
  MAX_SLOTS,   \* 4, the slots that the controller may enable, and the length
               \* of the driver's array of slots
  Sockets,     \* the machines: what is at each root port, 1 .. n
  MaxLate,     \* bound: waits that end before an answer that is on its way
  MaxErrors    \* bound: errors that the controller reports

VARIABLES
  xhci,   \* struct XhciController, its rings, and the operation in progress
  xhc     \* the controller

xhciVars == <<xhci, xhc>>

EmptyTrb == [c |-> FALSE, id |-> 0, ioc |-> FALSE, op |-> "none", slot |-> 0, port |-> 0]

NewRing == [i |-> 0, c |-> TRUE, mem |-> [k \in 0..RING_SIZE-1 |-> EmptyTrb]]

NoRing == [i |-> 0, c |-> TRUE, mem |-> <<>>]

Rings == {<<0, "cmd">>} \cup ((1..MAX_SLOTS) \X {"ep0", "in", "out"})

NoUsbSlot == [port |-> 0, class |-> 0, ms |-> FALSE, kbd |-> FALSE]

\* role: what the device is being configured as; len: whether the header of
\* the configuration arrived; slot 0 of the array is never used.
NewXhci == [stage |-> "off", port |-> 0, slot |-> 0, role |-> "ms", len |-> FALSE,
            serial |-> 0, wait |-> "none", late |-> 0,
            rings |-> [r \in Rings |-> IF r[2] = "cmd" THEN NewRing ELSE NoRing],
            ev |-> [i |-> 0, c |-> TRUE],
            slots |-> [s \in 0..MAX_SLOTS-1 |-> NoUsbSlot]]

\* deq: the controller's place on each ring; mem, ei, ec: the event ring and
\* its place there; owner: the port a slot is addressed to, 0 where it is
\* only enabled, -1 where it is free; ran: whether the request that the
\* driver waits for has been carried out; changes: port events due; errors:
\* errors reported.
NewXhc(sockets) ==
  [sockets |-> sockets, deq |-> [r \in Rings |-> [i |-> 0, c |-> TRUE]], halted |-> {},
   mem |-> [k \in 0..EVENTS-1 |-> [c |-> FALSE, kind |-> "port", id |-> 0, ok |-> TRUE, slot |-> 0]],
   ei |-> 0, ec |-> TRUE, owner |-> [s \in 1..MAX_SLOTS |-> -1], bulk |-> {},
   ran |-> FALSE, changes |-> 0, errors |-> 0]

XhciInit == xhci = NewXhci /\ xhc \in {NewXhc(s) : s \in Sockets}

(***************************************************************************)
(* TrbRing.                                                                *)
(***************************************************************************)
\* Faulty: the link keeps its cycle bit.
enqueue_old_link(ring, trb) ==
  LET i == ring.i + 1
      mem == [ring.mem EXCEPT ![ring.i] = [trb EXCEPT !.c = ring.c]]
  IN  IF i >= RING_SIZE - 1 THEN [i |-> 0, c |-> ~ring.c, mem |-> mem]
      ELSE [i |-> i, c |-> ring.c, mem |-> mem]

\* enqueue: at the end of the ring the link gets the cycle bit, and the
\* cycle is reversed.
enqueue(ring, trb) ==
  LET i == ring.i + 1
      mem == [ring.mem EXCEPT ![ring.i] = [trb EXCEPT !.c = ring.c]]
  IN  IF i >= RING_SIZE - 1
      THEN [i |-> 0, c |-> ~ring.c, mem |-> [mem EXCEPT ![RING_SIZE - 1].c = ring.c]]
      ELSE [i |-> i, c |-> ring.c, mem |-> mem]

\* A command is put on its ring, and the driver waits for a completion.
Command(x, op, slot, port) ==
  [x EXCEPT !.serial = @ + 1, !.wait = "cmd",
            !.rings[<<0, "cmd">>] =
               enqueue(@, [EmptyTrb EXCEPT !.id = x.serial + 1, !.ioc = TRUE, !.op = op,
                                           !.slot = slot, !.port = port])]

\* control_transfer: setup, data where there is any, status.
control_transfer(x, data) ==
  LET trb == [EmptyTrb EXCEPT !.id = x.serial + 1]
      last == [trb EXCEPT !.ioc = TRUE]
      ring == enqueue(x.rings[<<x.slot, "ep0">>], trb)
  IN  [x EXCEPT !.serial = @ + 1, !.wait = "xfer",
                !.rings[<<x.slot, "ep0">>] =
                   enqueue(IF data THEN enqueue(ring, trb) ELSE ring, last)]

(***************************************************************************)
(* enumerate_ports, from one completion to the next request.               *)
(***************************************************************************)
\* init: the command ring and the event ring are made and the controller is
\* started, or there is no memory; the waits are not looked at.
XhciStart(x) ==
  {[x EXCEPT !.stage = "failed"],
   [x EXCEPT !.stage = "ports", !.rings[<<0, "cmd">>] = NewRing, !.ev = [i |-> 0, c |-> TRUE]]}

\* new: no registers, or else init.
XhciNew ==
  /\ xhci.stage = "off" /\ UNCHANGED <<pipeVars, xhc>>
  /\ xhci' \in {[xhci EXCEPT !.stage = "failed"]} \cup XhciStart(xhci)

\* The next port: its device is reset and a slot asked for.
enumerate_ports ==
  /\ xhci.stage = "ports" /\ UNCHANGED pipeVars
  /\ IF xhci.port = Len(xhc.sockets)
     THEN xhci' = [xhci EXCEPT !.stage = "ready"] /\ UNCHANGED xhc
     ELSE LET x == [xhci EXCEPT !.port = @ + 1]
          IN  IF xhc.sockets[x.port] = "none" THEN xhci' = x /\ UNCHANGED xhc
              ELSE /\ xhci' = Command([x EXCEPT !.stage = "enable"], "enable", 0, 0)
                   /\ xhc' = [xhc EXCEPT !.changes = @ + 1, !.ran = FALSE]

NextPort(x) == [x EXCEPT !.stage = "ports", !.wait = "none"]

\* A device class of 0 leaves it to the interfaces.
DeviceClass(kind) ==
  CASE kind = "disk8" -> 8 [] kind = "keyboard3" -> 3 [] kind = "hub" -> 9 [] OTHER -> 0

HasInterface(kind, role) ==
  IF role = "ms" THEN kind \in {"disk8", "disk"} ELSE kind \in {"keyboard", "keyboard3"}

\* configure_mass_storage and configure_hid_keyboard begin alike.
Configure(x, role) ==
  control_transfer([x EXCEPT !.stage = "header", !.role = role], TRUE)

\* After mass storage, a device of class 0 may be a keyboard.
AfterRole(x) ==
  IF x.role = "ms" /\ x.slots[x.slot].class = 0 THEN Configure(x, "kbd") ELSE NextPort(x)

\* address_device: the context and the ring of endpoint 0 are set up.
address_device(x, slot) ==
  Command([x EXCEPT !.stage = "address", !.slot = slot, !.rings[<<slot, "ep0">>] = NewRing],
          "address", slot, x.port)

\* configure_bulk_endpoints, after set_configuration.
configure_bulk_endpoints(x) ==
  Command([x EXCEPT !.stage = "endpoints", !.rings[<<x.slot, "in">>] = NewRing,
                    !.rings[<<x.slot, "out">>] = NewRing], "configure", x.slot, 0)

\* address_device has succeeded: the slot is entered into the array, which
\* has no entry MAX_SLOTS.
Addressed(x) ==
  IF x.slot >= MAX_SLOTS THEN [x EXCEPT !.stage = "panic", !.wait = "none"]
  ELSE control_transfer([x EXCEPT !.stage = "desc8",
                                  !.slots[x.slot] = [NoUsbSlot EXCEPT !.port = x.port]], TRUE)

\* Without the data, the descriptor is all zeros: no configurations.
Described(x, arrived) ==
  LET class == DeviceClass(xhc.sockets[x.slots[x.slot].port])
      y == [x EXCEPT !.slots[x.slot].class = class]
  IN  CASE ~arrived -> NextPort(x)
        [] class \in {0, 8} -> Configure(y, "ms")
        [] class = 3 -> Configure(y, "kbd")
        [] OTHER -> NextPort(y)

\* What follows the completion of the request of a stage.
Completed(x, event, arrived) ==
  CASE x.stage = "enable" -> address_device(x, event.slot)
    [] x.stage = "address" -> Addressed(x)
    [] x.stage = "desc8" -> control_transfer([x EXCEPT !.stage = "desc18"], TRUE)
    [] x.stage = "desc18" -> Described(x, arrived)
    [] x.stage = "header" -> control_transfer([x EXCEPT !.stage = "config", !.len = arrived], TRUE)
    [] x.stage = "config" ->
         IF x.len /\ arrived /\ HasInterface(xhc.sockets[x.slots[x.slot].port], x.role)
         THEN control_transfer([x EXCEPT !.stage = "setconf"], FALSE)
         ELSE AfterRole(x)
    [] x.stage = "setconf" ->
         IF x.role = "ms" THEN configure_bulk_endpoints(x)
         ELSE NextPort([x EXCEPT !.slots[x.slot].kbd = TRUE])
    [] x.stage = "endpoints" -> AfterRole([x EXCEPT !.slots[x.slot].ms = TRUE])

\* The request failed: the port, or the role, is given up.
GivenUp(x) ==
  IF x.stage \in {"enable", "address", "desc8", "desc18"} THEN NextPort(x) ELSE AfterRole(x)

(***************************************************************************)
(* Transfers for the clients of the driver.                                *)
(***************************************************************************)
XhciCall(s, op) ==
  /\ xhci.stage = "ready" /\ Called(op, 1)
  /\ xhci.slots[s].port # 0 /\ (op # "control" => xhci.slots[s].ms)
  /\ LET x == [xhci EXCEPT !.stage = "call", !.slot = s]
     IN  xhci' = IF op = "control" THEN control_transfer(x, TRUE)
                 ELSE [x EXCEPT !.serial = @ + 1, !.wait = "xfer",
                                !.rings[<<s, op>>] =
                                   enqueue(@, [EmptyTrb EXCEPT !.id = x.serial + 1, !.ioc = TRUE])]
  /\ xhc' = [xhc EXCEPT !.ran = FALSE]

(***************************************************************************)
(* wait_command_completion and wait_transfer_completion.                   *)
(***************************************************************************)
Taken(ev) == IF ev.i + 1 >= EVENTS THEN [i |-> 0, c |-> ~ev.c] ELSE [ev EXCEPT !.i = @ + 1]

\* The outcome of the wait reaches its caller.
Resume(x, ok, event) ==
  IF x.stage = "call"
  THEN /\ xhci' = [x EXCEPT !.stage = "ready", !.wait = "none"]
       /\ UNCHANGED xhc
       /\ IF ok THEN Succeeds(<<>>) ELSE Fails
  ELSE /\ xhci' = IF ok THEN Completed(x, event, xhc.ran) ELSE GivenUp(x)
       /\ xhc' = [xhc EXCEPT !.ran = FALSE]
       /\ UNCHANGED pipeVars

XhciEvent ==
  /\ xhci.wait # "none"
  /\ LET event == xhc.mem[xhci.ev.i]
         x == [xhci EXCEPT !.ev = Taken(@)]
     IN  /\ event.c = xhci.ev.c
         /\ IF event.kind = xhci.wait THEN Resume(x, event.ok, event)
            ELSE xhci' = x /\ UNCHANGED <<pipeVars, xhc>>

(***************************************************************************)
(* The controller.                                                         *)
(***************************************************************************)
\* A place on a ring, behind the link where that is the controller's.
Follow(r, d) ==
  IF d.i = RING_SIZE - 1 /\ xhci.rings[r].mem[d.i].c = d.c THEN [i |-> 0, c |-> ~d.c] ELSE d

Place(r) == Follow(r, xhc.deq[r])

Owns(r, d) == d.i < RING_SIZE - 1 /\ xhci.rings[r].mem[d.i].c = d.c

Visible(r) == Owns(r, Place(r))

Trb(r, d) == xhci.rings[r].mem[d.i]

Current(r) == Trb(r, Place(r))

\* The last TRB of the request at hand, over at most three of them.
Last(r) ==
  LET after(d) == IF Owns(r, d) /\ ~Trb(r, d).ioc THEN Follow(r, [d EXCEPT !.i = @ + 1]) ELSE d
  IN  after(after(Place(r)))

Full == (xhc.ei + 1) % EVENTS = xhci.ev.i

Post(h, kind, id, ok, slot) ==
  [h EXCEPT !.mem[h.ei] = [c |-> h.ec, kind |-> kind, id |-> id, ok |-> ok, slot |-> slot],
            !.ei = (h.ei + 1) % EVENTS,
            !.ec = IF h.ei + 1 = EVENTS THEN ~@ ELSE @]

Passed(r, d) == [xhc EXCEPT !.deq[r] = [d EXCEPT !.i = @ + 1],
                            !.ran = @ \/ Trb(r, d).id = xhci.serial]

FreeSlots == {s \in 1..MAX_SLOTS : xhc.owner[s] = -1}

Lowest(S) == CHOOSE s \in S : \A t \in S : s <= t

\* A command: the lowest free slot is enabled; addressing a device or
\* configuring it sets up the endpoints, or fails.
XhcCommand ==
  LET r == <<0, "cmd">>
      trb == Current(r)
      h == Passed(r, Place(r))
      done(g, slot) == Post(g, "cmd", trb.id, TRUE, slot)
  IN  /\ Visible(r) /\ ~Full /\ UNCHANGED <<pipeVars, xhci>>
      /\ \/ /\ trb.op = "enable" /\ FreeSlots # {}
            /\ LET s == Lowest(FreeSlots) IN xhc' = done([h EXCEPT !.owner[s] = 0], s)
         \/ /\ trb.op = "address"
            /\ xhc' = done([h EXCEPT !.owner[trb.slot] = trb.port,
                                     !.deq[<<trb.slot, "ep0">>] = [i |-> 0, c |-> TRUE]], trb.slot)
         \/ /\ trb.op = "configure"
            /\ xhc' = done([h EXCEPT !.bulk = @ \cup {trb.slot},
                                     !.deq[<<trb.slot, "in">>] = [i |-> 0, c |-> TRUE],
                                     !.deq[<<trb.slot, "out">>] = [i |-> 0, c |-> TRUE]], trb.slot)
         \/ /\ xhc.errors < MaxErrors \/ (trb.op = "enable" /\ FreeSlots = {})
            /\ xhc' = Post([h EXCEPT !.ran = xhc.ran, !.errors = @ + 1], "cmd", trb.id, FALSE, 0)

Whole(r) == Owns(r, Last(r)) /\ Trb(r, Last(r)).ioc

\* Whether the controller works on a ring: the slot has been addressed, the
\* endpoint configured, and it has not halted.
Serves(r) ==
  \/ r[2] = "cmd"
  \/ r \notin xhc.halted /\ xhc.owner[r[1]] > 0 /\ (r[2] # "ep0" => r[1] \in xhc.bulk)

\* A transfer is reported with its last TRB; an error is reported at once,
\* and the endpoint halts.
XhcTransfer(r) ==
  /\ r[2] # "cmd" /\ Serves(r) /\ Visible(r) /\ ~Full
  /\ UNCHANGED <<pipeVars, xhci>>
  /\ \/ /\ Whole(r)
        /\ xhc' = Post(Passed(r, Last(r)), "xfer", Trb(r, Last(r)).id, TRUE, r[1])
     \/ /\ xhc.errors < MaxErrors
        /\ xhc' = Post([xhc EXCEPT !.halted = @ \cup {r}, !.errors = @ + 1],
                       "xfer", Current(r).id, FALSE, r[1])

XhcPortChange ==
  /\ xhc.changes > 0 /\ ~Full
  /\ xhc' = Post([xhc EXCEPT !.changes = @ - 1], "port", 0, TRUE, 0)
  /\ UNCHANGED <<pipeVars, xhci>>

XhcHost == XhcCommand \/ XhcPortChange \/ \E r \in Rings : XhcTransfer(r)

Pending == {k \in 0..EVENTS-1 : (k - xhci.ev.i) % EVENTS < (xhc.ei - xhci.ev.i) % EVENTS}

\* The request the driver waits for lies whole at the controller's place on a
\* ring, or has been answered.
OnItsWay ==
  \/ \E r \in Rings : Serves(r) /\ Whole(r) /\ Trb(r, Last(r)).id = xhci.serial
  \/ \E k \in Pending : xhc.mem[k].id = xhci.serial /\ xhc.mem[k].kind = xhci.wait

\* A wait runs out of time.  The request stays where it is, and its
\* completion will be taken for another's.
XhciTimeout ==
  /\ xhci.wait # "none" /\ xhc.mem[xhci.ev.i].c # xhci.ev.c
  /\ OnItsWay => xhci.late < MaxLate
  /\ LET x == [xhci EXCEPT !.late = IF OnItsWay THEN @ + 1 ELSE @]
     IN  IF x.stage = "call"
         THEN Fails /\ xhci' = [x EXCEPT !.stage = "ready", !.wait = "none"] /\ UNCHANGED xhc
         ELSE xhci' = GivenUp(x) /\ xhc' = [xhc EXCEPT !.ran = FALSE] /\ UNCHANGED pipeVars

\* cleanup: the controller is stopped and reset.
XhciCleanup ==
  /\ xhci.stage = "ready" /\ xfer.n = MaxTransfers
  /\ xhci' = [xhci EXCEPT !.stage = "failed"] /\ UNCHANGED <<pipeVars, xhc>>

XhciReturns == enumerate_ports \/ XhciEvent \/ XhciTimeout

XhciNext ==
  \/ XhciNew \/ XhciReturns \/ XhcHost \/ XhciCleanup
  \/ \E s \in 0..MAX_SLOTS-1, op \in {"control", "in", "out"} : XhciCall(s, op)

(***************************************************************************)
(* What the properties say of it.                                          *)
(***************************************************************************)
\* A request that is not on its way is on the ring of a halted endpoint.
Halted ==
  \E r \in xhc.halted : \E k \in 0..RING_SIZE-1 : xhci.rings[r].mem[k].id = xhci.serial

\* The driver has been given a slot that its array has no entry for.
Panicked == xhci.stage = "panic"

\* A slot in the driver's array is the controller's, with the same device.
SlotsAreReal ==
  \A s \in 1..MAX_SLOTS-1 :
    LET slot == xhci.slots[s]
    IN  slot.port # 0 =>
          /\ xhc.owner[s] = slot.port
          /\ slot.ms => s \in xhc.bulk /\ HasInterface(xhc.sockets[slot.port], "ms")
          /\ slot.kbd => HasInterface(xhc.sockets[slot.port], "kbd")
=============================================================================
