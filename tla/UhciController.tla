--------------------------- MODULE UhciController ---------------------------
(***************************************************************************)
(* The transfers of drivers/usb/uhci.rs.  Every frame leads to the one     *)
(* queue head; a transfer points it at its descriptors and polls the last  *)
(* of them.  A descriptor of this controller is one packet, whatever the   *)
(* length the driver writes into it.                                       *)
(***************************************************************************)
EXTENDS UsbPipe

VARIABLE uhci   \* struct UhciController, the queue head and its descriptors

NewUhci == [phase |-> "off", element |-> "none", td |-> NoTd, ctl |-> NoCtl,
            toggle |-> [in |-> FALSE, out |-> FALSE]]

UhciInit == uhci = NewUhci

\* init: the frames lead to the empty queue head, or the reset does not end.
UhciStart(u) == {[u EXCEPT !.phase = "failed"], [u EXCEPT !.phase = "idle", !.element = "none"]}

\* new: no registers or no memory, or else init.
UhciNew ==
  /\ uhci.phase = "off" /\ xfer.n = 0 /\ UNCHANGED pipeVars
  /\ uhci' \in {[uhci EXCEPT !.phase = "failed"]} \cup UhciStart(uhci)

\* bulk_transfer up to its polling loop: one descriptor for all the data.
UhciBulk(op, want) ==
  /\ uhci.phase = "idle" /\ Called(op, want)
  /\ uhci' = [uhci EXCEPT !.phase = "bulk", !.element = "td",
                          !.td = NewTd(op, uhci.toggle[op], want)]

Idle(u) == [u EXCEPT !.phase = "idle", !.element = "none"]

\* Faulty: the toggle stays as it was.
UhciBulkDone_keeps ==
  /\ uhci.phase = "bulk" /\ uhci.td.st # "active"
  /\ IF uhci.td.st = "done" THEN BulkSucceeds(uhci.td.data, uhci.td) ELSE Fails
  /\ uhci' = Idle(uhci)

\* The rest of bulk_transfer, when the descriptor is no longer active.
UhciBulkDone ==
  /\ uhci.phase = "bulk" /\ uhci.td.st # "active"
  /\ IF uhci.td.st = "done" THEN BulkSucceeds(uhci.td.data, uhci.td) ELSE Fails
  /\ uhci' = IF uhci.td.st = "done" THEN Idle([uhci EXCEPT !.toggle[uhci.td.dir] = ~@])
             ELSE Idle(uhci)

\* control_transfer_internal up to its polling loop.
UhciControl ==
  /\ uhci.phase = "idle" /\ Called("control", 0)
  /\ uhci' = [uhci EXCEPT !.phase = "control", !.element = "ctl", !.ctl = NewCtl(xfer.n + 1)]

\* Whether the descriptor that a loop polls is still active: the only one of
\* a bulk transfer, the one of the status stage of a control transfer.
Polled ==
  IF uhci.phase = "bulk" THEN uhci.td.st = "active"
  ELSE uhci.ctl.stage \in {"setup", "data"} \/ uhci.ctl.st = "active"

\* The rest of control_transfer_internal.
UhciControlDone ==
  /\ uhci.phase = "control" /\ ~Polled
  /\ IF uhci.ctl.st = "done" THEN Succeeds(uhci.ctl.data) ELSE Fails
  /\ uhci' = Idle(uhci)

\* Faulty: the loop of a control transfer waits for the status stage.
UhciTimeout_bulk_only ==
  /\ uhci.phase = "bulk" /\ Polled /\ Fails
  /\ uhci' = Idle(uhci)

\* Either loop runs out of time.  A chain that stopped before its status
\* stage ends here too.
UhciTimeout ==
  /\ uhci.phase \in {"bulk", "control"} /\ Polled /\ Fails
  /\ uhci' = Idle(uhci)

\* A packet from the device ends the descriptor; a packet to the device with
\* more data than its endpoint takes is not acknowledged.
OnePacket(td) ==
  {IF r.td.left < td.left /\ r.td.st = "active" THEN [r EXCEPT !.td.st = "done"] ELSE r :
     r \in {s \in Transaction(td) : td.dir = "in" \/ td.left = 1 \/ s.td.st = "error"}}

\* The controller works on what the queue head points to; on a descriptor
\* the driver gave up it may be at work still.
UhciHost ==
  /\ uhci.phase \notin {"off", "failed"}
  /\ UNCHANGED xfer
  /\ \/ /\ uhci.td.st = "active" /\ (uhci.element = "td" \/ pipe.upset # {})
        /\ \E r \in OnePacket(uhci.td) : pipe' = r.pipe /\ uhci' = [uhci EXCEPT !.td = r.td]
     \/ /\ uhci.ctl.st = "active" /\ (uhci.element = "ctl" \/ pipe.upset # {})
        /\ \E r \in ControlTransaction(uhci.ctl) :
             pipe' = r.pipe /\ uhci' = [uhci EXCEPT !.ctl = r.c]

\* cleanup: the controller is stopped and reset.
UhciCleanup ==
  /\ uhci.phase = "idle" /\ xfer.n = MaxTransfers /\ UNCHANGED pipeVars
  /\ uhci' = [uhci EXCEPT !.phase = "failed"]

UhciReturns == UhciBulkDone \/ UhciControlDone \/ UhciTimeout

UhciNext ==
  \/ UhciNew \/ UhciControl \/ UhciReturns \/ UhciHost \/ UhciCleanup
  \/ \E op \in {"in", "out"}, want \in Wants : UhciBulk(op, want)
=============================================================================
