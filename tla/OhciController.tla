--------------------------- MODULE OhciController ---------------------------
(***************************************************************************)
(* The transfers of drivers/usb/ohci.rs.  A transfer puts an endpoint      *)
(* descriptor with its transfer descriptors into the control or the bulk   *)
(* list and polls the condition code of the last of them.                  *)
(***************************************************************************)
EXTENDS UsbPipe

VARIABLE ohci   \* struct OhciController and the descriptors

NewOhci == [phase |-> "off", list |-> {}, td |-> NoTd, ctl |-> NoCtl,
            toggle |-> [in |-> FALSE, out |-> FALSE]]

OhciInit == ohci = NewOhci

CC_NO_ERROR == 0
CC_STALL == 4
CC_DEVICE_NOT_RESPONDING == 5
CC_DATA_UNDERRUN == 9
CC_NOT_ACCESSED == 14

\* The condition code a descriptor is created with, which is not the one that
\* is_complete takes for a descriptor at work: a fresh descriptor counts as
\* complete, and as failed, and no loop of this driver runs into its timeout.
CTRL_CC_NOT_ACCESSED == 15

\* condition_code: what the controller has written, or the initial code.
condition_code(st) ==
  CASE st = "done" -> CC_NO_ERROR
    [] st = "stall" -> CC_STALL
    [] st = "error" -> CC_DEVICE_NOT_RESPONDING
    [] OTHER -> CTRL_CC_NOT_ACCESSED

is_complete(cc) == cc # CC_NOT_ACCESSED

has_error(cc) == cc \notin {CC_NO_ERROR, CC_NOT_ACCESSED, CC_DATA_UNDERRUN}

\* init: both lists hold a descriptor that is skipped, or the reset does not
\* end.
OhciStart(o) == {[o EXCEPT !.phase = "failed"], [o EXCEPT !.phase = "idle", !.list = {}]}

\* new: no registers or no memory, or else init.
OhciNew ==
  /\ ohci.phase = "off" /\ xfer.n = 0 /\ UNCHANGED pipeVars
  /\ ohci' \in {[ohci EXCEPT !.phase = "failed"]} \cup OhciStart(ohci)

\* bulk_transfer up to its polling loop: one descriptor for all the data.
OhciBulk(op, want) ==
  /\ ohci.phase = "idle" /\ Called(op, want)
  /\ ohci' = [ohci EXCEPT !.phase = "bulk", !.list = @ \cup {"bulk"},
                          !.td = NewTd(op, ohci.toggle[op], want)]

\* What bulk_transfer returns: the packets up to the buffer pointer, and the
\* whole buffer, as it was before, where the pointer has not moved because
\* the one packet received was empty.
OhciReturned(td) ==
  IF td.dir = "in" /\ td.count = 0 THEN [i \in 1 .. xfer.want |-> 0] ELSE td.data

\* The rest of bulk_transfer: the toggle is the one the controller left in
\* the endpoint descriptor.
OhciBulkDone ==
  /\ ohci.phase = "bulk"
  /\ LET cc == condition_code(ohci.td.st)
     IN  /\ is_complete(cc)
         /\ IF has_error(cc) THEN Fails ELSE BulkSucceeds(OhciReturned(ohci.td), ohci.td)
         /\ ohci' = [ohci EXCEPT !.phase = "idle", !.list = @ \ {"bulk"},
                                 !.toggle[ohci.td.dir] =
                                    IF has_error(cc) THEN @ ELSE ohci.td.t]

\* control_transfer_internal up to its polling loop.
OhciControl ==
  /\ ohci.phase = "idle" /\ Called("control", 0)
  /\ ohci' = [ohci EXCEPT !.phase = "control", !.list = @ \cup {"control"},
                          !.ctl = NewCtl(xfer.n + 1)]

\* The condition codes of the setup and the status descriptor.
SetupCode(c) == condition_code(IF c.stage = "setup" THEN c.st ELSE "done")

StatusCode(c) == condition_code(IF c.stage \in {"status", "end"} THEN c.st ELSE "active")

OhciControlDone ==
  /\ ohci.phase = "control" /\ is_complete(StatusCode(ohci.ctl))
  /\ IF has_error(SetupCode(ohci.ctl)) \/ has_error(StatusCode(ohci.ctl))
     THEN Fails ELSE Succeeds(ohci.ctl.data)
  /\ ohci' = [ohci EXCEPT !.phase = "idle", !.list = @ \ {"control"}]

\* The controller works through its lists; it may be at work still on a
\* descriptor that was taken out of them.
OhciHost ==
  /\ ohci.phase \notin {"off", "failed"}
  /\ UNCHANGED xfer
  /\ \/ /\ ohci.td.st = "active" /\ ("bulk" \in ohci.list \/ pipe.upset # {})
        /\ \E r \in Transaction(ohci.td) : pipe' = r.pipe /\ ohci' = [ohci EXCEPT !.td = r.td]
     \/ /\ ohci.ctl.st = "active" /\ ("control" \in ohci.list \/ pipe.upset # {})
        /\ \E r \in ControlTransaction(ohci.ctl) :
             pipe' = r.pipe /\ ohci' = [ohci EXCEPT !.ctl = r.c]

\* cleanup: the lists are disabled and the controller reset.
OhciCleanup ==
  /\ ohci.phase = "idle" /\ xfer.n = MaxTransfers /\ UNCHANGED pipeVars
  /\ ohci' = [ohci EXCEPT !.phase = "failed"]

OhciReturns == OhciBulkDone \/ OhciControlDone

OhciNext ==
  \/ OhciNew \/ OhciControl \/ OhciReturns \/ OhciHost \/ OhciCleanup
  \/ \E op \in {"in", "out"}, want \in Wants : OhciBulk(op, want)
=============================================================================
