--------------------------- MODULE EhciController ---------------------------
(***************************************************************************)
(* The transfers of drivers/usb/ehci.rs.  The controller walks a circular  *)
(* list of queue heads.  The driver links the queue head of a control      *)
(* transfer behind the list's head and takes it out again; the one of the  *)
(* bulk transfers stays in the list and has its descriptor exchanged.      *)
(***************************************************************************)
EXTENDS UsbPipe

VARIABLES
  ehci,   \* struct EhciController and the descriptors
  ehc     \* the controller: the queue head it is at

ehciVars == <<ehci, ehc>>

NewEhci == [phase |-> "off", ase |-> FALSE, bulk_qh_linked |-> FALSE,
            link |-> [q \in {"head", "ctrl", "bulk"} |-> "head"],
            old_link |-> "head", qtd |-> NoTd, ctl |-> NoCtl,
            toggle |-> [in |-> FALSE, out |-> FALSE]]

EhciInit == ehci = NewEhci /\ ehc = "head"

\* init: the async list is its head alone, or the controller does not come
\* out of its reset or does not start.
EhciStart(e) == {[e EXCEPT !.phase = "failed"], [e EXCEPT !.phase = "idle", !.link.head = "head"]}

\* new: no registers or no memory, or else init.
EhciNew ==
  /\ ehci.phase = "off" /\ xfer.n = 0 /\ UNCHANGED <<pipeVars, ehc>>
  /\ ehci' \in {[ehci EXCEPT !.phase = "failed"]} \cup EhciStart(ehci)

\* The queue head goes behind the head of the list where it is not linked.
LinkBulk(e) ==
  IF e.bulk_qh_linked THEN e
  ELSE [e EXCEPT !.bulk_qh_linked = TRUE, !.link.bulk = e.link.head, !.link.head = "bulk"]

\* bulk_transfer_internal up to its polling loop.
EhciBulk(op, want) ==
  /\ ehci.phase = "idle" /\ Called(op, want) /\ UNCHANGED ehc
  /\ ehci' = [LinkBulk(ehci) EXCEPT !.phase = "bulk", !.ase = TRUE,
                                    !.qtd = NewTd(op, ehci.toggle[op], want)]

\* The toggle after a transfer, from the number of packets that its length
\* makes, in which an empty packet does not count.
NewToggle(td) == IF td.count % 2 = 1 THEN ~ehci.toggle[td.dir] ELSE ehci.toggle[td.dir]

\* The rest of it: after a stall the queue head counts as not linked.
EhciBulkDone ==
  /\ ehci.phase = "bulk" /\ ehci.qtd.st # "active" /\ UNCHANGED ehc
  /\ IF ehci.qtd.st = "done" THEN BulkSucceeds(ehci.qtd.data, ehci.qtd) ELSE Fails
  /\ ehci' = CASE ehci.qtd.st = "done" ->
                    [ehci EXCEPT !.phase = "idle", !.toggle[ehci.qtd.dir] = NewToggle(ehci.qtd)]
               [] ehci.qtd.st = "stall" -> [ehci EXCEPT !.phase = "idle", !.bulk_qh_linked = FALSE]
               [] OTHER -> [ehci EXCEPT !.phase = "idle"]

\* The descriptor of a transfer that was given up stays where it is.
EhciBulkTimeout ==
  /\ ehci.phase = "bulk" /\ ehci.qtd.st = "active" /\ Fails
  /\ ehci' = [ehci EXCEPT !.phase = "idle"] /\ UNCHANGED ehc

\* control_transfer_internal up to its polling loop.  The schedule may fail
\* to start, the first time.
EhciControl ==
  /\ ehci.phase = "idle" /\ Called("control", 0) /\ UNCHANGED ehc
  /\ \E starts \in {TRUE, ehci.ase} :
       ehci' = [ehci EXCEPT !.phase = IF starts THEN "control" ELSE "nostart", !.ase = TRUE,
                            !.ctl = NewCtl(xfer.n + 1),
                            !.old_link = ehci.link.head,
                            !.link.ctrl = ehci.link.head,
                            !.link.head = "ctrl"]

Unlinked(e) == [e EXCEPT !.link.head = e.old_link]

EhciNoStart ==
  /\ ehci.phase = "nostart" /\ Fails /\ UNCHANGED ehc
  /\ ehci' = [Unlinked(ehci) EXCEPT !.phase = "idle"]

\* The polling loop ends: the last stage is over, or time is.
EhciUnlink ==
  /\ ehci.phase = "control"
  /\ ehci' = [Unlinked(ehci) EXCEPT !.phase = "doorbell"]
  /\ UNCHANGED <<pipeVars, ehc>>

\* The wait for the controller to have left the queue head, which may end
\* without; then the outcome, from the status descriptor first.
EhciControlDone ==
  /\ ehci.phase = "doorbell"
  /\ IF ehci.ctl.st = "done" THEN Succeeds(ehci.ctl.data) ELSE Fails
  /\ ehci' = [ehci EXCEPT !.phase = "idle"] /\ UNCHANGED ehc

EhciRuns == ehci.phase \notin {"off", "failed"} /\ ehci.ase

\* The controller goes on to the next queue head.
EhciWalk ==
  /\ EhciRuns /\ ehc' = ehci.link[ehc]
  /\ UNCHANGED <<pipeVars, ehci>>

\* It carries out a transaction of the queue head it is at.
EhciHost ==
  /\ EhciRuns /\ UNCHANGED <<xfer, ehc>>
  /\ \/ /\ ehc = "bulk" /\ ehci.qtd.st = "active"
        /\ \E r \in Transaction(ehci.qtd) : pipe' = r.pipe /\ ehci' = [ehci EXCEPT !.qtd = r.td]
     \/ /\ ehc = "ctrl" /\ ehci.ctl.st = "active"
        /\ \E r \in ControlTransaction(ehci.ctl) :
             pipe' = r.pipe /\ ehci' = [ehci EXCEPT !.ctl = r.c]

\* cleanup: the schedules are stopped and the controller reset.
EhciCleanup ==
  /\ ehci.phase = "idle" /\ xfer.n = MaxTransfers /\ UNCHANGED <<pipeVars, ehc>>
  /\ ehci' = [ehci EXCEPT !.phase = "failed"]

EhciReturns ==
  EhciBulkDone \/ EhciBulkTimeout \/ EhciNoStart \/ EhciUnlink \/ EhciControlDone

EhciNext ==
  \/ EhciNew \/ EhciControl \/ EhciReturns \/ EhciWalk \/ EhciHost \/ EhciCleanup
  \/ \E op \in {"in", "out"}, want \in Wants : EhciBulk(op, want)

\* The queue heads the controller comes by from where it is.
OnTheWalk == LET next == ehci.link
             IN  {ehc, next[ehc], next[next[ehc]], next[next[next[ehc]]]}

\* The bulk queue head was linked again after a stall while the head of the
\* list led to it: it leads to itself, and the controller stays there.
LinkedToItself == ehci.link.bulk = "bulk"

\* The queue head of the transfer in progress is one of them.
EhciReaches ==
  LinkedToItself \/ ((ehci.phase = "bulk" => "bulk" \in OnTheWalk)
                     /\ (ehci.phase = "control" => "ctrl" \in OnTheWalk))
=============================================================================
