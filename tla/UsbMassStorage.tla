--------------------------- MODULE UsbMassStorage ---------------------------
(***************************************************************************)
(* The bulk-only mass storage driver of drivers/usb/mass_storage.rs and    *)
(* the device at the other end of the two pipes.  A SCSI command is three  *)
(* transfers: the command wrapper (CBW), the data, the status wrapper      *)
(* (CSW).  Any of them may fail, and the driver then returns without the   *)
(* recovery of the bulk-only specification; what the device had to say is  *)
(* still in the IN pipe when the next command looks for its own answer.    *)
(* Only the tag in the CSW tells an answer from a left-over.               *)
(***************************************************************************)
EXTENDS BlockClient, FiniteSetsExt

CONSTANTS
  LBA32,        \* 0xFFFFFFFF, the last block number READ CAPACITY(10) can name
  READY_TRIES,  \* 5, attempts at TEST UNIT READY
  MaxInstances  \* bound: times a driver instance is made for the device

VARIABLES
  usbms,   \* the driver: struct UsbMassStorage and the command in progress
  udev     \* the device: CBWs it has received, what waits in the IN pipe

usbmsVars == <<usbms, udev>>

\* cmd, cbw: the command in progress and its tag, at its phase; tries: what
\* is left of the attempts at TEST UNIT READY; made counts the instances.
NewUsbms == [stage |-> "off", phase |-> "none", cmd |-> "none", cbw |-> 0, tag |-> 1,
             resp |-> Blank, tries |-> READY_TRIES, num_blocks |-> 0, made |-> 0]

UsbmsInit == usbms = NewUsbms /\ udev = [out |-> <<>>, in |-> <<>>]

Cbw(cmd, tag, lba, n) == [cmd |-> cmd, tag |-> tag, lba |-> lba, n |-> n]

Data(blocks) == [kind |-> "data", tag |-> 0, passed |-> FALSE, blocks |-> blocks]

Csw(tag, passed) == [kind |-> "csw", tag |-> tag, passed |-> passed, blocks |-> <<Stale>>]

Stall == [kind |-> "stall", tag |-> 0, passed |-> FALSE, blocks |-> <<>>]

\* scsi_command is called: next_tag, and the CBW is built.
scsi_command(d, cmd) == [d EXCEPT !.cmd = cmd, !.phase = "cbw", !.cbw = d.tag, !.tag = @ + 1]

HasData(cmd) == cmd # "ready"

IsRead(cmd) == cmd \notin {"ready", "send"}

(***************************************************************************)
(* What the callers of scsi_command do with its outcome.                   *)
(***************************************************************************)
\* new and init: the device is looked up and asked whether it is ready.
\* Every instance counts its tags from 1, so that what the device still
\* holds for an earlier instance may match a tag of this one.
UsbmsNew ==
  /\ usbms.phase = "none" /\ req.st # "busy" /\ usbms.made < MaxInstances
  /\ usbms' = scsi_command([NewUsbms EXCEPT !.stage = "ready?", !.made = usbms.made + 1], "ready")
  /\ mixed' = (mixed \/ udev.out # <<>> \/ udev.in # <<>>)
  /\ UNCHANGED <<udev, req, calls>>

Idle(d) == [d EXCEPT !.phase = "none"]

inquiry(d) == scsi_command([d EXCEPT !.stage = "inquiry"], "inquiry")

\* test_unit_ready is tried again; init goes on after the last attempt too.
Failed ==
  /\ IF usbms.stage = "call" THEN End("err", req.buf) ELSE UNCHANGED client
  /\ usbms' = CASE usbms.stage = "call" -> Idle([usbms EXCEPT !.stage = "ready"])
                [] usbms.stage = "ready?" /\ usbms.tries > 1 ->
                     scsi_command([usbms EXCEPT !.tries = @ - 1], "ready")
                [] usbms.stage = "ready?" -> inquiry(usbms)
                [] OTHER -> Idle([usbms EXCEPT !.stage = "failed"])

\* The last block number, as read_capacity and read_capacity_16 find it in
\* the response, whatever the response is.
LastLba(resp) == resp[1][2]

\* read_capacity asks again with READ CAPACITY(16) where the answer is LBA32.
read_capacity ==
  IF usbms.cmd = "capacity" /\ LastLba(usbms.resp) = LBA32
  THEN scsi_command(usbms, "capacity16")
  ELSE Idle([usbms EXCEPT !.stage = "ready", !.num_blocks = LastLba(usbms.resp) + 1])

Passed ==
  /\ IF usbms.stage = "call" THEN End("ok", req.buf) ELSE UNCHANGED client
  /\ usbms' = CASE usbms.stage = "call" -> Idle([usbms EXCEPT !.stage = "ready"])
                [] usbms.stage = "ready?" -> inquiry(usbms)
                [] usbms.stage = "inquiry" ->
                     scsi_command([usbms EXCEPT !.stage = "capacity"], "capacity")
                [] OTHER -> read_capacity

\* read_sectors_generic: READ(10) for small block numbers, READ(16) for
\* large ones; fits is whether the buffer holds the sectors.
read_sectors_generic(lba, n, fits) ==
  /\ usbms.stage = "ready" /\ UNCHANGED udev
  /\ Begin("read", 0, lba, n, IF fits THEN "busy" ELSE "err")
  /\ usbms' = IF ~fits THEN usbms
              ELSE scsi_command([usbms EXCEPT !.stage = "call"],
                                IF lba + n <= LBA32 THEN "read10" ELSE "read16")

SecurityProtocol(op) ==
  /\ usbms.stage = "ready" /\ UNCHANGED udev
  /\ Begin(op, 0, 0, 0, "busy")
  /\ usbms' = scsi_command([usbms EXCEPT !.stage = "call"], op)

security_protocol_in == SecurityProtocol("receive")

security_protocol_out == SecurityProtocol("send")

(***************************************************************************)
(* The phases of scsi_command.  A bulk_transfer succeeds, or fails having  *)
(* moved its data or not.                                                  *)
(***************************************************************************)
\* READ(10) has 16 bits for the count; the callers ask for one sector.
Sent ==
  LET count == IF usbms.cmd = "read10" THEN req.n % 65536 ELSE req.n
  IN  [udev EXCEPT !.out = Append(@, Cbw(usbms.cmd, usbms.cbw, req.lba, count))]

\* The device takes one CBW at a time.
UsbmsCommand ==
  /\ usbms.phase = "cbw"
  /\ \/ /\ udev.out = <<>> /\ udev' = Sent /\ UNCHANGED client
        /\ usbms' = [usbms EXCEPT !.phase = IF HasData(usbms.cmd) THEN "data" ELSE "csw"]
     \/ udev' \in {udev} \cup (IF udev.out = <<>> THEN {Sent} ELSE {}) /\ Failed

Consumed == [udev EXCEPT !.in = Tail(@)]

\* The data phase: IN takes what comes first in the pipe, however short.
UsbmsData ==
  /\ usbms.phase = "data"
  /\ \/ /\ IsRead(usbms.cmd) /\ udev.in # <<>> /\ Head(udev.in).kind # "stall"
        /\ udev' = Consumed
        /\ IF usbms.stage = "call"
           THEN Fill(Head(udev.in).blocks) /\ usbms' = [usbms EXCEPT !.phase = "csw"]
           ELSE /\ usbms' = [usbms EXCEPT !.phase = "csw", !.resp = Head(udev.in).blocks]
                /\ UNCHANGED client
     \/ /\ ~IsRead(usbms.cmd) /\ UNCHANGED <<udev, client>>
        /\ usbms' = [usbms EXCEPT !.phase = "csw"]
     \/ /\ udev' \in {udev} \cup (IF udev.in # <<>> THEN {Consumed} ELSE {})
        /\ Failed

\* The checks of the CSW: signature, tag, status.
CswPasses(item) == item.kind = "csw" /\ item.tag = usbms.cbw /\ item.passed

UsbmsStatus ==
  /\ usbms.phase = "csw"
  /\ \/ /\ udev.in # <<>> /\ Head(udev.in).kind # "stall" /\ udev' = Consumed
        /\ IF CswPasses(Head(udev.in)) THEN Passed ELSE Failed
     \/ /\ udev' \in {udev} \cup (IF udev.in # <<>> THEN {Consumed} ELSE {})
        /\ Failed

(***************************************************************************)
(* The device carries out a command it has received.  It may forget what   *)
(* it had not delivered of the earlier ones.                               *)
(***************************************************************************)
Reply(c) == CASE c.cmd \in {"read10", "read16"} -> <<Data(Content(0, c.lba, c.n))>>
              [] c.cmd = "receive" -> <<Data(<<SecData>>)>>
              [] c.cmd = "inquiry" -> <<Data(<<<<-3, 0>>>>)>>
              [] c.cmd = "capacity" -> <<Data(<<<<-4, Min({NumBlocks - 1, LBA32})>>>>)>>
              [] c.cmd = "capacity16" -> <<Data(<<<<-4, NumBlocks - 1>>>>)>>
              [] OTHER -> <<>>

Failing(c) == (IF HasData(c.cmd) THEN <<Stall>> ELSE <<>>) \o <<Csw(c.tag, FALSE)>>

UsbmsServe ==
  /\ udev.out # <<>>
  /\ LET c == Head(udev.out)
     IN  \E old \in {udev.in, <<>>}, ok \in BOOLEAN :
           /\ ok => (c.cmd \in {"read10", "read16"} => c.lba + c.n <= NumBlocks)
           /\ udev' = [out |-> Tail(udev.out), in |-> old \o
                         (IF ok THEN Append(Reply(c), Csw(c.tag, TRUE)) ELSE Failing(c))]
  /\ UNCHANGED <<usbms, client>>

UsbmsDriver ==
  \/ UsbmsNew \/ UsbmsCommand \/ UsbmsData \/ UsbmsStatus
  \/ \E lba \in 0..NumBlocks-1, n \in Counts, fits \in BOOLEAN : read_sectors_generic(lba, n, fits)
  \/ security_protocol_in \/ security_protocol_out

UsbmsNext == UsbmsDriver \/ UsbmsServe

UsbmsProgress == UsbmsCommand \/ UsbmsData \/ UsbmsStatus
=============================================================================
