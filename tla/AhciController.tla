--------------------------- MODULE AhciController ---------------------------
(***************************************************************************)
(* The AHCI driver of drivers/ahci/mod.rs and the ports it drives.  A      *)
(* command is a slot's table and the slot's bit in the port's CI register, *)
(* which the device clears when the command is done.  Reads go straight    *)
(* into the caller's buffer, so a read the driver has given up on may      *)
(* still write there.  A device that reports an error either stops the     *)
(* port with the bit set, or clears the bit and goes on; the driver does   *)
(* not restart a port, so on a stopped one every later command fails.      *)
(***************************************************************************)
EXTENDS BlockClient, Functions, FiniteSetsExt

CONSTANTS
  NumPorts,        \* 32
  NumSlots,        \* num_cmd_slots
  AhciMachines     \* what is attached: port -> kind of device

ASSUME AhciAssumption == NumPorts \in Nat \ {0} /\ NumSlots \in Nat \ {0}

VARIABLES
  ahci,   \* the driver: struct AhciController and the place it waits at
  adev    \* the ports and the devices on them

ahciVars == <<ahci, adev>>

AhciPorts == 0..NumPorts-1

Slots == 0..NumSlots-1

\* The header, the table with its FIS and the PRDT of one slot; num orders
\* the commands by age.
Table(op, lba, n, num) == [op |-> op, lba |-> lba, n |-> n, num |-> num]

\* struct AhciController: port is the one being probed or called, slot the
\* one waited for, issued the number of commands so far.
NewAhci == [stage |-> "off", port |-> 0, slot |-> 0, ports |-> <<>>, issued |-> 0]

NewPort(kind) ==
  [kind |-> kind, ci |-> {}, err |-> FALSE, halted |-> FALSE,
   table |-> [s \in Slots |-> Table("none", 0, 0, 0)]]

AhciInit ==
  /\ ahci = NewAhci
  /\ adev \in {[p \in AhciPorts |-> NewPort(m[p])] : m \in AhciMachines}

(***************************************************************************)
(* Commands.                                                               *)
(***************************************************************************)
\* find_free_slot; no queued command is used, so SACT is zero.
FreeSlots(p) == Slots \ adev[p].ci

find_free_slot(p) == Min(FreeSlots(p))

\* The driver, in state d, fills a slot of port p and sets its bit.
Issue(d, p, op, lba, n) ==
  LET s == find_free_slot(p)
  IN  /\ ahci' = [d EXCEPT !.port = p, !.slot = s, !.issued = @ + 1]
      /\ adev' = [adev EXCEPT ![p].ci = @ \cup {s},
                              ![p].table[s] = Table(op, lba, n, d.issued)]

\* The loop sees the slot's bit clear and no error in the task file.  Its
\* other ways out return an error: an error in the task file, the TFES bit
\* (set by any earlier error on the port), and the timeout, at any time.
issue_command_by_port ==
  /\ ahci.slot \notin adev[ahci.port].ci
  /\ ~adev[ahci.port].err

\* issue_command is the same loop.
issue_command == issue_command_by_port

(***************************************************************************)
(* Start-up.                                                               *)
(***************************************************************************)
\* new: the HBA is reset and the ports are probed in order.
AhciNew ==
  /\ ahci.stage = "off"
  /\ \E s \in {"probe", "failed"} : ahci' = [ahci EXCEPT !.stage = s]
  /\ UNCHANGED <<adev, client>>

\* The device type a signature gives; it may not be there yet.
Types(kind) == CASE kind = "sata" -> {"Sata"}
                 [] kind = "satapi" -> {"Satapi", "Sata"}
                 [] kind = "other" -> {"Semb", "Sata"}
                 [] OTHER -> {}

NextPort(d) == IF d.port + 1 < NumPorts
               THEN [d EXCEPT !.port = @ + 1, !.stage = "probe"]
               ELSE [d EXCEPT !.stage = "probed"]

\* A port without a device, whose link is not up in time, for which there
\* is no memory, or with a device of another kind.
SkipPort ==
  /\ ahci.stage = "probe"
  /\ ahci' = NextPort(ahci)
  /\ UNCHANGED <<adev, client>>

\* init_port up to the first command; the port is stopped and started.
init_port(type) ==
  LET p == ahci.port
  IN  /\ ahci.stage = "probe" /\ type \in Types(adev[p].kind) /\ FreeSlots(p) # {}
      /\ CASE type = "Sata" -> Issue([ahci EXCEPT !.stage = "identify"], p, "identify", 0, 0)
           [] type = "Satapi" -> Issue([ahci EXCEPT !.stage = "packet"], p, "packet", 0, 0)
           [] OTHER -> ahci' = NextPort(ahci) /\ UNCHANGED adev
      /\ UNCHANGED client

\* init_ports_with_sss: a disk is added whether it could be identified or not.
AddPort(type, count, size) ==
  ahci' = NextPort([ahci EXCEPT !.ports = Append(@,
    [num |-> ahci.port, type |-> type, sector_count |-> count, sector_size |-> size])])

identify_device ==
  /\ ahci.stage = "identify"
  /\ \/ issue_command /\ AddPort("Sata", NumBlocks, 512)
     \/ AddPort("Sata", 0, 512)
  /\ UNCHANGED <<adev, client>>

identify_device_atapi ==
  /\ ahci.stage = "packet"
  /\ \/ /\ issue_command /\ FreeSlots(ahci.port) # {}
        /\ Issue([ahci EXCEPT !.stage = "capacity"], ahci.port, "capacity", 0, 0)
     \/ AddPort("Satapi", 0, 512) /\ UNCHANGED adev
  /\ UNCHANGED client

read_capacity_atapi ==
  /\ ahci.stage = "capacity"
  /\ \/ issue_command /\ AddPort("Satapi", NumBlocks, 2048)
     \/ AddPort("Satapi", 0, 2048)
  /\ UNCHANGED <<adev, client>>

\* init: the controller is registered, or there is no room for it.
AhciRegister ==
  /\ ahci.stage = "probed"
  /\ \E s \in {"ready", "failed"} : ahci' = [ahci EXCEPT !.stage = s]
  /\ UNCHANGED <<adev, client>>

(***************************************************************************)
(* Calls.  index counts the registered ports.                              *)
(***************************************************************************)
ReadFrom(index, op, lba, n) ==
  LET p == ahci.ports[index].num
  IN  IF FreeSlots(p) = {}
      THEN Begin("read", p, lba, n, "err") /\ UNCHANGED ahciVars
      ELSE Begin("read", p, lba, n, "busy")
           /\ Issue([ahci EXCEPT !.stage = "read"], p, op, lba, n)

read_sectors_sata(index, lba, n) == ReadFrom(index, "dma", lba, n)

read_sectors_atapi(index, lba, n) == ReadFrom(index, "packetRead", lba, n)

AhciRead(index, lba, n) ==
  /\ ahci.stage = "ready"
  /\ IF index \notin DOMAIN ahci.ports
     THEN Begin("read", 0, lba, n, "err") /\ UNCHANGED ahciVars
     ELSE IF ahci.ports[index].type = "Satapi"
          THEN read_sectors_atapi(index, lba, n)
          ELSE read_sectors_sata(index, lba, n)

\* Faulty: the polling loop has no timeout.
AhciReadDone_waits ==
  /\ ahci.stage = "read"
  /\ issue_command_by_port /\ End("ok", req.buf)
  /\ ahci' = [ahci EXCEPT !.stage = "ready"] /\ UNCHANGED adev

\* Faulty: the loop does not look at the task file's error bit.
AhciReadDone_no_tfd ==
  /\ ahci.stage = "read"
  /\ \/ ahci.slot \notin adev[ahci.port].ci /\ End("ok", req.buf)
     \/ End("err", req.buf)
  /\ ahci' = [ahci EXCEPT !.stage = "ready"] /\ UNCHANGED adev

AhciReadDone ==
  /\ ahci.stage = "read"
  /\ \/ issue_command_by_port /\ End("ok", req.buf)
     \/ End("err", req.buf)
  /\ ahci' = [ahci EXCEPT !.stage = "ready"] /\ UNCHANGED adev

\* trusted_receive and trusted_send use a page of their own, freed at the end
\* of the call; where there is none to be had, as where there is no such port
\* or no slot, the call fails at once.  len is the caller's buffer: empty, one
\* that fits into the page, or a large one, of more than 64 KiB.  What lies
\* between is not refused and runs over the end of the page; the memory there
\* is not modelled, and no such call is made.
Trusted(op, index, refused) ==
  /\ ahci.stage = "ready"
  /\ \/ Begin(op, 0, 0, 0, "err") /\ UNCHANGED ahciVars
     \/ /\ index \in DOMAIN ahci.ports /\ ~refused
        /\ FreeSlots(ahci.ports[index].num) # {}
        /\ Begin(op, 0, 0, 0, "busy")
        /\ Issue([ahci EXCEPT !.stage = op], ahci.ports[index].num, op, 0, 0)

trusted_receive(index, len) == Trusted("receive", index, len # "page")

trusted_send(index, len) == Trusted("send", index, len = "large")

TrustedDone ==
  /\ ahci.stage \in {"receive", "send"}
  /\ \/ /\ issue_command_by_port
        /\ End("ok", IF ahci.stage = "receive" THEN <<SecData>> ELSE Blank)
     \/ End("err", Blank)
  /\ ahci' = [ahci EXCEPT !.stage = "ready"] /\ UNCHANGED adev

(***************************************************************************)
(* The device on port p runs a command; a disk drive refuses packets and a *)
(* packet drive refuses disk commands.                                     *)
(***************************************************************************)
Supports(kind, op) == CASE kind = "sata" -> op \in {"identify", "dma", "receive", "send"}
                        [] kind = "satapi" -> op \in {"packet", "capacity", "packetRead"}
                        [] OTHER -> FALSE

AhciExecute(p, s, ok) ==
  LET t == adev[p].table[s]
  IN  /\ s \in adev[p].ci /\ ~adev[p].halted
      /\ ok => Supports(adev[p].kind, t.op) /\ t.lba + t.n <= NumBlocks
      /\ \E halts \in BOOLEAN :
           adev' = IF ok THEN [adev EXCEPT ![p].ci = @ \ {s}, ![p].err = FALSE]
                   ELSE [adev EXCEPT ![p].ci = IF halts THEN @ ELSE @ \ {s},
                           ![p].err = TRUE, ![p].halted = halts]
      /\ req' = IF ok /\ t.op \in {"dma", "packetRead"}
                THEN [req EXCEPT !.buf = Content(p, t.lba, t.n)] ELSE req
      /\ mixed' = (mixed \/ \E q \in AhciPorts : \E o \in adev[q].ci :
                                   ~adev[q].halted /\ adev[q].table[o].num < t.num)
      /\ UNCHANGED <<ahci, calls>>

\* No sectors are never asked for: every caller asks for one.  The code would
\* not refuse, and a count of 0 is 65536 sectors to the disk.
AhciDriver ==
  \/ AhciNew \/ AhciRegister \/ SkipPort \/ (\E type \in {"Sata", "Satapi", "Semb"} : init_port(type))
  \/ identify_device \/ identify_device_atapi \/ read_capacity_atapi
  \/ \E index \in 1..NumPorts :
       \/ \E lba \in 0..NumBlocks-1, n \in Counts \ {0} : AhciRead(index, lba, n)
       \/ \E len \in {"empty", "page", "large"} :
            trusted_receive(index, len) \/ trusted_send(index, len)
  \/ AhciReadDone \/ TrustedDone

AhciNext == AhciDriver \/ \E p \in AhciPorts, s \in Slots, ok \in BOOLEAN : AhciExecute(p, s, ok)

AhciProgress == AhciReadDone \/ TrustedDone
=============================================================================
