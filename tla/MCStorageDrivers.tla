-------------------------- MODULE MCStorageDrivers --------------------------
(***************************************************************************)
(* The four storage drivers side by side, with what is asked of each of    *)
(* them: a block device whose calls return, which answers with the blocks  *)
(* asked for and knows the devices it found.  machine says which           *)
(* controller the machine has.                                             *)
(***************************************************************************)
EXTENDS NvmeController, AhciController, SdhciController, UsbMassStorage

VARIABLE machine

driverVars == <<nvmeVars, ahciVars, sdhciVars, usbmsVars, machine>>

Some(S) == CHOOSE x \in S : TRUE

Init ==
  /\ machine \in {"nvme", "ahci", "sdhci", "usb"}
  /\ ClientInit /\ NvmeInit /\ AhciInit /\ SdhciInit /\ UsbmsInit
  /\ machine # "nvme" => ndev = NewDevice(Some(Disks))
  /\ machine # "ahci" => adev = [p \in AhciPorts |-> NewPort(Some(AhciMachines)[p])]
  /\ machine # "sdhci" => slot = NewSlot(Some(Cards))

Next ==
  /\ UNCHANGED machine
  /\ \/ machine = "nvme" /\ NvmeNext /\ UNCHANGED <<ahciVars, sdhciVars, usbmsVars>>
     \/ machine = "ahci" /\ AhciNext /\ UNCHANGED <<nvmeVars, sdhciVars, usbmsVars>>
     \/ machine = "sdhci" /\ SdhciNext /\ UNCHANGED <<nvmeVars, ahciVars, usbmsVars>>
     \/ machine = "usb" /\ UsbmsNext /\ UNCHANGED <<nvmeVars, ahciVars, sdhciVars>>

\* The polling loops of the drivers all end: each has a timeout.
Progress ==
  /\ UNCHANGED machine
  /\ \/ machine = "nvme" /\ NvmeProgress /\ UNCHANGED <<ahciVars, sdhciVars, usbmsVars>>
     \/ machine = "ahci" /\ AhciProgress /\ UNCHANGED <<nvmeVars, sdhciVars, usbmsVars>>
     \/ machine = "sdhci" /\ SdhciProgress /\ UNCHANGED <<nvmeVars, ahciVars, usbmsVars>>
     \/ machine = "usb" /\ UsbmsProgress /\ UNCHANGED <<nvmeVars, ahciVars, sdhciVars>>

Spec == Init /\ [][Next]_<<client, driverVars>> /\ WF_<<client, driverVars>>(Progress)

Store == INSTANCE BlockStore WITH
  call <- [st |-> req.st, op |-> req.op, dev |-> req.dev, lba |-> req.lba, n |-> req.n],
  data <- IF req.st = "ok" THEN req.buf ELSE Blank

\* A call of a driver that succeeds has delivered the blocks asked for, from
\* the device asked for, whatever commands were abandoned before it, as long
\* as the device works off its commands in order and the driver has not been
\* set up anew over left-over answers (the polling loops and their error
\* paths in wait_io_completion, issue_command_by_port,
\* read_sectors_internal of the SD driver, scsi_command).
ImplementsBlockStore == Store!StoreSpec

\* Every call returns: the polling loops give up (wait_io_completion,
\* issue_command_by_port, wait_inhibit and the loops of the SD driver,
\* bulk_transfer).
CallsReturn == (req.st = "busy") ~> (req.st # "busy")

\* The high dword of a size is read on as the next namespace of the list.
NvmeKnows ==
  \A ns \in Range(nvme.namespaces) :
    \/ ns \in Range(ndev.disk)
    \/ ns.num_blocks = 0 /\ \E big \in Range(ndev.disk) : ns.nsid = big.num_blocks \div DWORD

AhciKnows ==
  \A i \in DOMAIN ahci.ports :
    LET p == ahci.ports[i]
    IN  /\ p.sector_count \in {0, NumBlocks}
        /\ p.sector_count > 0 =>
             p.type = (IF adev[p.num].kind = "satapi" THEN "Satapi" ELSE "Sata")
        /\ \A j \in 1..i-1 : ahci.ports[j].num < p.num

\* After a card has sent data nobody took, it is left in the data state.
SdhciKnows ==
  sdhci.card_initialized =>
    /\ sdhci.high_capacity = slot.card.hc
    /\ {126, 127} \cap slot.card.csd # {} => sdhci.num_blocks = slot.card.blocks
    /\ sdhci.rca = slot.rca /\ sdhci.width = slot.width
    /\ slot.state = "tran" \/ (slot.state = "data" /\ calls > 0)

UsbmsKnows == usbms.stage \in {"ready", "call"} => usbms.num_blocks = NumBlocks

\* What a driver has registered is what is there: an NVMe namespace with its
\* size, or one of no blocks, which identify_namespaces makes of the high
\* dword of a size of 2^32 blocks and more; an AHCI port once, with its kind
\* and a size it answered itself; an SD card that is selected and agrees with
\* the host on addressing and bus width, whatever responses were lost in
\* init_card, with its size where its CSD has version 2 (parse_csd takes the
\* fields of version 1 from the wrong bits); the size of a USB disk as it
\* gave it, not another command's answer.
DriversKnowTheirDevices ==
  mixed \/ (NvmeKnows /\ AhciKnows /\ SdhciKnows /\ UsbmsKnows)

\* identify_namespaces gets the list of the active namespaces and identifies
\* each of them: a controller that is set up has them all.
NamespacesAreFound ==
  nvme.stage = "ready" => Range(nvme.namespaces) = Range(ndev.disk)

-----------------------------------------------------------------------------
(* The machines of the run.                                                *)

MCQueueSize == [admin |-> 3, io |-> 3]

\* Two namespaces; sizes that need both dwords, whose high dword is the same
\* namespace again, or one that is not there.
MCDisks == {<<[nsid |-> 1, num_blocks |-> 3], [nsid |-> 2, num_blocks |-> 3]>>,
            <<[nsid |-> 1, num_blocks |-> 7]>>, <<[nsid |-> 1, num_blocks |-> 8]>>}

MCAhciMachines == {<<"sata", "satapi">>, <<"other", "sata">>}

MCPorts(m) == [p \in 0..1 |-> m[p + 1]]

MCMachines == {MCPorts(m) : m \in MCAhciMachines}

\* The bits of a field of n bits from bit lo on.
Field(value, lo, n) == {lo + i : i \in {j \in 0 .. n - 1 : (value \div 2^j) % 2 = 1}}

\* CCC, READ_BL_LEN, READ_BL_PARTIAL, C_SIZE and C_SIZE_MULT of a 32 MB card.
OldCsd == Field(1461, 84, 12) \cup Field(9, 80, 4) \cup {79} \cup Field(1023, 62, 12)
          \cup Field(4, 47, 3)

\* CSD_STRUCTURE, CCC and C_SIZE of a high capacity card.
NewCsd == Field(1, 126, 2) \cup Field(1461, 84, 12) \cup Field(2, 48, 22)

\* SD 1.x, SD 2.0 standard capacity, SDHC.
MCCards == {[v2 |-> FALSE, hc |-> FALSE, blocks |-> 65536, csd |-> OldCsd],
            [v2 |-> TRUE, hc |-> FALSE, blocks |-> 65536, csd |-> OldCsd],
            [v2 |-> TRUE, hc |-> TRUE, blocks |-> 3072, csd |-> NewCsd]}
=============================================================================
