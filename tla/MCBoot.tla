------------------------------- MODULE MCBoot --------------------------------
(***************************************************************************)
(* The way to a running boot loader, checked on machines with a few disks, *)
(* and what a loader gets from its volume, checked on volumes of every FAT *)
(* type, with sectors, clusters and device blocks of different sizes.      *)
(***************************************************************************)
EXTENDS BootFlow, TLC

CONSTANT Volumes   \* volumes a loader is given

File(n, f, s) == [name |-> n, kind |-> "file", first |-> f, size |-> s]
Dir(n, f) == [name |-> n, kind |-> "dir", first |-> f, size |-> 0]
Lfn == [name |-> "long", kind |-> "lfn", first |-> 0, size |-> 0]

\* FAT12, one sector per cluster.  The entry of cluster 341 lies across two
\* sectors of the table; the directory BOOT has two clusters.
Fat12 ==
  [bps |-> 512, spc |-> 1, reserved |-> 1, nfats |-> 2, rootents |-> 16, spf |-> 2,
   total |-> 400, root_cluster |-> 0, dbs |-> 512, bad |-> {}, fs |-> 0,
   fat |-> (2 :> 4095 @@ 3 :> 4 @@ 4 :> 4095 @@ 341 :> 342 @@ 342 :> 5 @@ 5 :> 4095),
   root |-> <<Lfn, Dir("EFI", 2), File("A", 341, 1100)>>,
   dirs |-> (2 :> <<Dir(".", 2), Dir("..", 0), Dir("BOOT", 3)>>
             @@ 3 :> <<Dir(".", 3), Dir("..", 2)>> \o [i \in 1 .. 14 |-> Lfn]
             @@ 4 :> <<File("BOOTX64.EFI", 341, 1100)>>)]

\* The same on a CD: a cluster is a part of a block, or starts inside one.
Fat12OnCd == [Fat12 EXCEPT !.dbs = 2048]
Fat12Block == [Fat12 EXCEPT !.dbs = 2048, !.spc = 4, !.total = 1600, !.root = <<Dir("EFI", 2)>>,
                            !.fat[3] = 4095,
                            !.dirs[3] = <<Dir(".", 3), Dir("..", 2), File("BOOTX64.EFI", 341, 5000)>>]

\* FAT16 with large sectors on a disk with small blocks, with a bad block in
\* the table or in a directory.
Fat16 == [Fat12 EXCEPT !.bps = 1024, !.spf = 9, !.total = 4300,
                       !.fat = (2 :> 65535 @@ 3 :> 65535 @@ 700 :> 1023 @@ 1023 :> 1024 @@ 1024 :> 65535),
                       !.root = <<Dir("EFI", 2), File("A", 1023, 1500)>>,
                       !.dirs = (2 :> <<Dir("BOOT", 3)>> @@ 3 :> <<File("BOOTX64.EFI", 700, 2500)>>)]
Fat16Bad == [Fat16 EXCEPT !.bad = {6}]
Fat16Torn == [Fat16 EXCEPT !.bad = {43}]   \* the directory BOOT

\* FAT32: the root directory is a chain, and ".." of EFI names cluster 0.
Fat32 == [Fat12 EXCEPT !.nfats = 1, !.rootents = 0, !.spf = 600, !.total = 70000,
                       !.root_cluster = 9, !.dbs = 4096, !.root = <<>>,
                       !.fat = (2 :> 268435455 @@ 3 :> 268435455 @@ 9 :> 268435455
                                @@ 127 :> 128 @@ 128 :> 65600 @@ 65600 :> 268435455),
                       !.dirs = (2 :> <<Dir(".", 2), Dir("..", 0), Dir("BOOT", 3)>>
                                 @@ 3 :> <<File("BOOTX64.EFI", 127, 1100)>>
                                 @@ 9 :> <<Lfn, Dir("EFI", 2), File("A", 128, 700)>>)]

\* Clusters of 128 KB: a root directory and a file in it, and directories in
\* clusters.
Fat12Huge == [Fat12 EXCEPT !.bps = 4096, !.spc = 32, !.rootents = 128, !.total = 12800]

\* Clusters of two blocks that start inside a block.
Misaligned == [Fat12 EXCEPT !.dbs = 2048, !.spc = 8, !.total = 4000,
                            !.fat = (2 :> 3 @@ 3 :> 4095), !.root = <<File("A", 2, 5000)>>]

mcVolumes == {Fat12, Fat12OnCd, Fat12Block, Fat16, Fat16Bad, Fat16Torn, Fat32, Fat12Huge}
mcMisaligned == {Misaligned}

mcPaths == {<<"EFI", "BOOT">>, <<"BOOTX64.EFI">>, <<"A">>, <<"..", "BOOT">>}

----------------------------------------------------------------------------
Id(kind, ctl, unit) == [kind |-> kind, ctl |-> ctl, unit |-> unit]

NoGpt == [header_at |-> 0, lba |-> 2, entry_size |-> 128, entries |-> <<>>]
NoCatalog == [kind |-> "none", sector |-> 20, efi |-> FALSE, longest |-> 1, sections |-> <<>>,
              default |-> [bootable |-> FALSE, rba |-> 0, count |-> 0]]

Disk(id, bs, entries, vols) ==
  [id |-> id, bs |-> bs, blocks |-> 4194304 \div bs, bad |-> {}, ready |-> TRUE, vols |-> vols,
   gpt |-> [NoGpt EXCEPT !.header_at = 512, !.entries = entries], catalog |-> NoCatalog]

\* Partitions start and end at multiples of 2 KB; Small ones are below 1 MB.
Part(esp, first, blocks) == [used |-> TRUE, esp |-> esp, first |-> first, last |-> first + blocks - 1]
Esp(first) == Part(TRUE, first, 1024)
Plain2MB(first) == Part(FALSE, first, 4096)
Small(first) == Part(FALSE, first, 1024)

Nvme == Disk(Id("nvme", 0, 1), 512, <<Esp(64), NoPartition, Esp(2048), Small(1088)>>,
             (64 * 512 :> Fat12 @@ 2048 * 512 :> Fat32 @@ 1088 * 512 :> Fat12))
Usb == Disk(Id("usb", 1, 3), 512, <<Plain2MB(64)>>, (64 * 512 :> Fat16))
Cd == Disk(Id("ahci", 0, 0), 2048, <<Small(64), Esp(1088)>>, (64 * 512 :> Fat12 @@ 1088 * 512 :> Fat12))
Iso == [Disk(Id("ahci", 0, 1), 2048, <<>>, (40 * 2048 :> Fat12)) EXCEPT
          !.gpt = NoGpt,
          !.catalog = [NoCatalog EXCEPT !.kind = "el torito", !.sections =
            <<[efi |-> FALSE, entries |-> <<[bootable |-> TRUE, rba |-> 30, count |-> 4]>>],
              [efi |-> TRUE, entries |-> <<[bootable |-> TRUE, rba |-> 40, count |-> 200]>>]>>]]
Sata == Disk(Id("ahci", 0, 2), 512, <<Esp(64), Esp(2048), Esp(4096)>>,
             (64 * 512 :> Fat12 @@ 2048 * 512 :> Fat12 @@ 4096 * 512 :> Fat12))
\* The loader of the first partition is damaged, and so is the second block
\* of partition entries.
Worn == [Sata EXCEPT !.id.unit = 3, !.bad = {3, 64 + 6 + 340, 8191},
                     !.gpt.entries = <<Esp(64), Esp(2048), NoPartition, Small(3072), Esp(4096)>>]
\* A gap in the table hides its last partition.
Gap == [Sata EXCEPT !.id.unit = 4,
                    !.gpt.entries = <<NoPartition, NoPartition, Esp(64), NoPartition, NoPartition, Esp(2048)>>]
Card(ctl) == Disk(Id("sdhci", ctl, 0), 512, <<Esp(64)>>, (64 * 512 :> IF ctl = 0 THEN Fat12 ELSE Fat16))
NoCard == [Card(0) EXCEPT !.ready = FALSE]
\* Tables with entries of 256 bytes, and of 2 KB: the second of these lies
\* across two blocks of the disk and hides what follows.
Wide == [Usb EXCEPT !.gpt.entry_size = 256, !.gpt.entries = <<Small(4160), NoPartition, Plain2MB(64)>>]
Coarse == [Disk(Id("ahci", 0, 5), 4096, <<Esp(64), Esp(2048), Esp(4096)>>,
                (64 * 512 :> Fat32 @@ 2048 * 512 :> Fat12 @@ 4096 * 512 :> Fat12)) EXCEPT
             !.gpt.entry_size = 2048]
\* Blocks larger than an ISO sector and no table; clusters larger than the
\* buffer.
Blank == [Coarse EXCEPT !.gpt = NoGpt]
Huge == [Usb EXCEPT !.vols = (64 * 512 :> Fat12Huge)]

mcMachines == {<<Nvme, Usb>>, <<Cd, Iso>>, <<Sata, Cd, Card(0)>>, <<Worn, Gap>>,
               <<Usb, Card(0), Card(1)>>, <<NoCard, Card(1)>>, <<Coarse, Wide>>, <<Blank, Huge>>}

mcPresses == {<<"ps2", "Down">>, <<"ps2", "Enter">>, <<"serial", <<"ESC", "[", "B">>>>,
              <<"serial", <<"2">>>>, <<"ps2", "Up">>}

----------------------------------------------------------------------------
\* A machine is switched on, or a loader has been given a volume.
Init ==
  /\ BlockInit /\ FilesInit /\ BootInit
  /\ \/ \E m \in Machines, n \in HandlesLeft : PowerOn(m, n)
     \/ /\ volume \in {FatNew(v) : v \in Volumes} /\ disks = <<>>
        /\ boot = [Fresh(<<>>, 0) EXCEPT !.phase = "files"]

Next ==
  \/ BootNext
  \/ /\ boot.phase = "running" /\ BlockNext(boot.published)
     /\ UNCHANGED <<fileVars, bootVars>>
  \/ /\ boot.phase = "files" /\ FilesNext
     /\ UNCHANGED <<blockVars, bootVars>>

\* The loop of show_menu goes round, and its seconds pass.
Spec == Init /\ [][Next]_<<blockVars, fileVars, bootVars>>
             /\ WF_<<blockVars, fileVars, bootVars>>(MenuStep(TRUE))
=============================================================================
