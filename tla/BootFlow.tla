------------------------------ MODULE BootFlow -------------------------------
(***************************************************************************)
(* From the disks to a running boot loader: the search for boot entries    *)
(* and the menu of menu.rs, and init_storage, boot_selected_entry,         *)
(* install_block_io_for_*, try_boot_from_esp_* and                         *)
(* load_and_execute_bootloader of lib.rs.  The four variants of each, for  *)
(* NVMe, AHCI, USB and SD disks, differ in the disk they name; device      *)
(* paths are left out.                                                     *)
(*                                                                         *)
(* A machine is the sequence of its disks in the order they are searched:  *)
(* the default namespace of NVMe controller 0, the ports of AHCI           *)
(* controller 0, the first USB disk, the SD cards.  Beyond its partition   *)
(* table and boot catalog, a disk has the FAT volumes it holds, by the     *)
(* byte they start at.                                                     *)
(***************************************************************************)
EXTENDS BlockIo, SimpleFileSystem

CONSTANTS
  Machines,          \* sequences of disks
  HandlesLeft,       \* handles that can still be created
  MAX_BOOT_ENTRIES,  \* 8
  TIMEOUT,           \* DEFAULT_TIMEOUT_SECONDS, 5
  Presses,           \* what is typed: <<"ps2", key>> or <<"serial", bytes>>
  MaxTyped           \* bound: keys typed while the menu is shown

VARIABLES
  menu,   \* BootMenu and remaining_seconds
  boot,   \* how far the firmware has come
  keys    \* the PS/2 keyboard, and the serial line with bytes on their way

bootVars == <<menu, boot, keys>>

LOADER == <<"EFI", "BOOT", "BOOTX64.EFI">>

NoBoot == [disk |-> Nothing, num |-> 0, part |-> NoPartition]

NoImage == [n |-> 0, pieces |-> <<>>]

\* published: the BlockIO instances on handles; device: the one on the
\* loader's device handle, 0 for none; handles: how many can be created.
Fresh(todo, n) ==
  [phase |-> "discover", todo |-> todo, fault |-> FALSE, entry |-> NoBoot, handles |-> n,
   published |-> {}, device |-> 0, image |-> NoImage]

NoKeys == [ps2 |-> <<>>, wire |-> <<>>, uart |-> <<>>, typed |-> 0]

BootInit ==
  /\ menu = [entries |-> <<>>, selected |-> 1, remaining |-> TIMEOUT]
  /\ keys = NoKeys

\* A machine is switched on.
PowerOn(m, n) ==
  /\ disks = [id \in {m[i].id : i \in DOMAIN m} |-> m[CHOOSE i \in DOMAIN m : m[i].id = id]]
  /\ boot = Fresh([i \in DOMAIN m |-> m[i].id], n)
  /\ volume = NoVolume

\* What a file system finds on a disk from a block on: a volume it mounts.
OnDisk(d, lba) == [d.vols[lba * d.bs] EXCEPT !.dbs = d.bs, !.bad = {b - lba : b \in d.bad}]

Mount(v) == IF Mounts(v) THEN FatNew(v) ELSE NoVolume

VolumeOn(id, lba) ==
  IF id \in DOMAIN disks /\ disks[id].ready /\ lba * disks[id].bs \in DOMAIN disks[id].vols
  THEN Mount(OnDisk(disks[id], lba)) ELSE NoVolume

----------------------------------------------------------------------------
\* What the search for the loader on a volume comes to.
check_bootloader_exists(v) ==
  LET Is(f) == CASE f.st = "panic" -> "panic"
                 [] f.st = "ok" /\ f.entry.size > 0 -> "yes"
                 [] OTHER -> "no"
  IN  IF v = NoVolume THEN "no" ELSE Is(find_file(v, LOADER))

\* Where the loader is looked for on a disk: in the partitions that may be a
\* boot partition; on an AHCI disk without partitions, in its EFI boot image.
CandidatesAmong(id, parts) ==
  LET d == disks[id]
      all == [i \in DOMAIN parts |-> [disk |-> id, num |-> i, part |-> parts[i]]]
      image == find_efi_boot_image(d)
      iso == IF id.kind = "ahci" /\ image.used
             THEN <<[disk |-> id, num |-> 0, part |-> image]>> ELSE <<>>
  IN  IF parts # <<>>
      THEN SelectSeq(all, LAMBDA e : e.part.esp \/ is_potential_esp(e.part, d.bs)) ELSE iso

\* The entries of a disk, up to the candidate at which the search panics.
Search(id) ==
  LET parts == PartitionsOf(disks[id])
      cands == CandidatesAmong(id, parts)
      Is(e, answer) == check_bootloader_exists(VolumeOn(id, e.part.first)) = answer
      bad == {i \in DOMAIN cands : Is(cands[i], "panic")}
      met == {i \in DOMAIN cands : \A j \in bad : i < j}
  IN  IF id.kind = "ahci" /\ parts = <<>> /\ IsoPanics(disks[id])
      THEN [found |-> <<>>, panic |-> TRUE]
      ELSE [found |-> SelectSeq(SubSeq(cands, 1, Cardinality(met)), LAMBDA e : Is(e, "yes")),
            panic |-> bad # {}]

\* discover_boot_entries, one disk at a time: it is stored as the disk of its
\* kind, unless the memory for that is not to be had, and searched.  When the
\* menu is full the search of disks of this kind ends.
Searched(id, stored, result) ==
  LET room == MAX_BOOT_ENTRIES - Len(menu.entries)
      rest == Tail(boot.todo)
      n == Len(result.found)
  IN  /\ global' = IF stored /\ disks[id].ready THEN store_global_device(id) ELSE global
      /\ menu' = [menu EXCEPT !.entries = @ \o SubSeq(result.found, 1, IF n < room THEN n ELSE room)]
      /\ boot' = IF result.panic /\ n <= room THEN [boot EXCEPT !.phase = "panic"]
                 ELSE [boot EXCEPT !.todo = IF n > room
                                            THEN SelectSeq(rest, LAMBDA x : x.kind # id.kind) ELSE rest,
                                   !.fault = @ \/ ~stored]

Discover ==
  /\ boot.phase = "discover" /\ boot.todo # <<>>
  /\ LET id == boot.todo[1]
     IN  \E stored \in BOOLEAN :
           Searched(id, stored, IF stored /\ disks[id].ready THEN Search(id)
                                ELSE [found |-> <<>>, panic |-> FALSE])
  /\ UNCHANGED <<disks, registry, contexts, block_reply, fileVars, keys>>

Halted == [boot EXCEPT !.phase = "halted"]

ShowMenu ==
  /\ boot.phase = "discover" /\ boot.todo = <<>>
  /\ boot' = IF menu.entries = <<>> THEN Halted ELSE [boot EXCEPT !.phase = "menu"]
  /\ UNCHANGED <<blockVars, fileVars, menu, keys>>

----------------------------------------------------------------------------
\* Somebody types; the bytes of a serial key arrive one after the other.
Type(press) ==
  /\ boot.phase = "menu" /\ keys.typed < MaxTyped
  /\ keys' = [keys EXCEPT !.typed = @ + 1,
                          !.ps2 = IF press[1] = "ps2" THEN Append(@, press[2]) ELSE @,
                          !.wire = IF press[1] = "serial" THEN @ \o press[2] ELSE @]
  /\ UNCHANGED <<blockVars, fileVars, menu, boot>>

Arrived(k, n) == [k EXCEPT !.wire = SubSeq(@, n + 1, Len(@)),
                           !.uart = @ \o SubSeq(k.wire, 1, n)]

Arrive ==
  /\ boot.phase = "menu" /\ keys.wire # <<>>
  /\ keys' = Arrived(keys, 1)
  /\ UNCHANGED <<blockVars, fileVars, menu, boot>>

\* try_read of the serial line: the byte, if there is one.
Byte(k, i) == IF Len(k.uart) >= i THEN k.uart[i] ELSE "none"

Drop(k, i) == [k EXCEPT !.uart = SubSeq(@, i + 1, Len(@))]

\* read_key: the PS/2 keyboard first.  After an escape byte there is a pause,
\* in which late bytes arrive; what then follows is taken, "[" or not.
read_key(k) ==
  LET Sequence(q) ==
        IF Byte(q, 2) # "[" THEN [key |-> "Escape", keys |-> Drop(q, 2)]
        ELSE [keys |-> Drop(q, 3), key |-> CASE Byte(q, 3) = "A" -> "Up"
                                             [] Byte(q, 3) = "B" -> "Down"
                                             [] OTHER -> "Escape"]
  IN  CASE k.ps2 # <<>> -> {[key |-> k.ps2[1], keys |-> [k EXCEPT !.ps2 = Tail(@)]]}
        [] k.ps2 = <<>> /\ Byte(k, 1) = "ESC" ->
             {Sequence(Arrived(k, n)) : n \in 0 .. Len(k.wire)}
        [] OTHER -> {[key |-> Byte(k, 1), keys |-> Drop(k, 1)]}

Digits == <<"1", "2", "3", "4", "5", "6", "7", "8", "9">>

Selected(key) ==
  LET n == Len(menu.entries)
      numbers == {i \in DOMAIN Digits : Digits[i] = key /\ i <= n}
  IN  CASE key \in {"Up", "k"} -> IF menu.selected > 1 THEN menu.selected - 1 ELSE 1
        [] key \in {"Down", "j"} -> IF menu.selected < n THEN menu.selected + 1 ELSE n
        [] numbers # {} -> CHOOSE i \in numbers : TRUE
        [] OTHER -> menu.selected

\* The menu is left; keys not read yet are the loader's.
Choose ==
  /\ boot' = [boot EXCEPT !.phase = "boot", !.entry = menu.entries[menu.selected]]
  /\ menu' = [menu EXCEPT !.selected = 1, !.remaining = TIMEOUT]
  /\ keys' = NoKeys

MenuStep_no_countdown(expired) ==
  /\ boot.phase = "menu"
  /\ \E r \in read_key(keys) :
       \/ r.key = "Enter" /\ Choose
       \/ /\ r.key # "Enter" /\ keys' = r.keys /\ UNCHANGED boot
          /\ menu' = [menu EXCEPT !.remaining = TIMEOUT, !.selected = Selected(r.key)]
  /\ UNCHANGED <<blockVars, fileVars>>

\* One turn of show_menu's loop: a second may be over, then a key is read.
MenuStep(expired) ==
  LET left == IF expired /\ menu.remaining > 0 THEN menu.remaining - 1 ELSE menu.remaining
  IN  /\ boot.phase = "menu"
      /\ IF left = 0 /\ menu.remaining > 0
         THEN Choose
         ELSE \E r \in read_key(keys) :
                \/ r.key = "Enter" /\ Choose
                \/ /\ r.key # "Enter" /\ keys' = r.keys /\ UNCHANGED boot
                   /\ menu' = [menu EXCEPT !.remaining = IF r.key = "none" THEN left ELSE TIMEOUT,
                                           !.selected = Selected(r.key)]
      /\ UNCHANGED <<blockVars, fileVars>>

----------------------------------------------------------------------------
\* install_block_io_for_*: an instance for the disk and one for each of its
\* partitions; each goes onto a handle of its own while there are handles.
\* The memory may run out after any of them.
install_block_io_for_disk(id, sid, memory) ==
  LET parts == PartitionsOf(disks[id])
      made[i \in 0 .. Len(parts)] ==
        IF i = 0 THEN create_disk_block_io(contexts, sid, id, memory > 0)
        ELSE create_partition_block_io(made[i - 1], i, sid, parts[i], id, memory > i)
  IN  made[Len(parts)]

Publish(ctxs) ==
  LET new == Len(ctxs) - Len(contexts)
      n == IF new < boot.handles THEN new ELSE boot.handles
  IN  [boot EXCEPT !.handles = @ - n, !.phase = "try",
                   !.published = @ \cup (Len(contexts) + 1 .. Len(contexts) + n)]

boot_selected_entry_stale ==
  /\ boot.phase = "boot"
  /\ LET id == boot.entry.disk
     IN  /\ registry' = register_device(id)
         /\ contexts' = install_block_io_for_disk(id, 1, MAX_PARTITIONS + 1)
         /\ boot' = Publish(install_block_io_for_disk(id, 1, MAX_PARTITIONS + 1))
  /\ UNCHANGED <<disks, global, block_reply, fileVars, menu, keys>>

\* boot_selected_entry: the disk is stored again as the disk of its kind (a
\* USB disk is since it was found), registered, and given its BlockIO.  It
\* ends where the disk cannot be stored or the registry is full.
boot_selected_entry ==
  /\ boot.phase = "boot"
  /\ LET id == boot.entry.disk
         stored == IF id.kind = "usb" THEN global ELSE store_global_device(id)
     IN  \/ /\ id.kind # "usb" \/ RegistryFull
            /\ boot' = Halted /\ global' = (IF RegistryFull THEN stored ELSE global)
            /\ UNCHANGED <<registry, contexts>>
         \/ /\ ~RegistryFull /\ global' = stored
            /\ registry' = register_device(id)
            /\ \E memory \in 0 .. Len(PartitionsOf(disks[id])) + 1 :
                 LET ctxs == install_block_io_for_disk(id, Len(registry) + 1, memory)
                 IN  contexts' = ctxs /\ boot' = Publish(ctxs)
  /\ UNCHANGED <<disks, block_reply, fileVars, menu, keys>>

\* load_and_execute_bootloader: the file is read as a whole; what the memory,
\* the PE loader or the handles refuse ends the attempt.  A volume with
\* clusters on which the read would panic has not come into the menu.
Executed(b, got) ==
  {[b EXCEPT !.phase = "halted"]} \cup
  (IF got.st = "ok" /\ b.handles > 0
   THEN {[b EXCEPT !.phase = "running", !.handles = @ - 1,
                   !.image = [n |-> got.n, pieces |-> got.pieces]]}
   ELSE {})

load_and_execute_bootloader(b, v, f) ==
  IF f.st # "ok" THEN {[b EXCEPT !.phase = "halted"]}
  ELSE Executed(b, read_file(v, f.entry.first, f.entry.size, 0, f.entry.size))

\* The device handle: registered a second time, with a BlockIO of its own
\* unless the registry is full.
WithDevice(id, at_0, v, memory) ==
  LET ctxs == IF RegistryFull THEN contexts
              ELSE create_partition_block_io(contexts, boot.entry.num, Len(registry) + 1,
                                             boot.entry.part, id, memory)
      io == IF Len(ctxs) > Len(contexts) THEN Len(ctxs) ELSE 0
      b == [boot EXCEPT !.handles = @ - 1, !.device = io,
                        !.published = @ \cup ({io} \ {0})]
  IN  /\ registry' = register_device(at_0)
      /\ contexts' = ctxs
      /\ boot' \in load_and_execute_bootloader(b, v, find_file(v, LOADER))

\* try_boot_from_esp_*: the SimpleFileSystem on the disk of the entry's kind
\* at controller 0, the device handle, the loader.
TryBoot(id, at_0, sfs, v) ==
  /\ SfsInit(sfs)
  /\ IF sfs = NoVolume \/ v = NoVolume \/ boot.handles = 0
     THEN boot' = Halted /\ UNCHANGED <<registry, contexts>>
     ELSE \E memory \in BOOLEAN : WithDevice(id, at_0, v, memory)

try_boot_from_esp ==
  /\ boot.phase = "try"
  /\ LET id == boot.entry.disk
         first == boot.entry.part.first
         at_0 == IF id.kind = "usb" THEN global["usb"] ELSE [id EXCEPT !.ctl = 0]
     IN  TryBoot(id, at_0, VolumeOn(at_0, first), VolumeOn(id, first))
  /\ UNCHANGED <<disks, global, block_reply, file_handles, file_reply, view, menu, keys>>

\* The loader returns; the firmware unloads it and stops.
Return ==
  /\ boot.phase = "running"
  /\ boot' = Halted
  /\ UNCHANGED <<blockVars, fileVars, menu, keys>>

BootNext ==
  \/ Discover \/ ShowMenu
  \/ (\E press \in Presses : Type(press)) \/ Arrive
  \/ \E expired \in BOOLEAN : MenuStep(expired)
  \/ boot_selected_entry \/ try_boot_from_esp \/ Return

----------------------------------------------------------------------------
\* The loader of a volume, found by walking its tree.
Loader(v) == IF v = NoVolume THEN NoEntry ELSE Named(v, LOADER)

Bootable(v) == LET Is(e) == e.kind = "file" /\ e.size > 0 IN Is(Loader(v))

Num(d, i) == Cardinality(UsedBefore(d, i)) + 1

\* Everything in the menu can be booted: its partition has the blocks that
\* the table, written in 512-byte blocks, gives it on a disk with blocks of
\* any size, its number is its place among the partitions, and it holds the
\* loader.  With no fault, and room in the menu, nothing is missing: every
\* marked or small partition the scan reaches, and a lone EFI boot image of
\* an AHCI disk (read_partitions, find_efi_boot_image, check_bootloader_exists,
\* discover_*_entries).
MenuIsExact ==
  /\ \A k \in DOMAIN menu.entries :
       LET e == menu.entries[k]
           d == disks[e.disk]
       IN  /\ Bootable(VolumeOn(e.disk, e.part.first))
           /\ IF e.num = 0
              THEN \E x \in EfiImages(d.catalog) : x.rba * ISO_SECTOR = e.part.first * d.bs
              ELSE \E i \in Listed(d) : Num(d, i) = e.num /\ Covers(d, e.part, d.gpt.entries[i])
  /\ (boot.todo = <<>> /\ ~boot.fault /\ Len(menu.entries) < MAX_BOOT_ENTRIES) =>
       \A id \in DOMAIN disks :
         LET d == disks[id]
             Here(num) == \E k \in DOMAIN menu.entries :
                            menu.entries[k].disk = id /\ menu.entries[k].num = num
             images == EfiImages(d.catalog)
         IN  (d.ready /\ d.bad = {}) =>
               /\ read_gpt_header(d) =>
                    \A i \in Listed(d) :
                      LET e == d.gpt.entries[i]
                          size == ((e.last - e.first + 1) * SECTOR) \div 1048576
                          at == e.first * SECTOR
                      IN  ((e.esp \/ (0 < size /\ size < 512 /\ e.first > 0))
                             /\ at % d.bs = 0 /\ Bootable(VolumeOn(id, at \div d.bs)))
                            => Here(Num(d, i))
               /\ (id.kind = "ahci" /\ ~read_gpt_header(d) /\ Cardinality(images) = 1) =>
                    \A x \in images :
                      Bootable(VolumeOn(id, (x.rba * ISO_SECTOR) \div d.bs)) => Here(0)

\* The loader that runs is the whole boot file of the chosen entry's
\* partition, and what it is given of the firmware, the BlockIO of its device
\* handle and its SimpleFileSystem, is that partition of that disk: nothing
\* is left from the disks looked at before it (boot_selected_entry,
\* try_boot_from_esp_*).  Of an SD card this holds on controller 0.
LoaderComesFromItsDevice ==
  LET e == boot.entry
      Whole(v, file) == /\ PiecesAreFile(v, file.first, 0, boot.image.n, boot.image.pieces)
                        /\ boot.image.n = file.size
      From(v) == /\ Whole(v, Loader(v))
                 /\ (e.disk.ctl = 0 \/ e.disk.kind = "usb") => volume = v
      Own(c) == c.of = e.disk /\ c.start = e.part.first /\ c.blocks = size_sectors(e.part)
  IN  boot.phase = "running" =>
        /\ \E k \in DOMAIN menu.entries : menu.entries[k] = e
        /\ From(VolumeOn(e.disk, e.part.first))
        /\ boot.device > 0 => Own(contexts[boot.device])

\* The menu comes to an end once nobody types any more (show_menu).
MenuEnds == (boot.phase = "menu") ~> (boot.phase # "menu")
=============================================================================
