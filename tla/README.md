# A TLA+ verification of CrabEFI

CrabEFI is a UEFI implementation that runs as a coreboot payload: it takes the
memory map and the ACPI tables from coreboot, drives disks and keyboards itself,
builds the UEFI system table, loads a boot loader and answers its service calls
until `ExitBootServices`. This directory holds TLA+ models of its state machines,
TLC configurations that check them on small instances, and TLAPS proofs of what
matters most about memory and about UEFI variables. Paths below are relative to the crate's `src/`.

The firmware has one thread and takes no device interrupts. What makes it hard
is not parallel code but *sequences*: a boot loader may make any service call at
any time and in any order, devices and users put bytes into queues between two
polls, and every table is an array of fixed size that may be full at the wrong
moment. The models are therefore machines whose actions are the service calls,
each one atomic, interleaved with the loader, the devices and the user. Drivers
poll: there a call is several steps, from one wait to the next, and the device
moves in between, late, twice or not at all.

## 1. Inventory

The state lives in `state.rs` (one global `FirmwareState`) and in a few statics.

| Part | State | Operations | What is hard |
|---|---|---|---|
| memory allocator, `efi/allocator.rs` | vector of descriptors, map key | import, reserve, mark ACPI, allocate, free, exit | splits and merges in a bounded vector; key against changes |
| pool and memory services | pool headers in allocated pages | AllocatePool, FreePool, GetMemoryMap, ExitBootServices | rounding and wrap-around of sizes; stale snapshots |
| handle database, `efi/boot_services.rs` | handles with protocol lists | install, uninstall, open, locate, batches | batches that fail half way; handles held by callers |
| image services, `pe/mod.rs` | table of loaded images | LoadImage, StartImage, UnloadImage, the first load in `lib.rs` | errors after part of the work; images that unload each other |
| variable services, `efi/runtime_services.rs` | slot array | Set, Get, GetNextName, QueryInfo | reused slots; listing while variables change |
| system table, `efi/system_table.rs` | configuration table array, ACPI regions | InstallConfigurationTable, start-up | tables sharing pages; arrays that are full |
| PS/2 keyboard, `drivers/keyboard.rs` | decoder flags, controller | init, read, cleanup | bytes of the keyboard among answers to commands |
| USB keyboard, `drivers/usb/hid_keyboard.rs` | last report, ring, repeat timers | poll, report, get key | keys worked between polls; expiring timeouts |
| console input, `efi/protocols/console.rs` | escape buffer, queued key | ReadKeyStroke | sequences cut by the time of polling |
| events, `efi/boot_services.rs` | event array | Create, Signal, Close, Check, Wait | calls on closed events; a wait that must end |
| NVMe, AHCI, SDHCI, `drivers/` | command queues, DMA buffers, the card | init, read, security commands, timeout | late completions, phase bits, shared buffers, lost responses |
| USB mass storage, `drivers/usb/mass_storage.rs` | tag | init, read, security commands | left-over answers in the pipe |
| USB host controllers, `drivers/usb/` | rings, lists, toggles, slots | control and bulk transfers, enumeration | lost handshakes, cycle bits at a wrap, late events, hubs |
| block devices, `drivers/storage.rs`, `efi/protocols/block_io.rs` | device registry, contexts | register, store, ReadBlocks | one global disk per kind behind several instances |
| FAT, GPT, ISO 9660, `fs/` | layout of a mounted volume | find, list, read | entries across blocks, blocks of different sizes |
| file protocol, `efi/protocols/simple_file_system.rs` | open files | open, read, seek, info, close | handles and positions, short buffers |
| boot flow and menu, `lib.rs`, `menu.rs` | boot entries, countdown | discovery, selection, boot | a count-down against keys; loaders from the wrong disk |

`PROJECT.json` lists all 33 parts with their status, and the hazards with the
lines where they bite.

## 2. Modules

**Memory.** `MemoryAllocator` models the whole of `efi/allocator.rs` that changes
state. Addresses are counted in pages; a descriptor is a record `start`,
`pages`, `type`, `attribute`, and since no two descriptors may start at the same
page the vector is a set. Start-up goes through the phases cold, imported,
reserved and boot in the order `efi/mod.rs` calls them. A call models the whole
handler, the trailing sort and merge included; a refused split leaves what the
code leaves. `PageMap` is the promise, page by page: allocation turns free pages
of the request into pages of its type and changes no other, and so on.
`MemoryAllocatorRefinement` maps the descriptors to pages. `MemoryClient` is a
boot loader on top: it holds blocks, pool blocks and a snapshot of the map.

**Handles.** `HandleDatabase` has the handle array with its protocol lists, the
install and uninstall services, single and in batches, and the lookups.
`ProtocolMap` is the promise: a partial map from handle and protocol to
interface.

**Images.** `ImageServices` composes `MemoryAllocator` and `HandleDatabase` with the
table of loaded images: `load_and_execute_bootloader`, LoadImage, StartImage and
UnloadImage. A PE file is its number of pages and the loader's verdict (fine,
refused before memory is taken, broken after).

**Variables.** `VariableStore` is the slot array with the four services and a
caller that lists variables step by step. Names are sequences, because the code
compares lengths and cuts at terminators. `VariableMap` is the promise, a
bounded map.

**System table.** `SystemTable` composes `MemoryAllocator` with the configuration
table array, the pointer and count the system table shows, the walk over RSDP,
XSDT or RSDT and their entries at start-up, the SMBIOS entry point, and
`ExitBootServices`. Tables are byte ranges, since the code's work is rounding them
to pages and marking them.

**Keyboards and console.** `Ps2Keyboard` has the driver, the i8042 controller's
output queue (external, from how the driver uses it) and a user. `UsbKeyboard` has
report comparison, repeat and the ring; `KeyQueue` is the bounded queue that the
ring promises to be. `ConsoleInput` is ReadKeyStroke with the parser of escape
sequences, fed by a serial line whose bytes come together or trickle in, and by
the keyboards. `EventServices` has the event array, the calls, and `WaitForEvent` one
turn of its loop at a time, over the same input; SetTimer is absent: it changes no
state.

**Storage drivers.** `BlockClient` is the caller of a driver and the buffer it
lends; `BlockStore` is the promise: a call is refused, ends in an error, or delivers
the blocks asked for. `NvmeController` has the two queue pairs with their phase
bits, `AhciController` the command slots of each port, `SdhciController` the command
and data lines and the steps of `init_card`, `UsbMassStorage` the three transfers of
a SCSI command. In each a driver's call is cut at its waits, and the device
(external, by its specification as the driver relies on it) takes commands,
fails them, answers late or loses an answer. The flag `mixed` marks the states in
which the device has run a younger command before an abandoned one, or a driver
was set up anew over left-over answers; there the drivers promise nothing.

**USB host controllers.** `UsbPipe` is the device's end of a transfer: packets with
data toggles and handshakes that may be lost. `UhciController`, `OhciController` and
`EhciController` are the drivers' bulk and control transfers over it; the EHCI module
keeps the circular list of queue heads that the controller walks. `XhciController`
has the TRB rings with cycle and link bits, the event ring, the waits that take the
first event of their kind, and `enumerate_ports` with its slots. `UsbEnumeration` is
the tree of hubs and devices that the other three enumerate, with addresses and
the device tables; their three copies of that code are one definition each.

**Files.** `FatFilesystem` translates `fs/fat.rs` as functions on a volume: layout,
table entries of 12, 16 and 28 bits wherever they lie in device blocks, cluster
chains, directories, reads. A byte of a file is its place on the device, so that
reading the wrong place shows. `SimpleFileSystem` has the pool of file handles over
it, and remembers for each handle what the loader asked for. `Partitions` has the
GPT and the El Torito catalog.

**Boot.** `BlockIo` is the registry of disks and the BlockIO instances. `BootFlow`
composes all of these: discovery of the entries of every disk, the menu with its
countdown and its reader of keys, and the way from the chosen entry through
registration, BlockIO instances, mounting and loading to a running loader, with
each early return.

Modules named `MC...` give constants their values and put components side by side:
the variable `machine` of `MCInput`, `MCStorageDrivers`, `MCUsbControllers` and
`MCHandleDatabase` says which of them a behaviour is about.

## 3. Runs

Each run asks one question; `tlc -config <cfg> <module>` repeats it.

| Run | Module, config | What it shows | States |
|---|---|---|---|
| `allocator` | MCMemoryAllocator | the map stays disjoint and within capacity, the positions its splits rely on stay valid, its searches are exact | 20,863 |
| `memory_client` | MCMemoryClient | a loader's blocks stay its own, pool blocks are large enough, exit needs the current map, and the allocator implements `PageMap` | 8,483 |
| `client_free` | MCMemoryClient, MCMemoryClientFree.cfg | *violation*: a block may become impossible to free | |
| `handles` | MCHandleDatabase | lookups are unambiguous and agree, the database implements `ProtocolMap`; loaded images keep their memory, description and device | 21,190 |
| `variables` | MCVariableStore | the slots implement `VariableMap`; listing sees every lasting variable once, and ends | 28,461 |
| `system_table` | MCSystemTable | installs change exactly the table they name; ACPI tables are marked exactly and stay | 450,835 |
| `input` | MCInput | strokes and sequences are decoded in order and no byte counts twice; the ring implements `KeyQueue`; the repeat's timeouts are consistent; a loader that waits for the keyboard event gets every key, and a wait returns | 686,557 |
| `ps2_handover` | MCInput, MCHandover.cfg | *violation*: translation may be lost at hand-over | |
| `storage_drivers` | MCStorageDrivers | each driver implements `BlockStore`, its calls return, and what it registered is there | 1,080,587 |
| `usb_controllers` | MCUsbControllers | transfers move their data once, xHCI requests and EHCI queue heads stay where the controller looks, tables name real devices, transfers and enumeration end | 396,335 |
| `boot` | MCBoot | menu entries, loaders, BlockIO reads and file reads come from the disk and place they are meant to; the menu ends | 86,908 |
| `fat_offset` | MCBoot, MCFatOffset.cfg | *violation*: a cluster that starts inside a device block is read from the block's start | |

### Bounds, and why they are enough

- **allocator.** Three platforms. The first has a reserved hole and a table area
  that reservation and marking split; the second has RAM that does not hold the
  firmware, so reservation adds descriptors; on the third a few allocations fill
  the vector of 11 descriptors, so splits are refused and the merge before a
  split is reached, and two ACPI descriptors stand side by side. Sizes include
  zero and one larger than the address space; an unaligned address is always
  among the inputs. `MaxKey = 7` bounds the number of changes.
- **memory_client.** Pages of 4 bytes and a `usize` of 32 values, so that pool
  sizes at a page border and at the wrap-around of the addition are all tried;
  buffers for the map that are too small and large enough.
- **handles.** Two handles with room for two of three protocols: batches fail
  on their first, second and third pair, and both arrays fill up. Beside them,
  room for the boot loader and two images: chains of three, failures for lack of
  pages, of handles, of image slots and by the PE loader's verdict before and
  after memory is taken.
- **variables.** Two slots and four names, so that slots are reused by longer
  and shorter names; a value and a name too large; a buffer too small.
- **system_table.** Pages of four bytes. Tables share pages, nest, touch, cross
  descriptors, are empty, and lie outside the map; the configuration array has
  four places and fills up. The region array holds eight regions, more than the
  enumerated tables need, because `TablesAreMarked` is about tables that fit.
- **input.** PS/2: three strokes and two bytes in the controller's queue; the keys
  include pairs that only the prefix tells apart, and one shift key, since the
  driver keeps a single flag for both (section 6). USB: a ring of three places
  wraps quickly, and one report adds up to two keys at once. Console: known
  sequences of all lengths, sharing prefixes, and fragments that are broken off,
  unknown or doubled and trickle in byte by byte. Events: two beside the
  keyboard's, and lists that name events never created.
- **storage_drivers.** Two calls after start-up, on devices of three blocks: the
  second call meets whatever the first left behind. Queues of three entries wrap
  within start-up; one sector per page makes a read of two blocks two commands;
  `LBA32 = 2` puts the switch to the 16-byte commands inside the device; the disks
  are two namespaces, and one whose size needs both dwords, the high one naming
  the same namespace or another; SATA and packet drives and a device of another
  kind; the three generations of SD cards with the bits of their CSD registers; and
  a USB disk with two driver instances.
- **usb_controllers.** Two transfers of up to two packets with every pattern of
  lost handshakes and stalls. xHCI rings of four entries and a link wrap in the
  second request, the event ring of three within one port; one wait may end before
  its answer and one request fail (`MaxLate`, `MaxErrors`); one machine has as many
  devices as `MAX_SLOTS`. Enumeration: a hub with gaps and a composite device
  behind it, a disk behind two hubs, a configuration of value 0, two disks in one
  device, a root hub with more devices than the table holds, and two controllers;
  two transfers fail.
- **boot.** Eight machines: disks with 512-byte, 2 KB and 4 KB blocks, several
  kinds at once, two SD controllers, an ISO image, worn blocks in the partition
  table and under a loader, gaps in the table, table entries of 256 bytes and of
  2 KB that lie across blocks, and one machine whose disks stop the firmware; four
  places for BlockIO instances and handles for only some of them; four boot
  entries, which one machine fills. `U64 = 65536` stands for the width of block
  addresses, with requests at its end. Eight volumes: all three FAT types, sectors
  smaller, equal to and larger than device blocks, table entries across two
  blocks, directories of two clusters, unreadable blocks, clusters of 128 KB. Two
  file handles.
  `fat_offset` has its own volume, the one layout for which `ReadsAreExact` fails.

No configuration uses symmetry: the runs are small without it. Deadlock is
checked in `allocator`, `memory_client` and `variables`. Elsewhere the system really
may stop: boot services have ended, the user presses no more keys, the caller
makes no more calls, or no entry can be booted and the firmware halts.

### Fairness

- `ListingEnds`: a caller that lists variables goes on, with a buffer large
  enough for any name. Nothing is assumed of those who change variables: the
  property says that the list ends or that they change variables for ever.
- `KeysComeOut`: bytes on their way arrive (`WF` of `Arrives`), and the loader keeps
  polling (`WF` of `Reads`) and reads until there is no key before it waits. A loader that
  reads one key for each event is not covered (hazard at `efi/boot_services.rs:451`).
- `WaitReturns`: `WaitForEvent` is a loop of the only thread, so it takes its next
  turn (`WF` of `Waits`). Nothing is assumed about signals or keys.
- `CallsReturn`, `TransfersReturn`: the driver's own steps go on (`WF` of `Progress`),
  among them the end of a polling loop by its timeout. Nothing is assumed of a
  storage device. Of the xHCI controller it is assumed that it answers in the end,
  but only because the number of waits that time out early is bounded.
- `MenuEnds`: the loop of the menu goes round and its seconds pass
  (`WF` of `MenuStep(TRUE)`). Nothing is assumed of the user.

## 4. Proofs

`MemoryMapLemmas` has the facts about sets of descriptors: merging, splitting,
carving out, counting. `MemoryAllocatorProofs` proves, for every coreboot map,
capacity, address space and request:

- `TypeCorrect`: `TypeOK`; the vector never overflows, so the pushes whose result
  the code ignores never lose a descriptor;
- `MapIsDisjoint` (`NoOverlap`), `PositionsStayValid` (`FullMapIsMerged`),
  `FreeCheckIsExact` (`FreeCheckExact`);
- `KeyIsCurrent`, `RuntimeStays`, `CoverageIsConstant`: the three action properties.

`MemoryAllocatorRefinementProofs` proves `Refinement`: the allocator implements
`PageMap`, each step being a step or a stutter of it.

`MemoryClientProofs` proves, for a boot loader with any number of blocks,
`BlocksStaySafe` (`HeldBlocksAreSafe`), `ExitKeyIsCurrent` (`ExitWithCurrentMap`) and
`ClientRefinement` (`ImplementsPageMap`, with the pool's own page counts).

`VariableStoreProofs` proves, for every number and size of slots and all names,
vendors, values and buffers, `ListingIsExact` (`ListsEachOnce`) and
`VariablesAreAMap`: the slot array implements `VariableMap`.

**Assumptions.** `CapacityAssumption`, `MAX_MEMORY_REGIONS + 2 * MAX_ACPI_REGIONS +
6 <= MAX_MEMORY_ENTRIES`, with which start-up cannot fill the vector (the code's
constants satisfy it); `AddressAssumption`, `InputAssumption` and
`PlatformAssumption`, which say that inputs are of their types and coreboot's
regions are disjoint; all are evaluated by TLC on the memory runs. Each theorem
about the allocator's behaviours also assumes `PayloadFits`: the firmware's own
code and data are disjoint, and each lies in RAM or outside coreboot's map.
The platforms of the runs satisfy it too. It is not idle: without it a forced
descriptor may overlap another (section 6, the fallback map).
The theorems about a loader also assume that it asks for no memory of type
`ConventionalMemory`: `allocate_pages` does not refuse that type, and hands out
pages that stay free. The theorems about variables rest on `VariableAssumption`
alone: the sizes are natural numbers and names are sequences of non-zero characters.

**The argument.** `NoOverlap` is not inductive: `carve_out` and
`try_reallocate_loader_region` take a position, then perhaps merge, then remove at
that position, so disjointness rests on merges that change nothing.
`IInv` strengthens it: the map is well formed, boot services and conventional
memory have plain attributes, conventional memory is coalesced, the vector is
within capacity, and, by phase: before import it is empty; after import it is
what the import computes; after reservation it has at most `EarlyBound(marked)`
descriptors, two more for each ACPI region; and once services run it is merged *or*
still that small. The last disjunct is needed because marking ACPI regions and
force-adding leave neighbours that a merge would join; but then there is room to
spare, so no split merges. `Invariance` shows `Spec => []IInv`, with one step per
action.

For the loader, `CInv` adds to `IInv` that blocks are as they were handed out,
that those of no loader type keep the type of their pages and lie apart from all
others, and that a snapshot with the current key *is* the current map. An
allocation takes its pages from one descriptor that is free or of a loader type
(`Given`), and no page is in two descriptors, so no such block can lie there; a
free changes only pages of the freed block.

For variables, `StoreInv` says that no variable is in two slots and that each used
slot holds a name and a value somebody stored, padded with zeros, whatever the
slot held before; with it `name_eq` is equality of names and the search by name
finds one slot. `ListInv` gives a lister a place in the array: the slots up to
it are what it has seen of the lasting variables, the slots after it are what is
to come. A set never moves a variable to another slot and a deletion empties
only its own, so the place stays true until the variable it stands on is deleted.

**Only model-checked.** Liveness (fairness and ENABLED are beyond the prover);
`FindFreeExact`, whose statement is about a maximum over all addresses; and all
properties of the modules other than `MemoryAllocator`, `MemoryClient` and
`VariableStore`.

## 5. Not modelled

`PROJECT.json` gives the reason for each part that is left out:

- *output and byte layouts*: console output and graphics, logging, device paths,
  the packets of the pass-through protocols, collation. Nothing in the firmware
  reads back what they produce, or one request becomes one call of a driver,
  which is modelled.
- *register access and processor start-up*: PCI, paging, interrupt tables, cache.
  They have no state machine of their own.
- *parsing of firmware tables*: coreboot's tables and the arithmetic of PE sections
  and relocations. Their results are inputs here, as arbitrary as the code
  allows. What they do to memory is modelled in `ImageServices`.
- *time*: `time.rs` calibrates a counter. Timeouts are choices of the models: a
  polling loop may end at any turn, or as the code's bound on turns has it.

Inside the modelled parts, what is left out is said in the notes of
`PROJECT.json`. The larger ones: the interrupt queues of the USB controllers, of which
`UsbKeyboard` only sees the reports, and the register sequences that reset a
controller. Inputs outside what is modelled: AHCI reads of no sectors, which no
caller makes and which a disk takes for 65536 sectors; AHCI trusted commands with
a buffer larger than the driver's page and up to 64 KB (`drivers/ahci/mod.rs:1092`,
1198), which run over its end; descriptors of a USB configuration beyond the 256
bytes the driver asks for. The firmware writes to no disk, so there are no writing paths.

## 6. Where code and comments disagree

Three disagreements are runs whose counterexample TLC finds:

- `client_free`: freeing wants a descriptor that is exactly the block, but two
  adjacent blocks of one type merge, after which neither can be freed.
- `ps2_handover`: `cleanup` reads the configuration byte from the data port, where a
  scancode may be waiting in front of it, and writes that back with translation
  in the state the scancode's bits give.
- `fat_offset`: `read_cluster` computes the offset of a cluster inside a device block
  and then ignores it where the cluster is larger than a block (`fs/fat.rs:606`).
  In the trace clusters of 4096 bytes lie on blocks of 2048 and the first starts
  inside a block: a file is read from the start of that block.

The order assumed in the second, an answer behind bytes already waiting, is the
controller's (external); `HandoverIsExact` shows that nothing else goes wrong.

Others were met while modelling and have no run of their own:

- a runtime allocation made inside loader memory lacks the RUNTIME attribute
  (`efi/allocator.rs:821`, against the comment at 595);
- the fallback memory map starts RAM at 2 MiB, where the firmware itself is linked
  (`coreboot/tables.rs:298`, comment at 295);
- LocateHandleBuffer answers OUT_OF_RESOURCES when nothing matches, where the code
  has NOT_FOUND in mind (`efi/boot_services.rs:1312`, 1292);
- a failing InstallMultipleProtocolInterfaces keeps the protocols it installed
  (`efi/boot_services.rs:1455`, comment at 1453);
- UnloadImage ignores a failing free (`efi/boot_services.rs:1058`), and the LoadedImage
  protocol outlives its image (1068);
- ACPI regions beyond the array are dropped silently (`efi/system_table.rs:356`);
- both shift keys of the PS/2 keyboard share one flag (`drivers/keyboard.rs:516`, 185);
- the USB repeat goes on while another key is held, and lock keys never toggle
  (`drivers/usb/hid_keyboard.rs:239`, 215);
- the "time-out" of an escape sequence is the first poll that finds no byte, so a
  slow line breaks sequences; a lone ESC is not returned until another byte comes;
  and of an unknown sequence only ESC and one more byte are kept
  (`efi/protocols/console.rs:341`, 343, 526);
- WaitForEvent may give the index of an event that is not ready, and a wait on a
  timer alone never returns (`efi/boot_services.rs:391`, 359).

In the drivers and on the way to a loader:

- the NVMe driver walks the list of namespaces in the very page into which it has
  each of them identified (`drivers/nvme/mod.rs:784`), so after the first entry it
  reads that namespace's data as identifiers (against "Identify namespaces", 764);
- the high dword of a namespace's size is the first thing it meets there: with
  2^32 blocks and more a namespace of that number is identified, and registered
  with no blocks where there is none;
- `parse_csd` takes the fields of a version 1 CSD at their places in the CSD
  (`drivers/sdhci/mod.rs:735`), while the host's registers leave out its lowest eight
  bits, so the size of a standard capacity card is wrong; `DriversKnowTheirDevices` asks for that of version 2;
- reads of a USB disk cast the block count to 16 bits
  (`drivers/usb/mass_storage.rs:403`), so a call for 65536 blocks would ask for none;
- the xHCI driver's table of slots is one shorter than the slot numbers it enables,
  and the device with the last number stops the firmware (`drivers/usb/xhci.rs:835`,
  against the comment at 492): the exception in `TransfersReturn`;
- its waits take any event of their kind (692, 732), a stalled endpoint is never
  reset, and a slot stays enabled when its device cannot be addressed;
- in the bulk transfer after a stall the EHCI driver links the bulk queue head to
  itself (`drivers/usb/ehci.rs:1430`, against 1493): the control transfers that
  follow are no longer on the list. `RequestsArrive` says that nothing else takes a
  queue head off the list, and what the list is then;
- a device that answers with an empty packet at once gets the OHCI driver to return
  the whole buffer (`drivers/usb/ohci.rs:936`), and an empty packet does not flip the
  toggle that the EHCI driver keeps; `TransfersAreExact` leaves both out;
- a device given up after SET_ADDRESS keeps its address, which the next one gets
  too (`drivers/usb/controller.rs:1140`);
- hub enumeration ends at the first port whose reset is refused
  (`drivers/usb/ehci.rs:909`), and a table that is full drops devices silently;
- ".", ".." and longer paths: the comments of `simple_file_system.rs` (760, 764) have
  them normalised, the code passes them on, and cuts a path at its buffer's end;
- a FAT chain that closes on itself is followed for ever (`fs/fat.rs:756`), a path of
  more than 16 components stops the firmware (636), and a read that ends with its
  cluster still looks up the next one and may fail over it (792, 848, 862);
- a cluster of more than 64 KB is cut from a buffer of 64 KB, and a block of more than
  2 KB from one of 2 KB in the search for an ISO image: both stop the firmware
  (`fs/fat.rs:756`, `fs/iso9660.rs:124`);
- the scan of the partition table goes on at the next block where an entry does not
  fit into the rest of one, so that entry and those after it are lost (`fs/gpt.rs:331`);
- partition numbers are positions in the list of used entries (`fs/gpt.rs`), so they
  differ from the table's own where the table has gaps;
- `find_free_pages` and ReadBlocks add without a check for overflow
  (`efi/allocator.rs:661`, `efi/protocols/block_io.rs:181`, 203): the first may return an
  address that is not free, which `carve_out` refuses; the second serves a request
  whose end wraps around with blocks before the partition;
- BlockIO instances are made "for ALL partitions" (`lib.rs`), but there are 16
  (`efi/protocols/block_io.rs:93`), and the rest are dropped silently;
- of USB, AHCI and SD disks only the one stored last is ever read
  (`drivers/storage.rs:119`); booting one disk at a time keeps this harmless, which
  is `BlockReadsAreOwn`. The loader of a second SD controller's card is looked for
  through the first (`lib.rs:1958`);
- the first second of the menu's count-down passes at once, and an escape sequence
  that comes in pieces is lost (`menu.rs`).
