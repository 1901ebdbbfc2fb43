----------------------------- MODULE Partitions ------------------------------
(***************************************************************************)
(* Where the firmware looks for file systems on a disk: the partition      *)
(* table of fs/gpt.rs and the boot catalog of fs/iso9660.rs, as functions  *)
(* of the disk.  A disk has blocks of bs bytes, some of them unreadable    *)
(* (bad).  Its GPT is the byte address of the header (header_at, 0 when    *)
(* there is none), the 512-byte block its entries start at, their size and *)
(* the entries: [used, esp, first, last].  Its boot catalog is where the   *)
(* catalog lies and what is in it; its kind is "none" where the disk is no *)
(* ISO image.                                                              *)
(***************************************************************************)
EXTENDS Integers, Sequences, FiniteSets

CONSTANTS
  MAX_PARTITIONS,   \* 16, the partitions read_partitions has room for
  EMPTY_RUN         \* 8, the empty entries in a row that end the scan

SECTOR == 512         \* MIN_BLOCK_SIZE
ISO_SECTOR == 2048

NoPartition == [used |-> FALSE, esp |-> FALSE, first |-> 0, last |-> 0]

\* read_gpt_header: on a device with large blocks the header is looked for
\* at byte 512, as hybrid images have it, otherwise in block 1.
read_gpt_header(d) ==
  LET block == IF d.bs > SECTOR THEN 0 ELSE 1
      at == IF d.bs > SECTOR THEN SECTOR ELSE d.bs
  IN  block \notin d.bad /\ d.gpt.header_at = at

Partition_rounded_up(d, e) ==
  [e EXCEPT !.first = (e.first * SECTOR + d.bs - 1) \div d.bs,
            !.last = (e.last * SECTOR + d.bs - 1) \div d.bs]

\* A partition as its users see it: in blocks of the device.
Partition(d, e) ==
  [e EXCEPT !.first = IF d.bs > SECTOR THEN (e.first * SECTOR) \div d.bs ELSE e.first,
            !.last = IF d.bs > SECTOR THEN (e.last * SECTOR) \div d.bs ELSE e.last]

\* The entry that starts at a byte of the table; elsewhere a table has zeros,
\* as its entries are longer than what is used of them.
EntryAt(d, bytes) ==
  LET i == bytes \div d.gpt.entry_size + 1
  IN  IF bytes % d.gpt.entry_size = 0 /\ i <= Len(d.gpt.entries)
      THEN d.gpt.entries[i] ELSE NoPartition

\* read_partitions, entry by entry.  An unreadable block ends the scan; so do
\* a full list and a run of empty entries after the first partition.  Where
\* the next entry does not fit into the rest of the block the scan goes on at
\* the next block, in the middle of that entry.
read_partitions(d) ==
  LET from == d.gpt.lba * SECTOR
      size == d.gpt.entry_size
      total == Len(d.gpt.entries) * size
      Step(s) ==
        LET block == (from + s.bytes) \div d.bs
            offset == (from + s.bytes) % d.bs
            e == EntryAt(d, s.bytes)
            next == [s EXCEPT !.bytes = @ + size]
        IN  CASE s.bytes >= total \/ block \in d.bad -> [s EXCEPT !.more = FALSE]
              [] offset + size > d.bs -> [s EXCEPT !.bytes = @ + d.bs - offset]
              [] e.used -> IF Len(s.parts) = MAX_PARTITIONS THEN [s EXCEPT !.more = FALSE]
                           ELSE [next EXCEPT !.empty = 0, !.parts = Append(@, Partition(d, e))]
              [] OTHER -> IF s.empty + 1 >= EMPTY_RUN /\ s.parts # <<>>
                          THEN [s EXCEPT !.more = FALSE]
                          ELSE [next EXCEPT !.empty = @ + 1]
      scan[k \in Nat] ==
        IF k = 0 THEN [bytes |-> 0, empty |-> 0, parts |-> <<>>, more |-> TRUE]
        ELSE LET s == scan[k - 1] IN IF s.more THEN Step(s) ELSE s
  IN  scan[total \div size + total \div d.bs + 2].parts

\* The partitions of a disk; none where the table cannot be read.
PartitionsOf(d) == IF read_gpt_header(d) THEN read_partitions(d) ELSE <<>>

\* 0 for a partition that ends before it starts.
size_sectors(p) == IF p.last >= p.first THEN p.last - p.first + 1 ELSE 0

\* The heuristic for partitions not marked as a boot partition: its size in
\* megabytes, rounded down, is 1 .. 511.
is_potential_esp(p, bs) ==
  LET size_mb == (size_sectors(p) * bs) \div 1048576
  IN  size_mb > 0 /\ size_mb < 512 /\ p.first > 0

----------------------------------------------------------------------------
Blocks(from, n) == from .. from + n - 1

\* find_efi_boot_image has a buffer of one ISO sector: on a disk with larger
\* blocks taking a block's worth of it panics.
IsoPanics(d) == d.bs > ISO_SECTOR

\* find_efi_boot_image: the boot record, the catalog it points to, its
\* default entry, then the entries of its sections.  NoPartition where the
\* search fails; the image is made a partition by its caller.
find_efi_boot_image(d) ==
  LET per == ISO_SECTOR \div d.bs
      cat == d.catalog
      read == Blocks(17 * per, per) \cup Blocks(cat.sector * per, per)
      in_sections ==
        {x \in {<<i, j>> : i \in DOMAIN cat.sections, j \in 1 .. cat.longest} :
           LET s == cat.sections[x[1]]
           IN  x[2] <= Len(s.entries) /\ s.efi /\ s.entries[x[2]].bootable}
      Before(x, y) == x[1] < y[1] \/ (x[1] = y[1] /\ x[2] <= y[2])
      Image(e) == [used |-> TRUE, esp |-> TRUE, first |-> e.rba * per,
                   last |-> e.rba * per + e.count * per - 1]
  IN  CASE cat.kind # "el torito" \/ read \cap d.bad # {} -> NoPartition
        [] cat.efi /\ cat.default.bootable -> Image(cat.default)
        [] in_sections # {} ->
             LET x == CHOOSE x \in in_sections : \A y \in in_sections : Before(x, y)
             IN  Image(cat.sections[x[1]].entries[x[2]])
        [] OTHER -> NoPartition

----------------------------------------------------------------------------
(***************************************************************************)
(* What a table says, without blocks and scans.                            *)
(***************************************************************************)
\* An entry lies across two blocks of the disk.
Straddles(d, i) ==
  LET at == d.gpt.lba * SECTOR + (i - 1) * d.gpt.entry_size
  IN  at \div d.bs # (at + d.gpt.entry_size - 1) \div d.bs

UsedBefore(d, i) == {j \in 1 .. i - 1 : d.gpt.entries[j].used}

\* The entries the scan is meant to reach: up to MAX_PARTITIONS of them, and
\* none that follows a run of EMPTY_RUN empty ones or an entry across blocks.
Listed(d) ==
  LET Gap(j, i) == \A k \in j .. j + EMPTY_RUN - 1 : k < i /\ ~d.gpt.entries[k].used
  IN  {i \in DOMAIN d.gpt.entries :
         /\ d.gpt.entries[i].used /\ Cardinality(UsedBefore(d, i)) < MAX_PARTITIONS
         /\ \A h \in UsedBefore(d, i) : \A j \in h + 1 .. i - 1 : ~Gap(j, i)
         /\ \A j \in 1 .. i : ~Straddles(d, j)}

\* The blocks of the partition are those that hold the bytes its entry names.
Covers(d, p, e) ==
  LET first == e.first * SECTOR
      last == e.last * SECTOR + SECTOR - 1
  IN  /\ p.first * d.bs <= first /\ first < (p.first + 1) * d.bs
      /\ p.last * d.bs <= last /\ last < (p.last + 1) * d.bs

\* The boot images for EFI machines that a catalog offers.
EfiImages(cat) ==
  (IF cat.efi /\ cat.default.bootable THEN {cat.default} ELSE {}) \cup
  UNION {{e \in {cat.sections[i].entries[j] : j \in DOMAIN cat.sections[i].entries} :
            cat.sections[i].efi /\ e.bootable} : i \in DOMAIN cat.sections}
=============================================================================
