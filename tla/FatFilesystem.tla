---------------------------- MODULE FatFilesystem ----------------------------
(***************************************************************************)
(* The read-only FAT file system of fs/fat.rs, as functions of a volume.   *)
(* Sizes and addresses are the real ones, in bytes from the start of the   *)
(* partition.  A volume is what the disk holds: the boot sector's numbers  *)
(* (bps, spc, reserved, nfats, rootents, spf, total, root_cluster), the    *)
(* table as a map from clusters to entries (free where undefined), the     *)
(* fixed root directory, the directory entries of each cluster, the blocks *)
(* that cannot be read (bad), the block size of the device (dbs) and, once *)
(* mounted, the layout (fs).  What a read delivers is not bytes but where  *)
(* they come from.                                                         *)
(***************************************************************************)
EXTENDS Integers, Sequences, FiniteSets

MAX_PARTS == 16    \* path components find_file has room for
NONE == -1         \* no next cluster
BUFFER == 65536    \* the bytes directories and parts of clusters are read into

CeilDiv(a, b) == (a + b - 1) \div b

\* The layout new derives from the boot sector, in sectors.
RootDirSectors(v) == CeilDiv(v.rootents * 32, v.bps)
RootDirStart(v) == v.reserved + v.nfats * v.spf
DataStart(v) == RootDirStart(v) + RootDirSectors(v)

FatType(clusters) == CASE clusters < 4085 -> 12
                       [] clusters \in 4085 .. 65524 -> 16
                       [] OTHER -> 32

\* What the file system keeps of it; root is the cluster find_file starts
\* from, 0 for the fixed root directory of FAT12 and FAT16.
Layout(v, type, clusters) ==
  [type |-> type, clusters |-> clusters, data |-> DataStart(v), cluster_size |-> v.spc * v.bps,
   root |-> IF type = 32 THEN v.root_cluster ELSE 0, width |-> IF type = 32 THEN 4 ELSE 2]

Clusters(v) == (v.total - DataStart(v)) \div v.spc

\* new: the boot sector is read and checked.
Mounts(v) ==
  /\ 0 \notin v.bad
  /\ v.bps \in {512, 1024, 2048, 4096}
  /\ v.spc \in {1, 2, 4, 8, 16, 32, 64, 128}
  /\ v.nfats \in {1, 2}
  /\ v.reserved > 0

FatNew(v) == [v EXCEPT !.fs = Layout(v, FatType(Clusters(v)), Clusters(v))]

----------------------------------------------------------------------------
(***************************************************************************)
(* The device: which byte of the partition is at an offset of a block, and *)
(* the bytes of the table, packed as the FAT type packs them.              *)
(***************************************************************************)
TableEntry(v, c) == IF c \in DOMAIN v.fat THEN v.fat[c] ELSE 0

\* The three bytes that hold two entries of 12 bits.
Byte12(i, even, odd) == CASE i = 0 -> even % 256
                          [] i = 1 -> even \div 256 + 16 * (odd % 16)
                          [] OTHER -> odd \div 16

TableByte(v, i) ==
  IF v.fs.type = 12
  THEN Byte12(i % 3, TableEntry(v, 2 * (i \div 3)), TableEntry(v, 2 * (i \div 3) + 1))
  ELSE (TableEntry(v, i \div v.fs.width) \div 256 ^ (i % v.fs.width)) % 256

DeviceByte(v, block, offset) == TableByte(v, block * v.dbs + offset - v.reserved * v.bps)

\* Where the data of a cluster starts on the volume.
ClusterAddress(v, c) == (v.fs.data + (c - 2) * v.spc) * v.bps

\* The directory entries found in a cluster read from an address.
EntriesAt(v, at) ==
  LET here == {c \in DOMAIN v.dirs : ClusterAddress(v, c) = at}
  IN  IF here = {} THEN <<>> ELSE v.dirs[CHOOSE c \in here : TRUE]

----------------------------------------------------------------------------
fat_sector_to_device_block(v, sector) ==
  [block |-> (sector * v.bps) \div v.dbs, offset |-> (sector * v.bps) % v.dbs]

cluster_to_device_block(v, c) == fat_sector_to_device_block(v, v.fs.data + (c - 2) * v.spc)

ValidCluster(v, c) == c >= 2 /\ c - 2 < v.fs.clusters

FatByte_one_block(v, block, offset) ==
  IF offset < v.dbs THEN DeviceByte(v, block, offset) ELSE 0

\* A byte of a table entry that may lie across two blocks.
FatByte(v, block, offset) ==
  DeviceByte(v, IF offset < v.dbs THEN block ELSE block + 1, offset % v.dbs)

\* Where the table entry of a cluster lies.
EntryPlace(v, c) ==
  LET at == v.reserved * v.bps + (IF v.fs.type = 12 THEN (c * 3) \div 2 ELSE c * v.fs.width)
  IN  [block |-> at \div v.dbs, offset |-> at % v.dbs]

\* A table entry is 12, 16 or 28 bits wide.
EntryValue(v, c, word, high) ==
  CASE v.fs.type = 12 -> IF c % 2 = 1 THEN word \div 16 ELSE word % 4096
    [] v.fs.type = 16 -> word
    [] OTHER -> word + 65536 * (high % 4096)

\* The last eight values end a chain; the eight before them are reserved or
\* mark a bad cluster.
NextOf(v, val) ==
  LET top == CASE v.fs.type = 12 -> 4096 [] v.fs.type = 16 -> 65536 [] OTHER -> 268435456
  IN  CASE val >= top - 8 -> [st |-> "ok", next |-> NONE]
        [] val \in top - 16 .. top - 9 -> [st |-> "err", next |-> NONE]
        [] OTHER -> [st |-> "ok", next |-> val]

NextAt(v, c, place) ==
  LET Word(i) == FatByte(v, place.block, place.offset + i)
                 + 256 * FatByte(v, place.block, place.offset + i + 1)
      spans == place.offset + v.fs.width > v.dbs
  IN  IF c < 2 \/ place.block \in v.bad \/ (spans /\ place.block + 1 \in v.bad)
      THEN [st |-> "err", next |-> NONE]
      ELSE NextOf(v, EntryValue(v, c, Word(0), Word(2)))

next_cluster(v, c) == NextAt(v, c, EntryPlace(v, c))

\* A cluster no larger than a block is taken from its offset in the block; a
\* larger one is read from the start of its first block, whatever the offset.
ReadFrom(v, c, block, offset) ==
  IF \/ ~ValidCluster(v, c)
     \/ (block .. block + CeilDiv(offset + v.fs.cluster_size, v.dbs) - 1) \cap v.bad # {}
  THEN [st |-> "err", at |-> 0]
  ELSE [st |-> "ok", at |-> block * v.dbs + offset]

read_cluster(v, c) ==
  LET start == cluster_to_device_block(v, c)
  IN  ReadFrom(v, c, start.block, IF v.fs.cluster_size <= v.dbs THEN start.offset ELSE 0)

----------------------------------------------------------------------------
(***************************************************************************)
(* Directories.  Their scans give the entries met, in order, and how the   *)
(* scan ended: at the end mark or the end of the chain ("end"), with an    *)
(* error, with a panic, or never, on a chain that comes back to itself     *)
(* ("more").                                                               *)
(***************************************************************************)
Visible(slots) == SelectSeq(slots, LAMBDA e : e.kind \in {"file", "dir"})

\* The fixed root directory of FAT12 and FAT16, block after block.
RootSlots(v) ==
  LET capacity == (RootDirSectors(v) * v.bps) \div 32
      BlockOf(i) == (RootDirStart(v) * v.bps + 32 * (i - 1)) \div v.dbs
      unread == {i \in 1 .. capacity : BlockOf(i) \in v.bad}
      met == {i \in DOMAIN v.root : \A j \in unread : i < j}
  IN  [slots |-> SubSeq(v.root, 1, Cardinality(met)),
       st |-> IF \E j \in unread : j <= Len(v.root) + 1 THEN "err" ELSE "end"]

\* A directory in a chain of clusters; a cluster whose entries leave room
\* has an end mark after them.
ScanCluster(v, w, r, here, n) ==
  CASE r.st = "err" -> [w EXCEPT !.st = "err"]
    [] Len(here) < v.fs.cluster_size \div 32 -> [w EXCEPT !.slots = @ \o here, !.st = "end"]
    [] n.st = "err" -> [w EXCEPT !.slots = @ \o here, !.st = "err"]
    [] OTHER -> [slots |-> w.slots \o here, at |-> n.next,
                 st |-> IF n.next = NONE THEN "end" ELSE "more"]

Oversized(v) == v.fs.cluster_size > BUFFER

\* new accepts clusters larger than the buffer; taking a slice of the buffer
\* for one of them panics.
ChainSlots(v, cluster) ==
  LET limit == Cardinality(DOMAIN v.fat) + 1
      Read(w, r) == ScanCluster(v, w, r, EntriesAt(v, r.at), next_cluster(v, w.at))
      Step(w) == IF w.st = "more" THEN Read(w, read_cluster(v, w.at)) ELSE w
      walk[k \in 0 .. limit] ==
        IF k # 0 THEN Step(walk[k - 1])
        ELSE [slots |-> <<>>, at |-> cluster, st |-> IF Oversized(v) THEN "panic" ELSE "more"]
  IN  walk[limit]

Scan(v, cluster) ==
  IF cluster = 0 /\ v.fs.type # 32 THEN RootSlots(v) ELSE ChainSlots(v, cluster)

\* Results of lookups: status, and the entry where there is one.
NoEntry == [name |-> "", kind |-> "none", first |-> 0, size |-> 0]

Found(e) == [st |-> "ok", entry |-> e]

NotFound(st) == [st |-> st, entry |-> NoEntry]

\* Only short names are compared; long name entries are passed over.
SameName(es, name, st) ==
  LET same == {i \in DOMAIN es : es[i].name = name}
  IN  IF same # {} THEN Found(es[CHOOSE i \in same : \A j \in same : i <= j])
      ELSE NotFound(IF st = "end" THEN "not found" ELSE st)

find_in_directory(v, cluster, name) ==
  LET In(scan) == SameName(Visible(scan.slots), name, scan.st) IN In(Scan(v, cluster))

\* The entry at a position of a directory, or the end of it.
get_directory_entry_at_position(v, cluster, position) ==
  LET At(es, st) == IF position < Len(es) THEN Found(es[position + 1]) ELSE NotFound(st)
      In(scan) == At(Visible(scan.slots), scan.st)
  IN  In(Scan(v, cluster))

\* A path is the sequence of its components; more of them than the array
\* has room for make the collection panic.
find_file(v, path) ==
  LET Below(before, name) ==
        IF before.st # "ok" THEN before
        ELSE IF before.entry.kind # "dir" THEN NotFound("not a directory")
        ELSE find_in_directory(v, before.entry.first, name)
      walk[k \in 0 .. Len(path)] ==
        IF k = 0 THEN Found([NoEntry EXCEPT !.kind = "dir", !.first = v.fs.root])
        ELSE Below(walk[k - 1], path[k])
  IN  CASE Len(path) > MAX_PARTS -> NotFound("panic")
        [] path = <<>> -> NotFound("not found")
        [] OTHER -> walk[Len(path)]

----------------------------------------------------------------------------
(***************************************************************************)
(* Files.  A read fills the buffer with pieces: the bytes from position to *)
(* on of the buffer are len bytes of the volume from an address.           *)
(***************************************************************************)
Piece(to, at, len) == [to |-> to, at |-> at, len |-> len]

Reading(cluster, n, pieces, st) == [cluster |-> cluster, n |-> n, pieces |-> pieces, st |-> st]

\* One cluster of a read: bytes of it from an offset, and on to the next
\* cluster of the chain.  A read that ends with this cluster's bytes has
\* looked up the next one all the same, except after the last partial one.
Fetched(r, c, n, offset, len, last) ==
  IF c.st = "err" \/ (~last /\ n.st = "err") THEN [r EXCEPT !.st = "err"]
  ELSE Reading(n.next, r.n + len, Append(r.pieces, Piece(r.n, c.at + offset, len)),
               IF last \/ n.next = NONE THEN "done" ELSE "more")

\* Only whole clusters go straight into the caller's buffer.
Fetch(v, r, offset, len, last) ==
  IF len < v.fs.cluster_size /\ Oversized(v) THEN [r EXCEPT !.st = "panic"]
  ELSE Fetched(r, read_cluster(v, r.cluster), next_cluster(v, r.cluster), offset, len, last)

\* The clusters before the offset are skipped along the chain.
Skip(v, first, count) ==
  LET Past(r, n) == CASE n.st = "err" -> [r EXCEPT !.st = "err"]
                      [] n.next = NONE -> [r EXCEPT !.st = "done"]
                      [] OTHER -> [r EXCEPT !.cluster = n.next]
      Step(r) == IF r.st = "more" THEN Past(r, next_cluster(v, r.cluster)) ELSE r
      walk[k \in 0 .. count] ==
        IF k = 0 THEN Reading(first, 0, <<>>, "more") ELSE Step(walk[k - 1])
  IN  walk[count]

\* A first partial cluster, full ones, a last partial one.
ReadClusters(v, skipped, within, want) ==
  LET cs == v.fs.cluster_size
      length == IF want < cs - within THEN want ELSE cs - within
      Step(r) ==
        CASE r.st # "more" -> r
          [] r.n < want -> Fetch(v, r, 0, IF r.n + cs <= want THEN cs ELSE want - r.n,
                                 r.n + cs > want)
          [] OTHER -> [r EXCEPT !.st = "done"]
      walk[k \in 0 .. want \div cs + 1] ==
        IF k # 0 THEN Step(walk[k - 1])
        ELSE IF skipped.st = "more" /\ (within > 0 \/ want < cs)
        THEN Fetch(v, skipped, within, length, FALSE) ELSE skipped
  IN  walk[want \div cs + 1]

read_file(v, first, size, offset, len) ==
  LET want == IF len < size - offset THEN len ELSE size - offset
      cs == v.fs.cluster_size
      Result(end) == IF end.st \in {"err", "panic"} THEN [st |-> end.st, n |-> 0, pieces |-> <<>>]
                     ELSE [st |-> "ok", n |-> end.n, pieces |-> end.pieces]
  IN  IF offset >= size THEN [st |-> "ok", n |-> 0, pieces |-> <<>>]
      ELSE Result(ReadClusters(v, Skip(v, first, offset \div cs), offset % cs, want))

----------------------------------------------------------------------------
(***************************************************************************)
(* What the volume holds, said without blocks and packed entries: the      *)
(* chain of a file, and where each byte of it lies.                        *)
(***************************************************************************)
EndOfChain(v) == CASE v.fs.type = 12 -> 4088 [] v.fs.type = 16 -> 65528 [] OTHER -> 268435448

Chain(v, first) ==
  LET limit == Cardinality(DOMAIN v.fat)
      Longer(s, n) == IF n >= EndOfChain(v) THEN s ELSE Append(s, n)
      Step(s) == Longer(s, TableEntry(v, s[Len(s)]))
      walk[k \in 0 .. limit] == IF k = 0 THEN <<first>> ELSE Step(walk[k - 1])
  IN  walk[limit]

FileByteAt(v, chain, k) ==
  ClusterAddress(v, chain[k \div v.fs.cluster_size + 1]) + (k % v.fs.cluster_size)

\* The pieces are bytes offset .. offset + n - 1 of the file, in order.
PiecesAreFile(v, first, offset, n, pieces) ==
  LET chain == Chain(v, first)
      cs == v.fs.cluster_size
  IN  /\ \A i \in DOMAIN pieces :
           LET p == pieces[i]
           IN  /\ p.to = (IF i = 1 THEN 0 ELSE pieces[i - 1].to + pieces[i - 1].len)
               /\ p.at = FileByteAt(v, chain, offset + p.to)
               /\ ((offset + p.to) % cs) + p.len <= cs
      /\ n = (IF pieces = <<>> THEN 0
              ELSE pieces[Len(pieces)].to + pieces[Len(pieces)].len)
=============================================================================
