------------------------------- MODULE BlockIo -------------------------------
(***************************************************************************)
(* The BlockIO protocol (efi/protocols/block_io.rs) over the registry of   *)
(* storage devices (drivers/storage.rs).  A BlockIO instance has a context *)
(* with a device of the registry and a range of its blocks; the registry   *)
(* knows which disk each device is, but only NVMe disks are read by what   *)
(* it knows: for the other kinds it is the disk stored last by             *)
(* store_global_device.                                                    *)
(*                                                                         *)
(* A disk is identified by its kind, controller and unit; disks gives each *)
(* disk of the machine, with its blocks and the ones that cannot be read.  *)
(***************************************************************************)
EXTENDS Partitions

CONSTANTS
  MAX_STORAGE_DEVICES,     \* 8
  MAX_BLOCK_IO_INSTANCES,  \* 16
  ReadCounts,              \* blocks the boot loader reads at a time
  U64                      \* 2^64, more than any disk has blocks

VARIABLES
  disks,      \* the disks of the machine, by their identity
  registry,   \* StorageRegistry.devices; a device's id is its place
  global,     \* the disk stored last, for each kind
  contexts,   \* BLOCK_IO_CONTEXTS
  block_reply \* the last read and what it delivered

blockVars == <<disks, registry, global, contexts, block_reply>>

Kinds == {"nvme", "ahci", "usb", "sdhci"}

Nothing == [kind |-> "none", ctl |-> 0, unit |-> 0]

NoBlocks == [st |-> "none", io |-> 0, lba |-> 0, blocks |-> <<>>]

BlockInit ==
  /\ registry = <<>> /\ contexts = <<>>
  /\ global = [k \in Kinds |-> Nothing]
  /\ block_reply = NoBlocks

RegistryFull == Len(registry) = MAX_STORAGE_DEVICES

\* register_device: the registry with a device added, or as it was.
register_device(disk) == IF RegistryFull THEN registry ELSE Append(registry, disk)

\* store_global_device: from now on the disk is the one of its kind.
store_global_device(disk) == [global EXCEPT ![disk.kind] = disk]

\* The disk that read_sectors of the registry turns to.
DiskRead(id) == LET disk == registry[id]
                IN  IF disk.kind = "nvme" THEN disk ELSE global[disk.kind]

\* A context: the media id, the device and its blocks, and the disk that the
\* caller made the instance for, which the code does not keep.
Context(media, id, start, blocks, of) ==
  [media |-> media, id |-> id, start |-> start, blocks |-> blocks, of |-> of]

\* create_block_io_internal: the contexts with one added, or as they were
\* when all are taken or there is no memory.
create_block_io_internal(ctxs, c, memory) ==
  IF Len(ctxs) = MAX_BLOCK_IO_INSTANCES \/ ~memory THEN ctxs ELSE Append(ctxs, c)

create_disk_block_io(ctxs, id, of, memory) ==
  create_block_io_internal(ctxs, Context(0, id, 0, disks[of].blocks, of), memory)

create_partition_block_io_at_zero(ctxs, num, id, p, of, memory) ==
  create_block_io_internal(ctxs, Context(num, id, 0, size_sectors(p), of), memory)

create_partition_block_io(ctxs, num, id, p, of, memory) ==
  create_block_io_internal(ctxs, Context(num, id, p.first, size_sectors(p), of), memory)

Readable(disk, lba) ==
  disk \in DOMAIN disks /\ lba < disks[disk].blocks /\ lba \notin disks[disk].bad

\* ReadBlocks on instance io: the media id, the alignment of the buffer, the
\* bounds, then block by block through the registry.  The sums wrap around.
block_io_read_blocks(io, media, lba, n, aligned) ==
  LET ctx == contexts[io]
      disk == DiskRead(ctx.id)
      got == [i \in 1 .. n |-> [disk |-> disk, lba |-> (ctx.start + lba + i - 1) % U64]]
      Refused(st) == block_reply' = [NoBlocks EXCEPT !.st = st]
  IN  /\ UNCHANGED <<disks, registry, global, contexts>>
      /\ CASE media # ctx.media -> Refused("MEDIA_CHANGED")
           [] ~aligned -> Refused("BAD_BUFFER_SIZE")
           [] (lba + n) % U64 > ctx.blocks -> Refused("INVALID_PARAMETER")
           [] \E i \in 1 .. n : ~Readable(disk, got[i].lba) -> Refused("DEVICE_ERROR")
           [] OTHER -> block_reply' = [st |-> "SUCCESS", io |-> io, lba |-> lba, blocks |-> got]

\* Reset and FlushBlocks have nothing to do, WriteBlocks is refused.
block_io_write_blocks ==
  /\ \E st \in {"SUCCESS", "WRITE_PROTECTED"} : block_reply' = [NoBlocks EXCEPT !.st = st]
  /\ UNCHANGED <<disks, registry, global, contexts>>

\* The first and last blocks of an instance, the one past its end, and the
\* last number of all.
Probes(ctx) == {0, ctx.blocks - 1, ctx.blocks, U64 - 1} \cap Nat

\* The instances of ios are on handles.
BlockNext(ios) ==
  \E io \in ios :
    \/ block_io_write_blocks
    \/ \E media \in {contexts[io].media, contexts[io].media + 1},
          lba \in Probes(contexts[io]), n \in ReadCounts, aligned \in BOOLEAN :
         block_io_read_blocks(io, media, lba, n, aligned)

\* ReadBlocks delivers blocks of the disk the instance was made for, none
\* beyond the instance's range, and the blocks asked for wherever the end of
\* the request is a 64-bit number: the unread identity of USB, AHCI and SD
\* devices in the registry does no harm, because the disk stored last is the
\* one being booted (read_sectors, store_global_device, boot_selected_entry).
\* A request whose end is not a 64-bit number passes the check of the bounds,
\* which wraps around, and is given blocks before the range.
BlockReadsAreOwn ==
  block_reply.st = "SUCCESS" =>
    \A i \in DOMAIN block_reply.blocks :
      LET ctx == contexts[block_reply.io]
          b == block_reply.blocks[i]
      IN  /\ b.disk = ctx.of
          /\ b.lba <= ctx.start + ctx.blocks - 1
          /\ block_reply.lba + Len(block_reply.blocks) < U64 =>
               b.lba = ctx.start + block_reply.lba + i - 1
=============================================================================
