--------------------------- MODULE MemoryClient ----------------------------
(***************************************************************************)
(* A boot loader on top of the page allocator: it holds blocks obtained    *)
(* from AllocatePages and AllocatePool, frees them, takes snapshots of the *)
(* memory map and calls ExitBootServices with the key of its snapshot.     *)
(* Pool sizes are counted in small units (PAGE_SIZE of them to a page).    *)
(***************************************************************************)
EXTENDS MemoryAllocator

CONSTANTS
  PAGE_SIZE,      \* units in a page
  POOL_HEADER,    \* units of the header before a pool block
  USIZE,          \* first size that does not fit a usize
  PoolSizes,      \* sizes requested from the pool
  BufferEntries,  \* capacities of the loader's map buffer, in descriptors
  MaxLive         \* bound on the blocks held at once

VARIABLES
  live,      \* the blocks the loader holds
  snapshot   \* the map and key it read last

clientVars == <<live, snapshot>>

ASSUME PoolAssumption ==
  /\ PAGE_SIZE \in Nat \ {0} /\ POOL_HEADER \in Nat /\ USIZE \in Nat
  /\ PoolSizes \subseteq Nat /\ BufferEntries \subseteq Nat /\ MaxLive \in Nat

\* A block: its pages, their type, and the size asked for (0 for pages).
Block(a, n, t, size) == [start |-> a, pages |-> n, type |-> t, size |-> size]

NoSnapshot == [key |-> 0, entries |-> {}]

ClientInit ==
  /\ Init
  /\ live = {}
  /\ snapshot = NoSnapshot

\* Firmware start-up: the loader does not run yet.
StartUp ==
  /\ \/ \E m \in CorebootMaps : InitFromCoreboot(m)
     \/ ReserveRuntimeRegion
     \/ \E r \in AcpiRegions : MarkAcpiRegion(r)
     \/ EnterBootServices
  /\ UNCHANGED clientVars

\* The loader's own blocks that an allocation of b at a fixed address retypes in
\* place: the loader gives them up.
Superseded(b) ==
  {c \in live : c.type \in LoaderTypes /\ Overlaps(c, b.start, b.pages)}

\* The call that returned r gave the loader block b.
Acquire(r, b) ==
  /\ Cardinality(live) < MaxLive
  /\ Serve(r)
  /\ live' = IF r.status = "SUCCESS" THEN (live \ Superseded(b)) \cup {b} ELSE live
  /\ UNCHANGED <<boot_services_exited, snapshot>>

ClientAllocate(n, t) ==
  LET r == AllocateBelow(entries, map_key, n, t, ADDR_SPACE)
  IN  \E a \in IF r.status = "SUCCESS" THEN FindFreePages(entries, n, ADDR_SPACE) ELSE {0} :
        Acquire(r, Block(a, n, t, 0))

ClientAllocateAt(n, t, a) ==
  Acquire(AllocateAt(entries, map_key, n, t, a), Block(a, n, t, 0))

PoolPages(size) == (size + POOL_HEADER + PAGE_SIZE - 1) \div PAGE_SIZE

\* Both additions of allocate_pool are checked.
PoolOverflows(size) == size + POOL_HEADER + PAGE_SIZE - 1 >= USIZE

AllocatePool(size, t) ==
  LET n == PoolPages(size)
      r == IF size = 0 THEN Result(entries, map_key, "INVALID_PARAMETER")
           ELSE IF PoolOverflows(size) THEN Result(entries, map_key, "OUT_OF_RESOURCES")
           ELSE AllocateBelow(entries, map_key, n, t, ADDR_SPACE)
  IN  \E a \in IF r.status = "SUCCESS" THEN FindFreePages(entries, n, ADDR_SPACE) ELSE {0} :
        Acquire(r, Block(a, n, t, size))

\* The loader frees a block it holds: FreePages with the range it got, or
\* FreePool, which takes the page count from the header of the block.
Release(b) ==
  LET r == Free(entries, map_key, b.start, b.pages)
  IN  /\ Serve(r)
      /\ live' = IF r.status = "SUCCESS" THEN live \ {b} ELSE live
      /\ UNCHANGED <<boot_services_exited, snapshot>>

\* GetMemoryMap with a buffer of n descriptors.
GetMemoryMap(n) ==
  /\ phase = "boot" /\ ~boot_services_exited
  /\ snapshot' = IF n < Cardinality(entries) THEN snapshot   \* BUFFER_TOO_SMALL
                 ELSE [key |-> map_key, entries |-> entries]
  /\ UNCHANGED <<vars, live>>

ClientExit ==
  /\ snapshot # NoSnapshot
  /\ ExitBootServices(snapshot.key)
  /\ UNCHANGED <<live, snapshot>>

ClientNext ==
  \/ StartUp
  \/ \E n \in Sizes, t \in AllocTypes : ClientAllocate(n, t)
  \/ \E n \in Sizes, t \in AllocTypes, a \in Addresses : ClientAllocateAt(n, t, a)
  \/ \E size \in PoolSizes, t \in AllocTypes : AllocatePool(size, t)
  \/ \E b \in live : Release(b)
  \/ \E n \in BufferEntries : GetMemoryMap(n)
  \/ ClientExit

ClientSpec == ClientInit /\ [][ClientNext]_<<vars, clientVars>>

----------------------------------------------------------------------------
(* Properties.                                                             *)

\* Until boot services end, the pages of a block the loader holds keep the
\* type it asked for, and no two such blocks share a page: what one call hands
\* out no other call hands out, splits away or frees.  Memory of a loader type
\* is the exception, since AllocateAddress may retype it in place.  A pool
\* block also has room for its header and for the size asked for, however
\* close that size is to the largest usize, and wastes less than a page.
HeldBlocksAreSafe ==
  /\ ~boot_services_exited =>
       \A b \in {x \in live : x.type \notin LoaderTypes} :
         /\ \A p \in b.start .. b.start + b.pages - 1 : PageHas(entries, p, b.type)
         /\ \A c \in live \ {b} :
              b.start + b.pages <= c.start \/ c.start + c.pages <= b.start
  /\ \A b \in {x \in live : x.size > 0} :
       /\ b.size + POOL_HEADER <= b.pages * PAGE_SIZE
       /\ (b.pages - 1) * PAGE_SIZE < b.size + POOL_HEADER

\* ExitBootServices succeeds only for a loader whose snapshot is the map as it
\* is at that moment, whatever was allocated and freed since it was taken.
ExitWithCurrentMap ==
  [][boot_services_exited' /\ ~boot_services_exited =>
       snapshot.key = map_key /\ snapshot.entries = entries]_<<vars, clientVars>>

\* "Free previously allocated pages": a block the loader holds can be freed.
HeldBlocksCanBeFreed ==
  phase = "boot" /\ ~boot_services_exited =>
    \A b \in live :
      b.type \in BootServicesTypes =>
        Free(entries, map_key, b.start, b.pages).status = "SUCCESS"
============================================================================
