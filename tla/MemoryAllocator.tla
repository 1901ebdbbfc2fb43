-------------------------- MODULE MemoryAllocator --------------------------
(***************************************************************************)
(* The physical page allocator of CrabEFI (efi/allocator.rs): the UEFI     *)
(* memory map, its key, and the operations of boot services on them.       *)
(*                                                                         *)
(* Addresses and sizes are counted in pages.  The code keeps the map in a  *)
(* bounded vector that it sorts by start address after every push; the     *)
(* model keeps the set of the descriptors and recovers a position in the   *)
(* vector from the start addresses (Index, At).  Firmware is single        *)
(* threaded, so each service call is one step.                             *)
(***************************************************************************)
EXTENDS Integers, FiniteSets

CONSTANTS
  MAX_MEMORY_ENTRIES,   \* capacity of the descriptor vector
  MAX_IDENTITY_MAPPED,  \* first page above the identity mapping
  ADDR_SPACE,           \* pages in the 64-bit address space
  MAX_MEMORY_REGIONS,   \* capacity of coreboot's region list
  MAX_ACPI_REGIONS,     \* most ACPI ranges marked at start-up
  CorebootMaps,         \* memory maps coreboot may hand over
  RuntimeCode,          \* page range of the firmware's code
  RuntimeData,          \* page range of the firmware's data
  AcpiRegions,          \* page ranges that may hold ACPI tables
  AllocTypes,           \* memory types requested by callers
  Sizes,                \* page counts requested by callers
  Addresses,            \* addresses requested by callers
  MaxKey                \* bound on map_key

VARIABLES
  entries,               \* the memory descriptors
  map_key,               \* the memory map key
  boot_services_exited,  \* ExitBootServices succeeded
  phase,                 \* progress of efi::init
  marked                 \* ACPI ranges processed so far

vars == <<entries, map_key, boot_services_exited, phase, marked>>

LoaderTypes == {"LoaderCode", "LoaderData"}

RuntimeTypes == {"RuntimeServicesCode", "RuntimeServicesData"}

BootServicesTypes == LoaderTypes \cup {"BootServicesCode", "BootServicesData"}

MemoryTypes ==
  BootServicesTypes \cup RuntimeTypes \cup
  {"ReservedMemoryType", "ConventionalMemory", "UnusableMemory",
   "AcpiReclaimMemory", "AcpiMemoryNvs", "MemoryMappedIo",
   "MemoryMappedIoPortSpace", "PalCode", "PersistentMemory"}

CbMemoryTypes ==
  {"Ram", "Reserved", "AcpiReclaimable", "AcpiNvs", "Unusable", "Table"}

\* The attribute bits the allocator ever sets.
Attributes == {"WB", "RUNTIME", "XP"}

PageRange == [start : Nat, pages : Nat]

Entry ==
  [start : Nat, pages : Nat \ {0}, type : MemoryTypes, attr : SUBSET Attributes]

CbRegion == [start : Nat, pages : Nat \ {0}, type : CbMemoryTypes]

\* Stands for every address that is not a multiple of the page size.
UNALIGNED == -1

ASSUME CapacityAssumption ==
  /\ MAX_MEMORY_ENTRIES \in Nat
  /\ MAX_MEMORY_REGIONS \in Nat
  /\ MAX_ACPI_REGIONS \in Nat
  /\ MAX_MEMORY_REGIONS + 2 * MAX_ACPI_REGIONS + 6 <= MAX_MEMORY_ENTRIES

ASSUME AddressAssumption ==
  /\ ADDR_SPACE \in Nat
  /\ MAX_IDENTITY_MAPPED \in 1 .. ADDR_SPACE - 1
  /\ MaxKey \in Nat

ASSUME InputAssumption ==
  /\ AllocTypes \subseteq MemoryTypes
  /\ Sizes \subseteq Nat
  /\ Addresses \subseteq 0 .. ADDR_SPACE - 1

ASSUME PlatformAssumption ==
  /\ RuntimeCode \in PageRange /\ RuntimeCode.pages > 0
  /\ RuntimeData \in PageRange
  /\ RuntimeCode.start + RuntimeCode.pages < ADDR_SPACE
  /\ RuntimeData.start + RuntimeData.pages < ADDR_SPACE
  /\ AcpiRegions \subseteq PageRange
  /\ \A r \in AcpiRegions : r.pages > 0
  /\ \A m \in CorebootMaps :
       /\ m \subseteq CbRegion
       /\ IsFiniteSet(m)
       /\ Cardinality(m) <= MAX_MEMORY_REGIONS
       /\ \A r \in m : r.start + r.pages < ADDR_SPACE
       /\ \A r, s \in m :
            r # s => r.start + r.pages <= s.start \/ s.start + s.pages <= r.start

----------------------------------------------------------------------------
(* Memory descriptors and the sorted vector that holds them.               *)

\* MemoryDescriptor::new.
Descriptor(s, n, t, at) == [start |-> s, pages |-> n, type |-> t, attr |-> at]

End(e) == e.start + e.pages

Contains(e, a, n) == e.start <= a /\ a + n <= End(e)

Overlaps(e, a, n) == a < End(e) /\ e.start < a + n

\* iter().position(): the first descriptor of a non-empty set of candidates.
First(C) == CHOOSE e \in C : \A f \in C : e.start <= f.start

\* iter().rev(): the last one.
Last(C) == CHOOSE e \in C : \A f \in C : f.start <= e.start

Index(S, e) == Cardinality({f \in S : f.start < e.start})

At(S, i) == CHOOSE e \in S : Index(S, e) = i

\* f directly follows e in the vector, starts where e ends, and is of its kind.
Mergeable(S, e, f) ==
  /\ End(e) = f.start
  /\ e.type = f.type
  /\ e.attr = f.attr
  /\ ~ \E g \in S : e.start < g.start /\ g.start < f.start

\* Every descriptor from h up to, not including, t is merged with its successor.
InRun(S, h, t) ==
  \A g \in S : h.start <= g.start /\ g.start < t.start
                 => \E f \in S : Mergeable(S, g, f)

\* What the loop of merge_entries leaves: one descriptor for each maximal run.
MergeEntries(S) ==
  LET heads == {h \in S : ~ \E g \in S : Mergeable(S, g, h)}
      tails == {t \in S : ~ \E g \in S : Mergeable(S, t, g)}
      runs  == {r \in heads \X tails :
                  r[1].start <= r[2].start /\ InRun(S, r[1], r[2])}
  IN  {Descriptor(r[1].start, End(r[2]) - r[1].start, r[1].type, r[1].attr) : r \in runs}

\* The descriptors that replace e when n pages at a become type t, attribute at.
Split(e, a, n, t, at) ==
  (IF e.start < a THEN {Descriptor(e.start, a - e.start, e.type, e.attr)} ELSE {})
  \cup {Descriptor(a, n, t, at)}
  \cup (IF a + n < End(e)
        THEN {Descriptor(a + n, End(e) - (a + n), e.type, e.attr)} ELSE {})

\* What a call leaves behind and returns.
Result(S, k, st) == [entries |-> S, map_key |-> k, status |-> st]

\* Attribute of n pages of type t taken from memory of attribute at.
RuntimeAttribute(t, at) ==
  CASE t = "RuntimeServicesCode" -> (at \cup {"RUNTIME"}) \ {"XP"}
    [] t = "RuntimeServicesData" -> at \cup {"RUNTIME", "XP"}
    [] OTHER -> at

\* Faulty replacements: one does not check the capacity, one forgets the merge.
ReplaceEntryUnchecked(S, k, e, pieces, full) ==
  Result(MergeEntries((S \ {e}) \cup pieces), k + 1, "SUCCESS")

ReplaceEntryUnmerged(S, k, e, pieces, full) ==
  IF Cardinality(S) + Cardinality(pieces) - 1 > MAX_MEMORY_ENTRIES
  THEN Result(S, k, full)
  ELSE Result((S \ {e}) \cup pieces, k + 1, "SUCCESS")

\* The tail common to carve_out and try_reallocate_loader_region: check the
\* capacity, merging once when the vector is full, then remove the descriptor
\* at the position found before that merge and push its replacements.
ReplaceEntry(S, k, e, pieces, full) ==
  LET needed == Cardinality(pieces) - 1
      T == IF Cardinality(S) + needed > MAX_MEMORY_ENTRIES
           THEN MergeEntries(S) ELSE S
  IN  IF Cardinality(T) + needed > MAX_MEMORY_ENTRIES
      THEN Result(T, k, full)
      ELSE Result(MergeEntries((T \ {At(T, Index(S, e))}) \cup pieces),
                  k + 1, "SUCCESS")

CarveOut(S, k, a, n, t) ==
  LET found == {e \in S : e.type = "ConventionalMemory" /\ Contains(e, a, n)}
      e == First(found)
  IN  IF a + n >= ADDR_SPACE THEN Result(S, k, "INVALID_PARAMETER")
      ELSE IF found = {} THEN Result(S, k, "NOT_FOUND")
      ELSE ReplaceEntry(S, k, e, Split(e, a, n, t, RuntimeAttribute(t, e.attr)),
                        "OUT_OF_RESOURCES")

\* AllocateAddress inside LoaderCode or LoaderData.
TryReallocateLoaderRegion(S, k, a, n, t) ==
  LET found == {e \in S : e.type \in LoaderTypes /\ Contains(e, a, n)}
      e == First(found)
  IN  IF a + n >= ADDR_SPACE \/ found = {} THEN Result(S, k, "NOT_FOUND")
      ELSE IF e.type = t THEN Result(S, k, "SUCCESS")
      ELSE ReplaceEntry(S, k, e, Split(e, a, n, t, e.attr), "NOT_FOUND")

ForceAddRegion(S, k, a, n, t) ==
  IF Cardinality(S) >= MAX_MEMORY_ENTRIES
  THEN Result(S, k, "OUT_OF_RESOURCES")
  ELSE Result(S \cup {Descriptor(a, n, t, RuntimeAttribute(t, {"WB"}))},
              k + 1, "SUCCESS")

\* Any failure of carve_out makes reserve_runtime_region force-add the range,
\* to whatever map the failed attempt left.
ReserveOrForce(S, k, r, t) ==
  LET c == CarveOut(S, k, r.start, r.pages, t)
  IN  IF c.status = "SUCCESS" THEN c
      ELSE ForceAddRegion(c.entries, c.map_key, r.start, r.pages, t)

\* Faulty: adds the range even if it overlaps descriptors.
MarkAsAcpiUnchecked(S, k, a, n) ==
  LET found == {e \in S : Contains(e, a, n)}
      e == First(found)
  IN  Result(IF found = {} THEN S \cup {Descriptor(a, n, "AcpiReclaimMemory", {"WB"})}
             ELSE (S \ {e}) \cup Split(e, a, n, "AcpiReclaimMemory", e.attr),
             k + 1, "SUCCESS")

\* A range inside one descriptor of any type is split out of it; a range no
\* descriptor touches is added.  Neither branch merges.  When the vector fills
\* up half way, the pieces pushed so far stay and the key does not change.
MarkAsAcpiReclaim(S, k, a, n) ==
  LET found == {e \in S : Contains(e, a, n)}
      e == First(found)
      pieces == Split(e, a, n, "AcpiReclaimMemory", e.attr)
      room == MAX_MEMORY_ENTRIES - (Cardinality(S) - 1)
      fresh == Descriptor(a, n, "AcpiReclaimMemory", {"WB"})
  IN  IF a + n >= ADDR_SPACE THEN Result(S, k, "INVALID_PARAMETER")
      ELSE IF found = {} THEN
             IF \E f \in S : Overlaps(f, a, n)
             THEN Result(S, k, "INVALID_PARAMETER")
             ELSE IF Cardinality(S) >= MAX_MEMORY_ENTRIES
             THEN Result(S, k, "OUT_OF_RESOURCES")
             ELSE Result(S \cup {fresh}, k + 1, "SUCCESS")
      ELSE IF e.type \in {"AcpiReclaimMemory", "AcpiMemoryNvs"}
      THEN Result(S, k, "SUCCESS")
      ELSE IF Cardinality(pieces) > room
      THEN Result((S \ {e}) \cup {p \in pieces : Index(pieces, p) < room},
                  k, "OUT_OF_RESOURCES")
      ELSE Result((S \ {e}) \cup pieces, k + 1, "SUCCESS")

\* u64 arithmetic of the release build, in pages, one carry or borrow at most.
Wrap(x) == IF x >= ADDR_SPACE THEN x - ADDR_SPACE
           ELSE IF x < 0 THEN x + ADDR_SPACE ELSE x

\* Faulty: wants one page more than asked for.
FindFreePagesTooLarge(S, n, max_addr) ==
  LET max == IF max_addr < MAX_IDENTITY_MAPPED THEN max_addr
             ELSE MAX_IDENTITY_MAPPED
      fits == {e \in S :
                 /\ e.type = "ConventionalMemory"
                 /\ e.start < max
                 /\ IF End(e) > max
                    THEN max > Wrap(e.start + n) /\ Wrap(max - n) >= e.start
                    ELSE e.pages > n}
      e == Last(fits)
  IN  IF fits = {} THEN {}
      ELSE {IF End(e) > max THEN Wrap(max - n) ELSE End(e) - n}

\* The address find_free_pages returns, as a set of at most one element.
FindFreePages(S, n, max_addr) ==
  LET max == IF max_addr < MAX_IDENTITY_MAPPED THEN max_addr
             ELSE MAX_IDENTITY_MAPPED
      fits == {e \in S :
                 /\ e.type = "ConventionalMemory"
                 /\ e.start < max
                 /\ IF End(e) > max
                    THEN max >= Wrap(e.start + n) /\ Wrap(max - n) >= e.start
                    ELSE e.pages >= n}
      e == Last(fits)
  IN  IF fits = {} THEN {}
      ELSE {IF End(e) > max THEN Wrap(max - n) ELSE End(e) - n}

IsRegionFree(S, a, n) ==
  /\ a + n < ADDR_SPACE
  /\ \E e \in S : e.type = "ConventionalMemory" /\ Contains(e, a, n)

\* AllocateAnyPages and AllocateMaxAddress: the highest fit below the limit.
AllocateBelow(S, k, n, t, max_addr) ==
  IF n = 0 THEN Result(S, k, "INVALID_PARAMETER")
  ELSE IF boot_services_exited THEN Result(S, k, "UNSUPPORTED")
  ELSE IF n >= ADDR_SPACE \/ FindFreePages(S, n, max_addr) = {}
  THEN Result(S, k, "OUT_OF_RESOURCES")
  ELSE LET a == CHOOSE x \in FindFreePages(S, n, max_addr) : TRUE
       IN  CarveOut(S, k, a, n, t)

AllocateAt(S, k, n, t, a) ==
  IF n = 0 THEN Result(S, k, "INVALID_PARAMETER")
  ELSE IF boot_services_exited THEN Result(S, k, "UNSUPPORTED")
  ELSE IF n >= ADDR_SPACE THEN Result(S, k, "OUT_OF_RESOURCES")
  ELSE IF a = UNALIGNED THEN Result(S, k, "INVALID_PARAMETER")
  ELSE IF IsRegionFree(S, a, n) THEN CarveOut(S, k, a, n, t)
  ELSE TryReallocateLoaderRegion(S, k, a, n, t)

\* Faulty frees: one forgets the merge, one the key, one the check of the type,
\* one the check of the size.
FreeUnmerged(S, k, a, n) ==
  LET found == {e \in S : e.start = a /\ e.pages = n /\ e.type \in BootServicesTypes}
  IN  IF found = {} \/ boot_services_exited THEN Result(S, k, "NOT_FOUND")
      ELSE Result((S \ found) \cup {Descriptor(a, n, "ConventionalMemory", {"WB"})},
                  k + 1, "SUCCESS")

FreeKeepsKey(S, k, a, n) ==
  LET found == {e \in S : e.start = a /\ e.pages = n /\ e.type \in BootServicesTypes}
  IN  IF found = {} \/ boot_services_exited THEN Result(S, k, "NOT_FOUND")
      ELSE Result(MergeEntries((S \ found) \cup
                               {Descriptor(a, n, "ConventionalMemory", {"WB"})}),
                  k, "SUCCESS")

FreeAnyType(S, k, a, n) ==
  LET found == {e \in S : e.start = a /\ e.pages = n}
  IN  IF found = {} \/ boot_services_exited THEN Result(S, k, "NOT_FOUND")
      ELSE Result(MergeEntries((S \ found) \cup
                               {Descriptor(a, n, "ConventionalMemory", {"WB"})}),
                  k + 1, "SUCCESS")

FreeAnySize(S, k, a, n) ==
  LET found == {e \in S : e.start = a /\ e.type \in BootServicesTypes}
  IN  IF found = {} \/ boot_services_exited THEN Result(S, k, "NOT_FOUND")
      ELSE Result(MergeEntries((S \ found) \cup
                               {Descriptor(e.start, e.pages, "ConventionalMemory", {"WB"}) :
                                e \in found}),
                  k + 1, "SUCCESS")

\* Only a descriptor that is exactly the range is freed.
Free(S, k, a, n) ==
  LET found == {e \in S : /\ e.start = a /\ e.pages = n
                          /\ e.type \in BootServicesTypes \cup {"ConventionalMemory"}}
      e == First(found)
  IN  IF a = UNALIGNED \/ n = 0 THEN Result(S, k, "INVALID_PARAMETER")
      ELSE IF boot_services_exited THEN Result(S, k, "UNSUPPORTED")
      ELSE IF found = {} THEN Result(S, k, "NOT_FOUND")
      ELSE Result(MergeEntries((S \ {e}) \cup
                               {Descriptor(a, n, "ConventionalMemory", e.attr)}),
                  k + 1, "SUCCESS")

\* Faulty: the loader's memory is not reclaimed.
ReclaimBootOnly(e) ==
  IF e.type \in BootServicesTypes \ LoaderTypes
  THEN Descriptor(e.start, e.pages, "ConventionalMemory", e.attr) ELSE e

\* Boot-services memory becomes conventional memory.
Reclaim(e) ==
  IF e.type \in BootServicesTypes
  THEN Descriptor(e.start, e.pages, "ConventionalMemory", e.attr) ELSE e

----------------------------------------------------------------------------
(* Start-up, in the order of efi::init, then the boot services.            *)

CbToEfiMemoryType(t) ==
  CASE t = "Ram" -> "ConventionalMemory"
    [] t = "Reserved" -> "ReservedMemoryType"
    [] t = "AcpiReclaimable" -> "AcpiReclaimMemory"
    [] t = "AcpiNvs" -> "AcpiMemoryNvs"
    [] t = "Unusable" -> "UnusableMemory"
    [] t = "Table" -> "BootServicesData"

EntryOf(r) ==
  Descriptor(r.start, r.pages, CbToEfiMemoryType(r.type), {"WB"})

Init ==
  /\ entries = {}
  /\ map_key = 1
  /\ boot_services_exited = FALSE
  /\ phase = "cold"
  /\ marked = 0

InitFromCoreboot(m) ==
  /\ phase = "cold"
  /\ entries' = MergeEntries({EntryOf(r) : r \in m})
  /\ map_key' = 1
  /\ phase' = "imported"
  /\ UNCHANGED <<boot_services_exited, marked>>

\* Install what a call returned.
Return(r) == entries' = r.entries /\ map_key' = r.map_key

ReserveRuntimeRegion ==
  /\ phase = "imported"
  /\ LET c == ReserveOrForce(entries, map_key, RuntimeCode, "RuntimeServicesCode")
         d == ReserveOrForce(c.entries, c.map_key, RuntimeData, "RuntimeServicesData")
     IN  Return(IF RuntimeData.pages > 0 THEN d ELSE c)
  /\ phase' = "reserved"
  /\ UNCHANGED <<boot_services_exited, marked>>

MarkAcpiRegion(r) ==
  /\ phase = "reserved"
  /\ marked < MAX_ACPI_REGIONS
  /\ Return(MarkAsAcpiReclaim(entries, map_key, r.start, r.pages))
  /\ marked' = marked + 1
  /\ UNCHANGED <<boot_services_exited, phase>>

\* efi::init returns: from here on the services are called.
EnterBootServices ==
  /\ phase = "reserved"
  /\ phase' = "boot"
  /\ UNCHANGED <<entries, map_key, boot_services_exited, marked>>

\* A service call that returns r.  MaxKey bounds the number of changes.
Serve(r) ==
  /\ phase = "boot"
  /\ r.map_key <= MaxKey
  /\ Return(r)
  /\ UNCHANGED <<phase, marked>>

AllocateAnyPages(n, t) ==
  /\ Serve(AllocateBelow(entries, map_key, n, t, ADDR_SPACE))
  /\ UNCHANGED boot_services_exited

AllocateMaxAddress(n, t, max_addr) ==
  /\ Serve(AllocateBelow(entries, map_key, n, t, max_addr))
  /\ UNCHANGED boot_services_exited

AllocateAddress(n, t, a) ==
  /\ Serve(AllocateAt(entries, map_key, n, t, a))
  /\ UNCHANGED boot_services_exited

FreePages(a, n) ==
  /\ Serve(Free(entries, map_key, a, n))
  /\ UNCHANGED boot_services_exited

ExitBootServices(key) ==
  IF key = map_key
  THEN /\ Serve(Result(MergeEntries({Reclaim(e) : e \in entries}),
                       map_key + 1, "SUCCESS"))
       /\ boot_services_exited' = TRUE
  ELSE /\ Serve(Result(entries, map_key, "INVALID_PARAMETER"))
       /\ UNCHANGED boot_services_exited

Next ==
  \/ \E m \in CorebootMaps : InitFromCoreboot(m)
  \/ ReserveRuntimeRegion
  \/ \E r \in AcpiRegions : MarkAcpiRegion(r)
  \/ EnterBootServices
  \/ \E n \in Sizes, t \in AllocTypes : AllocateAnyPages(n, t)
  \/ \E n \in Sizes, t \in AllocTypes, a \in Addresses : AllocateMaxAddress(n, t, a)
  \/ \E n \in Sizes, t \in AllocTypes, a \in Addresses \cup {UNALIGNED} :
       AllocateAddress(n, t, a)
  \/ \E a \in Addresses \cup {UNALIGNED}, n \in Sizes : FreePages(a, n)
  \/ \E key \in 1 .. MaxKey : ExitBootServices(key)

Spec == Init /\ [][Next]_vars

----------------------------------------------------------------------------
(* Properties.                                                             *)

\* The state is well typed and the vector never exceeds its capacity, so the
\* pushes whose result carve_out and try_reallocate_loader_region discard
\* ("We pre-checked space") never lose a descriptor.
TypeOK ==
  /\ entries \subseteq Entry
  /\ IsFiniteSet(entries) /\ Cardinality(entries) <= MAX_MEMORY_ENTRIES
  /\ map_key \in Nat
  /\ boot_services_exited \in BOOLEAN
  /\ phase \in {"cold", "imported", "reserved", "boot"}
  /\ marked \in 0 .. MAX_ACPI_REGIONS

\* No page is described twice: whatever order of reservations, allocations,
\* frees and splits, two descriptors of the map never overlap.
NoOverlap ==
  \A e, f \in entries : e # f => End(e) <= f.start \/ End(f) <= e.start

\* merge_entries would change nothing.
Merged(S) == \A e, f \in S : ~Mergeable(S, e, f)

\* When the vector is so full that a split may need the merge in carve_out or
\* try_reallocate_loader_region, that merge changes nothing, so the position
\* taken before it still names the descriptor to remove.
FullMapIsMerged == Cardinality(entries) + 2 > MAX_MEMORY_ENTRIES => Merged(entries)

\* The map key is incremented on every change of the map once it is imported,
\* failed calls included: a caller that holds the current key holds the
\* current map.
KeyTracksChanges ==
  [][entries' # entries /\ phase # "cold" => map_key' > map_key]_vars

PageIn(e, p) == e.start <= p /\ p < End(e)

PageHas(S, p, t) == \E e \in S : e.type = t /\ PageIn(e, p)

\* is_region_free accepts a range exactly when all its pages are conventional
\* memory, although it looks for one descriptor that holds the whole range.
FreeCheckExact ==
  phase # "cold" =>
    \A a \in Addresses, n \in Sizes \ {0} :
      a + n < ADDR_SPACE =>
        (IsRegionFree(entries, a, n)
           <=> \A p \in a .. a + n - 1 : PageHas(entries, p, "ConventionalMemory"))

\* find_free_pages returns the highest address at which the request fits below
\* the limit and the identity mapping.  Where it fits nowhere it returns none,
\* or, when start + size and the subtraction after it wrapped around, an address
\* that is not free at all; carve_out refuses that one and changes nothing.
FindFreeExact ==
  \A max \in Addresses, n \in Sizes \ {0} :
    n < ADDR_SPACE =>
      LET free == {a \in 0 .. MAX_IDENTITY_MAPPED :
                     /\ a + n <= max /\ a + n <= MAX_IDENTITY_MAPPED
                     /\ \A p \in a .. a + n - 1 :
                          PageHas(entries, p, "ConventionalMemory")}
          highest == {a \in free : \A b \in free : b <= a}
          found == FindFreePages(entries, n, max)
      IN  \/ found = highest
          \/ /\ free = {}
             /\ \A a \in found, t \in AllocTypes :
                  CarveOut(entries, map_key, a, n, t)
                    = Result(entries, map_key, "INVALID_PARAMETER")

\* The firmware's own code and data, and every other page handed out as
\* runtime memory, stays runtime memory: no allocation, free, split, ACPI
\* marking or ExitBootServices takes such a page away from the runtime.
RuntimePagesStay ==
  [][\A e \in entries : e.type \in RuntimeTypes /\ phase = "boot" =>
       \E f \in entries' : f.type = e.type /\ Contains(f, e.start, e.pages)]_vars

\* Once services run no page drops out of the map and none joins it.
MapCoversSamePages ==
  [][phase = "boot" =>
       \A p \in 0 .. MAX_IDENTITY_MAPPED :
         (\E e \in entries : PageIn(e, p)) <=> (\E e \in entries' : PageIn(e, p))]_vars
============================================================================
