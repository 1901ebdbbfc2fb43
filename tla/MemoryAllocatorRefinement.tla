--------------------- MODULE MemoryAllocatorRefinement ---------------------
(***************************************************************************)
(* The allocator, with its descriptors, splits, merges and limits,         *)
(* implements the page-by-page promise of PageMap.                         *)
(***************************************************************************)
EXTENDS MemoryAllocator

\* The type the map gives to page p.
TypeAt(S, p) ==
  IF \E e \in S : PageIn(e, p) THEN (CHOOSE e \in S : PageIn(e, p)).type ELSE "Absent"

Abstract ==
  INSTANCE PageMap WITH
    Pages <- 0 .. ADDR_SPACE - 1,
    Types <- MemoryTypes,
    ReclaimTypes <- BootServicesTypes,
    ptype <- [p \in 0 .. ADDR_SPACE - 1 |-> TypeAt(entries, p)],
    started <- phase = "boot",
    exited <- boot_services_exited

\* Whatever the vector of descriptors goes through, a client sees pages: an
\* allocation retypes a range of free pages or of pages of one loader type, a
\* free returns a range of boot-services pages, ExitBootServices turns the
\* boot-services pages into free ones, and no other page ever changes type.
ImplementsPageMap == Abstract!Spec
============================================================================
