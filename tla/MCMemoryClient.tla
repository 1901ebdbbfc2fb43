-------------------------- MODULE MCMemoryClient ---------------------------
(* A boot loader on a platform of seven pages, and the page-by-page promise *)
(* of PageMap beside it.                                                    *)
EXTENDS MemoryClient, MemoryAllocatorRefinement

Region(s, n, t) == [start |-> s, pages |-> n, type |-> t]

Pages(s, n) == [start |-> s, pages |-> n]

ClientMaps == {{Region(0, 6, "Ram"), Region(6, 1, "Reserved")}}

ClientCode == Pages(0, 1)

ClientData == Pages(1, 0)

ClientAcpi == {Pages(6, 1)}
============================================================================
