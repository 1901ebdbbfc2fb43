------------------------- MODULE MCMemoryAllocator -------------------------
(* Platforms of eight and of thirteen pages for MemoryAllocator: low RAM, a *)
(* reserved hole and a coreboot table area; RAM that does not hold the      *)
(* firmware; and one on which a few allocations fill the descriptor vector, *)
(* with two ACPI descriptors side by side that only a later merge joins.    *)
EXTENDS MemoryAllocator

Region(s, n, t) == [start |-> s, pages |-> n, type |-> t]

Pages(s, n) == [start |-> s, pages |-> n]

MCMaps ==
  {{Region(0, 5, "Ram"), Region(5, 1, "Reserved"), Region(6, 2, "Table")},
   {Region(2, 4, "Ram"), Region(6, 1, "Ram")},
   {Region(0, 9, "Ram"), Region(9, 3, "Reserved"), Region(12, 1, "AcpiReclaimable")}}

MCCode == Pages(1, 1)

MCData == Pages(3, 1)

MCAcpi == {Pages(6, 1), Pages(7, 2), Pages(10, 1), Pages(11, 1)}
============================================================================
