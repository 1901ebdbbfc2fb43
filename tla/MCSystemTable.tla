--------------------------- MODULE MCSystemTable ----------------------------
(* Pages of four bytes: RAM, coreboot's table area, reserved memory and a  *)
(* hole.  ACPI tables of all shapes start in the last three.               *)
EXTENDS SystemTable

Pages(s, n) == [start |-> s, pages |-> n]

Area(s, n, t) == [start |-> s, pages |-> n, type |-> t]

TableMaps ==
  {{Area(0, 4, "Ram"), Area(4, 4, "Table"), Area(8, 2, "Reserved")},
   {Area(0, 4, "Ram"), Area(4, 4, "AcpiReclaimable")}}

TableCode == Pages(0, 1)

TableData == Pages(1, 1)

Table(a, n) == [at |-> a, len |-> n]

Rsdp(a, rev, n, x, r) ==
  [at |-> a, revision |-> rev, length |-> n, xsdt |-> x, rsdt |-> r]

Root(t, es) == [table |-> t, entries |-> es]

\* Tables that share a page, enclose each other, touch, cross a border, are empty.
SomeTables ==
  {Table(18, 8), Table(20, 2), Table(27, 2), Table(31, 2), Table(36, 4), Table(42, 3), Table(24, 0)}

SomeEntries ==
  {<<>>} \cup {<<t>> : t \in SomeTables}
    \cup {<<Table(20, 2), t, Table(27, 2)>> : t \in SomeTables}

Roots ==
  {Root(Table(16, 3), <<e, f>>) : e \in SomeEntries, f \in {<<>>} \cup {<<t>> : t \in SomeTables}}

\* RSDPs of both revisions, with and without root tables, in a table area and in
\* reserved memory.
TableRsdps ==
  {Rsdp(a, 2, 4, r, NULL) : a \in {28, 38}, r \in Roots}
    \cup {Rsdp(28, 0, 0, Root(Table(20, 2), <<>>), r) : r \in {Root(Table(24, 5), <<>>), NULL}}
    \cup {Rsdp(28, 2, 4, NULL, NULL)}

TableSmbioses == {[v21 |-> NULL, v30 |-> NULL], [v21 |-> 40, v30 |-> 41]}
============================================================================
