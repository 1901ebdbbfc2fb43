---------------------------- MODULE SystemTable -----------------------------
(***************************************************************************)
(* The EFI system table and its configuration tables                       *)
(* (efi/system_table.rs), over the page allocator.  The table array lives  *)
(* in the firmware state with a count; the system table points at the      *)
(* array and keeps a copy of the count, which is what an operating system  *)
(* reads.  efi::init installs the ACPI and SMBIOS tables coreboot left in  *)
(* memory and marks the pages of the ACPI tables in the memory map; then   *)
(* the boot loader installs, replaces and removes tables.                  *)
(*                                                                         *)
(* Tables are byte ranges [at, len]; the memory map counts in pages.  An   *)
(* address the firmware finds to be 0 is NULL.                             *)
(***************************************************************************)
EXTENDS MemoryAllocator, Sequences

LOCAL INSTANCE TLC

SX == INSTANCE SequencesExt

CONSTANTS
  PAGE_SIZE,          \* bytes in a page
  RSDP_V1_SIZE,       \* bytes of an ACPI 1.0 RSDP
  MAX_CONFIG_TABLES,  \* capacity of the array
  NULL,               \* the null pointer
  Rsdps,              \* RSDPs coreboot may name
  Smbioses,           \* entry points found at the SMBIOS address: [v21, v30]
  Guids,              \* GUIDs the boot loader installs tables for
  LoaderTables        \* addresses of its tables

ASSUME SystemTableAssumption ==
  /\ PAGE_SIZE \in Nat \ {0} /\ RSDP_V1_SIZE \in Nat \ {0}
  /\ MAX_CONFIG_TABLES \in Nat \ {0}
  /\ NULL \notin LoaderTables

VARIABLES
  config_tables,            \* the array, entries past the count included
  config_table_count,
  number_of_table_entries,  \* the system table's copy of the count
  boot_services,            \* the system table's boot services pointer is set
  step,                     \* next step of efi::init
  acpi,                     \* the RSDP that was installed
  call                      \* the boot loader's last call and its status

tableVars == <<config_tables, config_table_count, number_of_table_entries>>

systemVars == <<tableVars, boot_services, step, acpi, call>>

----------------------------------------------------------------------------
(* The array of configuration tables.                                      *)

ConfigurationTable(g, t) == [guid |-> g, table |-> t]

State(ts, n, shown, st) == [tables |-> ts, count |-> n, shown |-> shown, status |-> st]

Current == State(config_tables, config_table_count, number_of_table_entries, "SUCCESS")

Become(s) ==
  /\ config_tables' = s.tables
  /\ config_table_count' = s.count
  /\ number_of_table_entries' = s.shown

Positions(s, g) == {i \in 1 .. s.count : s.tables[i].guid = g}

\* Faulty: stops one entry short.
ShiftDownShort(s, i) ==
  [k \in 1 .. MAX_CONFIG_TABLES |->
     IF i <= k /\ k + 1 < s.count THEN s.tables[k + 1] ELSE s.tables[k]]

\* copy_within: the entries after i move down, the last one also stays.
ShiftDown(s, i) ==
  [k \in 1 .. MAX_CONFIG_TABLES |->
     IF i <= k /\ k < s.count THEN s.tables[k + 1] ELSE s.tables[k]]

AddTable(s, g, t) ==
  IF s.count >= MAX_CONFIG_TABLES THEN [s EXCEPT !.status = "OUT_OF_RESOURCES"]
  ELSE State([s.tables EXCEPT ![s.count + 1] = ConfigurationTable(g, t)],
             s.count + 1, s.count + 1, "SUCCESS")

InstallConfigurationTable(s, g, t) ==
  LET at == Positions(s, g)
      i == CHOOSE k \in at : \A l \in at : k <= l
  IN  IF at # {}
      THEN IF t = NULL
           THEN State(ShiftDown(s, i), s.count - 1, s.count - 1, "SUCCESS")
           ELSE State([s.tables EXCEPT ![i].table = t], s.count, s.shown, "SUCCESS")
      ELSE IF t = NULL THEN [s EXCEPT !.status = "NOT_FOUND"]
      ELSE AddTable(s, g, t)

----------------------------------------------------------------------------
(* The memory of the ACPI tables.                                          *)

\* The root table: the XSDT of a new RSDP if there is one, else the RSDT.
RootOf(rsdp) == IF rsdp.revision >= 2 /\ rsdp.xsdt # NULL THEN rsdp.xsdt ELSE rsdp.rsdt

RsdpTable(rsdp) ==
  [at |-> rsdp.at, len |-> IF rsdp.revision >= 2 THEN rsdp.length ELSE RSDP_V1_SIZE]

\* The tables in the order of the walk.  A root entry is a sequence: the table
\* and, for a FADT, the DSDT and the FACS it names; a null entry is empty.
TablesOf(rsdp) == <<RsdpTable(rsdp), RootOf(rsdp).table>> \o SX!FlattenSeq(RootOf(rsdp).entries)

RegionOf(t) ==
  [start |-> t.at \div PAGE_SIZE, end |-> (t.at + t.len + PAGE_SIZE - 1) \div PAGE_SIZE]

\* add_region for each table: empty ones are left out, so are those past the array.
Collect(tables) ==
  LET some == SelectSeq(tables, LAMBDA t : t.len # 0)
      n == IF Len(some) < MAX_ACPI_REGIONS THEN Len(some) ELSE MAX_ACPI_REGIONS
  IN  [i \in 1 .. n |-> RegionOf(some[i])]

\* Faulty: takes the end of the later region even if it is inside the earlier.
MergeRegionLastEnd(merged, r) ==
  IF merged # <<>> /\ r.start <= merged[Len(merged)].end
  THEN [merged EXCEPT ![Len(merged)].end = r.end]
  ELSE Append(merged, r)

\* One round of the merge loop.
MergeRegion(merged, r) ==
  IF r.start = 0 /\ r.end = 0 THEN merged
  ELSE IF merged = <<>> THEN <<r>>
  ELSE LET last == merged[Len(merged)] IN
       IF r.start <= last.end
       THEN IF r.end > last.end THEN [merged EXCEPT ![Len(merged)].end = r.end] ELSE merged
       ELSE IF Len(merged) < MAX_ACPI_REGIONS THEN Append(merged, r) ELSE merged

MergeRegions(regions) ==
  SX!FoldLeft(MergeRegion, <<>>, SortSeq(regions, LAMBDA r, s : r.start < s.start))

\* mark_acpi_tables_memory: a region that cannot be marked is only logged.
MarkAcpiTables(S, k, rsdp) ==
  IF RootOf(rsdp) = NULL THEN Result(S, k, "SUCCESS")
  ELSE SX!FoldLeft(LAMBDA c, r : MarkAsAcpiReclaim(c.entries, c.map_key, r.start, r.end - r.start),
                   Result(S, k, "SUCCESS"), MergeRegions(Collect(TablesOf(rsdp))))

\* get_memory_type_at says the RSDP is in ACPI memory already.
InAcpiMemory(a) ==
  \E e \in entries : /\ Contains(e, a \div PAGE_SIZE, 1)
                     /\ e.type \in {"AcpiReclaimMemory", "AcpiMemoryNvs"}

----------------------------------------------------------------------------
(* Start-up, in the order of efi::init, then the boot loader's calls.      *)

SystemInit ==
  /\ Init
  /\ config_tables = [i \in 1 .. MAX_CONFIG_TABLES |-> ConfigurationTable(NULL, NULL)]
  /\ config_table_count = 0
  /\ number_of_table_entries = 0
  /\ boot_services = FALSE
  /\ step = "table"
  /\ acpi = NULL
  /\ call = NULL

InitMemory ==
  /\ (\E m \in CorebootMaps : InitFromCoreboot(m)) \/ ReserveRuntimeRegion
  /\ UNCHANGED systemVars

\* system_table::init.
InitTable ==
  /\ phase = "reserved" /\ step = "table"
  /\ boot_services' = TRUE
  /\ step' = "acpi"
  /\ UNCHANGED <<vars, tableVars, acpi, call>>

\* A missing or null address, or one without an RSDP's signature: no tables.
NoAcpiTables ==
  /\ step = "acpi"
  /\ step' = "smbios"
  /\ UNCHANGED <<vars, tableVars, boot_services, acpi, call>>

InstallAcpiTables(rsdp) ==
  /\ step = "acpi"
  /\ IF InAcpiMemory(rsdp.at) THEN UNCHANGED <<entries, map_key>>
     ELSE Return(MarkAcpiTables(entries, map_key, rsdp))
  /\ Become(InstallConfigurationTable(
              IF rsdp.revision >= 2
              THEN InstallConfigurationTable(Current, "ACPI_20", rsdp.at) ELSE Current,
              "ACPI", rsdp.at))
  /\ step' = "smbios"
  /\ acpi' = rsdp
  /\ UNCHANGED <<boot_services_exited, phase, marked, boot_services, call>>

\* Each entry point that was found is installed, the 3.0 one first.
InstallSmbiosTables(smbios) ==
  /\ step = "smbios"
  /\ LET new == IF smbios.v30 = NULL THEN Current
                ELSE InstallConfigurationTable(Current, "SMBIOS3", smbios.v30)
     IN  Become(IF smbios.v21 = NULL THEN new
                ELSE InstallConfigurationTable(new, "SMBIOS", smbios.v21))
  /\ step' = "done"
  /\ UNCHANGED <<vars, boot_services, acpi, call>>

StartBootLoader ==
  /\ step = "done"
  /\ EnterBootServices
  /\ UNCHANGED systemVars

LoaderInstalls(g, t) ==
  /\ phase = "boot" /\ boot_services
  /\ LET s == InstallConfigurationTable(Current, g, t)
     IN  /\ Become(s)
         /\ call' = [guid |-> g, table |-> t, status |-> s.status]
  /\ UNCHANGED <<vars, boot_services, step, acpi>>

LoaderUsesMemory ==
  /\ boot_services
  /\ \/ \E n \in Sizes, t \in AllocTypes : AllocateAnyPages(n, t)
     \/ \E n \in Sizes, t \in AllocTypes, a \in Addresses : AllocateAddress(n, t, a)
     \/ \E n \in Sizes, a \in Addresses : FreePages(a, n)
  /\ UNCHANGED systemVars

\* exit_boot_services with the current key ends in clear_boot_services.
LoaderExits ==
  /\ boot_services
  /\ ExitBootServices(map_key)
  /\ boot_services' = FALSE
  /\ UNCHANGED <<tableVars, step, acpi, call>>

SystemNext ==
  \/ InitMemory
  \/ InitTable
  \/ NoAcpiTables
  \/ \E r \in Rsdps : InstallAcpiTables(r)
  \/ \E s \in Smbioses : InstallSmbiosTables(s)
  \/ StartBootLoader
  \/ \E g \in Guids, t \in LoaderTables \cup {NULL} : LoaderInstalls(g, t)
  \/ LoaderUsesMemory
  \/ LoaderExits

SystemSpec == SystemInit /\ [][SystemNext]_<<vars, systemVars>>

----------------------------------------------------------------------------
(* Properties.                                                             *)

\* What an operating system finds through the system table.
Visible == {config_tables[i] : i \in 1 .. number_of_table_entries}

TableMap ==
  [g \in {e.guid : e \in Visible} |-> (CHOOSE e \in Visible : e.guid = g).table]

\* The map after install_configuration_table(g, t) succeeded.
Expected(m, g, t) ==
  IF t = NULL THEN [h \in DOMAIN m \ {g} |-> m[h]]
  ELSE [h \in DOMAIN m \cup {g} |-> IF h = g THEN t ELSE m[h]]

\* Each call adds, replaces or removes exactly the table it names, as seen
\* through the system table, and one that answers an error changes nothing.
\* No GUID is ever listed twice.
InstallIsExact ==
  [][phase = "boot" /\ call' # call =>
       LET g == call'.guid  t == call'.table IN
       /\ Cardinality(DOMAIN TableMap') = number_of_table_entries'
       /\ TableMap' = IF call'.status = "SUCCESS" THEN Expected(TableMap, g, t) ELSE TableMap
       /\ call'.status = "NOT_FOUND" <=> t = NULL /\ g \notin DOMAIN TableMap
       /\ call'.status = "OUT_OF_RESOURCES" <=>
            /\ t # NULL /\ g \notin DOMAIN TableMap
            /\ Cardinality(DOMAIN TableMap) = MAX_CONFIG_TABLES]_<<vars, systemVars>>

\* The pages that hold a byte of one of the tables.
PagesOfTables(tables) ==
  UNION {{b \div PAGE_SIZE : b \in tables[i].at .. tables[i].at + tables[i].len - 1}
         : i \in DOMAIN tables}

PagesOf(S, types) == UNION {e.start .. End(e) - 1 : e \in {f \in S : f.type \in types}}

AcpiTypes == {"AcpiReclaimMemory", "AcpiMemoryNvs"}

\* The pages up to the first gap around p.
Run(P, p) ==
  {q \in P : \A r \in (IF p <= q THEN p .. q ELSE q .. p) : r \in P}

\* Marking the ACPI tables turns no page into ACPI memory that holds no table.
\* When the tables fit the region array, every table page is ACPI memory after
\* the marking, if the run of table pages around it lies within one descriptor
\* or outside the map: sorting, merging and the splits lose no table
\* (mark_acpi_tables_memory).
TablesAreMarked ==
  [][/\ \/ phase = "cold"
        \/ PagesOf(entries', AcpiTypes) \subseteq
             PagesOf(entries, AcpiTypes) \cup
             (IF acpi' = acpi \/ RootOf(acpi') = NULL THEN {} ELSE PagesOfTables(TablesOf(acpi')))
     /\ (acpi' # acpi /\ RootOf(acpi') # NULL /\ ~InAcpiMemory(acpi'.at)
         /\ Len(TablesOf(acpi')) <= MAX_ACPI_REGIONS) =>
          LET P == PagesOfTables(TablesOf(acpi')) IN
          \A p \in P :
            \/ p \in PagesOf(entries', AcpiTypes)
            \/ /\ \A e \in entries : ~ Run(P, p) \subseteq e.start .. End(e) - 1
               /\ \E e \in entries : Run(P, p) \cap (e.start .. End(e) - 1) # {}]_<<vars, systemVars>>

\* ACPI memory is never given to the boot loader, nor reclaimed at exit.
AcpiPagesStay ==
  [][PagesOf(entries, AcpiTypes) \subseteq PagesOf(entries', AcpiTypes)]_<<vars, systemVars>>
============================================================================
