----------------------- MODULE MemoryAllocatorProofs -----------------------
(***************************************************************************)
(* The invariants and action properties of MemoryAllocator, for every map, *)
(* capacity, request and platform that satisfies its assumptions, provided *)
(* the firmware's image lies in RAM or outside coreboot's map.             *)
(***************************************************************************)
EXTENDS MemoryMapLemmas

\* Memory that can become conventional is plain write-back memory ...
AttrOK(S) ==
  \A e \in S : e.type \in BootServicesTypes \cup {"ConventionalMemory"} => e.attr = {"WB"}

\* ... and conventional memory is coalesced.
Coalesced(S) ==
  \A e, f \in S : e.type = "ConventionalMemory" /\ f.type = "ConventionalMemory"
                    => End(e) # f.start

GoodMap(S) ==
  /\ WellFormed(S)
  /\ AttrOK(S)
  /\ Coalesced(S)
  /\ Cardinality(S) <= MAX_MEMORY_ENTRIES

\* Descriptors start-up can leave when j ACPI ranges were marked.
EarlyBound(j) == MAX_MEMORY_REGIONS + 4 + 2 * j

Imported(m) == MergeEntries({EntryOf(r) : r \in m})

\* The inductive invariant.  Its last four conjuncts follow start-up: only
\* marking ACPI ranges and force-adding leave mergeable neighbours, and they
\* leave room to spare.
IInv ==
  /\ GoodMap(entries)
  /\ map_key \in Nat
  /\ boot_services_exited \in BOOLEAN
  /\ phase \in {"cold", "imported", "reserved", "boot"}
  /\ marked \in 0 .. MAX_ACPI_REGIONS
  /\ phase = "cold" => entries = {} /\ marked = 0
  /\ phase = "imported" => marked = 0 /\ \E m \in CorebootMaps : entries = Imported(m)
  /\ phase = "reserved" => Cardinality(entries) <= EarlyBound(marked)
  /\ phase = "boot" => Merged(entries) \/ Cardinality(entries) <= EarlyBound(MAX_ACPI_REGIONS)

\* A well-formed map whose boot-services and conventional memory is plain
\* write-back memory is good once merged.
LEMMA MergeGood ==
  ASSUME NEW S, WellFormed(S), AttrOK(S), Cardinality(S) <= MAX_MEMORY_ENTRIES
  PROVE  GoodMap(MergeEntries(S)) /\ Merged(MergeEntries(S))
<1> DEFINE M == MergeEntries(S)
<1>1. WellFormed(M) /\ Merged(M) /\ Cardinality(M) <= Cardinality(S)
  BY MergeWellFormed
<1>2. AttrOK(M)
  <2>1. SUFFICES ASSUME NEW m \in M, m.type \in BootServicesTypes \cup {"ConventionalMemory"}
                 PROVE  m.attr = {"WB"}
    BY DEF AttrOK
  <2>2. PICK h \in S, t \in S : MaximalRun(S, h, t) /\ m = RunEntry(h, t)
    BY MergeMembers
  <2>3. m.type = h.type /\ m.attr = h.attr
    BY <2>2 DEF RunEntry, Descriptor
  <2>4. QED BY <2>1, <2>3 DEF AttrOK
<1>3. Coalesced(M)
  <2>1. SUFFICES ASSUME NEW e \in M, NEW f \in M, e.type = "ConventionalMemory",
                        f.type = "ConventionalMemory", End(e) = f.start
                 PROVE  FALSE
    BY DEF Coalesced
  <2>2. e.attr = f.attr
    BY <1>2, <2>1 DEF AttrOK
  <2>3. ~ \E g \in M : e.start < g.start /\ g.start < f.start
    BY <1>1, <2>1 DEF WellFormed, Entry, End
  <2>4. Mergeable(M, e, f)
    BY <2>1, <2>2, <2>3 DEF Mergeable
  <2>5. QED BY <1>1, <2>4 DEF Merged
<1>4. Cardinality(M) <= MAX_MEMORY_ENTRIES
  <2>1. Cardinality(M) \in Nat /\ Cardinality(S) \in Nat
    BY <1>1, FS_CardinalityType DEF WellFormed
  <2>2. QED BY <1>1, <2>1, CapacityAssumption
<1>5. QED BY <1>1, <1>2, <1>3, <1>4 DEF GoodMap

\* What a service that retypes pages does: some n pages of one descriptor e
\* become type t, by an allocation from conventional memory, by an allocation
\* inside the loader's memory, or by a free.
Legal(e, t, at) ==
  \/ e.type = "ConventionalMemory" /\ at = RuntimeAttribute(t, e.attr)
  \/ e.type \in LoaderTypes /\ at = e.attr
  \/ /\ e.type \in BootServicesTypes \cup {"ConventionalMemory"}
     /\ t = "ConventionalMemory" /\ at = e.attr

SplitStep(S, R, e, a, n, t, at) ==
  /\ e \in S /\ Contains(e, a, n)
  /\ Legal(e, t, at)
  /\ Cardinality((S \ {e}) \cup Split(e, a, n, t, at)) <= MAX_MEMORY_ENTRIES
  /\ R = MergeEntries((S \ {e}) \cup Split(e, a, n, t, at))

\* The attribute carve_out computes is an attribute.
LEMMA RuntimeAttributeType ==
  ASSUME NEW t, NEW at \in SUBSET Attributes
  PROVE  RuntimeAttribute(t, at) \in SUBSET Attributes
BY DEF RuntimeAttribute, Attributes

\* Retyping pages keeps the map good.
LEMMA SplitStepGood ==
  ASSUME NEW S, GoodMap(S), NEW R, NEW e, NEW a \in Nat, NEW n \in Nat \ {0},
         NEW t \in MemoryTypes, NEW at, SplitStep(S, R, e, a, n, t, at)
  PROVE  /\ GoodMap(R) /\ Merged(R) /\ at \in SUBSET Attributes
         /\ Cardinality(R) <= Cardinality(S) + 2
         /\ Retyped(S, R, a, n, t, at)
<1> DEFINE P == Split(e, a, n, t, at)
           Q == (S \ {e}) \cup P
<1>0. /\ e \in S /\ Contains(e, a, n) /\ WellFormed(S) /\ Legal(e, t, at)
      /\ Cardinality(Q) <= MAX_MEMORY_ENTRIES
      /\ R = MergeEntries(Q)
      /\ e.attr \in SUBSET Attributes
  BY DEF SplitStep, GoodMap, WellFormed, Entry
<1>1. at \in SUBSET Attributes
  BY <1>0, RuntimeAttributeType DEF Legal
<1>2. /\ WellFormed(Q)
      /\ Cardinality(Q) = Cardinality(S) - 1 + Cardinality(P)
      /\ Retyped(S, Q, a, n, t, at)
      /\ Descriptor(a, n, t, at) \in Q
      /\ \A f \in Q : f \in S \/ f = Descriptor(a, n, t, at)
                      \/ (f.type = e.type /\ f.attr = e.attr)
  <2>1. e \in S /\ Contains(e, a, n) /\ WellFormed(S)
    BY <1>0
  <2>2. SplitFacts(S, e, a, n, t, at)
    BY <1>1, <2>1, SplitMap
  <2>3. QED BY <2>2 DEF SplitFacts
<1>3. AttrOK(Q)
  <2>1. SUFFICES ASSUME NEW f \in Q, f.type \in BootServicesTypes \cup {"ConventionalMemory"}
                 PROVE  f.attr = {"WB"}
    BY DEF AttrOK
  <2>2. CASE f \in S \/ (f.type = e.type /\ f.attr = e.attr)
    BY <1>0, <2>1, <2>2 DEF GoodMap, AttrOK
  <2>3. CASE f = Descriptor(a, n, t, at)
    <3>1. f.type = t /\ f.attr = at
      BY <2>3 DEF Descriptor
    <3>2. e.attr = {"WB"}
      BY <1>0 DEF GoodMap, AttrOK, Legal, BootServicesTypes
    <3>3. QED BY <1>0, <2>1, <3>1, <3>2
          DEF Legal, RuntimeAttribute, BootServicesTypes, LoaderTypes
  <2>4. QED BY <1>2, <2>2, <2>3
<1>7. Cardinality(P) \in 1 .. 3
  BY <1>0, <1>1, SplitPieces DEF WellFormed
<1> HIDE DEF P, Q
<1>4. GoodMap(R) /\ Merged(R)
  BY <1>0, <1>2, <1>3, MergeGood
<1>5. Retyped(S, R, a, n, t, at)
  BY <1>0, <1>2, MergeKeepsPages DEF Retyped
<1>6. Cardinality(R) <= Cardinality(S) + 2
  <2>1. Cardinality(R) <= Cardinality(Q)
    BY <1>0, <1>2, MergeWellFormed
  <2>2. Cardinality(R) \in Nat /\ Cardinality(S) \in Nat
    BY <1>0, <1>4, FS_CardinalityType DEF WellFormed, GoodMap
  <2>3. QED BY <1>2, <1>7, <2>1, <2>2
<1>8. QED BY <1>1, <1>4, <1>5, <1>6

\* c is a failure that changed nothing, for want of room or of such memory, or
\* a success that retyped conventional memory.
CarvedOut(S, k, a, n, t, c) ==
  \/ \E st : /\ st # "SUCCESS" /\ c = Result(S, k, st)
             /\ \/ Cardinality(S) + 2 > MAX_MEMORY_ENTRIES
                \/ a + n >= ADDR_SPACE
                \/ ~ \E e \in S : e.type = "ConventionalMemory" /\ Contains(e, a, n)
  \/ \E e \in S : \E R : /\ SplitStep(S, R, e, a, n, t, RuntimeAttribute(t, e.attr))
                     /\ e.type = "ConventionalMemory"
                     /\ c = Result(R, k + 1, "SUCCESS")

\* c left the map alone or retyped memory of the loader.
Reallocated(S, k, a, n, t, c) ==
  \/ \E st : c = Result(S, k, st)
  \/ \E e \in S : \E R : /\ SplitStep(S, R, e, a, n, t, e.attr)
                     /\ e.type \in LoaderTypes
                     /\ c = Result(R, k + 1, "SUCCESS")

\* carve_out fails and changes nothing, or retypes conventional memory.
LEMMA CarveOutResult ==
  ASSUME NEW S, GoodMap(S), NEW k, NEW a \in Nat, NEW n \in Nat \ {0}, NEW t \in MemoryTypes,
         Cardinality(S) + 2 > MAX_MEMORY_ENTRIES => Merged(S)
  PROVE  CarvedOut(S, k, a, n, t, CarveOut(S, k, a, n, t))
<1> DEFINE found == {e \in S : e.type = "ConventionalMemory" /\ Contains(e, a, n)}
           c == CarveOut(S, k, a, n, t)
<1>1. CASE a + n >= ADDR_SPACE
  <2>1. c = Result(S, k, "INVALID_PARAMETER")
    BY <1>1 DEF CarveOut
  <2>2. QED BY <1>1, <2>1 DEF CarvedOut
<1>2. CASE ~(a + n >= ADDR_SPACE) /\ found = {}
  <2>1. c = Result(S, k, "NOT_FOUND")
    BY <1>2 DEF CarveOut
  <2>2. QED BY <1>2, <2>1 DEF CarvedOut
<1>3. CASE ~(a + n >= ADDR_SPACE) /\ found # {}
  <2> DEFINE e == First(found)
             P == Split(e, a, n, t, RuntimeAttribute(t, e.attr))
             R == MergeEntries((S \ {e}) \cup P)
  <2>0. WellFormed(S)
    BY DEF GoodMap
  <2>1. e \in found
    BY <1>3, <2>0, FirstMember
  <2>2. e \in S /\ e.type = "ConventionalMemory" /\ Contains(e, a, n)
    BY <2>1
  <2>3. c = ReplaceEntry(S, k, e, P, "OUT_OF_RESOURCES")
    BY <1>3 DEF CarveOut
  <2>4. RuntimeAttribute(t, e.attr) \in SUBSET Attributes
    BY <2>0, <2>2, RuntimeAttributeType DEF WellFormed, Entry
  <2> HIDE DEF e, c
  <2>5. \/ /\ c = Result(S, k, "OUT_OF_RESOURCES")
           /\ Cardinality(S) + 2 > MAX_MEMORY_ENTRIES
        \/ /\ c = Result(MergeEntries((S \ {e}) \cup P), k + 1, "SUCCESS")
           /\ Cardinality((S \ {e}) \cup P) <= MAX_MEMORY_ENTRIES
    <3>1. \/ /\ ReplaceEntry(S, k, e, P, "OUT_OF_RESOURCES") = Result(S, k, "OUT_OF_RESOURCES")
             /\ Cardinality(S) + 2 > MAX_MEMORY_ENTRIES
          \/ /\ ReplaceEntry(S, k, e, P, "OUT_OF_RESOURCES")
                   = Result(MergeEntries((S \ {e}) \cup P), k + 1, "SUCCESS")
             /\ Cardinality((S \ {e}) \cup P) <= MAX_MEMORY_ENTRIES
      BY <2>0, <2>2, <2>4, ReplaceEntryResult
    <3>2. QED BY <2>3, <3>1
  <2>6. CASE c = Result(S, k, "OUT_OF_RESOURCES") /\ Cardinality(S) + 2 > MAX_MEMORY_ENTRIES
    BY <2>6 DEF c, CarvedOut
  <2>7. CASE /\ c = Result(R, k + 1, "SUCCESS")
             /\ Cardinality((S \ {e}) \cup P) <= MAX_MEMORY_ENTRIES
    <3>1. SplitStep(S, R, e, a, n, t, RuntimeAttribute(t, e.attr))
      BY <2>2, <2>7 DEF SplitStep, Legal
    <3>2. QED BY <2>2, <2>7, <3>1 DEF c, CarvedOut
  <2>8. QED BY <2>5, <2>6, <2>7
<1>4. QED BY <1>1, <1>2, <1>3

\* So does try_reallocate_loader_region, with the loader's memory.
LEMMA ReallocateResult ==
  ASSUME NEW S, GoodMap(S), NEW k, NEW a \in Nat, NEW n \in Nat \ {0}, NEW t \in MemoryTypes,
         Cardinality(S) + 2 > MAX_MEMORY_ENTRIES => Merged(S)
  PROVE  Reallocated(S, k, a, n, t, TryReallocateLoaderRegion(S, k, a, n, t))
<1> DEFINE found == {e \in S : e.type \in LoaderTypes /\ Contains(e, a, n)}
           e == First(found)
           c == TryReallocateLoaderRegion(S, k, a, n, t)
<1>1. CASE a + n >= ADDR_SPACE \/ found = {}
  <2>1. c = Result(S, k, "NOT_FOUND")
    BY <1>1 DEF TryReallocateLoaderRegion
  <2>2. QED BY <2>1 DEF Reallocated
<1>2. CASE ~(a + n >= ADDR_SPACE \/ found = {}) /\ e.type = t
  <2>1. c = Result(S, k, "SUCCESS")
    BY <1>2 DEF TryReallocateLoaderRegion
  <2>2. QED BY <2>1 DEF Reallocated
<1>3. CASE ~(a + n >= ADDR_SPACE \/ found = {}) /\ e.type # t
  <2> DEFINE at == e.attr
             P == Split(e, a, n, t, at)
             R == MergeEntries((S \ {e}) \cup P)
  <2>0. WellFormed(S)
    BY DEF GoodMap
  <2>1. e \in found
    BY <1>3, <2>0, FirstMember
  <2>2. e \in S /\ e.type \in LoaderTypes /\ Contains(e, a, n)
    BY <2>1
  <2>3. c = ReplaceEntry(S, k, e, P, "NOT_FOUND")
    BY <1>3 DEF TryReallocateLoaderRegion
  <2>4. at \in SUBSET Attributes
    BY <2>0, <2>2 DEF WellFormed, Entry
  <2> HIDE DEF e, c, at
  <2>5. \/ /\ c = Result(S, k, "NOT_FOUND")
           /\ Cardinality(S) + 2 > MAX_MEMORY_ENTRIES
        \/ /\ c = Result(MergeEntries((S \ {e}) \cup P), k + 1, "SUCCESS")
           /\ Cardinality((S \ {e}) \cup P) <= MAX_MEMORY_ENTRIES
    <3>1. \/ /\ ReplaceEntry(S, k, e, P, "NOT_FOUND") = Result(S, k, "NOT_FOUND")
             /\ Cardinality(S) + 2 > MAX_MEMORY_ENTRIES
          \/ /\ ReplaceEntry(S, k, e, P, "NOT_FOUND")
                   = Result(MergeEntries((S \ {e}) \cup P), k + 1, "SUCCESS")
             /\ Cardinality((S \ {e}) \cup P) <= MAX_MEMORY_ENTRIES
      BY <2>0, <2>2, <2>4, ReplaceEntryResult
    <3>2. QED BY <2>3, <3>1
  <2>6. CASE c = Result(S, k, "NOT_FOUND")
    BY <2>6 DEF c, Reallocated
  <2>7. CASE /\ c = Result(R, k + 1, "SUCCESS")
             /\ Cardinality((S \ {e}) \cup P) <= MAX_MEMORY_ENTRIES
    <3>1. SplitStep(S, R, e, a, n, t, e.attr)
      BY <2>2, <2>7 DEF SplitStep, Legal, at
    <3>2. QED BY <2>2, <2>7, <3>1 DEF c, Reallocated
  <2>8. QED BY <2>5, <2>6, <2>7
<1>4. QED BY <1>1, <1>2, <1>3

----------------------------------------------------------------------------
(* Start-up.                                                               *)

AllConventional(S, a, n) == \A p \in a .. a + n - 1 : PageHas(S, p, "ConventionalMemory")

Undescribed(S, a, n) == \A p \in a .. a + n - 1 : ~ \E e \in S : PageIn(e, p)

\* Where the firmware is linked: its code and its data are disjoint, and each
\* lies in memory that coreboot reports as RAM or does not report at all.
PayloadFits ==
  /\ \A m \in CorebootMaps, r \in {RuntimeCode, RuntimeData} :
       \/ AllConventional(Imported(m), r.start, r.pages)
       \/ Undescribed(Imported(m), r.start, r.pages)
  /\ \/ RuntimeCode.start + RuntimeCode.pages <= RuntimeData.start
     \/ RuntimeData.start + RuntimeData.pages <= RuntimeCode.start

\* A range of conventional pages lies in one descriptor.
LEMMA FreeRange ==
  ASSUME NEW S, GoodMap(S), NEW a \in Nat, NEW n \in Nat \ {0}, AllConventional(S, a, n)
  PROVE  \E e \in S : e.type = "ConventionalMemory" /\ Contains(e, a, n)
<1>0. /\ WellFormed(S)
      /\ \A g \in S : g.start \in Nat /\ g.pages \in Nat /\ g.pages > 0
  BY DEF GoodMap, WellFormed, Entry
<1>1. a \in a .. a + n - 1
  OBVIOUS
<1>2. PICK e \in S : e.type = "ConventionalMemory" /\ PageIn(e, a)
  BY <1>1 DEF AllConventional, PageHas
<1>3. SUFFICES ASSUME End(e) < a + n PROVE FALSE
  BY <1>0, <1>2 DEF Contains, PageIn, End
<1>4. End(e) \in a .. a + n - 1
  BY <1>0, <1>2, <1>3 DEF PageIn, End
<1>5. PICK f \in S : f.type = "ConventionalMemory" /\ PageIn(f, End(e))
  BY <1>4 DEF AllConventional, PageHas
<1>6. e # f
  BY <1>0, <1>5 DEF PageIn, End
<1>7. End(e) <= f.start \/ End(f) <= e.start
  BY <1>0, <1>6 DEF WellFormed
<1>8. End(e) = f.start
  BY <1>0, <1>5, <1>7 DEF PageIn, End
<1>9. QED BY <1>2, <1>5, <1>8 DEF GoodMap, Coalesced

\* A descriptor of undescribed pages can be added to a map.
LEMMA AddEntry ==
  ASSUME NEW S, GoodMap(S), Cardinality(S) + 1 <= MAX_MEMORY_ENTRIES,
         NEW a \in Nat, NEW n \in Nat \ {0}, a + n < ADDR_SPACE,
         NEW t \in MemoryTypes \ (BootServicesTypes \cup {"ConventionalMemory"}),
         NEW at \in SUBSET Attributes, Undescribed(S, a, n)
  PROVE  /\ GoodMap(S \cup {Descriptor(a, n, t, at)})
         /\ Cardinality(S \cup {Descriptor(a, n, t, at)}) = Cardinality(S) + 1
<1> DEFINE d == Descriptor(a, n, t, at)
<1>0. /\ WellFormed(S) /\ S \subseteq Entry /\ IsFiniteSet(S)
      /\ \A g \in S : g.start \in Nat /\ g.pages \in Nat /\ g.pages > 0
  BY DEF GoodMap, WellFormed, Entry
<1>1. /\ d \in Entry /\ End(d) = a + n /\ d.start = a /\ d.type = t
  BY DEF Descriptor, Entry, End
<1>2. ASSUME NEW f \in S PROVE End(f) <= a \/ a + n <= f.start
  <2>1. CASE f.start <= a
    <3>1. a \in a .. a + n - 1
      OBVIOUS
    <3>2. ~ PageIn(f, a)
      BY <3>1 DEF Undescribed
    <3>3. QED BY <1>0, <2>1, <3>2 DEF PageIn, End
  <2>2. CASE a < f.start /\ f.start < a + n
    <3>1. f.start \in a .. a + n - 1
      BY <1>0, <2>2
    <3>2. PageIn(f, f.start)
      BY <1>0 DEF PageIn, End
    <3>3. QED BY <3>1, <3>2 DEF Undescribed
  <2>3. QED BY <1>0, <2>1, <2>2
<1>3. d \notin S
  BY <1>0, <1>1, <1>2 DEF End
<1> HIDE DEF d
<1>4. /\ IsFiniteSet(S \cup {d})
      /\ Cardinality(S \cup {d}) = IF d \in S THEN Cardinality(S) ELSE Cardinality(S) + 1
  BY <1>0, FS_AddElement
<1>5. WellFormed(S \cup {d})
  <2>1. \A e, f \in S : e # f => End(e) <= f.start \/ End(f) <= e.start
    BY <1>0 DEF WellFormed
  <2>2. \A e, f \in S \cup {d} : e # f => End(e) <= f.start \/ End(f) <= e.start
    BY <1>1, <1>2, <2>1
  <2>3. QED BY <1>0, <1>1, <1>4, <2>2 DEF WellFormed
<1>6. AttrOK(S \cup {d}) /\ Coalesced(S \cup {d})
  BY <1>1 DEF GoodMap, AttrOK, Coalesced
<1>7. QED BY <1>3, <1>4, <1>5, <1>6 DEF GoodMap, d

\* Outside a range the pages are described as before.
SameElsewhere(S, R, a, n) ==
  \A p \in Nat \ (a .. a + n - 1) :
    /\ PageHas(R, p, "ConventionalMemory") <=> PageHas(S, p, "ConventionalMemory")
    /\ (\E e \in R : PageIn(e, p)) <=> (\E e \in S : PageIn(e, p))

\* Retyping a range leaves the other pages alone.
LEMMA RetypedElsewhere ==
  ASSUME NEW S, WellFormed(S), NEW R, WellFormed(R), NEW a \in Nat, NEW n \in Nat \ {0}, NEW t, NEW at,
         Retyped(S, R, a, n, t, at)
  PROVE  SameElsewhere(S, R, a, n)
<1>1. SUFFICES ASSUME NEW p \in Nat \ (a .. a + n - 1)
               PROVE  /\ PageHas(R, p, "ConventionalMemory")
                           <=> PageHas(S, p, "ConventionalMemory")
                      /\ (\E e \in R : PageIn(e, p)) <=> (\E e \in S : PageIn(e, p))
  BY DEF SameElsewhere
<1>2. \A t2 \in MemoryTypes, at2 \in SUBSET Attributes :
        Covers(R, p, t2, at2) <=> Covers(S, p, t2, at2)
  BY DEF Retyped
<1>0. \A e \in R \cup S : e.type \in MemoryTypes /\ e.attr \in SUBSET Attributes
  BY DEF WellFormed, Entry
<1>3. \A e \in R : PageIn(e, p) => Covers(R, p, e.type, e.attr)
  BY DEF Covers
<1>4. \A e \in S : PageIn(e, p) => Covers(S, p, e.type, e.attr)
  BY DEF Covers
<1>5. \A t2, at2 : Covers(S, p, t2, at2) => \E e \in S : PageIn(e, p) /\ e.type = t2
  BY DEF Covers
<1>6. \A t2, at2 : Covers(R, p, t2, at2) => \E e \in R : PageIn(e, p) /\ e.type = t2
  BY DEF Covers
<1>7. QED BY <1>0, <1>2, <1>3, <1>4, <1>5, <1>6 DEF PageHas

\* reserve_runtime_region, for one range that lies in RAM or outside the map.
LEMMA ReserveResult ==
  ASSUME NEW S, GoodMap(S), Cardinality(S) + 2 <= MAX_MEMORY_ENTRIES, NEW k \in Nat,
         NEW r \in PageRange, r.pages > 0, r.start + r.pages < ADDR_SPACE,
         NEW t \in RuntimeTypes,
         AllConventional(S, r.start, r.pages) \/ Undescribed(S, r.start, r.pages)
  PROVE  LET c == ReserveOrForce(S, k, r, t) IN
         /\ GoodMap(c.entries) /\ Cardinality(c.entries) <= Cardinality(S) + 2
         /\ c.map_key \in Nat /\ c.map_key > k
         /\ SameElsewhere(S, c.entries, r.start, r.pages)
<1> DEFINE a == r.start
           n == r.pages
           o == CarveOut(S, k, a, n, t)
           c == ReserveOrForce(S, k, r, t)
<1>0. /\ a \in Nat /\ n \in Nat \ {0} /\ t \in MemoryTypes /\ a + n < ADDR_SPACE
      /\ t \notin BootServicesTypes \cup {"ConventionalMemory"}
      /\ Cardinality(S) \in Nat /\ WellFormed(S)
      /\ MAX_MEMORY_ENTRIES \in Nat /\ ADDR_SPACE \in Nat
  BY FS_CardinalityType, CapacityAssumption, AddressAssumption
     DEF PageRange, MemoryTypes, RuntimeTypes, BootServicesTypes, LoaderTypes, GoodMap, WellFormed
<1>1. c = IF o.status = "SUCCESS" THEN o ELSE ForceAddRegion(o.entries, o.map_key, a, n, t)
  BY DEF ReserveOrForce
<1> HIDE DEF a, n, o, c
<1>2. CarvedOut(S, k, a, n, t, o)
  <2>1. Cardinality(S) + 2 > MAX_MEMORY_ENTRIES => Merged(S)
    BY <1>0
  <2>2. QED BY <1>0, <2>1, CarveOutResult DEF o
<1>3. CASE \E e \in S : \E R : /\ SplitStep(S, R, e, a, n, t, RuntimeAttribute(t, e.attr))
                           /\ o = Result(R, k + 1, "SUCCESS")
  <2>0. PICK e \in S : \E R : /\ SplitStep(S, R, e, a, n, t, RuntimeAttribute(t, e.attr))
                              /\ o = Result(R, k + 1, "SUCCESS")
    BY <1>3
  <2>1. PICK R : /\ SplitStep(S, R, e, a, n, t, RuntimeAttribute(t, e.attr))
                 /\ o = Result(R, k + 1, "SUCCESS")
    BY <2>0
  <2> DEFINE at == RuntimeAttribute(t, e.attr)
  <2>2. SplitStep(S, R, e, a, n, t, at)
    BY <2>1
  <2> HIDE DEF at
  <2>3. /\ GoodMap(R) /\ Cardinality(R) <= Cardinality(S) + 2
        /\ Retyped(S, R, a, n, t, at)
    BY <1>0, <2>2, SplitStepGood
  <2>4. SameElsewhere(S, R, a, n)
    BY <1>0, <2>3, RetypedElsewhere DEF GoodMap
  <2>5. o.status = "SUCCESS" /\ o.entries = R /\ o.map_key = k + 1
    BY <2>1 DEF Result
  <2>6. QED BY <1>1, <2>3, <2>4, <2>5 DEF a, n, c
<1>4. CASE /\ ~ \E e \in S : e.type = "ConventionalMemory" /\ Contains(e, a, n)
           /\ \E st : st # "SUCCESS" /\ o = Result(S, k, st)
  <2> DEFINE at == RuntimeAttribute(t, {"WB"})
             R == S \cup {Descriptor(a, n, t, at)}
  <2>1. o.status # "SUCCESS" /\ o.entries = S /\ o.map_key = k
    BY <1>4 DEF Result
  <2>2. Undescribed(S, a, n)
    BY <1>0, <1>4, FreeRange DEF a, n
  <2>3. at \in SUBSET Attributes
    BY RuntimeAttributeType DEF Attributes
  <2>4. c = Result(R, k + 1, "SUCCESS")
    BY <1>0, <1>1, <2>1 DEF ForceAddRegion
  <2> HIDE DEF at
  <2>5. GoodMap(R) /\ Cardinality(R) = Cardinality(S) + 1
    BY <1>0, <2>2, <2>3, AddEntry
  <2>6. SameElsewhere(S, R, a, n)
    BY <1>0 DEF SameElsewhere, PageHas, PageIn, Descriptor, End
  <2>7. c.entries = R /\ c.map_key = k + 1
    BY <2>4 DEF Result
  <2> HIDE DEF R
  <2>8. QED BY <1>0, <2>5, <2>6, <2>7 DEF a, n, c
<1>5. QED BY <1>0, <1>2, <1>3, <1>4 DEF CarvedOut

\* mark_as_acpi_reclaim, with room for two more descriptors.
LEMMA MarkResult ==
  ASSUME NEW S, GoodMap(S), Cardinality(S) + 2 <= MAX_MEMORY_ENTRIES, NEW k \in Nat,
         NEW a \in Nat, NEW n \in Nat \ {0}
  PROVE  LET c == MarkAsAcpiReclaim(S, k, a, n) IN
         /\ GoodMap(c.entries) /\ Cardinality(c.entries) <= Cardinality(S) + 2
         /\ c.map_key \in Nat
         /\ c.entries # S => c.map_key > k
<1> DEFINE T == "AcpiReclaimMemory"
           found == {e \in S : Contains(e, a, n)}
           e == First(found)
           P == Split(e, a, n, T, e.attr)
           c == MarkAsAcpiReclaim(S, k, a, n)
           fresh == Descriptor(a, n, T, {"WB"})
           room == MAX_MEMORY_ENTRIES - (Cardinality(S) - 1)
<1>0. /\ WellFormed(S) /\ Cardinality(S) \in Nat /\ MAX_MEMORY_ENTRIES \in Nat
      /\ ADDR_SPACE \in Nat /\ T \in MemoryTypes
      /\ T \notin BootServicesTypes \cup {"ConventionalMemory"}
      /\ \A g \in S : g.start \in Nat /\ g.pages \in Nat /\ g.pages > 0
  BY FS_CardinalityType, CapacityAssumption, AddressAssumption
     DEF MemoryTypes, BootServicesTypes, LoaderTypes, GoodMap, WellFormed, Entry
<1>1. CASE \E st : c = Result(S, k, st)
  BY <1>0, <1>1 DEF Result
<1>2. CASE /\ a + n < ADDR_SPACE
           /\ ~ \E f \in S : Overlaps(f, a, n)
           /\ c = Result(S \cup {fresh}, k + 1, "SUCCESS")
  <2>1. Undescribed(S, a, n)
    BY <1>0, <1>2 DEF Undescribed, Overlaps, PageIn, End
  <2>2. {"WB"} \in SUBSET Attributes
    BY DEF Attributes
  <2>3. GoodMap(S \cup {fresh}) /\ Cardinality(S \cup {fresh}) = Cardinality(S) + 1
    BY <1>0, <1>2, <2>1, <2>2, AddEntry
  <2>4. c.entries = S \cup {fresh} /\ c.map_key = k + 1
    BY <1>2 DEF Result
  <2> HIDE DEF fresh, c
  <2>5. QED BY <1>0, <2>3, <2>4 DEF c
<1>3. CASE found # {} /\ c = IF Cardinality(P) > room
                             THEN Result((S \ {e}) \cup {p \in P : Index(P, p) < room},
                                         k, "OUT_OF_RESOURCES")
                             ELSE Result((S \ {e}) \cup P, k + 1, "SUCCESS")
  <2> DEFINE Q == (S \ {e}) \cup P
             d == Descriptor(a, n, T, e.attr)
  <2>1. e \in S /\ Contains(e, a, n)
    <3>1. e \in found
      BY <1>0, <1>3, FirstMember
    <3>2. QED BY <3>1
  <2> HIDE DEF e, c
  <2>2. e.attr \in SUBSET Attributes /\ e \in Entry /\ End(e) < ADDR_SPACE
    BY <1>0, <2>1 DEF WellFormed, Entry
  <2>3. SplitFacts(S, e, a, n, T, e.attr)
    BY <1>0, <2>1, <2>2, SplitMap
  <2>4. /\ WellFormed(Q) /\ Cardinality(Q) = Cardinality(S) - 1 + Cardinality(P) /\ d \in Q
        /\ \A f \in Q : f \in S \/ f = d \/ (f.type = e.type /\ f.attr = e.attr)
    BY <2>3 DEF SplitFacts
  <2>5. Cardinality(P) \in 1 .. 3
    BY <1>0, <2>1, <2>2, SplitPieces
  <2>6. c.entries = Q /\ c.map_key = k + 1
    BY <1>0, <1>3, <2>5 DEF Result
  <2>7. AttrOK(Q)
    BY <1>0, <2>1, <2>4 DEF GoodMap, AttrOK, Descriptor
  <2>8. Coalesced(Q)
    <3>1. SUFFICES ASSUME NEW f \in Q, NEW g \in Q, f.type = "ConventionalMemory",
                          g.type = "ConventionalMemory", End(f) = g.start
                   PROVE  FALSE
      BY DEF Coalesced
    <3>2. d.start = a /\ End(d) = a + n /\ d.type = T
      BY DEF Descriptor, End
    <3>3. f # d /\ g # d
      BY <3>1, <3>2
    <3>4. \A x \in Q : \/ x \in S /\ x # e
                       \/ x = d
                       \/ /\ x.type = e.type /\ x.start = e.start /\ End(x) = a
                       \/ /\ x.type = e.type /\ x.start = a + n /\ End(x) = End(e)
      BY <1>0, <2>1 DEF Split, Descriptor, End
    <3>5. CASE End(f) = a
      BY <2>4, <3>1, <3>2, <3>3, <3>5, SameStart, Zenon
    <3>6. CASE g.start = a + n
      <4>1. f.start \in Nat /\ f.pages \in Nat /\ f.pages > 0
        BY <2>4 DEF WellFormed, Entry
      <4>2. End(f) <= d.start \/ End(d) <= f.start
        BY <2>4, <3>3 DEF WellFormed
      <4>3. QED BY <3>1, <3>2, <3>6, <4>1, <4>2 DEF End
    <3>7. CASE f \in S /\ g \in S
      BY <3>1, <3>7 DEF GoodMap, Coalesced
    <3>8. CASE f \in S /\ g.type = e.type /\ g.start = e.start
      BY <2>1, <3>1, <3>8 DEF GoodMap, Coalesced
    <3>9. CASE f.type = e.type /\ End(f) = End(e) /\ g \in S
      BY <2>1, <3>1, <3>9 DEF GoodMap, Coalesced
    <3>10. CASE End(f) = End(e) /\ g.start = e.start
      BY <1>0, <2>1, <3>1, <3>10 DEF End
    <3>11. QED BY <3>3, <3>4, <3>5, <3>6, <3>7, <3>8, <3>9, <3>10
  <2> HIDE DEF Q, P
  <2>9. QED BY <1>0, <2>4, <2>5, <2>6, <2>7, <2>8 DEF GoodMap, c
<1>4. QED
  <2>1. \/ \E st : c = Result(S, k, st)
        \/ /\ a + n < ADDR_SPACE
           /\ ~ \E f \in S : Overlaps(f, a, n)
           /\ c = Result(S \cup {fresh}, k + 1, "SUCCESS")
        \/ found # {} /\ c = IF Cardinality(P) > room
                             THEN Result((S \ {e}) \cup {p \in P : Index(P, p) < room},
                                         k, "OUT_OF_RESOURCES")
                             ELSE Result((S \ {e}) \cup P, k + 1, "SUCCESS")
    <3>1. c = IF a + n >= ADDR_SPACE THEN Result(S, k, "INVALID_PARAMETER")
              ELSE IF found = {} THEN
                     IF \E f \in S : Overlaps(f, a, n)
                     THEN Result(S, k, "INVALID_PARAMETER")
                     ELSE IF Cardinality(S) >= MAX_MEMORY_ENTRIES
                     THEN Result(S, k, "OUT_OF_RESOURCES")
                     ELSE Result(S \cup {fresh}, k + 1, "SUCCESS")
              ELSE IF e.type \in {"AcpiReclaimMemory", "AcpiMemoryNvs"}
              THEN Result(S, k, "SUCCESS")
              ELSE IF Cardinality(P) > room
              THEN Result((S \ {e}) \cup {p \in P : Index(P, p) < room},
                          k, "OUT_OF_RESOURCES")
              ELSE Result((S \ {e}) \cup P, k + 1, "SUCCESS")
      BY DEF MarkAsAcpiReclaim
    <3> HIDE DEF c, P, e, found, room, fresh
    <3>2. QED BY <1>0, <3>1
  <2>2. QED BY <1>1, <1>2, <1>3, <2>1, Zenon

\* A map built descriptor by descriptor from another finite set.
LEMMA ImageOfMap ==
  ASSUME NEW S, IsFiniteSet(S), NEW T, NEW f \in Surjection(S, T), T \subseteq Entry,
         \A x \in S : End(f[x]) < ADDR_SPACE,
         \A x, y \in S : x # y => End(f[x]) <= f[y].start \/ End(f[y]) <= f[x].start
  PROVE  WellFormed(T) /\ Cardinality(T) <= Cardinality(S)
<1>1. IsFiniteSet(T) /\ Cardinality(T) <= Cardinality(S)
  BY FS_Surjection
<1>2. \A e \in T : \E x \in S : f[x] = e
  BY DEF Surjection
<1>3. QED BY <1>1, <1>2 DEF WellFormed

\* init_from_coreboot builds a good map.
LEMMA ImportGood ==
  ASSUME NEW m \in CorebootMaps
  PROVE  /\ GoodMap(Imported(m)) /\ Merged(Imported(m))
         /\ Cardinality(Imported(m)) <= MAX_MEMORY_REGIONS
<1> DEFINE T == {EntryOf(r) : r \in m}
           f == [r \in m |-> EntryOf(r)]
<1>0. /\ m \subseteq CbRegion /\ IsFiniteSet(m) /\ Cardinality(m) <= MAX_MEMORY_REGIONS
      /\ \A r \in m : r.start + r.pages < ADDR_SPACE
      /\ \A r, s \in m :
           r # s => r.start + r.pages <= s.start \/ s.start + s.pages <= r.start
  BY PlatformAssumption
<1>1. \A r \in m : CbToEfiMemoryType(r.type) \in MemoryTypes
  <2>1. ASSUME NEW r \in m PROVE CbToEfiMemoryType(r.type) \in MemoryTypes
    <3>1. r.type \in CbMemoryTypes
      BY <1>0 DEF CbRegion
    <3>2. QED BY <3>1, Zenon DEF CbMemoryTypes, CbToEfiMemoryType, MemoryTypes, BootServicesTypes
  <2>2. QED BY <2>1
<1>2. \A r \in m : /\ EntryOf(r) \in Entry /\ EntryOf(r).start = r.start
                   /\ EntryOf(r).attr = {"WB"}
                   /\ End(EntryOf(r)) = r.start + r.pages
  BY <1>0, <1>1 DEF EntryOf, Descriptor, Entry, End, CbRegion, Attributes
<1>3. f \in Surjection(m, T)
  BY DEF Surjection
<1>4. WellFormed(T) /\ Cardinality(T) <= Cardinality(m)
  <2>1. T \subseteq Entry
    BY <1>2
  <2>2. \A r \in m : f[r] = EntryOf(r)
    OBVIOUS
  <2> HIDE DEF f, T
  <2>3. \A x \in m : End(f[x]) < ADDR_SPACE
    BY <1>0, <1>2, <2>2
  <2>4. \A x, y \in m : x # y => End(f[x]) <= f[y].start \/ End(f[y]) <= f[x].start
    BY <1>0, <1>2, <2>2
  <2>5. QED BY <1>0, <1>3, <2>1, <2>3, <2>4, ImageOfMap
<1>5. AttrOK(T)
  BY <1>2 DEF AttrOK
<1>6. Imported(m) = MergeEntries(T)
  BY DEF Imported
<1> HIDE DEF T, f
<1>7. /\ Cardinality(T) \in Nat /\ Cardinality(m) \in Nat
      /\ MAX_MEMORY_REGIONS \in Nat /\ MAX_MEMORY_ENTRIES \in Nat
      /\ MAX_MEMORY_REGIONS <= MAX_MEMORY_ENTRIES
  BY <1>0, <1>4, FS_CardinalityType, CapacityAssumption DEF WellFormed
<1>8. Cardinality(T) <= MAX_MEMORY_ENTRIES
  BY <1>0, <1>4, <1>7
<1>9. GoodMap(Imported(m)) /\ Merged(Imported(m))
  BY <1>4, <1>5, <1>6, <1>8, MergeGood
<1>10. Cardinality(Imported(m)) <= Cardinality(T) /\ Cardinality(Imported(m)) \in Nat
  BY <1>4, <1>6, <1>9, MergeWellFormed, FS_CardinalityType DEF GoodMap, WellFormed
<1>11. QED BY <1>0, <1>4, <1>7, <1>9, <1>10

\* The map ExitBootServices leaves.
Reclaimed(S) == {Reclaim(e) : e \in S}

\* exit_boot_services keeps the map good.
LEMMA ExitGood ==
  ASSUME NEW S, GoodMap(S)
  PROVE  /\ WellFormed(Reclaimed(S))
         /\ GoodMap(MergeEntries(Reclaimed(S))) /\ Merged(MergeEntries(Reclaimed(S)))
<1> DEFINE T == Reclaimed(S)
           f == [e \in S |-> Reclaim(e)]
<1>0. /\ WellFormed(S) /\ S \subseteq Entry /\ IsFiniteSet(S)
      /\ \A e \in S : End(e) < ADDR_SPACE
      /\ \A e, g \in S : e # g => End(e) <= g.start \/ End(g) <= e.start
  BY DEF GoodMap, WellFormed
<1>1. \A e \in S : /\ Reclaim(e) \in Entry /\ Reclaim(e).start = e.start
                   /\ End(Reclaim(e)) = End(e) /\ Reclaim(e).attr = e.attr
                   /\ \/ Reclaim(e).type = e.type
                      \/ e.type \in BootServicesTypes
  BY <1>0 DEF Reclaim, Descriptor, End, Entry, MemoryTypes
<1>2. f \in Surjection(S, T)
  BY DEF Surjection, Reclaimed
<1>3. WellFormed(T) /\ Cardinality(T) <= Cardinality(S)
  <2>1. T \subseteq Entry
    BY <1>1 DEF Reclaimed
  <2>2. \A e \in S : f[e] = Reclaim(e)
    OBVIOUS
  <2> HIDE DEF f, T
  <2>3. \A x \in S : End(f[x]) < ADDR_SPACE
    BY <1>0, <1>1, <2>2
  <2>4. \A x, y \in S : x # y => End(f[x]) <= f[y].start \/ End(f[y]) <= f[x].start
    BY <1>0, <1>1, <2>2
  <2>5. QED BY <1>0, <1>2, <2>1, <2>3, <2>4, ImageOfMap
<1>4. AttrOK(T)
  BY <1>1 DEF AttrOK, GoodMap, Reclaimed
<1> HIDE DEF T
<1>5. Cardinality(T) <= MAX_MEMORY_ENTRIES
  BY <1>0, <1>3, FS_CardinalityType, CapacityAssumption DEF GoodMap, WellFormed
<1>6. GoodMap(MergeEntries(T)) /\ Merged(MergeEntries(T))
  BY <1>3, <1>4, <1>5, MergeGood
<1>7. QED BY <1>3, <1>6 DEF T

----------------------------------------------------------------------------
(* The services.                                                           *)

\* A service call left the map alone or retyped pages of one descriptor.
Served(S, k, c) ==
  \/ \E st : c = Result(S, k, st)
  \/ \E a \in Nat, n \in Nat \ {0}, t \in MemoryTypes : \E e, at, R :
       /\ ~boot_services_exited
       /\ SplitStep(S, R, e, a, n, t, at) /\ c = Result(R, k + 1, "SUCCESS")

\* A map on which a split removes the descriptor it found.
Ready(S) == GoodMap(S) /\ (Cardinality(S) + 2 > MAX_MEMORY_ENTRIES => Merged(S))

\* find_free_pages returns an address.
LEMMA FindFreeAddress ==
  ASSUME NEW S, WellFormed(S), NEW n \in Nat, n < ADDR_SPACE, NEW max_addr \in Nat,
         NEW x \in FindFreePages(S, n, max_addr)
  PROVE  x \in Nat
<1> DEFINE max == IF max_addr < MAX_IDENTITY_MAPPED THEN max_addr ELSE MAX_IDENTITY_MAPPED
           fits == {e \in S :
                      /\ e.type = "ConventionalMemory"
                      /\ e.start < max
                      /\ IF End(e) > max
                         THEN max >= Wrap(e.start + n) /\ Wrap(max - n) >= e.start
                         ELSE e.pages >= n}
           T == {e.start : e \in fits}
           U == {y \in Nat : \E e \in fits : y = ADDR_SPACE - e.start}
<1>0. \A g \in S : g.start \in Nat /\ g.pages \in Nat /\ g.start < ADDR_SPACE
  BY AddressAssumption DEF WellFormed, Entry, End
<1>1. fits # {} /\ x = IF End(Last(fits)) > max THEN Wrap(max - n) ELSE End(Last(fits)) - n
  BY DEF FindFreePages
<1>2. max \in Nat /\ max <= ADDR_SPACE /\ ADDR_SPACE \in Nat
  BY AddressAssumption
<1>3. Last(fits) \in fits
  <2>1. U \in SUBSET Nat /\ U # {}
    BY <1>0, <1>1, <1>2
  <2>2. PICK y \in U : \A z \in U : y <= z
    <3> HIDE DEF U
    <3> QED BY <2>1, LeastElement
  <2>3. PICK e \in fits : y = ADDR_SPACE - e.start
    BY <2>2
  <2>4. ASSUME NEW f \in fits PROVE f.start <= e.start
    <3>1. ADDR_SPACE - f.start \in U
      BY <1>0, <1>2
    <3>2. y <= ADDR_SPACE - f.start
      BY <2>2, <3>1
    <3>3. e.start \in Nat /\ f.start \in Nat
      BY <1>0
    <3>4. QED BY <1>2, <2>3, <3>2, <3>3
  <2> HIDE DEF fits
  <2>5. QED BY <2>3, <2>4 DEF Last
<1>4. PICK e \in fits : e = Last(fits)
  BY <1>3
<1>5. e.start \in Nat /\ e.pages \in Nat
  BY <1>0
<1>6. CASE End(e) > max
  <2>1. x = Wrap(max - n)
    BY <1>1, <1>4, <1>6
  <2>2. QED BY <1>2, <2>1 DEF Wrap
<1>7. CASE ~(End(e) > max)
  <2>1. x = End(e) - n
    BY <1>1, <1>4, <1>7
  <2>2. e.pages >= n
    BY <1>7
  <2>3. QED BY <1>5, <2>1, <2>2 DEF End
<1>8. QED BY <1>6, <1>7

\* A success of carve_out is a service step ...
LEMMA CarvedOutServed ==
  ASSUME NEW S, Ready(S), NEW k, NEW a \in Nat, NEW n \in Nat \ {0}, NEW t \in MemoryTypes,
         ~boot_services_exited
  PROVE  Served(S, k, CarveOut(S, k, a, n, t))
<1>1. CarvedOut(S, k, a, n, t, CarveOut(S, k, a, n, t))
  BY CarveOutResult DEF Ready
<1>2. QED BY <1>1 DEF CarvedOut, Served

\* ... and so is a success of try_reallocate_loader_region.
LEMMA ReallocatedServed ==
  ASSUME NEW S, Ready(S), NEW k, NEW a \in Nat, NEW n \in Nat \ {0}, NEW t \in MemoryTypes,
         ~boot_services_exited
  PROVE  Served(S, k, TryReallocateLoaderRegion(S, k, a, n, t))
<1>1. Reallocated(S, k, a, n, t, TryReallocateLoaderRegion(S, k, a, n, t))
  BY ReallocateResult DEF Ready
<1>2. QED BY <1>1 DEF Reallocated, Served

\* allocate_pages, AllocateAnyPages and AllocateMaxAddress.
LEMMA AllocateBelowServed ==
  ASSUME NEW S, Ready(S), NEW k, NEW n \in Nat, NEW t \in MemoryTypes, NEW max_addr \in Nat
  PROVE  Served(S, k, AllocateBelow(S, k, n, t, max_addr))
<1> DEFINE c == AllocateBelow(S, k, n, t, max_addr)
           F == FindFreePages(S, n, max_addr)
           a == CHOOSE x \in F : TRUE
<1>1. CASE \E st : c = Result(S, k, st)
  BY <1>1 DEF Served
<1>2. CASE n # 0 /\ ~boot_services_exited /\ ~(n >= ADDR_SPACE) /\ F # {} /\ c = CarveOut(S, k, a, n, t)
  <2>1. a \in F
    BY <1>2
  <2> HIDE DEF a
  <2>2. n < ADDR_SPACE
    BY <1>2, AddressAssumption
  <2>3. a \in Nat
    BY <2>1, <2>2, FindFreeAddress DEF Ready, GoodMap
  <2>4. QED BY <1>2, <2>3, CarvedOutServed
<1>3. c = IF n = 0 THEN Result(S, k, "INVALID_PARAMETER")
          ELSE IF boot_services_exited THEN Result(S, k, "UNSUPPORTED")
          ELSE IF n >= ADDR_SPACE \/ F = {} THEN Result(S, k, "OUT_OF_RESOURCES")
          ELSE CarveOut(S, k, a, n, t)
  BY DEF AllocateBelow
<1> HIDE DEF c, F, a
<1>4. QED BY <1>1, <1>2, <1>3

\* allocate_pages, AllocateAddress.
LEMMA AllocateAtServed ==
  ASSUME NEW S, Ready(S), NEW k, NEW n \in Nat, NEW t \in MemoryTypes,
         NEW a \in Nat \cup {UNALIGNED}
  PROVE  Served(S, k, AllocateAt(S, k, n, t, a))
<1> DEFINE c == AllocateAt(S, k, n, t, a)
<1>1. CASE \E st : c = Result(S, k, st)
  BY <1>1 DEF Served
<1>2. CASE n # 0 /\ ~boot_services_exited /\ a # UNALIGNED /\ c = CarveOut(S, k, a, n, t)
  BY <1>2, CarvedOutServed
<1>3. CASE n # 0 /\ ~boot_services_exited /\ a # UNALIGNED /\ c = TryReallocateLoaderRegion(S, k, a, n, t)
  BY <1>3, ReallocatedServed
<1>4. c = IF n = 0 THEN Result(S, k, "INVALID_PARAMETER")
          ELSE IF boot_services_exited THEN Result(S, k, "UNSUPPORTED")
          ELSE IF n >= ADDR_SPACE THEN Result(S, k, "OUT_OF_RESOURCES")
          ELSE IF a = UNALIGNED THEN Result(S, k, "INVALID_PARAMETER")
          ELSE IF IsRegionFree(S, a, n) THEN CarveOut(S, k, a, n, t)
          ELSE TryReallocateLoaderRegion(S, k, a, n, t)
  BY DEF AllocateAt
<1> HIDE DEF c
<1>5. QED BY <1>1, <1>2, <1>3, <1>4

\* c is a failure that changed nothing, or a success that made n pages from a,
\* all of one descriptor, conventional memory.
Freed(S, k, a, n, c) ==
  \/ \E st : st # "SUCCESS" /\ c = Result(S, k, st)
  \/ /\ ~boot_services_exited /\ a \in Nat /\ n \in Nat \ {0}
     /\ \E e, at, R : /\ SplitStep(S, R, e, a, n, "ConventionalMemory", at)
                      /\ c = Result(R, k + 1, "SUCCESS")

\* free_pages: a free is a split whose middle piece is the whole descriptor.
LEMMA FreeResult ==
  ASSUME NEW S, Ready(S), NEW k, NEW n \in Nat, NEW a \in Nat \cup {UNALIGNED}
  PROVE  Freed(S, k, a, n, Free(S, k, a, n))
<1> DEFINE c == Free(S, k, a, n)
           C == "ConventionalMemory"
           found == {e \in S : /\ e.start = a /\ e.pages = n
                               /\ e.type \in BootServicesTypes \cup {C}}
           e == First(found)
           d == Descriptor(a, n, C, e.attr)
           R == MergeEntries((S \ {e}) \cup {d})
<1>1. CASE \E st : st # "SUCCESS" /\ c = Result(S, k, st)
  BY <1>1 DEF Freed
<1>2. CASE /\ n # 0 /\ ~boot_services_exited /\ a # UNALIGNED /\ found # {}
           /\ c = Result(R, k + 1, "SUCCESS")
  <2>0. WellFormed(S) /\ IsFiniteSet(S) /\ Cardinality(S) \in Nat
    BY FS_CardinalityType DEF Ready, GoodMap, WellFormed
  <2>1. e \in found
    BY <1>2, <2>0, FirstMember
  <2>2. /\ e \in S /\ e.start = a /\ e.pages = n /\ a \in Nat
        /\ e.type \in BootServicesTypes \cup {C} /\ C \in MemoryTypes
    BY <1>2, <2>1 DEF MemoryTypes
  <2> HIDE DEF e, found
  <2>3. Split(e, a, n, C, e.attr) = {d}
    BY <1>2, <2>2 DEF Split, End
  <2>4. Cardinality((S \ {e}) \cup {d}) <= MAX_MEMORY_ENTRIES
    <3>1. e.attr \in SUBSET Attributes /\ Contains(e, a, n) /\ n \in Nat \ {0}
      BY <1>2, <2>0, <2>2 DEF WellFormed, Entry, Contains, End
    <3>2. SplitFacts(S, e, a, n, C, e.attr)
      BY <2>0, <2>2, <3>1, SplitMap
    <3>3. Cardinality((S \ {e}) \cup {d}) = Cardinality(S) - 1 + Cardinality({d})
      BY <2>3, <3>2 DEF SplitFacts
    <3>4. Cardinality({d}) = 1
      BY FS_Singleton
    <3>5. QED BY <2>0, <3>3, <3>4 DEF Ready, GoodMap
  <2>5. SplitStep(S, R, e, a, n, C, e.attr)
    BY <2>2, <2>3, <2>4 DEF SplitStep, Legal, Contains, End
  <2>6. QED BY <1>2, <2>2, <2>5 DEF Freed
<1>3. c = IF a = UNALIGNED \/ n = 0 THEN Result(S, k, "INVALID_PARAMETER")
          ELSE IF boot_services_exited THEN Result(S, k, "UNSUPPORTED")
          ELSE IF found = {} THEN Result(S, k, "NOT_FOUND")
          ELSE Result(R, k + 1, "SUCCESS")
  BY DEF Free
<1> HIDE DEF c, R, found
<1>4. QED BY <1>1, <1>2, <1>3

\* A success of free_pages is a service step.
LEMMA FreeServed ==
  ASSUME NEW S, Ready(S), NEW k, NEW n \in Nat, NEW a \in Nat \cup {UNALIGNED}
  PROVE  Served(S, k, Free(S, k, a, n))
<1>1. Freed(S, k, a, n, Free(S, k, a, n))
  BY FreeResult
<1>2. "ConventionalMemory" \in MemoryTypes
  BY DEF MemoryTypes
<1>3. QED BY <1>1, <1>2 DEF Freed, Served

----------------------------------------------------------------------------
(* The invariant is inductive.                                             *)

\* Once services run every map they see is ready for a split.
LEMMA BootReady ==
  ASSUME IInv, phase = "boot"
  PROVE  Ready(entries)
<1>1. Cardinality(entries) \in Nat
  BY FS_CardinalityType DEF IInv, GoodMap, WellFormed
<1>2. QED BY <1>1, CapacityAssumption DEF IInv, Ready, EarlyBound

\* What a service step does to the map and its key.
LEMMA ServeStep ==
  ASSUME IInv, NEW c, Serve(c), Served(entries, map_key, c)
  PROVE  /\ phase = "boot" /\ UNCHANGED <<phase, marked>>
         /\ \/ UNCHANGED <<entries, map_key>>
            \/ /\ map_key' = map_key + 1 /\ ~boot_services_exited
               /\ \E a \in Nat, n \in Nat \ {0}, t \in MemoryTypes : \E e, at :
                    SplitStep(entries, entries', e, a, n, t, at)
<1>1. /\ phase = "boot" /\ UNCHANGED <<phase, marked>>
      /\ entries' = c.entries /\ map_key' = c.map_key
  BY DEF Serve, Return
<1>2. CASE \E st : c = Result(entries, map_key, st)
  BY <1>1, <1>2 DEF Result
<1>3. ASSUME NEW a \in Nat, NEW n \in Nat \ {0}, NEW t \in MemoryTypes, NEW e, NEW at, NEW R,
             ~boot_services_exited, SplitStep(entries, R, e, a, n, t, at),
             c = Result(R, map_key + 1, "SUCCESS")
      PROVE  /\ map_key' = map_key + 1 /\ ~boot_services_exited
             /\ SplitStep(entries, entries', e, a, n, t, at)
  <2>1. entries' = R /\ map_key' = map_key + 1
    BY <1>1, <1>3 DEF Result
  <2>2. QED BY <1>3, <2>1
<1>4. QED BY <1>1, <1>2, <1>3 DEF Served

\* Each service call is such a step or the step of ExitBootServices.
LEMMA ServiceStep ==
  ASSUME IInv, Next, phase = "boot"
  PROVE  /\ UNCHANGED <<phase, marked>>
         /\ \/ UNCHANGED <<entries, map_key, boot_services_exited>>
            \/ /\ map_key' = map_key + 1 /\ ~boot_services_exited /\ UNCHANGED boot_services_exited
               /\ \E a \in Nat, n \in Nat \ {0}, t \in MemoryTypes : \E e, at :
                    SplitStep(entries, entries', e, a, n, t, at)
            \/ /\ map_key' = map_key + 1 /\ boot_services_exited' = TRUE
               /\ entries' = MergeEntries(Reclaimed(entries))
<1>0. Ready(entries)
  BY BootReady
<1>1. ASSUME NEW n \in Sizes, NEW t \in AllocTypes, AllocateAnyPages(n, t)
      PROVE  Serve(AllocateBelow(entries, map_key, n, t, ADDR_SPACE))
             /\ Served(entries, map_key, AllocateBelow(entries, map_key, n, t, ADDR_SPACE))
  BY <1>0, <1>1, AllocateBelowServed, InputAssumption, AddressAssumption DEF AllocateAnyPages
<1>2. ASSUME NEW n \in Sizes, NEW t \in AllocTypes, NEW a \in Addresses,
             AllocateMaxAddress(n, t, a)
      PROVE  Serve(AllocateBelow(entries, map_key, n, t, a))
             /\ Served(entries, map_key, AllocateBelow(entries, map_key, n, t, a))
  BY <1>0, <1>2, AllocateBelowServed, InputAssumption, AddressAssumption DEF AllocateMaxAddress
<1>3. ASSUME NEW n \in Sizes, NEW t \in AllocTypes, NEW a \in Addresses \cup {UNALIGNED},
             AllocateAddress(n, t, a)
      PROVE  Serve(AllocateAt(entries, map_key, n, t, a))
             /\ Served(entries, map_key, AllocateAt(entries, map_key, n, t, a))
  BY <1>0, <1>3, AllocateAtServed, InputAssumption, AddressAssumption DEF AllocateAddress
<1>4. ASSUME NEW a \in Addresses \cup {UNALIGNED}, NEW n \in Sizes, FreePages(a, n)
      PROVE  Serve(Free(entries, map_key, a, n))
             /\ Served(entries, map_key, Free(entries, map_key, a, n))
  BY <1>0, <1>4, FreeServed, InputAssumption, AddressAssumption DEF FreePages
<1>5. ASSUME NEW key \in 1 .. MaxKey, ExitBootServices(key)
      PROVE  /\ UNCHANGED <<phase, marked>>
             /\ \/ UNCHANGED <<entries, map_key, boot_services_exited>>
                \/ /\ map_key' = map_key + 1 /\ boot_services_exited' = TRUE
                   /\ entries' = MergeEntries(Reclaimed(entries))
  BY <1>5 DEF ExitBootServices, Serve, Return, Result, Reclaimed
<1>6. ASSUME NEW c, Serve(c), Served(entries, map_key, c), UNCHANGED boot_services_exited
      PROVE  /\ UNCHANGED <<phase, marked>>
             /\ \/ UNCHANGED <<entries, map_key, boot_services_exited>>
                \/ /\ map_key' = map_key + 1
                   /\ ~boot_services_exited /\ UNCHANGED boot_services_exited
                   /\ \E a \in Nat, n \in Nat \ {0}, t \in MemoryTypes : \E e, at :
                        SplitStep(entries, entries', e, a, n, t, at)
  BY <1>6, ServeStep
<1>7. CASE \E n \in Sizes, t \in AllocTypes : AllocateAnyPages(n, t)
  BY <1>1, <1>6, <1>7 DEF AllocateAnyPages
<1>8. CASE \E n \in Sizes, t \in AllocTypes, a \in Addresses : AllocateMaxAddress(n, t, a)
  BY <1>2, <1>6, <1>8 DEF AllocateMaxAddress
<1>9. CASE \E n \in Sizes, t \in AllocTypes, a \in Addresses \cup {UNALIGNED} :
             AllocateAddress(n, t, a)
  BY <1>3, <1>6, <1>9 DEF AllocateAddress
<1>10. CASE \E a \in Addresses \cup {UNALIGNED}, n \in Sizes : FreePages(a, n)
  BY <1>4, <1>6, <1>10 DEF FreePages
<1>11. QED
  BY <1>5, <1>7, <1>8, <1>9, <1>10, Zenon
     DEF Next, InitFromCoreboot, ReserveRuntimeRegion, MarkAcpiRegion, EnterBootServices

\* reserve_runtime_region keeps the invariant and advances the key.
LEMMA ReserveStep ==
  ASSUME PayloadFits, IInv, ReserveRuntimeRegion
  PROVE  IInv' /\ map_key' > map_key
<1>0. /\ Cardinality(entries) \in Nat /\ map_key \in Nat /\ marked \in Nat
      /\ MAX_MEMORY_REGIONS \in Nat /\ MAX_ACPI_REGIONS \in Nat /\ MAX_MEMORY_ENTRIES \in Nat
      /\ MAX_MEMORY_REGIONS + 2 * MAX_ACPI_REGIONS + 6 <= MAX_MEMORY_ENTRIES
  BY FS_CardinalityType, CapacityAssumption DEF IInv, GoodMap, WellFormed
<1> DEFINE c == ReserveOrForce(entries, map_key, RuntimeCode, "RuntimeServicesCode")
           d == ReserveOrForce(c.entries, c.map_key, RuntimeData, "RuntimeServicesData")
<1>1. PICK m \in CorebootMaps : entries = Imported(m)
  BY DEF ReserveRuntimeRegion, IInv
<1>2. /\ phase = "imported" /\ phase' = "reserved" /\ marked = 0
      /\ UNCHANGED <<boot_services_exited, marked>>
      /\ IF RuntimeData.pages > 0 THEN Return(d) ELSE Return(c)
  BY DEF ReserveRuntimeRegion, IInv
<1>3. Cardinality(entries) <= MAX_MEMORY_REGIONS
  BY <1>1, ImportGood
<1>4. /\ RuntimeCode \in PageRange /\ RuntimeCode.pages > 0
      /\ RuntimeData \in PageRange
      /\ RuntimeCode.start \in Nat /\ RuntimeCode.pages \in Nat
      /\ RuntimeData.start \in Nat /\ RuntimeData.pages \in Nat
      /\ RuntimeCode.start + RuntimeCode.pages < ADDR_SPACE
      /\ RuntimeData.start + RuntimeData.pages < ADDR_SPACE
  BY PlatformAssumption DEF PageRange
<1>5. /\ GoodMap(c.entries) /\ Cardinality(c.entries) <= Cardinality(entries) + 2
      /\ c.map_key \in Nat /\ c.map_key > map_key
      /\ SameElsewhere(entries, c.entries, RuntimeCode.start, RuntimeCode.pages)
  <2>1. GoodMap(entries) /\ Cardinality(entries) + 2 <= MAX_MEMORY_ENTRIES
    BY <1>0, <1>3 DEF IInv
  <2>2. \/ AllConventional(entries, RuntimeCode.start, RuntimeCode.pages)
        \/ Undescribed(entries, RuntimeCode.start, RuntimeCode.pages)
    BY <1>1 DEF PayloadFits
  <2>3. "RuntimeServicesCode" \in RuntimeTypes
    BY DEF RuntimeTypes
  <2>4. QED BY <1>0, <1>4, <2>1, <2>2, <2>3, ReserveResult
<1> HIDE DEF c
<1>6. Cardinality(c.entries) \in Nat
  BY <1>5, FS_CardinalityType DEF GoodMap, WellFormed
<1>7. CASE RuntimeData.pages > 0
  <2>1. GoodMap(c.entries) /\ Cardinality(c.entries) + 2 <= MAX_MEMORY_ENTRIES
    BY <1>0, <1>3, <1>5, <1>6
  <2>2. \/ AllConventional(entries, RuntimeData.start, RuntimeData.pages)
        \/ Undescribed(entries, RuntimeData.start, RuntimeData.pages)
    BY <1>1 DEF PayloadFits
  <2>3. \A p \in RuntimeData.start .. RuntimeData.start + RuntimeData.pages - 1 :
          p \in Nat \ (RuntimeCode.start .. RuntimeCode.start + RuntimeCode.pages - 1)
    BY <1>4 DEF PayloadFits
  <2>4. \/ AllConventional(c.entries, RuntimeData.start, RuntimeData.pages)
        \/ Undescribed(c.entries, RuntimeData.start, RuntimeData.pages)
    BY <1>5, <2>2, <2>3 DEF AllConventional, Undescribed, SameElsewhere
  <2>5. "RuntimeServicesData" \in RuntimeTypes
    BY DEF RuntimeTypes
  <2>6. /\ GoodMap(d.entries) /\ Cardinality(d.entries) <= Cardinality(c.entries) + 2
        /\ d.map_key \in Nat /\ d.map_key > c.map_key
        /\ SameElsewhere(c.entries, d.entries, RuntimeData.start, RuntimeData.pages)
    BY <1>4, <1>5, <1>7, <2>1, <2>4, <2>5, ReserveResult, Zenon
  <2> HIDE DEF d
  <2>7. Cardinality(d.entries) \in Nat
    BY <2>6, FS_CardinalityType DEF GoodMap, WellFormed
  <2>8. Cardinality(d.entries) <= EarlyBound(0)
    BY <1>0, <1>3, <1>5, <1>6, <2>6, <2>7 DEF EarlyBound
  <2>9. entries' = d.entries /\ map_key' = d.map_key
    BY <1>2, <1>7 DEF Return
  <2>10. map_key' > map_key
    BY <1>0, <1>5, <2>6, <2>9
  <2>11. QED BY <1>0, <1>2, <2>6, <2>8, <2>9, <2>10, Zenon DEF IInv
<1>8. CASE ~(RuntimeData.pages > 0)
  <2>1. Cardinality(c.entries) <= EarlyBound(0)
    BY <1>0, <1>3, <1>5, <1>6 DEF EarlyBound
  <2>2. QED BY <1>0, <1>2, <1>5, <1>8, <2>1, Zenon DEF IInv, Return
<1>9. QED BY <1>7, <1>8

\* mark_as_acpi_reclaim keeps the invariant and advances the key with the map.
LEMMA MarkStep ==
  ASSUME IInv, NEW r \in AcpiRegions, MarkAcpiRegion(r)
  PROVE  IInv' /\ (entries' # entries => map_key' > map_key)
<1>0. /\ Cardinality(entries) \in Nat /\ map_key \in Nat /\ marked \in Nat
      /\ MAX_MEMORY_REGIONS \in Nat /\ MAX_ACPI_REGIONS \in Nat /\ MAX_MEMORY_ENTRIES \in Nat
      /\ MAX_MEMORY_REGIONS + 2 * MAX_ACPI_REGIONS + 6 <= MAX_MEMORY_ENTRIES
  BY FS_CardinalityType, CapacityAssumption DEF IInv, GoodMap, WellFormed
<1> DEFINE c == MarkAsAcpiReclaim(entries, map_key, r.start, r.pages)
<1>1. /\ phase = "reserved" /\ marked < MAX_ACPI_REGIONS /\ Return(c)
      /\ marked' = marked + 1 /\ UNCHANGED <<boot_services_exited, phase>>
  BY DEF MarkAcpiRegion
<1>2. r.start \in Nat /\ r.pages \in Nat \ {0}
  BY PlatformAssumption DEF PageRange
<1>3. Cardinality(entries) <= MAX_MEMORY_REGIONS + 4 + 2 * marked
  BY <1>1 DEF IInv, EarlyBound
<1>4. GoodMap(entries) /\ Cardinality(entries) + 2 <= MAX_MEMORY_ENTRIES
  BY <1>0, <1>1, <1>3 DEF IInv
<1>5. /\ GoodMap(c.entries) /\ Cardinality(c.entries) <= Cardinality(entries) + 2
      /\ c.map_key \in Nat
      /\ c.entries # entries => c.map_key > map_key
  BY <1>0, <1>2, <1>4, MarkResult
<1> HIDE DEF c
<1>6. Cardinality(c.entries) \in Nat
  BY <1>5, FS_CardinalityType DEF GoodMap, WellFormed
<1>7. Cardinality(c.entries) <= EarlyBound(marked + 1)
  BY <1>0, <1>3, <1>5, <1>6 DEF EarlyBound
<1>8. marked + 1 \in 0 .. MAX_ACPI_REGIONS
  BY <1>0, <1>1
<1>9. QED BY <1>1, <1>5, <1>7, <1>8 DEF IInv, Return

\* Every step of the firmware keeps the invariant.
LEMMA IInvStep ==
  ASSUME PayloadFits, IInv, [Next]_vars
  PROVE  IInv'
<1>0. /\ Cardinality(entries) \in Nat /\ map_key \in Nat /\ marked \in Nat
      /\ MAX_MEMORY_REGIONS \in Nat /\ MAX_ACPI_REGIONS \in Nat /\ MAX_MEMORY_ENTRIES \in Nat
      /\ MAX_MEMORY_REGIONS + 2 * MAX_ACPI_REGIONS + 6 <= MAX_MEMORY_ENTRIES
  BY FS_CardinalityType, CapacityAssumption DEF IInv, GoodMap, WellFormed
<1>1. CASE UNCHANGED vars
  BY <1>1, Zenon DEF vars, IInv, GoodMap, WellFormed, AttrOK, Coalesced, Merged
<1>2. ASSUME NEW m \in CorebootMaps, InitFromCoreboot(m) PROVE IInv'
  <2>1. entries' = Imported(m) /\ map_key' = 1 /\ phase' = "imported"
        /\ UNCHANGED <<boot_services_exited, marked>> /\ phase = "cold"
    BY <1>2 DEF InitFromCoreboot, Imported
  <2>2. GoodMap(entries')
    BY <2>1, ImportGood
  <2>3. QED BY <2>1, <2>2 DEF IInv
<1>3. CASE ReserveRuntimeRegion
  BY <1>3, ReserveStep
<1>4. ASSUME NEW r \in AcpiRegions, MarkAcpiRegion(r) PROVE IInv'
  BY <1>4, MarkStep
<1>5. CASE EnterBootServices
  <2>1. Cardinality(entries) <= EarlyBound(MAX_ACPI_REGIONS)
    BY <1>0, <1>5 DEF EnterBootServices, IInv, EarlyBound
  <2>2. QED BY <1>5, <2>1 DEF EnterBootServices, IInv
<1>6. CASE phase = "boot" /\ Next
  <2>1. GoodMap(entries') /\ map_key' \in Nat /\ boot_services_exited' \in BOOLEAN
        /\ (Merged(entries') \/ UNCHANGED entries)
    <3>1. CASE UNCHANGED <<entries, map_key, boot_services_exited>>
      BY <3>1 DEF IInv
    <3>2. CASE /\ map_key' = map_key + 1 /\ UNCHANGED boot_services_exited
               /\ \E a \in Nat, n \in Nat \ {0}, t \in MemoryTypes : \E e, at :
                    SplitStep(entries, entries', e, a, n, t, at)
      BY <1>0, <3>2, SplitStepGood DEF IInv
    <3>3. CASE /\ map_key' = map_key + 1 /\ boot_services_exited' = TRUE
               /\ entries' = MergeEntries(Reclaimed(entries))
      BY <1>0, <3>3, ExitGood DEF IInv
    <3>4. QED BY <1>6, <3>1, <3>2, <3>3, ServiceStep, Zenon
  <2>2. UNCHANGED <<phase, marked>>
    BY <1>6, ServiceStep
  <2>3. QED BY <1>6, <2>1, <2>2 DEF IInv
<1>7. QED
  BY <1>1, <1>2, <1>3, <1>4, <1>5, <1>6, Zenon
     DEF Next, AllocateAnyPages, AllocateMaxAddress, AllocateAddress, FreePages,
         ExitBootServices, Serve

\* The firmware starts in the invariant.
LEMMA IInvInit ==
  ASSUME Init
  PROVE  IInv
<1>1. IsFiniteSet({}) /\ Cardinality({}) = 0
  BY FS_EmptySet
<1>2. GoodMap({})
  BY <1>1, CapacityAssumption DEF GoodMap, WellFormed, AttrOK, Coalesced
<1>6. boot_services_exited \in BOOLEAN
  BY DEF Init
<1>3. /\ GoodMap(entries) /\ map_key \in Nat
      /\ marked \in 0 .. MAX_ACPI_REGIONS /\ marked = 0 /\ entries = {}
  BY <1>2, CapacityAssumption DEF Init
<1>4. phase = "cold"
  BY DEF Init
<1>5. QED BY <1>3, <1>4, <1>6 DEF IInv

\* The invariant holds throughout.
THEOREM Invariance ==
  ASSUME PayloadFits
  PROVE  Spec => []IInv
<1>1. Init => IInv
  BY IInvInit
<1>2. IInv /\ [Next]_vars => IInv'
  BY IInvStep
<1>3. QED BY <1>1, <1>2, PTL DEF Spec

----------------------------------------------------------------------------
(* The properties.                                                         *)

\* The state is well typed and no push on the vector fails unseen (TypeOK).
THEOREM TypeCorrect ==
  ASSUME PayloadFits
  PROVE  Spec => []TypeOK
<1>1. IInv => TypeOK
  BY DEF IInv, TypeOK, GoodMap, WellFormed
<1>2. QED BY <1>1, Invariance, PTL

\* No page is ever described twice (NoOverlap).
THEOREM MapIsDisjoint ==
  ASSUME PayloadFits
  PROVE  Spec => []NoOverlap
<1>1. IInv => NoOverlap
  BY DEF IInv, NoOverlap, GoodMap, WellFormed
<1>2. QED BY <1>1, Invariance, PTL

\* The position carve_out takes before the merge stays valid (FullMapIsMerged).
THEOREM PositionsStayValid ==
  ASSUME PayloadFits
  PROVE  Spec => []FullMapIsMerged
<1>1. ASSUME IInv PROVE FullMapIsMerged
  <2>0. /\ Cardinality(entries) \in Nat /\ marked \in Nat /\ marked <= MAX_ACPI_REGIONS
        /\ MAX_MEMORY_REGIONS \in Nat /\ MAX_ACPI_REGIONS \in Nat /\ MAX_MEMORY_ENTRIES \in Nat
        /\ MAX_MEMORY_REGIONS + 2 * MAX_ACPI_REGIONS + 6 <= MAX_MEMORY_ENTRIES
    BY <1>1, FS_CardinalityType, CapacityAssumption DEF IInv, GoodMap, WellFormed
  <2>1. CASE phase = "cold"
    BY <1>1, <2>1 DEF IInv, FullMapIsMerged, Merged
  <2>2. CASE phase = "imported"
    BY <1>1, <2>2, ImportGood DEF IInv, FullMapIsMerged
  <2>3. CASE phase = "reserved"
    <3>1. Cardinality(entries) <= EarlyBound(marked)
      BY <1>1, <2>3 DEF IInv
    <3>2. QED BY <2>0, <3>1 DEF EarlyBound, FullMapIsMerged
  <2>4. CASE phase = "boot"
    BY <1>1, <2>4, BootReady DEF Ready, FullMapIsMerged
  <2>5. QED BY <1>1, <2>1, <2>2, <2>3, <2>4 DEF IInv
<1>2. QED BY <1>1, Invariance, PTL

\* is_region_free is exact although it looks at one descriptor (FreeCheckExact).
THEOREM FreeCheckIsExact ==
  ASSUME PayloadFits
  PROVE  Spec => []FreeCheckExact
<1>1. ASSUME IInv PROVE FreeCheckExact
  <2>1. SUFFICES ASSUME NEW a \in Addresses, NEW n \in Sizes \ {0}, a + n < ADDR_SPACE
                 PROVE  IsRegionFree(entries, a, n) <=> AllConventional(entries, a, n)
    BY DEF FreeCheckExact, AllConventional
  <2>2. GoodMap(entries) /\ a \in Nat /\ n \in Nat \ {0}
    BY <1>1, InputAssumption DEF IInv
  <2>3. ASSUME AllConventional(entries, a, n) PROVE IsRegionFree(entries, a, n)
    BY <2>1, <2>2, <2>3, FreeRange DEF IsRegionFree
  <2>4. ASSUME IsRegionFree(entries, a, n) PROVE AllConventional(entries, a, n)
    <3>1. PICK e \in entries : e.type = "ConventionalMemory" /\ Contains(e, a, n)
      BY <2>4 DEF IsRegionFree
    <3>2. e.start \in Nat /\ e.pages \in Nat
      BY <2>2 DEF GoodMap, WellFormed, Entry
    <3>3. \A p \in a .. a + n - 1 : PageIn(e, p)
      BY <2>2, <3>1, <3>2 DEF Contains, PageIn, End
    <3>4. QED BY <3>1, <3>3 DEF AllConventional, PageHas
  <2>5. QED BY <2>3, <2>4
<1>2. QED BY <1>1, Invariance, PTL

\* A caller with the current key has the current map (KeyTracksChanges).
THEOREM KeyIsCurrent ==
  ASSUME PayloadFits
  PROVE  Spec => KeyTracksChanges
<1>1. ASSUME IInv, [Next]_vars
      PROVE  [entries' # entries /\ phase # "cold" => map_key' > map_key]_vars
  <2>0. map_key \in Nat
    BY <1>1 DEF IInv
  <2>1. CASE ReserveRuntimeRegion
    BY <1>1, <2>1, ReserveStep
  <2>2. ASSUME NEW r \in AcpiRegions, MarkAcpiRegion(r)
        PROVE  entries' # entries => map_key' > map_key
    BY <1>1, <2>2, MarkStep
  <2>3. CASE phase = "boot" /\ Next
    <3>1. UNCHANGED entries \/ map_key' = map_key + 1
      BY <1>1, <2>3, ServiceStep, Zenon
    <3>2. QED BY <2>0, <3>1
  <2>4. CASE UNCHANGED vars
    BY <2>4
  <2>5. QED
    BY <1>1, <2>1, <2>2, <2>3, <2>4, Zenon
       DEF Next, InitFromCoreboot, EnterBootServices, AllocateAnyPages, AllocateMaxAddress,
           AllocateAddress, FreePages, ExitBootServices, Serve
<1>2. QED BY <1>1, Invariance, PTL DEF Spec, KeyTracksChanges

\* A descriptor that is not retyped survives a service step inside one of its
\* type.
LEMMA OthersSurvive ==
  ASSUME NEW S, GoodMap(S), NEW R, NEW e, NEW a \in Nat, NEW n \in Nat \ {0},
         NEW t \in MemoryTypes, NEW at, SplitStep(S, R, e, a, n, t, at),
         NEW f \in S, f.type \in RuntimeTypes
  PROVE  \E g \in R : g.type = f.type /\ Contains(g, f.start, f.pages)
<1> DEFINE Q == (S \ {e}) \cup Split(e, a, n, t, at)
<1>1. f # e
  BY DEF SplitStep, Legal, RuntimeTypes, BootServicesTypes, LoaderTypes
<1>2. at \in SUBSET Attributes
  BY SplitStepGood
<1>3. e \in S /\ Contains(e, a, n) /\ WellFormed(S) /\ R = MergeEntries(Q)
  BY DEF SplitStep, GoodMap
<1>4. SplitFacts(S, e, a, n, t, at)
  BY <1>2, <1>3, SplitMap
<1>5. WellFormed(Q) /\ f \in Q
  BY <1>1, <1>4 DEF SplitFacts
<1> HIDE DEF Q
<1>6. \E g \in R : /\ g.start <= f.start /\ End(f) <= End(g)
                   /\ g.type = f.type /\ g.attr = f.attr
  BY <1>3, <1>5, MergeContains
<1>7. QED BY <1>6, Zenon DEF Contains, End

\* No service takes a page away from the runtime (RuntimePagesStay).
THEOREM RuntimeStays ==
  ASSUME PayloadFits
  PROVE  Spec => RuntimePagesStay
<1>1. ASSUME IInv, [Next]_vars
      PROVE  [\A e \in entries : e.type \in RuntimeTypes /\ phase = "boot" =>
                \E f \in entries' : f.type = e.type /\ Contains(f, e.start, e.pages)]_vars
  <2>1. SUFFICES ASSUME Next, phase = "boot", NEW e \in entries, e.type \in RuntimeTypes
                 PROVE  \E f \in entries' : f.type = e.type /\ Contains(f, e.start, e.pages)
    BY <1>1
  <2>0. GoodMap(entries) /\ e.start \in Nat /\ e.pages \in Nat
    BY <1>1 DEF IInv, GoodMap, WellFormed, Entry
  <2>2. CASE UNCHANGED entries
    BY <2>0, <2>2 DEF Contains, End
  <2>3. CASE \E a \in Nat, n \in Nat \ {0}, t \in MemoryTypes : \E f, at :
               SplitStep(entries, entries', f, a, n, t, at)
    BY <2>0, <2>1, <2>3, OthersSurvive, Zenon
  <2>4. CASE entries' = MergeEntries(Reclaimed(entries))
    <3>1. e \in Reclaimed(entries)
      BY <2>1 DEF Reclaimed, Reclaim, RuntimeTypes, BootServicesTypes, LoaderTypes
    <3>2. WellFormed(Reclaimed(entries))
      BY <2>0, ExitGood
    <3>3. QED BY <2>4, <3>1, <3>2, MergeContains DEF Contains, End
  <2>5. QED BY <1>1, <2>1, <2>2, <2>3, <2>4, ServiceStep, Zenon
<1>2. QED BY <1>1, Invariance, PTL DEF Spec, RuntimePagesStay

\* Two maps whose pages have the same coverage describe the same pages.
Described(S, p) == \E e \in S : PageIn(e, p)

\* Merging keeps the set of described pages.
LEMMA MergeDescribes ==
  ASSUME NEW S, WellFormed(S), NEW p \in Nat
  PROVE  Described(MergeEntries(S), p) <=> Described(S, p)
<1>1. \A T : Described(T, p) <=> \E t, at : Covers(T, p, t, at)
  BY DEF Described, Covers
<1>2. \A t, at : Covers(MergeEntries(S), p, t, at) <=> Covers(S, p, t, at)
  BY MergeKeepsPages
<1>3. QED BY <1>1, <1>2

\* Retyping pages keeps it too.
LEMMA SplitDescribes ==
  ASSUME NEW S, GoodMap(S), NEW R, NEW e, NEW a \in Nat, NEW n \in Nat \ {0},
         NEW t \in MemoryTypes, NEW at, SplitStep(S, R, e, a, n, t, at), NEW p \in Nat
  PROVE  Described(R, p) <=> Described(S, p)
<1>1. GoodMap(R) /\ at \in SUBSET Attributes /\ Retyped(S, R, a, n, t, at)
  BY SplitStepGood
<1>2. CASE a <= p /\ p < a + n
  <2>1. Covers(R, p, t, at)
    BY <1>1, <1>2 DEF Retyped
  <2>2. Described(R, p)
    BY <2>1 DEF Covers, Described
  <2>3. e \in S /\ e.start \in Nat /\ e.pages \in Nat /\ Contains(e, a, n)
    BY DEF SplitStep, GoodMap, WellFormed, Entry
  <2>4. PageIn(e, p)
    BY <1>2, <2>3 DEF PageIn, Contains, End
  <2>5. QED BY <2>2, <2>3, <2>4 DEF Described
<1>3. CASE ~(a <= p /\ p < a + n)
  <2>1. SameElsewhere(S, R, a, n)
    BY <1>1, RetypedElsewhere DEF GoodMap
  <2>2. p \in Nat \ (a .. a + n - 1)
    BY <1>3
  <2>3. QED BY <2>1, <2>2 DEF SameElsewhere, Described
<1>4. QED BY <1>2, <1>3

\* No page drops out of the map or joins it (MapCoversSamePages).
THEOREM CoverageIsConstant ==
  ASSUME PayloadFits
  PROVE  Spec => MapCoversSamePages
<1>1. ASSUME IInv, [Next]_vars
      PROVE  [phase = "boot" =>
                \A p \in 0 .. MAX_IDENTITY_MAPPED :
                  (\E e \in entries : PageIn(e, p))
                    <=> (\E e \in entries' : PageIn(e, p))]_vars
  <2>1. SUFFICES ASSUME Next, phase = "boot", NEW p \in 0 .. MAX_IDENTITY_MAPPED
                 PROVE  Described(entries, p) <=> Described(entries', p)
    BY <1>1 DEF Described
  <2>0. GoodMap(entries) /\ p \in Nat
    BY <1>1 DEF IInv
  <2>2. CASE UNCHANGED entries
    BY <2>2
  <2>3. CASE \E a \in Nat, n \in Nat \ {0}, t \in MemoryTypes : \E f, at :
               SplitStep(entries, entries', f, a, n, t, at)
    BY <2>0, <2>3, SplitDescribes
  <2>4. CASE entries' = MergeEntries(Reclaimed(entries))
    <3>1. WellFormed(Reclaimed(entries))
      BY <2>0, ExitGood
    <3>2. \A e \in entries : PageIn(Reclaim(e), p) <=> PageIn(e, p)
      BY DEF Reclaim, Descriptor, PageIn, End
    <3>3. Described(Reclaimed(entries), p) <=> Described(entries, p)
      BY <3>2 DEF Described, Reclaimed
    <3>4. QED BY <2>0, <2>4, <3>1, <3>3, MergeDescribes
  <2>5. QED BY <1>1, <2>1, <2>2, <2>3, <2>4, ServiceStep
<1>2. QED BY <1>1, Invariance, PTL DEF Spec, MapCoversSamePages
============================================================================
