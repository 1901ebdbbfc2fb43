------------------ MODULE MemoryAllocatorRefinementProofs ------------------
(***************************************************************************)
(* Every step of the allocator is a step of PageMap or leaves it alone.    *)
(***************************************************************************)
EXTENDS MemoryAllocatorRefinement, MemoryAllocatorProofs

AllPages == 0 .. ADDR_SPACE - 1

PTypes(S) == [p \in AllPages |-> TypeAt(S, p)]

\* In a well-formed map a page has the type of any descriptor that covers it.
LEMMA TypeAtCovers ==
  ASSUME NEW S, WellFormed(S), NEW p \in Nat, NEW e \in S, PageIn(e, p)
  PROVE  TypeAt(S, p) = e.type
<1>1. \A f \in S : PageIn(f, p) => f = e
  BY SharedPage
<1>2. QED BY <1>1 DEF TypeAt

\* A page no descriptor covers is absent.
LEMMA TypeAtAbsent ==
  ASSUME NEW S, NEW p, ~ \E e \in S : PageIn(e, p)
  PROVE  TypeAt(S, p) = "Absent"
BY DEF TypeAt

\* The type of a page is one of the types.
LEMMA TypeAtType ==
  ASSUME NEW S, WellFormed(S), NEW p \in Nat
  PROVE  TypeAt(S, p) \in MemoryTypes \cup {"Absent"}
<1>1. CASE \E e \in S : PageIn(e, p)
  BY <1>1, TypeAtCovers DEF WellFormed, Entry
<1>2. CASE ~ \E e \in S : PageIn(e, p)
  BY <1>2, TypeAtAbsent
<1>3. QED BY <1>1, <1>2

\* Maps with the same coverage of a page give it the same type.
LEMMA SameCoverSameType ==
  ASSUME NEW S, WellFormed(S), NEW R, WellFormed(R), NEW p \in Nat,
         \A t \in MemoryTypes, at \in SUBSET Attributes :
           Covers(R, p, t, at) <=> Covers(S, p, t, at)
  PROVE  TypeAt(R, p) = TypeAt(S, p)
<1>0. \A e \in R \cup S : e.type \in MemoryTypes /\ e.attr \in SUBSET Attributes
  BY DEF WellFormed, Entry
<1>1. CASE \E e \in S : PageIn(e, p)
  <2>1. PICK e \in S : PageIn(e, p)
    BY <1>1
  <2>2. Covers(R, p, e.type, e.attr)
    <3>1. Covers(S, p, e.type, e.attr)
      BY <2>1 DEF Covers
    <3>2. QED BY <1>0, <3>1
  <2>3. PICK f \in R : PageIn(f, p) /\ f.type = e.type
    BY <2>2 DEF Covers
  <2>4. QED BY <2>1, <2>3, TypeAtCovers
<1>2. CASE ~ \E e \in S : PageIn(e, p)
  <2>1. ~ \E f \in R : PageIn(f, p)
    BY <1>0, <1>2 DEF Covers
  <2>2. QED BY <1>2, <2>1, TypeAtAbsent
<1>3. QED BY <1>1, <1>2

\* A split gives its pages the new type and leaves the others alone.
LEMMA SplitTypes ==
  ASSUME NEW S, GoodMap(S), NEW R, NEW e, NEW a \in Nat, NEW n \in Nat \ {0},
         NEW t \in MemoryTypes, NEW at, SplitStep(S, R, e, a, n, t, at), NEW p \in Nat
  PROVE  /\ TypeAt(R, p) = IF p \in a .. a + n - 1 THEN t ELSE TypeAt(S, p)
         /\ p \in a .. a + n - 1 => TypeAt(S, p) = e.type
<1>1. /\ WellFormed(S) /\ WellFormed(R) /\ at \in SUBSET Attributes
      /\ Retyped(S, R, a, n, t, at)
  BY SplitStepGood DEF GoodMap
<1>2. CASE p \in a .. a + n - 1
  <2>1. Covers(R, p, t, at)
    BY <1>1, <1>2 DEF Retyped
  <2>2. PICK f \in R : PageIn(f, p) /\ f.type = t
    BY <2>1 DEF Covers
  <2>3. TypeAt(R, p) = t
    BY <1>1, <2>2, TypeAtCovers
  <2>4. e \in S /\ e.start \in Nat /\ e.pages \in Nat /\ Contains(e, a, n)
    BY <1>1 DEF SplitStep, WellFormed, Entry
  <2>5. PageIn(e, p)
    BY <1>2, <2>4 DEF PageIn, Contains, End
  <2>6. QED BY <1>1, <1>2, <2>3, <2>4, <2>5, TypeAtCovers
<1>3. CASE p \notin a .. a + n - 1
  <2>1. \A t2 \in MemoryTypes, at2 \in SUBSET Attributes :
          Covers(R, p, t2, at2) <=> Covers(S, p, t2, at2)
    BY <1>1, <1>3 DEF Retyped
  <2>2. QED BY <1>1, <1>3, <2>1, SameCoverSameType
<1>4. QED BY <1>2, <1>3

\* A split of the map is an allocation or a free of pages.
LEMMA SplitIsRetype ==
  ASSUME IInv, phase = "boot", ~boot_services_exited, UNCHANGED <<phase, boot_services_exited>>,
         NEW a \in Nat, NEW n \in Nat \ {0}, NEW t \in MemoryTypes, NEW e, NEW at,
         SplitStep(entries, entries', e, a, n, t, at)
  PROVE  Abstract!Next
<1> DEFINE b == a + n - 1
<1>0. GoodMap(entries) /\ ADDR_SPACE \in Nat
  BY AddressAssumption DEF IInv
<1>1. /\ e \in entries /\ e.start \in Nat /\ e.pages \in Nat /\ End(e) < ADDR_SPACE
      /\ Contains(e, a, n) /\ Legal(e, t, at)
  BY <1>0 DEF GoodMap, WellFormed, Entry, SplitStep
<1>2. a \in AllPages /\ b \in AllPages
  BY <1>0, <1>1 DEF AllPages, Contains, End
<1>3. \A p \in AllPages :
        /\ TypeAt(entries', p) = IF p \in a .. b THEN t ELSE TypeAt(entries, p)
        /\ p \in a .. b => TypeAt(entries, p) = e.type
  BY <1>0, SplitTypes DEF AllPages
<1>4. \A p \in a .. b : p \in AllPages
  BY <1>0, <1>2 DEF AllPages
<1>5. PTypes(entries') = [p \in AllPages |-> IF p \in a .. b THEN t ELSE PTypes(entries)[p]]
  BY <1>3 DEF PTypes
<1>6. \A p \in a .. b : PTypes(entries)[p] = e.type
  BY <1>3, <1>4 DEF PTypes
<1> HIDE DEF b
<1>7. ASSUME NEW from, e.type \in from PROVE Abstract!Retype(a, b, from, t)
  BY <1>5, <1>6, <1>7 DEF Abstract!Retype, PTypes, AllPages
<1>8. CASE e.type \in LoaderTypes \cup {"ConventionalMemory"}
  <2>1. Abstract!Allocate(a, b, t)
    BY <1>7, <1>8 DEF Abstract!Allocate, Abstract!Conventional
  <2>2. QED BY <1>2, <2>1 DEF Abstract!Next, AllPages
<1>9. CASE e.type \in BootServicesTypes /\ t = "ConventionalMemory"
  <2>1. Abstract!Free(a, b)
    BY <1>7, <1>9 DEF Abstract!Free, Abstract!Conventional
  <2>2. QED BY <1>2, <2>1 DEF Abstract!Next, AllPages
<1>10. QED BY <1>1, <1>8, <1>9 DEF Legal

\* ExitBootServices reclaims pages.
LEMMA ExitIsExit ==
  ASSUME IInv, phase = "boot", UNCHANGED phase, boot_services_exited' = TRUE,
         entries' = MergeEntries(Reclaimed(entries))
  PROVE  Abstract!Exit
<1> DEFINE C == "ConventionalMemory"
           T == Reclaimed(entries)
<1>0. GoodMap(entries) /\ WellFormed(entries) /\ WellFormed(T) /\ WellFormed(entries')
  BY ExitGood DEF IInv, GoodMap
<1>1. ASSUME NEW p \in Nat
      PROVE  TypeAt(entries', p) =
               IF TypeAt(entries, p) \in BootServicesTypes THEN C ELSE TypeAt(entries, p)
  <2>1. TypeAt(entries', p) = TypeAt(T, p)
    <3>1. \A t \in MemoryTypes, at \in SUBSET Attributes :
            Covers(entries', p, t, at) <=> Covers(T, p, t, at)
      BY <1>0, MergeKeepsPages
    <3> HIDE DEF T
    <3>2. QED BY <1>0, <3>1, SameCoverSameType
  <2>2. \A e \in entries : PageIn(Reclaim(e), p) <=> PageIn(e, p)
    BY DEF Reclaim, Descriptor, PageIn, End
  <2>3. CASE \E e \in entries : PageIn(e, p)
    <3>1. PICK e \in entries : PageIn(e, p)
      BY <2>3
    <3>2. Reclaim(e) \in T /\ PageIn(Reclaim(e), p)
      BY <2>2, <3>1 DEF Reclaimed
    <3>3. Reclaim(e).type = IF e.type \in BootServicesTypes THEN C ELSE e.type
      BY DEF Reclaim, Descriptor
    <3> HIDE DEF T
    <3>4. TypeAt(T, p) = Reclaim(e).type /\ TypeAt(entries, p) = e.type
      BY <1>0, <3>1, <3>2, TypeAtCovers
    <3>5. QED BY <2>1, <3>3, <3>4
  <2>4. CASE ~ \E e \in entries : PageIn(e, p)
    <3>1. ~ \E e \in T : PageIn(e, p)
      BY <2>2, <2>4 DEF Reclaimed
    <3>2. TypeAt(T, p) = "Absent" /\ TypeAt(entries, p) = "Absent"
      BY <2>4, <3>1, TypeAtAbsent
    <3>3. QED BY <2>1, <3>2 DEF BootServicesTypes, LoaderTypes
  <2>5. QED BY <2>3, <2>4
<1>2. PTypes(entries') = [p \in AllPages |->
                            IF PTypes(entries)[p] \in BootServicesTypes THEN C
                            ELSE PTypes(entries)[p]]
  BY <1>1 DEF PTypes, AllPages
<1>3. QED BY <1>2 DEF Abstract!Exit, Abstract!Conventional, PTypes, AllPages

\* Start-up only fills in the page map.
LEMMA StartUpIsSetUp ==
  ASSUME IInv, IInv', phase # "boot", phase' # "boot", UNCHANGED boot_services_exited
  PROVE  Abstract!SetUp
<1>1. WellFormed(entries')
  BY DEF IInv, GoodMap
<1>2. \A p \in AllPages : TypeAt(entries', p) \in MemoryTypes \cup {"Absent"}
  BY <1>1, TypeAtType DEF AllPages
<1>3. QED BY <1>2 DEF Abstract!SetUp, Abstract!Absent, AllPages

\* The allocator implements PageMap (ImplementsPageMap).
THEOREM Refinement ==
  ASSUME PayloadFits
  PROVE  Spec => ImplementsPageMap
<1>1. Init => Abstract!Init
  BY TypeAtAbsent DEF Init, Abstract!Init, Abstract!Absent
<1>2. IInv /\ [Next]_vars => [Abstract!Next]_Abstract!pvars
  <2>1. SUFFICES ASSUME IInv, [Next]_vars PROVE [Abstract!Next]_Abstract!pvars
    OBVIOUS
  <2>2. IInv'
    BY <2>1, IInvStep
  <2>3. CASE UNCHANGED vars
    BY <2>3 DEF vars, Abstract!pvars
  <2>4. CASE phase = "boot" /\ Next
    <3>1. CASE UNCHANGED <<entries, map_key, boot_services_exited>>
      BY <2>1, <2>4, <3>1, ServiceStep DEF Abstract!pvars
    <3>2. CASE /\ ~boot_services_exited /\ UNCHANGED boot_services_exited
               /\ \E a \in Nat, n \in Nat \ {0}, t \in MemoryTypes : \E e, at :
                    SplitStep(entries, entries', e, a, n, t, at)
      <4>1. UNCHANGED <<phase, boot_services_exited>>
        BY <2>1, <2>4, <3>2, ServiceStep
      <4>2. Abstract!Next
        BY <2>1, <2>4, <3>2, <4>1, SplitIsRetype
      <4>3. QED BY <4>2
    <3>3. CASE /\ map_key' = map_key + 1 /\ boot_services_exited' = TRUE
               /\ entries' = MergeEntries(Reclaimed(entries))
      <4>1. UNCHANGED phase
        BY <2>1, <2>4, ServiceStep
      <4>2. Abstract!Exit
        BY <2>1, <2>4, <3>3, <4>1, ExitIsExit
      <4>3. QED BY <4>2 DEF Abstract!Next
    <3>4. QED BY <2>1, <2>4, <3>1, <3>2, <3>3, ServiceStep
  <2>5. CASE EnterBootServices
    <3>1. Abstract!Start
      BY <2>5 DEF EnterBootServices, Abstract!Start
    <3>2. QED BY <3>1 DEF Abstract!Next
  <2>6. CASE phase # "boot" /\ phase' # "boot" /\ UNCHANGED boot_services_exited
    <3>1. Abstract!SetUp
      BY <2>1, <2>2, <2>6, StartUpIsSetUp
    <3>2. QED BY <3>1 DEF Abstract!Next
  <2>7. QED
    BY <2>1, <2>3, <2>4, <2>5, <2>6, Zenon
       DEF Next, InitFromCoreboot, ReserveRuntimeRegion, MarkAcpiRegion, AllocateAnyPages,
           AllocateMaxAddress, AllocateAddress, FreePages, ExitBootServices, Serve
<1>3. QED BY <1>1, <1>2, Invariance, PTL DEF Spec, ImplementsPageMap, Abstract!Spec
============================================================================
