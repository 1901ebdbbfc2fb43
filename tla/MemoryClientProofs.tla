------------------------- MODULE MemoryClientProofs -------------------------
(***************************************************************************)
(* What a boot loader may count on: the blocks it holds stay its own, and  *)
(* ExitBootServices accepts no key of an older map.  For every platform,   *)
(* any number of blocks and any requests but one for "ConventionalMemory", *)
(* which the allocator grants without taking the pages away.               *)
(***************************************************************************)
EXTENDS MemoryClient, MemoryAllocatorRefinementProofs

\* A block as it is when it is handed out; it does not change afterwards.
BlockOK(b) ==
  /\ b.start \in Nat /\ b.pages \in Nat \ {0} /\ b.type \in AllocTypes /\ b.size \in Nat
  /\ b.size > 0 => /\ b.size + POOL_HEADER <= b.pages * PAGE_SIZE
                   /\ (b.pages - 1) * PAGE_SIZE < b.size + POOL_HEADER

Apart(b, c) == b.start + b.pages <= c.start \/ c.start + c.pages <= b.start

HasPages(S, b) == \A p \in b.start .. b.start + b.pages - 1 : PageHas(S, p, b.type)

\* The blocks of L are safe in map S.
Safe(S, L) ==
  \A b \in L : b.type \notin LoaderTypes => HasPages(S, b) /\ \A c \in L \ {b} : Apart(b, c)

\* The snapshot is of an older map, or of this one.
SnapshotOK ==
  snapshot # NoSnapshot =>
    /\ snapshot.key \in Nat /\ snapshot.key <= map_key
    /\ snapshot.key = map_key => snapshot.entries = entries

\* The inductive invariant: the allocator's, and the loader's view of it.
CInv ==
  /\ IInv
  /\ phase # "boot" => live = {} /\ snapshot = NoSnapshot
  /\ \A b \in live : BlockOK(b)
  /\ ~boot_services_exited => Safe(entries, live)
  /\ SnapshotOK

----------------------------------------------------------------------------
(* What the calls do to single pages.                                      *)

\* The n pages from a were free or the loader's in S, and are of type t in R;
\* no other page changed its type.
Given(S, R, a, n, t) ==
  /\ \E e \in S : e.type \in LoaderTypes \cup {"ConventionalMemory"} /\ Contains(e, a, n)
  /\ \A p \in a .. a + n - 1 : PageHas(R, p, t)
  /\ \A p \in Nat \ (a .. a + n - 1), u \in MemoryTypes : PageHas(S, p, u) => PageHas(R, p, u)

\* A split changes the type of the pages it is for.
LEMMA SplitPages ==
  ASSUME NEW S, GoodMap(S), NEW R, NEW e, NEW a \in Nat, NEW n \in Nat \ {0},
         NEW t \in MemoryTypes, NEW at, SplitStep(S, R, e, a, n, t, at)
  PROVE  /\ \A p \in a .. a + n - 1 : PageHas(R, p, t)
         /\ \A p \in Nat \ (a .. a + n - 1), u \in MemoryTypes :
              PageHas(S, p, u) => PageHas(R, p, u)
<1>1. Retyped(S, R, a, n, t, at) /\ at \in SUBSET Attributes
  BY SplitStepGood
<1>2. \A f \in S : f.attr \in SUBSET Attributes
  BY DEF GoodMap, WellFormed, Entry
<1>3. ASSUME NEW p \in a .. a + n - 1 PROVE PageHas(R, p, t)
  <2>1. p \in Nat /\ a <= p /\ p < a + n
    OBVIOUS
  <2>2. Covers(R, p, t, at)
    BY <1>1, <2>1 DEF Retyped
  <2>3. QED BY <2>2 DEF Covers, PageHas
<1>4. ASSUME NEW p \in Nat \ (a .. a + n - 1), NEW u \in MemoryTypes, PageHas(S, p, u)
      PROVE  PageHas(R, p, u)
  <2>1. PICK f \in S : f.type = u /\ PageIn(f, p)
    BY <1>4 DEF PageHas
  <2>2. ~(a <= p /\ p < a + n)
    OBVIOUS
  <2>3. Covers(S, p, u, f.attr) /\ f.attr \in SUBSET Attributes
    BY <1>2, <2>1 DEF Covers
  <2>4. Covers(R, p, u, f.attr)
    BY <1>1, <2>2, <2>3 DEF Retyped
  <2>5. QED BY <2>4 DEF Covers, PageHas
<1>5. QED BY <1>3, <1>4

\* AllocateAnyPages gives the pages at the address it returns.
LEMMA BelowGiven ==
  ASSUME NEW S, Ready(S), NEW k, NEW n \in Nat, NEW t \in MemoryTypes, NEW m \in Nat,
         NEW c, c = AllocateBelow(S, k, n, t, m), c.status = "SUCCESS",
         NEW x \in FindFreePages(S, n, m)
  PROVE  /\ x \in Nat /\ n # 0 /\ ~boot_services_exited
         /\ Given(S, c.entries, x, n, t)
<1> DEFINE F == FindFreePages(S, n, m)
           a == CHOOSE y \in F : TRUE
<1>1. n # 0 /\ ~boot_services_exited /\ n < ADDR_SPACE /\ c = CarveOut(S, k, a, n, t)
  BY AddressAssumption DEF AllocateBelow, Result
<1>2. \A y, z \in F : y = z
  BY DEF FindFreePages
<1>3. a = x
  <2>1. x \in F
    OBVIOUS
  <2> HIDE DEF F
  <2>2. QED BY <1>2, <2>1
<1>4. x \in Nat
  BY <1>1, FindFreeAddress DEF Ready, GoodMap
<1>5. CarvedOut(S, k, x, n, t, c)
  BY <1>1, <1>3, <1>4, CarveOutResult DEF Ready
<1> HIDE DEF a, F
<1>7. PICK e, R : /\ SplitStep(S, R, e, x, n, t, RuntimeAttribute(t, e.attr))
                  /\ e.type = "ConventionalMemory"
                  /\ c = Result(R, k + 1, "SUCCESS")
  BY <1>5 DEF CarvedOut, Result
<1>8. c.entries = R
  BY <1>7 DEF Result
<1>9. Given(S, R, x, n, t)
  <2>1. PICK at : SplitStep(S, R, e, x, n, t, at)
    BY <1>7
  <2>2. e \in S /\ Contains(e, x, n) /\ GoodMap(S) /\ n \in Nat \ {0}
    BY <1>1, <2>1 DEF SplitStep, Ready
  <2>3. QED BY <1>4, <1>7, <2>1, <2>2, SplitPages DEF Given
<1>10. QED BY <1>1, <1>4, <1>8, <1>9

\* AllocateAddress gives the pages asked for.
LEMMA AtGiven ==
  ASSUME NEW S, Ready(S), NEW k \in Nat, NEW n \in Nat, NEW t \in MemoryTypes, NEW a \in Nat,
         NEW c, c = AllocateAt(S, k, n, t, a), c.status = "SUCCESS"
  PROVE  n # 0 /\ ~boot_services_exited /\ Given(S, c.entries, a, n, t)
<1> DEFINE found == {f \in S : f.type \in LoaderTypes /\ Contains(f, a, n)}
           g == First(found)
<1>1. /\ n # 0 /\ ~boot_services_exited
      /\ \/ c = CarveOut(S, k, a, n, t)
         \/ c = TryReallocateLoaderRegion(S, k, a, n, t)
  BY DEF AllocateAt, Result
<1>3. ASSUME NEW e \in S, NEW R, NEW at, SplitStep(S, R, e, a, n, t, at),
             e.type \in LoaderTypes \cup {"ConventionalMemory"},
             c = Result(R, k + 1, "SUCCESS")
      PROVE  Given(S, c.entries, a, n, t)
  <2>1. c.entries = R
    BY <1>3 DEF Result
  <2>2. Given(S, R, a, n, t)
    BY <1>1, <1>3, SplitPages DEF Given, SplitStep, Ready
  <2>3. QED BY <2>1, <2>2
<1>4. CASE c = CarveOut(S, k, a, n, t)
  <2>1. CarvedOut(S, k, a, n, t, c)
    BY <1>1, <1>4, CarveOutResult DEF Ready
  <2>2. QED BY <1>1, <1>3, <2>1 DEF CarvedOut, Result
<1>5. CASE c = TryReallocateLoaderRegion(S, k, a, n, t)
  <2>1. Reallocated(S, k, a, n, t, c)
    BY <1>1, <1>5, ReallocateResult DEF Ready
  <2>2. CASE \E e \in S : \E R : /\ SplitStep(S, R, e, a, n, t, e.attr)
                                 /\ e.type \in LoaderTypes
                                 /\ c = Result(R, k + 1, "SUCCESS")
    BY <1>1, <1>3, <2>2
  <2>3. CASE \E st : c = Result(S, k, st)
    <3>1. found # {}
      BY <1>5 DEF TryReallocateLoaderRegion, Result
    <3>2. g \in found
      BY <3>1, FirstMember DEF Ready, GoodMap
    <3>3. CASE g.type = t
      <4>1. c.entries = S
        BY <2>3 DEF Result
      <4>2. g \in S /\ g.type \in LoaderTypes /\ Contains(g, a, n)
        BY <3>2
      <4>3. g.start \in Nat /\ g.pages \in Nat
        BY <4>2 DEF Ready, GoodMap, WellFormed, Entry
      <4> HIDE DEF g
      <4>4. \A p \in a .. a + n - 1 : PageIn(g, p)
        BY <4>2, <4>3 DEF PageIn, Contains, End
      <4>5. QED BY <1>1, <3>3, <4>1, <4>2, <4>4 DEF Given, PageHas
    <3>4. CASE g.type # t
      <4>1. c = ReplaceEntry(S, k, g, Split(g, a, n, t, g.attr), "NOT_FOUND")
        BY <1>5, <3>1, <3>4 DEF TryReallocateLoaderRegion, Result
      <4>2. /\ WellFormed(S) /\ g \in S /\ Contains(g, a, n) /\ g.attr \in SUBSET Attributes
        BY <3>2 DEF Ready, GoodMap, WellFormed, Entry
      <4>3. c.map_key = k + 1 \/ c.status = "NOT_FOUND"
        <5> HIDE DEF g
        <5> QED BY <4>1 DEF ReplaceEntry, Result
      <4>4. QED BY <2>3, <4>3 DEF Result
    <3>5. QED BY <3>3, <3>4
  <2>4. QED BY <2>1, <2>2, <2>3 DEF Reallocated
<1>6. QED BY <1>1, <1>4, <1>5

----------------------------------------------------------------------------
(* What the calls do to the blocks.                                        *)

\* A block in memory that is neither free nor of a loader type lies apart
\* from pages that are given away.
LEMMA GivenIsApart ==
  ASSUME NEW S, WellFormed(S), NEW R, NEW a \in Nat, NEW n \in Nat \ {0}, NEW t,
         Given(S, R, a, n, t), NEW c, c.start \in Nat, c.pages \in Nat \ {0}, HasPages(S, c),
         c.type \notin LoaderTypes \cup {"ConventionalMemory"}
  PROVE  a + n <= c.start \/ c.start + c.pages <= a
<1>1. PICK e \in S : e.type \in LoaderTypes \cup {"ConventionalMemory"} /\ Contains(e, a, n)
  BY DEF Given
<1>2. ASSUME ~(a + n <= c.start \/ c.start + c.pages <= a) PROVE FALSE
  <2>1. PICK p \in Nat : a <= p /\ p < a + n /\ c.start <= p /\ p < c.start + c.pages
    <3>1. CASE a <= c.start
      BY <1>2, <3>1
    <3>2. CASE c.start < a
      BY <1>2, <3>2
    <3>3. QED BY <3>1, <3>2
  <2>2. p \in c.start .. c.start + c.pages - 1
    BY <2>1
  <2>3. PICK f \in S : f.type = c.type /\ PageIn(f, p)
    BY <2>2 DEF HasPages, PageHas
  <2>4. PageIn(e, p)
    <3>1. e.start \in Nat /\ e.pages \in Nat
      BY DEF WellFormed, Entry
    <3>2. QED BY <1>1, <2>1, <3>1 DEF PageIn, Contains, End
  <2>5. e = f
    BY <2>1, <2>3, <2>4, SharedPage
  <2>6. QED BY <1>1, <2>3, <2>5
<1>3. QED BY <1>2

\* A block keeps its pages when only pages outside it change their type.
LEMMA PagesKept ==
  ASSUME NEW S, NEW R, NEW a \in Nat, NEW n \in Nat \ {0}, NEW c, BlockOK(c), HasPages(S, c),
         a + n <= c.start \/ c.start + c.pages <= a,
         \A p \in Nat \ (a .. a + n - 1), u \in MemoryTypes : PageHas(S, p, u) => PageHas(R, p, u)
  PROVE  HasPages(R, c)
<1>1. SUFFICES ASSUME NEW p \in c.start .. c.start + c.pages - 1 PROVE PageHas(R, p, c.type)
  BY DEF HasPages
<1>2. c.start \in Nat /\ c.pages \in Nat /\ c.type \in MemoryTypes
  BY InputAssumption DEF BlockOK
<1>3. p \in Nat \ (a .. a + n - 1)
  BY <1>2
<1>4. PageHas(S, p, c.type)
  BY DEF HasPages
<1>5. QED BY <1>2, <1>3, <1>4

\* An allocation leaves the loader's blocks safe, and the new one is.
LEMMA AllocationIsSafe ==
  ASSUME "ConventionalMemory" \notin AllocTypes, NEW S, WellFormed(S), NEW R, NEW b, BlockOK(b),
         Given(S, R, b.start, b.pages, b.type), NEW L, \A c \in L : BlockOK(c), Safe(S, L)
  PROVE  Safe(R, (L \ {c \in L : c.type \in LoaderTypes /\ Overlaps(c, b.start, b.pages)})
                 \cup {b})
<1> DEFINE K == L \ {c \in L : c.type \in LoaderTypes /\ Overlaps(c, b.start, b.pages)}
<1>0. b.start \in Nat /\ b.pages \in Nat \ {0}
  BY DEF BlockOK
<1>1. ASSUME NEW c \in L, c.type \notin LoaderTypes
      PROVE  /\ b.start + b.pages <= c.start \/ c.start + c.pages <= b.start
             /\ HasPages(R, c)
  <2>1. /\ c.start \in Nat /\ c.pages \in Nat \ {0} /\ HasPages(S, c) /\ BlockOK(c)
        /\ c.type \notin LoaderTypes \cup {"ConventionalMemory"}
    BY <1>1 DEF BlockOK, Safe
  <2>2. b.start + b.pages <= c.start \/ c.start + c.pages <= b.start
    BY <1>0, <2>1, GivenIsApart
  <2>3. QED BY <1>0, <2>1, <2>2, PagesKept DEF Given
<1>2. ASSUME NEW c \in K PROVE Apart(b, c) /\ Apart(c, b)
  <2>1. CASE c.type \notin LoaderTypes
    BY <1>1, <2>1 DEF Apart
  <2>2. CASE c.type \in LoaderTypes
    <3>1. ~Overlaps(c, b.start, b.pages) /\ c.start \in Nat /\ c.pages \in Nat
      BY <2>2 DEF BlockOK
    <3>2. QED BY <1>0, <3>1 DEF Overlaps, End, Apart
  <2>3. QED BY <2>1, <2>2
<1>3. HasPages(R, b)
  BY DEF Given, HasPages
<1>4. ASSUME NEW c \in K, c.type \notin LoaderTypes
      PROVE  HasPages(R, c) /\ \A d \in K \ {c} : Apart(c, d)
  BY <1>1, <1>4 DEF Safe
<1> HIDE DEF K
<1>5. Safe(R, K \cup {b})
  BY <1>2, <1>3, <1>4 DEF Safe
<1>6. QED BY <1>5 DEF K

\* A free leaves the other blocks safe.
LEMMA FreeIsSafe ==
  ASSUME NEW S, NEW R, NEW L, \A c \in L : BlockOK(c), Safe(S, L), NEW b \in L,
         \A p \in Nat \ (b.start .. b.start + b.pages - 1), u \in MemoryTypes :
           PageHas(S, p, u) => PageHas(R, p, u)
  PROVE  Safe(R, L \ {b})
<1>0. b.start \in Nat /\ b.pages \in Nat \ {0}
  BY DEF BlockOK
<1>1. ASSUME NEW c \in L \ {b}, c.type \notin LoaderTypes
      PROVE  HasPages(R, c) /\ \A d \in L \ {b, c} : Apart(c, d)
  <2>1. HasPages(S, c) /\ BlockOK(c) /\ \A d \in L \ {c} : Apart(c, d)
    BY <1>1 DEF Safe
  <2>2. b.start + b.pages <= c.start \/ c.start + c.pages <= b.start
    BY <2>1 DEF Apart
  <2>3. QED BY <1>0, <2>1, <2>2, PagesKept
<1>2. QED BY <1>1 DEF Safe

\* allocate_pool asks for as many pages as the header and the size need.
LEMMA PoolPagesFit ==
  ASSUME NEW size \in Nat
  PROVE  /\ PoolPages(size) \in Nat
         /\ size + POOL_HEADER <= PoolPages(size) * PAGE_SIZE
         /\ (PoolPages(size) - 1) * PAGE_SIZE < size + POOL_HEADER
<1> DEFINE x == size + POOL_HEADER + PAGE_SIZE - 1
           q == x \div PAGE_SIZE
           r == x % PAGE_SIZE
<1>1. PAGE_SIZE \in Nat \ {0} /\ POOL_HEADER \in Nat /\ x \in Nat
  BY PoolAssumption
<1>2. q \in Nat /\ r \in 0 .. PAGE_SIZE - 1 /\ x = PAGE_SIZE * q + r
  <2> HIDE DEF x
  <2> QED BY <1>1
<1> HIDE DEF q, r
<1>3. (q - 1) * PAGE_SIZE = PAGE_SIZE * q - PAGE_SIZE /\ q * PAGE_SIZE = PAGE_SIZE * q
      /\ PAGE_SIZE * q \in Nat
  BY <1>1, <1>2
<1>4. QED BY <1>1, <1>2, <1>3 DEF PoolPages, q

----------------------------------------------------------------------------
(* The invariant is inductive.                                             *)

\* A service call keeps the allocator's invariant and never makes an old
\* snapshot look current.
LEMMA ServeKeeps ==
  ASSUME IInv, SnapshotOK, UNCHANGED <<snapshot, boot_services_exited>>,
         NEW c, Serve(c), Served(entries, map_key, c)
  PROVE  IInv' /\ SnapshotOK' /\ phase = "boot" /\ phase' = "boot"
<1>0. map_key \in Nat
  BY DEF IInv
<1>1. /\ phase = "boot" /\ UNCHANGED <<phase, marked>>
      /\ \/ UNCHANGED <<entries, map_key>>
         \/ /\ map_key' = map_key + 1
            /\ \E a \in Nat, n \in Nat \ {0}, t \in MemoryTypes : \E e, at :
                 SplitStep(entries, entries', e, a, n, t, at)
  BY ServeStep
<1>2. GoodMap(entries') /\ map_key' \in Nat /\ (Merged(entries') \/ UNCHANGED entries)
  BY <1>0, <1>1, SplitStepGood DEF IInv
<1>3. IInv'
  BY <1>1, <1>2 DEF IInv
<1>4. SnapshotOK'
  BY <1>0, <1>1 DEF SnapshotOK, NoSnapshot
<1>5. QED BY <1>1, <1>3, <1>4

\* A call of the loader that returns a block.
LEMMA AcquireStep ==
  ASSUME "ConventionalMemory" \notin AllocTypes, CInv, NEW c, NEW b, Acquire(c, b),
         Served(entries, map_key, c),
         c.status = "SUCCESS" => BlockOK(b) /\ Given(entries, c.entries, b.start, b.pages, b.type)
  PROVE  CInv'
<1>1. IInv' /\ SnapshotOK' /\ phase' = "boot"
  BY ServeKeeps DEF CInv, Acquire
<1>2. /\ entries' = c.entries /\ UNCHANGED boot_services_exited
      /\ live' = IF c.status = "SUCCESS" THEN (live \ Superseded(b)) \cup {b} ELSE live
  BY DEF Acquire, Serve, Return
<1>3. \A x \in live' : BlockOK(x)
  BY <1>2 DEF CInv
<1>4. ~boot_services_exited' => Safe(entries', live')
  <2>1. CASE c.status = "SUCCESS"
    <3>1. WellFormed(entries)
      BY DEF CInv, IInv, GoodMap
    <3>2. (~boot_services_exited => Safe(entries, live)) /\ \A x \in live : BlockOK(x)
      BY DEF CInv
    <3>3. ~boot_services_exited =>
            Safe(c.entries, (live \ {x \in live : x.type \in LoaderTypes
                                                  /\ Overlaps(x, b.start, b.pages)}) \cup {b})
      BY <2>1, <3>1, <3>2, AllocationIsSafe
    <3>4. QED BY <1>2, <2>1, <3>3 DEF Superseded
  <2>2. CASE c.status # "SUCCESS"
    <3>1. c.entries = entries
      BY <2>2 DEF Served, Result
    <3>2. QED BY <1>2, <2>2, <3>1 DEF CInv
  <2>3. QED BY <2>1, <2>2
<1>5. QED BY <1>1, <1>3, <1>4 DEF CInv

\* The fields of a block.
LEMMA BlockFields ==
  ASSUME NEW a, NEW n, NEW t, NEW size
  PROVE  /\ Block(a, n, t, size).start = a /\ Block(a, n, t, size).pages = n
         /\ Block(a, n, t, size).type = t /\ Block(a, n, t, size).size = size
BY DEF Block

\* AllocatePages anywhere, and AllocatePool when the size is in range.
LEMMA AllocateStep ==
  ASSUME "ConventionalMemory" \notin AllocTypes, CInv, NEW n \in Nat, NEW t \in AllocTypes,
         NEW size \in Nat, NEW c, c = AllocateBelow(entries, map_key, n, t, ADDR_SPACE),
         size > 0 => /\ size + POOL_HEADER <= n * PAGE_SIZE
                     /\ (n - 1) * PAGE_SIZE < size + POOL_HEADER,
         NEW a \in IF c.status = "SUCCESS" THEN FindFreePages(entries, n, ADDR_SPACE) ELSE {0},
         Acquire(c, Block(a, n, t, size))
  PROVE  CInv'
<1>1. t \in MemoryTypes /\ ADDR_SPACE \in Nat /\ Ready(entries)
  BY InputAssumption, AddressAssumption, BootReady DEF CInv, Acquire, Serve
<1>2. Served(entries, map_key, c)
  BY <1>1, AllocateBelowServed
<1>3. ASSUME c.status = "SUCCESS"
      PROVE  a \in Nat /\ n # 0 /\ Given(entries, c.entries, a, n, t)
  <2>1. a \in FindFreePages(entries, n, ADDR_SPACE)
    BY <1>3
  <2>2. QED BY <1>1, <1>3, <2>1, BelowGiven
<1> DEFINE b == Block(a, n, t, size)
<1>4. b.start = a /\ b.pages = n /\ b.type = t /\ b.size = size
  BY BlockFields
<1> HIDE DEF b
<1>5. c.status = "SUCCESS" => BlockOK(b) /\ Given(entries, c.entries, b.start, b.pages, b.type)
  BY <1>3, <1>4 DEF BlockOK
<1>6. Acquire(c, b)
  BY DEF b
<1>7. QED BY <1>2, <1>5, <1>6, AcquireStep

\* AllocatePages at an address.
LEMMA AllocateAtStep ==
  ASSUME "ConventionalMemory" \notin AllocTypes, CInv, NEW n \in Sizes, NEW t \in AllocTypes,
         NEW a \in Addresses, ClientAllocateAt(n, t, a)
  PROVE  CInv'
<1> DEFINE b == Block(a, n, t, 0)
<1>0. PICK c : c = AllocateAt(entries, map_key, n, t, a)
  OBVIOUS
<1>1. /\ t \in MemoryTypes /\ n \in Nat /\ a \in Nat /\ map_key \in Nat
      /\ Ready(entries) /\ Acquire(c, b)
  BY <1>0, InputAssumption, BootReady DEF CInv, IInv, ClientAllocateAt, Acquire, Serve
<1>2. Served(entries, map_key, c)
  BY <1>0, <1>1, AllocateAtServed
<1>3. c.status = "SUCCESS" => n # 0 /\ Given(entries, c.entries, a, n, t)
  BY <1>0, <1>1, AtGiven
<1>4. b.start = a /\ b.pages = n /\ b.type = t /\ b.size = 0
  BY BlockFields
<1> HIDE DEF b
<1>5. c.status = "SUCCESS" => BlockOK(b) /\ Given(entries, c.entries, b.start, b.pages, b.type)
  BY <1>1, <1>3, <1>4 DEF BlockOK
<1>6. QED BY <1>1, <1>2, <1>5, AcquireStep

\* AllocatePool.
LEMMA PoolStep ==
  ASSUME "ConventionalMemory" \notin AllocTypes, CInv, NEW size \in PoolSizes,
         NEW t \in AllocTypes, AllocatePool(size, t)
  PROVE  CInv'
<1> DEFINE n == PoolPages(size)
           r == IF size = 0 THEN Result(entries, map_key, "INVALID_PARAMETER")
                ELSE IF PoolOverflows(size) THEN Result(entries, map_key, "OUT_OF_RESOURCES")
                ELSE AllocateBelow(entries, map_key, n, t, ADDR_SPACE)
<1>0. PICK c : c = r
  OBVIOUS
<1>1. PICK a \in IF c.status = "SUCCESS" THEN FindFreePages(entries, n, ADDR_SPACE) ELSE {0} :
        Acquire(c, Block(a, n, t, size))
  BY <1>0 DEF AllocatePool
<1>2. /\ size \in Nat /\ n \in Nat /\ size + POOL_HEADER <= n * PAGE_SIZE
      /\ (n - 1) * PAGE_SIZE < size + POOL_HEADER
  BY PoolPagesFit, PoolAssumption
<1> HIDE DEF n
<1>3. CASE c = AllocateBelow(entries, map_key, n, t, ADDR_SPACE)
  BY <1>1, <1>2, <1>3, AllocateStep
<1>4. CASE \E st : st # "SUCCESS" /\ c = Result(entries, map_key, st)
  <2>0. PICK st : st # "SUCCESS" /\ c = Result(entries, map_key, st)
    BY <1>4
  <2>1. Served(entries, map_key, c) /\ c.status # "SUCCESS"
    <3>1. Served(entries, map_key, c)
      BY <2>0 DEF Served
    <3>2. c.status = st
      BY <2>0 DEF Result
    <3>3. QED BY <2>0, <3>1, <3>2
  <2>2. QED BY <1>1, <2>1, AcquireStep
<1>5. QED BY <1>0, <1>3, <1>4

\* A step that changes nothing keeps the invariant.
LEMMA Unchanged ==
  ASSUME CInv,
         UNCHANGED <<entries, map_key, boot_services_exited, phase, marked, live, snapshot>>
  PROVE  CInv'
BY Zenon DEF CInv, IInv, GoodMap, WellFormed, AttrOK, Coalesced, Merged, Safe, SnapshotOK, BlockOK,
       HasPages, PageHas, Apart

\* FreePages and FreePool.
LEMMA ReleaseStep ==
  ASSUME CInv, NEW b \in live, Release(b)
  PROVE  CInv'
<1>0. PICK c : c = Free(entries, map_key, b.start, b.pages)
  OBVIOUS
<1>1. /\ Serve(c) /\ UNCHANGED <<boot_services_exited, snapshot>>
      /\ live' = IF c.status = "SUCCESS" THEN live \ {b} ELSE live
  BY <1>0 DEF Release
<1>2. /\ b.start \in Nat /\ b.pages \in Nat \ {0} /\ Ready(entries) /\ GoodMap(entries)
      /\ entries' = c.entries /\ \A x \in live : BlockOK(x)
  BY <1>1, BootReady DEF CInv, IInv, BlockOK, Serve, Return
<1>3. Freed(entries, map_key, b.start, b.pages, c)
  BY <1>0, <1>2, FreeResult
<1>4. Served(entries, map_key, c)
  BY <1>0, <1>2, FreeServed
<1>5. IInv' /\ SnapshotOK' /\ phase' = "boot"
  BY <1>1, <1>4, ServeKeeps DEF CInv
<1>6. ASSUME ~boot_services_exited PROVE Safe(entries', live')
  <2>0. Safe(entries, live)
    BY <1>6 DEF CInv
  <2>1. ASSUME NEW st, st # "SUCCESS", c = Result(entries, map_key, st)
        PROVE  Safe(entries', live')
    <3>1. c.status = st /\ c.entries = entries
      BY <2>1 DEF Result
    <3>2. QED BY <1>1, <1>2, <2>0, <2>1, <3>1
  <2>2. ASSUME NEW e, NEW at, NEW R, c = Result(R, map_key + 1, "SUCCESS"),
               SplitStep(entries, R, e, b.start, b.pages, "ConventionalMemory", at)
        PROVE  Safe(entries', live')
    <3>1. c.status = "SUCCESS" /\ c.entries = R
      BY <2>2 DEF Result
    <3>2. "ConventionalMemory" \in MemoryTypes
      BY DEF MemoryTypes
    <3>3. \A p \in Nat \ (b.start .. b.start + b.pages - 1), u \in MemoryTypes :
            PageHas(entries, p, u) => PageHas(R, p, u)
      BY <1>2, <2>2, <3>2, SplitPages
    <3>4. Safe(R, live \ {b})
      BY <1>2, <2>0, <3>3, FreeIsSafe
    <3>5. QED BY <1>1, <1>2, <3>1, <3>4
  <2>3. QED BY <1>3, <2>1, <2>2 DEF Freed
<1>7. \A x \in live' : BlockOK(x)
  BY <1>1, <1>2
<1>8. QED BY <1>1, <1>5, <1>6, <1>7 DEF CInv

\* ExitBootServices: memory is reclaimed, the snapshot becomes an old one.
LEMMA ClientExitStep ==
  ASSUME CInv, ClientExit
  PROVE  /\ CInv'
         /\ boot_services_exited' /\ ~boot_services_exited =>
              snapshot.key = map_key /\ snapshot.entries = entries
<1>0. map_key \in Nat /\ GoodMap(entries) /\ snapshot # NoSnapshot
  BY DEF CInv, IInv, ClientExit
<1>1. phase = "boot" /\ UNCHANGED <<phase, marked, live, snapshot>>
  BY DEF ClientExit, ExitBootServices, Serve
<1>2. CASE snapshot.key = map_key
  <2>1. /\ entries' = MergeEntries(Reclaimed(entries)) /\ map_key' = map_key + 1
        /\ boot_services_exited' = TRUE
    BY <1>2 DEF ClientExit, ExitBootServices, Serve, Return, Result, Reclaimed
  <2>2. GoodMap(entries') /\ Merged(entries')
    BY <1>0, <2>1, ExitGood
  <2>3. IInv'
    BY <1>0, <1>1, <2>1, <2>2 DEF CInv, IInv
  <2>4. SnapshotOK'
    BY <1>0, <1>1, <1>2, <2>1 DEF CInv, SnapshotOK, NoSnapshot
  <2>5. CInv'
    BY <1>1, <2>1, <2>3, <2>4 DEF CInv, BlockOK
  <2>6. QED BY <1>0, <1>2, <2>5 DEF CInv, SnapshotOK
<1>3. CASE snapshot.key # map_key
  <2>1. UNCHANGED <<entries, map_key, boot_services_exited>>
    BY <1>3 DEF ClientExit, ExitBootServices, Serve, Return, Result
  <2>2. CInv'
    BY <1>1, <2>1, Unchanged
  <2>3. QED BY <2>1, <2>2
<1>4. QED BY <1>2, <1>3

\* Every step of the firmware and of the loader keeps the invariant.
LEMMA CInvStep ==
  ASSUME PayloadFits, "ConventionalMemory" \notin AllocTypes, CInv,
         [ClientNext]_<<vars, clientVars>>
  PROVE  CInv'
<1>1. CASE UNCHANGED <<vars, clientVars>>
  BY <1>1, Unchanged DEF vars, clientVars
<1>2. CASE StartUp
  <2>1. Next /\ phase # "boot" /\ UNCHANGED <<live, snapshot, boot_services_exited>>
    BY <1>2 DEF StartUp, Next, clientVars, InitFromCoreboot, ReserveRuntimeRegion,
                MarkAcpiRegion, EnterBootServices
  <2>2. IInv'
    BY <2>1, IInvStep DEF CInv
  <2>3. live' = {} /\ snapshot' = NoSnapshot
    BY <2>1 DEF CInv
  <2>4. SnapshotOK'
    BY <2>3 DEF SnapshotOK, NoSnapshot
  <2>5. QED BY <2>2, <2>3, <2>4 DEF CInv, Safe
<1>3. ASSUME NEW n \in Sizes, NEW t \in AllocTypes, ClientAllocate(n, t) PROVE CInv'
  <2>0. PICK c : c = AllocateBelow(entries, map_key, n, t, ADDR_SPACE)
    OBVIOUS
  <2>1. PICK a \in IF c.status = "SUCCESS" THEN FindFreePages(entries, n, ADDR_SPACE) ELSE {0} :
          Acquire(c, Block(a, n, t, 0))
    BY <1>3, <2>0 DEF ClientAllocate
  <2>2. QED BY <2>0, <2>1, AllocateStep, InputAssumption
<1>4. ASSUME NEW n \in BufferEntries, GetMemoryMap(n) PROVE CInv'
  <2>1. /\ UNCHANGED <<entries, map_key, boot_services_exited, phase, marked, live>>
        /\ phase = "boot"
        /\ snapshot' = snapshot \/ snapshot' = [key |-> map_key, entries |-> entries]
    BY <1>4 DEF GetMemoryMap, vars
  <2>2. CASE snapshot' = snapshot
    BY <2>1, <2>2, Unchanged
  <2>3. CASE snapshot' = [key |-> map_key, entries |-> entries]
    <3>1. SnapshotOK'
      BY <2>1, <2>3 DEF CInv, IInv, SnapshotOK, NoSnapshot
    <3>2. IInv' /\ (~boot_services_exited' => Safe(entries', live')) /\ \A b \in live' : BlockOK(b)
      BY <2>1 DEF CInv, IInv, Safe, BlockOK
    <3>3. QED BY <2>1, <3>1, <3>2 DEF CInv
  <2>4. QED BY <2>1, <2>2, <2>3
<1>5. QED
  BY <1>1, <1>2, <1>3, <1>4, AllocateAtStep, PoolStep, ReleaseStep, ClientExitStep DEF ClientNext

----------------------------------------------------------------------------
(* The properties.                                                         *)

\* The allocator and the loader keep the invariant of both.
THEOREM ClientInvariance ==
  ASSUME PayloadFits, "ConventionalMemory" \notin AllocTypes
  PROVE  ClientSpec => []CInv
<1>1. ClientInit => CInv
  BY IInvInit DEF ClientInit, CInv, SnapshotOK, NoSnapshot, Safe, Init
<1>2. CInv /\ [ClientNext]_<<vars, clientVars>> => CInv'
  BY CInvStep
<1>3. QED BY <1>1, <1>2, PTL DEF ClientSpec

\* The pages of a block stay the loader's while it holds them, and a pool
\* block has room for what it was asked for (allocate_pages, allocate_pool,
\* free_pages; HeldBlocksAreSafe).
THEOREM BlocksStaySafe ==
  ASSUME PayloadFits, "ConventionalMemory" \notin AllocTypes
  PROVE  ClientSpec => []HeldBlocksAreSafe
<1>1. CInv => HeldBlocksAreSafe
  BY DEF CInv, HeldBlocksAreSafe, Safe, HasPages, Apart, BlockOK
<1>2. QED BY <1>1, ClientInvariance, PTL

\* exit_boot_services succeeds only with the key of the map as it is
\* (ExitWithCurrentMap).
THEOREM ExitKeyIsCurrent ==
  ASSUME PayloadFits, "ConventionalMemory" \notin AllocTypes
  PROVE  ClientSpec => ExitWithCurrentMap
<1>1. CInv /\ [ClientNext]_<<vars, clientVars>> =>
        [boot_services_exited' /\ ~boot_services_exited =>
           snapshot.key = map_key /\ snapshot.entries = entries]_<<vars, clientVars>>
  <2>1. SUFFICES ASSUME CInv, ClientNext, boot_services_exited', ~boot_services_exited
                 PROVE  snapshot.key = map_key /\ snapshot.entries = entries
    OBVIOUS
  <2>2. CASE ClientExit
    BY <2>1, <2>2, ClientExitStep
  <2>3. CASE ~ClientExit
    BY <2>1, <2>3, Zenon DEF ClientNext, StartUp, InitFromCoreboot, ReserveRuntimeRegion,
         MarkAcpiRegion, EnterBootServices, ClientAllocate, ClientAllocateAt, AllocatePool,
         Acquire, Release, GetMemoryMap, vars
  <2>4. QED BY <2>2, <2>3
<1>2. QED BY <1>1, ClientInvariance, PTL DEF ClientSpec, ExitWithCurrentMap

\* Every call of the loader but ExitBootServices and GetMemoryMap is a service
\* step of the allocator, AllocatePool's whatever its number of pages.
LEMMA CallsAreServed ==
  ASSUME CInv,
         \/ \E n \in Sizes, t \in AllocTypes : ClientAllocate(n, t)
         \/ \E n \in Sizes, t \in AllocTypes, a \in Addresses : ClientAllocateAt(n, t, a)
         \/ \E size \in PoolSizes, t \in AllocTypes : AllocatePool(size, t)
         \/ \E b \in live : Release(b)
  PROVE  \E c : Serve(c) /\ Served(entries, map_key, c) /\ UNCHANGED boot_services_exited
<1>0. phase = "boot" => Ready(entries)
  BY BootReady DEF CInv
<1>1. AllocTypes \subseteq MemoryTypes /\ Sizes \subseteq Nat /\ Addresses \subseteq Nat
      /\ ADDR_SPACE \in Nat
  BY InputAssumption, AddressAssumption
<1>2. ASSUME NEW n \in Sizes, NEW t \in AllocTypes, ClientAllocate(n, t)
      PROVE  /\ Serve(AllocateBelow(entries, map_key, n, t, ADDR_SPACE))
             /\ UNCHANGED boot_services_exited
             /\ Served(entries, map_key, AllocateBelow(entries, map_key, n, t, ADDR_SPACE))
  <2>1. /\ Serve(AllocateBelow(entries, map_key, n, t, ADDR_SPACE))
        /\ UNCHANGED boot_services_exited
    BY <1>2 DEF ClientAllocate, Acquire
  <2>2. QED BY <1>0, <1>1, <2>1, AllocateBelowServed DEF Serve
<1>3. ASSUME NEW n \in Sizes, NEW t \in AllocTypes, NEW a \in Addresses,
             ClientAllocateAt(n, t, a)
      PROVE  /\ Serve(AllocateAt(entries, map_key, n, t, a))
             /\ UNCHANGED boot_services_exited
             /\ Served(entries, map_key, AllocateAt(entries, map_key, n, t, a))
  <2>1. /\ Serve(AllocateAt(entries, map_key, n, t, a))
        /\ UNCHANGED boot_services_exited
    BY <1>3 DEF ClientAllocateAt, Acquire
  <2>2. QED BY <1>0, <1>1, <2>1, AllocateAtServed DEF Serve
<1>4. ASSUME NEW size \in PoolSizes, NEW t \in AllocTypes, AllocatePool(size, t)
      PROVE  \E c : Serve(c) /\ Served(entries, map_key, c) /\ UNCHANGED boot_services_exited
  <2> DEFINE n == PoolPages(size)
             r == IF size = 0 THEN Result(entries, map_key, "INVALID_PARAMETER")
                  ELSE IF PoolOverflows(size) THEN Result(entries, map_key, "OUT_OF_RESOURCES")
                  ELSE AllocateBelow(entries, map_key, n, t, ADDR_SPACE)
  <2>0. PICK c : c = r
    OBVIOUS
  <2>1. Serve(c) /\ UNCHANGED boot_services_exited
    BY <1>4, <2>0 DEF AllocatePool, Acquire
  <2>2. n \in Nat /\ Ready(entries)
    BY <1>0, <2>1, PoolPagesFit, PoolAssumption DEF Serve
  <2> HIDE DEF n
  <2>3. Served(entries, map_key, AllocateBelow(entries, map_key, n, t, ADDR_SPACE))
    BY <1>1, <2>2, AllocateBelowServed
  <2>4. Served(entries, map_key, c)
    BY <2>0, <2>3 DEF Served
  <2>5. QED BY <2>1, <2>4
<1>5. ASSUME NEW b \in live, Release(b)
      PROVE  /\ Serve(Free(entries, map_key, b.start, b.pages))
             /\ UNCHANGED boot_services_exited
             /\ Served(entries, map_key, Free(entries, map_key, b.start, b.pages))
  <2>1. /\ Serve(Free(entries, map_key, b.start, b.pages))
        /\ UNCHANGED boot_services_exited
    BY <1>5 DEF Release
  <2>2. b.start \in Nat /\ b.pages \in Nat
    BY DEF CInv, BlockOK
  <2>3. QED BY <1>0, <2>1, <2>2, FreeServed DEF Serve
<1>6. QED BY <1>2, <1>3, <1>4, <1>5

\* The allocator still implements PageMap when a loader drives it, pool
\* allocations included (ImplementsPageMap).
THEOREM ClientRefinement ==
  ASSUME PayloadFits, "ConventionalMemory" \notin AllocTypes
  PROVE  ClientSpec => ImplementsPageMap
<1>1. ClientInit => Abstract!Init
  BY TypeAtAbsent DEF ClientInit, Init, Abstract!Init, Abstract!Absent
<1>2. CInv /\ [ClientNext]_<<vars, clientVars>> => [Abstract!Next]_Abstract!pvars
  <2>1. SUFFICES ASSUME CInv, [ClientNext]_<<vars, clientVars>>
                 PROVE  [Abstract!Next]_Abstract!pvars
    OBVIOUS
  <2>2. IInv /\ IInv'
    BY <2>1, CInvStep DEF CInv
  <2>3. CASE UNCHANGED vars
    BY <2>3 DEF vars, Abstract!pvars
  <2>4. CASE EnterBootServices
    <3>1. Abstract!Start
      BY <2>4 DEF EnterBootServices, Abstract!Start
    <3>2. QED BY <3>1 DEF Abstract!Next
  <2>5. CASE phase # "boot" /\ phase' # "boot" /\ UNCHANGED boot_services_exited
    <3>1. Abstract!SetUp
      BY <2>2, <2>5, StartUpIsSetUp
    <3>2. QED BY <3>1 DEF Abstract!Next
  <2>6. ASSUME NEW c, Serve(c), Served(entries, map_key, c), UNCHANGED boot_services_exited
        PROVE  [Abstract!Next]_Abstract!pvars
    <3>1. /\ phase = "boot" /\ UNCHANGED phase
          /\ \/ UNCHANGED <<entries, map_key>>
             \/ /\ ~boot_services_exited
                /\ \E a \in Nat, n \in Nat \ {0}, t \in MemoryTypes : \E e, at :
                     SplitStep(entries, entries', e, a, n, t, at)
      BY <2>2, <2>6, ServeStep
    <3>2. CASE UNCHANGED entries
      BY <2>6, <3>1, <3>2 DEF Abstract!pvars
    <3>3. CASE /\ ~boot_services_exited
               /\ \E a \in Nat, n \in Nat \ {0}, t \in MemoryTypes : \E e, at :
                    SplitStep(entries, entries', e, a, n, t, at)
      <4>1. Abstract!Next
        BY <2>2, <2>6, <3>1, <3>3, SplitIsRetype
      <4>2. QED BY <4>1
    <3>4. QED BY <3>1, <3>2, <3>3
  <2>7. CASE ClientExit
    <3>1. CASE snapshot.key = map_key
      <4>1. /\ entries' = MergeEntries(Reclaimed(entries)) /\ boot_services_exited' = TRUE
            /\ phase = "boot" /\ UNCHANGED phase
        BY <2>7, <3>1 DEF ClientExit, ExitBootServices, Serve, Return, Result, Reclaimed
      <4>2. Abstract!Exit
        BY <2>2, <4>1, ExitIsExit
      <4>3. QED BY <4>2 DEF Abstract!Next
    <3>2. CASE snapshot.key # map_key
      BY <2>7, <3>2 DEF ClientExit, ExitBootServices, Serve, Return, Result, Abstract!pvars
    <3>3. QED BY <3>1, <3>2
  <2>8. CASE StartUp
    BY <2>4, <2>5, <2>8, Zenon
       DEF StartUp, InitFromCoreboot, ReserveRuntimeRegion, MarkAcpiRegion
  <2>9. CASE \E n \in BufferEntries : GetMemoryMap(n)
    BY <2>3, <2>9 DEF GetMemoryMap
  <2>10. QED
    BY <2>1, <2>3, <2>6, <2>7, <2>8, <2>9, CallsAreServed DEF ClientNext
<1>3. QED BY <1>1, <1>2, ClientInvariance, PTL
          DEF ClientSpec, ImplementsPageMap, Abstract!Spec
=============================================================================
