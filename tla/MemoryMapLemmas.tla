-------------------------- MODULE MemoryMapLemmas --------------------------
(***************************************************************************)
(* Facts about the operators MemoryAllocator is built from: what           *)
(* merge_entries and the split of a descriptor do to the pages of the map. *)
(***************************************************************************)
EXTENDS MemoryAllocator, FiniteSetTheorems, TLAPS

\* A finite set of descriptors inside the address space, no two overlapping.
WellFormed(S) ==
  /\ S \subseteq Entry
  /\ IsFiniteSet(S)
  /\ \A e \in S : End(e) < ADDR_SPACE
  /\ \A e, f \in S : e # f => End(e) <= f.start \/ End(f) <= e.start

\* Page p is described as memory of type t and attribute at.
Covers(S, p, t, at) == \E e \in S : PageIn(e, p) /\ e.type = t /\ e.attr = at

\* Every non-empty set of natural numbers has a least element.  It stands in
\* for induction in the lemmas below.
LEMMA LeastElement ==
  ASSUME NEW T \in SUBSET Nat, T # {}
  PROVE  \E x \in T : \A y \in T : x <= y
<1> DEFINE R == {p \in Nat \X Nat : p[1] < p[2]}
<1>1. IsWellFoundedOn(R, Nat)
  BY NatLessThanWellFounded DEF OpToRel
<1>2. \E x \in T : \A y \in T : ~ (<<y, x>> \in R)
  <2> HIDE DEF R
  <2> QED BY <1>1, WFMin
<1>3. PICK x \in T : \A y \in T : ~ (<<y, x>> \in R)
  BY <1>2
<1>4. ASSUME NEW y \in T PROVE x <= y
  <2>0. x \in Nat /\ y \in Nat
    OBVIOUS
  <2>1. <<y, x>> \notin R
    BY <1>3, <1>4
  <2>2. y < x => <<y, x>> \in R
    BY <2>0
  <2>3. QED BY <2>0, <2>1, <2>2
<1>5. QED BY <1>4

\* Two descriptors of a well-formed map that share a page are the same one.
LEMMA SharedPage ==
  ASSUME NEW S, WellFormed(S), NEW e \in S, NEW f \in S,
         NEW p \in Nat, PageIn(e, p), PageIn(f, p)
  PROVE  e = f
BY DEF WellFormed, Entry, End, PageIn

\* Descriptors of a well-formed map are told apart by their start address.
LEMMA SameStart ==
  ASSUME NEW S, WellFormed(S), NEW e \in S, NEW f \in S, e.start = f.start
  PROVE  e = f
BY DEF WellFormed, Entry, End

\* The pages between the first and the last descriptor of a run are all
\* described, by descriptors of the run and of its type and attribute.
LEMMA RunIsCovered ==
  ASSUME NEW S, WellFormed(S), NEW h \in S, NEW t \in S,
         h.start <= t.start, InRun(S, h, t)
  PROVE  \A p \in Nat : h.start <= p /\ p < End(t) =>
           \E e \in S : /\ PageIn(e, p) /\ h.start <= e.start /\ e.start <= t.start
                        /\ e.type = h.type /\ e.attr = h.attr
<1> DEFINE In(p) == \E e \in S : /\ PageIn(e, p)
                                 /\ h.start <= e.start /\ e.start <= t.start
                                 /\ e.type = h.type /\ e.attr = h.attr
           Bad == {p \in Nat : h.start <= p /\ p < End(t) /\ ~In(p)}
<1>0. /\ \A e \in S : e.start \in Nat /\ e.pages \in Nat /\ e.pages > 0
      /\ h.start \in Nat /\ t.start \in Nat
  BY DEF WellFormed, Entry
<1>1. SUFFICES ASSUME Bad # {} PROVE FALSE
  OBVIOUS
<1>2. PICK p \in Bad : \A q \in Bad : p <= q
  <2>1. Bad \in SUBSET Nat
    OBVIOUS
  <2> HIDE DEF Bad
  <2>2. QED BY <2>1, <1>1, LeastElement
<1>3. p \in Nat /\ h.start <= p /\ p < End(t) /\ ~In(p)
  OBVIOUS
<1>4. p # h.start
  <2>1. In(h.start)
    BY <1>0 DEF PageIn, End
  <2>2. QED BY <1>3, <2>1
<1>5. p - 1 \in Nat /\ h.start <= p - 1 /\ p - 1 < End(t) /\ p - 1 < p
  BY <1>0, <1>3, <1>4 DEF End
<1>6. In(p - 1)
  <2>1. p - 1 \notin Bad
    BY <1>2, <1>3, <1>5
  <2>2. QED BY <2>1, <1>5
<1>7. PICK e \in S : /\ PageIn(e, p - 1) /\ h.start <= e.start /\ e.start <= t.start
                     /\ e.type = h.type /\ e.attr = h.attr
  BY <1>6
<1>8. ~PageIn(e, p)
  BY <1>3, <1>7
<1>9. p = End(e)
  BY <1>0, <1>3, <1>5, <1>7, <1>8 DEF PageIn, End
<1>10. e # t
  BY <1>3, <1>9, <1>0 DEF End
<1>11. e.start < t.start
  BY <1>0, <1>7, <1>10, SameStart
<1>12. PICK f \in S : Mergeable(S, e, f)
  BY <1>7, <1>11 DEF InRun
<1>13. f.start = p /\ f.type = h.type /\ f.attr = h.attr /\ f.start <= t.start
  BY <1>0, <1>7, <1>9, <1>11, <1>12 DEF Mergeable
<1>14. In(p)
  <2>1. PageIn(f, p)
    BY <1>0, <1>13 DEF PageIn, End
  <2>2. h.start <= f.start
    BY <1>3, <1>13
  <2>3. QED BY <2>1, <2>2, <1>13
<1>15. QED BY <1>3, <1>14

\* Every descriptor lies in a run that starts at a head ...
LEMMA RunHead ==
  ASSUME NEW S, WellFormed(S), NEW e \in S
  PROVE  \E h \in S : /\ h.start <= e.start /\ InRun(S, h, e)
                      /\ ~ \E g \in S : Mergeable(S, g, h)
<1> DEFINE T == {n \in Nat : \E h \in S : /\ h.start = n /\ h.start <= e.start
                                          /\ InRun(S, h, e)}
<1>0. \A g \in S : g.start \in Nat /\ g.pages \in Nat /\ g.pages > 0
  BY DEF WellFormed, Entry
<1>1. InRun(S, e, e)
  BY <1>0 DEF InRun
<1>2. e.start \in T
  BY <1>0, <1>1
<1>3. PICK n \in T : \A m \in T : n <= m
  <2>1. T \in SUBSET Nat /\ T # {}
    BY <1>2
  <2> HIDE DEF T
  <2>2. QED BY <2>1, LeastElement
<1>4. PICK h \in S : h.start = n /\ h.start <= e.start /\ InRun(S, h, e)
  BY <1>3
<1>5. ASSUME NEW g \in S, Mergeable(S, g, h) PROVE FALSE
  <2>1. g.start < h.start
    BY <1>0, <1>5 DEF Mergeable, End
  <2>2. InRun(S, g, e)
    <3>1. SUFFICES ASSUME NEW x \in S, g.start <= x.start, x.start < e.start
                   PROVE  \E f \in S : Mergeable(S, x, f)
      BY DEF InRun
    <3>2. CASE h.start <= x.start
      BY <1>4, <3>1, <3>2 DEF InRun
    <3>3. CASE x.start < h.start
      <4>1. x.start = g.start
        BY <1>0, <1>5, <3>1, <3>3 DEF Mergeable
      <4>2. x = g
        BY <4>1, SameStart
      <4>3. QED BY <4>2, <1>5
    <3>4. QED BY <1>0, <3>2, <3>3
  <2>3. g.start \in T
    BY <1>0, <1>4, <2>1, <2>2
  <2>4. n <= g.start
    BY <1>3, <2>3
  <2>5. QED BY <1>0, <1>4, <2>1, <2>4
<1>6. QED BY <1>4, <1>5

\* ... and in one that ends at a tail.
LEMMA RunTail ==
  ASSUME NEW S, WellFormed(S), NEW e \in S
  PROVE  \E t \in S : /\ e.start <= t.start /\ InRun(S, e, t)
                      /\ ~ \E g \in S : Mergeable(S, t, g)
<1> DEFINE T == {n \in Nat : \E t \in S : /\ t.start + n = ADDR_SPACE
                                          /\ e.start <= t.start /\ InRun(S, e, t)}
<1>0. /\ \A g \in S : g.start \in Nat /\ g.pages \in Nat /\ g.pages > 0
      /\ \A g \in S : g.start + g.pages < ADDR_SPACE
      /\ ADDR_SPACE \in Nat
  BY AddressAssumption DEF WellFormed, Entry, End
<1>1. InRun(S, e, e)
  BY <1>0 DEF InRun
<1>2. ADDR_SPACE - e.start \in T
  BY <1>0, <1>1
<1>3. PICK n \in T : \A m \in T : n <= m
  <2>1. T \in SUBSET Nat /\ T # {}
    BY <1>2
  <2> HIDE DEF T
  <2>2. QED BY <2>1, LeastElement
<1>4. PICK t \in S : t.start + n = ADDR_SPACE /\ e.start <= t.start /\ InRun(S, e, t)
  BY <1>3
<1>5. ASSUME NEW g \in S, Mergeable(S, t, g) PROVE FALSE
  <2>1. t.start < g.start
    BY <1>0, <1>5 DEF Mergeable, End
  <2>2. InRun(S, e, g)
    <3>1. SUFFICES ASSUME NEW x \in S, e.start <= x.start, x.start < g.start
                   PROVE  \E f \in S : Mergeable(S, x, f)
      BY DEF InRun
    <3>2. CASE x.start < t.start
      BY <1>4, <3>1, <3>2 DEF InRun
    <3>3. CASE t.start <= x.start
      <4>1. x.start = t.start
        BY <1>0, <1>5, <3>1, <3>3 DEF Mergeable
      <4>2. x = t
        BY <4>1, SameStart
      <4>3. QED BY <4>2, <1>5
    <3>4. QED BY <1>0, <3>2, <3>3
  <2>3. ADDR_SPACE - g.start \in T
    BY <1>0, <1>4, <2>1, <2>2
  <2>4. n <= ADDR_SPACE - g.start
    BY <1>3, <2>3
  <2>5. QED BY <1>0, <1>4, <2>1, <2>4
<1>6. QED BY <1>4, <1>5

\* h and t are the first and the last descriptor of a maximal run.
MaximalRun(S, h, t) ==
  /\ h \in S /\ t \in S
  /\ ~ \E g \in S : Mergeable(S, g, h)
  /\ ~ \E g \in S : Mergeable(S, t, g)
  /\ h.start <= t.start
  /\ InRun(S, h, t)

RunEntry(h, t) == Descriptor(h.start, End(t) - h.start, h.type, h.attr)

\* The members of the merged map are the maximal runs.
LEMMA MergeMembers ==
  ASSUME NEW S
  PROVE  /\ \A m \in MergeEntries(S) :
              \E h, t \in S : MaximalRun(S, h, t) /\ m = RunEntry(h, t)
         /\ \A h, t \in S : MaximalRun(S, h, t) => RunEntry(h, t) \in MergeEntries(S)
<1> DEFINE heads == {h \in S : ~ \E g \in S : Mergeable(S, g, h)}
           tails == {t \in S : ~ \E g \in S : Mergeable(S, t, g)}
           runs  == {r \in heads \X tails :
                       r[1].start <= r[2].start /\ InRun(S, r[1], r[2])}
<1>1. MergeEntries(S) = {RunEntry(r[1], r[2]) : r \in runs}
  BY DEF MergeEntries, RunEntry
<1>2. ASSUME NEW m \in MergeEntries(S)
      PROVE  \E h, t \in S : MaximalRun(S, h, t) /\ m = RunEntry(h, t)
  <2>1. PICK r \in runs : m = RunEntry(r[1], r[2])
    BY <1>1
  <2>2. MaximalRun(S, r[1], r[2])
    BY <2>1 DEF MaximalRun
  <2>3. r[1] \in S /\ r[2] \in S
    BY <2>2 DEF MaximalRun
  <2>4. QED BY <2>1, <2>2, <2>3
<1>3. ASSUME NEW h \in S, NEW t \in S, MaximalRun(S, h, t)
      PROVE  RunEntry(h, t) \in MergeEntries(S)
  <2>1. <<h, t>> \in runs
    BY <1>3 DEF MaximalRun
  <2>2. RunEntry(<<h, t>>[1], <<h, t>>[2]) \in MergeEntries(S)
    BY <1>1, <2>1
  <2>3. QED BY <2>2
<1>4. QED BY <1>2, <1>3

\* Merging keeps every page, with its type and attribute: each descriptor of
\* the map lies inside one of the merged map, of the same kind ...
LEMMA MergeContains ==
  ASSUME NEW S, WellFormed(S), NEW e \in S
  PROVE  \E m \in MergeEntries(S) :
           /\ m.start <= e.start /\ End(e) <= End(m)
           /\ m.type = e.type /\ m.attr = e.attr
<1>0. \A g \in S : g.start \in Nat /\ g.pages \in Nat /\ g.pages > 0
  BY DEF WellFormed, Entry
<1>1. PICK h \in S : /\ h.start <= e.start /\ InRun(S, h, e)
                     /\ ~ \E g \in S : Mergeable(S, g, h)
  BY RunHead
<1>2. PICK t \in S : /\ e.start <= t.start /\ InRun(S, e, t)
                     /\ ~ \E g \in S : Mergeable(S, t, g)
  BY RunTail
<1>3. InRun(S, h, t)
  <2>1. SUFFICES ASSUME NEW x \in S, h.start <= x.start, x.start < t.start
                 PROVE  \E f \in S : Mergeable(S, x, f)
    BY DEF InRun
  <2>2. CASE x.start < e.start
    BY <1>1, <2>1, <2>2 DEF InRun
  <2>3. CASE e.start <= x.start
    BY <1>2, <2>1, <2>3 DEF InRun
  <2>4. QED BY <1>0, <2>2, <2>3
<1>4. MaximalRun(S, h, t)
  BY <1>0, <1>1, <1>2, <1>3 DEF MaximalRun
<1>5. RunEntry(h, t) \in MergeEntries(S)
  BY <1>4, MergeMembers
<1>6. e.start < End(t) /\ End(e) <= End(t)
  BY <1>0, <1>2 DEF WellFormed, End
<1>7. PICK f \in S : /\ PageIn(f, e.start) /\ f.type = h.type /\ f.attr = h.attr
  BY <1>0, <1>1, <1>2, <1>3, <1>6, RunIsCovered
<1>8. f = e
  <2>1. PageIn(e, e.start)
    BY <1>0 DEF PageIn, End
  <2>2. QED BY <1>0, <1>7, <2>1, SharedPage
<1>9. /\ RunEntry(h, t).start = h.start
      /\ End(RunEntry(h, t)) = End(t)
      /\ RunEntry(h, t).type = h.type /\ RunEntry(h, t).attr = h.attr
  BY <1>0 DEF RunEntry, Descriptor, End
<1>10. QED BY <1>1, <1>5, <1>6, <1>7, <1>8, <1>9

\* ... and each page of the merged map was described with the same kind before.
LEMMA MergeCovers ==
  ASSUME NEW S, WellFormed(S)
  PROVE  \A m \in MergeEntries(S), p \in Nat :
           PageIn(m, p) => Covers(S, p, m.type, m.attr)
<1>0. \A g \in S : g.start \in Nat /\ g.pages \in Nat /\ g.pages > 0
  BY DEF WellFormed, Entry
<1>1. SUFFICES ASSUME NEW m \in MergeEntries(S), NEW p \in Nat, PageIn(m, p)
               PROVE  Covers(S, p, m.type, m.attr)
  OBVIOUS
<1>2. PICK h \in S, t \in S : MaximalRun(S, h, t) /\ m = RunEntry(h, t)
  BY MergeMembers
<1>3. m.start = h.start /\ End(m) = End(t) /\ m.type = h.type /\ m.attr = h.attr
  BY <1>0, <1>2 DEF RunEntry, Descriptor, End
<1>4. h.start <= p /\ p < End(t) /\ h.start <= t.start /\ InRun(S, h, t)
  BY <1>1, <1>2, <1>3 DEF PageIn, MaximalRun
<1>5. QED BY <1>3, <1>4, RunIsCovered DEF Covers

\* A page covered before is covered by the merged map, and conversely.
LEMMA MergeKeepsPages ==
  ASSUME NEW S, WellFormed(S), NEW p \in Nat, NEW t, NEW at
  PROVE  Covers(MergeEntries(S), p, t, at) <=> Covers(S, p, t, at)
<1>1. ASSUME Covers(MergeEntries(S), p, t, at) PROVE Covers(S, p, t, at)
  <2>1. PICK m \in MergeEntries(S) : PageIn(m, p) /\ m.type = t /\ m.attr = at
    BY <1>1 DEF Covers
  <2>2. QED BY <2>1, MergeCovers
<1>2. ASSUME Covers(S, p, t, at) PROVE Covers(MergeEntries(S), p, t, at)
  <2>1. PICK e \in S : PageIn(e, p) /\ e.type = t /\ e.attr = at
    BY <1>2 DEF Covers
  <2>2. PICK m \in MergeEntries(S) : /\ m.start <= e.start /\ End(e) <= End(m)
                                     /\ m.type = e.type /\ m.attr = e.attr
    BY MergeContains
  <2>3. m.start \in Nat /\ m.pages \in Int /\ e.start \in Nat /\ e.pages \in Nat
    <3>1. PICK h \in S, u \in S : MaximalRun(S, h, u) /\ m = RunEntry(h, u)
      BY MergeMembers
    <3>2. QED BY <3>1 DEF RunEntry, Descriptor, WellFormed, Entry, End
  <2>4. PageIn(m, p)
    BY <2>1, <2>2, <2>3 DEF PageIn, End
  <2>5. QED BY <2>1, <2>2, <2>4 DEF Covers
<1>3. QED BY <1>1, <1>2

\* Two maximal runs that overlap are the same run.
LEMMA RunsDisjoint ==
  ASSUME NEW S, WellFormed(S),
         NEW h1 \in S, NEW t1 \in S, MaximalRun(S, h1, t1),
         NEW h2 \in S, NEW t2 \in S, MaximalRun(S, h2, t2),
         h1.start <= h2.start, h2.start < End(t1)
  PROVE  h1 = h2 /\ t1 = t2
<1>0. \A g \in S : g.start \in Nat /\ g.pages \in Nat /\ g.pages > 0
  BY DEF WellFormed, Entry
<1>1. ASSUME h1.start < h2.start PROVE FALSE
  <2>1. h2.start - 1 \in Nat /\ h1.start <= h2.start - 1 /\ h2.start - 1 < End(t1)
    BY <1>0, <1>1 DEF End
  <2>2. h1.start <= t1.start /\ InRun(S, h1, t1)
    BY DEF MaximalRun
  <2>3. PICK e \in S : PageIn(e, h2.start - 1) /\ h1.start <= e.start
    BY <2>1, <2>2, RunIsCovered
  <2>4. PICK f \in S : PageIn(f, h2.start) /\ f.start <= t1.start
    BY <1>0, <2>2, RunIsCovered
  <2>5. f = h2
    <3>1. PageIn(h2, h2.start)
      BY <1>0 DEF PageIn, End
    <3>2. QED BY <1>0, <2>4, <3>1, SharedPage
  <2>6. e # h2 /\ e.start < h2.start
    BY <1>0, <2>3 DEF PageIn, End
  <2>7. e.start < t1.start
    BY <1>0, <2>4, <2>5, <2>6
  <2>8. PICK x \in S : Mergeable(S, e, x)
    BY <2>2, <2>3, <2>7 DEF InRun
  <2>9. End(e) = h2.start
    BY <1>0, <2>3, <2>6 DEF WellFormed, PageIn, End
  <2>10. x = h2
    BY <2>8, <2>9, SameStart DEF Mergeable
  <2>11. QED BY <2>8, <2>10 DEF MaximalRun
<1>2. h1 = h2
  BY <1>0, <1>1, SameStart
<1>3. ASSUME NEW a \in S, NEW b \in S, a.start < b.start,
             MaximalRun(S, h1, a), MaximalRun(S, h1, b)
      PROVE  FALSE
  BY <1>3 DEF MaximalRun, InRun
<1>4. t1.start = t2.start
  BY <1>0, <1>2, <1>3
<1>5. QED BY <1>2, <1>4, SameStart

\* The merged map is well formed and no two of its descriptors can be merged.
LEMMA MergeWellFormed ==
  ASSUME NEW S, WellFormed(S)
  PROVE  /\ WellFormed(MergeEntries(S))
         /\ Merged(MergeEntries(S))
         /\ Cardinality(MergeEntries(S)) <= Cardinality(S)
<1> DEFINE M == MergeEntries(S)
<1>0. /\ \A g \in S : g.start \in Nat /\ g.pages \in Nat /\ g.pages > 0
      /\ \A g \in S : g.type \in MemoryTypes /\ g.attr \in SUBSET Attributes
  BY DEF WellFormed, Entry
<1>1. ASSUME NEW m \in M
      PROVE  \E h, t \in S : /\ MaximalRun(S, h, t)
                             /\ m.start = h.start /\ End(m) = End(t)
                             /\ m.type = h.type /\ m.attr = h.attr
                             /\ m.type = t.type /\ m.attr = t.attr
                             /\ m \in Entry /\ m = RunEntry(h, t)
  <2>1. PICK h \in S, t \in S : MaximalRun(S, h, t) /\ m = RunEntry(h, t)
    BY MergeMembers
  <2>2. h.start <= t.start /\ InRun(S, h, t)
    BY <2>1 DEF MaximalRun
  <2>3. t.start < End(t)
    BY <1>0 DEF End
  <2>4. PICK e \in S : PageIn(e, t.start) /\ e.type = h.type /\ e.attr = h.attr
    BY <1>0, <2>2, <2>3, RunIsCovered
  <2>5. e = t
    <3>1. PageIn(t, t.start)
      BY <1>0 DEF PageIn, End
    <3>2. QED BY <1>0, <2>4, <3>1, SharedPage
  <2>6. End(t) - h.start \in Nat \ {0}
    BY <1>0, <2>2 DEF End
  <2>7. m \in Entry
    BY <1>0, <2>1, <2>6 DEF RunEntry, Descriptor, Entry
  <2>8. m.start = h.start /\ End(m) = End(t) /\ m.type = h.type /\ m.attr = h.attr
    BY <1>0, <2>1 DEF RunEntry, Descriptor, End
  <2>9. QED BY <2>1, <2>4, <2>5, <2>7, <2>8
<1>2. M \subseteq Entry
  BY <1>1
<1>3. ASSUME NEW m \in M PROVE End(m) < ADDR_SPACE
  BY <1>1 DEF WellFormed
<1>4. ASSUME NEW m \in M, NEW n \in M, m.start <= n.start, m # n
      PROVE  End(m) <= n.start
  <2>1. PICK h1 \in S, t1 \in S : /\ MaximalRun(S, h1, t1) /\ m = RunEntry(h1, t1)
                                  /\ m.start = h1.start /\ End(m) = End(t1)
    BY <1>1
  <2>2. PICK h2 \in S, t2 \in S : /\ MaximalRun(S, h2, t2) /\ n = RunEntry(h2, t2)
                                  /\ n.start = h2.start
    BY <1>1
  <2>3. ASSUME h2.start < End(t1) PROVE FALSE
    <3>1. h1 = h2 /\ t1 = t2
      BY <1>4, <2>1, <2>2, <2>3, RunsDisjoint
    <3>2. QED BY <1>4, <2>1, <2>2, <3>1
  <2>4. QED BY <1>0, <2>1, <2>2, <2>3 DEF End
<1>5. \A m, n \in M : m # n => End(m) <= n.start \/ End(n) <= m.start
  BY <1>2, <1>4 DEF Entry
<1>6. IsFiniteSet(M) /\ Cardinality(M) <= Cardinality(S)
  <2> DEFINE f == [m \in M |-> CHOOSE h \in S : h.start = m.start]
  <2>1. ASSUME NEW m \in M PROVE f[m] \in S /\ f[m].start = m.start
    BY <1>1
  <2>2. f \in [M -> S]
    BY <2>1
  <2>3. ASSUME NEW m \in M, NEW n \in M, f[m] = f[n] PROVE m = n
    <3>1. m.start = n.start
      BY <2>1, <2>3
    <3>2. m.start \in Nat /\ m.pages \in Nat /\ m.pages > 0 /\ n.pages > 0 /\ n.pages \in Nat
      BY <1>2 DEF Entry
    <3>3. QED BY <1>5, <3>1, <3>2 DEF End
  <2>4. f \in Injection(M, S)
    <3> HIDE DEF f
    <3> QED BY <2>2, <2>3 DEF Injection, IsInjective
  <2>5. IsFiniteSet(S)
    BY DEF WellFormed
  <2> HIDE DEF f, M
  <2>6. QED BY <2>4, <2>5, FS_Injection
<1>7. WellFormed(M)
  BY <1>2, <1>3, <1>5, <1>6 DEF WellFormed
<1>8. Merged(M)
  <2>1. SUFFICES ASSUME NEW m \in M, NEW n \in M, Mergeable(M, m, n) PROVE FALSE
    BY DEF Merged
  <2>2. PICK h1 \in S, t1 \in S : /\ MaximalRun(S, h1, t1) /\ End(m) = End(t1)
                                  /\ m.type = t1.type /\ m.attr = t1.attr
    BY <1>1
  <2>3. PICK h2 \in S, t2 \in S : /\ MaximalRun(S, h2, t2) /\ n.start = h2.start
                                  /\ n.type = h2.type /\ n.attr = h2.attr
    BY <1>1
  <2>4. End(t1) = h2.start /\ t1.type = h2.type /\ t1.attr = h2.attr
    BY <2>1, <2>2, <2>3 DEF Mergeable
  <2>5. ~ \E g \in S : t1.start < g.start /\ g.start < h2.start
    BY <1>0, <2>4 DEF WellFormed, End
  <2>6. Mergeable(S, t1, h2)
    BY <2>4, <2>5 DEF Mergeable
  <2>7. QED BY <2>2, <2>6 DEF MaximalRun
<1>9. QED BY <1>6, <1>7, <1>8

\* Merging a merged map changes nothing.
LEMMA MergeIdentity ==
  ASSUME NEW S, WellFormed(S), Merged(S)
  PROVE  MergeEntries(S) = S
<1>0. /\ S \subseteq Entry
      /\ \A g \in S : g.start \in Nat /\ g.pages \in Nat /\ g.pages > 0
  BY DEF WellFormed, Entry
<1>1. ASSUME NEW e \in S PROVE RunEntry(e, e) = e
  BY <1>0 DEF RunEntry, Descriptor, End, Entry
<1>2. ASSUME NEW e \in S PROVE e \in MergeEntries(S)
  <2>1. MaximalRun(S, e, e)
    BY <1>0 DEF MaximalRun, Merged, InRun
  <2>2. QED BY <1>1, <2>1, MergeMembers
<1>3. ASSUME NEW m \in MergeEntries(S) PROVE m \in S
  <2>1. PICK h \in S, t \in S : MaximalRun(S, h, t) /\ m = RunEntry(h, t)
    BY MergeMembers
  <2>2. ~(h.start < t.start)
    BY <2>1, <1>0 DEF MaximalRun, InRun, Merged
  <2>3. h = t
    BY <1>0, <2>1, <2>2, SameStart DEF MaximalRun
  <2>4. QED BY <1>1, <2>1, <2>3
<1>4. QED BY <1>2, <1>3

\* The position of a descriptor names that descriptor.
LEMMA AtIndex ==
  ASSUME NEW S, WellFormed(S), NEW e \in S
  PROVE  At(S, Index(S, e)) = e
<1> DEFINE Below(x) == {f \in S : f.start < x.start}
<1>0. \A g \in S : g.start \in Nat
  BY DEF WellFormed, Entry
<1>1. ASSUME NEW x \in S PROVE IsFiniteSet(Below(x))
  <2>1. Below(x) \in SUBSET S /\ IsFiniteSet(S)
    BY DEF WellFormed
  <2> HIDE DEF Below
  <2>2. QED BY <2>1, FS_Subset
<1>2. ASSUME NEW x \in S, NEW y \in S, x.start < y.start
      PROVE  Index(S, x) # Index(S, y)
  <2>1. Below(x) \in SUBSET Below(y)
    BY <1>0, <1>2
  <2>2. x \in Below(y) /\ x \notin Below(x)
    BY <1>0, <1>2
  <2>3. Cardinality(Below(y)) # Cardinality(Below(x))
    <3>1. IsFiniteSet(Below(y))
      BY <1>1
    <3> HIDE DEF Below
    <3>2. QED BY <2>1, <2>2, <3>1, FS_Subset
  <2>4. QED BY <2>3 DEF Index
<1>3. ASSUME NEW x \in S, Index(S, x) = Index(S, e) PROVE x = e
  BY <1>0, <1>2, <1>3, SameStart
<1>4. QED BY <1>3 DEF At

\* The descriptors that replace e are well formed, disjoint, and describe the
\* pages of e: those of the range with the new kind, the others as before.
LEMMA SplitPieces ==
  ASSUME NEW e \in Entry, End(e) < ADDR_SPACE, NEW a \in Nat, NEW n \in Nat \ {0},
         Contains(e, a, n), NEW t \in MemoryTypes, NEW at \in SUBSET Attributes
  PROVE  LET P == Split(e, a, n, t, at) IN
         /\ WellFormed(P)
         /\ \A f \in P : e.start <= f.start /\ End(f) <= End(e)
         /\ Descriptor(a, n, t, at) \in P
         /\ \A f \in P : \/ f = Descriptor(a, n, t, at)
                         \/ /\ f.type = e.type /\ f.attr = e.attr
                            /\ End(f) = a \/ f.start = a + n
         /\ \A p \in Nat : PageIn(e, p) => \E f \in P : PageIn(f, p)
         /\ Cardinality(P) \in 1 .. 3
<1> DEFINE P == Split(e, a, n, t, at)
           B == Descriptor(e.start, a - e.start, e.type, e.attr)
           C == Descriptor(a, n, t, at)
           A == Descriptor(a + n, End(e) - (a + n), e.type, e.attr)
<1>0. /\ e.start \in Nat /\ e.pages \in Nat /\ e.pages > 0
      /\ e.type \in MemoryTypes /\ e.attr \in SUBSET Attributes
      /\ e.start <= a /\ a + n <= e.start + e.pages /\ n > 0 /\ n \in Nat
  BY DEF Entry, Contains, End
<1>1. /\ \A f \in P : f = C \/ (f = B /\ e.start < a) \/ (f = A /\ a + n < End(e))
      /\ C \in P
      /\ e.start < a => B \in P
      /\ a + n < End(e) => A \in P
      /\ P \subseteq {A, B, C}
  BY DEF Split
<1>2. /\ C \in Entry /\ C.start = a /\ End(C) = a + n
      /\ e.start < a => B \in Entry
      /\ B.start = e.start /\ End(B) = a /\ B.type = e.type /\ B.attr = e.attr
      /\ a + n < End(e) => A \in Entry
      /\ A.start = a + n /\ End(A) = End(e) /\ A.type = e.type /\ A.attr = e.attr
  BY <1>0 DEF Descriptor, End, Entry
<1> HIDE DEF A, B, C, P
<1>3. IsFiniteSet(P) /\ Cardinality(P) \in 1 .. 3
  <2>1. /\ IsFiniteSet({}) /\ Cardinality({}) = 0
    BY FS_EmptySet
  <2>2. /\ IsFiniteSet({A}) /\ Cardinality({A}) = 1
    BY FS_Singleton
  <2>3. /\ IsFiniteSet({A} \cup {B}) /\ Cardinality({A} \cup {B}) <= 2
    BY <2>2, FS_AddElement
  <2>4. Cardinality({A} \cup {B}) \in Nat
    BY <2>3, FS_CardinalityType
  <2>5. IsFiniteSet(({A} \cup {B}) \cup {C}) /\ Cardinality(({A} \cup {B}) \cup {C}) <= 3
    <3> DEFINE U == {A} \cup {B}
    <3>1. IsFiniteSet(U) /\ Cardinality(U) <= 2 /\ Cardinality(U) \in Nat
      BY <2>3, <2>4
    <3> HIDE DEF U
    <3>2. /\ IsFiniteSet(U \cup {C})
          /\ Cardinality(U \cup {C}) =
               IF C \in U THEN Cardinality(U) ELSE Cardinality(U) + 1
      BY <3>1, FS_AddElement
    <3>4. Cardinality(U \cup {C}) <= 3
      BY <3>1, <3>2
    <3>5. QED BY <3>2, <3>4 DEF U
  <2>6. P \in SUBSET (({A} \cup {B}) \cup {C})
    BY <1>1
  <2>7. Cardinality(({A} \cup {B}) \cup {C}) \in Nat
    BY <2>5, FS_CardinalityType
  <2>8. IsFiniteSet(P) /\ Cardinality(P) <= Cardinality(({A} \cup {B}) \cup {C})
    BY <2>5, <2>6, FS_Subset
  <2>9. Cardinality(P) \in Nat /\ Cardinality(P) # 0
    BY <1>1, <2>8, FS_CardinalityType, FS_EmptySet
  <2>10. QED BY <2>5, <2>7, <2>8, <2>9
<1>4. WellFormed(P)
  <2>1. P \subseteq Entry
    BY <1>1, <1>2
  <2>2. \A f \in P : End(f) < ADDR_SPACE
    BY <1>0, <1>1, <1>2, AddressAssumption DEF End
  <2>3. \A f, g \in P : f # g => End(f) <= g.start \/ End(g) <= f.start
    BY <1>0, <1>1, <1>2 DEF End
  <2>4. QED BY <1>3, <2>1, <2>2, <2>3 DEF WellFormed
<1>5. \A f \in P : e.start <= f.start /\ End(f) <= End(e)
  BY <1>0, <1>1, <1>2 DEF End
<1>6. ASSUME NEW p \in Nat, PageIn(e, p) PROVE \E f \in P : PageIn(f, p)
  <2>1. CASE p < a
    <3>1. B \in P
      BY <1>0, <1>1, <1>6, <2>1 DEF PageIn
    <3>2. PageIn(B, p)
      BY <1>2, <1>6, <2>1 DEF PageIn
    <3>3. QED BY <3>1, <3>2
  <2>2. CASE a <= p /\ p < a + n
    <3>1. PageIn(C, p)
      BY <1>2, <2>2 DEF PageIn
    <3>2. QED BY <1>1, <3>1
  <2>3. CASE a + n <= p
    <3>1. A \in P
      BY <1>0, <1>1, <1>6, <2>3 DEF PageIn, End
    <3>2. PageIn(A, p)
      BY <1>2, <1>6, <2>3 DEF PageIn
    <3>3. QED BY <3>1, <3>2
  <2>4. QED BY <1>0, <2>1, <2>2, <2>3
<1>7. \A f \in P : \/ f = C
                  \/ /\ f.type = e.type /\ f.attr = e.attr
                     /\ End(f) = a \/ f.start = a + n
  BY <1>1, <1>2
<1>8. QED BY <1>1, <1>3, <1>4, <1>5, <1>6, <1>7 DEF C, P

\* Map R is map S with the n pages from a described as type t, attribute at.
Retyped(S, R, a, n, t, at) ==
  \A p \in Nat, t2 \in MemoryTypes, at2 \in SUBSET Attributes :
    Covers(R, p, t2, at2) <=>
      IF a <= p /\ p < a + n THEN t2 = t /\ at2 = at ELSE Covers(S, p, t2, at2)

\* What replacing descriptor e by the pieces of a split does to a map.
SplitFacts(S, e, a, n, t, at) ==
  LET P == Split(e, a, n, t, at)
      R == (S \ {e}) \cup P
  IN  /\ WellFormed(R)
      /\ Cardinality(R) = Cardinality(S) - 1 + Cardinality(P)
      /\ Retyped(S, R, a, n, t, at)
      /\ Descriptor(a, n, t, at) \in R
      /\ \A f \in R : f \in S \/ f = Descriptor(a, n, t, at)
                      \/ (f.type = e.type /\ f.attr = e.attr)

\* Replacing a descriptor of a well-formed map by its pieces.
LEMMA SplitMap ==
  ASSUME NEW S, WellFormed(S), NEW e \in S, NEW a \in Nat, NEW n \in Nat \ {0},
         Contains(e, a, n), NEW t \in MemoryTypes, NEW at \in SUBSET Attributes
  PROVE  SplitFacts(S, e, a, n, t, at)
<1> DEFINE P == Split(e, a, n, t, at)
           R == (S \ {e}) \cup P
           C == Descriptor(a, n, t, at)
<1>0. /\ e \in Entry /\ End(e) < ADDR_SPACE /\ IsFiniteSet(S)
      /\ e.start \in Nat /\ e.pages \in Nat
      /\ \A g \in S : g.start \in Nat /\ g.pages \in Nat /\ g.pages > 0
      /\ S \subseteq Entry
  BY DEF WellFormed, Entry
<1>1. /\ WellFormed(P)
      /\ \A f \in P : e.start <= f.start /\ End(f) <= End(e)
      /\ C \in P
      /\ \A f \in P : \/ f = C
                      \/ /\ f.type = e.type /\ f.attr = e.attr
                         /\ End(f) = a \/ f.start = a + n
      /\ \A p \in Nat : PageIn(e, p) => \E f \in P : PageIn(f, p)
      /\ Cardinality(P) \in 1 .. 3
  BY <1>0, SplitPieces
<1>2. /\ C.start = a /\ End(C) = a + n /\ C.type = t /\ C.attr = at
      /\ e.start <= a /\ a + n <= End(e) /\ n > 0
  BY DEF Descriptor, End, Contains
<1> HIDE DEF P, C
<1>3. ASSUME NEW f \in P, NEW g \in S, g # e
      PROVE  End(f) <= g.start \/ End(g) <= f.start
  <2>1. f.start \in Nat /\ f.pages \in Nat /\ f.pages > 0
    BY <1>1 DEF WellFormed, Entry
  <2>2. QED BY <1>0, <1>1, <1>3, <2>1 DEF WellFormed, End
<1>4. ASSUME NEW f \in P PROVE f \notin S \ {e}
  <2>1. f.start \in Nat /\ f.pages \in Nat /\ f.pages > 0
    BY <1>1 DEF WellFormed, Entry
  <2>2. QED BY <1>3, <2>1 DEF End
<1>5. WellFormed(R)
  <2>1. R \subseteq Entry /\ \A f \in R : End(f) < ADDR_SPACE
    BY <1>1 DEF WellFormed
  <2>2. IsFiniteSet(R)
    BY <1>0, <1>1, FS_RemoveElement, FS_Union, Zenon DEF WellFormed
  <2>3. \A f, g \in R : f # g => End(f) <= g.start \/ End(g) <= f.start
    BY <1>1, <1>3 DEF WellFormed
  <2>4. QED BY <2>1, <2>2, <2>3 DEF WellFormed
<1>6. Cardinality(R) = Cardinality(S) - 1 + Cardinality(P)
  <2>1. IsFiniteSet(S \ {e}) /\ Cardinality(S \ {e}) = Cardinality(S) - 1
    BY <1>0, FS_RemoveElement
  <2>2. (S \ {e}) \cap P = {}
    BY <1>4
  <2>3. IsFiniteSet(P)
    BY <1>1 DEF WellFormed
  <2>4. Cardinality(R) = Cardinality(S \ {e}) + Cardinality(P)
                           - Cardinality((S \ {e}) \cap P)
    BY <2>1, <2>3, FS_Union
  <2>5. Cardinality((S \ {e}) \cap P) = 0
    BY <2>2, FS_EmptySet
  <2>6. Cardinality(S) \in Nat
    BY <1>0, FS_CardinalityType
  <2>7. QED BY <1>1, <2>1, <2>4, <2>5, <2>6
<1>7. Retyped(S, R, a, n, t, at)
  <2>1. SUFFICES ASSUME NEW p \in Nat, NEW t2 \in MemoryTypes, NEW at2 \in SUBSET Attributes
                 PROVE  Covers(R, p, t2, at2) <=>
                          IF a <= p /\ p < a + n THEN t2 = t /\ at2 = at
                          ELSE Covers(S, p, t2, at2)
    BY DEF Retyped
  <2>2. CASE a <= p /\ p < a + n
    <3>1. C \in R /\ PageIn(C, p)
      BY <1>1, <1>2, <2>2 DEF PageIn
    <3>2. ASSUME NEW f \in R, PageIn(f, p) PROVE f = C
      BY <1>5, <3>1, <3>2, SharedPage
    <3>3. QED BY <1>2, <2>2, <3>1, <3>2 DEF Covers
  <2>3. CASE ~(a <= p /\ p < a + n)
    <3>1. ASSUME NEW f \in R, PageIn(f, p), f.type = t2, f.attr = at2
          PROVE  Covers(S, p, t2, at2)
      <4>1. CASE f \in S
        BY <3>1, <4>1 DEF Covers
      <4>2. CASE f \in P
        <5>1. f # C
          BY <1>2, <2>3, <3>1 DEF PageIn
        <5>2. f.type = e.type /\ f.attr = e.attr
          BY <1>1, <4>2, <5>1
        <5>3. f.start \in Nat /\ f.pages \in Nat /\ f.pages > 0
          BY <1>1, <4>2 DEF WellFormed, Entry
        <5>4. PageIn(e, p)
          <6>1. e.start <= f.start /\ End(f) <= End(e)
            BY <1>1, <4>2
          <6>2. e.start \in Nat /\ e.pages \in Nat /\ f.start <= p /\ p < End(f)
            BY <1>0, <3>1 DEF PageIn
          <6>3. QED BY <5>3, <6>1, <6>2 DEF PageIn, End
        <5>5. QED BY <3>1, <5>2, <5>4 DEF Covers
      <4>3. QED BY <4>1, <4>2
    <3>2. ASSUME NEW f \in S, PageIn(f, p), f.type = t2, f.attr = at2
          PROVE  Covers(R, p, t2, at2)
      <4>1. CASE f # e
        BY <3>2, <4>1 DEF Covers
      <4>2. CASE f = e
        <5>1. PICK g \in P : PageIn(g, p)
          BY <1>1, <3>2, <4>2
        <5>2. g # C
          BY <1>2, <2>3, <5>1 DEF PageIn
        <5>3. g.type = e.type /\ g.attr = e.attr
          BY <1>1, <5>1, <5>2
        <5>4. QED BY <3>2, <4>2, <5>1, <5>3 DEF Covers
      <4>3. QED BY <4>1, <4>2
    <3>3. QED BY <2>3, <3>1, <3>2 DEF Covers
  <2>4. QED BY <2>2, <2>3
<1>8. \A f \in R : f \in S \/ f = C \/ (f.type = e.type /\ f.attr = e.attr)
  BY <1>1
<1>9. C \in R
  BY <1>1
<1>10. QED BY <1>5, <1>6, <1>7, <1>8, <1>9 DEF P, C, SplitFacts

\* The first of some descriptors of a well-formed map is one of them.
LEMMA FirstMember ==
  ASSUME NEW S, WellFormed(S), NEW C \in SUBSET S, C # {}
  PROVE  First(C) \in C
<1> DEFINE T == {e.start : e \in C}
<1>1. T \in SUBSET Nat /\ T # {}
  BY DEF WellFormed, Entry
<1>2. PICK x \in T : \A y \in T : x <= y
  <2> HIDE DEF T
  <2> QED BY <1>1, LeastElement
<1>3. PICK e \in C : e.start = x
  BY <1>2
<1>4. \A f \in C : e.start <= f.start
  BY <1>2, <1>3
<1>5. QED BY <1>3, <1>4 DEF First

\* A split either fails for want of room and changes nothing, or removes
\* exactly the descriptor found: with room for two more descriptors, or with a
\* merged map, the merge before the removal cannot move it.
LEMMA ReplaceEntryResult ==
  ASSUME NEW S, WellFormed(S), NEW k, NEW e \in S, NEW a \in Nat, NEW n \in Nat \ {0},
         Contains(e, a, n), NEW t \in MemoryTypes, NEW at \in SUBSET Attributes, NEW full,
         Cardinality(S) + 2 > MAX_MEMORY_ENTRIES => Merged(S)
  PROVE  LET P == Split(e, a, n, t, at)
             R == (S \ {e}) \cup P
         IN  \/ /\ ReplaceEntry(S, k, e, P, full) = Result(S, k, full)
                /\ Cardinality(S) + 2 > MAX_MEMORY_ENTRIES
             \/ /\ ReplaceEntry(S, k, e, P, full) = Result(MergeEntries(R), k + 1, "SUCCESS")
                /\ Cardinality(R) <= MAX_MEMORY_ENTRIES
<1> DEFINE P == Split(e, a, n, t, at)
           R == (S \ {e}) \cup P
           T == IF Cardinality(S) + (Cardinality(P) - 1) > MAX_MEMORY_ENTRIES
                THEN MergeEntries(S) ELSE S
<1>1. /\ WellFormed(R)
      /\ Cardinality(R) = Cardinality(S) - 1 + Cardinality(P)
      /\ Retyped(S, R, a, n, t, at)
      /\ Descriptor(a, n, t, at) \in R
      /\ \A f \in R : f \in S \/ f = Descriptor(a, n, t, at)
                      \/ (f.type = e.type /\ f.attr = e.attr)
  <2>1. SplitFacts(S, e, a, n, t, at)
    BY SplitMap
  <2>2. QED BY <2>1 DEF SplitFacts
<1>2. Cardinality(P) \in 1 .. 3
  BY SplitPieces DEF WellFormed
<1>3. Cardinality(S) \in Nat
  BY FS_CardinalityType DEF WellFormed
<1> HIDE DEF P
<1>4. T = S
  <2>1. CASE Cardinality(S) + (Cardinality(P) - 1) > MAX_MEMORY_ENTRIES
    <3>1. Merged(S)
      BY <1>2, <1>3, <2>1, CapacityAssumption
    <3>2. QED BY <3>1, MergeIdentity
  <2>2. QED BY <2>1
<1>5. At(T, Index(S, e)) = e
  BY <1>4, AtIndex
<1>6. ReplaceEntry(S, k, e, P, full) =
        IF Cardinality(T) + (Cardinality(P) - 1) > MAX_MEMORY_ENTRIES
        THEN Result(T, k, full)
        ELSE Result(MergeEntries((T \ {At(T, Index(S, e))}) \cup P), k + 1, "SUCCESS")
  BY DEF ReplaceEntry
<1>7. CASE Cardinality(S) + (Cardinality(P) - 1) > MAX_MEMORY_ENTRIES
  <2>1. Cardinality(S) + 2 > MAX_MEMORY_ENTRIES
    BY <1>2, <1>3, <1>7, CapacityAssumption
  <2>2. QED BY <1>4, <1>6, <1>7, <2>1 DEF P
<1>8. CASE ~(Cardinality(S) + (Cardinality(P) - 1) > MAX_MEMORY_ENTRIES)
  <2>1. ReplaceEntry(S, k, e, P, full) = Result(MergeEntries(R), k + 1, "SUCCESS")
    <3> HIDE DEF T
    <3> QED BY <1>4, <1>5, <1>6, <1>8
  <2>2. Cardinality(R) <= MAX_MEMORY_ENTRIES
    <3> HIDE DEF R
    <3> QED BY <1>1, <1>2, <1>3, <1>8, CapacityAssumption
  <2>3. QED BY <2>1, <2>2 DEF P
<1>9. QED BY <1>7, <1>8
============================================================================
