------------------------------ MODULE PageMap ------------------------------
(***************************************************************************)
(* What the page allocator promises, page by page: no descriptors, no      *)
(* order, no capacity.  A page is absent from the map or has one type.     *)
(* Services retype a range of pages that all have one type.                *)
(***************************************************************************)
EXTENDS Integers

CONSTANTS
  Pages,         \* the pages of the address space
  Types,         \* memory types
  LoaderTypes,   \* types the boot loader may retype in place
  ReclaimTypes   \* types that become conventional memory in the end

VARIABLES
  ptype,    \* the type of each page
  started,  \* services run
  exited    \* boot services are over

pvars == <<ptype, started, exited>>

Absent == "Absent"

Conventional == "ConventionalMemory"

Init ==
  /\ ptype = [p \in Pages |-> Absent]
  /\ started = FALSE
  /\ exited = FALSE

\* Before services run, start-up fills in the map as it likes.
SetUp ==
  /\ ~started
  /\ ptype' \in [Pages -> Types \cup {Absent}]
  /\ UNCHANGED <<started, exited>>

Start ==
  /\ ~started
  /\ started' = TRUE
  /\ UNCHANGED <<ptype, exited>>

\* The pages from a to b, all of one of the given types, become type t.
Retype(a, b, from, t) ==
  /\ started /\ ~exited
  /\ \E s \in from : \A p \in a .. b : ptype[p] = s
  /\ ptype' = [p \in Pages |-> IF p \in a .. b THEN t ELSE ptype[p]]
  /\ UNCHANGED <<started, exited>>

Allocate(a, b, t) == Retype(a, b, LoaderTypes \cup {Conventional}, t)

Free(a, b) == Retype(a, b, ReclaimTypes \cup {Conventional}, Conventional)

Exit ==
  /\ started
  /\ exited' = TRUE
  /\ ptype' = [p \in Pages |-> IF ptype[p] \in ReclaimTypes THEN Conventional ELSE ptype[p]]
  /\ UNCHANGED started

Next ==
  \/ SetUp
  \/ Start
  \/ \E a, b \in Pages : Free(a, b) \/ \E t \in Types : Allocate(a, b, t)
  \/ Exit

Spec == Init /\ [][Next]_pvars
============================================================================
