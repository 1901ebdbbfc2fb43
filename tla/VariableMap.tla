---------------------------- MODULE VariableMap -----------------------------
(***************************************************************************)
(* What the variable services promise: a map of bounded size from names    *)
(* and vendors to attributes and values.                                   *)
(***************************************************************************)
EXTENDS FiniteSets, Integers

CONSTANTS
  Keys,      \* name and vendor pairs
  Contents,  \* attributes and values
  Capacity   \* most variables

VARIABLE store

Init == store = [k \in {} |-> 0]

Set(k, c) ==
  /\ Cardinality(DOMAIN store \cup {k}) <= Capacity
  /\ store' = [l \in DOMAIN store \cup {k} |-> IF l = k THEN c ELSE store[l]]

Delete(k) ==
  /\ k \in DOMAIN store
  /\ store' = [l \in DOMAIN store \ {k} |-> store[l]]

Next == \E k \in Keys : Delete(k) \/ \E c \in Contents : Set(k, c)

Spec == Init /\ [][Next]_store
============================================================================
