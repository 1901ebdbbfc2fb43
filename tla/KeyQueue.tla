------------------------------ MODULE KeyQueue ------------------------------
(***************************************************************************)
(* What the key buffer of the USB keyboard promises: a bounded first-in    *)
(* first-out queue that refuses keys when it is full and never loses,      *)
(* repeats or reorders one it accepted.                                    *)
(***************************************************************************)
EXTENDS Integers, Sequences

CONSTANTS
  Values,     \* what is queued
  Capacity,   \* the most that is queued
  Batch       \* the most that is offered in one step

VARIABLE queue

Init == queue = <<>>

\* Values are offered one after the other; those that find no room are dropped.
Offer(vs) ==
  LET room == Capacity - Len(queue)
  IN  queue' = queue \o SubSeq(vs, 1, IF Len(vs) < room THEN Len(vs) ELSE room)

Take == queue # <<>> /\ queue' = Tail(queue)

Next ==
  \/ \E n \in 1..Batch : \E vs \in [1..n -> Values] : Offer(vs)
  \/ Take

Spec == Init /\ [][Next]_queue
============================================================================
