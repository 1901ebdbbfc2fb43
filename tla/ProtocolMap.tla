---------------------------- MODULE ProtocolMap -----------------------------
(***************************************************************************)
(* What the handle database promises its callers: a set of handles that    *)
(* only grows, and one interface at most for each handle and protocol,     *)
(* which nothing replaces and only an uninstall of that very protocol on   *)
(* that very handle takes away.                                            *)
(***************************************************************************)
CONSTANTS
  Handles,
  Requests   \* the sets of protocols callers ask to uninstall

VARIABLES
  created,    \* the handles
  installed   \* the interface of each installed handle and protocol

vars == <<created, installed>>

Init ==
  /\ created = {}
  /\ installed = [k \in {} |-> 0]

\* Handle h gains protocols it did not carry.
Install(h) ==
  /\ created' = created \cup {h}
  /\ \A k \in DOMAIN installed : k \in DOMAIN installed' /\ installed'[k] = installed[k]
  /\ \A k \in DOMAIN installed' : k \in DOMAIN installed \/ k[1] = h

\* Handle h loses exactly those of the protocols G it carries.
Uninstall(h, G) ==
  /\ h \in created
  /\ created' = created
  /\ DOMAIN installed' = DOMAIN installed \ ({h} \X G)
  /\ \A k \in DOMAIN installed' : installed'[k] = installed[k]

Next == \E h \in Handles : Install(h) \/ \E G \in Requests : Uninstall(h, G)

Spec == Init /\ [][Next]_vars
============================================================================
