--------------------------- MODULE HandleDatabase ---------------------------
(***************************************************************************)
(* The handle database of boot services (state.rs, efi/boot_services.rs):  *)
(* handles in creation order, each with the protocols installed on it.     *)
(* The code keeps arrays with a count; the model keeps sequences.  Firmware *)
(* is single threaded, so each service call is one step, and the lookups   *)
(* are functions of the state.                                             *)
(***************************************************************************)
EXTENDS Integers, Sequences, FiniteSets

CONSTANTS
  Guids,                     \* protocol GUIDs
  DEVICE_PATH,               \* the device path protocol's GUID
  Interfaces,                \* interface pointers
  NULL,                      \* the null pointer
  Batches,                   \* protocol lists passed to the "multiple" calls
  MAX_HANDLES,               \* capacity of the database
  MAX_PROTOCOLS_PER_HANDLE   \* capacity of a handle's protocol array

ASSUME HandleAssumption ==
  /\ MAX_HANDLES \in Nat \ {0} /\ MAX_PROTOCOLS_PER_HANDLE \in Nat \ {0}
  /\ NULL \notin Nat
  /\ Batches \subseteq Seq([guid : Guids, interface : Interfaces \cup {NULL}])

VARIABLES
  handles,      \* the handle entries in use
  next_handle   \* the next handle value

vars == <<handles, next_handle>>

ProtocolEntry == [guid : Guids, interface : Interfaces \cup {NULL}]

HandleEntry == [handle : Nat, protocols : Seq(ProtocolEntry)]

\* The position the code's find or position call returns, if any.
First(S) == {i \in S : \A j \in S : i <= j}

Find(db, h) == First({i \in DOMAIN db : db[i].handle = h})

FindProtocol(ps, g) == First({j \in DOMAIN ps : ps[j].guid = g})

Pick(S) == CHOOSE x \in S : TRUE

Done(db, s) == [db |-> db, status |-> s]

----------------------------------------------------------------------------
(* Changes.                                                                *)

InstallProtocol(db, h, g, x) ==
  IF Find(db, h) = {} THEN Done(db, "INVALID_PARAMETER")
  ELSE LET i == Pick(Find(db, h))
       IN  IF FindProtocol(db[i].protocols, g) # {} THEN Done(db, "INVALID_PARAMETER")
           ELSE IF Len(db[i].protocols) >= MAX_PROTOCOLS_PER_HANDLE THEN Done(db, "OUT_OF_RESOURCES")
           ELSE Done([db EXCEPT ![i].protocols =
                        Append(@, [guid |-> g, interface |-> x])], "SUCCESS")

\* Install the pairs of a batch one by one and stop at the first failure; what
\* was installed before it stays.
InstallEach(db, h, batch) ==
  LET after[n \in 0 .. Len(batch)] ==
        IF n = 0 THEN Done(db, "SUCCESS")
        ELSE IF after[n - 1].status # "SUCCESS" THEN after[n - 1]
        ELSE InstallProtocol(after[n - 1].db, h, batch[n].guid, batch[n].interface)
  IN  after[Len(batch)]

NewEntry(h, ps) == [handle |-> h, protocols |-> ps]

\* Faulty: shifts the wrong range down, so the last protocol is lost.
RemoveProtocolLast(ps, g) ==
  IF FindProtocol(ps, g) = {} THEN ps ELSE SubSeq(ps, 1, Len(ps) - 1)

RemoveProtocol(ps, g) ==
  IF FindProtocol(ps, g) = {} THEN ps
  ELSE LET j == Pick(FindProtocol(ps, g))
       IN  SubSeq(ps, 1, j - 1) \o SubSeq(ps, j + 1, Len(ps))

\* uninstall_multiple_protocol_interfaces takes the protocols off one by one
\* and ignores the ones it does not find.
UninstallEach(db, h, batch) ==
  LET after[n \in 0 .. Len(batch)] ==
        IF n = 0 THEN db
        ELSE LET i == Find(after[n - 1], h)
             IN  IF i = {} THEN after[n - 1]
                 ELSE [after[n - 1] EXCEPT ![Pick(i)].protocols =
                         RemoveProtocol(@, batch[n].guid)]
  IN  after[Len(batch)]

----------------------------------------------------------------------------
(* Lookups.                                                                *)

OpenProtocol(db, h, g) ==
  IF Find(db, h) = {} THEN [status |-> "INVALID_PARAMETER", interface |-> NULL]
  ELSE LET ps == db[Pick(Find(db, h))].protocols
       IN  IF FindProtocol(ps, g) = {} THEN [status |-> "UNSUPPORTED", interface |-> NULL]
           ELSE [status |-> "SUCCESS", interface |-> ps[Pick(FindProtocol(ps, g))].interface]

\* Faulty: looks at the first protocol of each handle only.
MatchingFirst(db, g) ==
  LET has(e) == Len(e.protocols) > 0 /\ e.protocols[1].guid = g
      hits == SelectSeq(db, has)
  IN  [i \in DOMAIN hits |-> hits[i].handle]

\* The handles that carry the protocol, in creation order.
Matching(db, g) ==
  LET has(e) == FindProtocol(e.protocols, g) # {}
      hits == SelectSeq(db, has)
  IN  [i \in DOMAIN hits |-> hits[i].handle]

\* locate_handle with room for cap handles; NULL is the null buffer.
LocateHandle(db, g, cap) ==
  LET m == Matching(db, g)
  IN  IF cap = NULL \/ cap < Len(m)
      THEN [status |-> "BUFFER_TOO_SMALL", size |-> Len(m), found |-> <<>>]
      ELSE [status |-> IF m = <<>> THEN "NOT_FOUND" ELSE "SUCCESS",
            size |-> Len(m), found |-> m]

\* allocate_pool refuses a size of zero; otherwise pool says if it succeeds.
LocateHandleBuffer(db, g, pool) ==
  LET asked == LocateHandle(db, g, NULL)
  IN  IF asked.status # "BUFFER_TOO_SMALL" THEN asked
      ELSE IF asked.size = 0 \/ ~pool
      THEN [status |-> "OUT_OF_RESOURCES", size |-> 0, found |-> <<>>]
      ELSE LocateHandle(db, g, asked.size)

LocateProtocol(db, g) ==
  LET all == {<<i, j>> \in (DOMAIN db) \X (1 .. MAX_PROTOCOLS_PER_HANDLE) :
                j <= Len(db[i].protocols) /\ db[i].protocols[j].guid = g}
      first == {p \in all : \A q \in all : p[1] < q[1] \/ (p[1] = q[1] /\ p[2] <= q[2])}
  IN  IF all = {} THEN [status |-> "NOT_FOUND", interface |-> NULL]
      ELSE LET p == Pick(first)
           IN  [status |-> "SUCCESS", interface |-> db[p[1]].protocols[p[2]].interface]

\* The first handle with the protocol and a device path; the path passed in is
\* only tested for null.
LocateDevicePath(db, g) ==
  LET paths(e) == {j \in DOMAIN e.protocols : e.protocols[j].guid = DEVICE_PATH}
      fits == {i \in DOMAIN db :
                 /\ FindProtocol(db[i].protocols, g) # {}
                 /\ paths(db[i]) # {}
                 /\ db[i].protocols[Pick(First(paths(db[i])))].interface # NULL}
  IN  IF fits = {} THEN [status |-> "NOT_FOUND", handle |-> NULL]
      ELSE [status |-> "SUCCESS", handle |-> db[Pick(First(fits))].handle]

----------------------------------------------------------------------------
Init ==
  /\ handles = <<>>
  /\ next_handle = 1

\* Faulty: leaves next_handle as it was.
AddHandleReused(ps) ==
  /\ handles' = Append(handles, NewEntry(next_handle, ps))
  /\ UNCHANGED next_handle

AddHandle(ps) ==
  /\ handles' = Append(handles, NewEntry(next_handle, ps))
  /\ next_handle' = next_handle + 1

CreateHandle ==
  /\ Len(handles) < MAX_HANDLES
  /\ AddHandle(<<>>)

\* InstallProtocolInterface with a null handle makes a handle; on a handle it
\* does what install_protocol does.
InstallOnNewHandle(g, x) ==
  /\ Len(handles) < MAX_HANDLES
  /\ AddHandle(<<[guid |-> g, interface |-> x]>>)

InstallProtocolInterface(h, g, x) ==
  /\ handles' = InstallProtocol(handles, h, g, x).db
  /\ UNCHANGED next_handle

InstallMultiple(h, batch) ==
  /\ batch # <<>>
  /\ handles' = InstallEach(handles, h, batch).db
  /\ UNCHANGED next_handle

InstallMultipleOnNewHandle(batch) ==
  /\ batch # <<>>
  /\ Len(handles) < MAX_HANDLES
  /\ handles' = InstallEach(Append(handles, NewEntry(next_handle, <<>>)),
                            next_handle, batch).db
  /\ next_handle' = next_handle + 1

UninstallMultiple(h, batch) ==
  /\ handles' = UninstallEach(handles, h, batch)
  /\ UNCHANGED next_handle

Known == {handles[i].handle : i \in DOMAIN handles}

Next ==
  \/ CreateHandle
  \/ \E g \in Guids, x \in Interfaces : InstallOnNewHandle(g, x)
  \/ \E h \in Known, g \in Guids, x \in Interfaces \cup {NULL} :
       InstallProtocolInterface(h, g, x)
  \/ \E h \in Known, b \in Batches : InstallMultiple(h, b)
  \/ \E b \in Batches : InstallMultipleOnNewHandle(b)
  \/ \E h \in Known, b \in Batches : UninstallMultiple(h, b)

Spec == Init /\ [][Next]_vars

----------------------------------------------------------------------------
(* Properties.                                                             *)

\* Every handle value names one entry, and no handle carries a protocol twice,
\* so the first match each lookup takes is the only one; a batch that fills a
\* handle's array half way stops there, and nothing is written past the end
\* (install_protocol, install_multiple_protocol_interfaces).
NoAmbiguity ==
  \A i, j \in DOMAIN handles :
    /\ handles[i].handle = handles[j].handle => i = j
    /\ Len(handles[i].protocols) <= MAX_PROTOCOLS_PER_HANDLE
    /\ \A k, l \in DOMAIN handles[i].protocols :
         handles[i].protocols[k].guid = handles[i].protocols[l].guid => k = l

\* The lookups agree: the interface LocateProtocol returns is the one on the
\* first handle LocateHandle lists, LocateHandleBuffer returns that list, and
\* both fail exactly when it is empty.  LocateDevicePath only returns a handle
\* that carries both the protocol and a device path.
LookupsAgree ==
  \A g \in Guids :
    LET m == Matching(handles, g)
        p == LocateProtocol(handles, g)
        b == LocateHandleBuffer(handles, g, TRUE)
        d == LocateDevicePath(handles, g)
    IN  /\ IF m = <<>> THEN p.status = "NOT_FOUND" /\ b.status # "SUCCESS"
           ELSE /\ p = OpenProtocol(handles, m[1], g)
                /\ b.status = "SUCCESS" /\ b.found = m
        /\ d.status = "SUCCESS" =>
             /\ OpenProtocol(handles, d.handle, g).status = "SUCCESS"
             /\ OpenProtocol(handles, d.handle, DEVICE_PATH).interface # NULL
============================================================================
