--------------------------- MODULE VariableStore ----------------------------
(***************************************************************************)
(* The variable services (efi/runtime_services.rs): a fixed array of slots *)
(* that SetVariable fills, updates in place and frees, and a caller that   *)
(* lists the variables with GetNextVariableName while they change.         *)
(* Slots keep the bytes of a longer value or name behind a shorter one, as *)
(* the arrays of the code do.  Characters and bytes are small numbers; 0   *)
(* ends a name.                                                            *)
(***************************************************************************)
EXTENDS Integers, Sequences, FiniteSets

CONSTANTS
  MAX_VARIABLES,           \* slots
  MAX_VARIABLE_NAME_LEN,   \* characters of a slot's name array
  MAX_VARIABLE_DATA_SIZE,  \* bytes of a slot's data array
  Names,                   \* names callers use: sequences of non-zero characters
  Vendors,                 \* vendor GUIDs
  Values,                  \* values callers store: sequences of bytes
  AttributeSets,           \* attributes callers pass
  NameBuffers              \* sizes of the buffer a lister passes, in characters

ASSUME VariableAssumption ==
  /\ MAX_VARIABLES \in Nat \ {0} /\ MAX_VARIABLE_NAME_LEN \in Nat \ {0}
  /\ MAX_VARIABLE_DATA_SIZE \in Nat
  /\ Names \subseteq Seq(Nat \ {0}) /\ Values \subseteq Seq(Nat)
  /\ NameBuffers \subseteq Nat

VARIABLES
  variables,  \* the slots
  lister      \* a caller that lists the variables

vars == <<variables, lister>>

EmptySlot ==
  [name |-> [i \in 1 .. MAX_VARIABLE_NAME_LEN |-> 0], vendor_guid |-> 0, attributes |-> 0,
   data |-> [i \in 1 .. MAX_VARIABLE_DATA_SIZE |-> 0], data_size |-> 0, in_use |-> FALSE]

\* The character the code sees at position i of a caller's string.
CharAt(s, i) == IF i <= Len(s) THEN s[i] ELSE 0

\* Faulty: stops at the end of the caller's name, so a prefix matches.
NameEqPrefix(stored, name) == \A i \in DOMAIN name : CharAt(stored, i) = name[i]

\* name_eq compares up to the terminator of the shorter string.
NameEq(stored, name) ==
  \E n \in 1 .. MAX_VARIABLE_NAME_LEN + 1 :
    /\ CharAt(stored, n) = 0
    /\ \A i \in 1 .. n : CharAt(stored, i) = CharAt(name, i)
    /\ \A i \in 1 .. n - 1 : CharAt(stored, i) # 0

Ucs2Strlen(stored) ==
  IF \E i \in DOMAIN stored : stored[i] = 0
  THEN (CHOOSE i \in DOMAIN stored : stored[i] = 0 /\ \A j \in 1 .. i - 1 : stored[j] # 0) - 1
  ELSE Len(stored)

\* The slots that hold the variable, and the free ones.
Existing(name, g) ==
  {i \in 1 .. MAX_VARIABLES :
     variables[i].in_use /\ variables[i].vendor_guid = g /\ NameEq(variables[i].name, name)}

FreeSlots == {i \in 1 .. MAX_VARIABLES : ~variables[i].in_use}

First(S) == CHOOSE i \in S : \A j \in S : i <= j

\* The name and its terminator are copied and the rest is filled with zeros.
WriteName(old, name) == [i \in 1 .. MAX_VARIABLE_NAME_LEN |-> CharAt(name, i)]

WriteData(old, value) ==
  [i \in 1 .. MAX_VARIABLE_DATA_SIZE |-> IF i <= Len(value) THEN value[i] ELSE old[i]]

----------------------------------------------------------------------------
Init ==
  /\ variables = [i \in 1 .. MAX_VARIABLES |-> EmptySlot]
  /\ lister = [at |-> <<>>, vendor |-> 0, seen |-> <<>>, steady |-> {}, state |-> "idle"]

Key(i) == <<SubSeq(variables[i].name, 1, Ucs2Strlen(variables[i].name)), variables[i].vendor_guid>>

Keys == {Key(i) : i \in 1 .. MAX_VARIABLES \ FreeSlots}

\* What the lister may count on: the variables there since it started, and its
\* place in the list until the variable it stands on is deleted.
Deleted(name, g) ==
  lister' = IF lister.state # "listing" THEN lister
            ELSE [lister EXCEPT
                    !.steady = @ \ {<<name, g>>},
                    !.state = IF <<name, g>> = <<lister.at, lister.vendor>> THEN "lost" ELSE @]

SetVariable(name, g, attr, value) ==
  /\ Len(name) > 0 /\ Len(name) < MAX_VARIABLE_NAME_LEN
  /\ Len(value) \in 1 .. MAX_VARIABLE_DATA_SIZE
  /\ Existing(name, g) # {} \/ FreeSlots # {}
  /\ LET i == IF Existing(name, g) # {} THEN First(Existing(name, g)) ELSE First(FreeSlots)
     IN  variables' = [variables EXCEPT ![i] =
           [name |-> WriteName(@.name, name), vendor_guid |-> g, attributes |-> attr,
            data |-> WriteData(@.data, value), data_size |-> Len(value), in_use |-> TRUE]]
  /\ UNCHANGED lister

DeleteVariable(name, g) ==
  /\ Len(name) > 0 /\ Len(name) < MAX_VARIABLE_NAME_LEN
  /\ Existing(name, g) # {}
  /\ variables' = [variables EXCEPT ![First(Existing(name, g))].in_use = FALSE]
  /\ Deleted(name, g)

GetVariable(name, g) ==
  IF Existing(name, g) = {} THEN [status |-> "NOT_FOUND"]
  ELSE LET v == variables[First(Existing(name, g))]
       IN  [status |-> "SUCCESS", attributes |-> v.attributes,
            value |-> SubSeq(v.data, 1, v.data_size)]

\* Faulty: goes on with the current variable.
NextSlotsSame(name, g) ==
  LET used == 1 .. MAX_VARIABLES \ FreeSlots
      here == {i \in used : variables[i].vendor_guid = g /\ NameEq(variables[i].name, name)}
  IN  IF name = <<>> THEN used
      ELSE IF here = {} THEN {} ELSE {i \in used : i >= First(here)}

\* The slots after the one that holds the current name; an empty name starts.
NextSlots(name, g) ==
  LET used == 1 .. MAX_VARIABLES \ FreeSlots
      here == {i \in used : variables[i].vendor_guid = g /\ NameEq(variables[i].name, name)}
  IN  IF name = <<>> THEN used
      ELSE IF here = {} THEN {} ELSE {i \in used : i > First(here)}

\* Faulty: off by one in the buffer check.
GetNextVariableNameTight(size) ==
  /\ lister.state \in {"listing", "lost"}
  /\ LET next == NextSlots(lister.at, lister.vendor)
         i == First(next)
     IN  \/ /\ next = {}
            /\ lister' = [lister EXCEPT !.state = IF @ = "lost" THEN "idle" ELSE "done"]
         \/ /\ next # {} /\ size > Ucs2Strlen(variables[i].name) + 1
            /\ lister' = [lister EXCEPT !.at = Key(i)[1], !.vendor = Key(i)[2],
                            !.seen = IF lister.state = "lost" THEN <<>>
                                     ELSE Append(@, Key(i))]
  /\ UNCHANGED variables

\* GetNextVariableName with a buffer of size characters.
GetNextVariableName(size) ==
  /\ lister.state \in {"listing", "lost"}
  /\ LET next == NextSlots(lister.at, lister.vendor)
         i == First(next)
     IN  \/ /\ next = {}
            /\ lister' = [lister EXCEPT !.state = IF @ = "lost" THEN "idle" ELSE "done"]
         \/ /\ next # {} /\ size >= Ucs2Strlen(variables[i].name) + 1
            /\ lister' = [lister EXCEPT
                            !.at = Key(i)[1], !.vendor = Key(i)[2],
                            !.seen = IF lister.state = "lost" THEN <<>>
                                     ELSE Append(@, Key(i))]
  /\ UNCHANGED variables

StartListing ==
  /\ lister.state \in {"idle", "done"}
  /\ lister' = [at |-> <<>>, vendor |-> 0, seen |-> <<>>, steady |-> Keys, state |-> "listing"]
  /\ UNCHANGED variables

QueryVariableInfo ==
  LET used[n \in 0 .. MAX_VARIABLES] ==
        IF n = 0 THEN 0
        ELSE used[n - 1] + (IF variables[n].in_use THEN variables[n].data_size ELSE 0)
      total == MAX_VARIABLES * MAX_VARIABLE_DATA_SIZE
  IN  [total |-> total, remaining |-> total - used[MAX_VARIABLES]]

Next ==
  \/ \E name \in Names, g \in Vendors, a \in AttributeSets, v \in Values : SetVariable(name, g, a, v)
  \/ \E name \in Names, g \in Vendors : DeleteVariable(name, g)
  \/ \E size \in NameBuffers : GetNextVariableName(size)
  \/ StartListing

Spec == Init /\ [][Next]_vars

\* A lister that goes on, with a buffer large enough for every name.
FairSpec ==
  Spec /\ WF_vars(\E size \in NameBuffers : size >= MAX_VARIABLE_NAME_LEN /\ GetNextVariableName(size))

----------------------------------------------------------------------------
(* Properties.                                                             *)

\* A lister sees no variable twice that was there all the time, and when it
\* reaches the end it has seen all of those, as long as nobody deletes the
\* variable it stands on: updates in place and slots that are freed and filled
\* again do not disturb it.
ListsEachOnce ==
  /\ lister.state \in {"listing", "done"} =>
       \A m, n \in DOMAIN lister.seen :
         lister.seen[m] = lister.seen[n] /\ lister.seen[m] \in lister.steady => m = n
  /\ lister.state = "done" =>
       lister.steady \subseteq {lister.seen[n] : n \in DOMAIN lister.seen}

\* What callers of GetVariable see.
Seen ==
  [k \in Keys |-> LET v == GetVariable(k[1], k[2])
                  IN  [attributes |-> v.attributes, value |-> v.value]]

Abstract ==
  INSTANCE VariableMap WITH
    Keys <- Names \X Vendors,
    Contents <- [attributes : AttributeSets, value : Values],
    Capacity <- MAX_VARIABLES,
    store <- Seen

\* The slots implement a map: SetVariable changes the one variable it names,
\* to exactly the value and attributes given, although slots are reused and
\* keep bytes of older values, DeleteVariable removes it altogether, and no
\* other call changes what GetVariable finds.
ImplementsVariableMap == Abstract!Spec

\* A list ends: unless the variables keep changing, the lister reaches the end.
ListingEnds ==
  []<>(lister.state \in {"idle", "done"}) \/ []<><<variables' # variables>>_variables
============================================================================
