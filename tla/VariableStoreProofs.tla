------------------------ MODULE VariableStoreProofs -------------------------
(***************************************************************************)
(* The slot array implements VariableMap, and listing sees each lasting    *)
(* variable once, for every number and size of slots, all names, vendors   *)
(* and values, and any buffers.                                            *)
(***************************************************************************)
EXTENDS VariableStore, SequenceTheorems, FiniteSetTheorems, TLAPS

Used == 1 .. MAX_VARIABLES \ FreeSlots

\* A name that SetVariable accepts.
Storable(name) == name \in Seq(Nat \ {0}) /\ Len(name) \in 1 .. MAX_VARIABLE_NAME_LEN - 1

\* The name array that holds it.
Padded(name) == [i \in 1 .. MAX_VARIABLE_NAME_LEN |-> CharAt(name, i)]

\* A used slot holds a variable some caller stored, whatever was there before.
Holds(slot, name, value) ==
  /\ Storable(name) /\ name \in Names
  /\ slot.name = Padded(name)
  /\ slot.vendor_guid \in Vendors /\ slot.attributes \in AttributeSets
  /\ value \in Values /\ Len(value) \in 1 .. MAX_VARIABLE_DATA_SIZE
  /\ slot.data_size = Len(value)
  /\ \A i \in 1 .. Len(value) : slot.data[i] = value[i]

Slot ==
  [name : [1 .. MAX_VARIABLE_NAME_LEN -> Nat], vendor_guid : Vendors \cup {0},
   attributes : AttributeSets \cup {0}, data : [1 .. MAX_VARIABLE_DATA_SIZE -> Nat],
   data_size : Nat, in_use : BOOLEAN]

\* The invariant of the array: no variable is in two slots.
StoreInv ==
  /\ variables \in [1 .. MAX_VARIABLES -> Slot]
  /\ \A i \in Used : \E name \in Names, value \in Values : Holds(variables[i], name, value)
  /\ \A i, j \in Used : Key(i) = Key(j) => i = j

----------------------------------------------------------------------------
(* Names and slots.                                                        *)

\* Every non-empty set of natural numbers has a least element.
LEMMA LeastNatural ==
  ASSUME NEW T \in SUBSET Nat, T # {}
  PROVE  First(T) \in T /\ \A y \in T : First(T) <= y
<1> DEFINE R == {p \in Nat \X Nat : p[1] < p[2]}
<1>1. IsWellFoundedOn(R, Nat)
  BY NatLessThanWellFounded DEF OpToRel
<1>2. PICK x \in T : \A y \in T : <<y, x>> \notin R
  <2> HIDE DEF R
  <2> QED BY <1>1, WFMin
<1>3. \A y \in T : x <= y
  <2> TAKE y \in T
  <2>1. x \in Nat /\ y \in Nat
    OBVIOUS
  <2>2. y < x => <<y, x>> \in R
    BY <2>1
  <2> QED BY <1>2, <2>1, <2>2
<1> QED BY <1>3 DEF First

\* The padded array of a name, read character by character.
LEMMA PaddedChars ==
  ASSUME NEW name, Storable(name)
  PROVE  /\ Padded(name) \in [1 .. MAX_VARIABLE_NAME_LEN -> Nat]
         /\ Padded(name) \in Seq(Nat) /\ Len(Padded(name)) = MAX_VARIABLE_NAME_LEN
         /\ \A i \in 1 .. Len(name) : Padded(name)[i] = name[i] /\ name[i] \in Nat \ {0}
         /\ \A i \in Len(name) + 1 .. MAX_VARIABLE_NAME_LEN : Padded(name)[i] = 0
<1>1. MAX_VARIABLE_NAME_LEN \in Nat
  BY VariableAssumption
<1>2. Len(name) \in Nat /\ \A i \in 1 .. Len(name) : name[i] \in Nat \ {0}
  BY DEF Storable
<1>3. Padded(name) \in [1 .. MAX_VARIABLE_NAME_LEN -> Nat]
  BY <1>1, <1>2 DEF Padded, CharAt
<1>4. Padded(name) \in Seq(Nat)
  BY <1>1, <1>3, SeqDef
<1> QED BY <1>1, <1>2, <1>3, <1>4 DEF Padded, CharAt, Storable

\* ucs2_strlen of a stored name is the length it was stored with.
LEMMA StoredLength ==
  ASSUME NEW name, Storable(name)
  PROVE  Ucs2Strlen(Padded(name)) = Len(name)
<1> DEFINE s == Padded(name)
           n == Len(name) + 1
           P(i) == s[i] = 0 /\ \A j \in 1 .. i - 1 : s[j] # 0
<1>1. MAX_VARIABLE_NAME_LEN \in Nat /\ Len(name) \in Nat /\ n \in 1 .. MAX_VARIABLE_NAME_LEN
  BY VariableAssumption DEF Storable
<1>2. DOMAIN s = 1 .. MAX_VARIABLE_NAME_LEN
  BY PaddedChars
<1>3. \A j \in 1 .. Len(name) : s[j] # 0
  BY PaddedChars
<1>4. s[n] = 0
  BY PaddedChars, <1>1
<1>5. n \in DOMAIN s /\ P(n)
  BY <1>1, <1>2, <1>3, <1>4
<1>6. \A i \in DOMAIN s : P(i) => i = n
  BY <1>1, <1>2, <1>3, <1>4
<1>7. (CHOOSE i \in DOMAIN s : P(i)) = n
  <2> HIDE DEF P, n, s
  <2> QED BY <1>5, <1>6
<1> QED BY <1>1, <1>5, <1>7 DEF Ucs2Strlen

\* What GetNextVariableName copies out of a slot is the name SetVariable wrote.
LEMMA StoredName ==
  ASSUME NEW name, Storable(name)
  PROVE  SubSeq(Padded(name), 1, Ucs2Strlen(Padded(name))) = name
<1>1. name \in Seq(Nat) /\ Len(name) \in Nat
  BY SeqMonotonic DEF Storable
<1>2. \A i \in 1 .. Len(name) : Padded(name)[i] = name[i] /\ name[i] \in Nat
  BY PaddedChars
<1>3. /\ SubSeq(Padded(name), 1, Len(name)) \in Seq(Nat)
      /\ Len(SubSeq(Padded(name), 1, Len(name))) = Len(name)
      /\ \A i \in 1 .. Len(name) : SubSeq(Padded(name), 1, Len(name))[i] = Padded(name)[i]
  BY <1>1, <1>2, SubSeqProperties
<1>4. SubSeq(Padded(name), 1, Len(name)) = name
  BY <1>1, <1>2, <1>3, SeqEqual
<1> QED BY <1>4, StoredLength

\* name_eq on a stored name is equality of names.
LEMMA NameEqExact ==
  ASSUME NEW stored, Storable(stored), NEW name, Storable(name)
  PROVE  NameEq(Padded(stored), name) <=> stored = name
<1>1. /\ MAX_VARIABLE_NAME_LEN \in Nat /\ Len(stored) \in Nat /\ Len(name) \in Nat
      /\ Len(stored) < MAX_VARIABLE_NAME_LEN /\ Len(name) < MAX_VARIABLE_NAME_LEN
      /\ stored \in Seq(Nat) /\ name \in Seq(Nat)
  BY VariableAssumption, SeqMonotonic DEF Storable
<1> DEFINE C(i) == CharAt(Padded(stored), i)
<1>0. /\ \A i \in 1 .. Len(stored) : Padded(stored)[i] = stored[i] /\ stored[i] \in Nat \ {0}
      /\ \A i \in 1 .. Len(name) : name[i] \in Nat \ {0}
      /\ Len(Padded(stored)) = MAX_VARIABLE_NAME_LEN
  BY PaddedChars
<1>2. \A i \in 1 .. Len(stored) : C(i) = stored[i] /\ C(i) # 0
  BY <1>0, <1>1 DEF CharAt
<1>3. C(Len(stored) + 1) = 0
  BY <1>1, PaddedChars DEF CharAt
<1>4. \A i \in 1 .. Len(name) : CharAt(name, i) = name[i] /\ name[i] # 0
  BY <1>0, <1>1 DEF CharAt
<1>5. \A i \in Nat : i > Len(name) => CharAt(name, i) = 0
  BY <1>1 DEF CharAt
<1> HIDE DEF C
<1>6. ASSUME NEW n \in 1 .. MAX_VARIABLE_NAME_LEN + 1, C(n) = 0,
             \A i \in 1 .. n : C(i) = CharAt(name, i), \A i \in 1 .. n - 1 : C(i) # 0
      PROVE  stored = name
  <2>1. n = Len(stored) + 1
    BY <1>1, <1>2, <1>3, <1>6
  <2>2. Len(name) = Len(stored)
    BY <1>1, <1>2, <1>3, <1>4, <1>5, <1>6, <2>1
  <2>3. \A i \in 1 .. Len(stored) : stored[i] = name[i]
    BY <1>1, <1>2, <1>4, <1>6, <2>1, <2>2
  <2> QED BY <1>1, <2>2, <2>3, SeqEqual
<1>7. ASSUME stored = name
      PROVE  LET n == Len(stored) + 1
             IN  /\ n \in 1 .. MAX_VARIABLE_NAME_LEN + 1
                 /\ C(n) = 0
                 /\ \A i \in 1 .. n : C(i) = CharAt(name, i)
                 /\ \A i \in 1 .. n - 1 : C(i) # 0
  BY <1>1, <1>2, <1>3, <1>4, <1>5, <1>7
<1> QED BY <1>6, <1>7 DEF NameEq, C

\* A slot that holds a variable has that variable as its key.
LEMMA KeyOfHeld ==
  ASSUME NEW i, NEW name, NEW value, Holds(variables[i], name, value)
  PROVE  Key(i) = <<name, variables[i].vendor_guid>>
BY StoredName DEF Key, Holds

\* The search of the code finds the slots that hold the variable.
LEMMA ExistingIsKey ==
  ASSUME StoreInv, NEW name, Storable(name), NEW g
  PROVE  Existing(name, g) = {i \in Used : Key(i) = <<name, g>>}
<1> SUFFICES ASSUME NEW i \in Used
             PROVE  (variables[i].vendor_guid = g /\ NameEq(variables[i].name, name))
                      <=> Key(i) = <<name, g>>
  BY DEF Existing, Used, FreeSlots
<1>1. PICK stored \in Names, value \in Values : Holds(variables[i], stored, value)
  BY DEF StoreInv
<1>2. Key(i) = <<stored, variables[i].vendor_guid>>
  BY <1>1, KeyOfHeld
<1>3. NameEq(variables[i].name, name) <=> stored = name
  BY <1>1, NameEqExact DEF Holds
<1> QED BY <1>2, <1>3

\* A slot that a step leaves alone keeps its key.
LEMMA KeyUnchanged ==
  ASSUME NEW j, variables'[j] = variables[j]
  PROVE  Key(j)' = Key(j)
BY DEF Key

----------------------------------------------------------------------------
(* What the services do to the slots.                                      *)

\* SetVariable writes one slot: the one that held the variable, or a free one.
SetsSlot(i, name, g, a, v) ==
  /\ i \in 1 .. MAX_VARIABLES
  /\ Used' = Used \cup {i}
  /\ i \in Used => Key(i) = <<name, g>>
  /\ Key(i)' = <<name, g>>
  /\ Holds(variables'[i], name, v) /\ variables'[i].attributes = a
  /\ \A j \in Used \ {i} : variables'[j] = variables[j] /\ Key(j)' = Key(j) /\ Key(j) # <<name, g>>

\* What set_variable does to the slots: one slot holds the variable, the
\* others are as they were.
LEMMA SetEffect ==
  ASSUME StoreInv, NEW name \in Names, NEW g \in Vendors, NEW a \in AttributeSets,
         NEW v \in Values, SetVariable(name, g, a, v)
  PROVE  StoreInv' /\ \E i \in 1 .. MAX_VARIABLES : SetsSlot(i, name, g, a, v)
<1> DEFINE E == Existing(name, g)
<1> PICK i : i = IF E # {} THEN First(E) ELSE First(FreeSlots)
  OBVIOUS
<1> DEFINE new == [name |-> Padded(name), vendor_guid |-> g, attributes |-> a,
                   data |-> WriteData(variables[i].data, v), data_size |-> Len(v), in_use |-> TRUE]
<1>1. Storable(name) /\ v \in Seq(Nat) /\ Len(v) \in 1 .. MAX_VARIABLE_DATA_SIZE
  BY VariableAssumption DEF SetVariable, Storable
<1>2. E = {j \in Used : Key(j) = <<name, g>>}
  BY <1>1, ExistingIsKey
<1>3. MAX_VARIABLES \in Nat /\ MAX_VARIABLE_DATA_SIZE \in Nat
  BY VariableAssumption
<1>4. /\ E # {} => i \in E
      /\ E = {} => i \in FreeSlots
  <2>1. E \subseteq Nat /\ FreeSlots \subseteq Nat
    BY <1>3 DEF Existing, FreeSlots
  <2> QED BY <2>1, LeastNatural DEF SetVariable
<1>5. i \in 1 .. MAX_VARIABLES
  BY <1>4 DEF Existing, FreeSlots
<1>6. variables' = [variables EXCEPT ![i] = new]
  BY DEF SetVariable, WriteName, Padded
<1>7. new \in Slot /\ Holds(new, name, v)
  <2>1. Padded(name) \in [1 .. MAX_VARIABLE_NAME_LEN -> Nat]
    BY <1>1, PaddedChars
  <2>2. variables[i].data \in [1 .. MAX_VARIABLE_DATA_SIZE -> Nat]
    BY <1>5 DEF StoreInv, Slot
  <2>3. /\ WriteData(variables[i].data, v) \in [1 .. MAX_VARIABLE_DATA_SIZE -> Nat]
        /\ \A j \in 1 .. Len(v) : WriteData(variables[i].data, v)[j] = v[j]
    <3> PICK old : old = variables[i].data
      OBVIOUS
    <3>1. WriteData(old, v) \in [1 .. MAX_VARIABLE_DATA_SIZE -> Nat]
      <4>1. ASSUME NEW j \in 1 .. MAX_VARIABLE_DATA_SIZE
            PROVE  (IF j <= Len(v) THEN v[j] ELSE old[j]) \in Nat
        <5>1. old[j] \in Nat
          BY <2>2
        <5>2. j <= Len(v) => v[j] \in Nat
          BY <1>1, <1>3, ElementOfSeq
        <5> QED BY <5>1, <5>2
      <4> QED BY <4>1 DEF WriteData
    <3>2. \A j \in 1 .. Len(v) : WriteData(old, v)[j] = v[j]
      BY <1>1, <1>3 DEF WriteData
    <3> QED BY <3>1, <3>2
  <2> QED BY <1>1, <2>1, <2>3 DEF Slot, Holds
<1> HIDE DEF new
<1>8. /\ variables' \in [1 .. MAX_VARIABLES -> Slot]
      /\ variables'[i] = new
      /\ \A j \in 1 .. MAX_VARIABLES \ {i} : variables'[j] = variables[j]
  BY <1>5, <1>6, <1>7 DEF StoreInv
<1>9. Used' = Used \cup {i}
  <2>1. new.in_use
    BY DEF new
  <2> QED BY <1>5, <1>8, <2>1 DEF Used, FreeSlots
<1>10. i \in Used => Key(i) = <<name, g>>
  BY <1>2, <1>4 DEF Used
<1>11. Key(i)' = <<name, g>>
  <2>1. SubSeq(new.name, 1, Ucs2Strlen(new.name)) = name /\ new.vendor_guid = g
    BY <1>1, StoredName DEF new
  <2> QED BY <1>8, <2>1 DEF Key
<1>12. ASSUME NEW j \in Used \ {i}
       PROVE  variables'[j] = variables[j] /\ Key(j)' = Key(j) /\ Key(j) # <<name, g>>
  <2>1. variables'[j] = variables[j]
    BY <1>8 DEF Used
  <2>2. Key(j) # <<name, g>>
    BY <1>2, <1>4 DEF StoreInv
  <2> QED BY <2>1, <2>2, KeyUnchanged
<1>13. SetsSlot(i, name, g, a, v)
  <2>1. new.attributes = a
    BY DEF new
  <2> QED BY <1>5, <1>7, <1>8, <1>9, <1>10, <1>11, <1>12, <2>1 DEF SetsSlot
<1>14. ASSUME NEW j \in Used'
       PROVE  \E n \in Names, w \in Values : Holds(variables[j], n, w)'
  <2>1. CASE j = i
    BY <1>7, <1>8, <2>1 DEF Holds
  <2>2. CASE j # i
    <3>1. variables'[j] = variables[j] /\ j \in Used
      BY <1>9, <1>12, <2>2
    <3>2. PICK n \in Names, w \in Values : Holds(variables[j], n, w)
      BY <3>1 DEF StoreInv
    <3> QED BY <3>1, <3>2
  <2> QED BY <2>1, <2>2
<1>15. ASSUME NEW j \in Used', NEW k \in Used', Key(j)' = Key(k)'
       PROVE  j = k
  BY <1>9, <1>11, <1>12, <1>15 DEF StoreInv
<1>16. StoreInv'
  BY <1>8, <1>14, <1>15 DEF StoreInv
<1> QED BY <1>5, <1>13, <1>16

\* DeleteVariable frees the one slot that held the variable.
FreesSlot(i, name, g) ==
  /\ i \in Used /\ Key(i) = <<name, g>>
  /\ Used' = Used \ {i}
  /\ \A j \in Used \ {i} : variables'[j] = variables[j] /\ Key(j)' = Key(j) /\ Key(j) # <<name, g>>

\* What a deletion does to the slots: the one that held the variable is free.
LEMMA DeleteEffect ==
  ASSUME StoreInv, NEW name \in Names, NEW g \in Vendors, DeleteVariable(name, g)
  PROVE  StoreInv' /\ \E i \in Used : FreesSlot(i, name, g)
<1> DEFINE i == First(Existing(name, g))
<1>1. Storable(name)
  BY VariableAssumption DEF DeleteVariable, Storable
<1>2. Existing(name, g) = {j \in Used : Key(j) = <<name, g>>}
  BY <1>1, ExistingIsKey
<1>3. i \in Used /\ i \in 1 .. MAX_VARIABLES /\ Key(i) = <<name, g>>
  <2>1. Existing(name, g) \subseteq Nat
    BY VariableAssumption DEF Existing
  <2> QED BY <1>2, <2>1, LeastNatural DEF DeleteVariable, Used
<1>4. variables' = [variables EXCEPT ![i] = [variables[i] EXCEPT !.in_use = FALSE]]
  BY DEF DeleteVariable
<1> HIDE DEF i
<1>5. variables[i] \in Slot
  BY <1>3 DEF StoreInv
<1>6. /\ variables' \in [1 .. MAX_VARIABLES -> Slot]
      /\ ~variables'[i].in_use
      /\ \A j \in 1 .. MAX_VARIABLES \ {i} : variables'[j] = variables[j]
  BY <1>3, <1>4, <1>5 DEF StoreInv, Slot
<1>7. Used' = Used \ {i}
  BY <1>3, <1>6 DEF Used, FreeSlots
<1>8. ASSUME NEW j \in Used \ {i}
      PROVE  variables'[j] = variables[j] /\ Key(j)' = Key(j) /\ Key(j) # <<name, g>>
  <2>1. variables'[j] = variables[j]
    BY <1>6 DEF Used
  <2>2. Key(j) # <<name, g>>
    BY <1>3 DEF StoreInv
  <2> QED BY <2>1, <2>2, KeyUnchanged
<1>9. ASSUME NEW j \in Used'
      PROVE  \E n \in Names, w \in Values : Holds(variables[j], n, w)'
  <2>1. variables'[j] = variables[j] /\ j \in Used
    BY <1>7, <1>8
  <2>2. PICK n \in Names, w \in Values : Holds(variables[j], n, w)
    BY <2>1 DEF StoreInv
  <2> QED BY <2>1, <2>2
<1>10. \A j, k \in Used' : Key(j)' = Key(k)' => j = k
  BY <1>7, <1>8 DEF StoreInv
<1>11. StoreInv'
  BY <1>6, <1>9, <1>10 DEF StoreInv
<1> QED BY <1>3, <1>7, <1>8, <1>11 DEF FreesSlot

----------------------------------------------------------------------------
(* Listing.                                                                *)

Lister ==
  [at : Seq(Nat), vendor : Vendors \cup {0}, seen : Seq(Names \X Vendors),
   steady : SUBSET (Names \X Vendors), state : {"idle", "listing", "lost", "done"}]

Listed == {lister.seen[n] : n \in DOMAIN lister.seen}

\* The lister stands before the first slot, or on a slot that is in use.
StandsOn(p) ==
  \/ p = 0 /\ lister.at = <<>>
  \/ p \in Used /\ Key(p) = <<lister.at, lister.vendor>>

\* While it lists, the lasting variables it has seen are those up to its place.
ListInv ==
  /\ lister \in Lister
  /\ ListsEachOnce
  /\ lister.state = "listing" =>
       /\ lister.steady \subseteq Keys
       /\ \E p \in 0 .. MAX_VARIABLES :
            /\ StandsOn(p)
            /\ \A i \in Used : Key(i) \in lister.steady => (i <= p <=> Key(i) \in Listed)

IInv == StoreInv /\ ListInv

\* The keys of used slots are variables.
LEMMA KeyType ==
  ASSUME StoreInv, NEW i \in Used
  PROVE  Key(i) \in Names \X Vendors /\ Storable(Key(i)[1])
<1>1. PICK name \in Names, value \in Values : Holds(variables[i], name, value)
  BY DEF StoreInv
<1> QED BY <1>1, KeyOfHeld DEF Holds

\* The slots that GetNextVariableName chooses from lie after the lister's place.
LEMMA NextAfter ==
  ASSUME StoreInv, NEW p \in 0 .. MAX_VARIABLES, StandsOn(p)
  PROVE  NextSlots(lister.at, lister.vendor) = {i \in Used : i > p}
<1>1. CASE p = 0 /\ lister.at = <<>>
  BY <1>1, VariableAssumption DEF NextSlots, Used
<1>2. CASE p \in Used /\ Key(p) = <<lister.at, lister.vendor>>
  <2>1. Storable(lister.at)
    BY <1>2, KeyType
  <2>2. lister.at # <<>>
    BY <2>1 DEF Storable
  <2> DEFINE here == {i \in Used : /\ variables[i].vendor_guid = lister.vendor
                                   /\ NameEq(variables[i].name, lister.at)}
  <2>3. here = {i \in Used : Key(i) = <<lister.at, lister.vendor>>}
    BY <2>1, ExistingIsKey DEF Existing, Used, FreeSlots
  <2>4. here = {p}
    BY <1>2, <2>3 DEF StoreInv
  <2>5. First(here) = p
    BY <2>4, <1>2 DEF First
  <2> QED BY <2>2, <2>4, <2>5 DEF NextSlots, Used
<1> QED BY <1>1, <1>2 DEF StandsOn

\* The stored variables are the keys of the used slots.
LEMMA KeysAreUsed == Keys = {Key(i) : i \in Used}
BY DEF Keys, Used

\* Nothing a lister counts on is changed when a variable is set.
LEMMA SetKeepsList ==
  ASSUME IInv, NEW name \in Names, NEW g \in Vendors, NEW a \in AttributeSets,
         NEW v \in Values, SetVariable(name, g, a, v)
  PROVE  ListInv'
<1>1. PICK i \in 1 .. MAX_VARIABLES : SetsSlot(i, name, g, a, v)
  BY SetEffect DEF IInv
<1>2. lister' = lister
  BY DEF SetVariable
<1>3. \A j \in Used : j \in Used' /\ Key(j)' = Key(j)
  BY <1>1 DEF SetsSlot
<1>4. lister.state = "listing" => lister.steady \subseteq Keys'
  <2>1. Keys' = {Key(j)' : j \in Used'}
    BY DEF Keys, Used
  <2> QED BY <1>3, <2>1, KeysAreUsed DEF IInv, ListInv
<1>5. ASSUME lister.state = "listing"
      PROVE  \E p \in 0 .. MAX_VARIABLES :
               /\ StandsOn(p)'
               /\ \A j \in Used' : Key(j)' \in lister.steady => (j <= p <=> Key(j)' \in Listed)
  <2>1. PICK p \in 0 .. MAX_VARIABLES :
          /\ StandsOn(p)
          /\ \A j \in Used : Key(j) \in lister.steady => (j <= p <=> Key(j) \in Listed)
    BY <1>5 DEF IInv, ListInv
  <2>2. StandsOn(p)'
    BY <1>2, <1>3, <2>1 DEF StandsOn
  <2>3. ASSUME NEW j \in Used', Key(j)' \in lister.steady
        PROVE  j <= p <=> Key(j)' \in Listed
    <3>1. CASE j \in Used
      BY <1>3, <2>1, <2>3, <3>1
    <3>2. CASE j \notin Used
      <4>1. j = i /\ Key(j)' = <<name, g>>
        BY <1>1, <3>2 DEF SetsSlot
      <4>2. <<name, g>> \in Keys
        BY <1>5, <2>3, <4>1 DEF IInv, ListInv
      <4>3. PICK l \in Used : Key(l) = <<name, g>>
        BY <4>2, KeysAreUsed
      <4> QED BY <1>1, <3>2, <4>1, <4>3 DEF SetsSlot
    <3> QED BY <3>1, <3>2
  <2> QED BY <2>2, <2>3
<1>6. Listed' = Listed /\ ListsEachOnce' /\ lister' \in Lister
  BY <1>2 DEF IInv, ListInv, Listed, ListsEachOnce
<1> QED BY <1>2, <1>4, <1>5, <1>6 DEF ListInv, Lister

\* A variable that is deleted is no longer counted on, and a lister that stood
\* on it has lost its place.
LEMMA DeleteKeepsList ==
  ASSUME IInv, NEW name \in Names, NEW g \in Vendors, DeleteVariable(name, g)
  PROVE  ListInv'
<1>1. PICK i \in Used : FreesSlot(i, name, g)
  BY DeleteEffect DEF IInv
<1>2. Deleted(name, g) /\ lister \in Lister
  BY DEF DeleteVariable, IInv, ListInv
<1>3. CASE lister.state # "listing"
  <2>1. lister' = lister
    BY <1>2, <1>3 DEF Deleted
  <2> QED BY <1>3, <2>1 DEF IInv, ListInv, ListsEachOnce, Lister
<1>4. CASE lister.state = "listing"
  <2>1. /\ lister' \in Lister
        /\ lister'.steady = lister.steady \ {<<name, g>>}
        /\ lister'.at = lister.at /\ lister'.vendor = lister.vendor /\ lister'.seen = lister.seen
        /\ lister'.state \in {"listing", "lost"}
        /\ lister'.state = "listing" => <<name, g>> # <<lister.at, lister.vendor>>
    BY <1>2, <1>4 DEF Deleted, Lister
  <2>2. Listed' = Listed /\ ListsEachOnce'
    BY <1>4, <2>1 DEF IInv, ListInv, Listed, ListsEachOnce
  <2>3. lister'.steady \subseteq Keys'
    <3>1. Keys' = {Key(j)' : j \in Used'}
      BY DEF Keys, Used
    <3> QED BY <1>1, <1>4, <2>1, <3>1, KeysAreUsed DEF IInv, ListInv, FreesSlot
  <2>4. PICK p \in 0 .. MAX_VARIABLES :
          /\ StandsOn(p)
          /\ \A j \in Used : Key(j) \in lister.steady => (j <= p <=> Key(j) \in Listed)
    BY <1>4 DEF IInv, ListInv
  <2>5. lister'.state = "listing" => StandsOn(p)'
    BY <1>1, <2>1, <2>4 DEF StandsOn, FreesSlot
  <2>6. \A j \in Used' : Key(j)' \in lister'.steady => (j <= p <=> Key(j)' \in Listed')
    BY <1>1, <2>1, <2>2, <2>4 DEF FreesSlot
  <2> QED BY <2>1, <2>2, <2>3, <2>5, <2>6 DEF ListInv
<1> QED BY <1>3, <1>4

\* The next variable listed is the first one after the lister's place, and at
\* the end no lasting variable lies behind it.
LEMMA NextKeepsList ==
  ASSUME IInv, NEW size \in NameBuffers, GetNextVariableName(size)
  PROVE  ListInv'
<1> DEFINE next == NextSlots(lister.at, lister.vendor)
<1>1. lister \in Lister /\ variables' = variables
  BY DEF GetNextVariableName, IInv, ListInv
<1>2. next \subseteq Used /\ Used \subseteq Nat
  BY VariableAssumption DEF NextSlots, Used
<1>3. Used' = Used /\ Keys' = Keys /\ \A j : Key(j)' = Key(j)
  BY <1>1 DEF Used, FreeSlots, Keys, Key
<1>4. CASE next = {}
  <2>1. lister' = [lister EXCEPT !.state = IF @ = "lost" THEN "idle" ELSE "done"]
    BY <1>4 DEF GetNextVariableName
  <2>2. CASE lister.state = "lost"
    BY <1>1, <2>1, <2>2 DEF ListInv, ListsEachOnce, Lister
  <2>3. CASE lister.state = "listing"
    <3>1. PICK p \in 0 .. MAX_VARIABLES :
            /\ StandsOn(p)
            /\ \A j \in Used : Key(j) \in lister.steady => (j <= p <=> Key(j) \in Listed)
      BY <2>3 DEF IInv, ListInv
    <3>2. \A j \in Used : j <= p
      BY <1>2, <1>4, <3>1, NextAfter, VariableAssumption DEF IInv
    <3>3. lister.steady \subseteq Listed
      BY <2>3, <3>1, <3>2, KeysAreUsed DEF IInv, ListInv
    <3>4. /\ lister' \in Lister /\ lister'.state = "done"
          /\ lister'.seen = lister.seen /\ lister'.steady = lister.steady
      BY <1>1, <2>1, <2>3 DEF Lister
    <3> QED BY <2>3, <3>3, <3>4 DEF IInv, ListInv, ListsEachOnce, Listed
  <2> QED BY <2>2, <2>3 DEF GetNextVariableName
<1>5. CASE next # {}
  <2> PICK i : i = First(next)
    OBVIOUS
  <2>1. i \in next /\ \A j \in next : i <= j
    BY <1>2, <1>5, LeastNatural
  <2>2. i \in Used /\ i \in 1 .. MAX_VARIABLES
    BY <1>2, <2>1 DEF Used
  <2>3. Key(i) \in Names \X Vendors /\ Key(i)[1] \in Seq(Nat) /\ Key(i)[2] \in Vendors
        /\ Key(i) = <<Key(i)[1], Key(i)[2]>>
    BY <2>2, KeyType, SeqMonotonic DEF IInv, Storable
  <2>4. lister' = [lister EXCEPT !.at = Key(i)[1], !.vendor = Key(i)[2],
                     !.seen = IF lister.state = "lost" THEN <<>> ELSE Append(@, Key(i))]
    BY <1>5 DEF GetNextVariableName
  <2>5. CASE lister.state = "lost"
    <3>1. lister' = [lister EXCEPT !.at = Key(i)[1], !.vendor = Key(i)[2], !.seen = <<>>]
      BY <2>4, <2>5
    <3>2. <<>> \in Seq(Names \X Vendors)
      BY EmptySeq
    <3>3. lister' \in Lister /\ lister'.state = "lost"
      BY <1>1, <2>3, <2>5, <3>1, <3>2 DEF Lister
    <3> QED BY <3>3 DEF ListInv, ListsEachOnce
  <2>6. CASE lister.state = "listing"
    <3>1. PICK p \in 0 .. MAX_VARIABLES :
            /\ StandsOn(p)
            /\ \A j \in Used : Key(j) \in lister.steady => (j <= p <=> Key(j) \in Listed)
      BY <2>6 DEF IInv, ListInv
    <3>2. next = {j \in Used : j > p}
      BY <3>1, NextAfter DEF IInv
    <3>3. /\ lister' \in Lister /\ lister'.state = "listing"
          /\ lister'.at = Key(i)[1] /\ lister'.vendor = Key(i)[2]
          /\ lister'.seen = Append(lister.seen, Key(i)) /\ lister'.steady = lister.steady
      <4>1. lister' = [lister EXCEPT !.at = Key(i)[1], !.vendor = Key(i)[2],
                                     !.seen = Append(lister.seen, Key(i))]
        BY <2>4, <2>6
      <4>2. lister.seen \in Seq(Names \X Vendors)
        BY <1>1 DEF Lister
      <4>3. Append(lister.seen, Key(i)) \in Seq(Names \X Vendors)
        BY <2>3, <4>2, AppendProperties
      <4> QED BY <1>1, <2>3, <2>6, <4>1, <4>3 DEF Lister
    <3>4. lister.seen \in Seq(Names \X Vendors)
      BY <1>1 DEF Lister
    <3>5. /\ Len(lister.seen) \in Nat
          /\ DOMAIN lister.seen = 1 .. Len(lister.seen)
          /\ DOMAIN lister'.seen = 1 .. Len(lister.seen) + 1
          /\ \A n \in 1 .. Len(lister.seen) : lister'.seen[n] = lister.seen[n]
          /\ lister'.seen[Len(lister.seen) + 1] = Key(i)
      <4>1. /\ Append(lister.seen, Key(i)) \in Seq(Names \X Vendors)
            /\ Len(Append(lister.seen, Key(i))) = Len(lister.seen) + 1
            /\ \A n \in 1 .. Len(lister.seen) : Append(lister.seen, Key(i))[n] = lister.seen[n]
            /\ Append(lister.seen, Key(i))[Len(lister.seen) + 1] = Key(i)
        BY <2>3, <3>4, AppendProperties
      <4> QED BY <3>3, <3>4, <4>1, LenProperties
    <3>6. Listed' = Listed \cup {Key(i)}
      <4>1. Listed' = {lister'.seen[n] : n \in DOMAIN lister'.seen}
        BY DEF Listed
      <4>2. DOMAIN lister'.seen = DOMAIN lister.seen \cup {Len(lister.seen) + 1}
        BY <3>5
      <4>3. \A n \in DOMAIN lister.seen : lister'.seen[n] = lister.seen[n]
        BY <3>5
      <4>4. lister'.seen[Len(lister.seen) + 1] = Key(i)
        BY <3>5
      <4> QED BY <4>1, <4>2, <4>3, <4>4 DEF Listed
    <3>7. Key(i) \in lister.steady => Key(i) \notin Listed
      BY <2>1, <2>2, <3>1, <3>2
    <3>8. ASSUME NEW m \in DOMAIN lister'.seen, NEW n \in DOMAIN lister'.seen,
                 lister'.seen[m] = lister'.seen[n], lister'.seen[m] \in lister'.steady
          PROVE  m = n
      <4>1. \A l \in 1 .. Len(lister.seen) : lister'.seen[l] \in Listed
        BY <3>5 DEF Listed
      <4>2. CASE m \in DOMAIN lister.seen /\ n \in DOMAIN lister.seen
        BY <2>6, <3>3, <3>5, <3>8, <4>2 DEF IInv, ListInv, ListsEachOnce
      <4> QED BY <3>3, <3>5, <3>7, <3>8, <4>1, <4>2
    <3>9. ListsEachOnce'
      BY <3>3, <3>8 DEF ListsEachOnce
    <3>10. StandsOn(i)'
      BY <1>3, <2>2, <2>3, <3>3 DEF StandsOn
    <3>11. ASSUME NEW j \in Used, Key(j) \in lister.steady
           PROVE  j <= i <=> Key(j) \in Listed'
      <4>1. j \in Nat /\ i \in Nat /\ p \in Nat /\ i > p
        BY <1>2, <2>1, <2>2, <3>2, VariableAssumption
      <4>2. j > p => i <= j
        BY <2>1, <3>2
      <4>3. Key(j) = Key(i) <=> j = i
        BY <2>2 DEF IInv, StoreInv
      <4>4. j <= p <=> Key(j) \in Listed
        BY <3>1, <3>11
      <4> QED BY <3>6, <4>1, <4>2, <4>3, <4>4
    <3>12. lister'.steady \subseteq Keys'
      BY <1>3, <2>6, <3>3 DEF IInv, ListInv
    <3>13. i \in 0 .. MAX_VARIABLES
      BY <2>2, VariableAssumption
    <3> QED BY <1>3, <3>3, <3>9, <3>10, <3>11, <3>12, <3>13 DEF ListInv
  <2> QED BY <2>5, <2>6 DEF GetNextVariableName
<1> QED BY <1>4, <1>5

\* A listing starts with everything to come.
LEMMA StartKeepsList ==
  ASSUME IInv, StartListing
  PROVE  ListInv'
<1>1. Used' = Used /\ Keys' = Keys /\ \A j : Key(j)' = Key(j)
  BY DEF StartListing, Used, FreeSlots, Keys, Key
<1>2. Keys \subseteq Names \X Vendors
  BY KeysAreUsed, KeyType DEF IInv
<1>3. /\ lister' \in Lister /\ lister'.state = "listing" /\ lister'.at = <<>>
      /\ lister'.seen = <<>> /\ lister'.steady = Keys
  BY <1>2, EmptySeq DEF StartListing, Lister
<1>4. DOMAIN lister'.seen = {} /\ Listed' = {}
  BY <1>3 DEF Listed
<1>5. StandsOn(0)' /\ 0 \in 0 .. MAX_VARIABLES /\ \A j \in Used : ~(j <= 0)
  BY <1>3, VariableAssumption DEF StandsOn, Used
<1>6. ListsEachOnce'
  BY <1>3, <1>4 DEF ListsEachOnce
<1> QED BY <1>1, <1>3, <1>4, <1>5, <1>6 DEF ListInv

\* Every service call preserves the invariant.
LEMMA IInvStep ==
  ASSUME IInv, [Next]_vars
  PROVE  IInv'
<1>1. ASSUME NEW name \in Names, NEW g \in Vendors, NEW a \in AttributeSets, NEW v \in Values,
             SetVariable(name, g, a, v)
      PROVE  IInv'
  BY <1>1, SetEffect, SetKeepsList DEF IInv
<1>2. ASSUME NEW name \in Names, NEW g \in Vendors, DeleteVariable(name, g)
      PROVE  IInv'
  BY <1>2, DeleteEffect, DeleteKeepsList DEF IInv
<1>3. ASSUME variables' = variables
      PROVE  StoreInv' /\ Used' = Used /\ Keys' = Keys /\ \A j : Key(j)' = Key(j)
  <2>1. Used' = Used /\ Keys' = Keys /\ \A j : Key(j)' = Key(j)
    BY <1>3 DEF Used, FreeSlots, Keys, Key
  <2>2. ASSUME NEW i \in Used
        PROVE  \E n \in Names, w \in Values : Holds(variables'[i], n, w)
    BY <1>3 DEF IInv, StoreInv
  <2> QED BY <1>3, <2>1, <2>2 DEF IInv, StoreInv
<1>4. ASSUME NEW size \in NameBuffers, GetNextVariableName(size)
      PROVE  IInv'
  BY <1>3, <1>4, NextKeepsList DEF IInv, GetNextVariableName
<1>5. CASE StartListing
  BY <1>3, <1>5, StartKeepsList DEF IInv, StartListing
<1>6. CASE UNCHANGED vars
  <2>1. lister' = lister /\ variables' = variables
    BY <1>6 DEF vars
  <2>2. Listed' = Listed /\ ListsEachOnce' = ListsEachOnce /\ \A p : StandsOn(p)' = StandsOn(p)
    BY <1>3, <2>1 DEF Listed, ListsEachOnce, StandsOn
  <2>3. ListInv'
    BY <1>3, <2>1, <2>2 DEF IInv, ListInv
  <2> QED BY <1>3, <2>1, <2>3 DEF IInv
<1> QED BY <1>1, <1>2, <1>4, <1>5, <1>6 DEF Next

\* The empty array satisfies the invariant.
LEMMA IInvInit ==
  ASSUME Init
  PROVE  IInv
<1>1. EmptySlot \in Slot /\ ~EmptySlot.in_use
  BY VariableAssumption DEF EmptySlot, Slot
<1>2. variables \in [1 .. MAX_VARIABLES -> Slot] /\ Used = {}
  BY <1>1 DEF Init, Used, FreeSlots
<1>3. lister \in Lister /\ lister.state = "idle"
  BY EmptySeq DEF Init, Lister
<1> QED BY <1>2, <1>3 DEF IInv, StoreInv, ListInv, ListsEachOnce

\* No variable is ever in two slots, and a lister's place splits the lasting
\* variables into those it has seen and those to come (SetVariable reusing
\* slots, GetNextVariableName).
THEOREM Invariance == Spec => []IInv
BY IInvInit, IInvStep, PTL DEF Spec

\* Listing sees each lasting variable once and none is missed, for every number
\* of slots and whatever callers set and delete meanwhile
\* (GetNextVariableName).
THEOREM ListingIsExact == Spec => []ListsEachOnce
<1>1. IInv => ListsEachOnce
  BY DEF IInv, ListInv
<1> QED BY <1>1, Invariance, PTL

----------------------------------------------------------------------------
(* The slots implement a map.                                              *)

ContentOf(slot) ==
  [attributes |-> slot.attributes, value |-> SubSeq(slot.data, 1, slot.data_size)]

SeenIsContent == Seen = [k \in Keys |-> Seen[k]] /\ \A i \in Used : Seen[Key(i)] = ContentOf(variables[i])

\* The fields of an answer.
LEMMA ReplyFields ==
  ASSUME NEW r, NEW at, NEW val, r = [status |-> "SUCCESS", attributes |-> at, value |-> val]
  PROVE  r.attributes = at /\ r.value = val
OBVIOUS

\* GetVariable finds the slot that holds the variable.
LEMMA SeenExact == StoreInv => SeenIsContent
<1> SUFFICES ASSUME StoreInv PROVE SeenIsContent
  OBVIOUS
<1>1. ASSUME NEW i \in Used
      PROVE  GetVariable(Key(i)[1], Key(i)[2]) =
               [status |-> "SUCCESS", attributes |-> variables[i].attributes,
                value |-> SubSeq(variables[i].data, 1, variables[i].data_size)]
  <2>1. Storable(Key(i)[1]) /\ Key(i) = <<Key(i)[1], Key(i)[2]>>
    BY KeyType
  <2>2. Existing(Key(i)[1], Key(i)[2]) = {j \in Used : Key(j) = Key(i)}
    BY <2>1, ExistingIsKey
  <2>3. Existing(Key(i)[1], Key(i)[2]) = {i}
    BY <2>2 DEF StoreInv
  <2>4. First({i}) = i
    BY VariableAssumption DEF First, Used
  <2> QED BY <2>3, <2>4 DEF GetVariable
<1>2. ASSUME NEW i \in Used
      PROVE  Seen[Key(i)] = ContentOf(variables[i])
  <2>0. PICK k : k = Key(i)
    OBVIOUS
  <2>1. k \in Keys
    BY <2>0, KeysAreUsed
  <2>2. Seen[k] = [attributes |-> GetVariable(k[1], k[2]).attributes,
                   value |-> GetVariable(k[1], k[2]).value]
    BY <2>1 DEF Seen
  <2>3. /\ GetVariable(k[1], k[2]).attributes = variables[i].attributes
        /\ GetVariable(k[1], k[2]).value = SubSeq(variables[i].data, 1, variables[i].data_size)
    <3>0. PICK at, val, r :
            /\ at = variables[i].attributes
            /\ val = SubSeq(variables[i].data, 1, variables[i].data_size)
            /\ r = GetVariable(k[1], k[2])
      BY Zenon
    <3>1. r = [status |-> "SUCCESS", attributes |-> at, value |-> val]
      BY <1>1, <2>0, <3>0, Zenon
    <3>2. r.attributes = at /\ r.value = val
      BY <3>1, ReplyFields, Zenon
    <3> QED BY <3>0, <3>2, Zenon
  <2> QED BY <2>0, <2>2, <2>3 DEF ContentOf
<1>3. Seen = [k \in Keys |-> Seen[k]]
  BY DEF Seen
<1> QED BY <1>2, <1>3 DEF SeenIsContent

\* What a slot holds is what GetVariable answers for its key.
LEMMA HeldContent ==
  ASSUME NEW slot, NEW name, NEW value, Holds(slot, name, value)
  PROVE  ContentOf(slot) = [attributes |-> slot.attributes, value |-> value]
<1>1. value \in Seq(Nat) /\ Len(value) \in Nat /\ \A i \in 1 .. Len(value) : slot.data[i] = value[i]
  BY VariableAssumption DEF Holds
<1>2. \A i \in 1 .. Len(value) : slot.data[i] \in Nat
  BY <1>1, ElementOfSeq
<1>3. /\ SubSeq(slot.data, 1, Len(value)) \in Seq(Nat)
      /\ Len(SubSeq(slot.data, 1, Len(value))) = Len(value)
      /\ \A i \in 1 .. Len(value) : SubSeq(slot.data, 1, Len(value))[i] = slot.data[i]
  BY <1>1, <1>2, SubSeqProperties
<1>4. SubSeq(slot.data, 1, Len(value)) = value
  BY <1>1, <1>3, SeqEqual
<1> QED BY <1>4 DEF ContentOf, Holds

KeysFitSlots == Cardinality(Keys) <= MAX_VARIABLES

\* Every variable has a slot of its own.
LEMMA KeysFit == StoreInv => KeysFitSlots
<1> SUFFICES ASSUME StoreInv PROVE Cardinality(Keys) <= MAX_VARIABLES
  BY DEF KeysFitSlots
<1> DEFINE f == [i \in Used |-> Key(i)]
<1>1. f \in Surjection(Used, Keys)
  BY KeysAreUsed DEF Surjection
<1>2. /\ MAX_VARIABLES \in Nat /\ IsFiniteSet(1 .. MAX_VARIABLES)
      /\ Cardinality(1 .. MAX_VARIABLES) = MAX_VARIABLES
  BY VariableAssumption, FS_Interval
<1>3. IsFiniteSet(Used) /\ Cardinality(Used) <= MAX_VARIABLES
  BY <1>2, FS_Subset DEF Used
<1>4. IsFiniteSet(Keys) /\ Cardinality(Keys) <= Cardinality(Used)
  <2> HIDE DEF f
  <2> QED BY <1>1, <1>3, FS_Surjection
<1> QED BY <1>2, <1>3, <1>4, FS_CardinalityType

\* SetVariable is a step of the map.
LEMMA SetIsSet ==
  ASSUME StoreInv, StoreInv', NEW name \in Names, NEW g \in Vendors, NEW a \in AttributeSets,
         NEW v \in Values, SetVariable(name, g, a, v)
  PROVE  Abstract!Set(<<name, g>>, [attributes |-> a, value |-> v])
<1> DEFINE key == <<name, g>>
           c == [attributes |-> a, value |-> v]
<1>1. PICK i \in 1 .. MAX_VARIABLES : SetsSlot(i, name, g, a, v)
  BY SetEffect
<1>2. SeenIsContent /\ SeenIsContent' /\ KeysFitSlots'
  BY SeenExact, KeysFit, PTL
<1>3. Keys = {Key(j) : j \in Used} /\ Keys' = {Key(j)' : j \in Used'}
  BY DEF Keys, Used
<1>4. Keys' = Keys \cup {key}
  BY <1>1, <1>3 DEF SetsSlot
<1>5. Seen'[key] = c
  BY <1>1, <1>2, HeldContent DEF SetsSlot, SeenIsContent
<1>6. ASSUME NEW l \in Keys, l # key
      PROVE  Seen'[l] = Seen[l]
  <2>1. PICK j \in Used : Key(j) = l
    BY <1>3
  <2>2. j \in Used' /\ Key(j)' = l /\ variables'[j] = variables[j]
    BY <1>1, <1>6, <2>1 DEF SetsSlot
  <2> QED BY <1>2, <2>1, <2>2 DEF SeenIsContent
<1>7. DOMAIN Seen = Keys
  BY DEF Seen
<1>8. Seen' = [l \in Keys \cup {key} |-> IF l = key THEN c ELSE Seen[l]]
  <2>1. Seen' = [l \in Keys' |-> Seen'[l]]
    BY <1>2 DEF SeenIsContent
  <2> QED BY <1>4, <1>5, <1>6, <2>1
<1>9. Cardinality(DOMAIN Seen \cup {key}) <= MAX_VARIABLES
  BY <1>2, <1>4, <1>7 DEF KeysFitSlots
<1>10. Seen' = [l \in DOMAIN Seen \cup {key} |-> IF l = key THEN c ELSE Seen[l]]
  BY <1>7, <1>8
<1>11. Abstract!Cardinality(DOMAIN Seen \cup {key}) = Cardinality(DOMAIN Seen \cup {key})
  BY DEF Cardinality, Abstract!Cardinality
<1> QED BY <1>9, <1>10, <1>11 DEF Abstract!Set

\* DeleteVariable is a step of the map.
LEMMA DeleteIsDelete ==
  ASSUME StoreInv, StoreInv', NEW name \in Names, NEW g \in Vendors, DeleteVariable(name, g)
  PROVE  Abstract!Delete(<<name, g>>)
<1> DEFINE key == <<name, g>>
<1>1. PICK i \in Used : FreesSlot(i, name, g)
  BY DeleteEffect
<1>2. SeenIsContent /\ SeenIsContent'
  BY SeenExact, PTL
<1>3. Keys = {Key(j) : j \in Used} /\ Keys' = {Key(j)' : j \in Used'}
  BY DEF Keys, Used
<1>4. key \in Keys /\ Keys' = Keys \ {key}
  BY <1>1, <1>3 DEF FreesSlot
<1>5. ASSUME NEW l \in Keys, l # key
      PROVE  Seen'[l] = Seen[l]
  <2>1. PICK j \in Used : Key(j) = l
    BY <1>3
  <2>2. j \in Used' /\ Key(j)' = l /\ variables'[j] = variables[j]
    BY <1>1, <1>5, <2>1 DEF FreesSlot
  <2> QED BY <1>2, <2>1, <2>2 DEF SeenIsContent
<1>6. DOMAIN Seen = Keys
  BY DEF Seen
<1>7. Seen' = [l \in Keys \ {key} |-> Seen[l]]
  <2>1. Seen' = [l \in Keys' |-> Seen'[l]]
    BY <1>2 DEF SeenIsContent
  <2> QED BY <1>4, <1>5, <2>1
<1> QED BY <1>4, <1>6, <1>7 DEF Abstract!Delete

\* Calls that leave the slots alone leave the map alone.
LEMMA SeenUnchanged ==
  ASSUME variables' = variables
  PROVE  Seen' = Seen
BY DEF Seen, Keys, Key, FreeSlots, GetVariable, Existing

\* The slot array implements the map of VariableMap, for every number and size
\* of slots: SetVariable and DeleteVariable are its steps, and all others leave
\* what GetVariable finds as it is.
THEOREM VariablesAreAMap == Spec => ImplementsVariableMap
<1>1. Init => Abstract!Init
  <2>1. Init => Used = {}
    BY DEF Init, Used, FreeSlots, EmptySlot
  <2>2. Used = {} => Keys = {}
    BY DEF Keys, Used
  <2> QED BY <2>1, <2>2 DEF Abstract!Init, Seen
<1>2. IInv /\ IInv' /\ [Next]_vars => [Abstract!Next]_Seen
  <2> SUFFICES ASSUME StoreInv, StoreInv', [Next]_vars
               PROVE  Abstract!Next \/ Seen' = Seen
    BY DEF IInv
  <2>1. ASSUME NEW name \in Names, NEW g \in Vendors, NEW a \in AttributeSets, NEW v \in Values,
               SetVariable(name, g, a, v)
        PROVE  Abstract!Next
    <3>1. <<name, g>> \in Names \X Vendors
          /\ [attributes |-> a, value |-> v] \in [attributes : AttributeSets, value : Values]
      OBVIOUS
    <3> QED BY <2>1, <3>1, SetIsSet DEF Abstract!Next
  <2>2. ASSUME NEW name \in Names, NEW g \in Vendors, DeleteVariable(name, g)
        PROVE  Abstract!Next
    <3>1. <<name, g>> \in Names \X Vendors
      OBVIOUS
    <3> QED BY <2>2, <3>1, DeleteIsDelete DEF Abstract!Next
  <2>3. ASSUME (\E size \in NameBuffers : GetNextVariableName(size)) \/ StartListing \/ UNCHANGED vars
        PROVE  Seen' = Seen
    BY <2>3, SeenUnchanged DEF GetNextVariableName, StartListing, vars
  <2> QED BY <2>1, <2>2, <2>3 DEF Next
<1> QED BY <1>1, <1>2, Invariance, PTL DEF Spec, ImplementsVariableMap, Abstract!Spec
=============================================================================
