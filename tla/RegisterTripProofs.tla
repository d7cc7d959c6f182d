------------------------- MODULE RegisterTripProofs -------------------------
(***************************************************************************)
(* The loops of RegisterTrip, for lists of any length, any kinds and names *)
(* and every order in which Go walks its maps.                             *)
(***************************************************************************)
EXTENDS RegisterTrip, FiniteSetTheorems, SequenceTheorems, TLAPS

-----------------------------------------------------------------------------
(* Reading a list into a map                                               *)

\* Of the first n entries of the list, i is the last of its kind.
LastOf(list, n, i, kind) ==
  /\ i \in 1 .. n
  /\ list[i].kind = kind
  /\ \A j \in 1 .. n : list[j].kind = kind => j <= i

\* The map holds the first n entries of the list.
Holds(register, list, n) ==
  /\ register \in RegisterMaps
  /\ \A kind \in DOMAIN register :
       \E i : LastOf(list, n, i, kind) /\ register[kind] = list[i].name
  /\ \A i \in 1 .. n : list[i].kind \in DOMAIN register

\* An assignment adds the next entry.
LEMMA CollectNext ==
  ASSUME NEW list \in Seq(Entry), NEW n \in Nat, n < Len(list),
         NEW register, Holds(register, list, n)
  PROVE  Holds(Collect(register, list[n + 1]), list, n + 1)
<1> DEFINE entry == list[n + 1]
           next == Collect(register, entry)
<1>1. /\ entry \in Entry /\ entry.kind \in Kinds /\ entry.name \in RegisterNames
      /\ \A i \in 1 .. n + 1 : i = n + 1 \/ i \in 1 .. n
      /\ n + 1 \in 1 .. n + 1 /\ 1 .. n \subseteq 1 .. n + 1
  <2>1. n + 1 \in 1 .. Len(list) /\ Len(list) \in Nat
    OBVIOUS
  <2>2. entry \in Entry
    BY <2>1
  <2> QED
    BY <2>2 DEF Entry
<1>2. /\ DOMAIN next = DOMAIN register \cup { entry.kind }
      /\ \A kind \in DOMAIN next :
           next[kind] = IF kind = entry.kind THEN entry.name ELSE register[kind]
  BY DEF Collect, Assign
<1>3. PICK S \in SUBSET Kinds : register \in [S -> RegisterNames]
  BY DEF Holds, RegisterMaps
<1>4. next \in [S \cup { entry.kind } -> RegisterNames]
  BY <1>1, <1>3 DEF Collect, Assign
<1>5. next \in RegisterMaps
  BY <1>1, <1>4 DEF RegisterMaps
<1>6. ASSUME NEW kind \in DOMAIN next
      PROVE  \E i : LastOf(list, n + 1, i, kind) /\ next[kind] = list[i].name
  <2>1. CASE kind = entry.kind
    <3>1. LastOf(list, n + 1, n + 1, kind) /\ next[kind] = list[n + 1].name
      BY <1>2, <2>1 DEF LastOf
    <3> QED
      BY <3>1
  <2>2. CASE kind # entry.kind
    <3>1. PICK i : LastOf(list, n, i, kind) /\ register[kind] = list[i].name
      BY <1>2, <1>6, <2>2 DEF Holds
    <3>2. LastOf(list, n + 1, i, kind)
      BY <1>1, <2>2, <3>1 DEF LastOf
    <3> QED
      BY <1>2, <1>6, <2>2, <3>1, <3>2
  <2> QED
    BY <2>1, <2>2
<1>7. \A i \in 1 .. n + 1 : list[i].kind \in DOMAIN next
  BY <1>1, <1>2 DEF Holds
<1> QED
  BY <1>5, <1>6, <1>7 DEF Holds

\* A map that holds the whole list is the one the operator GetRegister gives, and
\* says what the last entries of the list say.
LEMMA HoldsAll ==
  ASSUME NEW list \in Seq(Entry), NEW register, Holds(register, list, Len(list))
  PROVE  /\ register = GetRegister(list)
         /\ \A kind, name :
              kind \in DOMAIN register /\ register[kind] = name
              <=> \E i \in DOMAIN list : Decides(list, i, kind) /\ list[i].name = name
         /\ \A kind :
              kind \notin DOMAIN register <=> \A i \in DOMAIN list : list[i].kind # kind
<1>1. DOMAIN list = 1 .. Len(list) /\ DOMAIN list \subseteq Nat
  OBVIOUS
<1>2. \A i, kind : LastOf(list, Len(list), i, kind) <=> i \in DOMAIN list /\ Decides(list, i, kind)
  BY <1>1 DEF LastOf, Decides
<1>3. \A i, j, kind : Decides(list, i, kind) /\ Decides(list, j, kind) => i = j
  <2> SUFFICES ASSUME NEW i, NEW j, NEW kind, Decides(list, i, kind), Decides(list, j, kind)
               PROVE  i = j
    OBVIOUS
  <2>1. i \in DOMAIN list /\ j \in DOMAIN list /\ i <= j /\ j <= i
    BY DEF Decides
  <2> QED
    BY <1>1, <2>1
<1>4. ASSUME NEW kind \in DOMAIN register
      PROVE  register[kind] = list[LastEntry(list, kind)].name
  <2>1. PICK i : Decides(list, i, kind) /\ register[kind] = list[i].name
    BY <1>2 DEF Holds
  <2>2. Decides(list, LastEntry(list, kind), kind)
    <3>1. LastEntry(list, kind) = CHOOSE m \in DOMAIN list : Decides(list, m, kind)
      BY DEF LastEntry, Decides
    <3>2. \E m \in DOMAIN list : Decides(list, m, kind)
      BY <2>1 DEF Decides
    <3> QED
      BY <3>1, <3>2
  <2> QED
    BY <1>3, <2>1, <2>2
<1>5. DOMAIN register = { list[i].kind : i \in DOMAIN list }
  <2>1. \A kind \in DOMAIN register : \E i \in DOMAIN list : list[i].kind = kind
    BY <1>2 DEF Holds, Decides
  <2>2. \A i \in DOMAIN list : list[i].kind \in DOMAIN register
    BY <1>1 DEF Holds
  <2> QED
    BY <2>1, <2>2
<1>6. register = [kind \in DOMAIN register |-> register[kind]]
  BY DEF Holds, RegisterMaps
<1>7. register = GetRegister(list)
  BY <1>4, <1>5, <1>6 DEF GetRegister
<1>8. ASSUME NEW kind, NEW name
      PROVE  kind \in DOMAIN register /\ register[kind] = name
             <=> \E i \in DOMAIN list : Decides(list, i, kind) /\ list[i].name = name
  <2>1. ASSUME kind \in DOMAIN register, register[kind] = name
        PROVE  \E i \in DOMAIN list : Decides(list, i, kind) /\ list[i].name = name
    BY <1>2, <2>1 DEF Holds
  <2>2. ASSUME NEW i \in DOMAIN list, Decides(list, i, kind), list[i].name = name
        PROVE  kind \in DOMAIN register /\ register[kind] = name
    <3>1. kind \in DOMAIN register
      BY <1>5, <2>2 DEF Decides
    <3>2. PICK j : Decides(list, j, kind) /\ register[kind] = list[j].name
      BY <1>2, <3>1 DEF Holds
    <3> QED
      BY <1>3, <2>2, <3>1, <3>2
  <2> QED
    BY <2>1, <2>2
<1>9. \A kind : kind \notin DOMAIN register <=> \A i \in DOMAIN list : list[i].kind # kind
  BY <1>5
<1> QED
  BY <1>7, <1>8, <1>9

\* Of the list, todo is what comes after the entries the map holds.
Reading(register, list, todo_) ==
  /\ todo_ \in Seq(Entry)
  /\ \E n \in 0 .. Len(list) :
       /\ Len(todo_) = Len(list) - n
       /\ \A i \in 1 .. Len(todo_) : todo_[i] = list[n + i]
       /\ Holds(register, list, n)

\* A loop over a list begins with an empty map, moves on entry by entry and ends
\* with a map that holds the list.
LEMMA ReadStart ==
  ASSUME NEW list \in Seq(Entry)
  PROVE  Reading(NoRegister, list, list)
<1>1. NoRegister \in [{} -> RegisterNames] /\ DOMAIN NoRegister = {}
  BY DEF NoRegister
<1>2. NoRegister \in RegisterMaps
  BY <1>1 DEF RegisterMaps
<1>3. Holds(NoRegister, list, 0)
  BY <1>1, <1>2 DEF Holds
<1>4. 0 \in 0 .. Len(list) /\ Len(list) = Len(list) - 0 /\ \A i \in 1 .. Len(list) : list[i] = list[0 + i]
  OBVIOUS
<1> QED
  BY <1>3, <1>4 DEF Reading

LEMMA ReadNext ==
  ASSUME NEW list \in Seq(Entry), NEW register, NEW rest, rest # << >>,
         Reading(register, list, rest)
  PROVE  Reading(Collect(register, Head(rest)), list, Tail(rest))
<1>1. rest \in Seq(Entry)
  BY DEF Reading
<1>2. PICK n \in 0 .. Len(list) :
        /\ Len(rest) = Len(list) - n
        /\ \A i \in 1 .. Len(rest) : rest[i] = list[n + i]
        /\ Holds(register, list, n)
  BY DEF Reading
<1>3. /\ Tail(rest) \in Seq(Entry)
      /\ Len(Tail(rest)) = Len(rest) - 1
      /\ \A i \in 1 .. Len(Tail(rest)) : Tail(rest)[i] = rest[i + 1]
  BY <1>1, HeadTailProperties
<1>4. Len(rest) \in Nat \ {0} /\ Len(list) \in Nat /\ Head(rest) = rest[1]
  BY <1>1, EmptySeq
<1>5. n \in Nat /\ n < Len(list) /\ n + 1 \in 0 .. Len(list) /\ Head(rest) = list[n + 1]
  BY <1>2, <1>4
<1>6. Holds(Collect(register, Head(rest)), list, n + 1)
  BY <1>2, <1>5, CollectNext
<1>7. /\ Len(Tail(rest)) = Len(list) - (n + 1)
      /\ \A i \in 1 .. Len(Tail(rest)) : Tail(rest)[i] = list[(n + 1) + i]
  <2>1. \A i \in 1 .. Len(Tail(rest)) :
          i + 1 \in 1 .. Len(rest) /\ n + (i + 1) = (n + 1) + i
    BY <1>3, <1>4, <1>5
  <2> QED
    BY <1>2, <1>3, <1>4, <1>5, <2>1
<1> QED
  BY <1>3, <1>5, <1>6, <1>7 DEF Reading

LEMMA ReadAll ==
  ASSUME NEW list \in Seq(Entry), NEW register, Reading(register, list, << >>)
  PROVE  Holds(register, list, Len(list))
<1>1. PICK n \in 0 .. Len(list) :
        Len(<< >>) = Len(list) - n /\ Holds(register, list, n)
  BY DEF Reading
<1>2. n = Len(list)
  BY <1>1
<1> QED
  BY <1>1, <1>2

-----------------------------------------------------------------------------
(* Walking over a map                                                      *)

\* What the merge has made of dep when it has visited the kinds.
Merged(org, dep, kinds) ==
  [kind \in DOMAIN dep \cup kinds |-> IF kind \in DOMAIN dep THEN dep[kind] ELSE org[kind]]

LEMMA MergeNext ==
  ASSUME NEW org, NEW dep, NEW kinds, NEW kind
  PROVE  InheritIfMissing(Merged(org, dep, kinds), kind, org[kind])
           = Merged(org, dep, kinds \cup {kind})
<1> DEFINE before == Merged(org, dep, kinds)
<1>1. /\ DOMAIN before = DOMAIN dep \cup kinds
      /\ \A k \in DOMAIN before :
           before[k] = IF k \in DOMAIN dep THEN dep[k] ELSE org[k]
  BY DEF Merged
<1>2. CASE kind \in DOMAIN before
  <2>1. DOMAIN dep \cup (kinds \cup {kind}) = DOMAIN dep \cup kinds
    BY <1>1, <1>2
  <2> QED
    BY <1>2, <2>1 DEF InheritIfMissing, Merged
<1>3. CASE kind \notin DOMAIN before
  <2>1. DOMAIN before \cup {kind} = DOMAIN dep \cup (kinds \cup {kind})
    BY <1>1
  <2>2. ASSUME NEW k \in DOMAIN before \cup {kind}
        PROVE  (IF k = kind THEN org[kind] ELSE before[k])
                 = IF k \in DOMAIN dep THEN dep[k] ELSE org[k]
    BY <1>1, <1>3, <2>2
  <2>3. InheritIfMissing(before, kind, org[kind])
          = [k \in DOMAIN before \cup {kind} |-> IF k = kind THEN org[kind] ELSE before[k]]
    BY <1>3 DEF InheritIfMissing, Assign
  <2>4. Merged(org, dep, kinds \cup {kind})
          = [k \in DOMAIN before \cup {kind} |-> IF k \in DOMAIN dep THEN dep[k] ELSE org[k]]
    BY <2>1 DEF Merged
  <2> QED
    BY <2>2, <2>3, <2>4
<1> QED
  BY <1>2, <1>3

\* The entries of the map for the kinds.
EntriesFor(register, kinds) == { [kind |-> k, name |-> register[k]] : k \in kinds }

\* The list has one entry for each of the kinds, in any order.
Written(list, register, kinds) ==
  /\ list \in Seq(EntriesFor(register, kinds))
  /\ IsFiniteSet(EntriesFor(register, kinds))
  /\ Len(list) = Cardinality(EntriesFor(register, kinds))
  /\ \A entry \in EntriesFor(register, kinds) : \E i \in 1 .. Len(list) : list[i] = entry

LEMMA WriteStart ==
  ASSUME NEW register
  PROVE  Written(<< >>, register, {})
<1>1. EntriesFor(register, {}) = {}
  BY DEF EntriesFor
<1> QED
  BY <1>1, EmptySeq, FS_EmptySet DEF Written

LEMMA WriteNext ==
  ASSUME NEW list, NEW register, NEW kinds, NEW kind, kind \notin kinds,
         Written(list, register, kinds)
  PROVE  Written(Appended(list, [kind |-> kind, name |-> register[kind]]), register,
                 kinds \cup {kind})
<1> DEFINE entry  == [kind |-> kind, name |-> register[kind]]
           before == EntriesFor(register, kinds)
           after  == EntriesFor(register, kinds \cup {kind})
           next   == Append(list, entry)
<1>1. after = before \cup { entry }
  BY DEF EntriesFor
<1>2. entry \notin before
  BY DEF EntriesFor
<1> HIDE DEF entry, before, after, next
<1>3. IsFiniteSet(after) /\ Cardinality(after) = Cardinality(before) + 1
  BY <1>1, <1>2, FS_AddElement DEF Written, before
<1>4. list \in Seq(after) /\ entry \in after /\ Len(list) \in Nat
  <2>1. list \in Seq(before)
    BY DEF Written, before
  <2>2. before \subseteq after
    BY <1>1
  <2>3. list \in Seq(after)
    BY <2>1, <2>2, SeqMonotonic
  <2> QED
    BY <1>1, <2>3, LenProperties
<1>5. /\ next \in Seq(after)
      /\ Len(next) = Len(list) + 1
      /\ \A i \in 1 .. Len(list) : next[i] = list[i]
      /\ next[Len(list) + 1] = entry
  BY <1>4, AppendProperties DEF next
<1>6. ASSUME NEW e \in after
      PROVE  \E i \in 1 .. Len(next) : next[i] = e
  <2>1. CASE e = entry
    <3>1. Len(list) + 1 \in 1 .. Len(next)
      BY <1>4, <1>5
    <3> QED
      BY <1>5, <2>1, <3>1
  <2>2. CASE e \in before
    <3>1. PICK i \in 1 .. Len(list) : list[i] = e
      BY <2>2 DEF Written, before
    <3>2. i \in 1 .. Len(next)
      BY <1>4, <1>5
    <3> QED
      BY <1>5, <3>1, <3>2
  <2> QED
    BY <1>1, <1>6, <2>1, <2>2
<1>7. Len(next) = Cardinality(after)
  BY <1>3, <1>5 DEF Written, before
<1>8. Written(next, register, kinds \cup {kind})
  BY <1>3, <1>5, <1>6, <1>7 DEF Written, after
<1> QED
  BY <1>8 DEF Appended, next, entry

\* A list with all the entries of a map is one the operator allows, and gives the
\* map back when it is read.
LEMMA WrittenAll ==
  ASSUME NEW list, NEW register \in RegisterMaps, Written(list, register, DOMAIN register)
  PROVE  /\ list \in SetStateRegister(register)
         /\ list \in Seq(Entry)
         /\ \A back : Holds(back, list, Len(list)) =>
              /\ DOMAIN back = DOMAIN register
              /\ \A kind \in DOMAIN register : back[kind] = register[kind]
<1> DEFINE entries == EntriesFor(register, DOMAIN register)
<1>1. entries = Entries(register)
  BY DEF EntriesFor, Entries
<1>2. list \in Seq(entries) /\ Len(list) = Cardinality(entries)
  BY DEF Written
<1>3. list \in [1 .. Len(list) -> entries] /\ DOMAIN list = 1 .. Len(list)
  BY <1>2, LenProperties
<1>4. { list[i] : i \in DOMAIN list } = entries
  BY <1>3 DEF Written
<1>5. list \in SetStateRegister(register)
  BY <1>1, <1>2, <1>3, <1>4 DEF SetStateRegister
<1>6. PICK S \in SUBSET Kinds : register \in [S -> RegisterNames]
  BY DEF RegisterMaps
<1>7. entries \subseteq Entry
  BY <1>6 DEF EntriesFor, Entry
<1>8. list \in Seq(Entry)
  BY <1>2, <1>7, SeqMonotonic
<1>9. ASSUME NEW back, Holds(back, list, Len(list))
      PROVE  /\ DOMAIN back = DOMAIN register
             /\ \A kind \in DOMAIN register : back[kind] = register[kind]
  <2>1. \A i \in 1 .. Len(list) :
          list[i].kind \in DOMAIN register /\ list[i].name = register[list[i].kind]
    BY <1>3 DEF EntriesFor
  <2>2. \A kind \in DOMAIN back : kind \in DOMAIN register /\ back[kind] = register[kind]
    <3> SUFFICES ASSUME NEW kind \in DOMAIN back
                 PROVE  kind \in DOMAIN register /\ back[kind] = register[kind]
      OBVIOUS
    <3>1. PICK i : LastOf(list, Len(list), i, kind) /\ back[kind] = list[i].name
      BY <1>9 DEF Holds
    <3> QED
      BY <2>1, <3>1 DEF LastOf
  <2>3. \A kind \in DOMAIN register : kind \in DOMAIN back
    <3> SUFFICES ASSUME NEW kind \in DOMAIN register
                 PROVE  kind \in DOMAIN back
      OBVIOUS
    <3>1. [kind |-> kind, name |-> register[kind]] \in entries
      BY DEF EntriesFor
    <3>2. PICK i \in 1 .. Len(list) : list[i] = [kind |-> kind, name |-> register[kind]]
      BY <3>1 DEF Written
    <3> QED
      BY <1>9, <3>2 DEF Holds
  <2> QED
    BY <2>2, <2>3
<1> QED
  BY <1>5, <1>8, <1>9

\* The merge is a map of registers.
LEMMA MergedType ==
  ASSUME NEW org \in RegisterMaps, NEW dep \in RegisterMaps
  PROVE  /\ GetDeploymentRegister(org, dep) \in RegisterMaps
         /\ DOMAIN GetDeploymentRegister(org, dep) = DOMAIN org \cup DOMAIN dep
         /\ \A kind \in DOMAIN org \cup DOMAIN dep :
              GetDeploymentRegister(org, dep)[kind]
                = IF kind \in DOMAIN dep THEN dep[kind] ELSE org[kind]
<1>1. PICK S \in SUBSET Kinds : org \in [S -> RegisterNames]
  BY DEF RegisterMaps
<1>2. PICK T \in SUBSET Kinds : dep \in [T -> RegisterNames]
  BY DEF RegisterMaps
<1>3. GetDeploymentRegister(org, dep) \in [S \cup T -> RegisterNames] /\ S \cup T \in SUBSET Kinds
  BY <1>1, <1>2 DEF GetDeploymentRegister
<1>4. GetDeploymentRegister(org, dep) \in RegisterMaps
  BY <1>3 DEF RegisterMaps
<1> QED
  BY <1>4 DEF GetDeploymentRegister

-----------------------------------------------------------------------------
(* The whole way                                                           *)

DepRegister == GetRegister(depList)

Final == GetDeploymentRegister(orgRegister, DepRegister)

\* What each loop has done so far, and what the loops before it have left.
TripInv ==
  /\ orgList \in Seq(Entry)
  /\ depList \in Seq(Entry)
  /\ loop \in {"organization", "deployment", "merge", "publish", "lookup", "done"}
  /\ IF loop = "organization"
     THEN Reading(orgRegister, orgList, todo) /\ depRegister = NoRegister
     ELSE Holds(orgRegister, orgList, Len(orgList))
  /\ loop = "deployment" => Reading(depRegister, depList, todo)
  /\ loop \in {"merge", "publish", "lookup", "done"} => Holds(DepRegister, depList, Len(depList))
  /\ loop = "merge" =>
       /\ todo \subseteq DOMAIN orgRegister
       /\ depRegister = Merged(orgRegister, DepRegister, DOMAIN orgRegister \ todo)
  /\ loop \in {"publish", "lookup", "done"} => depRegister = Final
  /\ loop \in {"organization", "deployment", "merge"} => stateList = << >>
  /\ loop = "publish" =>
       /\ todo \subseteq DOMAIN depRegister
       /\ Written(stateList, depRegister, DOMAIN depRegister \ todo)
  /\ loop \in {"lookup", "done"} => Written(stateList, depRegister, DOMAIN depRegister)
  /\ loop \in {"organization", "deployment", "merge", "publish"} => registers = NoRegister
  /\ loop = "lookup" => Reading(registers, stateList, todo)
  /\ loop = "done" =>
       /\ Holds(registers, stateList, Len(stateList))
       /\ answer = "registers" <=> AllCritical(registers)

LEMMA TripInit == Init => TripInv
<1> SUFFICES ASSUME Init PROVE TripInv
  OBVIOUS
<1>1. Lists \subseteq Seq(Entry)
  BY SeqDef, TripAssumption DEF Lists
<1>2. orgList \in Seq(Entry) /\ depList \in Seq(Entry)
  BY <1>1 DEF Init
<1>3. Reading(orgRegister, orgList, todo)
  BY <1>2, ReadStart DEF Init
<1> QED
  BY <1>2, <1>3 DEF Init, TripInv

LEMMA OrganizationStep == TripInv /\ ReadOrganization => TripInv'
<1> SUFFICES ASSUME TripInv, ReadOrganization PROVE TripInv'
  OBVIOUS
<1>1. /\ loop = "organization"
      /\ UNCHANGED << orgList, depList, depRegister, stateList, registers, answer >>
      /\ orgList \in Seq(Entry) /\ depList \in Seq(Entry)
      /\ Reading(orgRegister, orgList, todo) /\ depRegister = NoRegister
      /\ stateList = << >> /\ registers = NoRegister
  BY DEF ReadOrganization, TripInv
<1>2. CASE todo # << >>
  <2>1. /\ orgRegister' = Collect(orgRegister, Head(todo))
        /\ todo' = Tail(todo)
        /\ loop' = "organization"
    BY <1>1, <1>2 DEF ReadOrganization
  <2>2. Reading(orgRegister', orgList', todo')
    BY <1>1, <1>2, <2>1, ReadNext
  <2> QED
    BY <1>1, <2>1, <2>2 DEF TripInv
<1>3. CASE todo = << >>
  <2>1. loop' = "deployment" /\ todo' = depList /\ orgRegister' = orgRegister
    BY <1>1, <1>3 DEF ReadOrganization
  <2>2. Holds(orgRegister', orgList', Len(orgList'))
    BY <1>1, <1>3, <2>1, ReadAll
  <2>3. Reading(depRegister', depList', todo')
    BY <1>1, <2>1, ReadStart
  <2> QED
    BY <1>1, <2>1, <2>2, <2>3 DEF TripInv
<1> QED
  BY <1>2, <1>3

LEMMA DeploymentStep == TripInv /\ ReadDeployment => TripInv'
<1> SUFFICES ASSUME TripInv, ReadDeployment PROVE TripInv'
  OBVIOUS
<1>1. /\ loop = "deployment"
      /\ UNCHANGED << orgList, depList, orgRegister, stateList, registers, answer >>
      /\ orgList \in Seq(Entry) /\ depList \in Seq(Entry)
      /\ Holds(orgRegister, orgList, Len(orgList))
      /\ Reading(depRegister, depList, todo)
      /\ stateList = << >> /\ registers = NoRegister
  BY DEF ReadDeployment, TripInv
<1>2. CASE todo # << >>
  <2>1. /\ depRegister' = Collect(depRegister, Head(todo))
        /\ todo' = Tail(todo)
        /\ loop' = "deployment"
    BY <1>1, <1>2 DEF ReadDeployment
  <2>2. Reading(depRegister', depList', todo')
    BY <1>1, <1>2, <2>1, ReadNext
  <2> QED
    BY <1>1, <2>1, <2>2 DEF TripInv
<1>3. CASE todo = << >>
  <2>1. loop' = "merge" /\ todo' = DOMAIN orgRegister /\ depRegister' = depRegister
    BY <1>1, <1>3 DEF ReadDeployment
  <2>2. Holds(depRegister, depList, Len(depList))
    BY <1>1, <1>3, ReadAll
  <2>3. depRegister = DepRegister /\ DepRegister' = DepRegister
    BY <1>1, <2>2, HoldsAll DEF DepRegister
  <2>4. depRegister = Merged(orgRegister, DepRegister, {})
    <3>1. depRegister = [kind \in DOMAIN depRegister |-> depRegister[kind]]
      BY <2>2 DEF Holds, RegisterMaps
    <3> QED
      BY <2>3, <3>1 DEF Merged
  <2>5. DOMAIN orgRegister' \ todo' = {}
    BY <1>1, <2>1
  <2>6. depRegister' = Merged(orgRegister', DepRegister', DOMAIN orgRegister' \ todo')
    BY <1>1, <2>1, <2>3, <2>4, <2>5
  <2> QED
    BY <1>1, <2>1, <2>2, <2>3, <2>6 DEF TripInv
<1> QED
  BY <1>2, <1>3

LEMMA MergeStep == TripInv /\ Merge => TripInv'
<1> SUFFICES ASSUME TripInv, Merge PROVE TripInv'
  OBVIOUS
<1>1. /\ loop = "merge"
      /\ UNCHANGED << orgList, depList, orgRegister, stateList, registers, answer >>
      /\ orgList \in Seq(Entry) /\ depList \in Seq(Entry)
      /\ Holds(orgRegister, orgList, Len(orgList))
      /\ Holds(DepRegister, depList, Len(depList)) /\ DepRegister' = DepRegister
      /\ todo \subseteq DOMAIN orgRegister
      /\ depRegister = Merged(orgRegister, DepRegister, DOMAIN orgRegister \ todo)
      /\ stateList = << >> /\ registers = NoRegister
  BY DEF Merge, TripInv, DepRegister
<1>2. CASE \E kind \in todo :
             /\ depRegister' = InheritIfMissing(depRegister, kind, orgRegister[kind])
             /\ todo' = todo \ {kind}
             /\ UNCHANGED loop
  <2>1. PICK kind \in todo :
               /\ depRegister' = InheritIfMissing(depRegister, kind, orgRegister[kind])
               /\ todo' = todo \ {kind}
               /\ loop' = loop
    BY <1>2
  <2>2. (DOMAIN orgRegister \ todo) \cup {kind} = DOMAIN orgRegister \ todo'
    BY <1>1, <2>1
  <2>3. depRegister' = Merged(orgRegister', DepRegister', DOMAIN orgRegister' \ todo')
    BY <1>1, <2>1, <2>2, MergeNext
  <2> QED
    BY <1>1, <2>1, <2>3 DEF TripInv
<1>3. CASE todo = {} /\ loop' = "publish" /\ todo' = DOMAIN depRegister /\ UNCHANGED depRegister
  <2>1. depRegister = Final
    <3>1. DOMAIN DepRegister \cup (DOMAIN orgRegister \ todo)
            = DOMAIN orgRegister \cup DOMAIN DepRegister
      BY <1>3
    <3> QED
      BY <1>1, <3>1 DEF Merged, Final, GetDeploymentRegister
  <2>2. depRegister' = Final'
    BY <1>1, <1>3, <2>1 DEF Final
  <2>3. DOMAIN depRegister' \ todo' = {}
    BY <1>3
  <2>4. Written(stateList', depRegister', DOMAIN depRegister' \ todo')
    BY <1>1, <2>3, WriteStart
  <2> QED
    BY <1>1, <1>3, <2>2, <2>4 DEF TripInv
<1> QED
  BY <1>2, <1>3 DEF Merge

LEMMA PublishStep == TripInv /\ Publish => TripInv'
<1> SUFFICES ASSUME TripInv, Publish PROVE TripInv'
  OBVIOUS
<1>1. /\ loop = "publish"
      /\ UNCHANGED << orgList, depList, orgRegister, depRegister, registers, answer >>
      /\ orgList \in Seq(Entry) /\ depList \in Seq(Entry)
      /\ Holds(orgRegister, orgList, Len(orgList))
      /\ Holds(DepRegister, depList, Len(depList)) /\ DepRegister' = DepRegister
      /\ depRegister = Final /\ Final' = Final
      /\ todo \subseteq DOMAIN depRegister
      /\ Written(stateList, depRegister, DOMAIN depRegister \ todo)
      /\ registers = NoRegister
  BY DEF Publish, TripInv, DepRegister, Final
<1>2. CASE \E kind \in todo :
             /\ stateList' = Appended(stateList, [kind |-> kind, name |-> depRegister[kind]])
             /\ todo' = todo \ {kind}
             /\ UNCHANGED loop
  <2>1. PICK kind \in todo :
               /\ stateList' = Appended(stateList, [kind |-> kind, name |-> depRegister[kind]])
               /\ todo' = todo \ {kind}
               /\ loop' = loop
    BY <1>2
  <2>2. /\ (DOMAIN depRegister \ todo) \cup {kind} = DOMAIN depRegister \ todo'
        /\ kind \notin DOMAIN depRegister \ todo
    BY <1>1, <2>1
  <2>3. Written(stateList', depRegister', DOMAIN depRegister' \ todo')
    BY <1>1, <2>1, <2>2, WriteNext
  <2> QED
    BY <1>1, <2>1, <2>3 DEF TripInv
<1>3. CASE todo = {} /\ loop' = "lookup" /\ todo' = stateList /\ UNCHANGED stateList
  <2>1. DOMAIN depRegister \ todo = DOMAIN depRegister
    BY <1>3
  <2>2. Written(stateList, depRegister, DOMAIN depRegister)
    BY <1>1, <2>1
  <2>3. depRegister \in RegisterMaps
    BY <1>1, MergedType DEF Final, Holds
  <2>4. stateList \in Seq(Entry)
    BY <2>2, <2>3, WrittenAll
  <2>5. Reading(registers', stateList', todo')
    BY <1>1, <1>3, <2>4, ReadStart
  <2> QED
    BY <1>1, <1>3, <2>2, <2>5 DEF TripInv
<1> QED
  BY <1>2, <1>3 DEF Publish

LEMMA LookupStep == TripInv /\ Lookup => TripInv'
<1> SUFFICES ASSUME TripInv, Lookup PROVE TripInv'
  OBVIOUS
<1>1. /\ loop = "lookup"
      /\ UNCHANGED << orgList, depList, orgRegister, depRegister, stateList >>
      /\ orgList \in Seq(Entry) /\ depList \in Seq(Entry)
      /\ Holds(orgRegister, orgList, Len(orgList))
      /\ Holds(DepRegister, depList, Len(depList)) /\ DepRegister' = DepRegister
      /\ depRegister = Final /\ Final' = Final
      /\ Written(stateList, depRegister, DOMAIN depRegister)
      /\ Reading(registers, stateList, todo)
  BY DEF Lookup, TripInv, DepRegister, Final
<1>2. stateList \in Seq(Entry)
  <2>1. depRegister \in RegisterMaps
    BY <1>1, MergedType DEF Final, Holds
  <2> QED
    BY <1>1, <2>1, WrittenAll
<1>3. CASE todo # << >>
  <2>1. /\ registers' = Collect(registers, Head(todo))
        /\ todo' = Tail(todo)
        /\ loop' = "lookup"
    BY <1>1, <1>3 DEF Lookup
  <2>2. Reading(registers', stateList', todo')
    BY <1>1, <1>2, <1>3, <2>1, ReadNext
  <2> QED
    BY <1>1, <2>1, <2>2 DEF TripInv
<1>4. CASE todo = << >>
  <2>1. /\ answer' = IF AllCritical(registers) THEN "registers" ELSE "error"
        /\ loop' = "done"
        /\ registers' = registers
    BY <1>1, <1>4 DEF Lookup
  <2>2. Holds(registers', stateList', Len(stateList'))
    BY <1>1, <1>2, <1>4, <2>1, ReadAll
  <2>3. answer' = "registers" <=> AllCritical(registers')
    BY <2>1
  <2> QED
    BY <1>1, <2>1, <2>2, <2>3 DEF TripInv
<1> QED
  BY <1>3, <1>4

\* The invariant holds throughout.
LEMMA TripInvariant == Spec => []TripInv
<1>1. TripInv /\ [Next]_vars => TripInv'
  <2> SUFFICES ASSUME TripInv, [Next]_vars PROVE TripInv'
    OBVIOUS
  <2>1. CASE UNCHANGED vars
    BY <2>1 DEF TripInv, vars, DepRegister, Final
  <2> QED
    BY <2>1, OrganizationStep, DeploymentStep, MergeStep, PublishStep, LookupStep DEF Next
<1> QED
  BY <1>1, TripInit, PTL DEF Spec

-----------------------------------------------------------------------------
(* What the users of the registry get                                      *)

\* In the end the registry's map says what the two specs decide.
LEMMA AnswerAtEnd ==
  ASSUME TripInv, loop = "done"
  PROVE  /\ registers \in RegisterMaps
         /\ \A kind, name : kind \in DOMAIN registers /\ registers[kind] = name
                           <=> Chosen(kind, name)
<1>1. /\ orgList \in Seq(Entry) /\ depList \in Seq(Entry)
      /\ Holds(orgRegister, orgList, Len(orgList))
      /\ Holds(DepRegister, depList, Len(depList))
      /\ depRegister = Final
      /\ Written(stateList, depRegister, DOMAIN depRegister)
      /\ Holds(registers, stateList, Len(stateList))
  BY DEF TripInv
<1>2. orgRegister \in RegisterMaps /\ DepRegister \in RegisterMaps /\ registers \in RegisterMaps
  BY <1>1 DEF Holds
<1>3. /\ Final \in RegisterMaps
      /\ DOMAIN Final = DOMAIN orgRegister \cup DOMAIN DepRegister
      /\ \A kind \in DOMAIN Final :
           Final[kind] = IF kind \in DOMAIN DepRegister THEN DepRegister[kind] ELSE orgRegister[kind]
  <2>1. /\ GetDeploymentRegister(orgRegister, DepRegister) \in RegisterMaps
        /\ DOMAIN GetDeploymentRegister(orgRegister, DepRegister)
             = DOMAIN orgRegister \cup DOMAIN DepRegister
        /\ \A kind \in DOMAIN orgRegister \cup DOMAIN DepRegister :
             GetDeploymentRegister(orgRegister, DepRegister)[kind]
               = IF kind \in DOMAIN DepRegister THEN DepRegister[kind] ELSE orgRegister[kind]
    BY <1>2, MergedType
  <2> QED
    BY <2>1 DEF Final
<1>4. /\ DOMAIN registers = DOMAIN Final
      /\ \A kind \in DOMAIN Final : registers[kind] = Final[kind]
  BY <1>1, <1>3, WrittenAll
<1>5. /\ \A kind, name :
           kind \in DOMAIN orgRegister /\ orgRegister[kind] = name
           <=> \E i \in DOMAIN orgList : Decides(orgList, i, kind) /\ orgList[i].name = name
  BY <1>1, HoldsAll
<1>6. /\ \A kind, name :
           kind \in DOMAIN DepRegister /\ DepRegister[kind] = name
           <=> \E i \in DOMAIN depList : Decides(depList, i, kind) /\ depList[i].name = name
      /\ \A kind :
           kind \notin DOMAIN DepRegister <=> \A i \in DOMAIN depList : depList[i].kind # kind
  BY <1>1, HoldsAll
<1>7. ASSUME NEW kind, NEW name
      PROVE  kind \in DOMAIN registers /\ registers[kind] = name <=> Chosen(kind, name)
  <2>1. CASE kind \in DOMAIN DepRegister
    <3>1. kind \in DOMAIN registers /\ registers[kind] = DepRegister[kind]
      BY <1>3, <1>4, <2>1
    <3>2. ~ \A i \in DOMAIN depList : depList[i].kind # kind
      BY <1>6, <2>1
    <3>3. Chosen(kind, name) <=> DepRegister[kind] = name
      BY <1>6, <2>1, <3>2 DEF Chosen
    <3> QED
      BY <3>1, <3>3
  <2>2. CASE kind \notin DOMAIN DepRegister
    <3>1. \A i \in DOMAIN depList : depList[i].kind # kind
      BY <1>6, <2>2
    <3>2. ~ \E i \in DOMAIN depList : Decides(depList, i, kind) /\ depList[i].name = name
      BY <3>1 DEF Decides
    <3>3. Chosen(kind, name)
            <=> \E i \in DOMAIN orgList : Decides(orgList, i, kind) /\ orgList[i].name = name
      BY <3>1, <3>2 DEF Chosen
    <3>4. Chosen(kind, name) <=> kind \in DOMAIN orgRegister /\ orgRegister[kind] = name
      BY <1>5, <3>3
    <3>5. kind \in DOMAIN registers <=> kind \in DOMAIN orgRegister
      BY <1>3, <1>4, <2>2
    <3>6. kind \in DOMAIN registers => registers[kind] = orgRegister[kind]
      BY <1>3, <1>4, <2>2
    <3> QED
      BY <3>4, <3>5, <3>6
  <2> QED
    BY <2>1, <2>2
<1> QED
  BY <1>2, <1>7

\* Whatever order the maps are walked in, a user of the registry gets for each
\* kind the name the two specs decide on, and no other kind: for lists of any
\* length and any kinds and names.
THEOREM AnswerCorrect == Spec => []AnswerIsChosen
<1>1. TripInv => AnswerIsChosen
  BY AnswerAtEnd DEF AnswerIsChosen
<1> QED
  BY <1>1, TripInvariant, PTL

\* The user gets an error exactly if a critical kind is in neither spec.
THEOREM ErrorCorrect == Spec => []CriticalOrError
<1>1. TripInv => CriticalOrError
  <2> SUFFICES ASSUME TripInv, loop = "done"
               PROVE  answer = "registers"
                      <=> \A kind \in CriticalKinds : \E name \in RegisterNames : Chosen(kind, name)
    BY DEF CriticalOrError
  <2>1. answer = "registers" <=> CriticalKinds \subseteq DOMAIN registers
    BY DEF TripInv, AllCritical
  <2>2. PICK S \in SUBSET Kinds : registers \in [S -> RegisterNames]
    BY AnswerAtEnd DEF RegisterMaps
  <2>3. \A kind : kind \in DOMAIN registers <=> \E name \in RegisterNames : Chosen(kind, name)
    BY <2>2, AnswerAtEnd
  <2> QED
    BY <2>1, <2>3
<1> QED
  BY <1>1, TripInvariant, PTL

\* The loops of the controller do what the operators OrgIntent uses in their
\* place say they do, so OrgIntent may take them in one step.
THEOREM LoopsCorrect == Spec => []LoopsAreOperators
<1>1. TripInv => LoopsAreOperators
  <2> SUFFICES ASSUME TripInv PROVE LoopsAreOperators
    OBVIOUS
  <2>1. loop # "organization" => orgRegister = GetRegister(orgList)
    BY HoldsAll DEF TripInv
  <2>2. ASSUME loop = "merge"
        PROVE  GetDeploymentRegister(orgRegister, depRegister)
                 = GetDeploymentRegister(orgRegister, DepRegister)
    <3>1. depRegister = Merged(orgRegister, DepRegister, DOMAIN orgRegister \ todo)
      BY <2>2 DEF TripInv
    <3>2. /\ DOMAIN depRegister = DOMAIN DepRegister \cup (DOMAIN orgRegister \ todo)
          /\ \A kind \in DOMAIN depRegister :
               depRegister[kind] = IF kind \in DOMAIN DepRegister THEN DepRegister[kind]
                                   ELSE orgRegister[kind]
      BY <3>1 DEF Merged
    <3>3. DOMAIN orgRegister \cup DOMAIN depRegister = DOMAIN orgRegister \cup DOMAIN DepRegister
      BY <3>2
    <3>4. \A kind \in DOMAIN orgRegister \cup DOMAIN DepRegister :
            (IF kind \in DOMAIN depRegister THEN depRegister[kind] ELSE orgRegister[kind])
              = IF kind \in DOMAIN DepRegister THEN DepRegister[kind] ELSE orgRegister[kind]
      BY <3>2
    <3> QED
      BY <3>3, <3>4 DEF GetDeploymentRegister
  <2>3. ASSUME loop \in {"lookup", "done"}
        PROVE  stateList \in SetStateRegister(depRegister)
    <3>1. /\ Holds(orgRegister, orgList, Len(orgList)) /\ Holds(DepRegister, depList, Len(depList))
          /\ depRegister = Final
          /\ Written(stateList, depRegister, DOMAIN depRegister)
      BY <2>3 DEF TripInv
    <3>2. depRegister \in RegisterMaps
      BY <3>1, MergedType DEF Final, Holds
    <3> QED
      BY <3>1, <3>2, WrittenAll
  <2> QED
    BY <2>1, <2>2, <2>3 DEF TripInv, LoopsAreOperators, Final, DepRegister
<1> QED
  BY <1>1, TripInvariant, PTL
=============================================================================
