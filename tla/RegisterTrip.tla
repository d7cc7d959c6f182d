---------------------------- MODULE RegisterTrip ----------------------------
(***************************************************************************)
(* The way of the registers from two specs to a user of the registry, loop *)
(* by loop: the controller reads the organization's list and the           *)
(* deployment's, merges the first into the second, appends the result to   *)
(* the status, and the registry reads the status back and checks for the   *)
(* critical kinds.  Go iterates over maps in random order, so each loop    *)
(* over a map takes its kinds in any order.  OrgIntent takes the whole way *)
(* in one step with the operators of Registers; this module is why it may. *)
(***************************************************************************)
EXTENDS Registers

CONSTANTS
  CriticalKinds,   \* kinds the registry insists on
  MaxEntries       \* bound: entries of a spec's list

ASSUME TripAssumption == CriticalKinds \subseteq Kinds /\ MaxEntries \in Nat

VARIABLES
  orgList, depList,  \* spec.organization.register and spec.deployment.register
  loop,              \* the loop that is running
  todo,              \* list loops: entries to read; map loops: kinds to visit
  orgRegister, depRegister, \* the maps of handleAppLogic
  stateList,         \* status.deployment.register
  registers,         \* the map the registry builds
  answer             \* what its caller gets

vars == << orgList, depList, loop, todo, orgRegister, depRegister, stateList,
           registers, answer >>

Lists == UNION { [1 .. n -> Entry] : n \in 0 .. MaxEntries }

Init ==
  /\ orgList \in Lists
  /\ depList \in Lists
  /\ loop = "organization"
  /\ todo = orgList
  /\ orgRegister = NoRegister
  /\ depRegister = NoRegister
  /\ stateList = << >>
  /\ registers = NoRegister
  /\ answer = "none"

-----------------------------------------------------------------------------
\* s[kind] = name
Assign(register, entry) ==
  [kind \in DOMAIN register \cup {entry.kind} |->
     IF kind = entry.kind THEN entry.name ELSE register[kind]]

\* s := make(map[string]string); the entries are taken in the list's order.
Collect(register, entry) == Assign(register, entry)

ReadOrganization ==
  /\ loop = "organization"
  /\ IF todo # << >>
     THEN /\ orgRegister' = Collect(orgRegister, Head(todo))
          /\ todo' = Tail(todo)
          /\ UNCHANGED loop
     ELSE /\ loop' = "deployment"
          /\ todo' = depList
          /\ UNCHANGED orgRegister
  /\ UNCHANGED << orgList, depList, depRegister, stateList, registers, answer >>

ReadDeployment ==
  /\ loop = "deployment"
  /\ IF todo # << >>
     THEN /\ depRegister' = Collect(depRegister, Head(todo))
          /\ todo' = Tail(todo)
          /\ UNCHANGED loop
     ELSE /\ loop' = "merge"
          /\ todo' = DOMAIN orgRegister
          /\ UNCHANGED depRegister
  /\ UNCHANGED << orgList, depList, orgRegister, stateList, registers, answer >>

Inherit(register, kind, name) == Assign(register, [kind |-> kind, name |-> name])

\* if _, ok := depRegister[orgKind]; !ok
InheritIfMissing(register, kind, name) ==
  IF kind \in DOMAIN register THEN register
  ELSE Assign(register, [kind |-> kind, name |-> name])

Merge ==
  /\ loop = "merge"
  /\ \/ \E kind \in todo :
          /\ depRegister' = InheritIfMissing(depRegister, kind, orgRegister[kind])
          /\ todo' = todo \ {kind}
          /\ UNCHANGED loop
     \/ /\ todo = {}
        /\ loop' = "publish"
        /\ todo' = DOMAIN depRegister
        /\ UNCHANGED depRegister
  /\ UNCHANGED << orgList, depList, orgRegister, stateList, registers, answer >>

Overwritten(list, entry) == << entry >>

Appended(list, entry) == Append(list, entry)

Publish ==
  /\ loop = "publish"
  /\ \/ \E kind \in todo :
          /\ stateList' = Appended(stateList, [kind |-> kind, name |-> depRegister[kind]])
          /\ todo' = todo \ {kind}
          /\ UNCHANGED loop
     \/ /\ todo = {}
        /\ loop' = "lookup"
        /\ todo' = stateList
        /\ UNCHANGED stateList
  /\ UNCHANGED << orgList, depList, orgRegister, depRegister, registers, answer >>

SomeCritical(register) == CriticalKinds \cap DOMAIN register # {}

AllCritical(register) == CriticalKinds \subseteq DOMAIN register

Lookup ==
  /\ loop = "lookup"
  /\ IF todo # << >>
     THEN /\ registers' = Collect(registers, Head(todo))
          /\ todo' = Tail(todo)
          /\ UNCHANGED << loop, answer >>
     ELSE /\ answer' = IF AllCritical(registers) THEN "registers" ELSE "error"
          /\ loop' = "done"
          /\ UNCHANGED << todo, registers >>
  /\ UNCHANGED << orgList, depList, orgRegister, depRegister, stateList >>

Next == ReadOrganization \/ ReadDeployment \/ Merge \/ Publish \/ Lookup

Spec == Init /\ [][Next]_vars

-----------------------------------------------------------------------------
\* The lists of kinds and names in the specs that decide a kind: the last entry
\* of the deployment, or, if it has none, the last of the organization.
Decides(list, i, kind) ==
  /\ i \in DOMAIN list
  /\ list[i].kind = kind
  /\ \A j \in DOMAIN list : list[j].kind = kind => j <= i

Chosen(kind, name) ==
  \/ \E i \in DOMAIN depList : Decides(depList, i, kind) /\ depList[i].name = name
  \/ /\ \A i \in DOMAIN depList : depList[i].kind # kind
     /\ \E i \in DOMAIN orgList : Decides(orgList, i, kind) /\ orgList[i].name = name

\* Whatever order the maps are walked in, a user of the registry gets for each
\* kind the name the two specs decide on, and no other kind.
AnswerIsChosen ==
  loop = "done" =>
    \A kind \in Kinds :
      \A name \in RegisterNames :
        (kind \in DOMAIN registers /\ registers[kind] = name) <=> Chosen(kind, name)

\* The user gets an error exactly if a critical kind is in neither spec.
CriticalOrError ==
  loop = "done" =>
    (answer = "registers"
     <=> \A kind \in CriticalKinds : \E name \in RegisterNames : Chosen(kind, name))

\* The three loops of the controller do what the operators of Registers, which
\* OrgIntent uses in their place, say they do.
LoopsAreOperators ==
  /\ loop \in {"merge", "publish", "lookup", "done"} =>
       orgRegister = GetRegister(orgList)
  /\ loop = "merge" =>
       GetDeploymentRegister(orgRegister, depRegister)
         = GetDeploymentRegister(GetRegister(orgList), GetRegister(depList))
  /\ loop \in {"publish", "lookup", "done"} =>
       depRegister = GetDeploymentRegister(GetRegister(orgList), GetRegister(depList))
  /\ loop \in {"lookup", "done"} => stateList \in SetStateRegister(depRegister)
=============================================================================
