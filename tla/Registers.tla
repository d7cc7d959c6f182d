----------------------------- MODULE Registers -----------------------------
(***************************************************************************)
(* Registers and address allocation strategies: what the getters of the    *)
(* API types return, and what the setters and the merge leave behind.      *)
(*                                                                         *)
(* A spec or a status holds a list of [kind, name] entries; the program    *)
(* works on the map from kinds to names that GetRegister builds from it.   *)
(***************************************************************************)
EXTENDS Naturals, Sequences, FiniteSets

CONSTANTS
  Kinds,            \* kinds of registers: ipam, as, vlan, ...
  RegisterNames,    \* names of the register instances
  Strategies,       \* address allocation strategies, all fields filled in
  DefaultStrategy   \* the one the CRD's field defaults amount to

ASSUME StrategyAssumption == DefaultStrategy \in Strategies

-----------------------------------------------------------------------------
(* Register lists and register maps                                        *)

Entry == [kind : Kinds, name : RegisterNames]

RegisterMaps == UNION { [S -> RegisterNames] : S \in SUBSET Kinds }

NoRegister == [kind \in {} |-> "none"]

\* GetRegister assigns s[kind] = name entry by entry, so of two entries of one
\* kind the later counts.
LastEntry(entries, kind) ==
  CHOOSE i \in DOMAIN entries :
    /\ entries[i].kind = kind
    /\ \A j \in DOMAIN entries : entries[j].kind = kind => j <= i

GetRegister(entries) ==
  [kind \in { entries[i].kind : i \in DOMAIN entries } |->
     entries[LastEntry(entries, kind)].name]

Entries(register) ==
  { [kind |-> kind, name |-> register[kind]] : kind \in DOMAIN register }

\* SetStateRegister appends the entries in whatever order Go iterates over the
\* map: every ordering of them is a possible result.
SetStateRegister(register) ==
  { list \in [1 .. Cardinality(Entries(register)) -> Entries(register)] :
      { list[i] : i \in DOMAIN list } = Entries(register) }

\* A deployment inherits the registers of its organization for the kinds it
\* does not choose itself.
GetDeploymentRegister(orgRegister, depRegister) ==
  [kind \in DOMAIN orgRegister \cup DOMAIN depRegister |->
     IF kind \in DOMAIN depRegister THEN depRegister[kind] ELSE orgRegister[kind]]

-----------------------------------------------------------------------------
(* Address allocation strategies                                           *)

Nil   == "nil"      \* a nil *AddressAllocationStrategy
Blank == "blank"    \* a pointer to a struct none of whose fields is set

\* The getter never returns nil: it replaces a missing strategy by a blank one.
GetAddressAllocationStrategy(given) == IF given = Nil THEN Blank ELSE given

GetDeploymentStrategy(orgStrategy, depStrategy) ==
  IF depStrategy # Nil THEN depStrategy ELSE orgStrategy

\* The API server fills the defaults of the CRD into a strategy it is given.
Defaulted(strategy) == IF strategy = Blank THEN DefaultStrategy ELSE strategy
=============================================================================
