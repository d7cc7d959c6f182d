--------------------------- MODULE RegistryProofs ---------------------------
(***************************************************************************)
(* Proofs about what the registry library answers, at whatever point of    *)
(* the manager's work it is asked, and about the names it is asked for.    *)
(***************************************************************************)
EXTENDS Registry, OrgStatusProofs

-----------------------------------------------------------------------------
(* Registers                                                               *)

(***************************************************************************)
(* RegistersMeanUp has to hold of every copy of a status, since a worker   *)
(* may write the cached one back with another condition.                   *)
(***************************************************************************)
Earned(status) ==
  status.register # NoRegister => status.state = "up" /\ status.reason = ""

EarnedInv ==
  \A d \in Deployments :
    Earned(store[d].status) /\ Earned(cache[d].status) /\ Earned(mem[d])

\* Nothing the skeleton does to a status gives it registers.
LEMMA SkeletonEarned ==
  ASSUME NEW status \in ObjectStatus, Earned(status)
  PROVE  /\ Earned(InitializeResource(status))
         /\ \A ready \in {"True", "False"} : Earned(SetConditions(status, ready))
         /\ Earned(Persisted(status))
         /\ Earned(OrganizationNotFound(status))
<1>1. Earned(InitializeResource(status))
  BY DEF Earned, InitializeResource, ObjectStatus
<1>2. \A ready \in {"True", "False"} : Earned(SetConditions(status, ready))
  BY DEF Earned, SetConditions, ObjectStatus
<1>3. Earned(Persisted(status))
  BY DEF Earned, Persisted, ObjectStatus
<1>4. Earned(OrganizationNotFound(status))
  BY DEF Earned, OrganizationNotFound, ObjectStatus
<1> QED
  BY <1>1, <1>2, <1>3, <1>4

\* Whatever deployment2 finds in a status, its own registers go with "up".
LEMMA SuccessEarned ==
  ASSUME NEW status \in ObjectStatus, NEW spec \in ObjectSpec, NEW org \in ObjectSpec,
         Reconciler = "deployment2"
  PROVE  Earned(SetConditions(
           DeploymentLogic(Reconciler, InitializeResource(status), spec, org), "True"))
<1> DEFINE start == InitializeResource(status)
           logic == DeploymentLogic(Reconciler, start, spec, org)
<1>1. start \in ObjectStatus
  BY StatusTypes
<1>2. logic \in ObjectStatus
  BY <1>1, DeploymentLogicType
<1>3. Earned(logic)
  BY <1>1 DEF Earned, DeploymentLogic, AdminStateDisabled, Deployment2Enabled, ObjectStatus
<1> HIDE DEF logic
<1>4. Earned(SetConditions(logic, "True"))
  BY <1>2, <1>3, SkeletonEarned
<1> QED
  BY <1>4 DEF logic

LEMMA EarnedInvHolds == ASSUME Reconciler = "deployment2" PROVE Spec => []EarnedInv
<1>1. Earned(NoStatus)
  BY DEF Earned, NoStatus
<1>2. Init => EarnedInv
  BY <1>1, EmptyNotReady DEF Init, EarnedInv, Keys
<1>3. TypeOK /\ EarnedInv /\ [Next]_vars => EarnedInv'
  <2> SUFFICES ASSUME TypeOK, EarnedInv, [Next]_vars, NEW d \in Deployments
               PROVE  Earned(store'[d].status) /\ Earned(cache'[d].status) /\ Earned(mem'[d])
    BY DEF EarnedInv, Earned
  <2>1. /\ d \in Keys
        /\ store[d] \in Object
        /\ mem[d] \in ObjectStatus
        /\ base[d].spec \in ObjectSpec
        /\ Earned(store[d].status) /\ Earned(cache[d].status) /\ Earned(mem[d])
    BY DEF Keys, TypeOK, Object, EarnedInv
  <2>2. Earned(store'[d].status)
    <3>1. StoreStep(d)
      BY <2>1, StoreSteps
    <3>2. [store[d] EXCEPT !.status = Persisted(mem[d])].status = Persisted(mem[d])
      BY <2>1 DEF Object
    <3> QED
      BY <1>1, <2>1, <3>1, <3>2, SkeletonEarned DEF StoreStep
  <2>3. Earned(cache'[d].status)
    BY <2>1, CacheMoves DEF Follows
  <2>4. Earned(mem'[d])
    <3>1. WorkerStep(d)
      BY <2>1, WorkerSteps
    <3>2. CASE WorkerFails(d)
      <4>1. InitializeResource(mem[d]) \in ObjectStatus
        BY <2>1, StatusTypes
      <4>2. OrganizationNotFound(InitializeResource(mem[d])) \in ObjectStatus
        BY <4>1, NoRegisterType DEF OrganizationNotFound, ObjectStatus
      <4>3. /\ Earned(InitializeResource(mem[d]))
            /\ Earned(OrganizationNotFound(InitializeResource(mem[d])))
        BY <2>1, <4>1, SkeletonEarned
      <4> QED
        BY <2>1, <3>2, <4>1, <4>2, <4>3, SkeletonEarned DEF WorkerFails
    <3>3. CASE WorkerSucceeds(d)
      <4>1. \A o \in OrganizationsOf(d) : cache[o].spec \in ObjectSpec
        BY DEF OrganizationsOf, Keys, TypeOK, Object
      <4> QED
        BY <2>1, <3>3, <4>1, SuccessEarned DEF WorkerSucceeds, DeploymentSucceeds
    <3>4. CASE mem'[d] \in {mem[d], NoStatus, cache[d].status}
      BY <1>1, <2>1, <3>4
    <3> QED
      BY <3>1, <3>2, <3>3, <3>4
      DEF WorkerStep, WorkerStops, WorkerStarts, WorkerProtects
  <2> QED
    BY <2>2, <2>3, <2>4
<1> QED
  BY <1>2, <1>3, TypeCorrect, PTL DEF Spec

\* Whoever asks for a name with registers to offer gets them from one object.
LEMMA AnswersOf ==
  ASSUME NEW k \in Keys, LookupKind(k.name) = k.kind
  PROVE  /\ RegisterAnswers(k.ns, k.name) # {} => store[k].status.register # NoRegister
         /\ RegisterAnswers(k.ns, k.name) # {} => store[k].status.state # "nil"
<1>1. \A j \in Named(k.ns, k.name) : j = k
  BY DEF Named, Keys, Organizations, Deployments
<1>2. ASSUME RegisterAnswers(k.ns, k.name) # {}
      PROVE  GetStateRegister(store[k].status) # NoRegister
  <2>1. CriticalKinds \subseteq DOMAIN GetStateRegister(store[k].status)
    BY <1>1, <1>2 DEF RegisterAnswers
  <2>2. DOMAIN NoRegister = {}
    BY DEF NoRegister
  <2> QED
    BY <2>1, <2>2, CriticalAssumption
<1> QED
  BY <1>2 DEF GetStateRegister

\* With deployment2, only a deployment that is up has registers to offer.
THEOREM AnswersMeanUp ==
  ASSUME Reconciler = "deployment2" PROVE Spec => []RegistersMeanUp
<1>1. EarnedInv => RegistersMeanUp
  <2> SUFFICES ASSUME EarnedInv, NEW d \in Deployments, LookupKind(d.name) = "Deployment",
                      RegisterAnswers(d.ns, d.name) # {}
               PROVE  store[d].status.state = "up" /\ store[d].status.reason = ""
    BY DEF RegistersMeanUp
  <2>1. d \in Keys /\ d.kind = "Deployment"
    BY DEF Keys, Deployments
  <2> QED
    BY <2>1, AnswersOf DEF EarnedInv, Earned
<1> QED
  BY <1>1, EarnedInvHolds, PTL

-----------------------------------------------------------------------------
(* Strategies                                                              *)

(***************************************************************************)
(* A status that was initialized is never without a strategy, and once it  *)
(* is stored, never with a blank one: the defaults of the CRD see to that. *)
(***************************************************************************)
Given(status)  == status.state # "nil" => status.strategy # Nil
Filled(status) == status.state # "nil" => status.strategy \in Strategies

StrategyInv ==
  \A k \in Keys : Filled(store[k].status) /\ Filled(cache[k].status) /\ Given(mem[k])

LEMMA SkeletonGiven ==
  ASSUME NEW status \in ObjectStatus, Given(status)
  PROVE  /\ Given(InitializeResource(status))
         /\ InitializeResource(status).strategy # Nil
         /\ \A ready \in {"True", "False"} : Given(SetConditions(status, ready))
         /\ Filled(Persisted(status))
<1>1. Given(InitializeResource(status)) /\ InitializeResource(status).strategy # Nil
  BY DEF Given, InitializeResource, ObjectStatus, Nil, Blank
<1>2. \A ready \in {"True", "False"} : Given(SetConditions(status, ready))
  BY DEF Given, SetConditions, ObjectStatus
<1>3. Filled(Persisted(status))
  BY StrategyAssumption DEF Given, Filled, Persisted, Defaulted, ObjectStatus
<1> QED
  BY <1>1, <1>2, <1>3

LEMMA LogicGiven ==
  ASSUME NEW status \in ObjectStatus, Given(status), NEW spec \in ObjectSpec, NEW org \in ObjectSpec
  PROVE  LET start == InitializeResource(status) IN
         /\ Given(SetConditions(OrganizationNotFound(start), "False"))
         /\ Given(SetConditions(OrganizationLogic(start, spec), "True"))
         /\ Given(SetConditions(DeploymentLogic(Reconciler, start, spec, org), "True"))
<1> DEFINE start == InitializeResource(status)
<1>1. start \in ObjectStatus /\ start.strategy # Nil
  BY StatusTypes, SkeletonGiven
<1> HIDE DEF start
<1>2. \A given : GetAddressAllocationStrategy(given) # Nil
  BY DEF GetAddressAllocationStrategy, Nil, Blank
<1>3. Given(SetConditions(OrganizationNotFound(start), "False"))
  <2>1. OrganizationNotFound(start) \in ObjectStatus
    BY <1>1, NoRegisterType DEF OrganizationNotFound, ObjectStatus
  <2>2. Given(OrganizationNotFound(start))
    BY <1>1 DEF OrganizationNotFound, Given, ObjectStatus
  <2> QED
    BY <2>1, <2>2, SkeletonGiven
<1>4. Given(SetConditions(OrganizationLogic(start, spec), "True"))
  <2>1. OrganizationLogic(start, spec) \in ObjectStatus
    BY <1>1, OrganizationLogicType
  <2>2. OrganizationLogic(start, spec).strategy = GetAddressAllocationStrategy(spec.strategy)
    BY <1>1 DEF OrganizationLogic, ObjectStatus
  <2> QED
    BY <1>2, <2>1, <2>2, SkeletonGiven DEF Given
<1>5. Given(SetConditions(DeploymentLogic(Reconciler, start, spec, org), "True"))
  <2> DEFINE logic == DeploymentLogic(Reconciler, start, spec, org)
  <2>1. logic \in ObjectStatus
    BY <1>1, DeploymentLogicType
  <2>2. GetDeploymentStrategy(GetAddressAllocationStrategy(org.strategy),
                              GetAddressAllocationStrategy(spec.strategy)) # Nil
    BY <1>2 DEF GetDeploymentStrategy
  <2>3. logic.strategy # Nil
    BY <1>1, <2>2
    DEF DeploymentLogic, AdminStateDisabled, Deployment2Enabled, DeploymentEnabled, ObjectStatus
  <2> HIDE DEF logic
  <2>4. Given(SetConditions(logic, "True"))
    BY <2>1, <2>3, SkeletonGiven DEF Given
  <2> QED
    BY <2>4 DEF logic
<1> QED
  BY <1>3, <1>4, <1>5 DEF start

LEMMA StrategyInvHolds == Spec => []StrategyInv
<1>1. Filled(NoStatus) /\ Given(NoStatus)
  BY DEF Filled, Given, NoStatus
<1>2. Init => StrategyInv
  BY <1>1, EmptyNotReady DEF Init, StrategyInv
<1>3. TypeOK /\ StrategyInv /\ [Next]_vars => StrategyInv'
  <2> SUFFICES ASSUME TypeOK, StrategyInv, [Next]_vars, NEW k \in Keys
               PROVE  Filled(store'[k].status) /\ Filled(cache'[k].status) /\ Given(mem'[k])
    BY DEF StrategyInv, Filled, Given
  <2>1. /\ store[k] \in Object
        /\ mem[k] \in ObjectStatus
        /\ base[k].spec \in ObjectSpec
        /\ Filled(store[k].status) /\ Filled(cache[k].status) /\ Given(mem[k])
    BY DEF TypeOK, Object, StrategyInv
  <2>2. Filled(store'[k].status)
    <3>1. StoreStep(k)
      BY StoreSteps
    <3>2. [store[k] EXCEPT !.status = Persisted(mem[k])].status = Persisted(mem[k])
      BY <2>1 DEF Object
    <3> QED
      BY <1>1, <2>1, <3>1, <3>2, SkeletonGiven DEF StoreStep
  <2>3. Filled(cache'[k].status)
    BY <2>1, CacheMoves DEF Follows
  <2>4. Given(mem'[k])
    <3>1. WorkerStep(k)
      BY WorkerSteps
    <3>2. CASE WorkerFails(k)
      <4>1. InitializeResource(mem[k]) \in ObjectStatus
        BY <2>1, StatusTypes
      <4>2. /\ Given(SetConditions(mem[k], "False"))
            /\ Given(SetConditions(InitializeResource(mem[k]), "False"))
        BY <2>1, <4>1, SkeletonGiven
      <4>3. Given(SetConditions(OrganizationNotFound(InitializeResource(mem[k])), "False"))
        BY <2>1, LogicGiven
      <4> QED
        BY <3>2, <4>2, <4>3 DEF WorkerFails
    <3>3. CASE WorkerSucceeds(k)
      <4>1. \A o \in OrganizationsOf(k) : cache[o].spec \in ObjectSpec
        BY DEF OrganizationsOf, Keys, TypeOK, Object
      <4> QED
        BY <2>1, <3>3, <4>1, LogicGiven
        DEF WorkerSucceeds, OrganizationSucceeds, DeploymentSucceeds, Keys
    <3>4. Given(cache[k].status)
      BY <2>1, StrategiesAssumption DEF Filled, Given
    <3>5. CASE mem'[k] \in {mem[k], NoStatus, cache[k].status}
      BY <1>1, <2>1, <3>4, <3>5
    <3> QED
      BY <3>1, <3>2, <3>3, <3>5
      DEF WorkerStep, WorkerStops, WorkerStarts, WorkerProtects
  <2> QED
    BY <2>2, <2>3, <2>4
<1> QED
  BY <1>2, <1>3, TypeCorrect, PTL DEF Spec

\* No lookup returns a nil strategy, and one of an object that a pass has written
\* to, be it up or down, has all its fields, with either deployment controller.
THEOREM AnswersAreUsable == Spec => []StrategyIsUsable
<1>1. StrategyInv => StrategyIsUsable
  <2> SUFFICES ASSUME StrategyInv, NEW ns \in Namespaces, NEW name \in Names,
                      NEW k \in Named(ns, name)
               PROVE  LET strategy == GetStateAddressAllocationStrategy(store[k].status) IN
                      /\ strategy # Nil
                      /\ store[k].status.state # "nil" => strategy \in Strategies
    BY DEF StrategyIsUsable, StrategyAnswers
  <2>1. Filled(store[k].status)
    BY DEF StrategyInv, Named
  <2> QED
    BY <2>1, StrategiesAssumption DEF GetStateAddressAllocationStrategy, Filled, Nil, Blank
<1> QED
  BY <1>1, StrategyInvHolds, PTL

-----------------------------------------------------------------------------
(* Names, for every set of labels                                          *)

\* The name the registry makes of an organization and a deployment of one label
\* each is looked up as a deployment and belongs to exactly that organization.
THEOREM RegisterNameRoundTrip ==
  ASSUME NEW Labels, NEW org \in Labels, NEW dep \in Labels
  PROVE  LET name == GetRegisterName(<< org >>, << dep >>) IN
         /\ LookupKind(name) = "Deployment"
         /\ GetOrganizationName(name) = << org >>
         /\ GetDeploymentName(name) = << dep >>
<1> DEFINE name == << org >> \o << dep >>
<1>1. GetRegisterName(<< org >>, << dep >>) = name
  <2>1. Len(<< dep >>) # Len(Empty)
    BY DEF Empty
  <2> QED
    BY <2>1 DEF GetRegisterName
<1>2. Len(name) = 2 /\ name[1] = org /\ name[2] = dep
  <2>1. << org >> \in Seq(Labels) /\ << dep >> \in Seq(Labels)
    OBVIOUS
  <2>2. Len(<< org >>) = 1 /\ Len(<< dep >>) = 1 /\ << org >>[1] = org /\ << dep >>[1] = dep
    OBVIOUS
  <2> QED
    BY <2>1, <2>2
<1> HIDE DEF name
<1>3. LookupKind(name) = "Deployment"
  BY <1>2 DEF LookupKind
<1>4. GetOrganizationName(name) = << org >>
  BY <1>2 DEF GetOrganizationName
<1>5. GetDeploymentName(name) = << dep >>
  BY <1>2 DEF GetDeploymentName
<1> QED
  BY <1>1, <1>3, <1>4, <1>5

\* Without a deployment the name stands for an organization exactly if the
\* organization's name has one label: a dotted one is looked up as a deployment.
THEOREM OrganizationLookup ==
  ASSUME NEW Labels, NEW org \in Seq(Labels)
  PROVE  /\ LookupKind(GetRegisterName(org, Empty)) = "Organization" <=> Len(org) = 1
         /\ LookupKind(GetRegisterName(org, Empty)) = "Deployment" <=> Len(org) = 2
<1>1. GetRegisterName(org, Empty) = org
  BY DEF GetRegisterName
<1> QED
  BY <1>1 DEF LookupKind

\* A deployment belongs to a named organization only if its own name has two
\* labels, the first of which is the whole name of the organization.
THEOREM MembersHaveTwoLabels ==
  ASSUME NEW Labels, NEW org \in Seq(Labels), NEW name \in Seq(Labels),
         org # Empty, GetOrganizationName(name) = org
  PROVE  Len(name) = 2 /\ Len(org) = 1 /\ LookupKind(org) = "Organization"
  BY DEF GetOrganizationName, Empty, LookupKind

\* No deployment belongs to an organization whose name is dotted.
THEOREM DottedOrganizationIsAlone ==
  ASSUME NEW Labels, NEW org \in Seq(Labels), NEW name \in Seq(Labels), Len(org) > 1
  PROVE  GetOrganizationName(name) # org
<1>1. org # Empty
  BY DEF Empty
<1> QED
  BY <1>1, MembersHaveTwoLabels

\* Two objects of different namespaces or names have different speedy keys.
THEOREM CrNameInjective ==
  ASSUME NEW Labels, NEW ns1 \in Labels, NEW name1 \in Seq(Labels),
         NEW ns2 \in Labels, NEW name2 \in Seq(Labels),
         GetCrName(ns1, name1) = GetCrName(ns2, name2)
  PROVE  ns1 = ns2 /\ name1 = name2
<1> DEFINE key1 == << ns1 >> \o name1
           key2 == << ns2 >> \o name2
<1>1. key1 = key2
  BY DEF GetCrName
<1>2. /\ Len(key1) = 1 + Len(name1)
      /\ Len(key2) = 1 + Len(name2)
      /\ key1[1] = ns1
      /\ key2[1] = ns2
  OBVIOUS
<1>3. Len(name1) = Len(name2)
  BY <1>1, <1>2
<1>4. \A i \in 1 .. Len(name1) : key1[i + 1] = name1[i] /\ key2[i + 1] = name2[i]
  BY <1>3
<1>5. \A i \in 1 .. Len(name1) : name1[i] = name2[i]
  BY <1>1, <1>4
<1> QED
  BY <1>1, <1>2, <1>3, <1>5
=============================================================================
