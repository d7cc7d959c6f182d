--------------------------- MODULE ReplicasProofs ---------------------------
(***************************************************************************)
(* Proofs about two managers that share the API server.  Each manager is a *)
(* copy of OrgIntent, and PA and PB are the proofs about OrgIntent, read   *)
(* for one copy and for the other: a step of a manager keeps its own       *)
(* invariants by those proofs, and is a step "elsewhere" for the other.    *)
(***************************************************************************)
EXTENDS Replicas, TLAPS

PA == INSTANCE OrgStatusProofs WITH
        cache <- cacheA, dirty <- dirtyA, delayed <- delayedA, pc <- pcA, base <- baseA,
        mem <- memA, orgEvents <- orgEventsA, speedy <- speedyA

PB == INSTANCE OrgStatusProofs WITH
        cache <- cacheB, dirty <- dirtyB, delayed <- delayedB, pc <- pcB, base <- baseB,
        mem <- memB, orgEvents <- orgEventsB, speedy <- speedyB

-----------------------------------------------------------------------------
(* PA and PB extend the module A and B are copies of                       *)

\* Manager A starts as PA does.
LEMMA SameInitA == A!Init => PA!Init
  BY DEF
    A!Init, PA!Init, A!Keys, PA!Keys, A!Gone, PA!Gone, A!NoStatus, PA!NoStatus,
    A!Organizations, PA!Organizations, A!Deployments, PA!Deployments, A!NilSpec, PA!NilSpec,
    A!NoRegister, PA!NoRegister, A!Nil, PA!Nil

\* Manager B starts as PB does.
LEMMA SameInitB == B!Init => PB!Init
  BY DEF
    B!Init, PB!Init, B!Keys, PB!Keys, B!Gone, PB!Gone, B!NoStatus, PB!NoStatus,
    B!Organizations, PB!Organizations, B!Deployments, PB!Deployments, B!NilSpec, PB!NilSpec,
    B!NoRegister, PB!NoRegister, B!Nil, PB!Nil

\* The definitions of both copies, written out, are the same word for word.
LEMMA SameStepA == [A!Next]_(A!vars) => [PA!Next]_(PA!vars)
  BY Zenon DEF
    A!Next, PA!Next, A!vars, PA!vars, A!User, PA!User, A!Keys, PA!Keys, A!Sync, PA!Sync,
    A!TimerFires, PA!TimerFires, A!Begin, PA!Begin, A!Work, PA!Work, A!Organizations,
    PA!Organizations, A!OrgEvent, PA!OrgEvent, A!Crash, PA!Crash, A!queueVars, PA!queueVars,
    A!workVars, PA!workVars, A!Create, PA!Create, A!Edit, PA!Edit, A!Delete, PA!Delete,
    A!Deployments, PA!Deployments, A!PassesFilter, PA!PassesFilter, A!StartNotFound,
    PA!StartNotFound, A!Start, PA!Start, A!StartFails, PA!StartFails, A!RemoveFinalizer,
    PA!RemoveFinalizer, A!RemoveFinalizerFails, PA!RemoveFinalizerFails, A!AddFinalizer,
    PA!AddFinalizer, A!AddFinalizerFails, PA!AddFinalizerFails, A!OrganizationAppLogic,
    PA!OrganizationAppLogic, A!DeploymentAppLogic, PA!DeploymentAppLogic,
    A!DeploymentListFails, PA!DeploymentListFails, A!UpdateStatus, PA!UpdateStatus,
    A!UpdateStatusFails, PA!UpdateStatusFails, A!Panic, PA!Panic, A!HandleOrgEvent,
    PA!HandleOrgEvent, A!LoseOrgEvent, PA!LoseOrgEvent, A!Fault, PA!Fault, A!RestartManager,
    PA!RestartManager, A!UserChange, PA!UserChange, A!NoStatus, PA!NoStatus, A!Present,
    PA!Present, A!Gone, PA!Gone, A!Take, PA!Take, A!StepTo, PA!StepTo, A!CanWrite,
    PA!CanWrite, A!Finish, PA!Finish, A!FinalDelete, PA!FinalDelete, A!Refused, PA!Refused,
    A!AnswerLost, PA!AnswerLost, A!SetConditions, PA!SetConditions, A!WithFinalizer,
    PA!WithFinalizer, A!OrganizationLogic, PA!OrganizationLogic, A!InitializeResource,
    PA!InitializeResource, A!OrganizationsOf, PA!OrganizationsOf, A!OrganizationNotFound,
    PA!OrganizationNotFound, A!DeploymentLogic, PA!DeploymentLogic, A!Persisted,
    PA!Persisted, A!Requeued, PA!Requeued, A!RequestsOf, PA!RequestsOf, A!DeploymentsOf,
    PA!DeploymentsOf, A!NoRegister, PA!NoRegister, A!Nil, PA!Nil, A!NilSpec, PA!NilSpec,
    A!Busy, PA!Busy, A!GetAddressAllocationStrategy, PA!GetAddressAllocationStrategy,
    A!Blank, PA!Blank, A!GetOrganizationName, PA!GetOrganizationName, A!AdminStateDisabled,
    PA!AdminStateDisabled, A!Deployment2Enabled, PA!Deployment2Enabled, A!DeploymentEnabled,
    PA!DeploymentEnabled, A!Defaulted, PA!Defaulted, A!Polled, PA!Polled, A!RequestFor,
    PA!RequestFor, A!Empty, PA!Empty, A!GetDeploymentRegister, PA!GetDeploymentRegister,
    A!GetDeploymentStrategy, PA!GetDeploymentStrategy, A!Cardinality, PA!Cardinality,
    A!IsFiniteSet, PA!IsFiniteSet

\* The same for B.
LEMMA SameStepB == [B!Next]_(B!vars) => [PB!Next]_(PB!vars)
  BY Zenon DEF
    B!Next, PB!Next, B!vars, PB!vars, B!User, PB!User, B!Keys, PB!Keys, B!Sync, PB!Sync,
    B!TimerFires, PB!TimerFires, B!Begin, PB!Begin, B!Work, PB!Work, B!Organizations,
    PB!Organizations, B!OrgEvent, PB!OrgEvent, B!Crash, PB!Crash, B!queueVars, PB!queueVars,
    B!workVars, PB!workVars, B!Create, PB!Create, B!Edit, PB!Edit, B!Delete, PB!Delete,
    B!Deployments, PB!Deployments, B!PassesFilter, PB!PassesFilter, B!StartNotFound,
    PB!StartNotFound, B!Start, PB!Start, B!StartFails, PB!StartFails, B!RemoveFinalizer,
    PB!RemoveFinalizer, B!RemoveFinalizerFails, PB!RemoveFinalizerFails, B!AddFinalizer,
    PB!AddFinalizer, B!AddFinalizerFails, PB!AddFinalizerFails, B!OrganizationAppLogic,
    PB!OrganizationAppLogic, B!DeploymentAppLogic, PB!DeploymentAppLogic,
    B!DeploymentListFails, PB!DeploymentListFails, B!UpdateStatus, PB!UpdateStatus,
    B!UpdateStatusFails, PB!UpdateStatusFails, B!Panic, PB!Panic, B!HandleOrgEvent,
    PB!HandleOrgEvent, B!LoseOrgEvent, PB!LoseOrgEvent, B!Fault, PB!Fault, B!RestartManager,
    PB!RestartManager, B!UserChange, PB!UserChange, B!NoStatus, PB!NoStatus, B!Present,
    PB!Present, B!Gone, PB!Gone, B!Take, PB!Take, B!StepTo, PB!StepTo, B!CanWrite,
    PB!CanWrite, B!Finish, PB!Finish, B!FinalDelete, PB!FinalDelete, B!Refused, PB!Refused,
    B!AnswerLost, PB!AnswerLost, B!SetConditions, PB!SetConditions, B!WithFinalizer,
    PB!WithFinalizer, B!OrganizationLogic, PB!OrganizationLogic, B!InitializeResource,
    PB!InitializeResource, B!OrganizationsOf, PB!OrganizationsOf, B!OrganizationNotFound,
    PB!OrganizationNotFound, B!DeploymentLogic, PB!DeploymentLogic, B!Persisted,
    PB!Persisted, B!Requeued, PB!Requeued, B!RequestsOf, PB!RequestsOf, B!DeploymentsOf,
    PB!DeploymentsOf, B!NoRegister, PB!NoRegister, B!Nil, PB!Nil, B!NilSpec, PB!NilSpec,
    B!Busy, PB!Busy, B!GetAddressAllocationStrategy, PB!GetAddressAllocationStrategy,
    B!Blank, PB!Blank, B!GetOrganizationName, PB!GetOrganizationName, B!AdminStateDisabled,
    PB!AdminStateDisabled, B!Deployment2Enabled, PB!Deployment2Enabled, B!DeploymentEnabled,
    PB!DeploymentEnabled, B!Defaulted, PB!Defaulted, B!Polled, PB!Polled, B!RequestFor,
    PB!RequestFor, B!Empty, PB!Empty, B!GetDeploymentRegister, PB!GetDeploymentRegister,
    B!GetDeploymentStrategy, PB!GetDeploymentStrategy, B!Cardinality, PB!Cardinality,
    B!IsFiniteSet, PB!IsFiniteSet

\* Objects and specs are the same for all.
LEMMA SameKeys ==
  /\ PA!Keys = A!Keys /\ PA!Organizations = A!Organizations /\ PA!Deployments = A!Deployments
  /\ PB!Keys = A!Keys /\ PB!Organizations = A!Organizations /\ PB!Deployments = A!Deployments
  BY DEF A!Keys, PA!Keys, PB!Keys, A!Organizations, PA!Organizations, PB!Organizations,
    A!Deployments, PA!Deployments, PB!Deployments

\* Specs, statuses and stored objects are the same sets for all.
LEMMA SameTypes ==
  /\ PA!ObjectSpec = ObjectSpec /\ PB!ObjectSpec = ObjectSpec
  /\ PB!ObjectStatus = PA!ObjectStatus
  /\ PB!Object = PA!Object
<1>1. /\ PA!RegisterMaps = RegisterMaps /\ PB!RegisterMaps = RegisterMaps
      /\ PA!Nil = Nil /\ PB!Nil = Nil /\ PB!Blank = PA!Blank
  BY DEF RegisterMaps, PA!RegisterMaps, PB!RegisterMaps, Nil, PA!Nil, PB!Nil, PA!Blank, PB!Blank
<1>2. PA!ObjectSpec = ObjectSpec /\ PB!ObjectSpec = ObjectSpec
  BY <1>1 DEF ObjectSpec, PA!ObjectSpec, PB!ObjectSpec
<1>3. PB!ObjectStatus = PA!ObjectStatus
  BY <1>1 DEF PA!ObjectStatus, PB!ObjectStatus
<1> QED
  BY <1>2, <1>3 DEF PA!Object, PB!Object

\* What OrgIntent assumes of its constants, Replicas assumes too.
LEMMA AssumptionsA ==
  /\ DefaultStrategy \in Strategies
  /\ UserKeys \subseteq PA!Keys
  /\ Specs \in [PA!Keys -> SUBSET PA!ObjectSpec]
  /\ Reconciler \in {"deployment", "deployment2"}
  /\ MaxConcurrentReconciles \in Nat /\ MaxGen \in [PA!Keys -> Nat] /\ MaxFaults \in Nat
  BY SameKeys, SameTypes, StrategyAssumption, KeysAssumption, SpecsAssumption,
    ReconcilerAssumption, BoundsAssumption

\* The same for B.
LEMMA AssumptionsB ==
  /\ DefaultStrategy \in Strategies
  /\ UserKeys \subseteq PB!Keys
  /\ Specs \in [PB!Keys -> SUBSET PB!ObjectSpec]
  /\ Reconciler \in {"deployment", "deployment2"}
  /\ MaxConcurrentReconciles \in Nat /\ MaxGen \in [PB!Keys -> Nat] /\ MaxFaults \in Nat
  BY SameKeys, SameTypes, StrategyAssumption, KeysAssumption, SpecsAssumption,
    ReconcilerAssumption, BoundsAssumption

\* What one says of the objects they share, the other says too.
LEMMA SameStore ==
  /\ A!ReadyIsHeld <=> PA!ReadyIsHeld
  /\ PB!ReadyIsHeld <=> PA!ReadyIsHeld
  /\ A!ReadyHasOrganization <=> PA!ReadyHasOrganization
  /\ PB!ReadyHasOrganization <=> PA!ReadyHasOrganization
  /\ \A object : PA!Present(object) <=> PB!Present(object)
  /\ \A old, new : PA!Moves(old, new) <=> PB!Moves(old, new)
<1>1. /\ A!ReadyIsHeld <=> PA!ReadyIsHeld
      /\ PB!ReadyIsHeld <=> PA!ReadyIsHeld
  BY SameKeys DEF A!ReadyIsHeld, PA!ReadyIsHeld, PB!ReadyIsHeld
<1>2. /\ A!ReadyHasOrganization <=> PA!ReadyHasOrganization
      /\ PB!ReadyHasOrganization <=> PA!ReadyHasOrganization
  BY SameKeys DEF A!ReadyHasOrganization, PA!ReadyHasOrganization, PB!ReadyHasOrganization
<1>3. \A object : PA!Present(object) <=> PB!Present(object)
  BY DEF PA!Present, PB!Present
<1>4. \A old, new : PA!Moves(old, new) <=> PB!Moves(old, new)
  BY DEF PA!Moves, PB!Moves, PA!Present, PB!Present
<1> QED
  BY <1>1, <1>2, <1>3, <1>4

\* What PA and PB say of forgotten objects, A and B say.
LEMMA SameNeverForgotten ==
  /\ PA!NeverForgotten => A!NeverForgotten
  /\ PB!NeverForgotten => B!NeverForgotten
<1>1. PA!NeverForgotten => A!NeverForgotten
  BY Zenon DEF
    A!NeverForgotten, PA!NeverForgotten, A!Keys, PA!Keys, A!Polled, PA!Polled, A!Present,
    PA!Present, A!Pending, PA!Pending, A!Organizations, PA!Organizations, A!Deployments,
    PA!Deployments, A!PassesFilter, PA!PassesFilter
<1>2. PB!NeverForgotten => B!NeverForgotten
  BY Zenon DEF
    B!NeverForgotten, PB!NeverForgotten, B!Keys, PB!Keys, B!Polled, PB!Polled, B!Present,
    PB!Present, B!Pending, PB!Pending, B!Organizations, PB!Organizations, B!Deployments,
    PB!Deployments, B!PassesFilter, PB!PassesFilter
<1> QED
  BY <1>1, <1>2

-----------------------------------------------------------------------------
(* A step of one manager, seen from the other                              *)

BothInv == PA!ManagerInv /\ PB!ManagerInv

StepA == [PA!Next]_(PA!vars) /\ PB!Elsewhere
StepB == [PB!Next]_(PB!vars) /\ PA!Elsewhere

\* Both managers start with their invariants.
LEMMA BothInvInit == Init => BothInv
<1>1. Init => PA!Init /\ PB!Init
  BY SameInitA, SameInitB DEF Init
<1> QED
  BY <1>1, AssumptionsA, AssumptionsB, PA!ManagerInvInit, PB!ManagerInvInit DEF BothInv

\* What B holds is not touched by a step of A, so its types follow.
LEMMA StepOfA ==
  ASSUME BothInv, NextA \/ UNCHANGED vars
  PROVE  StepA /\ BothInv'
<1>1. [PA!Next]_(PA!vars)
  <2>1. [A!Next]_(A!vars)
    BY DEF NextA, vars, localA, A!vars, A!queueVars, A!workVars
  <2> QED
    BY <2>1, SameStepA
<1>2. PA!ManagerInv' /\ \A k \in PA!Keys : PA!Moves(store[k], store'[k])
  BY <1>1, AssumptionsA, PA!ManagerInvStep DEF BothInv
<1>3. UNCHANGED localB
  BY DEF NextA, vars
<1>4. PB!Elsewhere
  BY <1>2, <1>3, SameKeys, SameStore DEF localB, PB!Elsewhere, PB!queueVars, PB!workVars
<1>5. PB!TypeOK'
  <2>1. PB!TypeOK /\ PA!TypeOK'
    BY <1>2 DEF BothInv, PA!ManagerInv, PB!ManagerInv
  <2>2. store' \in [PB!Keys -> PB!Object] /\ faults' \in 0 .. MaxFaults
    BY <2>1, SameKeys, SameTypes DEF PA!TypeOK
  <2> QED
    BY <1>3, <2>1, <2>2 DEF localB, PB!TypeOK
<1>6. PB!ReadyIsHeld'
  BY <1>2, SameKeys DEF PA!ManagerInv, PA!ReadyIsHeld, PB!ReadyIsHeld
<1>7. PB!ManagerInv'
  BY <1>4, <1>5, <1>6, AssumptionsB, PB!ElsewhereKeeps DEF BothInv
<1> QED
  BY <1>1, <1>2, <1>4, <1>7 DEF BothInv, StepA

\* The same for a step of B.
LEMMA StepOfB ==
  ASSUME BothInv, NextB \/ UNCHANGED vars
  PROVE  StepB /\ BothInv'
<1>1. [PB!Next]_(PB!vars)
  <2>1. [B!Next]_(B!vars)
    BY DEF NextB, vars, localB, B!vars, B!queueVars, B!workVars
  <2> QED
    BY <2>1, SameStepB
<1>2. PB!ManagerInv' /\ \A k \in PB!Keys : PB!Moves(store[k], store'[k])
  BY <1>1, AssumptionsB, PB!ManagerInvStep DEF BothInv
<1>3. UNCHANGED localA
  BY DEF NextB, vars
<1>4. PA!Elsewhere
  BY <1>2, <1>3, SameKeys, SameStore DEF localA, PA!Elsewhere, PA!queueVars, PA!workVars
<1>5. PA!TypeOK'
  <2>1. PA!TypeOK /\ PB!TypeOK'
    BY <1>2 DEF BothInv, PB!ManagerInv, PA!ManagerInv
  <2>2. store' \in [PA!Keys -> PA!Object] /\ faults' \in 0 .. MaxFaults
    BY <2>1, SameKeys, SameTypes DEF PB!TypeOK
  <2> QED
    BY <1>3, <2>1, <2>2 DEF localA, PA!TypeOK
<1>6. PA!ReadyIsHeld'
  BY <1>2, SameKeys DEF PB!ManagerInv, PB!ReadyIsHeld, PA!ReadyIsHeld
<1>7. PA!ManagerInv'
  BY <1>4, <1>5, <1>6, AssumptionsA, PA!ElsewhereKeeps DEF BothInv
<1> QED
  BY <1>1, <1>2, <1>4, <1>7 DEF BothInv, StepB

\* Every step is a step of one manager, elsewhere for the other.
LEMMA BothInvStep ==
  ASSUME BothInv, [Next]_vars
  PROVE  BothInv' /\ (StepA \/ StepB)
  BY StepOfA, StepOfB DEF Next

\* Both managers keep their invariants, in every state.
LEMMA BothInvHolds == Spec => []BothInv
<1>1. BothInv /\ [Next]_vars => BothInv'
  BY BothInvStep
<1> QED
  BY <1>1, BothInvInit, PTL DEF Spec

\* Neither manager forgets an object, whatever the other one does to it.
THEOREM NothingForgottenByEither == Spec => []BothNeverForget
<1>1. BothInv => BothNeverForget
  BY SameNeverForgotten DEF BothInv, PA!ManagerInv, PB!ManagerInv, BothNeverForget
<1> QED
  BY <1>1, BothInvHolds, PTL

\* Only an object the finalizer protects is reported ready, whichever of the two
\* managers added the finalizer and whichever reports.
THEOREM OnlyHeldIsReadyToEither == Spec => []ReadyIsHeld
<1>1. BothInv => ReadyIsHeld
  BY SameStore DEF BothInv, PA!ManagerInv, ReadyIsHeld
<1> QED
  BY <1>1, BothInvHolds, PTL

-----------------------------------------------------------------------------
(* What two deployment2 controllers publish                                *)

BothPublishInv == PA!PublisherInv /\ PB!PublisherInv

\* Neither manager has published anything at first.
LEMMA BothPublishInit == Init => BothPublishInv
<1>1. Init => PA!Init /\ PB!Init
  BY SameInitA, SameInitB DEF Init
<1> QED
  BY <1>1, AssumptionsA, AssumptionsB, PA!PublisherInvInit, PB!PublisherInvInit
  DEF BothPublishInv

\* An honest status is honest to both.
LEMMA SameHonest == \A status : PA!Honest(status) <=> PB!Honest(status)
  BY DEF PA!Honest, PB!Honest, PA!NoRegister, PB!NoRegister

\* What one manager publishes keeps what the other one relies on.
LEMMA BothPublishStep ==
  ASSUME Reconciler = "deployment2", BothInv, BothPublishInv, StepA \/ StepB
  PROVE  BothPublishInv'
<1>1. CASE StepA
  <2>1. PA!PublisherInv'
    BY <1>1, AssumptionsA, PA!PublisherInvStep DEF BothInv, BothPublishInv, StepA
  <2>2. PB!ReadyHasOrganization'
    BY <2>1, SameKeys
    DEF PA!PublisherInv, PA!ReadyHasOrganization, PB!ReadyHasOrganization
  <2>3. \A d \in PB!Deployments : PB!Honest(store'[d].status)
    BY <2>1, SameKeys, SameHonest DEF PA!PublisherInv, PA!HonestInv
  <2>4. PB!PublisherInv'
    BY <1>1, <2>2, <2>3, AssumptionsB, PB!ElsewherePublishes DEF BothPublishInv, StepA
  <2> QED
    BY <2>1, <2>4 DEF BothPublishInv
<1>2. CASE StepB
  <2>1. PB!PublisherInv'
    BY <1>2, AssumptionsB, PB!PublisherInvStep DEF BothInv, BothPublishInv, StepB
  <2>2. PA!ReadyHasOrganization'
    BY <2>1, SameKeys
    DEF PB!PublisherInv, PB!ReadyHasOrganization, PA!ReadyHasOrganization
  <2>3. \A d \in PA!Deployments : PA!Honest(store'[d].status)
    BY <2>1, SameKeys, SameHonest DEF PB!PublisherInv, PB!HonestInv
  <2>4. PA!PublisherInv'
    BY <1>2, <2>2, <2>3, AssumptionsA, PA!ElsewherePublishes DEF BothPublishInv, StepB
  <2> QED
    BY <2>1, <2>4 DEF BothPublishInv
<1> QED
  BY <1>1, <1>2

\* What both managers publish is as described, in every state.
LEMMA BothPublishHolds == ASSUME Reconciler = "deployment2" PROVE Spec => []BothPublishInv
<1>1. BothInv /\ BothPublishInv /\ [Next]_vars => BothPublishInv'
  BY BothInvStep, BothPublishStep
<1> QED
  BY <1>1, BothPublishInit, BothInvHolds, PTL DEF Spec

\* With deployment2, what either manager reports ready has its organization, and
\* what either reports down offers no registers.
THEOREM EitherIsHonest ==
  ASSUME Reconciler = "deployment2"
  PROVE  Spec => [](A!ReadyHasOrganization /\ A!DownOffersNothing)
<1>1. BothPublishInv => A!ReadyHasOrganization
  BY SameStore DEF BothPublishInv, PA!PublisherInv
<1>2. BothPublishInv => A!DownOffersNothing
  <2>1. PA!NoRegister = A!NoRegister
    BY DEF PA!NoRegister, A!NoRegister
  <2> QED
    BY <2>1, SameKeys
    DEF BothPublishInv, PA!PublisherInv, PA!HonestInv, PA!Honest, A!DownOffersNothing
<1> QED
  BY <1>1, <1>2, BothPublishHolds, PTL

\* What a status must reflect is the same for all.
LEMMA SameReflects ==
  /\ \A k, status, spec : PA!Reflects(k, status, spec) <=> A!Reflects(k, status, spec)
  /\ \A k, status, spec : PB!Reflects(k, status, spec) <=> A!Reflects(k, status, spec)
<1>1. \A k, status, spec : PA!Reflects(k, status, spec) <=> A!Reflects(k, status, spec)
  BY Zenon DEF
    A!Reflects, PA!Reflects, A!Organizations, PA!Organizations, A!OrganizationReflects,
    PA!OrganizationReflects, A!DeploymentReflects, PA!DeploymentReflects, A!Defaulted,
    PA!Defaulted, A!GetAddressAllocationStrategy, PA!GetAddressAllocationStrategy, A!Blank,
    PA!Blank, A!Nil, PA!Nil
<1>2. \A k, status, spec : PB!Reflects(k, status, spec) <=> A!Reflects(k, status, spec)
  BY Zenon DEF
    A!Reflects, PB!Reflects, A!Organizations, PB!Organizations, A!OrganizationReflects,
    PB!OrganizationReflects, A!DeploymentReflects, PB!DeploymentReflects, A!Defaulted,
    PB!Defaulted, A!GetAddressAllocationStrategy, PB!GetAddressAllocationStrategy, A!Blank,
    PB!Blank, A!Nil, PB!Nil
<1> QED
  BY <1>1, <1>2

\* A status either manager reports ready reflects the spec in force at the moment
\* it is written, however old the copy that manager works on and whatever the
\* other one wrote meanwhile.
THEOREM EitherIsCurrent ==
  ASSUME Reconciler = "deployment2" PROVE Spec => StatusFromCurrentSpec
<1> DEFINE Current ==
      \A k \in A!Keys :
        /\ store'[k].status # store[k].status
        /\ store'[k].status.ready = "True"
        => A!Reflects(k, store'[k].status, store'[k].spec)
<1>1. ASSUME BothInv, BothPublishInv, StepA PROVE Current
  BY <1>1, SameKeys, SameReflects, AssumptionsA, PA!CurrentStep
  DEF BothInv, PA!ManagerInv, BothPublishInv, PA!PublisherInv, StepA
<1>2. ASSUME BothInv, BothPublishInv, StepB PROVE Current
  BY <1>2, SameKeys, SameReflects, AssumptionsB, PB!CurrentStep
  DEF BothInv, PB!ManagerInv, BothPublishInv, PB!PublisherInv, StepB
<1>3. BothInv /\ BothPublishInv /\ [Next]_vars => [Current]_(A!vars)
  BY <1>1, <1>2, BothInvStep
<1> QED
  BY <1>3, BothInvHolds, BothPublishHolds, PTL
  DEF Spec, StatusFromCurrentSpec, A!StatusFromCurrentSpec

-----------------------------------------------------------------------------
(* What two managers miss together                                         *)

(***************************************************************************)
(* Where both managers have come to rest, the status was written by one of *)
(* them, from the organizations as that one has them cached now.           *)
(***************************************************************************)
StatusIsFresh ==
  \A d \in A!Deployments :
    /\ PA!Quiet(d) /\ pcA[d] = "idle"
    /\ PB!Quiet(d) /\ pcB[d] = "idle"
    => \/ PA!MadeFromCache(d, store[d].status.register, store[d].spec)
       \/ PB!MadeFromCache(d, store[d].status.register, store[d].spec)

BothWakeInv == PA!ResultIsFresh /\ PB!ResultIsFresh /\ StatusIsFresh

BothKeepEvents == PA!KeepsEvents /\ PB!KeepsEvents

\* No deployment exists at first.
LEMMA BothWakeInit == Init => BothWakeInv
<1>1. Init => PA!Init /\ PB!Init
  BY SameInitA, SameInitB DEF Init
<1>2. Init => StatusIsFresh
  <2> SUFFICES ASSUME Init, NEW d \in A!Deployments PROVE ~ PA!Quiet(d)
    BY DEF StatusIsFresh
  <2> QED
    BY <1>1, SameKeys DEF PA!Init, PA!Quiet, PA!Gone, PA!Present, PA!Keys
<1> QED
  BY <1>1, <1>2, AssumptionsA, AssumptionsB, PA!WakeInvInit, PB!WakeInvInit
  DEF BothWakeInv, PA!WakeInv, PB!WakeInv

\* A step of A either leaves what is stored for d alone, or writes what A made
\* from its cache; what B has cached stays.
LEMMA WakeStepOfA ==
  ASSUME NEW ns, Namespaces = {ns}, BothInv, BothInv', BothWakeInv, StepA, [PA!KeepsEvents]_(PA!vars)
  PROVE  BothWakeInv'
<1>1. PA!ResultIsFresh'
  BY AssumptionsA, PA!WakeInvStep DEF BothInv, PA!ManagerInv, BothWakeInv, StepA
<1>2. PB!ResultIsFresh'
  BY AssumptionsB, PB!ElsewhereFresh DEF BothInv, PB!ManagerInv, BothWakeInv, StepA
<1>3. StatusIsFresh'
  <2> SUFFICES ASSUME NEW d \in A!Deployments,
                      PA!Quiet(d)', pcA'[d] = "idle", PB!Quiet(d)', pcB'[d] = "idle"
               PROVE  \/ PA!MadeFromCache(d, store[d].status.register, store[d].spec)'
                      \/ PB!MadeFromCache(d, store[d].status.register, store[d].spec)'
    BY SameKeys DEF StatusIsFresh
  <2>1. d \in PA!Deployments /\ d \in PB!Deployments
    BY SameKeys
  <2>2. PA!Fresh(d)
    BY <2>1, AssumptionsA, PA!FreshStep DEF BothInv, PA!ManagerInv, BothWakeInv, StepA
  <2>3. PB!Quiet(d)
    BY <2>1, AssumptionsB, PB!ElsewhereQuiet DEF BothInv, PB!ManagerInv, StepA
  <2>4. pcB[d] = "idle"
    BY DEF StepA, PB!Elsewhere, PB!workVars
  <2>5. CASE PA!Stays(d)
    <3>1. PA!Quiet(d) /\ pcA[d] = "idle" /\ store'[d] = store[d]
      BY <2>5 DEF PA!Stays
    <3>2. PB!Stays(d)
      BY <2>1, <2>3, <2>4, <3>1, AssumptionsB, PB!ElsewhereStays DEF StepA
    <3>3. \/ PA!MadeFromCache(d, store[d].status.register, store[d].spec)
          \/ PB!MadeFromCache(d, store[d].status.register, store[d].spec)
      BY <2>3, <2>4, <3>1 DEF BothWakeInv, StatusIsFresh
    <3> QED
      BY <2>5, <3>2, <3>3, AssumptionsA, AssumptionsB, PA!StaysFresh, PB!StaysFresh
  <2> QED
    BY <2>2, <2>5 DEF PA!Fresh
<1> QED
  BY <1>1, <1>2, <1>3 DEF BothWakeInv

\* The same for a step of B.
LEMMA WakeStepOfB ==
  ASSUME NEW ns, Namespaces = {ns}, BothInv, BothInv', BothWakeInv, StepB, [PB!KeepsEvents]_(PB!vars)
  PROVE  BothWakeInv'
<1>1. PB!ResultIsFresh'
  BY AssumptionsB, PB!WakeInvStep DEF BothInv, PB!ManagerInv, BothWakeInv, StepB
<1>2. PA!ResultIsFresh'
  BY AssumptionsA, PA!ElsewhereFresh DEF BothInv, PA!ManagerInv, BothWakeInv, StepB
<1>3. StatusIsFresh'
  <2> SUFFICES ASSUME NEW d \in A!Deployments,
                      PB!Quiet(d)', pcB'[d] = "idle", PA!Quiet(d)', pcA'[d] = "idle"
               PROVE  \/ PB!MadeFromCache(d, store[d].status.register, store[d].spec)'
                      \/ PA!MadeFromCache(d, store[d].status.register, store[d].spec)'
    BY SameKeys DEF StatusIsFresh
  <2>1. d \in PB!Deployments /\ d \in PA!Deployments
    BY SameKeys
  <2>2. PB!Fresh(d)
    BY <2>1, AssumptionsB, PB!FreshStep DEF BothInv, PB!ManagerInv, BothWakeInv, StepB
  <2>3. PA!Quiet(d)
    BY <2>1, AssumptionsA, PA!ElsewhereQuiet DEF BothInv, PA!ManagerInv, StepB
  <2>4. pcA[d] = "idle"
    BY DEF StepB, PA!Elsewhere, PA!workVars
  <2>5. CASE PB!Stays(d)
    <3>1. PB!Quiet(d) /\ pcB[d] = "idle" /\ store'[d] = store[d]
      BY <2>5 DEF PB!Stays
    <3>2. PA!Stays(d)
      BY <2>1, <2>3, <2>4, <3>1, AssumptionsA, PA!ElsewhereStays DEF StepB
    <3>3. \/ PB!MadeFromCache(d, store[d].status.register, store[d].spec)
          \/ PA!MadeFromCache(d, store[d].status.register, store[d].spec)
      BY <2>3, <2>4, <3>1 DEF BothWakeInv, StatusIsFresh
    <3> QED
      BY <2>5, <3>2, <3>3, AssumptionsB, AssumptionsA, PB!StaysFresh, PA!StaysFresh
  <2> QED
    BY <2>2, <2>5 DEF PB!Fresh
<1> QED
  BY <1>1, <1>2, <1>3 DEF BothWakeInv

\* What is settled for A is settled.
LEMMA SameSettled ==
  \A d, register :
    /\ PA!RegisterSettles(d, register) => A!RegisterSettles(d, register)
    /\ PB!RegisterSettles(d, register) => A!RegisterSettles(d, register)
<1>1. \A d, register : PA!RegisterSettles(d, register) => A!RegisterSettles(d, register)
  BY Zenon DEF
    A!RegisterSettles, PA!RegisterSettles, A!Owners, PA!Owners, A!NoRegister, PA!NoRegister,
    A!GetDeploymentRegister, PA!GetDeploymentRegister, A!Organizations, PA!Organizations,
    A!Present, PA!Present, A!GetOrganizationName, PA!GetOrganizationName, A!Empty, PA!Empty
<1>2. \A d, register : PB!RegisterSettles(d, register) => A!RegisterSettles(d, register)
  BY Zenon DEF
    A!RegisterSettles, PB!RegisterSettles, A!Owners, PB!Owners, A!NoRegister, PB!NoRegister,
    A!GetDeploymentRegister, PB!GetDeploymentRegister, A!Organizations, PB!Organizations,
    A!Present, PB!Present, A!GetOrganizationName, PB!GetOrganizationName, A!Empty, PB!Empty
<1> QED
  BY <1>1, <1>2

\* A deployment quiet for both managers is fresh to the one that wrote last.
LEMMA BothWake ==
  ASSUME BothInv, BothWakeInv
  PROVE  NoLostWakeup
<1> SUFFICES ASSUME NEW d \in A!Deployments, A!Present(store[d]),
                    ~ A!Pending(d), ~ B!Pending(d),
                    \A o \in A!Organizations :
                      o.name = GetOrganizationName(d.name)
                      => /\ o \notin orgEventsA \cup orgEventsB
                         /\ ~ A!PassesFilter(cacheA[o], store[o])
                         /\ ~ B!PassesFilter(cacheB[o], store[o])
             PROVE  A!RegisterSettles(d, store[d].status.register)
  BY DEF NoLostWakeup
<1>1. /\ PA!GetOrganizationName(d.name) = GetOrganizationName(d.name)
      /\ PB!GetOrganizationName(d.name) = GetOrganizationName(d.name)
  BY DEF GetOrganizationName, PA!GetOrganizationName, PB!GetOrganizationName,
    Empty, PA!Empty, PB!Empty
<1>2. /\ PA!Quiet(d) /\ pcA[d] = "idle"
      /\ \A o \in PA!Relevant(d) : ~ PA!PassesFilter(cacheA[o], store[o])
  BY <1>1, SameKeys DEF A!Pending, A!PassesFilter, A!Present, PA!Quiet, PA!Relevant,
    PA!PassesFilter, PA!Present
<1>3. /\ PB!Quiet(d) /\ pcB[d] = "idle"
      /\ \A o \in PB!Relevant(d) : ~ PB!PassesFilter(cacheB[o], store[o])
  BY <1>1, SameKeys DEF B!Pending, B!PassesFilter, A!Present, PB!Quiet, PB!Relevant,
    PB!PassesFilter, PB!Present
<1>4. CASE PA!MadeFromCache(d, store[d].status.register, store[d].spec)
  BY <1>2, <1>4, SameKeys, SameSettled, AssumptionsA, PA!CaughtUp DEF BothInv, PA!ManagerInv
<1>5. CASE PB!MadeFromCache(d, store[d].status.register, store[d].spec)
  BY <1>3, <1>5, SameKeys, SameSettled, AssumptionsB, PB!CaughtUp DEF BothInv, PB!ManagerInv
<1> QED
  BY <1>2, <1>3, <1>4, <1>5 DEF BothWakeInv, StatusIsFresh

\* In one namespace two managers together miss no change, though one of them may
\* overwrite what the other one made from a newer copy of the organization.
THEOREM WatchIsEnoughForBoth ==
  ASSUME NEW ns, Namespaces = {ns}
  PROVE  Spec /\ [][BothKeepEvents]_vars => []NoLostWakeup
<1>1. ASSUME BothInv, BothWakeInv, [Next]_vars, [BothKeepEvents]_vars
      PROVE  BothWakeInv'
  <2>1. BothInv' /\ (StepA \/ StepB)
    BY <1>1, BothInvStep
  <2>2. [PA!KeepsEvents]_(PA!vars) /\ [PB!KeepsEvents]_(PB!vars)
    BY <1>1 DEF BothKeepEvents, vars, localA, localB, PA!vars, PA!queueVars, PA!workVars,
      PB!vars, PB!queueVars, PB!workVars
  <2> QED
    BY <1>1, <2>1, <2>2, WakeStepOfA, WakeStepOfB
<1>2. BothInv /\ BothWakeInv => NoLostWakeup
  BY BothWake
<1>3. BothInv /\ BothWakeInv /\ [Next]_vars /\ [BothKeepEvents]_vars => BothWakeInv'
  BY <1>1
<1> QED
  BY <1>2, <1>3, BothWakeInit, BothInvHolds, PTL DEF Spec
-----------------------------------------------------------------------------
(* What two managers leave alone                                           *)

\* What a status has to be is the same for all.
LEMMA SameSettles ==
  \A k, status :
    /\ PA!Settles(k, status) <=> A!Settles(k, status)
    /\ PB!Settles(k, status) <=> B!Settles(k, status)
    /\ PB!Settles(k, status) <=> PA!Settles(k, status)
<1>1. \A k, status : PA!Settles(k, status) <=> A!Settles(k, status)
  BY Zenon DEF
    A!Settles, PA!Settles, A!RegisterSettles, PA!RegisterSettles, A!Owners, PA!Owners,
    A!NoRegister, PA!NoRegister, A!GetDeploymentRegister, PA!GetDeploymentRegister,
    A!Organizations, PA!Organizations, A!Deployments, PA!Deployments, A!Present, PA!Present,
    A!GetOrganizationName, PA!GetOrganizationName, A!Empty, PA!Empty, A!Reflects, PA!Reflects,
    A!OrganizationReflects, PA!OrganizationReflects, A!DeploymentReflects,
    PA!DeploymentReflects, A!Defaulted, PA!Defaulted, A!GetAddressAllocationStrategy,
    PA!GetAddressAllocationStrategy, A!Blank, PA!Blank, A!Nil, PA!Nil
<1>2. \A k, status : PB!Settles(k, status) <=> B!Settles(k, status)
  BY Zenon DEF
    B!Settles, PB!Settles, B!RegisterSettles, PB!RegisterSettles, B!Owners, PB!Owners,
    B!NoRegister, PB!NoRegister, B!GetDeploymentRegister, PB!GetDeploymentRegister,
    B!Organizations, PB!Organizations, B!Deployments, PB!Deployments, B!Present, PB!Present,
    B!GetOrganizationName, PB!GetOrganizationName, B!Empty, PB!Empty, B!Reflects, PB!Reflects,
    B!OrganizationReflects, PB!OrganizationReflects, B!DeploymentReflects,
    PB!DeploymentReflects, B!Defaulted, PB!Defaulted, B!GetAddressAllocationStrategy,
    PB!GetAddressAllocationStrategy, B!Blank, PB!Blank, B!Nil, PB!Nil
<1>3. \A k, status : PB!Settles(k, status) <=> PA!Settles(k, status)
  BY Zenon DEF
    PA!Settles, PB!Settles, PA!RegisterSettles, PB!RegisterSettles, PA!Owners, PB!Owners,
    PA!NoRegister, PB!NoRegister, PA!GetDeploymentRegister, PB!GetDeploymentRegister,
    PA!Organizations, PB!Organizations, PA!Deployments, PB!Deployments, PA!Present, PB!Present,
    PA!GetOrganizationName, PB!GetOrganizationName, PA!Empty, PB!Empty, PA!Reflects,
    PB!Reflects, PA!OrganizationReflects, PB!OrganizationReflects, PA!DeploymentReflects,
    PB!DeploymentReflects, PA!Defaulted, PB!Defaulted, PA!GetAddressAllocationStrategy,
    PB!GetAddressAllocationStrategy, PA!Blank, PB!Blank, PA!Nil, PB!Nil
<1> QED
  BY <1>1, <1>2, <1>3

\* So both say the same of an object at rest.
LEMMA SameRest ==
  \A k :
    /\ PA!AtRest(k) <=> A!AtRest(k)
    /\ PB!AtRest(k) <=> B!AtRest(k)
    /\ PB!Settled(k) <=> PA!Settled(k)
<1>1. \A k : PA!AtRest(k) <=> A!AtRest(k)
  BY SameSettles, Zenon DEF
    A!AtRest, PA!AtRest, A!Settled, PA!Settled, A!Persisted, PA!Persisted, A!Defaulted,
    PA!Defaulted, A!Blank, PA!Blank, A!Nil, PA!Nil, A!Organizations, PA!Organizations,
    A!Deployments, PA!Deployments, A!GetOrganizationName, PA!GetOrganizationName, A!Empty,
    PA!Empty, A!PassesFilter, PA!PassesFilter
<1>2. \A k : PB!AtRest(k) <=> B!AtRest(k)
  BY SameSettles, Zenon DEF
    B!AtRest, PB!AtRest, B!Settled, PB!Settled, B!Persisted, PB!Persisted, B!Defaulted,
    PB!Defaulted, B!Blank, PB!Blank, B!Nil, PB!Nil, B!Organizations, PB!Organizations,
    B!Deployments, PB!Deployments, B!GetOrganizationName, PB!GetOrganizationName, B!Empty,
    PB!Empty, B!PassesFilter, PB!PassesFilter
<1>3. \A k : PB!Settled(k) <=> PA!Settled(k)
  BY SameSettles, Zenon DEF PA!Settled, PB!Settled
<1> QED
  BY <1>1, <1>2, <1>3

\* And of the state a step leads to.
LEMMA SameRestNext ==
  (\A k : /\ PA!AtRest(k) <=> A!AtRest(k)
          /\ PB!AtRest(k) <=> B!AtRest(k)
          /\ PB!Settled(k) <=> PA!Settled(k))'
  BY SameRest, PTL

BothAtRest(k) == A!AtRest(k) /\ B!AtRest(k)

Untouched(k) == \A j \in A!Organizations \cup {k} : ~ A!PassesFilter(store[j], store'[j])

\* A step of A leaves the object at rest for A, and so right; B has not moved.
LEMMA RestStepOfA ==
  ASSUME Reconciler = "deployment2", BothInv, BothInv', BothPublishInv', StepA,
         faults' = faults, NEW k \in A!Keys, BothAtRest(k), Untouched(k)
  PROVE  BothAtRest(k)'
<1>1. /\ k \in PA!Keys /\ k \in PB!Keys
      /\ PA!AtRest(k) /\ PB!AtRest(k)
      /\ \A j \in PA!Organizations \cup {k} : ~ PA!PassesFilter(store[j], store'[j])
      /\ \A j \in PB!Organizations \cup {k} : ~ PB!PassesFilter(store[j], store'[j])
  BY SameKeys, SameRest
  DEF BothAtRest, Untouched, A!PassesFilter, PA!PassesFilter, PB!PassesFilter
<1>2. PA!AtRest(k)'
  BY <1>1, AssumptionsA, PA!StaysAtRest
  DEF BothInv, PA!ManagerInv, BothPublishInv, PA!PublisherInv, StepA
<1>3. PB!Settled(k)'
  BY <1>2, SameRestNext DEF PA!AtRest
<1>4. PB!AtRest(k)'
  BY <1>1, <1>3, AssumptionsB, PB!ElsewhereRests DEF BothInv, PB!ManagerInv, StepA
<1> QED
  BY <1>2, <1>4, SameRestNext DEF BothAtRest

\* The same for a step of B.
LEMMA RestStepOfB ==
  ASSUME Reconciler = "deployment2", BothInv, BothInv', BothPublishInv', StepB,
         faults' = faults, NEW k \in A!Keys, BothAtRest(k), Untouched(k)
  PROVE  BothAtRest(k)'
<1>1. /\ k \in PB!Keys /\ k \in PA!Keys
      /\ PB!AtRest(k) /\ PA!AtRest(k)
      /\ \A j \in PB!Organizations \cup {k} : ~ PB!PassesFilter(store[j], store'[j])
      /\ \A j \in PA!Organizations \cup {k} : ~ PA!PassesFilter(store[j], store'[j])
  BY SameKeys, SameRest
  DEF BothAtRest, Untouched, A!PassesFilter, PA!PassesFilter, PB!PassesFilter
<1>2. PB!AtRest(k)'
  BY <1>1, AssumptionsB, PB!StaysAtRest
  DEF BothInv, PB!ManagerInv, BothPublishInv, PB!PublisherInv, StepB
<1>3. PA!Settled(k)'
  BY <1>2, SameRestNext DEF PB!AtRest
<1>4. PA!AtRest(k)'
  BY <1>1, <1>3, AssumptionsA, PA!ElsewhereRests DEF BothInv, PA!ManagerInv, StepB
<1> QED
  BY <1>2, <1>4, SameRestNext DEF BothAtRest

\* With deployment2, a status that is right stays right with both managers at
\* work, until a user changes the object or an organization, or a fault happens.
THEOREM RightIsLastingToBoth ==
  ASSUME Reconciler = "deployment2" PROVE Spec => RightStaysRight
<1> DEFINE Lasting ==
      \A k \in A!Keys :
        /\ A!AtRest(k) /\ B!AtRest(k)
        /\ faults' = faults
        /\ \A j \in A!Organizations \cup {k} : ~ A!PassesFilter(store[j], store'[j])
        => A!AtRest(k)' /\ B!AtRest(k)'
<1>1. ASSUME BothInv, BothInv', BothPublishInv', StepA PROVE Lasting
  BY <1>1, RestStepOfA DEF BothAtRest, Untouched
<1>2. ASSUME BothInv, BothInv', BothPublishInv', StepB PROVE Lasting
  BY <1>2, RestStepOfB DEF BothAtRest, Untouched
<1> HIDE DEF Lasting
<1>3. BothInv /\ BothPublishInv' /\ [Next]_vars => [Lasting]_vars
  BY <1>1, <1>2, BothInvStep
<1>4. Spec => [][Lasting]_vars
  BY <1>3, BothInvHolds, BothPublishHolds, PTL DEF Spec
<1> QED
  BY <1>4 DEF RightStaysRight, Lasting
=============================================================================
