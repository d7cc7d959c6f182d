-------------------------- MODULE OrgIntentProofs --------------------------
(***************************************************************************)
(* Proofs about OrgIntent, for every set of names, namespaces and specs    *)
(* and every bound on edits and faults.                                    *)
(***************************************************************************)
EXTENDS OrgIntent, TLAPS

-----------------------------------------------------------------------------
(* Types of the values the program computes                                *)

\* The empty register map is a register map.
LEMMA NoRegisterType == NoRegister \in RegisterMaps
  BY DEF NoRegister, RegisterMaps

\* Merging two register maps gives a register map.
LEMMA DeploymentRegisterType ==
  ASSUME NEW orgRegister \in RegisterMaps, NEW depRegister \in RegisterMaps
  PROVE  GetDeploymentRegister(orgRegister, depRegister) \in RegisterMaps
<1>1. PICK S \in SUBSET Kinds : orgRegister \in [S -> RegisterNames]
  BY DEF RegisterMaps
<1>2. PICK T \in SUBSET Kinds : depRegister \in [T -> RegisterNames]
  BY DEF RegisterMaps
<1>3. GetDeploymentRegister(orgRegister, depRegister) \in [S \cup T -> RegisterNames]
  BY <1>1, <1>2 DEF GetDeploymentRegister
<1> QED
  BY <1>3 DEF RegisterMaps

\* The constants NilSpec, NoStatus and every tombstone are well typed.
LEMMA EmptyTypes ==
  /\ NilSpec \in ObjectSpec
  /\ NoStatus \in ObjectStatus
  /\ \A gen \in Nat : Gone(gen) \in Object
<1>1. NilSpec \in ObjectSpec
  BY NoRegisterType DEF NilSpec, ObjectSpec
<1>2. NoStatus \in ObjectStatus
  BY NoRegisterType DEF NoStatus, ObjectStatus
<1> QED
  BY <1>1, <1>2 DEF Gone, Object

\* The strategy an object's status gets is one its type allows.
LEMMA StrategyTypes ==
  /\ \A given \in Strategies \cup {Nil} :
       GetAddressAllocationStrategy(given) \in Strategies \cup {Blank}
  /\ \A org, dep \in Strategies \cup {Blank} :
       GetDeploymentStrategy(org, dep) \in Strategies \cup {Blank}
  /\ \A strategy \in Strategies \cup {Nil, Blank} :
       Defaulted(strategy) \in Strategies \cup {Nil, Blank}
  BY StrategyAssumption
  DEF GetAddressAllocationStrategy, GetDeploymentStrategy, Defaulted, Nil, Blank

\* InitializeResource, SetConditions and Persisted keep statuses well typed.
LEMMA StatusTypes ==
  ASSUME NEW status \in ObjectStatus
  PROVE  /\ InitializeResource(status) \in ObjectStatus
         /\ \A ready \in {"True", "False"} : SetConditions(status, ready) \in ObjectStatus
         /\ Persisted(status) \in ObjectStatus
<1>1. InitializeResource(status) \in ObjectStatus
  BY NoRegisterType DEF InitializeResource, ObjectStatus
<1>2. \A ready \in {"True", "False"} : SetConditions(status, ready) \in ObjectStatus
  BY DEF SetConditions, ObjectStatus
<1>3. Persisted(status) \in ObjectStatus
  BY StrategyTypes DEF Persisted, ObjectStatus
<1> QED
  BY <1>1, <1>2, <1>3

\* The application logic of the organization controller keeps them so.
LEMMA OrganizationLogicType ==
  ASSUME NEW status \in ObjectStatus, NEW spec \in ObjectSpec
  PROVE  OrganizationLogic(status, spec) \in ObjectStatus
  BY StrategyTypes DEF OrganizationLogic, ObjectStatus, ObjectSpec

\* The application logic of the deployment controllers keeps them so.
LEMMA DeploymentLogicType ==
  ASSUME NEW status \in ObjectStatus, NEW spec \in ObjectSpec, NEW org \in ObjectSpec
  PROVE  /\ OrganizationNotFound(status) \in ObjectStatus
         /\ DeploymentLogic(Reconciler, status, spec, org) \in ObjectStatus
<1>1. GetDeploymentRegister(org.register, spec.register) \in RegisterMaps
  BY DeploymentRegisterType DEF ObjectSpec
<1>2. GetDeploymentStrategy(GetAddressAllocationStrategy(org.strategy),
                            GetAddressAllocationStrategy(spec.strategy))
        \in Strategies \cup {Nil, Blank}
  BY StrategyTypes DEF ObjectSpec
<1>3. /\ OrganizationNotFound(status) \in ObjectStatus
      /\ AdminStateDisabled(status) \in ObjectStatus
  BY NoRegisterType DEF OrganizationNotFound, AdminStateDisabled, ObjectStatus
<1>4. Deployment2Enabled(status, spec, org) \in ObjectStatus
  BY <1>1, <1>2 DEF Deployment2Enabled, ObjectStatus
<1>5. DeploymentEnabled(status, spec, org) \in ObjectStatus
  BY <1>1 DEF DeploymentEnabled, ObjectStatus
<1> QED
  BY <1>3, <1>4, <1>5 DEF DeploymentLogic

-----------------------------------------------------------------------------
(* Type correctness                                                        *)

\* Objects stay objects when a user, a finalizer or a status write changes them.
LEMMA ObjectTypes ==
  ASSUME NEW object \in Object
  PROVE  /\ WithFinalizer(object) \in Object
         /\ Gone(object.gen + 1) \in Object
         /\ \A status \in ObjectStatus :
              [object EXCEPT !.status = Persisted(status)] \in Object
         /\ \A spec \in ObjectSpec :
              [object EXCEPT !.gen = @ + 1, !.spec = spec] \in Object
         /\ [object EXCEPT !.gen = @ + 1, !.phase = "deleting"] \in Object
<1>1. Gone(object.gen + 1) \in Object
  BY EmptyTypes DEF Object
<1>2. \A status \in ObjectStatus : [object EXCEPT !.status = Persisted(status)] \in Object
  BY StatusTypes DEF Object
<1>3. WithFinalizer(object) \in Object
  BY DEF WithFinalizer, Object
<1>4. object.gen + 1 \in Nat
  BY DEF Object
<1>5. \A spec \in ObjectSpec : [object EXCEPT !.gen = @ + 1, !.spec = spec] \in Object
  <2> SUFFICES ASSUME NEW spec \in ObjectSpec, NEW gen \in Nat
               PROVE  [object EXCEPT !.gen = gen, !.spec = spec] \in Object
    BY <1>4
  <2> QED
    BY DEF Object
<1>6. [object EXCEPT !.gen = @ + 1, !.phase = "deleting"] \in Object
  <2> SUFFICES ASSUME NEW gen \in Nat
               PROVE  [object EXCEPT !.gen = gen, !.phase = "deleting"] \in Object
    BY <1>4
  <2> QED
    BY DEF Object
<1> QED
  BY <1>1, <1>2, <1>3, <1>5, <1>6

\* The specs users ask for are specs.
LEMMA SpecsOfType == \A k \in Keys : Specs[k] \subseteq ObjectSpec
  BY SpecsAssumption

\* The initial state is well typed.
LEMMA TypeInit == Init => TypeOK
<1> SUFFICES ASSUME Init PROVE TypeOK
  OBVIOUS
<1>1. Gone(0) \in Object /\ NoStatus \in ObjectStatus
  BY EmptyTypes
<1> QED
  BY <1>1, BoundsAssumption DEF Init, TypeOK

\* Every action of a user keeps the state well typed.
LEMMA TypeUser ==
  ASSUME TypeOK, NEW k \in Keys, User(k)
  PROVE  TypeOK'
<1>1. \A object \in Object : UserChange(k, object) => TypeOK'
  BY DEF UserChange, queueVars, workVars, TypeOK
<1>2. store[k] \in Object /\ store[k].gen \in Nat
  BY DEF TypeOK, Object
<1>3. CASE Create(k)
  <2>1. PICK spec \in Specs[k] :
          UserChange(k, [phase |-> "bare", gen |-> store[k].gen + 1,
                         spec |-> spec, status |-> NoStatus])
    BY <1>3 DEF Create
  <2>2. [phase |-> "bare", gen |-> store[k].gen + 1, spec |-> spec, status |-> NoStatus]
          \in Object
    BY <1>2, SpecsOfType, EmptyTypes DEF Object
  <2> QED
    BY <1>1, <2>1, <2>2
<1>4. CASE Edit(k)
  <2>1. PICK spec \in Specs[k] :
          UserChange(k, [store[k] EXCEPT !.gen = @ + 1, !.spec = spec])
    BY <1>4 DEF Edit
  <2> QED
    BY <1>1, <1>2, <2>1, SpecsOfType, ObjectTypes
<1>5. CASE Delete(k)
  BY <1>1, <1>2, <1>5, ObjectTypes DEF Delete
<1> QED
  BY <1>3, <1>4, <1>5 DEF User

\* So does every step of the informers, the event handler and the timers.
LEMMA TypeEvents ==
  ASSUME TypeOK, NEW k \in Keys,
         \/ Sync(k) \/ TimerFires(k)
         \/ k \in Organizations /\ OrgEvent(k)
  PROVE  TypeOK'
<1>1. CASE Sync(k)
  BY <1>1 DEF Sync, workVars, TypeOK
<1>2. CASE TimerFires(k)
  BY <1>2 DEF TimerFires, workVars, TypeOK
<1>3. CASE k \in Organizations /\ HandleOrgEvent(k)
  <2>1. RequestsOf(k) \subseteq Keys /\ DeploymentsOf(k) \subseteq Keys
    BY <1>3 DEF RequestsOf, RequestFor, DeploymentsOf, Organizations, Deployments, Keys
  <2> QED
    BY <1>3, <2>1 DEF HandleOrgEvent, workVars, TypeOK
<1>4. CASE k \in Organizations /\ LoseOrgEvent(k)
  BY <1>4, BoundsAssumption DEF LoseOrgEvent, Fault, queueVars, workVars, TypeOK
<1> QED
  BY <1>1, <1>2, <1>3, <1>4 DEF OrgEvent

\* So does a worker that takes a request.
LEMMA TypeBegin ==
  ASSUME TypeOK, NEW k \in Keys, Begin(k)
  PROVE  TypeOK'
<1>1. CASE StartNotFound(k)
  BY <1>1 DEF StartNotFound, Take, workVars, TypeOK
<1>2. CASE StartFails(k)
  BY <1>2, BoundsAssumption DEF StartFails, Take, Fault, workVars, TypeOK
<1>3. CASE Start(k)
  <2>1. cache[k] \in Object /\ cache[k].status \in ObjectStatus
    BY DEF TypeOK, Object
  <2> QED
    BY <1>3, <2>1 DEF Start, Take, StepTo, TypeOK
<1> QED
  BY <1>1, <1>2, <1>3 DEF Begin

\* So does a worker that makes its next step.
LEMMA TypeWork ==
  ASSUME TypeOK, NEW k \in Keys, Work(k)
  PROVE  TypeOK'
<1> DEFINE Pcs == {"idle", "remove", "add", "logic", "ok", "fail"}
<1>1. /\ store[k] \in Object
      /\ base[k] \in Object
      /\ mem[k] \in ObjectStatus
      /\ Gone(0) \in Object
      /\ NoStatus \in ObjectStatus
  BY EmptyTypes DEF TypeOK
<1>2. ASSUME NEW next \in Pcs, NEW status \in ObjectStatus, StepTo(k, next, status)
      PROVE  pc' \in [Keys -> Pcs] /\ mem' \in [Keys -> ObjectStatus]
  BY <1>2 DEF StepTo, TypeOK
<1>3. ASSUME Finish(k)
      PROVE  /\ pc' \in [Keys -> Pcs]
             /\ base' \in [Keys -> Object]
             /\ mem' \in [Keys -> ObjectStatus]
  BY <1>1, <1>3 DEF Finish, TypeOK
<1>4. ASSUME Refused(k)
      PROVE  store' \in [Keys -> Object] /\ faults' \in 0 .. MaxFaults
  BY <1>4, BoundsAssumption DEF Refused, Fault, TypeOK
<1>5. ASSUME NEW object \in Object, AnswerLost(k, object)
      PROVE  store' \in [Keys -> Object] /\ faults' \in 0 .. MaxFaults
  BY <1>5, BoundsAssumption DEF AnswerLost, Fault, TypeOK
<1>6. CASE RemoveFinalizer(k)
  <2>1. store' \in [Keys -> Object]
    BY <1>1, <1>6, ObjectTypes DEF RemoveFinalizer, FinalDelete, TypeOK
  <2> QED
    BY <1>3, <1>6, <2>1 DEF RemoveFinalizer, FinalDelete, queueVars, TypeOK
<1>7. CASE RemoveFinalizerFails(k)
  <2>1. store' \in [Keys -> Object] /\ faults' \in 0 .. MaxFaults
    <3>1. CASE Refused(k)
      BY <1>4, <3>1
    <3>2. CASE Fault /\ UNCHANGED store
      BY <3>2, BoundsAssumption DEF Fault, TypeOK
    <3>3. CASE AnswerLost(k, Gone(store[k].gen + 1))
      BY <1>1, <1>5, <3>3, ObjectTypes
    <3> QED
      BY <1>7, <3>1, <3>2, <3>3 DEF RemoveFinalizerFails
  <2>2. pc' \in [Keys -> Pcs] /\ mem' \in [Keys -> ObjectStatus]
    BY <1>1, <1>2, <1>7, StatusTypes DEF RemoveFinalizerFails
  <2> QED
    BY <1>7, <2>1, <2>2 DEF RemoveFinalizerFails, queueVars, TypeOK
<1>8. CASE AddFinalizer(k)
  <2>1. store' \in [Keys -> Object] /\ base' \in [Keys -> Object]
    BY <1>1, <1>8, ObjectTypes DEF AddFinalizer, TypeOK
  <2>2. pc' \in [Keys -> Pcs] /\ mem' \in [Keys -> ObjectStatus]
    BY <1>1, <1>2, <1>8 DEF AddFinalizer
  <2> QED
    BY <1>8, <2>1, <2>2 DEF AddFinalizer, queueVars, TypeOK
<1>9. CASE AddFinalizerFails(k)
  <2>1. store' \in [Keys -> Object] /\ faults' \in 0 .. MaxFaults
    BY <1>1, <1>4, <1>5, <1>9, ObjectTypes DEF AddFinalizerFails
  <2>2. pc' \in [Keys -> Pcs] /\ mem' \in [Keys -> ObjectStatus]
    BY <1>1, <1>2, <1>9, StatusTypes DEF AddFinalizerFails
  <2> QED
    BY <1>9, <2>1, <2>2 DEF AddFinalizerFails, queueVars, TypeOK
<1>10. CASE OrganizationAppLogic(k)
  <2>1. SetConditions(OrganizationLogic(InitializeResource(mem[k]), base[k].spec), "True")
          \in ObjectStatus
    BY <1>1, StatusTypes, OrganizationLogicType DEF Object
  <2>2. pc' \in [Keys -> Pcs] /\ mem' \in [Keys -> ObjectStatus]
    BY <1>2, <1>10, <2>1 DEF OrganizationAppLogic
  <2> QED
    BY <1>10, <2>2 DEF OrganizationAppLogic, queueVars, TypeOK
<1>11. CASE DeploymentAppLogic(k)
  <2> DEFINE status == InitializeResource(mem[k])
  <2>1. status \in ObjectStatus /\ base[k].spec \in ObjectSpec
    BY <1>1, StatusTypes DEF Object
  <2>2. SetConditions(OrganizationNotFound(status), "False") \in ObjectStatus
    BY <2>1, StatusTypes, DeploymentLogicType
  <2>3. \A o \in OrganizationsOf(k) :
          SetConditions(DeploymentLogic(Reconciler, status, base[k].spec, cache[o].spec), "True")
            \in ObjectStatus
    <3> SUFFICES ASSUME NEW o \in OrganizationsOf(k)
                 PROVE  SetConditions(
                          DeploymentLogic(Reconciler, status, base[k].spec, cache[o].spec), "True")
                          \in ObjectStatus
      OBVIOUS
    <3>1. cache[o].spec \in ObjectSpec
      BY DEF OrganizationsOf, Keys, TypeOK, Object
    <3>2. DeploymentLogic(Reconciler, status, base[k].spec, cache[o].spec) \in ObjectStatus
      BY <2>1, <3>1, DeploymentLogicType
    <3> QED
      BY <3>2, StatusTypes
  <2>4. pc' \in [Keys -> Pcs] /\ mem' \in [Keys -> ObjectStatus]
    BY <1>2, <1>11, <2>2, <2>3 DEF DeploymentAppLogic
  <2> QED
    BY <1>11, <2>4 DEF DeploymentAppLogic, queueVars, TypeOK
<1>12. CASE DeploymentListFails(k)
  <2>1. SetConditions(InitializeResource(mem[k]), "False") \in ObjectStatus
    BY <1>1, StatusTypes
  <2>2. pc' \in [Keys -> Pcs] /\ mem' \in [Keys -> ObjectStatus]
    BY <1>2, <1>12, <2>1 DEF DeploymentListFails
  <2> QED
    BY <1>12, <2>2, BoundsAssumption DEF DeploymentListFails, Fault, queueVars, TypeOK
<1>13. CASE UpdateStatus(k)
  <2>1. store' \in [Keys -> Object]
    BY <1>1, <1>13, ObjectTypes DEF UpdateStatus, TypeOK
  <2>2. delayed' \subseteq Keys
    BY <1>13 DEF UpdateStatus, TypeOK
  <2> QED
    BY <1>3, <1>13, <2>1, <2>2 DEF UpdateStatus, TypeOK
<1>14. CASE UpdateStatusFails(k)
  <2>1. store' \in [Keys -> Object] /\ faults' \in 0 .. MaxFaults
    BY <1>1, <1>4, <1>5, <1>14, ObjectTypes DEF UpdateStatusFails
  <2> QED
    BY <1>3, <1>14, <2>1 DEF UpdateStatusFails, TypeOK
<1>15. CASE Panic(k)
  BY <1>15, EmptyTypes DEF Panic, RestartManager, Keys, TypeOK
<1> QED
  BY <1>6, <1>7, <1>8, <1>9, <1>10, <1>11, <1>12, <1>13, <1>14, <1>15 DEF Work

\* So does a crash.
LEMMA TypeCrash == TypeOK /\ Crash => TypeOK'
  BY EmptyTypes, BoundsAssumption DEF Crash, Fault, RestartManager, Keys, TypeOK

\* Every step keeps the types, one action at a time.
LEMMA TypeStep == TypeOK /\ [Next]_vars => TypeOK'
<1> SUFFICES ASSUME TypeOK, [Next]_vars PROVE TypeOK'
  OBVIOUS
<1>1. CASE \E k \in UserKeys : User(k)
  BY <1>1, TypeUser, KeysAssumption
<1>2. CASE \E k \in Keys : Sync(k) \/ TimerFires(k) \/ Begin(k) \/ Work(k)
  BY <1>2, TypeEvents, TypeBegin, TypeWork
<1>3. CASE \E o \in Organizations : OrgEvent(o)
  BY <1>3, TypeEvents DEF Keys
<1>4. CASE Crash
  BY <1>4, TypeCrash
<1>5. CASE UNCHANGED vars
  BY <1>5 DEF vars, queueVars, workVars, TypeOK
<1> QED
  BY <1>1, <1>2, <1>3, <1>4, <1>5 DEF Next

\* Every variable has its type in every reachable state, whatever users do and
\* whatever fails.
THEOREM TypeCorrect == Spec => []TypeOK
  BY TypeInit, TypeStep, PTL DEF Spec

-----------------------------------------------------------------------------
(* No object is forgotten                                                  *)

(***************************************************************************)
(* NeverForgotten is not inductive: an edit is noticed only because the    *)
(* cache cannot already be at the generation the edit makes, and a request *)
(* may be dropped as "not found" only because a cache at the stored        *)
(* generation is right about whether the object exists.  The second fact   *)
(* survives a finalizer update only if the copy it is made from exists.    *)
(* Such a cache is right about the spec as well (used in OrgStatusProofs). *)
(***************************************************************************)
CacheBehind ==
  \A k \in Keys :
    /\ cache[k].gen <= store[k].gen
    /\ cache[k].gen = store[k].gen =>
         /\ Present(cache[k]) <=> Present(store[k])
         /\ cache[k].spec = store[k].spec

CopyExists == \A k \in Keys : pc[k] = "add" => Present(base[k])

GenInv == CacheBehind /\ CopyExists

\* An update of a copy that exists leaves an object of the same generation.
LEMMA WithFinalizerKeeps ==
  ASSUME NEW object \in Object, Present(object)
  PROVE  /\ WithFinalizer(object).gen = object.gen
         /\ WithFinalizer(object).spec = object.spec
         /\ Present(WithFinalizer(object))
  BY DEF WithFinalizer, Present, Object

\* Every step changes one stored object at most, and either makes its generation
\* greater or keeps generation, existence and spec.
Moves(old, new) ==
  \/ new.gen > old.gen
  \/ /\ new.gen = old.gen
     /\ Present(new) <=> Present(old)
     /\ new.spec = old.spec

\* Every change by a user makes the generation of its object greater by one.
LEMMA UserChangesGen ==
  ASSUME TypeOK, NEW k \in Keys, User(k)
  PROVE  \E object : UserChange(k, object) /\ object.gen = store[k].gen + 1
<1>1. store[k] \in Object
  BY DEF TypeOK
<1>2. CASE Create(k)
  BY <1>2 DEF Create
<1>3. CASE Edit(k)
  <2>1. PICK spec \in Specs[k] : UserChange(k, [store[k] EXCEPT !.gen = @ + 1, !.spec = spec])
    BY <1>3 DEF Edit
  <2>2. [store[k] EXCEPT !.gen = @ + 1, !.spec = spec].gen = store[k].gen + 1
    BY <1>1 DEF Object
  <2> QED
    BY <2>1, <2>2
<1>4. CASE Delete(k)
  <2>1. [store[k] EXCEPT !.gen = @ + 1, !.phase = "deleting"].gen = store[k].gen + 1
    BY <1>1 DEF Object
  <2>2. Gone(store[k].gen + 1).gen = store[k].gen + 1
    BY DEF Gone
  <2> QED
    BY <1>4, <2>1, <2>2 DEF Delete
<1> QED
  BY <1>2, <1>3, <1>4 DEF User

\* No step takes a generation back, or changes what matters without a new one.
LEMMA StoreMoves ==
  ASSUME TypeOK, CopyExists, [Next]_vars
  PROVE  \A k \in Keys : Moves(store[k], store'[k])
<1> DEFINE Goal == \A k \in Keys : Moves(store[k], store'[k])
<1>1. \A k \in Keys : store[k] \in Object /\ store[k].gen \in Nat
  BY DEF TypeOK, Object
<1>2. UNCHANGED store => Goal
  BY DEF Moves
<1>3. ASSUME NEW k \in Keys, NEW object, store' = [store EXCEPT ![k] = object],
             Moves(store[k], object)
      PROVE  Goal
  BY <1>3 DEF Moves, TypeOK
<1>4. \A object \in Object : Moves(object, Gone(object.gen + 1))
  BY DEF Moves, Gone, Object
<1>5. ASSUME NEW k \in Keys, NEW object, UserChange(k, object), object.gen = store[k].gen + 1
      PROVE  Goal
  <2>1. Moves(store[k], object)
    BY <1>1, <1>5 DEF Moves
  <2> QED
    BY <1>3, <1>5, <2>1 DEF UserChange
<1>6. ASSUME NEW k \in UserKeys, User(k) PROVE Goal
  BY <1>5, <1>6, UserChangesGen, KeysAssumption
<1>7. ASSUME NEW k \in Keys, RemoveFinalizer(k) \/ RemoveFinalizerFails(k) PROVE Goal
  BY <1>1, <1>2, <1>3, <1>4, <1>7
  DEF RemoveFinalizer, RemoveFinalizerFails, Refused, AnswerLost
<1>8. ASSUME NEW k \in Keys, AddFinalizer(k) \/ AddFinalizerFails(k) PROVE Goal
  <2>1. CanWrite(k) => Present(store[k])
    BY <1>8 DEF AddFinalizer, AddFinalizerFails, CanWrite, CopyExists
  <2>2. CanWrite(k) => Moves(store[k], WithFinalizer(store[k]))
    BY <1>1, <2>1, WithFinalizerKeeps DEF Moves
  <2>3. \/ UNCHANGED store
        \/ CanWrite(k) /\ store' = [store EXCEPT ![k] = WithFinalizer(store[k])]
    BY <1>8 DEF AddFinalizer, AddFinalizerFails, Refused, AnswerLost
  <2> QED
    BY <1>2, <1>3, <2>2, <2>3
<1>9. ASSUME NEW k \in Keys, UpdateStatus(k) \/ UpdateStatusFails(k) PROVE Goal
  <2>1. Moves(store[k], [store[k] EXCEPT !.status = Persisted(mem[k])])
    BY <1>1 DEF Moves, Present, Object
  <2>2. \/ UNCHANGED store
        \/ store' = [store EXCEPT ![k] = [store[k] EXCEPT !.status = Persisted(mem[k])]]
    BY <1>9 DEF UpdateStatus, UpdateStatusFails, Refused, AnswerLost, TypeOK
  <2> QED
    BY <1>2, <1>3, <2>1, <2>2
<1>10. ASSUME NEW k \in Keys, Sync(k) \/ TimerFires(k) \/ Begin(k) PROVE Goal
  BY <1>2, <1>10 DEF Sync, TimerFires, Begin, StartNotFound, Start, StartFails
<1>11. ASSUME NEW k \in Keys, Work(k) PROVE Goal
  BY <1>2, <1>7, <1>8, <1>9, <1>11
  DEF Work, OrganizationAppLogic, DeploymentAppLogic, DeploymentListFails, Panic, RestartManager
<1>12. CASE Crash \/ UNCHANGED vars \/ \E o \in Organizations : OrgEvent(o)
  BY <1>2, <1>12 DEF Crash, RestartManager, OrgEvent, HandleOrgEvent, LoseOrgEvent, vars
<1> QED
  BY <1>6, <1>10, <1>11, <1>12 DEF Next

Follows(k) ==
  \/ cache'[k] = cache[k]
  \/ cache'[k] = store[k] /\ store'[k] = store[k]

\* A cached object changes only by taking over the stored one.
LEMMA CacheMoves ==
  ASSUME TypeOK, [Next]_vars
  PROVE  \A k \in Keys : Follows(k)
<1> DEFINE Goal == \A k \in Keys : Follows(k)
<1>1. UNCHANGED cache \/ RestartManager => Goal
  BY DEF RestartManager, Follows
<1>2. ASSUME NEW k \in Keys, Sync(k) PROVE Goal
  BY <1>2 DEF Sync, Follows, TypeOK
<1>3. ASSUME NEW k, User(k) \/ TimerFires(k) \/ Begin(k) \/ OrgEvent(k) PROVE Goal
  BY <1>1, <1>3 DEF User, Create, Edit, Delete, UserChange, TimerFires, Begin, StartNotFound,
    Start, StartFails, OrgEvent, HandleOrgEvent, LoseOrgEvent
<1>4. ASSUME NEW k \in Keys, Work(k) PROVE Goal
  BY <1>1, <1>4 DEF Work, RemoveFinalizer, RemoveFinalizerFails, AddFinalizer,
    AddFinalizerFails, OrganizationAppLogic, DeploymentAppLogic, DeploymentListFails,
    UpdateStatus, UpdateStatusFails, Panic
<1>5. CASE Crash \/ UNCHANGED vars
  BY <1>1, <1>5 DEF Crash, vars
<1> QED
  BY <1>2, <1>3, <1>4, <1>5 DEF Next

\* GenInv holds in every reachable state.
LEMMA GenInvInit == Init => GenInv
  BY DEF Init, GenInv, CacheBehind, CopyExists, Gone, Present

\* Every step keeps copies behind the objects they are copies of.
LEMMA GenInvStep == TypeOK /\ GenInv /\ [Next]_vars => GenInv'
<1> SUFFICES ASSUME TypeOK, GenInv, [Next]_vars PROVE GenInv'
  OBVIOUS
<1>1. CacheBehind'
  <2> SUFFICES ASSUME NEW k \in Keys
               PROVE  /\ cache'[k].gen <= store'[k].gen
                      /\ cache'[k].gen = store'[k].gen =>
                           /\ Present(cache'[k]) <=> Present(store'[k])
                           /\ cache'[k].spec = store'[k].spec
    BY DEF CacheBehind
  <2>1. Moves(store[k], store'[k]) /\ Follows(k)
    BY StoreMoves, CacheMoves DEF GenInv
  <2>2. cache[k].gen \in Nat /\ store[k].gen \in Nat
    BY DEF TypeOK, Object
  <2>3. store'[k].gen \in Nat
    <3>1. TypeOK'
      BY TypeStep
    <3> QED
      BY <3>1 DEF TypeOK, Object
  <2> QED
    BY <2>1, <2>2, <2>3 DEF GenInv, CacheBehind, Moves, Follows
<1>2. CopyExists'
  <2>1. ASSUME NEW k \in Keys, Start(k) PROVE CopyExists'
    BY <2>1 DEF Start, StepTo, GenInv, CopyExists, TypeOK
  <2>2. ASSUME NEW k \in Keys, UNCHANGED base, NEW next \in {"logic", "ok", "fail"},
               NEW status, StepTo(k, next, status)
        PROVE  CopyExists'
    BY <2>2 DEF StepTo, GenInv, CopyExists, TypeOK
  <2>3. ASSUME NEW k \in Keys, Finish(k) PROVE CopyExists'
    BY <2>3 DEF Finish, GenInv, CopyExists, TypeOK
  <2>4. RestartManager \/ UNCHANGED << pc, base >> => CopyExists'
    BY DEF RestartManager, GenInv, CopyExists
  <2>5. ASSUME NEW k \in Keys, AddFinalizer(k) PROVE CopyExists'
    BY <2>5 DEF AddFinalizer, StepTo, GenInv, CopyExists, TypeOK
  <2>6. ASSUME NEW k \in Keys, Work(k) PROVE CopyExists'
    BY <2>2, <2>3, <2>4, <2>5, <2>6
    DEF Work, RemoveFinalizer, RemoveFinalizerFails, AddFinalizerFails, OrganizationAppLogic,
        DeploymentAppLogic, DeploymentListFails, UpdateStatus, UpdateStatusFails, Panic
  <2>7. ASSUME NEW k \in Keys, Sync(k) \/ TimerFires(k) \/ Begin(k) PROVE CopyExists'
    BY <2>1, <2>4, <2>7 DEF Sync, TimerFires, Begin, StartNotFound, StartFails, workVars
  <2>8. ASSUME NEW k, User(k) \/ OrgEvent(k) PROVE CopyExists'
    BY <2>4, <2>8 DEF User, Create, Edit, Delete, UserChange, OrgEvent, HandleOrgEvent,
      LoseOrgEvent, workVars
  <2>9. CASE Crash \/ UNCHANGED vars
    BY <2>4, <2>9 DEF Crash, vars, workVars
  <2> QED
    BY <2>6, <2>7, <2>8, <2>9 DEF Next
<1> QED
  BY <1>1, <1>2 DEF GenInv

\* Copies are behind the objects they are copies of, in every state.
LEMMA GenInvHolds == Spec => []GenInv
  BY GenInvInit, GenInvStep, TypeCorrect, PTL DEF Spec

\* No object exists at first.
LEMMA NeverForgottenInit == Init => NeverForgotten
  BY DEF Init, NeverForgotten, Gone, Present

\* A pass that leaves its object in the API server puts it where it will be
\* found again; no other step takes away the last reason to look at it.
LEMMA NeverForgottenStep ==
  ASSUME TypeOK, GenInv, NeverForgotten, [Next]_vars
  PROVE  NeverForgotten'
<1> SUFFICES ASSUME NEW j \in Keys, Polled(j), Present(store'[j])
             PROVE  Pending(j)'
  BY DEF NeverForgotten, Polled
<1>1. Present(store[j]) => Pending(j)
  BY DEF NeverForgotten
<1>2. /\ cache[j].gen \in Nat
      /\ store[j].gen \in Nat
      /\ cache[j].gen <= store[j].gen
      /\ cache[j].gen = store[j].gen => (Present(cache[j]) <=> Present(store[j]))
  BY DEF TypeOK, Object, GenInv, CacheBehind
<1>3. ASSUME NEW k \in Keys, NEW object, UserChange(k, object), object.gen = store[k].gen + 1
      PROVE  Pending(j)'
  BY <1>1, <1>2, <1>3
  DEF UserChange, Pending, PassesFilter, Present, queueVars, workVars, TypeOK
<1>4. ASSUME NEW k \in UserKeys, User(k) PROVE Pending(j)'
  <2>1. PICK object : UserChange(k, object) /\ object.gen = store[k].gen + 1
    BY <1>4, UserChangesGen, KeysAssumption DEF TypeOK
  <2> QED
    BY <1>3, <2>1, KeysAssumption
<1>5. ASSUME NEW k \in Keys, Sync(k) PROVE Pending(j)'
  BY <1>1, <1>2, <1>5 DEF Sync, Pending, PassesFilter, workVars, TypeOK
<1>6. ASSUME NEW k \in Keys, TimerFires(k) PROVE Pending(j)'
  BY <1>1, <1>6 DEF TimerFires, Pending, PassesFilter, workVars
<1>7. ASSUME NEW k \in Keys, Begin(k) PROVE Pending(j)'
  BY <1>1, <1>2, <1>7
  DEF Begin, StartNotFound, StartFails, Start, Take, StepTo, Pending, PassesFilter, workVars, TypeOK
<1>8. ASSUME NEW o \in Organizations, OrgEvent(o) PROVE Pending(j)'
  BY <1>1, <1>8
  DEF OrgEvent, HandleOrgEvent, LoseOrgEvent, Pending, PassesFilter, queueVars, workVars
<1>9. RestartManager => Pending(j)'
  BY DEF RestartManager, Pending, Keys
<1>10. ASSUME NEW k \in Keys, Work(k) PROVE Pending(j)'
  <2>1. ASSUME NEW next \in {"logic", "ok", "fail"}, NEW status, StepTo(k, next, status),
               UNCHANGED << cache, queueVars >>, store'[j] = store[j] \/ j = k
        PROVE  Pending(j)'
    BY <1>1, <2>1 DEF StepTo, Pending, PassesFilter, queueVars, TypeOK
  <2>2. CASE RemoveFinalizer(k)
    BY <1>1, <2>2 DEF RemoveFinalizer, Finish, Pending, PassesFilter, queueVars, Gone, Present, TypeOK
  <2>3. CASE \/ RemoveFinalizerFails(k) \/ AddFinalizer(k) \/ AddFinalizerFails(k)
             \/ OrganizationAppLogic(k) \/ DeploymentAppLogic(k) \/ DeploymentListFails(k)
    <3>1. store'[j] = store[j] \/ j = k
      BY <2>3 DEF RemoveFinalizerFails, AddFinalizer, AddFinalizerFails, OrganizationAppLogic,
        DeploymentAppLogic, DeploymentListFails, Refused, AnswerLost, TypeOK
    <3>2. \E next \in {"logic", "ok", "fail"} : \E status : StepTo(k, next, status)
      BY <2>3 DEF RemoveFinalizerFails, AddFinalizer, AddFinalizerFails, OrganizationAppLogic,
        DeploymentAppLogic, DeploymentListFails
    <3>3. UNCHANGED << cache, queueVars >>
      BY <2>3 DEF RemoveFinalizerFails, AddFinalizer, AddFinalizerFails, OrganizationAppLogic,
        DeploymentAppLogic, DeploymentListFails
    <3> QED
      BY <2>1, <3>1, <3>2, <3>3
  <2>4. CASE UpdateStatus(k) \/ UpdateStatusFails(k)
    <3>1. CASE j = k
      BY <2>4, <3>1 DEF UpdateStatus, UpdateStatusFails, Requeued, Polled, Pending
    <3>2. CASE j # k
      BY <1>1, <2>4, <3>2 DEF UpdateStatus, UpdateStatusFails, Refused, AnswerLost, Finish,
        Pending, PassesFilter, TypeOK
    <3> QED
      BY <3>1, <3>2
  <2>5. CASE Panic(k)
    BY <1>9, <2>5 DEF Panic
  <2> QED
    BY <1>10, <2>2, <2>3, <2>4, <2>5 DEF Work
<1>11. CASE Crash
  BY <1>9, <1>11 DEF Crash
<1>12. CASE UNCHANGED vars
  BY <1>1, <1>12 DEF vars, queueVars, workVars, Pending, PassesFilter
<1> QED
  BY <1>4, <1>5, <1>6, <1>7, <1>8, <1>10, <1>11, <1>12 DEF Next

\* Whatever fails, crashes, conflicts or is filtered out, every object that
\* exists and that its controller polls will be reconciled again.
THEOREM NothingForgotten == Spec => []NeverForgotten
<1>1. TypeOK /\ GenInv /\ NeverForgotten /\ [Next]_vars => NeverForgotten'
  BY NeverForgottenStep
<1> QED
  BY <1>1, NeverForgottenInit, TypeCorrect, GenInvHolds, PTL DEF Spec
=============================================================================
