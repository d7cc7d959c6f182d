-------------------------- MODULE OrgStatusProofs --------------------------
(***************************************************************************)
(* Proofs about the statuses OrgIntent publishes: whom they may call       *)
(* ready, which spec and which organization they come from, and that the   *)
(* watch misses no change of the latter.  Two lemmas classify the steps by *)
(* what they do to one stored object and to one worker; the properties of  *)
(* statuses then follow from invariants of the workers.  The last section  *)
(* states what a manager keeps when somebody else changes the objects.     *)
(***************************************************************************)
EXTENDS OrgIntentProofs

-----------------------------------------------------------------------------
(* What a step does to a stored object                                     *)

Protected(object) == object.phase \in {"held", "deleting"}

\* The stored object k stays, loses its status, keeps its status, or gets the
\* status of the worker, which read this very object.
StoreStep(k) ==
  \/ store'[k] = store[k]
  \/ store'[k].status = NoStatus
  \/ /\ store'[k].status = store[k].status
     /\ Protected(store[k]) => Protected(store'[k])
  \/ /\ pc[k] \in {"ok", "fail"}
     /\ base[k] = store[k]
     /\ store'[k] = [store[k] EXCEPT !.status = Persisted(mem[k])]

\* Each step is one of these for each stored object.
LEMMA StoreSteps ==
  ASSUME TypeOK, [Next]_vars
  PROVE  \A j \in Keys : StoreStep(j)
<1> SUFFICES ASSUME NEW j \in Keys PROVE StoreStep(j)
  OBVIOUS
<1>1. UNCHANGED store => StoreStep(j)
  BY DEF StoreStep
<1>2. store \in [Keys -> Object] /\ \A k \in Keys : store[k] \in Object
  BY DEF TypeOK
<1>3. \A gen : Gone(gen).status = NoStatus
  BY DEF Gone
<1>4. ASSUME NEW k \in Keys, NEW object, store' = [store EXCEPT ![k] = object],
             \/ object.status = NoStatus
             \/ /\ object.status = store[k].status
                /\ Protected(store[k]) => Protected(object)
      PROVE  StoreStep(j)
  BY <1>2, <1>4 DEF StoreStep
<1>5. ASSUME NEW k \in Keys, User(k) PROVE StoreStep(j)
  <2>1. CASE Create(k)
    BY <1>4, <2>1 DEF Create, UserChange
  <2>2. CASE Edit(k)
    <3>1. PICK spec : UserChange(k, [store[k] EXCEPT !.gen = @ + 1, !.spec = spec])
      BY <2>2 DEF Edit
    <3> DEFINE object == [store[k] EXCEPT !.gen = @ + 1, !.spec = spec]
    <3>2. object.status = store[k].status /\ object.phase = store[k].phase
      BY <1>2 DEF Object
    <3> QED
      BY <1>4, <3>1, <3>2 DEF UserChange, Protected
  <2>3. CASE Delete(k)
    <3> DEFINE object == [store[k] EXCEPT !.gen = @ + 1, !.phase = "deleting"]
    <3>1. object.status = store[k].status /\ object.phase = "deleting"
      BY <1>2 DEF Object
    <3>2. \/ store' = [store EXCEPT ![k] = Gone(store[k].gen + 1)]
          \/ store' = [store EXCEPT ![k] = object]
      BY <2>3 DEF Delete, UserChange
    <3> QED
      BY <1>3, <1>4, <3>1, <3>2 DEF Protected
  <2> QED
    BY <1>5, <2>1, <2>2, <2>3 DEF User
<1>6. ASSUME NEW k \in Keys, Work(k) PROVE StoreStep(j)
  <2>1. CASE RemoveFinalizer(k) \/ RemoveFinalizerFails(k)
    BY <1>1, <1>3, <1>4, <2>1 DEF RemoveFinalizer, RemoveFinalizerFails, Refused, AnswerLost
  <2>2. CASE AddFinalizer(k) \/ AddFinalizerFails(k)
    <3>1. /\ WithFinalizer(store[k]).status = store[k].status
          /\ WithFinalizer(store[k]).phase = "held"
      BY <1>2 DEF WithFinalizer, Object
    <3>2. \/ UNCHANGED store
          \/ store' = [store EXCEPT ![k] = WithFinalizer(store[k])]
      BY <2>2 DEF AddFinalizer, AddFinalizerFails, Refused, AnswerLost
    <3> QED
      BY <1>1, <1>4, <3>1, <3>2 DEF Protected
  <2>3. CASE UpdateStatus(k) \/ UpdateStatusFails(k)
    <3>1. \/ UNCHANGED store
          \/ /\ pc[k] \in {"ok", "fail"}
             /\ base[k] = store[k]
             /\ store' = [store EXCEPT ![k] = [store[k] EXCEPT !.status = Persisted(mem[k])]]
      BY <1>2, <2>3 DEF UpdateStatus, UpdateStatusFails, Refused, AnswerLost, CanWrite
    <3> QED
      BY <1>1, <1>2, <3>1 DEF StoreStep
  <2> QED
    BY <1>1, <1>6, <2>1, <2>2, <2>3
    DEF Work, OrganizationAppLogic, DeploymentAppLogic, DeploymentListFails, Panic, RestartManager
<1>7. ASSUME NEW k, Sync(k) \/ TimerFires(k) \/ Begin(k) \/ OrgEvent(k) PROVE StoreStep(j)
  BY <1>1, <1>7 DEF Sync, TimerFires, Begin, StartNotFound, Start, StartFails, OrgEvent,
    HandleOrgEvent, LoseOrgEvent
<1>8. CASE Crash \/ UNCHANGED vars
  BY <1>1, <1>8 DEF Crash, RestartManager, vars
<1> QED
  BY <1>5, <1>6, <1>7, <1>8, KeysAssumption DEF Next

-----------------------------------------------------------------------------
(* What a step does to a worker                                            *)

WorkerStops(k) == pc'[k] = "idle" /\ mem'[k] = NoStatus

WorkerStarts(k) ==
  /\ pc'[k] = IF cache[k].phase = "deleting" THEN "remove" ELSE "add"
  /\ Present(cache[k])
  /\ base'[k] = cache[k]
  /\ mem'[k] = cache[k].status

WorkerProtects(k) ==
  /\ pc[k] = "add"
  /\ pc'[k] = "logic"
  /\ base'[k].phase = "held"
  /\ base'[k].status = base[k].status
  /\ mem'[k] = mem[k]

WorkerFails(k) ==
  /\ pc[k] \in {"remove", "add", "logic"}
  /\ pc'[k] = "fail"
  /\ base'[k] = base[k]
  /\ \/ mem'[k] = SetConditions(mem[k], "False")
     \/ mem'[k] = SetConditions(InitializeResource(mem[k]), "False")
     \/ /\ pc[k] = "logic"
        /\ k \in Deployments
        /\ OrganizationsOf(k) = {}
        /\ mem'[k] = SetConditions(OrganizationNotFound(InitializeResource(mem[k])), "False")

OrganizationSucceeds(k) ==
  mem'[k] = SetConditions(OrganizationLogic(InitializeResource(mem[k]), base[k].spec), "True")

DeploymentSucceeds(k) ==
  \E o \in OrganizationsOf(k) :
    mem'[k] = SetConditions(
      DeploymentLogic(Reconciler, InitializeResource(mem[k]), base[k].spec, cache[o].spec), "True")

WorkerSucceeds(k) ==
  /\ pc[k] = "logic"
  /\ pc'[k] = "ok"
  /\ base'[k] = base[k]
  /\ k \in Organizations => OrganizationSucceeds(k)
  /\ k \in Deployments => DeploymentSucceeds(k)

WorkerStep(k) ==
  \/ pc'[k] = pc[k] /\ base'[k] = base[k] /\ mem'[k] = mem[k]
  \/ WorkerStops(k)
  \/ WorkerStarts(k)
  \/ WorkerProtects(k)
  \/ WorkerFails(k)
  \/ WorkerSucceeds(k)

\* Each step is one of these for each worker.
LEMMA WorkerSteps ==
  ASSUME TypeOK, [Next]_vars
  PROVE  \A j \in Keys : WorkerStep(j)
<1> SUFFICES ASSUME NEW j \in Keys PROVE WorkerStep(j)
  OBVIOUS
<1>1. UNCHANGED workVars => WorkerStep(j)
  BY DEF WorkerStep, workVars
<1>2. RestartManager => WorkerStep(j)
  BY DEF RestartManager, WorkerStep, WorkerStops
<1>3. ASSUME NEW k \in Keys, Finish(k) PROVE WorkerStep(j)
  BY <1>3 DEF Finish, WorkerStep, WorkerStops, TypeOK
<1>4. ASSUME NEW k \in Keys, NEW next, NEW status, StepTo(k, next, status)
      PROVE  IF j = k THEN pc'[j] = next /\ mem'[j] = status
                      ELSE pc'[j] = pc[j] /\ mem'[j] = mem[j]
  BY <1>4 DEF StepTo, TypeOK
<1>5. ASSUME NEW k \in Keys, NEW status, StepTo(k, "fail", status), UNCHANGED base,
             pc[k] \in {"remove", "add", "logic"},
             \/ status = SetConditions(mem[k], "False")
             \/ status = SetConditions(InitializeResource(mem[k]), "False")
             \/ /\ pc[k] = "logic"
                /\ k \in Deployments
                /\ OrganizationsOf(k) = {}
                /\ status = SetConditions(OrganizationNotFound(InitializeResource(mem[k])), "False")
      PROVE  WorkerStep(j)
  <2>1. IF j = k THEN pc'[j] = "fail" /\ mem'[j] = status
                 ELSE pc'[j] = pc[j] /\ mem'[j] = mem[j]
    BY <1>4, <1>5
  <2> QED
    BY <1>5, <2>1 DEF WorkerStep, WorkerFails
<1>6. ASSUME NEW k \in Keys, Begin(k) PROVE WorkerStep(j)
  <2>1. CASE Start(k)
    BY <2>1 DEF Start, StepTo, WorkerStep, WorkerStarts, TypeOK
  <2> QED
    BY <1>1, <1>6, <2>1 DEF Begin, StartNotFound, StartFails
<1>7. ASSUME NEW k \in Keys, Work(k) PROVE WorkerStep(j)
  <2>1. CASE RemoveFinalizer(k) \/ UpdateStatus(k) \/ UpdateStatusFails(k)
    BY <1>3, <2>1 DEF RemoveFinalizer, UpdateStatus, UpdateStatusFails
  <2>2. CASE RemoveFinalizerFails(k) \/ AddFinalizerFails(k) \/ DeploymentListFails(k)
    BY <1>5, <2>2 DEF RemoveFinalizerFails, AddFinalizerFails, DeploymentListFails
  <2>3. CASE AddFinalizer(k)
    <3>1. /\ WithFinalizer(store[k]).phase = "held"
          /\ WithFinalizer(store[k]).status = store[k].status
      BY DEF WithFinalizer, TypeOK, Object
    <3>2. /\ base'[k].phase = "held"
          /\ base'[k].status = base[k].status
          /\ j # k => base'[j] = base[j]
      BY <2>3, <3>1 DEF AddFinalizer, CanWrite, TypeOK
    <3>3. pc[k] = "add" /\ StepTo(k, "logic", mem[k])
      BY <2>3 DEF AddFinalizer
    <3> QED
      BY <3>2, <3>3 DEF StepTo, WorkerStep, WorkerProtects, TypeOK
  <2>4. CASE k \in Organizations /\ OrganizationAppLogic(k)
    <3>1. k \notin Deployments
      BY <2>4 DEF Organizations, Deployments
    <3> QED
      BY <2>4, <3>1 DEF OrganizationAppLogic, StepTo, WorkerStep, WorkerSucceeds,
        OrganizationSucceeds, TypeOK
  <2>5. CASE k \in Deployments /\ DeploymentAppLogic(k)
    <3> DEFINE status == InitializeResource(mem[k])
    <3>1. CASE /\ OrganizationsOf(k) = {}
               /\ StepTo(k, "fail", SetConditions(OrganizationNotFound(status), "False"))
      BY <1>5, <2>5, <3>1 DEF DeploymentAppLogic
    <3>2. CASE \E o \in OrganizationsOf(k) :
                 StepTo(k, "ok", SetConditions(
                   DeploymentLogic(Reconciler, status, base[k].spec, cache[o].spec), "True"))
      <4>1. PICK o \in OrganizationsOf(k) :
              StepTo(k, "ok", SetConditions(
                DeploymentLogic(Reconciler, status, base[k].spec, cache[o].spec), "True"))
        BY <3>2
      <4>2. k \notin Organizations
        BY <2>5 DEF Organizations, Deployments
      <4>3. CASE j = k
        <5>1. /\ pc'[j] = "ok"
              /\ mem'[j] = SetConditions(
                   DeploymentLogic(Reconciler, status, base[k].spec, cache[o].spec), "True")
          BY <1>4, <4>1, <4>3
        <5> QED
          BY <2>5, <4>2, <4>3, <5>1
          DEF DeploymentAppLogic, WorkerStep, WorkerSucceeds, DeploymentSucceeds
      <4>4. CASE j # k
        BY <1>4, <2>5, <4>1, <4>4 DEF DeploymentAppLogic, WorkerStep
      <4> QED
        BY <4>3, <4>4
    <3> QED
      BY <2>5, <3>1, <3>2 DEF DeploymentAppLogic
  <2>6. CASE Panic(k)
    BY <1>2, <2>6 DEF Panic
  <2> QED
    BY <1>7, <2>1, <2>2, <2>3, <2>4, <2>5, <2>6 DEF Work
<1>8. ASSUME NEW k, User(k) \/ Sync(k) \/ TimerFires(k) \/ OrgEvent(k) PROVE WorkerStep(j)
  BY <1>1, <1>8 DEF User, Create, Edit, Delete, UserChange, Sync, TimerFires, OrgEvent,
    HandleOrgEvent, LoseOrgEvent
<1>9. CASE Crash \/ UNCHANGED vars
  BY <1>1, <1>2, <1>9 DEF Crash, vars
<1> QED
  BY <1>6, <1>7, <1>8, <1>9 DEF Next

-----------------------------------------------------------------------------
(* Only protected objects are ready                                        *)

(***************************************************************************)
(* ReadyIsHeld is not inductive: the status is written long after the      *)
(* finalizer was added.  What carries it over is the copy the worker holds *)
(* since then (it has the finalizer), that only the copy of the stored     *)
(* object is accepted, and that a worker that failed says so.              *)
(***************************************************************************)
WorkerInv ==
  \A k \in Keys :
    /\ pc[k] = "remove" => base[k].phase = "deleting"
    /\ pc[k] \in {"logic", "ok"} => base[k].phase = "held"
    /\ pc[k] = "fail" => mem[k].ready = "False"

\* A failed pass leaves a status that is not ready.
LEMMA FailureNotReady ==
  ASSUME NEW status \in ObjectStatus
  PROVE  /\ SetConditions(status, "False").ready = "False"
         /\ SetConditions(InitializeResource(status), "False").ready = "False"
         /\ SetConditions(OrganizationNotFound(InitializeResource(status)), "False").ready
              = "False"
<1>1. \A other \in ObjectStatus : SetConditions(other, "False").ready = "False"
  BY DEF SetConditions, ObjectStatus
<1>2. /\ InitializeResource(status) \in ObjectStatus
      /\ OrganizationNotFound(InitializeResource(status)) \in ObjectStatus
  <2>1. InitializeResource(status) \in ObjectStatus
    BY StatusTypes
  <2> QED
    BY <2>1, NoRegisterType DEF OrganizationNotFound, ObjectStatus
<1> QED
  BY <1>1, <1>2

\* Workers are idle at first.
LEMMA WorkerInvInit == Init => WorkerInv
  BY DEF Init, WorkerInv

\* A worker gets to the handler only with a copy that was held, and what it fails
\* with is not ready.
LEMMA WorkerInvStep ==
  ASSUME TypeOK, WorkerInv, [Next]_vars
  PROVE  WorkerInv'
<1> SUFFICES ASSUME NEW k \in Keys
             PROVE  /\ pc'[k] = "remove" => base'[k].phase = "deleting"
                    /\ pc'[k] \in {"logic", "ok"} => base'[k].phase = "held"
                    /\ pc'[k] = "fail" => mem'[k].ready = "False"
  BY DEF WorkerInv
<1>1. WorkerStep(k) /\ mem[k] \in ObjectStatus
  BY WorkerSteps DEF TypeOK
<1>2. WorkerFails(k) => mem'[k].ready = "False"
  BY <1>1, FailureNotReady DEF WorkerFails
<1> QED
  BY <1>1, <1>2
  DEF WorkerStep, WorkerStops, WorkerStarts, WorkerProtects, WorkerFails, WorkerSucceeds, WorkerInv

\* Workers hold what WorkerInv says, in every state.
LEMMA WorkerInvHolds == Spec => []WorkerInv
<1>1. TypeOK /\ WorkerInv /\ [Next]_vars => WorkerInv'
  BY WorkerInvStep
<1> QED
  BY <1>1, WorkerInvInit, TypeCorrect, PTL DEF Spec

\* The status that is stored is the one the worker holds, condition and all.
LEMMA PersistedKeeps ==
  ASSUME NEW object \in Object, NEW status \in ObjectStatus
  PROVE  LET stored == [object EXCEPT !.status = Persisted(status)] IN
         /\ stored.phase = object.phase
         /\ stored.spec = object.spec
         /\ stored.status = Persisted(status)
         /\ stored.status.state = status.state
         /\ stored.status.reason = status.reason
         /\ stored.status.register = status.register
         /\ stored.status.ready = status.ready
<1>1. /\ Persisted(status).state = status.state
      /\ Persisted(status).reason = status.reason
      /\ Persisted(status).register = status.register
      /\ Persisted(status).ready = status.ready
  BY DEF Persisted, ObjectStatus
<1> QED
  BY <1>1 DEF Object

\* An object that is new or gone is not ready.
LEMMA EmptyNotReady == NoStatus.ready # "True" /\ \A gen : Gone(gen).status = NoStatus
<1>1. NoStatus.ready = "unset"
  BY DEF NoStatus
<1>2. \A gen : Gone(gen).status = NoStatus
  BY DEF Gone
<1> QED
  BY <1>1, <1>2

\* No object exists at first.
LEMMA ReadyIsHeldInit == Init => ReadyIsHeld
  BY EmptyNotReady DEF Init, ReadyIsHeld

\* A ready status is written only to the object the worker read, and that one was
\* held; what is held becomes unheld only by going.
LEMMA ReadyIsHeldStep ==
  ASSUME TypeOK, WorkerInv, ReadyIsHeld, [Next]_vars
  PROVE  ReadyIsHeld'
<1> SUFFICES ASSUME NEW k \in Keys, store'[k].status.ready = "True"
             PROVE  Protected(store'[k])
  BY DEF ReadyIsHeld, Protected
<1>1. /\ StoreStep(k)
      /\ store[k] \in Object
      /\ mem[k] \in ObjectStatus
      /\ store[k].status.ready = "True" => Protected(store[k])
  BY StoreSteps DEF TypeOK, ReadyIsHeld, Protected
<1>2. CASE store'[k].status = NoStatus
  BY <1>2, EmptyNotReady
<1>3. CASE /\ pc[k] \in {"ok", "fail"}
           /\ base[k] = store[k]
           /\ store'[k] = [store[k] EXCEPT !.status = Persisted(mem[k])]
  BY <1>1, <1>3, PersistedKeeps DEF WorkerInv, Protected
<1> QED
  BY <1>1, <1>2, <1>3 DEF StoreStep

\* Only an object the finalizer protects is reported ready.
THEOREM OnlyHeldIsReady == Spec => []ReadyIsHeld
<1>1. Init => ReadyIsHeld
  BY ReadyIsHeldInit
<1>2. TypeOK /\ WorkerInv /\ ReadyIsHeld /\ [Next]_vars => ReadyIsHeld'
  BY ReadyIsHeldStep
<1> QED
  BY <1>1, <1>2, TypeCorrect, WorkerInvHolds, PTL DEF Spec

-----------------------------------------------------------------------------
(* What deployment2 publishes                                              *)

\* A pass of deployment2 that succeeds leaves, once it is stored, a status that
\* reflects the spec it was made from and nothing of an earlier verdict.
LEMMA SuccessReflects ==
  ASSUME NEW status \in ObjectStatus, NEW spec \in ObjectSpec, NEW org \in ObjectSpec,
         Reconciler = "deployment2"
  PROVE  LET result == SetConditions(
                         DeploymentLogic(Reconciler, InitializeResource(status), spec, org), "True")
         IN  /\ DeploymentReflects(Persisted(result), spec)
             /\ result.reason # "organization not found"
             /\ result.state = "down" => result.register = NoRegister
<1> DEFINE start  == InitializeResource(status)
           logic  == DeploymentLogic(Reconciler, start, spec, org)
           result == SetConditions(logic, "True")
<1>1. start \in ObjectStatus
  BY StatusTypes
<1>2. logic \in ObjectStatus
  BY <1>1, DeploymentLogicType
<1>3. result \in ObjectStatus
  BY <1>2, StatusTypes
<1>4. /\ result.state = logic.state
      /\ result.reason = logic.reason
      /\ result.register = logic.register
      /\ result.strategy = logic.strategy
  BY <1>2 DEF SetConditions, ObjectStatus
<1>5. /\ Persisted(result).state = logic.state
      /\ Persisted(result).reason = logic.reason
      /\ Persisted(result).register = logic.register
      /\ Persisted(result).strategy = Defaulted(logic.strategy)
  BY <1>3, <1>4 DEF Persisted, ObjectStatus
<1> HIDE DEF start, result
<1>6. CASE spec.admin = "disable"
  <2>1. logic = AdminStateDisabled(start)
    BY <1>6 DEF DeploymentLogic
  <2>2. /\ logic.state = "down"
        /\ logic.reason = "admin state disabled"
        /\ logic.register = NoRegister
    BY <1>1, <2>1 DEF AdminStateDisabled, ObjectStatus
  <2> QED
    BY <1>4, <1>5, <1>6, <2>2 DEF DeploymentReflects, result, start
<1>7. CASE spec.admin = "enable"
  <2>1. logic = Deployment2Enabled(start, spec, org)
    BY <1>7 DEF DeploymentLogic
  <2>2. /\ logic.state = "up"
        /\ logic.reason = ""
        /\ logic.register = GetDeploymentRegister(org.register, spec.register)
        /\ logic.strategy = GetDeploymentStrategy(GetAddressAllocationStrategy(org.strategy),
                                                   GetAddressAllocationStrategy(spec.strategy))
    BY <1>1, <2>1 DEF Deployment2Enabled, ObjectStatus
  <2>3. \A kind \in DOMAIN spec.register :
          kind \in DOMAIN logic.register /\ logic.register[kind] = spec.register[kind]
    BY <2>2 DEF GetDeploymentRegister
  <2>4. logic.strategy = GetAddressAllocationStrategy(spec.strategy)
    BY <2>2 DEF GetDeploymentStrategy, GetAddressAllocationStrategy, Nil, Blank
  <2> QED
    BY <1>4, <1>5, <1>7, <2>2, <2>3, <2>4 DEF DeploymentReflects, result, start
<1> QED
  BY <1>6, <1>7 DEF ObjectSpec

\* So does what a pass of the organization controller leaves.
LEMMA OrganizationSuccessReflects ==
  ASSUME NEW status \in ObjectStatus, NEW spec \in ObjectSpec
  PROVE  OrganizationReflects(
           Persisted(SetConditions(OrganizationLogic(InitializeResource(status), spec), "True")),
           spec)
<1> DEFINE start  == InitializeResource(status)
           logic  == OrganizationLogic(start, spec)
           result == SetConditions(logic, "True")
<1>1. start \in ObjectStatus
  BY StatusTypes
<1>2. logic \in ObjectStatus
  BY <1>1, OrganizationLogicType
<1>3. result \in ObjectStatus
  BY <1>2, StatusTypes
<1>4. /\ logic.state = "up"
      /\ logic.register = spec.register
      /\ logic.strategy = GetAddressAllocationStrategy(spec.strategy)
  BY <1>1 DEF OrganizationLogic, ObjectStatus
<1> HIDE DEF start, logic
<1>5. /\ result.state = logic.state
      /\ result.register = logic.register
      /\ result.strategy = logic.strategy
  BY <1>2 DEF SetConditions, ObjectStatus
<1>6. /\ Persisted(result).state = result.state
      /\ Persisted(result).register = result.register
      /\ Persisted(result).strategy = Defaulted(result.strategy)
  BY <1>3 DEF Persisted, ObjectStatus
<1> QED
  BY <1>4, <1>5, <1>6 DEF OrganizationReflects, logic, start

\* What a successful worker holds goes with the copy it read.
SuccessInv ==
  \A k \in Keys :
    pc[k] = "ok" => /\ Reflects(k, Persisted(mem[k]), base[k].spec)
                    /\ k \in Deployments => mem[k].reason # "organization not found"

\* Workers are idle at first.
LEMMA SuccessInvInit == Init => SuccessInv
  BY DEF Init, SuccessInv

\* A worker succeeds only by the handler, which starts from the copy it keeps.
LEMMA SuccessInvStep ==
  ASSUME Reconciler = "deployment2", TypeOK, SuccessInv, [Next]_vars
  PROVE  SuccessInv'
<1> SUFFICES ASSUME NEW k \in Keys, pc'[k] = "ok"
             PROVE  /\ Reflects(k, Persisted(mem'[k]), base'[k].spec)
                    /\ k \in Deployments => mem'[k].reason # "organization not found"
  BY DEF SuccessInv, Reflects, OrganizationReflects, DeploymentReflects
<1>1. /\ WorkerStep(k)
      /\ mem[k] \in ObjectStatus
      /\ base[k].spec \in ObjectSpec
      /\ \A o \in OrganizationsOf(k) : cache[o].spec \in ObjectSpec
  BY WorkerSteps DEF Keys, TypeOK, Object, OrganizationsOf
<1>2. CASE WorkerSucceeds(k) /\ k \in Organizations
  <2>1. OrganizationReflects(Persisted(mem'[k]), base'[k].spec)
    BY <1>1, <1>2, OrganizationSuccessReflects DEF WorkerSucceeds, OrganizationSucceeds
  <2>2. k \notin Deployments
    BY <1>2 DEF Organizations, Deployments
  <2> QED
    BY <1>2, <2>1, <2>2 DEF Reflects
<1>3. CASE WorkerSucceeds(k) /\ k \in Deployments
  <2>1. /\ DeploymentReflects(Persisted(mem'[k]), base'[k].spec)
        /\ mem'[k].reason # "organization not found"
    BY <1>1, <1>3, SuccessReflects DEF WorkerSucceeds, DeploymentSucceeds
  <2>2. k \notin Organizations
    BY <1>3 DEF Organizations, Deployments
  <2> QED
    BY <2>1, <2>2 DEF Reflects
<1>4. CASE pc'[k] = pc[k] /\ base'[k] = base[k] /\ mem'[k] = mem[k]
  BY <1>4 DEF SuccessInv
<1> QED
  BY <1>1, <1>2, <1>3, <1>4
  DEF WorkerStep, WorkerStops, WorkerStarts, WorkerProtects, WorkerFails, Keys

\* What a successful worker holds goes with its copy, in every state.
LEMMA SuccessInvHolds == ASSUME Reconciler = "deployment2" PROVE Spec => []SuccessInv
<1>1. Init => SuccessInv
  BY SuccessInvInit
<1>2. TypeOK /\ SuccessInv /\ [Next]_vars => SuccessInv'
  BY SuccessInvStep
<1> QED
  BY <1>1, <1>2, TypeCorrect, PTL DEF Spec

\* No deployment exists at first.
LEMMA ReadyHasOrganizationInit == Init => ReadyHasOrganization
  BY EmptyNotReady DEF Init, ReadyHasOrganization, Keys

\* The reason is written in the same update as the ready condition.
LEMMA ReadyHasOrganizationStep ==
  ASSUME TypeOK, WorkerInv, SuccessInv, ReadyHasOrganization, [Next]_vars
  PROVE  ReadyHasOrganization'
<1> SUFFICES ASSUME NEW d \in Deployments, store'[d].status.ready = "True"
             PROVE  store'[d].status.reason # "organization not found"
  BY DEF ReadyHasOrganization
<1>1. d \in Keys /\ store[d] \in Object /\ mem[d] \in ObjectStatus
  BY DEF Keys, TypeOK
<1>2. StoreStep(d)
  BY <1>1, StoreSteps
<1>3. CASE store'[d].status = NoStatus
  BY <1>3, EmptyNotReady
<1>4. CASE store'[d] = store[d] \/ store'[d].status = store[d].status
  BY <1>4 DEF ReadyHasOrganization
<1>5. CASE /\ pc[d] \in {"ok", "fail"}
           /\ store'[d] = [store[d] EXCEPT !.status = Persisted(mem[d])]
  <2>1. /\ store'[d].status.ready = mem[d].ready
        /\ store'[d].status.reason = mem[d].reason
    BY <1>1, <1>5, PersistedKeeps
  <2>2. pc[d] = "ok"
    BY <1>1, <1>5, <2>1 DEF WorkerInv
  <2> QED
    BY <1>1, <2>1, <2>2 DEF SuccessInv
<1> QED
  BY <1>2, <1>3, <1>4, <1>5 DEF StoreStep

\* With deployment2, a deployment reported ready has found its organization.
THEOREM ReadyFoundOrganization ==
  ASSUME Reconciler = "deployment2" PROVE Spec => []ReadyHasOrganization
<1>1. Init => ReadyHasOrganization
  BY ReadyHasOrganizationInit
<1>2. TypeOK /\ WorkerInv /\ SuccessInv /\ ReadyHasOrganization /\ [Next]_vars
      => ReadyHasOrganization'
  BY ReadyHasOrganizationStep
<1> QED
  BY <1>1, <1>2, TypeCorrect, WorkerInvHolds, SuccessInvHolds, PTL DEF Spec

(***************************************************************************)
(* DownOffersNothing is a property of every copy of a status: a worker     *)
(* starts from the cached one and may write it back, changed only in its   *)
(* condition.                                                              *)
(***************************************************************************)
Honest(status) == status.state = "down" => status.register = NoRegister

HonestInv ==
  \A d \in Deployments :
    Honest(store[d].status) /\ Honest(cache[d].status) /\ Honest(mem[d])

\* Nothing the skeleton does to a status makes it claim more.
LEMMA SkeletonHonest ==
  ASSUME NEW status \in ObjectStatus, Honest(status)
  PROVE  /\ Honest(InitializeResource(status))
         /\ \A ready \in {"True", "False"} : Honest(SetConditions(status, ready))
         /\ Honest(Persisted(status))
         /\ Honest(OrganizationNotFound(status))
<1>1. Honest(InitializeResource(status))
  BY DEF Honest, InitializeResource, ObjectStatus
<1>2. \A ready \in {"True", "False"} : Honest(SetConditions(status, ready))
  BY DEF Honest, SetConditions, ObjectStatus
<1>3. Honest(Persisted(status))
  BY DEF Honest, Persisted, ObjectStatus
<1>4. Honest(OrganizationNotFound(status))
  BY DEF Honest, OrganizationNotFound, ObjectStatus
<1> QED
  BY <1>1, <1>2, <1>3, <1>4

\* An object without a status claims nothing.
LEMMA EmptyHonest == Honest(NoStatus)
  BY DEF Honest, NoStatus

\* No deployment exists at first.
LEMMA HonestInvInit == Init => HonestInv
  BY EmptyHonest, EmptyNotReady DEF Init, HonestInv, Keys

\* Every status a worker writes, caches or holds is honest if those before it were.
LEMMA HonestInvStep ==
  ASSUME Reconciler = "deployment2", TypeOK, HonestInv, [Next]_vars
  PROVE  HonestInv'
<1> SUFFICES ASSUME NEW d \in Deployments
             PROVE  Honest(store'[d].status) /\ Honest(cache'[d].status) /\ Honest(mem'[d])
  BY DEF HonestInv, Honest
<1>1. /\ d \in Keys
      /\ store[d] \in Object
      /\ mem[d] \in ObjectStatus
      /\ base[d].spec \in ObjectSpec
      /\ Honest(store[d].status) /\ Honest(cache[d].status) /\ Honest(mem[d])
  BY DEF Keys, TypeOK, Object, HonestInv
<1>2. Honest(store'[d].status)
  <2>1. StoreStep(d)
    BY <1>1, StoreSteps
  <2>2. [store[d] EXCEPT !.status = Persisted(mem[d])].status = Persisted(mem[d])
    BY <1>1 DEF Object
  <2> QED
    BY <1>1, <2>1, <2>2, EmptyHonest, SkeletonHonest DEF StoreStep
<1>3. Honest(cache'[d].status)
  BY <1>1, CacheMoves DEF Follows
<1>4. Honest(mem'[d])
  <2>1. WorkerStep(d)
    BY <1>1, WorkerSteps
  <2>2. CASE WorkerFails(d)
    <3>1. /\ InitializeResource(mem[d]) \in ObjectStatus
          /\ OrganizationNotFound(InitializeResource(mem[d])) \in ObjectStatus
      <4>1. InitializeResource(mem[d]) \in ObjectStatus
        BY <1>1, StatusTypes
      <4> QED
        BY <4>1, NoRegisterType DEF OrganizationNotFound, ObjectStatus
    <3>2. /\ Honest(InitializeResource(mem[d]))
          /\ Honest(OrganizationNotFound(InitializeResource(mem[d])))
      BY <1>1, <3>1, SkeletonHonest
    <3> QED
      BY <1>1, <2>2, <3>1, <3>2, SkeletonHonest DEF WorkerFails
  <2>3. CASE WorkerSucceeds(d)
    <3>1. \A o \in OrganizationsOf(d) : cache[o].spec \in ObjectSpec
      BY DEF OrganizationsOf, Keys, TypeOK, Object
    <3> QED
      BY <1>1, <2>3, <3>1, SuccessReflects DEF WorkerSucceeds, DeploymentSucceeds, Honest
  <2>4. CASE mem'[d] \in {mem[d], NoStatus, cache[d].status}
    BY <1>1, <2>4, EmptyHonest
  <2> QED
    BY <2>1, <2>2, <2>3, <2>4
    DEF WorkerStep, WorkerStops, WorkerStarts, WorkerProtects
<1> QED
  BY <1>2, <1>3, <1>4

\* Stored, cached and held statuses are honest, in every state.
LEMMA HonestInvHolds == ASSUME Reconciler = "deployment2" PROVE Spec => []HonestInv
<1>1. TypeOK /\ HonestInv /\ [Next]_vars => HonestInv'
  BY HonestInvStep
<1> QED
  BY <1>1, HonestInvInit, TypeCorrect, PTL DEF Spec

\* With deployment2, a deployment that is down offers no registers.
THEOREM DownIsEmpty ==
  ASSUME Reconciler = "deployment2" PROVE Spec => []DownOffersNothing
<1>1. HonestInv => DownOffersNothing
  BY DEF HonestInv, Honest, DownOffersNothing
<1> QED
  BY <1>1, HonestInvHolds, PTL

\* A status that changes to ready comes from a worker whose copy is the stored one.
LEMMA CurrentStep ==
  ASSUME TypeOK, WorkerInv, SuccessInv, [Next]_vars, NEW k \in Keys,
         store'[k].status # store[k].status, store'[k].status.ready = "True"
  PROVE  Reflects(k, store'[k].status, store'[k].spec)
<1>1. store[k] \in Object /\ mem[k] \in ObjectStatus
  BY DEF TypeOK
<1>2. store'[k].status # NoStatus
  BY EmptyNotReady
<1>3. /\ pc[k] \in {"ok", "fail"}
      /\ base[k] = store[k]
      /\ store'[k] = [store[k] EXCEPT !.status = Persisted(mem[k])]
  BY <1>1, <1>2, StoreSteps DEF StoreStep
<1>4. store'[k].status = Persisted(mem[k]) /\ store'[k].spec = store[k].spec
  BY <1>1, <1>3, PersistedKeeps
<1>5. pc[k] = "ok"
  BY <1>1, <1>3, PersistedKeeps DEF WorkerInv
<1> QED
  BY <1>3, <1>4, <1>5 DEF SuccessInv

\* With deployment2, no worker makes a status ready that contradicts the spec in
\* force at that moment, however long it held the copy it worked on.
THEOREM StatusIsCurrent ==
  ASSUME Reconciler = "deployment2" PROVE Spec => StatusFromCurrentSpec
<1> DEFINE Current ==
      \A k \in Keys :
        /\ store'[k].status # store[k].status
        /\ store'[k].status.ready = "True"
        => Reflects(k, store'[k].status, store'[k].spec)
<1>1. TypeOK /\ WorkerInv /\ SuccessInv /\ [Next]_vars => Current
  BY CurrentStep
<1>2. TypeOK /\ WorkerInv /\ SuccessInv /\ [Next]_vars => [Current]_vars
  BY <1>1
<1> QED
  BY <1>2, TypeCorrect, WorkerInvHolds, SuccessInvHolds, PTL DEF Spec, StatusFromCurrentSpec
-----------------------------------------------------------------------------
(* Nothing that concerns a deployment is missed                            *)

Relevant(d) == { o \in Organizations : o.name = GetOrganizationName(d.name) }

\* The registers are those of the spec and of an organization in the cache.
MadeFromCache(d, register, spec) ==
  IF OrganizationsOf(d) = {} \/ spec.admin = "disable"
  THEN register = NoRegister
  ELSE \E o \in OrganizationsOf(d) :
         register = GetDeploymentRegister(cache[o].spec.register, spec.register)

\* Nothing is on its way that would make a worker begin with d.
Quiet(d) ==
  /\ Present(store[d])
  /\ cache[d].gen = store[d].gen
  /\ d \notin dirty \cup delayed
  /\ \A o \in Relevant(d) : o \notin orgEvents

(***************************************************************************)
(* NoLostWakeup speaks of the organizations in the store; what a pass saw, *)
(* and what the handler reacts to, is the cache.  So the invariant does:   *)
(* unless something is on its way, d's status, or the result its worker    *)
(* still holds, was made from the organizations as they are cached now.    *)
(***************************************************************************)
ResultIsFresh ==
  \A d \in Deployments :
    Quiet(d) /\ pc[d] = "ok" => MadeFromCache(d, mem[d].register, base[d].spec)

StatusIsFresh ==
  \A d \in Deployments :
    Quiet(d) /\ pc[d] = "idle" => MadeFromCache(d, store[d].status.register, store[d].spec)

WakeInv == ResultIsFresh /\ StatusIsFresh

\* A step that changes nothing for d: not what is stored, not what is cached of
\* the organizations it can be matched with.
Stays(d) ==
  /\ Quiet(d)
  /\ pc[d] = "idle"
  /\ store'[d] = store[d]
  /\ OrganizationsOf(d)' = OrganizationsOf(d)
  /\ \A o \in OrganizationsOf(d) : cache'[o].spec = cache[o].spec

\* After such a step the cache is as good as before.
LEMMA SameOrganizations ==
  ASSUME NEW d, NEW register, NEW spec, MadeFromCache(d, register, spec),
         OrganizationsOf(d)' = OrganizationsOf(d),
         \A o \in OrganizationsOf(d) : cache'[o].spec = cache[o].spec
  PROVE  IF OrganizationsOf(d)' = {} \/ spec.admin = "disable"
         THEN register = NoRegister
         ELSE \E o \in OrganizationsOf(d)' :
                register = GetDeploymentRegister(cache'[o].spec.register, spec.register)
  BY DEF MadeFromCache

\* What stays of a fresh deployment is fresh.
LEMMA StaysFresh ==
  ASSUME NEW d, Stays(d), MadeFromCache(d, store[d].status.register, store[d].spec)
  PROVE  MadeFromCache(d, store[d].status.register, store[d].spec)'
  BY SameOrganizations DEF Stays, MadeFromCache

\* What a step may do to a deployment that is quiet afterwards.
Fresh(d) ==
  /\ pc'[d] = "ok" => MadeFromCache(d, mem[d].register, base[d].spec)'
  /\ pc'[d] = "idle" => \/ Stays(d)
                        \/ MadeFromCache(d, store[d].status.register, store[d].spec)'

\* What is said of d depends on these values only.
LEMMA Unmoved ==
  ASSUME ResultIsFresh, NEW d \in Deployments,
         Quiet(d), OrganizationsOf(d)' = OrganizationsOf(d),
         \A o \in OrganizationsOf(d) : cache'[o].spec = cache[o].spec,
         store'[d] = store[d], pc'[d] = pc[d], base'[d] = base[d], mem'[d] = mem[d]
  PROVE  Fresh(d)
<1>1. pc'[d] = "ok" => MadeFromCache(d, mem[d].register, base[d].spec)'
  <2> SUFFICES ASSUME pc[d] = "ok" PROVE MadeFromCache(d, mem[d].register, base[d].spec)'
    OBVIOUS
  <2>1. MadeFromCache(d, mem[d].register, base[d].spec)
    BY DEF ResultIsFresh
  <2> QED
    BY <2>1, SameOrganizations DEF MadeFromCache
<1>2. pc'[d] = "idle" => Stays(d)
  BY DEF Stays
<1> QED
  BY <1>1, <1>2 DEF Fresh

\* The organizations d can be matched with change in the cache by Sync only, and
\* a change that matters leaves an event.
LEMMA CachedOrganizations ==
  ASSUME TypeOK, GenInv, NEW d \in Deployments, NEW k \in Keys, Sync(k),
         \A o \in Relevant(d) : o \notin orgEvents'
  PROVE  /\ OrganizationsOf(d)' = OrganizationsOf(d)
         /\ \A o \in OrganizationsOf(d) : cache'[o].spec = cache[o].spec
<1>1. ASSUME NEW o \in Relevant(d)
      PROVE  cache'[o].spec = cache[o].spec /\ (Present(cache'[o]) <=> Present(cache[o]))
  <2>1. o \in Keys /\ o \in Organizations
    BY DEF Relevant, Keys
  <2>2. CASE o # k
    BY <2>1, <2>2 DEF Sync, TypeOK
  <2>3. CASE o = k
    <3>1. cache'[o] = store[o]
      BY <2>1, <2>3 DEF Sync, TypeOK
    <3>2. cache[o].gen = store[o].gen
      BY <2>1, <2>3 DEF Sync, PassesFilter
    <3> QED
      BY <2>1, <3>1, <3>2 DEF GenInv, CacheBehind
  <2> QED
    BY <2>2, <2>3
<1>2. OrganizationsOf(d) \subseteq Relevant(d)
  BY DEF OrganizationsOf, Relevant
<1>3. OrganizationsOf(d)' = OrganizationsOf(d)
  BY <1>1 DEF OrganizationsOf, Relevant
<1> QED
  BY <1>1, <1>2, <1>3

\* What a pass that succeeds puts into the status.
LEMMA SuccessRegister ==
  ASSUME NEW status \in ObjectStatus, NEW spec \in ObjectSpec, NEW org \in ObjectSpec
  PROVE  SetConditions(DeploymentLogic(Reconciler, InitializeResource(status), spec, org),
                       "True").register
           = IF spec.admin = "disable" THEN NoRegister
             ELSE GetDeploymentRegister(org.register, spec.register)
<1> DEFINE start == InitializeResource(status)
           logic == DeploymentLogic(Reconciler, start, spec, org)
<1>1. start \in ObjectStatus
  BY StatusTypes
<1>2. logic \in ObjectStatus
  BY <1>1, DeploymentLogicType
<1>3. logic.register = IF spec.admin = "disable" THEN NoRegister
                       ELSE GetDeploymentRegister(org.register, spec.register)
  BY <1>1 DEF DeploymentLogic, AdminStateDisabled, Deployment2Enabled, DeploymentEnabled, ObjectStatus
<1>4. SetConditions(logic, "True").register = logic.register
  BY <1>2 DEF SetConditions, ObjectStatus
<1> QED
  BY <1>3, <1>4

-----------------------------------------------------------------------------
(* Every step keeps deployments fresh                                      *)

\* No event of an organization is dropped because the list of deployments fails.
KeepsEvents == \A o \in Organizations : ~ LoseOrgEvent(o)

\* A deployment that is quiet after a step stayed, or was just served.
LEMMA FreshStep ==
  ASSUME NEW ns, Namespaces = {ns}, TypeOK, GenInv, ResultIsFresh,
         [Next]_vars, [KeepsEvents]_vars, NEW d \in Deployments, Quiet(d)'
  PROVE  Fresh(d)
<1>1. \A o \in Organizations : ~ LoseOrgEvent(o)
  BY DEF KeepsEvents, LoseOrgEvent, vars
<1>2. /\ d \in Keys
      /\ d.kind = "Deployment"
      /\ store[d] \in Object /\ cache[d] \in Object /\ base[d] \in Object
      /\ store[d].gen \in Nat /\ cache[d].gen \in Nat
      /\ cache[d].gen <= store[d].gen
      /\ cache[d].gen = store[d].gen => (Present(cache[d]) <=> Present(store[d]))
  BY DEF Keys, Deployments, TypeOK, Object, GenInv, CacheBehind
<1>3. UNCHANGED cache =>
        /\ OrganizationsOf(d)' = OrganizationsOf(d)
        /\ \A o \in OrganizationsOf(d) : cache'[o].spec = cache[o].spec
  BY DEF OrganizationsOf
\* A restart puts every object into its queue.
<1>4. ~ RestartManager
  BY <1>2 DEF RestartManager, Quiet
<1>5. ASSUME NEW k \in UserKeys, User(k) PROVE Fresh(d)
  <2>1. PICK object : UserChange(k, object) /\ object.gen = store[k].gen + 1
    BY <1>5, UserChangesGen, KeysAssumption
  <2>2. k # d
    BY <1>2, <2>1 DEF UserChange, Quiet, TypeOK
  <2>3. /\ store'[d] = store[d]
        /\ UNCHANGED << cache, dirty, delayed, pc, base, mem, orgEvents >>
    BY <2>1, <2>2 DEF UserChange, queueVars, workVars, TypeOK
  <2>4. Quiet(d)
    BY <2>3 DEF Quiet, Relevant
  <2> QED
    BY <1>3, <2>3, <2>4, Unmoved
<1>6. ASSUME NEW k \in Keys, Sync(k) PROVE Fresh(d)
  <2>1. /\ UNCHANGED << store, delayed, pc, base, mem >>
        /\ dirty \subseteq dirty' /\ orgEvents \subseteq orgEvents'
    BY <1>6 DEF Sync, workVars
  <2>2. cache'[d].gen = cache[d].gen
    BY <1>2, <1>6 DEF Sync, PassesFilter, Quiet, TypeOK
  <2>3. Quiet(d) /\ \A o \in Relevant(d) : o \notin orgEvents'
    BY <2>1, <2>2 DEF Quiet, Relevant
  <2> QED
    BY <1>6, <2>1, <2>3, CachedOrganizations, Unmoved
<1>7. ASSUME NEW k \in Keys, TimerFires(k) PROVE Fresh(d)
  <2>1. /\ UNCHANGED << store, cache, pc, base, mem, orgEvents >>
        /\ dirty' \cup delayed' = dirty \cup delayed
    BY <1>7 DEF TimerFires, workVars
  <2>2. Quiet(d)
    BY <2>1 DEF Quiet, Relevant
  <2> QED
    BY <1>3, <2>1, <2>2, Unmoved
\* An event of an organization of d's queues d, which is in the cache.
<1>8. ASSUME NEW o \in Organizations, OrgEvent(o) PROVE Fresh(d)
  <2>1. HandleOrgEvent(o)
    BY <1>1, <1>8 DEF OrgEvent
  <2>2. /\ UNCHANGED << store, cache, delayed, pc, base, mem >>
        /\ orgEvents' = orgEvents \ {o}
        /\ dirty' = dirty \cup RequestsOf(o)
    BY <2>1 DEF HandleOrgEvent, workVars
  <2>3. o \notin Relevant(d)
    <3> SUFFICES ASSUME o \in Relevant(d) PROVE FALSE
      OBVIOUS
    <3>1. Present(cache[d])
      BY <1>2, <2>2 DEF Quiet
    <3>2. d \in DeploymentsOf(o)
      BY <3>1 DEF DeploymentsOf, Relevant
    <3>3. RequestFor(o, d) = d
      BY DEF RequestFor, Organizations, Deployments
    <3> QED
      BY <2>2, <3>2, <3>3 DEF RequestsOf, Quiet
  <2>4. Quiet(d)
    BY <2>2, <2>3 DEF Quiet, Relevant
  <2> QED
    BY <1>3, <2>2, <2>4, Unmoved
\* A worker drops a request only for an object that is gone, and one that
\* cannot read its object puts the request aside.
<1>9. ASSUME NEW k \in Keys, Begin(k) PROVE Fresh(d)
  <2>1. /\ UNCHANGED << store, cache, orgEvents >>
        /\ dirty' = dirty \ {k}
        /\ delayed \subseteq delayed'
    BY <1>9 DEF Begin, StartNotFound, Start, StartFails, Take
  <2>2. CASE k = d
    <3>1. Present(cache[d])
      BY <1>2, <2>1 DEF Quiet
    <3>2. Start(d)
      BY <1>9, <2>2, <3>1 DEF Begin, StartNotFound, StartFails, Quiet
    <3>3. pc'[d] \in {"remove", "add"}
      BY <1>2, <3>2 DEF Start, StepTo, TypeOK
    <3> QED
      BY <3>3 DEF Fresh
  <2>3. CASE k # d
    <3>1. pc'[d] = pc[d] /\ base'[d] = base[d] /\ mem'[d] = mem[d]
      BY <1>2, <1>9, <2>3 DEF Begin, StartNotFound, Start, StartFails, StepTo, workVars, TypeOK
    <3>2. Quiet(d)
      BY <2>1, <2>3 DEF Quiet, Relevant
    <3> QED
      BY <1>3, <2>1, <3>1, <3>2, Unmoved
  <2> QED
    BY <2>2, <2>3
<1>10. ASSUME NEW k \in Keys, Work(k), k # d PROVE Fresh(d)
  <2>1. /\ UNCHANGED << cache, dirty, orgEvents >>
        /\ delayed \subseteq delayed'
        /\ store'[d] = store[d]
        /\ pc'[d] = pc[d] /\ base'[d] = base[d] /\ mem'[d] = mem[d]
    <3>1. CASE RemoveFinalizer(k) \/ RemoveFinalizerFails(k)
      BY <1>2, <1>10, <3>1 DEF RemoveFinalizer, RemoveFinalizerFails, Refused, AnswerLost,
        Finish, StepTo, queueVars, TypeOK
    <3>2. CASE AddFinalizer(k) \/ AddFinalizerFails(k)
      BY <1>2, <1>10, <3>2 DEF AddFinalizer, AddFinalizerFails, Refused, AnswerLost, StepTo,
        queueVars, TypeOK
    <3>3. CASE OrganizationAppLogic(k) \/ DeploymentAppLogic(k) \/ DeploymentListFails(k)
      BY <1>2, <1>10, <3>3 DEF OrganizationAppLogic, DeploymentAppLogic, DeploymentListFails,
        StepTo, queueVars, TypeOK
    <3>4. CASE UpdateStatus(k) \/ UpdateStatusFails(k)
      BY <1>2, <1>10, <3>4 DEF UpdateStatus, UpdateStatusFails, Refused, AnswerLost, Finish, TypeOK
    <3> QED
      BY <1>4, <1>10, <3>1, <3>2, <3>3, <3>4 DEF Work, Panic
  <2>2. Quiet(d)
    BY <2>1 DEF Quiet, Relevant
  <2> QED
    BY <1>3, <2>1, <2>2, Unmoved
<1>11. ASSUME Work(d) PROVE Fresh(d)
  <2>1. CASE RemoveFinalizer(d)
    BY <1>2, <2>1 DEF RemoveFinalizer, Gone, Present, Quiet, TypeOK
  <2>2. CASE \/ RemoveFinalizerFails(d) \/ AddFinalizerFails(d) \/ AddFinalizer(d)
             \/ DeploymentListFails(d)
    <3>1. pc'[d] \in {"fail", "logic"}
      BY <1>2, <2>2
      DEF RemoveFinalizerFails, AddFinalizerFails, AddFinalizer, DeploymentListFails, StepTo, TypeOK
    <3> QED
      BY <3>1 DEF Fresh
  <2>3. CASE DeploymentAppLogic(d)
    <3> DEFINE result(o) ==
          SetConditions(
            DeploymentLogic(Reconciler, InitializeResource(mem[d]), base[d].spec, cache[o].spec),
            "True")
    <3>1. CASE pc'[d] = "fail"
      BY <3>1 DEF Fresh
    <3>2. CASE \E o \in OrganizationsOf(d) : StepTo(d, "ok", result(o))
      <4>1. PICK o \in OrganizationsOf(d) : StepTo(d, "ok", result(o))
        BY <3>2
      <4>2. pc'[d] = "ok" /\ mem'[d] = result(o) /\ base'[d] = base[d] /\ UNCHANGED cache
        BY <1>2, <2>3, <4>1 DEF StepTo, DeploymentAppLogic, TypeOK
      <4>3. /\ mem[d] \in ObjectStatus
            /\ base[d].spec \in ObjectSpec
            /\ cache[o].spec \in ObjectSpec
        BY <1>2 DEF OrganizationsOf, Keys, TypeOK, Object
      <4>4. result(o).register = IF base[d].spec.admin = "disable" THEN NoRegister
                                 ELSE GetDeploymentRegister(cache[o].spec.register,
                                                            base[d].spec.register)
        BY <4>3, SuccessRegister
      <4> HIDE DEF result
      <4>5. MadeFromCache(d, mem[d].register, base[d].spec)'
        BY <1>3, <4>2, <4>4 DEF MadeFromCache
      <4> QED
        BY <4>2, <4>5 DEF Fresh
    <3> QED
      BY <1>2, <2>3, <3>1, <3>2 DEF DeploymentAppLogic, StepTo, TypeOK
  <2>4. CASE UpdateStatus(d)
    <3>1. /\ UNCHANGED << cache, dirty, orgEvents >>
          /\ store' = [store EXCEPT ![d].status = Persisted(mem[d])]
          /\ base[d] = store[d]
          /\ pc'[d] = "idle"
      BY <1>2, <2>4 DEF UpdateStatus, Finish, CanWrite, TypeOK
    <3>2. pc[d] = "ok" /\ delayed' = delayed
      BY <2>4 DEF UpdateStatus, Requeued, Quiet
    <3>3. store'[d] = [store[d] EXCEPT !.status = Persisted(mem[d])] /\ mem[d] \in ObjectStatus
      BY <1>2, <3>1 DEF TypeOK
    <3>4. /\ store'[d].status.register = mem[d].register
          /\ store'[d].spec = base[d].spec
          /\ store'[d].phase = store[d].phase
          /\ store'[d].gen = store[d].gen
      <4>1. Persisted(mem[d]).register = mem[d].register
        BY <3>3 DEF Persisted, ObjectStatus
      <4>2. /\ store'[d].status = Persisted(mem[d])
            /\ store'[d].spec = store[d].spec
            /\ store'[d].phase = store[d].phase
            /\ store'[d].gen = store[d].gen
        BY <1>2, <3>3 DEF Object
      <4> QED
        BY <3>1, <4>1, <4>2
    <3>5. Quiet(d)
      BY <3>1, <3>2, <3>4 DEF Quiet, Relevant, Present
    <3>6. MadeFromCache(d, mem[d].register, base[d].spec)
      BY <3>2, <3>5 DEF ResultIsFresh
    <3>7. MadeFromCache(d, store[d].status.register, store[d].spec)'
      BY <1>3, <3>1, <3>4, <3>6 DEF MadeFromCache
    <3> QED
      BY <3>1, <3>7 DEF Fresh
  <2>5. ~ UpdateStatusFails(d)
    BY DEF UpdateStatusFails, Quiet
  <2>6. d \notin Organizations
    BY <1>2 DEF Organizations
  <2> QED
    BY <1>4, <1>11, <2>1, <2>2, <2>3, <2>4, <2>5, <2>6 DEF Work, Panic
<1>12. CASE UNCHANGED vars
  <2>1. UNCHANGED << store, cache, dirty, delayed, pc, base, mem, orgEvents >>
    BY <1>12 DEF vars, queueVars, workVars
  <2>2. Quiet(d)
    BY <2>1 DEF Quiet, Relevant
  <2> QED
    BY <1>3, <2>1, <2>2, Unmoved
<1> QED
  BY <1>4, <1>5, <1>6, <1>7, <1>8, <1>9, <1>10, <1>11, <1>12 DEF Next, Crash

\* No deployment exists at first.
LEMMA WakeInvInit == Init => WakeInv
  BY DEF Init, WakeInv, ResultIsFresh, StatusIsFresh, Quiet, Gone, Present, Keys

\* What a worker holds stays fresh by itself, what is stored with its help.
LEMMA WakeInvStep ==
  ASSUME NEW ns, Namespaces = {ns}, TypeOK, GenInv, [Next]_vars, [KeepsEvents]_vars
  PROVE  /\ ResultIsFresh => ResultIsFresh'
         /\ WakeInv => WakeInv'
<1>1. ASSUME ResultIsFresh PROVE ResultIsFresh'
  BY <1>1, FreshStep DEF ResultIsFresh, Fresh
<1>2. ASSUME WakeInv PROVE StatusIsFresh'
  <2> SUFFICES ASSUME NEW d \in Deployments, Quiet(d)', pc'[d] = "idle"
               PROVE  MadeFromCache(d, store[d].status.register, store[d].spec)'
    BY DEF StatusIsFresh
  <2>1. Stays(d) \/ MadeFromCache(d, store[d].status.register, store[d].spec)'
    BY <1>2, FreshStep DEF WakeInv, Fresh
  <2>2. ASSUME Stays(d) PROVE MadeFromCache(d, store[d].status.register, store[d].spec)'
    <3>1. MadeFromCache(d, store[d].status.register, store[d].spec)
      BY <1>2, <2>2 DEF WakeInv, StatusIsFresh, Stays
    <3> QED
      BY <2>2, <3>1, StaysFresh
  <2> QED
    BY <2>1, <2>2
<1> QED
  BY <1>1, <1>2 DEF WakeInv

-----------------------------------------------------------------------------
\* Where caches have caught up, what was made from the cache is right.
LEMMA CaughtUp ==
  ASSUME GenInv, NEW d \in Deployments,
         \A o \in Relevant(d) : ~ PassesFilter(cache[o], store[o]),
         MadeFromCache(d, store[d].status.register, store[d].spec)
  PROVE  RegisterSettles(d, store[d].status.register)
<1>1. \A o \in Relevant(d) :
        /\ Present(cache[o]) <=> Present(store[o])
        /\ cache[o].spec = store[o].spec
  BY DEF Relevant, PassesFilter, GenInv, CacheBehind, Keys
<1>2. Owners(d) = OrganizationsOf(d) /\ OrganizationsOf(d) \subseteq Relevant(d)
  BY <1>1 DEF Owners, OrganizationsOf, Relevant
<1> QED
  BY <1>1, <1>2 DEF MadeFromCache, RegisterSettles

\* The invariant says what NoLostWakeup needs.
LEMMA WakeInvWakes == GenInv /\ WakeInv => NoLostWakeup
<1> SUFFICES ASSUME GenInv, WakeInv, NEW d \in Deployments, Present(store[d]), ~ Pending(d),
                    \A o \in Relevant(d) : o \notin orgEvents /\ ~ PassesFilter(cache[o], store[o])
             PROVE  RegisterSettles(d, store[d].status.register)
  BY DEF NoLostWakeup, Relevant
<1>1. Quiet(d) /\ pc[d] = "idle"
  BY DEF Pending, PassesFilter, Quiet
<1>2. MadeFromCache(d, store[d].status.register, store[d].spec)
  BY <1>1 DEF WakeInv, StatusIsFresh
<1> QED
  BY <1>2, CaughtUp

\* In one namespace the watch on organizations misses no change, whatever the
\* order in which caches, queues and workers move, whichever calls fail, whichever
\* answers are lost and however often the manager dies, as long as none of the
\* calls that fail is the event handler's list of deployments.
THEOREM WatchIsEnough ==
  ASSUME NEW ns, Namespaces = {ns}
  PROVE  Spec /\ [][KeepsEvents]_vars => []NoLostWakeup
<1>1. TypeOK /\ GenInv /\ WakeInv /\ [Next]_vars /\ [KeepsEvents]_vars => WakeInv'
  BY WakeInvStep
<1> QED
  BY <1>1, WakeInvInit, WakeInvWakes, TypeCorrect, GenInvHolds, PTL DEF Spec

\* Without failing calls no event is lost.
COROLLARY WatchNeedsNoTimer ==
  ASSUME NEW ns, Namespaces = {ns}, MaxFaults = 0
  PROVE  Spec => []NoLostWakeup
<1>1. TypeOK /\ [Next]_vars => [KeepsEvents]_vars
  BY DEF TypeOK, KeepsEvents, LoseOrgEvent, Fault
<1> QED
  BY <1>1, WatchIsEnough, TypeCorrect, PTL DEF Spec

-----------------------------------------------------------------------------
(* A status that is right stays right                                      *)

(***************************************************************************)
(* What a step without a fault does to an object that is held and that no  *)
(* user touches, and to its worker: nothing, what ends without a status to *)
(* write, the write itself, a result that cannot be written, or the        *)
(* handler's.                                                              *)
(***************************************************************************)
CalmStep(k) ==
  \/ /\ pc[k] \in {"ok", "fail"}
     /\ CanWrite(k)
     /\ store'[k] = [store[k] EXCEPT !.status = Persisted(mem[k])]
     /\ pc'[k] = "idle"
  \/ /\ store'[k] = store[k]
     /\ \/ pc'[k] = pc[k] /\ base'[k] = base[k] /\ mem'[k] = mem[k]
        \/ pc'[k] \in {"idle", "remove", "add", "logic"}
        \/ base'[k].phase # "held"
        \/ WorkerSucceeds(k)
        \/ /\ pc'[k] = "fail"
           /\ k \in Deployments
           /\ OrganizationsOf(k) = {}
           /\ mem'[k] = SetConditions(OrganizationNotFound(InitializeResource(mem[k])), "False")

\* Each undisturbed step is one of these for each held object.
LEMMA CalmSteps ==
  ASSUME TypeOK, WorkerInv, [Next]_vars, faults' = faults, NEW k \in Keys,
         store[k].phase = "held", store'[k].gen = store[k].gen
  PROVE  CalmStep(k)
<1>1. UNCHANGED store /\ UNCHANGED workVars => CalmStep(k)
  BY DEF CalmStep, workVars
<1>2. ~ Fault
  BY DEF Fault, TypeOK
<1>3. /\ store \in [Keys -> Object]
      /\ store[k] \in Object
      /\ store[k].gen \in Nat
      /\ Present(store[k])
  BY DEF TypeOK, Object, Present
<1>4. \A gen : Gone(gen).gen = gen
  BY DEF Gone
<1>5. ASSUME NEW j \in Keys, NEW object, j # k, store' = [store EXCEPT ![j] = object]
      PROVE  store'[k] = store[k]
  BY <1>3, <1>5
<1>6. ASSUME NEW j \in Keys, User(j) PROVE CalmStep(k)
  <2>1. PICK object : UserChange(j, object) /\ object.gen = store[j].gen + 1
    BY <1>6, UserChangesGen
  <2>2. j # k
    BY <1>3, <2>1 DEF UserChange
  <2> QED
    BY <1>5, <2>1, <2>2 DEF UserChange, CalmStep, workVars
<1>7. RestartManager => CalmStep(k)
  BY DEF RestartManager, CalmStep
<1>8. ASSUME NEW j \in Keys, Work(j), j # k PROVE CalmStep(k)
  <2>1. RestartManager \/ (pc'[k] = pc[k] /\ base'[k] = base[k] /\ mem'[k] = mem[k])
    BY <1>8 DEF Work, RemoveFinalizer, RemoveFinalizerFails, AddFinalizer, AddFinalizerFails,
      OrganizationAppLogic, DeploymentAppLogic, DeploymentListFails, UpdateStatus,
      UpdateStatusFails, Panic, Finish, StepTo, TypeOK
  <2>2. RestartManager \/ store'[k] = store[k]
    BY <1>3, <1>5, <1>8 DEF Work, RemoveFinalizer, RemoveFinalizerFails, AddFinalizer,
      AddFinalizerFails, OrganizationAppLogic, DeploymentAppLogic, DeploymentListFails,
      UpdateStatus, UpdateStatusFails, Panic, Refused, AnswerLost
  <2> QED
    BY <1>7, <2>1, <2>2 DEF CalmStep
<1>9. CASE Work(k)
  <2>1. CASE RemoveFinalizer(k)
    <3>1. UNCHANGED store
      BY <1>3, <1>4, <2>1 DEF RemoveFinalizer
    <3> QED
      BY <2>1, <3>1 DEF RemoveFinalizer, Finish, CalmStep, TypeOK
  <2>2. CASE RemoveFinalizerFails(k) \/ AddFinalizerFails(k)
    <3>1. UNCHANGED << store, base >>
      BY <1>2, <1>3, <2>2 DEF RemoveFinalizerFails, AddFinalizerFails, Refused, AnswerLost
    <3>2. base[k].phase \in {"deleting", "bare"}
      BY <2>2 DEF RemoveFinalizerFails, AddFinalizerFails, WorkerInv
    <3> QED
      BY <3>1, <3>2 DEF CalmStep
  <2>3. CASE AddFinalizer(k)
    <3>1. UNCHANGED store
      BY <2>3 DEF AddFinalizer, CanWrite
    <3> QED
      BY <2>3, <3>1 DEF AddFinalizer, StepTo, CalmStep, TypeOK
  <2>4. CASE \/ k \in Organizations /\ OrganizationAppLogic(k)
             \/ k \in Deployments /\ DeploymentAppLogic(k)
    <3>1. UNCHANGED store /\ pc[k] = "logic" /\ pc'[k] \in {"ok", "fail"}
      BY <2>4 DEF OrganizationAppLogic, DeploymentAppLogic, StepTo, TypeOK
    <3>2. CASE pc'[k] = "ok"
      BY <3>1, <3>2, WorkerSteps
      DEF WorkerStep, WorkerStops, WorkerStarts, WorkerProtects, WorkerFails, CalmStep
    <3>3. CASE pc'[k] = "fail"
      BY <2>4, <3>1, <3>3 DEF OrganizationAppLogic, DeploymentAppLogic, StepTo, CalmStep, TypeOK
    <3> QED
      BY <3>1, <3>2, <3>3
  <2>5. CASE DeploymentListFails(k)
    BY <1>2, <2>5 DEF DeploymentListFails
  <2>6. CASE UpdateStatus(k)
    BY <1>3, <2>6 DEF UpdateStatus, Finish, CalmStep, TypeOK
  <2>7. CASE UpdateStatusFails(k)
    <3>1. UNCHANGED store
      BY <1>2, <2>7 DEF UpdateStatusFails, Refused, AnswerLost
    <3> QED
      BY <2>7, <3>1 DEF UpdateStatusFails, Finish, CalmStep, TypeOK
  <2>8. CASE Panic(k)
    BY <1>7, <2>8 DEF Panic
  <2> QED
    BY <1>9, <2>1, <2>2, <2>3, <2>4, <2>5, <2>6, <2>7, <2>8 DEF Work
<1>10. ASSUME NEW j \in Keys, Begin(j) PROVE CalmStep(k)
  BY <1>1, <1>10 DEF Begin, StartNotFound, Start, StartFails, StepTo, CalmStep, TypeOK
<1>11. ASSUME NEW j, Sync(j) \/ TimerFires(j) \/ OrgEvent(j) PROVE CalmStep(k)
  BY <1>1, <1>11 DEF Sync, TimerFires, OrgEvent, HandleOrgEvent, LoseOrgEvent
<1>12. CASE Crash \/ UNCHANGED vars
  BY <1>1, <1>2, <1>12 DEF Crash, vars
<1> QED
  BY <1>6, <1>8, <1>9, <1>10, <1>11, <1>12, KeysAssumption DEF Next

\* What a status has to be for k changes with the spec of k and its owners only.
LEMMA SettlesAlike ==
  ASSUME NEW k \in Keys, NEW status,
         store'[k].spec = store[k].spec,
         Owners(k)' = Owners(k),
         \A o \in Owners(k) : store'[o].spec = store[o].spec,
         Settles(k, status)
  PROVE  Settles(k, status)'
<1>1. k \in Deployments => RegisterSettles(k, status.register)'
  BY DEF Settles, RegisterSettles
<1>2. Reflects(k, status, store[k].spec) => Reflects(k, status, store[k].spec)'
  BY DEF Reflects, OrganizationReflects, DeploymentReflects
<1> QED
  BY <1>1, <1>2 DEF Settles

\* So it does not change while their generations stay.
LEMMA UntouchedSettles ==
  ASSUME TypeOK, NEW k \in Keys, \A j \in Keys : Moves(store[j], store'[j]),
         \A j \in Organizations \cup {k} : ~ PassesFilter(store[j], store'[j])
  PROVE  /\ store'[k].gen = store[k].gen
         /\ store'[k].spec = store[k].spec
         /\ \A status : Settles(k, status) => Settles(k, status)'
<1>1. \A j \in Organizations \cup {k} :
        /\ store'[j].gen = store[j].gen
        /\ Present(store'[j]) <=> Present(store[j])
        /\ store'[j].spec = store[j].spec
  BY DEF PassesFilter, Moves, Keys, TypeOK, Object
<1>2. Owners(k)' = Owners(k) /\ \A o \in Owners(k) : store'[o].spec = store[o].spec
  BY <1>1 DEF Owners
<1> QED
  BY <1>1, <1>2, SettlesAlike

\* Setting the condition sets nothing else.
LEMMA ConditionSet ==
  ASSUME NEW status \in ObjectStatus, NEW ready \in {"True", "False"}
  PROVE  /\ SetConditions(status, ready) \in ObjectStatus
         /\ SetConditions(status, ready).ready = ready
         /\ SetConditions(status, ready).reason = status.reason
         /\ SetConditions(status, ready).register = status.register
  BY DEF SetConditions, ObjectStatus

\* The handler's result is right if its copies of the deployment and of the
\* organizations are those of the API server.
LEMMA HandlerSettles ==
  ASSUME Reconciler = "deployment2", TypeOK, SuccessInv', NEW k \in Keys, WorkerSucceeds(k),
         base[k].spec = store[k].spec,
         k \in Deployments => /\ OrganizationsOf(k) = Owners(k)
                              /\ \A o \in Owners(k) : cache[o].spec = store[o].spec
  PROVE  Settles(k, Persisted(mem'[k]))
<1>1. Reflects(k, Persisted(mem'[k]), store[k].spec)
  BY DEF WorkerSucceeds, SuccessInv, Reflects, OrganizationReflects, DeploymentReflects
<1>2. /\ mem[k] \in ObjectStatus /\ base[k].spec \in ObjectSpec
      /\ \A o \in Owners(k) : cache[o].spec \in ObjectSpec
  BY DEF TypeOK, Object, Owners, Keys
<1>3. mem'[k] \in ObjectStatus => /\ Persisted(mem'[k]).ready = mem'[k].ready
                                  /\ Persisted(mem'[k]).register = mem'[k].register
  BY DEF Persisted, ObjectStatus
<1>4. CASE k \in Organizations
  <2>1. k \notin Deployments
    BY <1>4 DEF Organizations, Deployments
  <2> DEFINE logic == OrganizationLogic(InitializeResource(mem[k]), base[k].spec)
  <2>2. logic \in ObjectStatus
    BY <1>2, StatusTypes, OrganizationLogicType
  <2>3. mem'[k] = SetConditions(logic, "True")
    BY <1>4 DEF WorkerSucceeds, OrganizationSucceeds
  <2>4. mem'[k] \in ObjectStatus /\ mem'[k].ready = "True"
    BY <2>2, <2>3, ConditionSet
  <2> QED
    BY <1>1, <1>3, <2>1, <2>4 DEF Settles
<1>5. CASE k \in Deployments
  <2> DEFINE logic(o) ==
        DeploymentLogic(Reconciler, InitializeResource(mem[k]), base[k].spec, cache[o].spec)
  <2>1. PICK o \in Owners(k) : mem'[k] = SetConditions(logic(o), "True")
    BY <1>5 DEF WorkerSucceeds, DeploymentSucceeds
  <2>2. logic(o) \in ObjectStatus
    BY <1>2, StatusTypes, DeploymentLogicType
  <2>3. mem'[k] \in ObjectStatus /\ mem'[k].ready = "True"
    BY <2>1, <2>2, ConditionSet
  <2>4. mem'[k].register = IF base[k].spec.admin = "disable" THEN NoRegister
                           ELSE GetDeploymentRegister(cache[o].spec.register, base[k].spec.register)
    BY <1>2, <2>1, SuccessRegister
  <2>5. RegisterSettles(k, mem'[k].register)
    BY <1>5, <2>4 DEF RegisterSettles
  <2> QED
    BY <1>1, <1>3, <1>5, <2>1, <2>3, <2>5 DEF Settles
<1> QED
  BY <1>4, <1>5 DEF Keys

\* So is its result where no organization matches.
LEMMA NotFoundSettles ==
  ASSUME TypeOK, NEW k \in Deployments, Owners(k) = {},
         mem'[k] = SetConditions(OrganizationNotFound(InitializeResource(mem[k])), "False")
  PROVE  Settles(k, Persisted(mem'[k]))
<1> DEFINE status == OrganizationNotFound(InitializeResource(mem[k]))
<1>1. InitializeResource(mem[k]) \in ObjectStatus
  BY StatusTypes DEF TypeOK, Keys
<1>2. status.register = NoRegister /\ status.reason = "organization not found"
  BY <1>1 DEF OrganizationNotFound, ObjectStatus
<1>3. status \in ObjectStatus
  BY <1>1, NoRegisterType DEF OrganizationNotFound, ObjectStatus
<1> HIDE DEF status
<1>4. /\ Persisted(mem'[k]).register = NoRegister
      /\ Persisted(mem'[k]).reason = "organization not found"
      /\ Persisted(mem'[k]).ready = "False"
  BY <1>2, <1>3 DEF SetConditions, Persisted, ObjectStatus, status
<1> QED
  BY <1>4 DEF Settles, RegisterSettles

\* The step keeps what AtRest says of the object, its owners and its worker.
LEMMA StaysAtRest ==
  ASSUME Reconciler = "deployment2", TypeOK, GenInv, WorkerInv, SuccessInv', [Next]_vars,
         NEW k \in Keys, AtRest(k), faults' = faults,
         \A j \in Organizations \cup {k} : ~ PassesFilter(store[j], store'[j])
  PROVE  AtRest(k)'
<1>1. \A j \in Keys : Moves(store[j], store'[j])
  BY StoreMoves DEF GenInv
<1>2. store'[k].gen = store[k].gen
  BY <1>1, UntouchedSettles
<1>3. \A status : Settles(k, status) => Settles(k, status)'
  BY <1>1, UntouchedSettles
<1>4. k \in Deployments => /\ OrganizationsOf(k) = Owners(k)
                           /\ \A o \in Owners(k) : cache[o].spec = store[o].spec
  <2> SUFFICES ASSUME k \in Deployments, NEW o \in Organizations,
                      o.name = GetOrganizationName(k.name)
               PROVE  /\ Present(cache[o]) <=> Present(store[o])
                      /\ cache[o].spec = store[o].spec
    BY DEF OrganizationsOf, Owners
  <2> QED
    BY DEF AtRest, PassesFilter, GenInv, CacheBehind, Keys
<1>5. (/\ k \in Deployments =>
            \A o \in Organizations :
              o.name = GetOrganizationName(k.name) => ~ PassesFilter(cache[o], store[o]))'
  BY CacheMoves DEF AtRest, PassesFilter, Follows, Keys
<1>6. CalmStep(k) /\ store[k].phase = "held" /\ Settles(k, store[k].status)
  BY <1>2, CalmSteps DEF AtRest, Settled
<1>7. store[k] \in Object /\ base[k] \in Object /\ mem[k] \in ObjectStatus
  BY DEF TypeOK
<1>8. CASE /\ pc[k] \in {"ok", "fail"}
           /\ CanWrite(k)
           /\ store'[k] = [store[k] EXCEPT !.status = Persisted(mem[k])]
           /\ pc'[k] = "idle"
  <2>1. PICK status : status = Persisted(mem[k])
    OBVIOUS
  <2>2. [base[k] EXCEPT !.status = store[k].status] = store[k]
    BY <1>7, <1>8 DEF CanWrite, Object
  <2>3. Settles(k, status)'
    BY <1>3, <1>8, <2>1, <2>2 DEF AtRest
  <2>4. store'[k].status = status /\ store'[k].phase = "held"
    BY <1>6, <1>7, <1>8, <2>1 DEF Object
  <2> QED
    BY <1>5, <1>8, <2>3, <2>4 DEF AtRest, Settled
<1>9. ASSUME store'[k] = store[k],
             /\ pc'[k] \in {"ok", "fail"}
             /\ [base'[k] EXCEPT !.status = store'[k].status] = store'[k]
             => Settles(k, Persisted(mem'[k]))
      PROVE  AtRest(k)'
  <2>1. PICK status : status = store[k].status
    OBVIOUS
  <2>2. Settled(k)'
    BY <1>3, <1>6, <1>9, <2>1 DEF Settled
  <2>3. PICK result : result = Persisted(mem'[k])
    OBVIOUS
  <2>4. /\ pc'[k] \in {"ok", "fail"}
        /\ [base'[k] EXCEPT !.status = store'[k].status] = store'[k]
        => Settles(k, result)'
    BY <1>3, <1>9, <2>3
  <2> QED
    BY <1>5, <2>2, <2>3, <2>4 DEF AtRest, Persisted
<1>10. CASE /\ store'[k] = store[k]
            /\ pc'[k] = pc[k] /\ base'[k] = base[k] /\ mem'[k] = mem[k]
  BY <1>9, <1>10 DEF AtRest
<1>11. CASE /\ store'[k] = store[k]
            /\ pc'[k] \in {"idle", "remove", "add", "logic"} \/ base'[k].phase # "held"
  <2>1. TypeOK'
    BY TypeStep
  <2>2. [base'[k] EXCEPT !.status = store'[k].status] = store'[k] => base'[k].phase = "held"
    BY <1>6, <1>11, <2>1 DEF TypeOK, Object
  <2> QED
    BY <1>9, <1>11, <2>2
<1>12. CASE store'[k] = store[k] /\ WorkerSucceeds(k)
  <2>1. [base'[k] EXCEPT !.status = store'[k].status] = store'[k] => base[k].spec = store[k].spec
    BY <1>7, <1>12 DEF WorkerSucceeds, Object
  <2> QED
    BY <1>4, <1>9, <1>12, <2>1, HandlerSettles
<1>13. CASE /\ store'[k] = store[k]
            /\ k \in Deployments
            /\ OrganizationsOf(k) = {}
            /\ mem'[k] = SetConditions(OrganizationNotFound(InitializeResource(mem[k])), "False")
  BY <1>4, <1>9, <1>13, NotFoundSettles
<1> QED
  BY <1>6, <1>8, <1>10, <1>11, <1>12, <1>13 DEF CalmStep

\* With deployment2, a status that has become right stays right until a user
\* changes the object or an organization, or a fault happens, whatever copies the
\* passes in between work on.
THEOREM RightIsLasting == ASSUME Reconciler = "deployment2" PROVE Spec => RightStaysRight
<1> DEFINE Lasting ==
      \A k \in Keys :
        /\ AtRest(k)
        /\ faults' = faults
        /\ \A j \in Organizations \cup {k} : ~ PassesFilter(store[j], store'[j])
        => AtRest(k)'
<1>1. TypeOK /\ GenInv /\ WorkerInv /\ SuccessInv' /\ [Next]_vars => [Lasting]_vars
  BY StaysAtRest
<1> HIDE DEF Lasting
<1>2. Spec => [][Lasting]_vars
  BY <1>1, TypeCorrect, GenInvHolds, WorkerInvHolds, SuccessInvHolds, PTL DEF Spec
<1> QED
  BY <1>2 DEF RightStaysRight, Lasting

-----------------------------------------------------------------------------
(* A step somebody else takes                                              *)

(***************************************************************************)
(* What another manager, or a user of the same API server, can do to this  *)
(* manager: what it holds stays, and stored objects move.  The invariants  *)
(* of this manager survive both its own steps and such a step; that is all *)
(* ReplicasProofs needs to know of it.                                     *)
(***************************************************************************)
Elsewhere ==
  /\ UNCHANGED << cache, queueVars, workVars, orgEvents, speedy >>
  /\ \A k \in Keys : Moves(store[k], store'[k])

ManagerInv == TypeOK /\ GenInv /\ NeverForgotten /\ WorkerInv /\ ReadyIsHeld

\* The invariants of one manager hold at first.
LEMMA ManagerInvInit == Init => ManagerInv
  BY TypeInit, GenInvInit, NeverForgottenInit, WorkerInvInit, ReadyIsHeldInit DEF ManagerInv

\* The manager's own step preserves them, and is a step elsewhere to others.
LEMMA ManagerInvStep ==
  ASSUME ManagerInv, [Next]_vars
  PROVE  ManagerInv' /\ \A k \in Keys : Moves(store[k], store'[k])
<1>1. \A k \in Keys : Moves(store[k], store'[k])
  BY StoreMoves DEF ManagerInv, GenInv
<1>2. TypeOK' /\ GenInv' /\ NeverForgotten' /\ WorkerInv' /\ ReadyIsHeld'
  BY TypeStep, GenInvStep, NeverForgottenStep, WorkerInvStep, ReadyIsHeldStep DEF ManagerInv
<1> QED
  BY <1>1, <1>2 DEF ManagerInv

\* A change that matters is one the cache has yet to report, so nothing this
\* manager has to do is lost.
LEMMA ElsewhereRemembers ==
  ASSUME TypeOK, TypeOK', GenInv, NeverForgotten, Elsewhere
  PROVE  GenInv' /\ NeverForgotten'
<1>1. ASSUME NEW k \in Keys
      PROVE  /\ Moves(store[k], store'[k])
             /\ cache[k].gen \in Nat /\ store[k].gen \in Nat /\ store'[k].gen \in Nat
             /\ cache[k].gen <= store[k].gen
             /\ cache[k].gen = store[k].gen =>
                  /\ Present(cache[k]) <=> Present(store[k])
                  /\ cache[k].spec = store[k].spec
  BY DEF Elsewhere, TypeOK, Object, GenInv, CacheBehind
<1>2. UNCHANGED << cache, dirty, delayed, pc, base >>
  BY DEF Elsewhere, queueVars, workVars
<1>3. GenInv'
  BY <1>1, <1>2 DEF GenInv, CacheBehind, CopyExists, Moves
<1>4. NeverForgotten'
  BY <1>1, <1>2 DEF NeverForgotten, Polled, Pending, PassesFilter, Moves
<1> QED
  BY <1>3, <1>4

\* TypeOK' and ReadyIsHeld' say something about the other's doing as well.
LEMMA ElsewhereKeeps ==
  ASSUME ManagerInv, Elsewhere, TypeOK', ReadyIsHeld'
  PROVE  ManagerInv'
<1>1. WorkerInv'
  BY DEF ManagerInv, WorkerInv, Elsewhere, workVars
<1> QED
  BY <1>1, ElsewhereRemembers DEF ManagerInv

(***************************************************************************)
(* The same for what deployment2 publishes.                                *)
(***************************************************************************)
PublisherInv == SuccessInv /\ HonestInv /\ ReadyHasOrganization

\* Nothing is published at first.
LEMMA PublisherInvInit == Init => PublisherInv
  BY SuccessInvInit, HonestInvInit, ReadyHasOrganizationInit DEF PublisherInv

\* The manager's own steps keep what it publishes as described.
LEMMA PublisherInvStep ==
  ASSUME Reconciler = "deployment2", ManagerInv, PublisherInv, [Next]_vars
  PROVE  PublisherInv'
  BY SuccessInvStep, HonestInvStep, ReadyHasOrganizationStep DEF ManagerInv, PublisherInv

\* What somebody else publishes has to be honest; what this manager holds stays so.
LEMMA ElsewherePublishes ==
  ASSUME PublisherInv, Elsewhere, ReadyHasOrganization',
         \A d \in Deployments : Honest(store'[d].status)
  PROVE  PublisherInv'
<1>1. UNCHANGED << cache, pc, base, mem >>
  BY DEF Elsewhere, workVars
<1>2. SuccessInv'
  BY <1>1 DEF PublisherInv, SuccessInv, Reflects, OrganizationReflects, DeploymentReflects
<1>3. HonestInv'
  BY <1>1 DEF PublisherInv, HonestInv, Honest
<1> QED
  BY <1>2, <1>3 DEF PublisherInv

\* Only a deployment that was quiet is quiet after it.
LEMMA ElsewhereQuiet ==
  ASSUME TypeOK, TypeOK', GenInv, Elsewhere, NEW d \in Deployments, Quiet(d)'
  PROVE  Quiet(d)
<1>1. /\ Moves(store[d], store'[d])
      /\ UNCHANGED << cache, dirty, delayed, orgEvents >>
  BY DEF Elsewhere, Keys, queueVars
<1>2. /\ cache[d].gen \in Nat /\ store[d].gen \in Nat /\ store'[d].gen \in Nat
      /\ cache[d].gen <= store[d].gen
  BY DEF Keys, TypeOK, Object, GenInv, CacheBehind
<1> QED
  BY <1>1, <1>2 DEF Moves, Quiet, Relevant

\* So a result that was fresh stays so.
LEMMA ElsewhereFresh ==
  ASSUME TypeOK, TypeOK', GenInv, ResultIsFresh, Elsewhere
  PROVE  ResultIsFresh'
<1> SUFFICES ASSUME NEW d \in Deployments, Quiet(d)', pc'[d] = "ok"
             PROVE  MadeFromCache(d, mem[d].register, base[d].spec)'
  BY DEF ResultIsFresh
<1>1. UNCHANGED << cache, pc, base, mem >>
  BY DEF Elsewhere, workVars
<1>2. MadeFromCache(d, mem[d].register, base[d].spec)
  BY <1>1, ElsewhereQuiet DEF ResultIsFresh
<1> QED
  BY <1>1, <1>2 DEF MadeFromCache, OrganizationsOf

\* A deployment whose object the other one leaves alone stays.
LEMMA ElsewhereStays ==
  ASSUME Elsewhere, NEW d \in Deployments, Quiet(d), pc[d] = "idle", store'[d] = store[d]
  PROVE  Stays(d)
  BY DEF Elsewhere, Stays, OrganizationsOf

\* A status the other one leaves right is right to this manager, whose result, if
\* it has one, has become no worse.
LEMMA ElsewhereRests ==
  ASSUME TypeOK, TypeOK', Elsewhere, NEW k \in Keys, AtRest(k), Settled(k)',
         \A j \in Organizations \cup {k} : ~ PassesFilter(store[j], store'[j])
  PROVE  AtRest(k)'
<1>1. /\ store'[k].gen = store[k].gen
      /\ store'[k].spec = store[k].spec
      /\ \A status : Settles(k, status) => Settles(k, status)'
  BY UntouchedSettles DEF Elsewhere
<1>2. UNCHANGED << cache, pc, base, mem >>
  BY DEF Elsewhere, workVars
<1>3. store[k].phase = "held" /\ store'[k].phase = "held"
  BY DEF AtRest, Settled
<1>4. [base[k] EXCEPT !.status = store'[k].status] = store'[k]
      => [base[k] EXCEPT !.status = store[k].status] = store[k]
  <2>1. store[k] \in Object /\ store'[k] \in Object /\ base[k] \in Object
    BY DEF TypeOK
  <2> QED
    BY <1>1, <1>3, <2>1 DEF Object
<1>5. PICK result : result = Persisted(mem[k])
  OBVIOUS
<1>6. pc[k] \in {"ok", "fail"} /\ [base[k] EXCEPT !.status = store'[k].status] = store'[k]
      => Settles(k, result)'
  BY <1>1, <1>4, <1>5 DEF AtRest
<1>7. (k \in Deployments =>
         \A o \in Organizations :
           o.name = GetOrganizationName(k.name) => ~ PassesFilter(cache[o], store[o]))'
  BY <1>2 DEF AtRest, PassesFilter
<1> QED
  BY <1>2, <1>5, <1>6, <1>7 DEF AtRest, Persisted
=============================================================================
