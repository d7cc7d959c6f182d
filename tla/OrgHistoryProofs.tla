-------------------------- MODULE OrgHistoryProofs --------------------------
(***************************************************************************)
(* The proof that the intent manager implements OrgPublish, for every set  *)
(* of names, namespaces and specs, both deployment controllers, and every  *)
(* bound on edits and faults.                                              *)
(***************************************************************************)
EXTENDS OrgHistory, OrgStatusProofs

-----------------------------------------------------------------------------
(* The history variables do not influence the program                      *)

LEMMA HistoryStep == [HistoryNext]_historyVars => [Next]_vars
  BY DEF HistoryNext, historyVars

\* Every behaviour with history variables is a behaviour of the manager.
THEOREM HistoryIsHarmless == HistorySpec => Spec
<1>1. HistoryInit => Init
  BY DEF HistoryInit
<1> QED
  BY <1>1, HistoryStep, PTL DEF HistorySpec, Spec

-----------------------------------------------------------------------------
(* OrgPublish uses the same functions as the program                       *)

LEMMA SameNames ==
  \A name : Published!GetOrganizationName(name) = GetOrganizationName(name)
  BY DEF Published!GetOrganizationName, GetOrganizationName, Published!Empty, Empty

LEMMA SameValues ==
  /\ Published!NoRegister = NoRegister
  /\ Published!NilSpec = NilSpec
  /\ Published!NoStatus = NoStatus
  /\ Published!ObjectSpec = ObjectSpec
<1>1. Published!NoRegister = NoRegister
  BY DEF Published!NoRegister, NoRegister
<1>2. Published!RegisterMaps = RegisterMaps
  BY DEF Published!RegisterMaps, RegisterMaps
<1> QED
  BY <1>1, <1>2 DEF Published!NilSpec, NilSpec, Published!NoStatus, NoStatus, Published!ObjectSpec,
    ObjectSpec, Published!Nil, Nil

LEMMA SameStatuses ==
  /\ \A status : Published!InitializeResource(status) = InitializeResource(status)
  /\ \A status, ready : Published!SetConditions(status, ready) = SetConditions(status, ready)
  /\ \A status : Published!Persisted(status) = Persisted(status)
  /\ \A status : Published!OrganizationNotFound(status) = OrganizationNotFound(status)
  BY SameValues
  DEF Published!InitializeResource, InitializeResource, Published!SetConditions, SetConditions,
      Published!Persisted, Persisted, Published!Defaulted, Defaulted, Published!Blank, Blank,
      Published!OrganizationNotFound, OrganizationNotFound

LEMMA SameLogic ==
  /\ \A status, spec : Published!OrganizationLogic(status, spec) = OrganizationLogic(status, spec)
  /\ \A status, spec, org :
       Published!DeploymentLogic(Reconciler, status, spec, org)
         = DeploymentLogic(Reconciler, status, spec, org)
<1>1. \A given : Published!GetAddressAllocationStrategy(given) = GetAddressAllocationStrategy(given)
  BY DEF Published!GetAddressAllocationStrategy, GetAddressAllocationStrategy,
    Published!Nil, Nil, Published!Blank, Blank
<1>2. \A org, dep : Published!GetDeploymentStrategy(org, dep) = GetDeploymentStrategy(org, dep)
  BY DEF Published!GetDeploymentStrategy, GetDeploymentStrategy, Published!Nil, Nil
<1>3. \A org, dep : Published!GetDeploymentRegister(org, dep) = GetDeploymentRegister(org, dep)
  BY DEF Published!GetDeploymentRegister, GetDeploymentRegister
<1>4. \A status : Published!AdminStateDisabled(status) = AdminStateDisabled(status)
  BY SameValues DEF Published!AdminStateDisabled, AdminStateDisabled
<1>5. \A status, spec, org :
        /\ Published!Deployment2Enabled(status, spec, org) = Deployment2Enabled(status, spec, org)
        /\ Published!DeploymentEnabled(status, spec, org) = DeploymentEnabled(status, spec, org)
  BY <1>1, <1>2, <1>3 DEF Published!Deployment2Enabled, Deployment2Enabled,
    Published!DeploymentEnabled, DeploymentEnabled
<1> QED
  BY <1>1, <1>4, <1>5 DEF Published!OrganizationLogic, OrganizationLogic,
    Published!DeploymentLogic, DeploymentLogic

\* The statuses of a failed pass.
LEMMA FailuresAre ==
  \A status : Published!Failures(status) =
    { SetConditions(status, "False"), SetConditions(InitializeResource(status), "False") }
<1> SUFFICES ASSUME NEW status
             PROVE  Published!Failures(status) =
                      { SetConditions(status, "False"),
                        SetConditions(InitializeResource(status), "False") }
  OBVIOUS
<1>1. Published!Failures(status) =
        { SetConditions(s, "False") : s \in { status, InitializeResource(status) } }
  BY SameStatuses DEF Published!Failures
<1> QED
  BY <1>1

-----------------------------------------------------------------------------
(* The invariant                                                           *)

V(object) == Published!Version(Seen(object))

HistoryTypes ==
  /\ past = [o \in Organizations |-> past[o]]
  /\ draft \in [Deployments -> [Organizations -> Nat]]
  /\ used \in [Deployments -> [Organizations -> Nat]]

\* What the API server holds and what the cache holds has been stored.
Recorded == \A o \in Organizations : V(store[o]) \in past[o] /\ V(cache[o]) \in past[o]

\* A worker's list is not newer than the cache, nor older than the one before.
Ordered ==
  \A d \in Deployments, o \in Organizations :
    used[d][o] <= draft[d][o] /\ draft[d][o] <= cache[o].gen

\* A snapshot of the organizations at the generations d's worker has listed.
DraftOf(d, snapshot) ==
  /\ snapshot \in [Organizations -> UNION { past[o] : o \in Organizations }]
  /\ \A o \in Organizations : snapshot[o] \in past[o] /\ snapshot[o].gen = draft[d][o]

Drafted == \A d \in Deployments : \E snapshot : DraftOf(d, snapshot)

\* A worker's copy exists, and until the application logic its status is the copy's.
Copied ==
  \A k \in Keys :
    /\ pc[k] # "idle" => Present(base[k])
    /\ pc[k] \in {"remove", "add", "logic"} => mem[k] = base[k].status

\* What a worker that is about to write holds was made from its copy ...
OrganizationDone ==
  \A o \in Organizations :
    /\ pc[o] = "ok" =>
         mem[o] = SetConditions(
                    OrganizationLogic(InitializeResource(base[o].status), base[o].spec), "True")
    /\ pc[o] = "fail" => mem[o] \in Published!Failures(base[o].status)

OutcomesOf(d, object, snapshot) ==
  LET status == InitializeResource(object.status)
  IN  IF Published!Owners(d, snapshot) = {}
      THEN { SetConditions(OrganizationNotFound(status), "False") }
      ELSE { SetConditions(
               DeploymentLogic(Reconciler, status, object.spec, snapshot[o].spec), "True")
             : o \in Published!Owners(d, snapshot) }

\* ... and, for a deployment, from the organizations as they were when listed.
DeploymentDone ==
  \A d \in Deployments :
    pc[d] \in {"ok", "fail"} =>
      \E snapshot :
        /\ DraftOf(d, snapshot)
        /\ mem[d] \in OutcomesOf(d, base[d], snapshot) \cup Published!Failures(base[d].status)

HistoryInv ==
  /\ HistoryTypes /\ Recorded /\ Ordered /\ Drafted
  /\ Copied /\ OrganizationDone /\ DeploymentDone

LEMMA HistoryInvInit == HistoryInit => HistoryInv
<1> SUFFICES ASSUME HistoryInit PROVE HistoryInv
  OBVIOUS
<1>1. Init /\ past = [o \in Organizations |-> { V(Gone(0)) }]
  BY DEF HistoryInit, V
<1>2. V(Gone(0)).gen = 0 /\ Gone(0).gen = 0
  BY DEF V, Published!Version, Seen, Gone
<1>3. HistoryTypes
  BY <1>1 DEF HistoryInit, HistoryTypes
<1>4. Recorded
  BY <1>1 DEF Init, Recorded, Keys
<1>5. Ordered
  BY <1>2 DEF HistoryInit, Init, Ordered, Keys
<1>6. Drafted
  <2> SUFFICES ASSUME NEW d \in Deployments PROVE DraftOf(d, [o \in Organizations |-> V(Gone(0))])
    BY DEF Drafted
  <2> QED
    BY <1>1, <1>2 DEF HistoryInit, DraftOf
<1>7. Copied /\ OrganizationDone /\ DeploymentDone
  BY <1>1 DEF Init, Copied, OrganizationDone, DeploymentDone, Keys
<1> QED
  BY <1>3, <1>4, <1>5, <1>6, <1>7 DEF HistoryInv

\* The history only grows.
LEMMA PastGrows ==
  ASSUME HistoryInv, Record
  PROVE  /\ past' = [o \in Organizations |-> past'[o]]
         /\ \A o \in Organizations : past'[o] = past[o] \cup { V(store'[o]) }
  BY DEF Record, V

\* What a worker that lists the organizations now sees of them.
Listed == [o \in Organizations |-> V(cache[o])]

\* The owners in that snapshot are the organizations handleAppLogic finds.
LEMMA OwnersListed ==
  ASSUME NEW d \in Deployments
  PROVE  /\ Published!Owners(d, Listed) = OrganizationsOf(d)
         /\ \A o \in OrganizationsOf(d) : Listed[o].spec = cache[o].spec
<1>1. \A o \in Organizations :
        Listed[o].present = Present(cache[o]) /\ Listed[o].spec = cache[o].spec
  BY DEF Listed, V, Published!Version, Seen
<1> QED
  BY <1>1, SameNames DEF Published!Owners, OrganizationsOf

\* A snapshot at the generations of d's last list stays one as the history grows,
\* and a list that d's worker makes now gives one.
LEMMA DraftsStay ==
  ASSUME TypeOK, HistoryInv, Record, NEW d \in Deployments
  PROVE  /\ \A snapshot : DraftOf(d, snapshot) /\ draft'[d] = draft[d] => DraftOf(d, snapshot)'
         /\ \A snapshot : Lists(d) /\ snapshot = Listed => DraftOf(d, snapshot)'
<1>1. \A o \in Organizations : past[o] \subseteq past'[o]
  BY PastGrows
<1>2. ASSUME NEW snapshot, DraftOf(d, snapshot), draft'[d] = draft[d]
      PROVE  DraftOf(d, snapshot)'
  BY <1>1, <1>2 DEF DraftOf
<1>3. ASSUME NEW snapshot, Lists(d), snapshot = Listed
      PROVE  DraftOf(d, snapshot)'
  <2>1. draft'[d] = Generations
    BY <1>3 DEF Record
  <2>2. \A o \in Organizations : V(cache[o]) \in past'[o] /\ V(cache[o]).gen = cache[o].gen
    BY <1>1 DEF HistoryInv, Recorded, V, Published!Version, Seen
  <2> QED
    BY <1>3, <2>1, <2>2 DEF DraftOf, Generations, Listed
<1> QED
  BY <1>2, <1>3

LEMMA HistoryInvStep ==
  ASSUME TypeOK, GenInv, HistoryInv, [HistoryNext]_historyVars
  PROVE  HistoryInv'
<1>1. CASE UNCHANGED historyVars
  <2>1. UNCHANGED << store, cache, pc, base, mem, past, draft, used >>
    BY <1>1 DEF historyVars, vars, workVars
  <2>2. \A d, snapshot : DraftOf(d, snapshot) => DraftOf(d, snapshot)'
    BY <2>1 DEF DraftOf
  <2>3. HistoryTypes' /\ Recorded' /\ Ordered' /\ Copied'
    BY <2>1 DEF HistoryInv, HistoryTypes, Recorded, Ordered, Copied
  <2>4. Drafted' /\ DeploymentDone'
    BY <2>1, <2>2 DEF HistoryInv, Drafted, DeploymentDone, OutcomesOf, Published!Owners,
      Published!Failures
  <2>5. OrganizationDone'
    BY <2>1 DEF HistoryInv, OrganizationDone, Published!Failures
  <2> QED
    BY <2>3, <2>4, <2>5 DEF HistoryInv
<1>2. CASE HistoryNext
  <2>0. /\ Record /\ [Next]_vars
        /\ \A o \in Organizations : o \in Keys
        /\ \A d \in Deployments : d \in Keys
    BY <1>2 DEF HistoryNext, Keys
  <2>1. \A o \in Organizations :
          /\ Follows(o)
          /\ cache[o].gen \in Nat /\ store[o].gen \in Nat
          /\ cache[o].gen <= store[o].gen
          /\ cache'[o].gen \in Nat /\ cache[o].gen <= cache'[o].gen
    BY <2>0, CacheMoves DEF Follows, TypeOK, Object, GenInv, CacheBehind
  <2>2. HistoryTypes'
    BY <2>0, <2>1, PastGrows DEF Record, HistoryInv, HistoryTypes, Generations
  <2>3. Recorded'
    BY <2>0, <2>1, PastGrows DEF HistoryInv, Recorded, Follows
  <2>4. Ordered'
    <3> SUFFICES ASSUME NEW d \in Deployments, NEW o \in Organizations
                 PROVE  used'[d][o] <= draft'[d][o] /\ draft'[d][o] <= cache'[o].gen
      BY DEF Ordered
    <3>1. /\ draft'[d] = (IF Lists(d) THEN Generations ELSE draft[d])
          /\ used'[d] = (IF Writes(d) THEN draft[d] ELSE used[d])
          /\ Generations[o] = cache[o].gen
          /\ Writes(d) => ~ Lists(d)
      BY <2>0 DEF Record, Generations, Lists, Writes
    <3>2. /\ used[d][o] \in Nat /\ draft[d][o] \in Nat
          /\ used[d][o] <= draft[d][o] /\ draft[d][o] <= cache[o].gen
      BY DEF HistoryInv, HistoryTypes, Ordered
    <3> QED
      BY <2>1, <3>1, <3>2
  <2>5. Drafted'
    <3> SUFFICES ASSUME NEW d \in Deployments PROVE \E snapshot : DraftOf(d, snapshot)'
      BY DEF Drafted
    <3>1. CASE Lists(d)
      BY <2>0, <3>1, DraftsStay
    <3>2. CASE ~ Lists(d)
      BY <2>0, <3>2, DraftsStay DEF Record, HistoryInv, Drafted
    <3> QED
      BY <3>1, <3>2
  <2>6. Copied'
    <3> SUFFICES ASSUME NEW k \in Keys
                 PROVE  /\ pc'[k] # "idle" => Present(base'[k])
                        /\ pc'[k] \in {"remove", "add", "logic"} => mem'[k] = base'[k].status
      BY DEF Copied
    <3>1. WorkerStep(k)
      BY <2>0, WorkerSteps
    <3> QED
      BY <3>1 DEF WorkerStep, WorkerStops, WorkerStarts, WorkerProtects, WorkerFails,
        WorkerSucceeds, HistoryInv, Copied, Present
  <2>7. OrganizationDone'
    <3> SUFFICES ASSUME NEW o \in Organizations
                 PROVE  /\ pc'[o] = "ok" =>
                             mem'[o] = SetConditions(OrganizationLogic(
                               InitializeResource(base'[o].status), base'[o].spec), "True")
                        /\ pc'[o] = "fail" => mem'[o] \in Published!Failures(base'[o].status)
      BY DEF OrganizationDone, Published!Failures
    <3>1. WorkerStep(o) /\ o \notin Deployments
      BY <2>0, WorkerSteps DEF Organizations, Deployments
    <3>2. WorkerFails(o) => mem'[o] \in Published!Failures(base'[o].status)
      BY <2>0, <3>1, FailuresAre DEF WorkerFails, HistoryInv, Copied
    <3> QED
      BY <2>0, <3>1, <3>2 DEF WorkerStep, WorkerStops, WorkerStarts, WorkerProtects, WorkerFails,
        WorkerSucceeds, OrganizationSucceeds, HistoryInv, Copied, OrganizationDone
  <2>8. DeploymentDone'
    <3> SUFFICES ASSUME NEW d \in Deployments, pc'[d] \in {"ok", "fail"}
                 PROVE  \E snapshot :
                          /\ DraftOf(d, snapshot)'
                          /\ mem'[d] \in OutcomesOf(d, base'[d], snapshot)
                                           \cup Published!Failures(base'[d].status)
      BY DEF DeploymentDone, OutcomesOf, Published!Failures, Published!Owners
    <3>1. WorkerStep(d) /\ d \in Keys
      BY <2>0, WorkerSteps
    <3>2. CASE pc'[d] = pc[d] /\ base'[d] = base[d] /\ mem'[d] = mem[d]
      <4>1. PICK snapshot :
              /\ DraftOf(d, snapshot)
              /\ mem[d] \in OutcomesOf(d, base[d], snapshot) \cup Published!Failures(base[d].status)
        BY <3>2 DEF HistoryInv, DeploymentDone
      <4>2. draft'[d] = draft[d]
        BY <2>0, <3>2 DEF Record, Lists
      <4> QED
        BY <2>0, <3>2, <4>1, <4>2, DraftsStay
    <3>3. CASE WorkerFails(d) /\ mem'[d] \in Published!Failures(base'[d].status)
      BY <2>5, <3>3 DEF Drafted
    <3>4. CASE WorkerFails(d) /\ mem'[d] \notin Published!Failures(base'[d].status)
      <4>1. /\ pc[d] = "logic" /\ pc'[d] = "fail"
            /\ OrganizationsOf(d) = {}
            /\ mem[d] = base[d].status /\ base'[d] = base[d]
            /\ mem'[d] = SetConditions(OrganizationNotFound(InitializeResource(mem[d])), "False")
        BY <3>1, <3>4, FailuresAre DEF WorkerFails, HistoryInv, Copied
      <4>2. PICK snapshot : snapshot = Listed
        OBVIOUS
      <4>3. DraftOf(d, snapshot)'
        BY <2>0, <4>1, <4>2, DraftsStay DEF Lists
      <4>4. Published!Owners(d, snapshot) = {}
        BY <4>1, <4>2, OwnersListed
      <4>5. mem'[d] \in OutcomesOf(d, base'[d], snapshot)
        BY <4>1, <4>4 DEF OutcomesOf
      <4> QED
        BY <4>3, <4>5
    <3>5. CASE WorkerSucceeds(d)
      <4>1. /\ pc[d] = "logic" /\ pc'[d] = "ok"
            /\ mem[d] = base[d].status /\ base'[d] = base[d]
        BY <3>1, <3>5 DEF WorkerSucceeds, HistoryInv, Copied
      <4>2. PICK snapshot : snapshot = Listed
        OBVIOUS
      <4>3. DraftOf(d, snapshot)'
        BY <2>0, <4>1, <4>2, DraftsStay DEF Lists
      <4>4. PICK o \in OrganizationsOf(d) :
              mem'[d] = SetConditions(DeploymentLogic(
                Reconciler, InitializeResource(mem[d]), base[d].spec, cache[o].spec), "True")
        BY <3>5 DEF WorkerSucceeds, DeploymentSucceeds
      <4>5. o \in Published!Owners(d, snapshot) /\ snapshot[o].spec = cache[o].spec
        BY <4>2, <4>4, OwnersListed
      <4>6. mem'[d] \in OutcomesOf(d, base'[d], snapshot)
        BY <4>1, <4>4, <4>5 DEF OutcomesOf
      <4> QED
        BY <4>3, <4>6
    <3> QED
      BY <3>1, <3>2, <3>3, <3>4, <3>5
      DEF WorkerStep, WorkerStops, WorkerStarts, WorkerProtects
  <2> QED
    BY <2>2, <2>3, <2>4, <2>5, <2>6, <2>7, <2>8 DEF HistoryInv
<1> QED
  BY <1>1, <1>2

LEMMA HistoryInvHolds == HistorySpec => [](TypeOK /\ GenInv /\ HistoryInv)
<1>1. HistorySpec => [](TypeOK /\ GenInv)
  BY HistoryIsHarmless, TypeCorrect, GenInvHolds, PTL
<1> QED
  BY <1>1, HistoryInvInit, HistoryInvStep, PTL DEF HistorySpec

-----------------------------------------------------------------------------
(* What a step does to the stored objects                                  *)

\* Users change k, or its deletion comes to its end ...
Shifts(k, new) ==
  /\ new.gen = store[k].gen + 1
  /\ new.status \in { store[k].status, NoStatus }
  /\ pc'[k] = pc[k] \/ pc[k] = "remove"

\* ... or it gets its finalizer, which readers do not see ...
Touches(k, new) == Seen(new) = Seen(store[k])

\* ... or the status its worker holds, which has read this very object.
Stores(k, new) ==
  /\ pc[k] \in {"ok", "fail"}
  /\ pc'[k] = "idle"
  /\ base[k] = store[k]
  /\ new = [store[k] EXCEPT !.status = Persisted(mem[k])]

Changes(k, new) ==
  /\ store' = [store EXCEPT ![k] = new]
  /\ Shifts(k, new) \/ Touches(k, new) \/ Stores(k, new)

LEMMA StoreChanges ==
  ASSUME TypeOK, GenInv, [Next]_vars
  PROVE  UNCHANGED store \/ \E k \in Keys : \E new : Changes(k, new)
<1> DEFINE Goal == UNCHANGED store \/ \E k \in Keys : \E new : Changes(k, new)
<1>1. \A k \in Keys : store[k] \in Object /\ Gone(store[k].gen + 1).gen = store[k].gen + 1
                      /\ Gone(store[k].gen + 1).status = NoStatus
  BY DEF TypeOK, Gone
<1>2. ASSUME NEW k \in Keys, User(k) PROVE Goal
  <2>1. PICK new : /\ UserChange(k, new) /\ new.gen = store[k].gen + 1
                   /\ new.status \in { store[k].status, NoStatus }
    <3>1. CASE Create(k)
      BY <3>1 DEF Create
    <3>2. CASE Edit(k)
      <4>1. PICK spec : UserChange(k, [store[k] EXCEPT !.gen = @ + 1, !.spec = spec])
        BY <3>2 DEF Edit
      <4>2. /\ [store[k] EXCEPT !.gen = @ + 1, !.spec = spec].gen = store[k].gen + 1
            /\ [store[k] EXCEPT !.gen = @ + 1, !.spec = spec].status = store[k].status
        BY <1>1 DEF Object
      <4> QED
        BY <4>1, <4>2
    <3>3. CASE Delete(k)
      <4>1. /\ [store[k] EXCEPT !.gen = @ + 1, !.phase = "deleting"].gen = store[k].gen + 1
            /\ [store[k] EXCEPT !.gen = @ + 1, !.phase = "deleting"].status = store[k].status
        BY <1>1 DEF Object
      <4> QED
        BY <1>1, <3>3, <4>1 DEF Delete
    <3> QED
      BY <1>2, <3>1, <3>2, <3>3 DEF User
  <2> QED
    BY <2>1 DEF UserChange, workVars, Changes, Shifts
<1>3. ASSUME NEW k \in Keys, RemoveFinalizer(k) \/ RemoveFinalizerFails(k) PROVE Goal
  <2>1. \/ UNCHANGED store
        \/ store' = [store EXCEPT ![k] = Gone(store[k].gen + 1)]
    BY <1>3 DEF RemoveFinalizer, RemoveFinalizerFails, Refused, AnswerLost
  <2>2. pc[k] = "remove"
    BY <1>3 DEF RemoveFinalizer, RemoveFinalizerFails
  <2> QED
    BY <1>1, <2>1, <2>2 DEF Changes, Shifts
<1>4. ASSUME NEW k \in Keys, AddFinalizer(k) \/ AddFinalizerFails(k) PROVE Goal
  <2>1. pc[k] = "add"
    BY <1>4 DEF AddFinalizer, AddFinalizerFails
  <2>2. \/ UNCHANGED store
        \/ base[k] = store[k] /\ store' = [store EXCEPT ![k] = WithFinalizer(store[k])]
    BY <1>4 DEF AddFinalizer, AddFinalizerFails, Refused, AnswerLost, CanWrite
  <2>3. base[k] = store[k] => Seen(WithFinalizer(store[k])) = Seen(store[k])
    <3>1. Present(base[k])
      BY <2>1 DEF GenInv, CopyExists
    <3>2. /\ WithFinalizer(store[k]).gen = store[k].gen
          /\ WithFinalizer(store[k]).spec = store[k].spec
          /\ WithFinalizer(store[k]).status = store[k].status
          /\ Present(WithFinalizer(store[k]))
      BY <1>1 DEF WithFinalizer, Present, Object
    <3> QED
      BY <3>1, <3>2 DEF Seen, Present
  <2> QED
    BY <2>2, <2>3 DEF Changes, Touches
<1>5. ASSUME NEW k \in Keys, UpdateStatus(k) \/ UpdateStatusFails(k) PROVE Goal
  <2>1. pc[k] \in {"ok", "fail"} /\ pc'[k] = "idle"
    BY <1>5 DEF UpdateStatus, UpdateStatusFails, Finish, TypeOK
  <2>2. \/ UNCHANGED store
        \/ /\ base[k] = store[k]
           /\ store' = [store EXCEPT ![k].status = Persisted(mem[k])]
        \/ /\ base[k] = store[k]
           /\ store' = [store EXCEPT ![k] = [store[k] EXCEPT !.status = Persisted(mem[k])]]
    BY <1>5 DEF UpdateStatus, UpdateStatusFails, Refused, AnswerLost, CanWrite
  <2> QED
    BY <2>1, <2>2 DEF Changes, Stores
<1>6. ASSUME NEW k \in Keys, Work(k) PROVE Goal
  BY <1>3, <1>4, <1>5, <1>6
  DEF Work, OrganizationAppLogic, DeploymentAppLogic, DeploymentListFails, Panic, RestartManager
<1>7. ASSUME NEW k, Sync(k) \/ TimerFires(k) \/ Begin(k) \/ OrgEvent(k) PROVE Goal
  BY <1>7 DEF Sync, TimerFires, Begin, StartNotFound, Start, StartFails, OrgEvent,
    HandleOrgEvent, LoseOrgEvent
<1>8. CASE Crash \/ UNCHANGED vars
  BY <1>8 DEF Crash, RestartManager, vars
<1> QED
  BY <1>2, <1>6, <1>7, <1>8, KeysAssumption DEF Next

-----------------------------------------------------------------------------
(* Every step is one of OrgPublish, or invisible to it                     *)

\* The objects as readers see them.
View == [k \in Keys |-> Seen(store[k])]

\* A step that changes no status that a deployment's worker writes leaves the
\* used snapshots as they are.
LEMMA UsedStays ==
  ASSUME HistoryInv, Record, \A d \in Deployments : ~ Writes(d)
  PROVE  UNCHANGED used
  BY DEF Record, HistoryInv, HistoryTypes

\* A step that readers do not see leaves the history as it is.
LEMMA PastStays ==
  ASSUME HistoryInv, Record, \A o \in Organizations : Seen(store'[o]) = Seen(store[o])
  PROVE  UNCHANGED past
<1>1. ASSUME NEW o \in Organizations PROVE past'[o] = past[o]
  <2>1. V(store'[o]) = V(store[o])
    BY DEF V
  <2>2. V(store[o]) \in past[o]
    BY DEF HistoryInv, Recorded
  <2>3. past'[o] = past[o] \cup { V(store'[o]) }
    BY PastGrows
  <2> HIDE DEF V
  <2> QED
    BY <2>1, <2>2, <2>3
<1> QED
  BY <1>1, PastGrows DEF HistoryInv, HistoryTypes

LEMMA Invisible ==
  ASSUME HistoryInv, Record, \A k \in Keys : Seen(store'[k]) = Seen(store[k])
  PROVE  UNCHANGED Published!vars
<1>1. \A k \in Keys : store'[k].status = store[k].status
  BY DEF Seen
<1>2. UNCHANGED << past, used >>
  BY <1>1, UsedStays, PastStays DEF Writes, Keys
<1>3. UNCHANGED View
  BY DEF View
<1> QED
  BY <1>2, <1>3 DEF Published!vars, View

\* Readers see the change of one object.
LEMMA ViewChanges ==
  ASSUME TypeOK, NEW k \in Keys, NEW new, store' = [store EXCEPT ![k] = new]
  PROVE  /\ View' = [View EXCEPT ![k] = Seen(new)]
         /\ View'[k] = Seen(new) /\ View[k] = Seen(store[k]) /\ store'[k] = new
         /\ \A j \in Keys \ {k} : store'[j] = store[j]
  BY DEF View, TypeOK

\* The history grows by the versions of the objects readers see.
LEMMA PastIsView ==
  ASSUME HistoryInv, Record
  PROVE  past' = [o \in Organizations |-> past[o] \cup { Published!Version(View'[o]) }]
  BY DEF Record, View, Keys

LEMMA ChangeImplemented ==
  ASSUME TypeOK, HistoryInv, Record, TypeOK', NEW k \in Keys, NEW new,
         store' = [store EXCEPT ![k] = new], Shifts(k, new)
  PROVE  Published!Change(k)
<1>1. new \in Object
  BY ViewChanges DEF TypeOK
<1>2. /\ Seen(new).gen = View[k].gen + 1
      /\ Seen(new).present \in BOOLEAN
      /\ Seen(new).spec \in Published!ObjectSpec
      /\ Seen(new).status \in { View[k].status, Published!NoStatus }
  <2>1. Seen(new).gen = new.gen /\ Seen(new).spec = new.spec /\ Seen(new).status = new.status
        /\ Seen(new).present = Present(new)
    BY DEF Seen
  <2>2. View[k].gen = store[k].gen /\ View[k].status = store[k].status
    BY DEF View, Seen
  <2> QED
    BY <1>1, <2>1, <2>2, SameValues DEF Shifts, Present, Object
<1>3. UNCHANGED used
  <2>1. \A d \in Deployments : d \in Keys
    BY DEF Keys
  <2>2. \A d \in Deployments : ~ Writes(d)
    BY <2>1, ViewChanges DEF Writes, Shifts
  <2> QED
    BY <2>2, UsedStays
<1>4. /\ View' = [View EXCEPT ![k] = View'[k]]
      /\ View'[k] = Seen(new)
  BY ViewChanges
<1> QED
  BY <1>2, <1>3, <1>4, PastIsView DEF Published!Change, View

\* A status that is written is published, and made from what OrgPublish allows.
LEMMA PublishImplemented ==
  ASSUME TypeOK, GenInv, HistoryInv, Record, NEW k \in Keys, NEW new,
         store' = [store EXCEPT ![k] = new], Stores(k, new), new.status # store[k].status
  PROVE  Published!Next
<1>1. /\ store[k] \in Object /\ base[k] = store[k] /\ Present(store[k])
      /\ pc[k] \in {"ok", "fail"} /\ pc'[k] = "idle"
  BY DEF TypeOK, Stores, HistoryInv, Copied
<1>2. Seen(new) = [Seen(store[k]) EXCEPT !.status = Persisted(mem[k])]
  BY <1>1 DEF Stores, Seen, Present, Object
<1>3. UNCHANGED past
  <2>1. \A o \in Organizations : V(store'[o]) = V(store[o])
    <3>1. V(new) = V(store[k])
      BY <1>2 DEF V, Published!Version, Seen
    <3> QED
      BY <3>1, ViewChanges DEF Keys
  <2>2. \A o \in Organizations : past'[o] = past[o]
    <3> SUFFICES ASSUME NEW o \in Organizations PROVE past'[o] = past[o]
      OBVIOUS
    <3>1. past'[o] = past[o] \cup { V(store'[o]) }
      BY PastGrows
    <3>2. V(store'[o]) = V(store[o]) /\ V(store[o]) \in past[o]
      BY <2>1 DEF HistoryInv, Recorded
    <3> QED
      BY <3>1, <3>2
  <2> QED
    BY <2>2, PastGrows DEF HistoryInv, HistoryTypes
<1>4. ASSUME NEW status, mem[k] = status PROVE Published!Publish(k, status)
  <2>1. View' = [View EXCEPT ![k].status = Published!Persisted(status)]
    BY <1>2, <1>4, ViewChanges, SameStatuses
  <2>2. View[k].present
    BY <1>1 DEF View, Seen
  <2> QED
    BY <1>3, <2>1, <2>2 DEF Published!Publish, View
<1>5. View[k].status = store[k].status /\ View[k].spec = store[k].spec
  BY DEF View, Seen
<1>6. \A d \in Deployments \ {k} : ~ Writes(d)
  BY ViewChanges DEF Writes, Keys
<1>7. CASE k \in Organizations
  <2>1. k \notin Deployments
    BY <1>7 DEF Organizations, Deployments
  <2>2. UNCHANGED used
    BY <1>6, <2>1, UsedStays
  <2>3. \/ mem[k] = SetConditions(
              OrganizationLogic(InitializeResource(store[k].status), store[k].spec), "True")
        \/ mem[k] \in Published!Failures(store[k].status)
    BY <1>1, <1>7 DEF HistoryInv, OrganizationDone
  <2>4. \/ mem[k] = Published!SetConditions(Published!OrganizationLogic(
                      Published!InitializeResource(View[k].status), View[k].spec), "True")
        \/ mem[k] \in Published!Failures(View[k].status)
    BY <1>5, <2>3, SameStatuses, SameLogic
  <2>5. Published!PublishOrganization(k)
    BY <1>4, <2>2, <2>4 DEF Published!PublishOrganization, View
  <2> QED
    BY <1>7, <2>5 DEF Published!Next
<1>8. CASE k \in Deployments
  <2>1. PICK snapshot :
          /\ DraftOf(k, snapshot)
          /\ mem[k] \in OutcomesOf(k, store[k], snapshot) \cup Published!Failures(store[k].status)
    BY <1>1, <1>8 DEF HistoryInv, DeploymentDone
  <2>2. snapshot \in Published!Snapshots(k)
    <3>1. \A o \in Organizations : snapshot[o] \in past[o] /\ snapshot[o].gen >= used[k][o]
      BY <1>8, <2>1 DEF DraftOf, HistoryInv, HistoryTypes, Ordered
    <3> QED
      BY <2>1, <3>1 DEF DraftOf, Published!Snapshots
  <2>3. mem[k] \in Published!Outcomes(k, snapshot) \cup Published!Failures(View[k].status)
    <3>1. OutcomesOf(k, store[k], snapshot) = Published!Outcomes(k, snapshot)
      <4> DEFINE status   == InitializeResource(store[k].status)
                 owners   == Published!Owners(k, snapshot)
                 ours(o)  == SetConditions(
                   DeploymentLogic(Reconciler, status, store[k].spec, snapshot[o].spec), "True")
                 their(o) == Published!SetConditions(
                   Published!DeploymentLogic(
                     Reconciler, Published!InitializeResource(View[k].status), View[k].spec,
                     snapshot[o].spec), "True")
                 missing  == Published!SetConditions(Published!OrganizationNotFound(
                               Published!InitializeResource(View[k].status)), "False")
      <4>1. status = Published!InitializeResource(View[k].status)
        BY <1>5, SameStatuses
      <4>2. \A o \in owners : ours(o) = their(o)
        BY <1>5, <4>1, SameStatuses, SameLogic
      <4>3. SetConditions(OrganizationNotFound(status), "False") = missing
        BY <4>1, SameStatuses
      <4>4. { ours(o) : o \in owners } = { their(o) : o \in owners }
        BY <4>2
      <4>5. Published!Outcomes(k, snapshot) =
              IF owners = {} THEN { missing } ELSE { their(o) : o \in owners }
        BY DEF Published!Outcomes, View
      <4> HIDE DEF ours, their, missing
      <4>6. OutcomesOf(k, store[k], snapshot) =
              IF owners = {} THEN { missing } ELSE { ours(o) : o \in owners }
        BY <4>3 DEF OutcomesOf, ours
      <4> QED
        BY <4>4, <4>5, <4>6
    <3> QED
      BY <1>5, <2>1, <3>1
  <2>4. used' = [used EXCEPT ![k] = [o \in Organizations |-> snapshot[o].gen]]
    <3>1. Writes(k)
      BY <1>1, ViewChanges DEF Writes
    <3>2. \A d \in Deployments : used'[d] = IF d = k THEN draft[k] ELSE used[d]
      BY <1>6, <3>1 DEF Record
    <3>3. draft[k] = [o \in Organizations |-> snapshot[o].gen]
      BY <1>8, <2>1 DEF DraftOf, HistoryInv, HistoryTypes
    <3> QED
      BY <1>8, <3>2, <3>3 DEF Record, HistoryInv, HistoryTypes
  <2>5. Published!Publish(k, mem[k])
    BY <1>4
  <2>6. Published!PublishDeployment(k)
    BY <2>2, <2>3, <2>4, <2>5 DEF Published!PublishDeployment, View
  <2> QED
    BY <1>8, <2>6 DEF Published!Next
<1> QED
  BY <1>7, <1>8 DEF Keys

\* Initial states map to initial states, and steps to steps or stutters.
LEMMA PublishInit == HistoryInit => Published!Init
<1> SUFFICES ASSUME HistoryInit PROVE Published!Init
  OBVIOUS
<1>1. Seen(Gone(0)) = Published!Nothing(0)
  BY SameValues DEF Seen, Gone, Present, Published!Nothing
<1>2. View = [k \in Keys |-> Published!Nothing(0)]
  BY <1>1 DEF HistoryInit, Init, View
<1> QED
  BY <1>1, <1>2 DEF HistoryInit, Published!Init, Published!Keys, Keys, View

LEMMA PublishStep ==
  ASSUME TypeOK, GenInv, HistoryInv, [HistoryNext]_historyVars
  PROVE  [Published!Next]_Published!vars
<1>1. CASE UNCHANGED historyVars
  <2>1. UNCHANGED << store, past, used >>
    BY <1>1 DEF historyVars, vars
  <2> QED
    BY <2>1 DEF Published!vars
<1>2. CASE HistoryNext
  <2>1. Record /\ [Next]_vars /\ TypeOK'
    BY <1>2, TypeStep DEF HistoryNext
  <2>2. CASE UNCHANGED store
    BY <2>1, <2>2, Invisible
  <2>3. ASSUME NEW k \in Keys, NEW new, Changes(k, new)
        PROVE  [Published!Next]_Published!vars
    <3>1. store' = [store EXCEPT ![k] = new]
      BY <2>3 DEF Changes
    <3>2. CASE Shifts(k, new)
      BY <2>1, <3>1, <3>2, ChangeImplemented DEF Published!Next, Published!Keys, Keys
    <3>3. CASE Seen(new) = Seen(store[k])
      BY <2>1, <3>1, <3>3, ViewChanges, Invisible
    <3>4. CASE Stores(k, new)
      <4>1. CASE new.status = store[k].status
        <5>1. Seen(new) = Seen(store[k])
          BY <3>4, <4>1 DEF Stores, TypeOK, Object, Seen, Present
        <5> QED
          BY <3>3, <5>1
      <4>2. CASE new.status # store[k].status
        BY <2>1, <3>1, <3>4, <4>2, PublishImplemented
      <4> QED
        BY <4>1, <4>2
    <3> QED
      BY <2>3, <3>2, <3>3, <3>4 DEF Changes, Touches
  <2> QED
    BY <2>1, <2>2, <2>3, StoreChanges
<1> QED
  BY <1>1, <1>2

\* The intent manager implements OrgPublish: whatever caches, queues, conflicts,
\* lost answers and crashes do, every status is made from the object's own spec
\* and one snapshot of the organizations, never older than the one before.
THEOREM PublishImplementation == HistorySpec => ImplementsPublish
<1>1. TypeOK /\ GenInv /\ HistoryInv /\ [HistoryNext]_historyVars => [Published!Next]_Published!vars
  BY PublishStep
<1> QED
  BY <1>1, PublishInit, HistoryInvHolds, PTL DEF HistorySpec, ImplementsPublish, Published!Spec
=============================================================================
