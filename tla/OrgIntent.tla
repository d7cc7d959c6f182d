----------------------------- MODULE OrgIntent -----------------------------
(***************************************************************************)
(* The intent manager: the organization controller and a deployment        *)
(* controller, driven through work queues by the objects users keep in the *)
(* Kubernetes API server.  One reconcile skeleton serves both controllers: *)
(* deployment/reconciler.go spells it out, and organization and            *)
(* deployment2 plug their application logic into the same one (external,   *)
(* nddo-runtime).                                                          *)
(*                                                                         *)
(* Simplifications, each explained in README.md:                           *)
(*  - the informer cache may skip versions but never goes back;            *)
(*  - a resourceVersion conflict is "the copy read differs from the stored *)
(*    object": gen changes with every spec edit, deletion and creation;    *)
(*  - durations are left out: a delayed request may come back at any time. *)
(***************************************************************************)
EXTENDS AppLogic, OrgNames

CONSTANTS
  Namespaces,
  OrganizationNames,        \* dotted names (OrgNames)
  DeploymentNames,
  UserKeys,                 \* the objects users create in this instance
  Specs,                    \* what they may ask for, object by object
  Reconciler,               \* which deployment controller is set up
  MaxConcurrentReconciles,  \* the --concurrency flag
  MaxGen,                   \* bound: the generation up to which users change each object
  MaxFaults                 \* bound: failed calls and crashes

Organizations == [kind : {"Organization"}, ns : Namespaces, name : OrganizationNames]
Deployments   == [kind : {"Deployment"}, ns : Namespaces, name : DeploymentNames]
Keys          == Organizations \cup Deployments

ASSUME KeysAssumption == UserKeys \subseteq Keys
ASSUME SpecsAssumption == Specs \in [Keys -> SUBSET ObjectSpec]
ASSUME ReconcilerAssumption == Reconciler \in {"deployment", "deployment2"}
ASSUME BoundsAssumption ==
  MaxConcurrentReconciles \in Nat /\ MaxGen \in [Keys -> Nat] /\ MaxFaults \in Nat

VARIABLES
  store,      \* store[k]: the object in the API server
  cache,      \* cache[k]: the manager's informer copy of it
  dirty,      \* work queues: requests waiting for a worker
  delayed,    \* work queues: requests that come back later
  pc,         \* pc[k]: where the worker that reconciles k stands
  base,       \* base[k]: the object that worker last got from the API
  mem,        \* mem[k]: the status it holds in memory
  orgEvents,  \* organizations with an event the deployment controller has not handled
  speedy,     \* keys that have an entry (always 0) in a controller's speedy map
  faults      \* failed calls and crashes so far

queueVars == << dirty, delayed >>
workVars  == << pc, base, mem >>
vars == << store, cache, queueVars, workVars, orgEvents, speedy, faults >>

(***************************************************************************)
(* phase: "bare" has no finalizer, "held" has it, "deleting" has it and a  *)
(* deletion timestamp (the API server keeps no object that has a deletion  *)
(* timestamp and no finalizer).                                            *)
(***************************************************************************)
Object == [phase  : {"absent", "bare", "held", "deleting"},
           gen    : Nat,
           spec   : ObjectSpec,
           status : ObjectStatus]

Gone(gen) == [phase |-> "absent", gen |-> gen, spec |-> NilSpec, status |-> NoStatus]

Present(object) == object.phase # "absent"

Init ==
  /\ store = [k \in Keys |-> Gone(0)]
  /\ cache = [k \in Keys |-> Gone(0)]
  /\ dirty = {}
  /\ delayed = {}
  /\ pc = [k \in Keys |-> "idle"]
  /\ base = [k \in Keys |-> Gone(0)]
  /\ mem = [k \in Keys |-> NoStatus]
  /\ orgEvents = {}
  /\ speedy = {}
  /\ faults = 0

-----------------------------------------------------------------------------
(* Users and the API server                                                *)

UserChange(k, object) ==
  /\ store[k].gen < MaxGen[k]
  /\ store' = [store EXCEPT ![k] = object]
  /\ UNCHANGED << cache, queueVars, workVars, orgEvents, speedy, faults >>

Create(k) ==
  /\ store[k].phase = "absent"
  /\ \E spec \in Specs[k] :
       UserChange(k, [phase |-> "bare", gen |-> store[k].gen + 1,
                      spec |-> spec, status |-> NoStatus])

Edit(k) ==
  /\ Present(store[k])
  /\ \E spec \in Specs[k] \ {store[k].spec} :
       UserChange(k, [store[k] EXCEPT !.gen = @ + 1, !.spec = spec])

Delete(k) ==
  \/ /\ store[k].phase = "bare"
     /\ UserChange(k, Gone(store[k].gen + 1))
  \/ /\ store[k].phase = "held"
     /\ UserChange(k, [store[k] EXCEPT !.gen = @ + 1, !.phase = "deleting"])

Fault ==
  /\ faults < MaxFaults
  /\ faults' = faults + 1

-----------------------------------------------------------------------------
(* Informer cache and event handlers                                       *)

\* IgnoreUpdateWithoutGenerationChangePredicate; creations and removals pass.
PassesFilter(old, new) == old.gen # new.gen

\* The cache takes over the current version of k, and the handlers that do
\* nothing but queue k for its own controller run.
Sync(k) ==
  /\ cache[k] # store[k]
  /\ cache' = [cache EXCEPT ![k] = store[k]]
  /\ IF PassesFilter(cache[k], store[k])
     THEN /\ dirty' = dirty \cup {k}
          /\ orgEvents' = orgEvents \cup ({k} \cap Organizations)
     ELSE UNCHANGED << dirty, orgEvents >>
  /\ UNCHANGED << store, delayed, workVars, speedy, faults >>

\* The cached deployments of an organization, and the organizations a
\* deployment may be matched with: both lists span all namespaces.
DeploymentsOf(o) ==
  { d \in Deployments : Present(cache[d]) /\ GetOrganizationName(d.name) = o.name }

OrganizationsOf(d) ==
  { o \in Organizations : Present(cache[o]) /\ o.name = GetOrganizationName(d.name) }

\* As if the organization's part of the name were cut off.
RequestForShortName(o, d) == [kind |-> "Deployment", ns |-> o.ns, name |-> GetDeploymentName(d.name)]

\* The request for a deployment is made with the organization's namespace.
RequestFor(o, d) == [kind |-> "Deployment", ns |-> o.ns, name |-> d.name]

NoRequests(o) == {}

RequestsOf(o) == { RequestFor(o, d) : d \in DeploymentsOf(o) }

\* EnqueueRequestForAllOrganizations.add, once the event reaches the handler.
HandleOrgEvent(o) ==
  /\ o \in orgEvents
  /\ orgEvents' = orgEvents \ {o}
  /\ dirty' = dirty \cup RequestsOf(o)
  /\ speedy' = IF Reconciler = "deployment2" THEN speedy \cup DeploymentsOf(o) ELSE speedy
  /\ UNCHANGED << store, cache, delayed, workVars, faults >>

\* The list of deployments fails: add returns and the event is lost.
LoseOrgEvent(o) ==
  /\ o \in orgEvents
  /\ Fault
  /\ orgEvents' = orgEvents \ {o}
  /\ UNCHANGED << store, cache, queueVars, workVars, speedy >>

-----------------------------------------------------------------------------
(* Work queue and workers                                                  *)

Busy(kind) == { k \in Keys : k.kind = kind /\ pc[k] # "idle" }

\* A worker takes a request that no other worker is processing.
Take(k) ==
  /\ k \in dirty
  /\ pc[k] = "idle"
  /\ Cardinality(Busy(k.kind)) < MaxConcurrentReconciles
  /\ dirty' = dirty \ {k}

TimerFires(k) ==
  /\ k \in delayed
  /\ delayed' = delayed \ {k}
  /\ dirty' = dirty \cup {k}
  /\ UNCHANGED << store, cache, workVars, orgEvents, speedy, faults >>

\* The worker is done with k; what it held is reset to a canonical value.
Finish(k) ==
  /\ pc' = [pc EXCEPT ![k] = "idle"]
  /\ base' = [base EXCEPT ![k] = Gone(0)]
  /\ mem' = [mem EXCEPT ![k] = NoStatus]

StepTo(k, next, status) ==
  /\ pc' = [pc EXCEPT ![k] = next]
  /\ mem' = [mem EXCEPT ![k] = status]

\* Does the API server accept an update of the copy this worker holds?
CanWrite(k) == base[k] = store[k]

\* An update is refused, because the copy is stale or the call fails.
Refused(k) ==
  /\ \/ ~ CanWrite(k) /\ UNCHANGED faults
     \/ Fault
  /\ UNCHANGED store

\* The update takes effect but its answer is lost.
AnswerLost(k, object) ==
  /\ CanWrite(k)
  /\ Fault
  /\ store' = [store EXCEPT ![k] = object]

-----------------------------------------------------------------------------
(* Reconcile                                                               *)

\* client.Get finds nothing: no requeue.
StartNotFound(k) ==
  /\ Take(k)
  /\ ~ Present(cache[k])
  /\ UNCHANGED << store, cache, delayed, workVars, orgEvents, speedy, faults >>

StartFails(k) ==
  /\ Take(k)
  /\ Fault
  /\ delayed' = delayed \cup {k}
  /\ UNCHANGED << store, cache, workVars, orgEvents, speedy >>

\* As if an object that is ready were left alone.
StartUnlessReady(k) ==
  /\ Take(k)
  /\ Present(cache[k])
  /\ IF cache[k].status.ready = "True" /\ cache[k].phase # "deleting"
     THEN UNCHANGED workVars
     ELSE /\ base' = [base EXCEPT ![k] = cache[k]]
          /\ StepTo(k, IF cache[k].phase = "deleting" THEN "remove" ELSE "add", cache[k].status)
  /\ UNCHANGED << store, cache, delayed, orgEvents, speedy, faults >>

Start(k) ==
  /\ Take(k)
  /\ Present(cache[k])
  /\ base' = [base EXCEPT ![k] = cache[k]]
  /\ StepTo(k, IF cache[k].phase = "deleting" THEN "remove" ELSE "add", cache[k].status)
  /\ UNCHANGED << store, cache, delayed, orgEvents, speedy, faults >>

FinalDelete(k) == speedy' = speedy \ {k}

\* The object disappears with its only finalizer; one that is already gone
\* counts as success.
RemoveFinalizer(k) ==
  /\ pc[k] = "remove"
  /\ \/ CanWrite(k) /\ store' = [store EXCEPT ![k] = Gone(store[k].gen + 1)]
     \/ ~ Present(store[k]) /\ UNCHANGED store
  /\ Finish(k)
  /\ FinalDelete(k)
  /\ UNCHANGED << cache, queueVars, orgEvents, faults >>

RemoveFinalizerFails(k) ==
  /\ pc[k] = "remove"
  /\ \/ Present(store[k]) /\ Refused(k)
     \/ ~ Present(store[k]) /\ Fault /\ UNCHANGED store
     \/ AnswerLost(k, Gone(store[k].gen + 1))
  /\ StepTo(k, "fail", SetConditions(mem[k], "False"))
  /\ UNCHANGED << cache, queueVars, base, orgEvents, speedy >>

NotAdded(object) == object

WithFinalizer(object) == [object EXCEPT !.phase = "held"]

AddFinalizer(k) ==
  /\ pc[k] = "add"
  /\ IF base[k].phase = "held"
     THEN UNCHANGED << store, base >>
     ELSE /\ CanWrite(k)
          /\ store' = [store EXCEPT ![k] = WithFinalizer(store[k])]
          /\ base' = [base EXCEPT ![k] = WithFinalizer(store[k])]
  /\ StepTo(k, "logic", mem[k])
  /\ UNCHANGED << cache, queueVars, orgEvents, speedy, faults >>

AddFinalizerFails(k) ==
  /\ pc[k] = "add"
  /\ base[k].phase = "bare"
  /\ \/ Refused(k)
     \/ AnswerLost(k, WithFinalizer(store[k]))
  /\ StepTo(k, "fail", SetConditions(mem[k], "False"))
  /\ UNCHANGED << cache, queueVars, base, orgEvents, speedy >>

\* InitializeResource and handleAppLogic of the organization controller.
OrganizationAppLogic(o) ==
  /\ pc[o] = "logic"
  /\ base[o].spec.body = "set"
  /\ StepTo(o, "ok",
       SetConditions(OrganizationLogic(InitializeResource(mem[o]), base[o].spec), "True"))
  /\ UNCHANGED << store, cache, queueVars, base, orgEvents, speedy, faults >>

\* As if the loop went on after the first match and collected the registers.
DeploymentAppLogicMixed(d) ==
  /\ pc[d] = "logic"
  /\ \E first, last \in OrganizationsOf(d) :
       StepTo(d, "ok",
         SetConditions(
           DeploymentLogic(Reconciler, InitializeResource(mem[d]), base[d].spec,
             [cache[first].spec EXCEPT !.register =
                GetDeploymentRegister(@, cache[last].spec.register)]), "True"))
  /\ UNCHANGED << store, cache, queueVars, base, orgEvents, speedy, faults >>

\* InitializeResource and handleAppLogic of the deployment controllers.  The
\* list comes from the cache in no particular order: any match may come first.
DeploymentAppLogic(d) ==
  /\ pc[d] = "logic"
  /\ LET status == InitializeResource(mem[d])
     IN  \/ /\ OrganizationsOf(d) = {}
            /\ StepTo(d, "fail", SetConditions(OrganizationNotFound(status), "False"))
         \/ \E o \in OrganizationsOf(d) :
              /\ cache[o].spec.body = "set"
              /\ base[d].spec.body = "set"
              /\ StepTo(d, "ok",
                   SetConditions(
                     DeploymentLogic(Reconciler, status, base[d].spec, cache[o].spec), "True"))
  /\ UNCHANGED << store, cache, queueVars, base, orgEvents, speedy, faults >>

DeploymentListFails(d) ==
  /\ pc[d] = "logic"
  /\ Fault
  /\ StepTo(d, "fail", SetConditions(InitializeResource(mem[d]), "False"))
  /\ UNCHANGED << store, cache, queueVars, base, orgEvents, speedy >>

OnlyFailures(k) == pc[k] = "fail"

\* The controllers with a Timeout bring back an object they have reconciled.
Polled(k) == k \in Organizations \/ Reconciler = "deployment2"

Requeued(k) == pc[k] = "fail" \/ Polled(k)

UpdateStatusBlind(k) ==
  /\ pc[k] \in {"ok", "fail"}
  /\ store' = [store EXCEPT ![k].status = Persisted(mem[k])]
  /\ delayed' = IF Requeued(k) THEN delayed \cup {k} ELSE delayed
  /\ Finish(k)
  /\ UNCHANGED << cache, dirty, orgEvents, speedy, faults >>

UpdateStatus(k) ==
  /\ pc[k] \in {"ok", "fail"}
  /\ CanWrite(k)
  /\ store' = [store EXCEPT ![k].status = Persisted(mem[k])]
  /\ delayed' = IF Requeued(k) THEN delayed \cup {k} ELSE delayed
  /\ Finish(k)
  /\ UNCHANGED << cache, dirty, orgEvents, speedy, faults >>

UpdateStatusFails(k) ==
  /\ pc[k] \in {"ok", "fail"}
  /\ \/ Refused(k)
     \/ AnswerLost(k, [store[k] EXCEPT !.status = Persisted(mem[k])])
  /\ delayed' = delayed \cup {k}
  /\ Finish(k)
  /\ UNCHANGED << cache, dirty, orgEvents, speedy >>

-----------------------------------------------------------------------------
(* Crashes                                                                 *)

ColdRestart ==
  /\ cache' = store
  /\ pc' = [k \in Keys |-> "idle"]
  /\ base' = [k \in Keys |-> Gone(0)]
  /\ mem' = [k \in Keys |-> NoStatus]
  /\ dirty' = {} /\ delayed' = {} /\ orgEvents' = {} /\ speedy' = {}
  /\ UNCHANGED store

\* The process dies and a new one starts: its caches are filled before the
\* workers run, and every object it finds is an event.
RestartManager ==
  /\ cache' = store
  /\ dirty' = { k \in Keys : Present(store[k]) }
  /\ delayed' = {}
  /\ pc' = [k \in Keys |-> "idle"]
  /\ base' = [k \in Keys |-> Gone(0)]
  /\ mem' = [k \in Keys |-> NoStatus]
  /\ orgEvents' = { o \in Organizations : Present(store[o]) }
  /\ speedy' = {}
  /\ UNCHANGED store

Crash == Fault /\ RestartManager

\* A getter dereferences the missing part of a spec.
Panic(k) ==
  /\ pc[k] = "logic"
  /\ \/ base[k].spec.body = "nil" /\ (k \in Organizations \/ OrganizationsOf(k) # {})
     \/ k \in Deployments /\ \E o \in OrganizationsOf(k) : cache[o].spec.body = "nil"
  /\ RestartManager
  /\ UNCHANGED faults

-----------------------------------------------------------------------------
User(k) == Create(k) \/ Edit(k) \/ Delete(k)

\* A worker takes k from its queue.
Begin(k) == StartNotFound(k) \/ Start(k) \/ StartFails(k)

\* The worker that holds k makes its next step.
Work(k) ==
  \/ RemoveFinalizer(k) \/ RemoveFinalizerFails(k)
  \/ AddFinalizer(k) \/ AddFinalizerFails(k)
  \/ k \in Organizations /\ OrganizationAppLogic(k)
  \/ k \in Deployments /\ (DeploymentAppLogic(k) \/ DeploymentListFails(k))
  \/ UpdateStatus(k) \/ UpdateStatusFails(k)
  \/ Panic(k)

OrgEvent(o) == HandleOrgEvent(o) \/ LoseOrgEvent(o)

Next ==
  \/ \E k \in UserKeys : User(k)
  \/ \E k \in Keys : Sync(k) \/ TimerFires(k) \/ Begin(k) \/ Work(k)
  \/ \E o \in Organizations : OrgEvent(o)
  \/ Crash

Spec == Init /\ [][Next]_vars

(***************************************************************************)
(* Watches deliver, timers expire, handlers and workers run.  The queue is *)
(* first-in first-out, so a request that is again and again at hand while  *)
(* a worker is free is taken: strong fairness.  Users owe nothing.         *)
(***************************************************************************)
Fairness ==
  /\ \A k \in Keys : /\ WF_vars(Sync(k))
                     /\ WF_vars(TimerFires(k))
                     /\ SF_vars(Begin(k))
                     /\ WF_vars(Work(k))
  /\ \A o \in Organizations : WF_vars(OrgEvent(o))

FairSpec == Spec /\ Fairness

-----------------------------------------------------------------------------
(* Properties                                                              *)

\* Every variable has its type.
TypeOK ==
  /\ store \in [Keys -> Object]
  /\ cache \in [Keys -> Object]
  /\ dirty \subseteq Keys
  /\ delayed \subseteq Keys
  /\ pc \in [Keys -> {"idle", "remove", "add", "logic", "ok", "fail"}]
  /\ base \in [Keys -> Object]
  /\ mem \in [Keys -> ObjectStatus]
  /\ orgEvents \subseteq Organizations
  /\ speedy \subseteq Keys
  /\ faults \in 0 .. MaxFaults

\* Something will make a worker look at k again: a request, a timer, the worker
\* at it, or a change the cache has yet to report.
Pending(k) ==
  \/ k \in dirty
  \/ k \in delayed
  \/ pc[k] # "idle"
  \/ PassesFilter(cache[k], store[k])

\* No object is ever forgotten: whatever fails, crashes, conflicts or is
\* filtered out, every object that exists will be reconciled again.
NeverForgotten ==
  \A k \in Keys : Polled(k) /\ Present(store[k]) => Pending(k)

\* Only an object the finalizer protects is reported ready, so no object that
\* was ever reported ready disappears behind the controller's back.
ReadyIsHeld ==
  \A k \in Keys :
    store[k].status.ready = "True" => store[k].phase \in {"held", "deleting"}

\* A deployment reported ready has found its organization: the verdict of an
\* earlier pass does not survive the pass that makes it ready.
ReadyHasOrganization ==
  \A d \in Deployments :
    store[d].status.ready = "True" => store[d].status.reason # "organization not found"

\* A deployment that is down offers no registers to the users of the registry.
DownOffersNothing ==
  \A d \in Deployments :
    store[d].status.state = "down" => store[d].status.register = NoRegister

\* What a status says of its object's own spec.  An organization is up with all
\* it specifies.  A deployment is up only if enabled, and then every register and
\* the strategy the spec chooses are in force.
OrganizationReflects(status, spec) ==
  /\ status.state = "up"
  /\ status.register = spec.register
  /\ status.strategy = Defaulted(GetAddressAllocationStrategy(spec.strategy))

DeploymentReflects(status, spec) ==
  \/ /\ spec.admin = "disable"
     /\ status.state = "down"
     /\ status.reason = "admin state disabled"
  \/ /\ spec.admin = "enable"
     /\ status.state = "up"
     /\ \A kind \in DOMAIN spec.register :
          kind \in DOMAIN status.register /\ status.register[kind] = spec.register[kind]
     /\ status.strategy = Defaulted(GetAddressAllocationStrategy(spec.strategy))

Reflects(k, status, spec) ==
  IF k \in Organizations THEN OrganizationReflects(status, spec)
                         ELSE DeploymentReflects(status, spec)

\* A worker may read an object, lose time, and write its status after users
\* edited, deleted or recreated it: a status reported ready always reflects the
\* spec that is in force at the moment it is written.
StatusFromCurrentSpec ==
  [][ \A k \in Keys :
        /\ store'[k].status # store[k].status
        /\ store'[k].status.ready = "True"
        => Reflects(k, store'[k].status, store'[k].spec) ]_vars

\* What the status of k should be, given what is in the API server.
Owners(d) ==
  { o \in Organizations : Present(store[o]) /\ o.name = GetOrganizationName(d.name) }

RegisterSettles(d, register) ==
  LET spec == store[d].spec
  IN  IF Owners(d) = {} \/ spec.admin = "disable"
      THEN register = NoRegister
      ELSE \E o \in Owners(d) :
             register = GetDeploymentRegister(store[o].spec.register, spec.register)

Settles(k, status) ==
  /\ k \in Deployments => RegisterSettles(k, status.register)
  /\ IF k \in Deployments /\ Owners(k) = {}
     THEN status.reason = "organization not found" /\ status.ready = "False"
     ELSE Reflects(k, status, store[k].spec) /\ status.ready = "True"

Settled(k) == store[k].phase = "held" /\ Settles(k, store[k].status)

\* Once users and faults stop, every object that is left (and no object that
\* was deleted) has the status its spec and its organization call for, for good.
Convergence == <>[](\A k \in Keys : Present(store[k]) => Settled(k))

\* The status of k is right, and so is what a worker that has read this version
\* of k is about to write there.
AtRest(k) ==
  /\ Settled(k)
  /\ pc[k] \in {"ok", "fail"} /\ [base[k] EXCEPT !.status = store[k].status] = store[k]
     => Settles(k, Persisted(mem[k]))
  /\ k \in Deployments =>
       \A o \in Organizations :
         o.name = GetOrganizationName(k.name) => ~ PassesFilter(cache[o], store[o])

\* A status that has become right stays right, whatever copies the following
\* passes work on and however often the process dies over other objects: it
\* takes a user who changes the object or its organization, or a fault.
RightStaysRight ==
  [][ \A k \in Keys :
        /\ AtRest(k)
        /\ faults' = faults
        /\ \A j \in Organizations \cup {k} : ~ PassesFilter(store[j], store'[j])
        => AtRest(k)' ]_vars

\* A deployment nothing will look at again has the registers its spec and its
\* organization call for: no change of either was missed.
NoLostWakeup ==
  \A d \in Deployments :
    /\ Present(store[d])
    /\ ~ Pending(d)
    /\ \A o \in Organizations :
         o.name = GetOrganizationName(d.name)
         => o \notin orgEvents /\ ~ PassesFilter(cache[o], store[o])
    => RegisterSettles(d, store[d].status.register)

\* watchorg.go: an event of an organization "enqueues a request for all" the
\* deployments that belong to it, "only if the organization name match".
EventWakesDeployments ==
  [][ \A o \in Organizations :
        o \in orgEvents /\ o \notin orgEvents' /\ faults' = faults
        => DeploymentsOf(o) \subseteq dirty' ]_vars
=============================================================================
