# Verification of the organization intent manager

The repository holds a Kubernetes intent manager. Users create `Organization`
objects, which name the registers (ipam, as, vlan, ...) an organization uses,
and `Deployment` objects called `<organization>.<deployment>`, which inherit
those registers and may override them. Controllers write the outcome into the
status of each object; other programs read it through a small registry library.

The code is short. What is hard about it is the environment it runs in: each
pass of a controller works on a cached copy, calls an API server that may
refuse, fail or answer too late, shares a map with an event handler, and shares
its fate with every other pass in the process.

## Inventory

| Part | State | Operations | Correct if |
|---|---|---|---|
| organization controller (`internal/controllers/organization`) | `speedy` map, work queue | `Initialize`, `Update`, `Timeout`, `FinalDelete` | every organization ends up with its spec's registers in its status |
| deployment2 controller (`internal/controllers/deployment2`) | `speedy` map, two mutexes, work queue | the same, and the watch handler `add` on organizations | a status reflects the current spec and some version of the organization; it follows every change of either |
| deployment controller, v1 (`internal/controllers/deployment`) | work queue | `Reconcile`, `handleAppLogic`, `add` | the same without polling; not set up by `controllers.go` |
| managed reconciler (nddo-runtime, external) | none | finalizers, conditions, requeueing around the four operations above | nothing is forgotten, nothing unprotected is ready |
| API types (`apis/org/v1alpha1`) | spec and status | getters, setters, conditions, `InitializeResource` | a setter followed by a getter gives the value back |
| CRDs (`package/crds`) | stored objects | defaults, status subresource | what is stored is usable |
| registry library (`pkg/registry`) | none | names, register and strategy lookups, pod selection, server name | a name is looked up as the object it was made for; the answer is the one the specs decide; the server is the Deployment's |
| command (`cmd/intent`) | flags | start, restart, `--concurrency`, `--poll-interval`, `--leader-elect` | a restart forgets nothing; replicas do no harm |

Interaction: the API server's watches fill an informer cache shared by both
controllers. Changes of an object queue the object; changes of an organization
are also handed to the deployment controller's handler, which lists the cached
deployments and queues those whose name begins with the organization's.
`IgnoreUpdateWithoutGenerationChangePredicate` keeps status and finalizer
updates from both. Workers take requests from the queues, one worker per object
at a time, `--concurrency` per controller. A deployment's pass lists the cached
organizations. deployment2's workers and its handler share the `speedy` map.
The status of an organization object is for users only.

Hard behaviour: stale copies and conflicts, lost answers, filtered events, the
relative order of two caches, crashes and panics, retries that never end, the
handler's loop over an old list while workers go on, the unguarded `speedy` map,
two managers on the same objects, random iteration order. The complete list,
with lines, is `hazards` in `PROJECT.json`.

## Modules

| Module | Models |
|---|---|
| `OrgNames` | dotted names as sequences of labels: `GetOrganizationName`, `GetDeploymentName`, `GetRegisterName`, the registry's choice of kind, `getCrName` |
| `Registers` | register lists and maps, merge, setter; address allocation strategies with the never-nil getter and the CRD defaults |
| `AppLogic` | spec and status records; `InitializeResource`, the conditions and `handleAppLogic` of the three controllers as functions on statuses |
| `OrgIntent` | the system: API server, cache, queues, event handler, workers, crashes |
| `OrgPublish` | abstract: what readers of a status are promised |
| `OrgHistory` | `OrgIntent` with history variables, and the refinement mapping to `OrgPublish` |
| `OrgWatch` | deployment2's process from inside: handler loop, mutexes, accesses to the `speedy` map |
| `Replicas` | two `OrgIntent`s on one API server |
| `Registry` | `OrgIntent` as the registry library sees it |
| `RegisterTrip` | the loops of getter, merge, setter and registry lookup, step by step |
| `RegistryClient` | from a kind of register to a server: pod search and the loop over the labels of the pod's name |
| `MCOrgIntent`, `MCOrgHistory`, `MCOrgWatch`, `MCReplicas`, `MCRegistry`, `MCRegistryClient` | values of the constants for TLC |
| `OrgIntentProofs`, `OrgStatusProofs`, `ReplicasProofs`, `OrgHistoryProofs`, `OrgWatchProofs`, `RegistryProofs`, `RegisterTripProofs`, `RegistryClientProofs` | proofs |

`OrgNames`, `Registers` and `AppLogic` are shared by `OrgIntent` and
`OrgPublish`, so the abstract specification says *when* a status is written and
*from what*, and both say the same about what `handleAppLogic` makes of it.

### How `OrgIntent` corresponds to the code

| Variable | In the code |
|---|---|
| `store[k]` | the object in the API server: `phase` (finalizer and deletion timestamp), `gen`, `spec`, `status` |
| `cache[k]` | the informer's copy, what `client.Get` and `client.List` return |
| `dirty`, `delayed` | the controllers' work queues: ready requests; `AddAfter` and `AddRateLimited` |
| `pc[k]`, `base[k]`, `mem[k]` | the worker at `k`: where it is, the object as it last got it from the API, the status of its `cr` |
| `orgEvents` | events of organizations not yet handled by `add` |
| `speedy` | the deployments with an entry in deployment2's `speedy` map |
| `faults` | failed calls and crashes so far |

One action is one atomic piece of a pass: it ends where the code calls the API
server. `Start` is `client.Get`; `RemoveFinalizer` and `AddFinalizer` are the
update calls, with `FinalDelete` after the first; `OrganizationAppLogic` and
`DeploymentAppLogic` are `InitializeResource`, `handleAppLogic` and the
condition in one step (the one call between them, `List`, reads the cache);
`UpdateStatus` is `Status().Update` and the requeue the result asks for. Each
call has a `...Fails` twin: a conflict, a failure without effect, or an effect
whose answer is lost. `Panic` is the nil dereference in the getters: the process
dies and all its queues with it.

The skeleton is the one `deployment/reconciler.go:161-226` spells out. The
reconciler of organization and deployment2 lives in nddo-runtime, outside this
repository. Assumed of it: it has the same order of calls, treats the duration
`Timeout` returns as the time after which a reconciled object is requeued, and
calls `FinalDelete` after it removed the finalizer. `Reconciler` selects the
deployment controller; with `"deployment"` a reconciled object is not requeued.

### `OrgPublish` and the refinement

`OrgPublish` has no cache, queue, worker, finalizer or failure. Users change
objects; the manager publishes. A deployment's status is made from its own spec
as it is at that moment and from one snapshot of the organizations. The snapshot
may be old and its parts of different age, but for each organization it is no
older than the one behind the status before. `OrgHistory` adds to `OrgIntent`
the versions organizations have had (`past`), the generations a worker has
listed (`draft`) and those a status was made from (`used`), since the program
remembers none of them. The mapping takes a stored object to what users see of
it: generation, existence, spec and status.

### How `OrgWatch` corresponds to the code

`OrgIntent` takes the handler's loop in one step. `OrgWatch` opens it: `add`
lists (`HandlerLists`), goes to the next element and locks `mutex`
(`HandlerLocks`), resets the element's entry (`HandlerResets`), enqueues it
(`HandlerEnqueues`). A worker's `Timeout` and `FinalDelete` lock the other mutex,
`speedyMutex`, and use the same map. Of the map only the keys are kept: every
value is 0, as `speedy++` in `Timeout` increments a local copy, so `Timeout`
returns `veryShortWait` whatever it reads. There is one organization, since
the handler skips the deployments of all others. `Abort` is what Go does to a
process it catches at concurrent map access; like `Crash` it restarts the
process. Its accesses are separate steps, so the outcomes of the race are those
of interleaving plus the abort.

### `Replicas`, `Registry`, `RegisterTrip`, `RegistryClient`

`Replicas` instantiates `OrgIntent` twice: the store is shared, everything else
is each manager's own. This is how the command runs by default, `--leader-elect`
being off. With leader election one replica works at a time, which is
`OrgIntent` with restarts.

`Registry` adds no step: a lookup is a read of the API server, so what it answers
is a function of `store`, and an invariant about it holds at whatever moment it
is made. `RegisterTrip` shows that the loops behind those functions compute what
the operators of `Registers` say, for every iteration order of Go's maps.

`RegistryClient` models `GetRegistryClient`: the list of pods, the first match by
name, then the loop over the labels of the pod's name, one label per step, while
pods come and go.

### Abstractions

- *Generations.* `gen` grows with each spec edit, deletion and creation and so
  plays uid and `metadata.generation` at once; a deleted object leaves a
  tombstone with its generation. A conflict on `resourceVersion` is "the copy
  differs from the stored object". A status that was rewritten with the same
  contents in another list order would conflict in reality and does not here;
  the write that is then allowed writes what the retry would.
- *Cache.* It may lag by any number of versions and skip some, but never goes
  back. A creation right after a deletion reaches the filter as an update, with
  a new generation. Deleted-and-recreated objects therefore queue requests as
  separate delete and create events do.
- *Restart.* A new process fills its caches from the current store before its
  workers run. A list served from an API server that lags behind, and a write of
  the dead process that lands after the restart, are left out.
- *Events.* Several events of one organization not yet handled are one. The
  handler lists twice on an update (`ObjectOld`, `ObjectNew` have one name);
  `OrgWatch` has both calls.
- *Time.* A delayed request may come back at any moment. Back-off, rate limits
  and the pass's own one minute deadline are left out; the deadline is one more
  reason for a call to fail.
- *Data.* Labels, kinds, names and strategies are members of small sets. A
  strategy is nil, blank or filled in; the defaults of the CRD turn blank into
  the default one when the status is stored.
- `InitializeResource` never fails, and no list of registers holds a nil entry.

## Runs

CHECK_DEADLOCK is FALSE where the system may stop: when nothing exists any more
and the bound on edits is reached, it is idle for good, and a register trip ends.

| Run | Instance | Checks | Distinct states |
|---|---|---|---|
| `faults` | deployment2; an organization (one change) and a deployment (two), each with or without a spec body; one fault | `TypeOK`, `NeverForgotten`, `ReadyIsHeld`, `ImplementsPublish`, `RightStaysRight` | 480 000 |
| `rivals` | v1; two organizations of one name in two namespaces with different registers | `ImplementsPublish` | 440 000 |
| `statuses` | deployment2; two changes of an organization, three of a deployment with two specs; two critical kinds | `ReadyHasOrganization`, `DownOffersNothing`, `RegistersMeanUp`, `StrategyIsUsable`, `StatusFromCurrentSpec` | 1 270 000 |
| `convergence` | fair; deployment2; three changes of the organization, the deployment created once, one spec each; one fault | `Convergence` | 420 000 |
| `v1_wakeups` | v1; two changes of each object; two specs of the organization; a deployment that inherits everything or has no spec body | `NoLostWakeup` | 1 350 000 |
| `watch` | two deployments, one worker, two versions, one restart; symmetric | `TypeOK`, `StaleIsQueued` | 3 760 000 |
| `replicas` | fair; two managers, one organization, two changes, two specs | `BothNeverForget`, `ReadyIsHeld`, `StatusFromCurrentSpec`, `RightStaysRight`, `Convergence` | 124 000 |
| `register_trip` | all pairs of lists of up to two entries, three kinds, two names | `AnswerIsChosen`, `CriticalOrError`, `LoopsAreOperators` | 61 000 |
| `registry_client` | three Deployments with two pods each, two of which share a match, and a bare pod whose name is the match | `TypeOK`, `ServerNameIsDeployment`, `SameServer` | 600 000 |
| `wake_apart` | two namespaces | violates `EventWakesDeployments` | |
| `map_guard` | as `watch` | violates `MapIsGuarded` | |
| `v1_ready_down` | v1, organization created after the deployment | violates `ReadyHasOrganization` | |

What they show:

- Nothing is forgotten (`NeverForgotten`). The event filter hides everything but
  spec changes, so a pass that is superseded, refused or killed must put its
  object back itself. It does, for the two polled controllers, including when
  several things go wrong around a single fault, and when an object without a
  spec body takes the manager down again and again.
- Convergence: the same seen from outside. `faults` alone would allow an object
  to be looked at for ever and never be right. The instance gives the organization
  a second life, before or after the first one got its finalizer, and one fault. If
  the fault loses the event of the organization, the deployment's own poll has to
  do what the event would have done.
- What has become right stays right (`RightStaysRight`), the safety half of
  convergence: every deployment is reconciled again every second, from a copy that may
  be older than the status it replaces. An object is at rest (`AtRest`) if its
  status is the one its spec and its organization call for, no worker holds
  another result that the API server would accept, and the cached organizations of
  its name are not behind. Only a user or a fault ends that. A fault must be
  excepted: after it a pass writes back the copy's status.
- `StatusFromCurrentSpec` and `ReadyIsHeld` rest on optimistic concurrency: the
  status is computed from a copy that may be arbitrarily old, and only the check
  at the last moment keeps it from landing on a newer spec. About the
  *organization's* spec there is no such check: a deployment may be written with
  registers the organization no longer has. `ImplementsPublish` says how old they
  may be (never older than those published before), `Convergence` that they are
  replaced in the end.
- With two organizations of one name the registers come from one of them, never
  from both; which one is the order of the cached list.
- v1 does not poll. That its watch is enough holds in one namespace, over any other
  fault, as long as `List` does not fail in the handler, and is false otherwise
  (`wake_apart`; the handler drops the event).
- Inside the process, the handler's loop over an old list leaves no deployment of
  a changed organization to its next poll (`StaleIsQueued`).
- Two managers without leader election do no harm to the status, do not undo each
  other's work (`RightStaysRight` of both), and get it right in the end
  (`Convergence` of both: nothing is said of how often they write in vain until
  then, or how often they go on writing the same). This does not extend to the
  order in time: one manager's cache may lag behind the other's, so a deployment's
  status may go back to an older organization until the next poll.
  `ImplementsPublish` is therefore a property of one manager, and not checked of two.
- A register lookup answers only for deployments that are up (`RegistersMeanUp`);
  a strategy lookup answers also for those that are down, and then, too, with all
  fields (`StrategyIsUsable`). Only a status no pass has written to yet is blank.

### Bounds and why they are enough

`MaxGen` bounds the generation up to which users change an object; two changes
give the pairs in which something is overtaken (create/edit, create/delete),
three allow a second life. `MaxFaults = 1`: every retry is a fresh pass, so a
second fault repeats a state from which the first was survived; the proofs have
no bound. One object per controller is enough for everything but competition for
workers: passes of different objects share only cache, queues and the map, and
`OrgWatch` has two deployments for the last. Two specs per object distinguish
enabled and disabled, chosen and inherited, and every register comes from a
definite spec. `watch` has two versions of the organization (one change while
the handler is busy with the first) and one restart. `convergence` has one spec
per object (edits are in `faults` and `statuses`), since its third change is a
second life of the organization. Two pods per Deployment differ in both labels the
server name drops; the bare pod has the two labels of the match and no others, of
which the server name keeps the first.

### Fairness

`FairSpec` assumes that watches deliver (`Sync`), timers fire, the event handler
runs and a worker in the middle of a pass goes on (weak fairness each), as the
controller-runtime's goroutines do. `Begin(k)` is strongly fair: with all workers
busy it is disabled again and again, and the work queue is first-in first-out, so
a request is not passed over for ever. Users and faults owe nothing; both are
bounded. Objects without a spec body are left out of the fair runs: with one of
them in the store the manager may crash for ever, and nothing converges. In
`Replicas` each manager has this fairness for itself.

### Mutants

Each checked property has a mutation of a modelled definition that violates it
(`mutants` in `PROJECT.json`). The mutated forms stand right before their
originals: `OnlyFailures`, `ReasonKept`, `UpdateStatusBlind`, ... They are used
by no specification.

## Findings

1. `deployment2/watchorg.go:94` (and v1): the request for a matching deployment
   carries the organization's namespace. A deployment elsewhere is matched by
   name, in both directions, but not woken (`wake_apart`). deployment2 has its polls
   left, which do for an event that was lost (`convergence`), and would for one that
   never comes.
2. `deployment2/watchorg.go:89`: the handler's mutex and the application's are
   two, although the map they guard is one (`map_guard`). The application's does
   keep its workers apart (theorem `WorkersExcluded`).
3. `deployment/reconciler.go:252-259`: v1 leaves the state "down" and the reason
   of an earlier pass in a status it declares ready (`v1_ready_down`).

Observations without a run of their own:

- The comment in `deployment/reconciler.go:181-184, 200-202` relies on an implicit
  requeue by the status update, which the event filter of line 135 suppresses; the
  explicit requeue of the same branch is what works.
- A name with another number of labels than the code expects is accepted by the
  CRDs: a dotted organization owns no deployment and is looked up as one, a
  deployment of one label belongs to nobody and is looked up as an organization
  (theorems `OrganizationLookup`, `DottedOrganizationIsAlone`,
  `MembersHaveTwoLabels`).
- `speedy++` in `Timeout` (`deployment2/reconciler.go:141`) increments a local copy:
  the back-off to `reconcileTimeout` after five passes never happens, and every
  deployment is reconciled every second. `--poll-interval`, which "controls how
  often an individual resource should be checked for drift"
  (`cmd/intent/start.go:116`), reaches the options of the controllers, where nothing
  reads it. An entry that `add` makes for a deployment already deleted stays in the
  map for good, without any other effect.
- A deployment never gets its organization's strategy: the getter of its own does
  not return nil, so it gets the defaults of the CRD.

## Proofs

For every set of kinds, names, namespaces and specs, every bound on edits, faults
and workers. The assumptions are those of the modules: the default strategy is a
strategy and the marks nil and blank are not, user keys are keys, specs are specs,
bounds are natural numbers, and in `OrgWatch` that the handler is not a worker.

- `OrgIntentProofs`. `TypeCorrect`: `TypeOK`, one lemma per group of actions.
  `NothingForgotten`: `NeverForgotten`. It is not inductive: a worker drops a
  request when its cache says "not found", and an edit counts as noticed because
  its generation differs from the cached one. `GenInv` supplies both: the cache's
  generation is never ahead, equal generations agree about existence and spec, and
  a copy about to get a finalizer exists (else the update would create an object).
  `StoreMoves` and `CacheMoves` reduce its proof to two facts about single objects.
- `OrgStatusProofs`. `OnlyHeldIsReady`, `ReadyFoundOrganization`,
  `StatusIsCurrent`, `DownIsEmpty`: the first for both deployment controllers, the
  others with `Reconciler = "deployment2"` (for v1 the second is false, finding 3).
  `StoreSteps` and `WorkerSteps` classify what any step does to one stored object
  and to one worker. `WorkerInv` carries the finalizer from the copy to the write
  and separates failures; `SuccessInv` says that a successful result goes with the
  copy it was made from; `HonestInv` extends `DownOffersNothing` to cache and
  workers, since a failed pass writes back a status it read.
  - `WatchIsEnough`: `NoLostWakeup` in one namespace, for both controllers, over
    failed calls, lost answers and crashes, for the behaviours in which the handler's
    list never fails (`KeepsEvents`); `WatchNeedsNoTimer` is the case
    `MaxFaults = 0`. `WakeInv`: of a deployment with nothing pending and no pending
    event of its organizations, the stored registers (or the ones a worker is about
    to store) are those that the *cache* calls for. With `GenInv` the cache agrees
    with the store where nothing is pending. Both assumptions are needed: see
    finding 1, and a failing `List` drops the event.
  - `RightIsLasting`: `RightStaysRight` with deployment2. `CalmSteps` lists what a
    step without faults or edits can do to an object with its finalizer: its worker
    writes what it holds, or the object stays and only the worker moves.
    `HandlerSettles` is the heart: `handleAppLogic` on current copies makes a status
    that settles, and one made from another copy of the object cannot be written.
    It is stated for deployment2, which sets every field; v1 keeps what an earlier
    pass left in a status.
- `ReplicasProofs`: the same with two managers. `NothingForgottenByEither`,
  `OnlyHeldIsReadyToEither`, `EitherIsCurrent`, `EitherIsHonest`,
  `WatchIsEnoughForBoth`, `RightIsLastingToBoth`. The proofs about one manager are
  instantiated for each; its own step keeps its invariants by them. The other's
  step is one "elsewhere": objects change under a manager whose cache, queues and
  workers stand still. The last section of `OrgStatusProofs` shows that the
  invariants survive such a step if it is one the API server allows. The lemmas
  `Same...` say that the two instances mean the same by the same words. Not
  everything carries over: `NoLostWakeup` of one manager is false, since the other
  may write a status made from an older organization; of both together, a deployment
  *neither* will look at again is right.
- `OrgHistoryProofs`. `PublishImplementation`: `HistorySpec` implements
  `OrgPublish`, both initially and step by step, for both controllers and with
  faults, restarts and panics. `HistoryInv` says that every copy of an
  organization is a recorded version, that used, drafted and cached generations
  are ordered, and that a finished worker's status is an outcome `OrgPublish`
  allows for its draft. Each step is then a change by users, a publication, or
  invisible to readers (`Invisible`).
- `OrgWatchProofs`. `WatchTypeCorrect`, `StaleIsQueuedCorrect`, `WorkersExcluded`,
  for any number of deployments and workers. `WatchInv` says where each thread may
  be while it owns a mutex, that no two workers have one deployment, and that what
  a worker has read is a version there was.
- `RegistryProofs`. `AnswersMeanUp` (deployment2) and `AnswersAreUsable`: both
  carried by a statement about every copy of a status (`EarnedInv`,
  `StrategyInv`), as a failed pass writes back a status it read. The theorems on
  names: what the registry makes of an organization and a deployment means the
  object it was made for; members have two labels; keys of the speedy map are unique.
- `RegisterTripProofs`. `AnswerCorrect`, `ErrorCorrect`, `LoopsCorrect`, for lists
  of any length. `Holds` is the loop invariant of the list loops, `Merged` and
  `Written` those of the loops over maps; `HoldsAll` and `WrittenAll` say what is
  left when nothing is.
- `RegistryClientProofs`. `ClientTypeCorrect`, `ServerNameCorrect`,
  `SameServerCorrect`, for names of any length. `LoopInv`: what the loop has built
  is the beginning of the pod's name.

Only model-checked: `Convergence`, of one manager and of two (liveness under
fairness is out of the prover's reach). Only proved: `EitherIsHonest` and `WatchIsEnoughForBoth`,
as two managers with an organization *and* a deployment are too many states for a
run; the run `v1_wakeups` checks the latter's counterpart for one manager.

## Not modelled

- Flags, probes, metrics, TLS, the gRPC connection itself, scheme registration:
  I/O or configuration. `getGnmiServerAddress` in `cmd/intent/start.go` is the loop
  `RegistryClient` models, and nothing calls it.
- Generated deep copies: a worker's copy is its own, which is built in.
- Description, region and kind, which nothing reads; webhooks (none).
- `managed.WithSpeedy`, by which the external reconciler gets the map: what it does
  with it is not in this repository.
- The starvation of a request by others: assumed away by strong fairness.

## What is left

Two managers of deployments, and restarts that begin with a stale list, would each
weaken the order in time that `OrgPublish` promises; a variant without `used`
would be the specification to state for them. `RegistersMeanUp` and
`StrategyIsUsable` are proved of one manager; two should keep them by the same
argument as `EitherIsHonest`. The liveness properties would need a prover for
fairness.
