------------------------------ MODULE OrgWatch ------------------------------
(***************************************************************************)
(* The deployment2 controller seen from inside one process: the goroutine  *)
(* that handles the events of an organization, the workers, and the speedy *)
(* map they share.  OrgIntent takes the handler's whole loop, and a        *)
(* worker's finalizer removal with FinalDelete, in one step; here every    *)
(* element of the loop, every lock and every access to the map is a step.  *)
(*                                                                         *)
(* One organization and the deployments that belong to it are enough: the  *)
(* handler skips all others.  A deployment lives once, and the only call   *)
(* that fails is a status update (OrgIntent has the rest).                 *)
(***************************************************************************)
EXTENDS Naturals, FiniteSets

CONSTANTS
  Deployments,   \* the deployments whose name begins with the organization's
  Workers,       \* the --concurrency flag
  MaxVersion,    \* bound: versions of the organization
  MaxRestarts    \* bound: deaths of the process

ASSUME WatchBounds == MaxVersion \in Nat \ {0} /\ MaxRestarts \in Nat

Handler == "handler"
Threads == Workers \cup {Handler}

ASSUME HandlerIsNoWorker == Handler \notin Workers

Free == "free"
None == "none"

ASSUME ReservedNames == Free \notin Threads /\ None \notin Deployments

VARIABLES
  object,    \* object[d]: the deployment in the API server
  cache,     \* cache[d]: the manager's copy of it
  version,   \* the version of the organization in the manager's cache
  applied,   \* applied[d]: the version d's status was last made from (0: none)
  calls,     \* calls of add still to come for events of the organization
  todo,      \* the handler: deployments of its list it has not reached
  queue,     \* requests waiting for a worker
  delayed,   \* requests a timer will add: polls, after the wait of Timeout,
  retry,     \* and retries, after the back-off of the queue
  at,        \* at[t]: where thread t stands
  job,       \* job[t]: the deployment it works on
  seen,      \* seen[w]: the version of the organization its pass has read
  lock,      \* the owners of the handler's and the application's mutex
  speedy,    \* the deployments with an entry in the speedy map
  restarts   \* deaths of the process so far

queueVars == << queue, delayed, retry >>
mapVars   == << lock, speedy >>
vars == << object, cache, version, applied, calls, todo, queueVars, at, job, seen,
           mapVars, restarts >>

Phases == {"unborn", "live", "deleting", "gone"}

Listed(d) == cache[d] \in {"live", "deleting"}

NoThreadBusy == [t \in Threads |-> "idle"]
NoJobs       == [t \in Threads |-> None]
NothingSeen  == [w \in Workers |-> 0]
NoOwners     == [m \in {"mutex", "speedyMutex"} |-> Free]

Init ==
  /\ object = [d \in Deployments |-> "unborn"]
  /\ cache = object
  /\ version = 1
  /\ applied = [d \in Deployments |-> 0]
  /\ calls = 1
  /\ queue = {}
  /\ restarts = 0
  /\ todo = {} /\ delayed = {} /\ retry = {}
  /\ at = NoThreadBusy /\ job = NoJobs /\ seen = NothingSeen
  /\ lock = NoOwners /\ speedy = {}

-----------------------------------------------------------------------------
(* Users and the informer                                                  *)

Create(d) ==
  /\ object[d] = "unborn"
  /\ object' = [object EXCEPT ![d] = "live"]
  /\ UNCHANGED << cache, version, applied, calls, todo, queueVars, at, job, seen,
                  mapVars, restarts >>

Delete(d) ==
  /\ object[d] = "live"
  /\ object' = [object EXCEPT ![d] = "deleting"]
  /\ UNCHANGED << cache, version, applied, calls, todo, queueVars, at, job, seen,
                  mapVars, restarts >>

Sync(d) ==
  /\ cache[d] # object[d]
  /\ cache' = [cache EXCEPT ![d] = object[d]]
  /\ queue' = queue \cup {d}
  /\ UNCHANGED << object, version, applied, calls, todo, delayed, retry, at, job, seen,
                  mapVars, restarts >>

\* The organization's spec changes: Update calls add for the old and the new one.
OrganizationChanges ==
  /\ version < MaxVersion
  /\ version' = version + 1
  /\ calls' = calls + 2
  /\ UNCHANGED << object, cache, applied, todo, queueVars, at, job, seen, mapVars, restarts >>

TimerFires(d) ==
  /\ d \in delayed \cup retry
  /\ delayed' = delayed \ {d}
  /\ retry' = retry \ {d}
  /\ queue' = queue \cup {d}
  /\ UNCHANGED << object, cache, version, applied, calls, todo, at, job, seen,
                  mapVars, restarts >>

-----------------------------------------------------------------------------
(* Mutexes and the map.  A thread is "inside" from the lock to the unlock; *)
(* what it does to the map takes effect when it leaves.                    *)

MutexOf(t) == IF t = Handler THEN "mutex" ELSE "speedyMutex"

Lock(t) ==
  /\ lock[MutexOf(t)] = Free
  /\ lock' = [lock EXCEPT ![MutexOf(t)] = t]

Unlock(t) == lock' = [lock EXCEPT ![MutexOf(t)] = Free]

Go(t, next) == at' = [at EXCEPT ![t] = next]

Inside == { t \in Threads : at[t] \in {"reset", "read", "delete"} }

-----------------------------------------------------------------------------
(* EnqueueRequestForAllOrganizations.add                                   *)

\* The list is the cache at this moment; the loop works on it from now on.
HandlerLists ==
  /\ at[Handler] = "idle"
  /\ calls > 0
  /\ calls' = calls - 1
  /\ todo' = { d \in Deployments : Listed(d) }
  /\ Go(Handler, "loop")
  /\ UNCHANGED << object, cache, version, applied, queueVars, job, seen, mapVars, restarts >>

HandlerLocks(d) ==
  /\ at[Handler] = "loop"
  /\ d \in todo
  /\ Lock(Handler)
  /\ job' = [job EXCEPT ![Handler] = d]
  /\ Go(Handler, "reset")
  /\ UNCHANGED << object, cache, version, applied, calls, todo, queueVars, seen,
                  speedy, restarts >>

\* As if the loop's variable were cleared before the request is made.
HandlerForgets ==
  /\ at[Handler] = "reset"
  /\ speedy' = speedy \cup {job[Handler]}
  /\ job' = [job EXCEPT ![Handler] = None]
  /\ Unlock(Handler)
  /\ Go(Handler, "enqueue")
  /\ UNCHANGED << object, cache, version, applied, calls, todo, queueVars, seen,
                  restarts >>

HandlerResets ==
  /\ at[Handler] = "reset"
  /\ speedy' = speedy \cup {job[Handler]}
  /\ Unlock(Handler)
  /\ Go(Handler, "enqueue")
  /\ UNCHANGED << object, cache, version, applied, calls, todo, queueVars, job, seen,
                  restarts >>

\* As if the loop ended with a break, like the one of handleAppLogic.
NoRest(d) == {}

Rest(d) == todo \ {d}

HandlerEnqueues ==
  /\ at[Handler] = "enqueue"
  /\ queue' = queue \cup {job[Handler]}
  /\ todo' = Rest(job[Handler])
  /\ job' = [job EXCEPT ![Handler] = None]
  /\ Go(Handler, "loop")
  /\ UNCHANGED << object, cache, version, applied, calls, delayed, retry, seen, mapVars, restarts >>

HandlerReturns ==
  /\ at[Handler] = "loop"
  /\ todo = {}
  /\ Go(Handler, "idle")
  /\ UNCHANGED << object, cache, version, applied, calls, todo, queueVars, job, seen,
                  mapVars, restarts >>

-----------------------------------------------------------------------------
(* A worker's pass                                                         *)

\* The worker is done with its deployment.
Finished(w) ==
  /\ job' = [job EXCEPT ![w] = None]
  /\ seen' = [seen EXCEPT ![w] = 0]
  /\ Go(w, "idle")

\* A request whose deployment is processed by another worker waits.
Available(w, d) ==
  /\ at[w] = "idle"
  /\ d \in queue
  /\ \A v \in Workers : job[v] # d
  /\ queue' = queue \ {d}

TakeGone(w, d) ==
  /\ Available(w, d)
  /\ ~ Listed(d)
  /\ UNCHANGED << object, cache, version, applied, calls, todo, delayed, retry, at, job, seen,
                  mapVars, restarts >>

Take(w, d) ==
  /\ Available(w, d)
  /\ Listed(d)
  /\ job' = [job EXCEPT ![w] = d]
  /\ Go(w, IF cache[d] = "live" THEN "logic" ELSE "finalizer")
  /\ UNCHANGED << object, cache, version, applied, calls, todo, delayed, retry, seen,
                  mapVars, restarts >>

\* The finalizer goes and the object with it; FinalDelete follows.
RemoveFinalizer(w) ==
  /\ at[w] = "finalizer"
  /\ object' = [object EXCEPT ![job[w]] = "gone"]
  /\ Go(w, "final")
  /\ UNCHANGED << cache, version, applied, calls, todo, queueVars, job, seen, mapVars, restarts >>

FinalDeleteLocks(w) ==
  /\ at[w] = "final"
  /\ Lock(w)
  /\ Go(w, "delete")
  /\ UNCHANGED << object, cache, version, applied, calls, todo, queueVars, job, seen,
                  speedy, restarts >>

FinalDelete(w) ==
  /\ at[w] = "delete"
  /\ speedy' = speedy \ {job[w]}
  /\ Unlock(w)
  /\ Finished(w)
  /\ UNCHANGED << object, cache, version, applied, calls, todo, queueVars, restarts >>

\* handleAppLogic lists the organizations.
AppLogic(w) ==
  /\ at[w] = "logic"
  /\ seen' = [seen EXCEPT ![w] = version]
  /\ Go(w, "timeout")
  /\ UNCHANGED << object, cache, version, applied, calls, todo, queueVars, job, mapVars, restarts >>

TimeoutLocks(w) ==
  /\ at[w] = "timeout"
  /\ Lock(w)
  /\ Go(w, "read")
  /\ UNCHANGED << object, cache, version, applied, calls, todo, queueVars, job, seen,
                  speedy, restarts >>

\* Timeout reads the deployment's entry.  Every entry is 0, and so is a missing
\* one (speedy++ increments the local copy only): the delay is veryShortWait
\* whatever it reads.
Timeout(w) ==
  /\ at[w] = "read"
  /\ Unlock(w)
  /\ Go(w, "status")
  /\ UNCHANGED << object, cache, version, applied, calls, todo, queueVars, job, seen,
                  speedy, restarts >>

\* The status is written and the deployment comes back after its delay.
UpdateStatus(w) ==
  /\ at[w] = "status"
  /\ object[job[w]] = "live"
  /\ applied' = [applied EXCEPT ![job[w]] = seen[w]]
  /\ delayed' = delayed \cup {job[w]}
  /\ Finished(w)
  /\ UNCHANGED << object, cache, version, calls, todo, queue, retry, mapVars, restarts >>

\* The copy is out of date: another writer, or the pass's own last write.
UpdateConflicts(w) ==
  /\ at[w] = "status"
  /\ retry' = retry \cup {job[w]}
  /\ Finished(w)
  /\ UNCHANGED << object, cache, version, applied, calls, todo, queue, delayed,
                  mapVars, restarts >>

-----------------------------------------------------------------------------
(* The process dies                                                        *)

Restart ==
  /\ restarts < MaxRestarts
  /\ restarts' = restarts + 1
  /\ cache' = object
  /\ calls' = 1
  /\ queue' = { d \in Deployments : object[d] \in {"live", "deleting"} }
  /\ todo' = {} /\ delayed' = {} /\ retry' = {}
  /\ at' = NoThreadBusy /\ job' = NoJobs /\ seen' = NothingSeen
  /\ lock' = NoOwners /\ speedy' = {}
  /\ UNCHANGED << object, version, applied >>

Crash == Restart

\* Go aborts a process in which a write of a map overlaps another access (it
\* need not notice).
Abort ==
  /\ Handler \in Inside /\ Cardinality(Inside) > 1
  /\ Restart

-----------------------------------------------------------------------------
HandlerStep ==
  \/ HandlerLists \/ HandlerResets \/ HandlerEnqueues \/ HandlerReturns
  \/ \E d \in Deployments : HandlerLocks(d)

WorkerStep(w) ==
  \/ \E d \in Deployments : TakeGone(w, d) \/ Take(w, d)
  \/ RemoveFinalizer(w) \/ FinalDeleteLocks(w) \/ FinalDelete(w)
  \/ AppLogic(w) \/ TimeoutLocks(w) \/ Timeout(w)
  \/ UpdateStatus(w) \/ UpdateConflicts(w)

Next ==
  \/ \E d \in Deployments : Create(d) \/ Delete(d) \/ Sync(d) \/ TimerFires(d)
  \/ OrganizationChanges
  \/ HandlerStep
  \/ \E w \in Workers : WorkerStep(w)
  \/ Crash
  \/ Abort

Spec == Init /\ [][Next]_vars

-----------------------------------------------------------------------------
(* Properties                                                              *)

\* Every variable has its type.
TypeOK ==
  /\ object \in [Deployments -> Phases]
  /\ cache \in [Deployments -> Phases]
  /\ version \in 1 .. MaxVersion
  /\ applied \in [Deployments -> 0 .. MaxVersion]
  /\ calls \in Nat
  /\ todo \subseteq Deployments
  /\ queue \subseteq Deployments
  /\ delayed \subseteq Deployments
  /\ retry \subseteq Deployments
  /\ at \in [Threads -> {"idle", "loop", "reset", "enqueue", "finalizer", "final", "delete",
                         "logic", "timeout", "read", "status"}]
  /\ job \in [Threads -> Deployments \cup {None}]
  /\ seen \in [Workers -> 0 .. MaxVersion]
  /\ lock \in [{"mutex", "speedyMutex"} -> Threads \cup {Free}]
  /\ speedy \subseteq Deployments
  /\ restarts \in 0 .. MaxRestarts

\* The application's mutex does its part: whatever Timeout and FinalDelete of
\* different workers do to the map, they do one after the other.
WorkersExclude == Cardinality(Inside \cap Workers) <= 1

\* A worker has the current version of the organization, or will read it.
UpToDate(w) == at[w] = "logic" \/ seen[w] = version

\* A change of the organization reaches all its deployments without waiting for
\* their next poll, however the handler's loop, which works on an old list one
\* deployment at a time, is interleaved with the workers, with deployments that
\* come and go, and with restarts.
StaleIsQueued ==
  \A d \in Deployments :
    /\ object[d] = "live" /\ cache[d] = "live"
    /\ applied[d] # version
    => \/ d \in queue \cup retry
       \/ \E w \in Workers : job[w] = d /\ UpToDate(w)
       \/ calls > 0
       \/ d \in todo

\* reconciler.go and watchorg.go declare a mutex beside the speedy map
\* ("speedyMutex sync.Mutex"): only one thread at a time uses the map.
MapIsGuarded == Cardinality(Inside) <= 1
=============================================================================
