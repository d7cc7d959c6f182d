--------------------------- MODULE OrgWatchProofs ---------------------------
(***************************************************************************)
(* Proofs about OrgWatch, for every number of deployments and workers and  *)
(* every bound on versions and restarts.                                   *)
(***************************************************************************)
EXTENDS OrgWatch, FiniteSetTheorems, TLAPS

ListedPhases == {"live", "deleting"}

HandlerPlaces == {"idle", "loop", "reset", "enqueue"}
BeforeList    == {"idle", "finalizer", "final", "delete", "logic"}
AfterList     == {"timeout", "read", "status"}

\* Where the threads stand and what they work on.
Places ==
  /\ at[Handler] \in HandlerPlaces
  /\ at[Handler] \in {"reset", "enqueue"} => job[Handler] \in Deployments
  /\ \A w \in Workers :
       /\ at[w] \in BeforeList \cup AfterList
       /\ at[w] = "idle" <=> job[w] = None
       /\ at[w] \in BeforeList => seen[w] = 0

\* The queue gives a deployment to one worker at a time.
Alone == \A v, w \in Workers : job[v] = job[w] /\ job[v] # None => v = w

\* A worker inside the application's mutex owns it.
Owned ==
  \A w \in Workers : at[w] \in {"read", "delete"} => lock["speedyMutex"] = w

\* The version a pass has read is not older than the one its deployment's status
\* was last made from: no other pass is at the same deployment.
Newer ==
  /\ \A d \in Deployments : applied[d] <= version
  /\ \A w \in Workers : at[w] \in AfterList => applied[job[w]] <= seen[w] /\ seen[w] <= version

WatchInv == TypeOK /\ Places /\ Alone /\ Owned /\ Newer

LEMMA WatchInit == Init => WatchInv
<1> SUFFICES ASSUME Init PROVE WatchInv
  OBVIOUS
<1> USE DEF Init, NoThreadBusy, NoJobs, NothingSeen, NoOwners, Threads
<1>1. TypeOK
  BY WatchBounds DEF TypeOK, Phases
<1>2. Places /\ Alone /\ Owned
  BY HandlerIsNoWorker DEF Places, Alone, Owned, HandlerPlaces, BeforeList, AfterList
<1>3. Newer
  BY DEF Newer, AfterList
<1> QED
  BY <1>1, <1>2, <1>3 DEF WatchInv

\* Users, the informer, the timers and a change of the organization.
LEMMA WatchEvents ==
  ASSUME WatchInv,
         \/ \E d \in Deployments : Create(d) \/ Delete(d) \/ Sync(d) \/ TimerFires(d)
         \/ OrganizationChanges
  PROVE  WatchInv'
<1>1. UNCHANGED << at, job, seen, mapVars >>
  BY DEF Create, Delete, Sync, TimerFires, OrganizationChanges
<1>2. /\ UNCHANGED applied
      /\ version' \in Nat /\ version <= version'
  BY WatchBounds DEF Create, Delete, Sync, TimerFires, OrganizationChanges, WatchInv, TypeOK
<1>3. TypeOK'
  <2> USE DEF WatchInv, TypeOK, mapVars
  <2>1. ASSUME NEW d \in Deployments, Create(d) PROVE TypeOK'
    BY <2>1 DEF Create, queueVars, Phases
  <2>2. ASSUME NEW d \in Deployments, Delete(d) PROVE TypeOK'
    BY <2>2 DEF Delete, queueVars, Phases
  <2>3. ASSUME NEW d \in Deployments, Sync(d) PROVE TypeOK'
    BY <2>3 DEF Sync
  <2>4. ASSUME NEW d \in Deployments, TimerFires(d) PROVE TypeOK'
    BY <2>4 DEF TimerFires
  <2>5. CASE OrganizationChanges
    BY <2>5, WatchBounds DEF OrganizationChanges, queueVars
  <2> QED
    BY <2>1, <2>2, <2>3, <2>4, <2>5
<1>4. Places' /\ Alone' /\ Owned'
  BY <1>1 DEF mapVars, WatchInv, Places, Alone, Owned
<1>5. Newer'
  BY <1>1, <1>2 DEF WatchInv, TypeOK, Places, AfterList, BeforeList, Newer, Threads
<1> QED
  BY <1>3, <1>4, <1>5 DEF WatchInv

\* What the handler does leaves the workers alone.
LEMMA WatchHandler ==
  ASSUME WatchInv, HandlerStep
  PROVE  WatchInv'
<1>1. /\ UNCHANGED << object, cache, version, applied, delayed, retry, seen, restarts >>
      /\ lock'["speedyMutex"] = lock["speedyMutex"]
      /\ \A w \in Workers : at'[w] = at[w] /\ job'[w] = job[w]
  BY HandlerIsNoWorker DEF HandlerStep, HandlerLists, HandlerLocks, HandlerResets, HandlerEnqueues,
    HandlerReturns, Lock, Unlock, Go, MutexOf, queueVars, mapVars, Threads, WatchInv, TypeOK
<1>2. TypeOK' /\ Places'
  <2> USE HandlerIsNoWorker DEF WatchInv, TypeOK, Places, Go, Lock, Unlock, MutexOf, Threads,
        queueVars, mapVars, HandlerPlaces
  <2>1. CASE HandlerLists
    BY <1>1, <2>1 DEF HandlerLists
  <2>2. ASSUME NEW d \in Deployments, HandlerLocks(d) PROVE TypeOK' /\ Places'
    BY <1>1, <2>2 DEF HandlerLocks
  <2>3. CASE HandlerResets
    BY <1>1, <2>3 DEF HandlerResets
  <2>4. CASE HandlerEnqueues
    BY <1>1, <2>4 DEF HandlerEnqueues, Rest
  <2>5. CASE HandlerReturns
    BY <1>1, <2>5 DEF HandlerReturns
  <2> QED
    BY <2>1, <2>2, <2>3, <2>4, <2>5 DEF HandlerStep
<1>3. Alone' /\ Owned' /\ Newer'
  BY <1>1 DEF WatchInv, Places, Alone, Owned, Newer, AfterList
<1> QED
  BY <1>2, <1>3 DEF WatchInv

\* The process dies: nobody stands anywhere.
LEMMA WatchRestart ==
  ASSUME WatchInv, Restart
  PROVE  WatchInv'
<1> USE DEF Restart, NoThreadBusy, NoJobs, NothingSeen, NoOwners, Threads, WatchInv, TypeOK
<1>1. TypeOK'
  BY WatchBounds
<1>2. Places' /\ Alone' /\ Owned'
  BY HandlerIsNoWorker DEF Places, Alone, Owned, HandlerPlaces, BeforeList, AfterList
<1>3. Newer'
  BY DEF Newer, AfterList
<1> QED
  BY <1>1, <1>2, <1>3

\* Where a worker that goes from one place to another leaves the others.
LEMMA WorkerMoves ==
  ASSUME WatchInv, NEW w \in Workers, NEW next, Go(w, next)
  PROVE  /\ at'[w] = next
         /\ at'[Handler] = at[Handler]
         /\ \A v \in Workers \ {w} : at'[v] = at[v]
  BY HandlerIsNoWorker DEF Go, Threads, WatchInv, TypeOK

\* A worker that is done forgets its deployment and what it has read.
LEMMA WorkerFinishes ==
  ASSUME WatchInv, NEW w \in Workers, Finished(w)
  PROVE  /\ job' \in [Threads -> Deployments \cup {None}]
         /\ seen' \in [Workers -> 0 .. MaxVersion]
         /\ at'[w] = "idle" /\ job'[w] = None /\ seen'[w] = 0
         /\ at'[Handler] = at[Handler] /\ job'[Handler] = job[Handler]
         /\ \A v \in Workers \ {w} : at'[v] = at[v] /\ job'[v] = job[v] /\ seen'[v] = seen[v]
<1>1. /\ job' \in [Threads -> Deployments \cup {None}]
      /\ seen' \in [Workers -> 0 .. MaxVersion]
      /\ job'[w] = None /\ seen'[w] = 0
      /\ job'[Handler] = job[Handler]
      /\ \A v \in Workers \ {w} : job'[v] = job[v] /\ seen'[v] = seen[v]
  BY WatchBounds, HandlerIsNoWorker DEF Finished, Threads, WatchInv, TypeOK
<1> QED
  BY <1>1, WorkerMoves DEF Finished

\* Every step of a worker keeps the invariant.
LEMMA WatchWorker ==
  ASSUME WatchInv, NEW w \in Workers, WorkerStep(w)
  PROVE  WatchInv'
<1>0. /\ TypeOK /\ Places /\ Alone /\ Owned /\ Newer
      /\ w \in Threads /\ w # Handler
      /\ at[w] # "idle" => job[w] \in Deployments
  BY HandlerIsNoWorker, ReservedNames DEF WatchInv, Places, TypeOK, Threads
<1>1. CASE \E d \in Deployments : TakeGone(w, d)
  <2>1. TypeOK'
    BY <1>0, <1>1 DEF TakeGone, Available, mapVars, TypeOK
  <2>2. UNCHANGED << version, applied, at, job, seen, mapVars >>
    BY <1>1 DEF TakeGone
  <2> QED
    BY <1>0, <2>1, <2>2 DEF WatchInv, Places, Alone, Owned, Newer, mapVars
<1>2. ASSUME NEW d \in Deployments, Take(w, d) PROVE WatchInv'
  <2>1. /\ at[w] = "idle" /\ at'[w] \in {"logic", "finalizer"}
        /\ job' = [job EXCEPT ![w] = d]
        /\ at'[Handler] = at[Handler]
        /\ \A v \in Workers \ {w} : at'[v] = at[v]
        /\ \A v \in Workers : job[v] # d
        /\ UNCHANGED << version, applied, seen, mapVars >>
    BY <1>2, WorkerMoves DEF Take, Available
  <2>2. TypeOK'
    BY <1>0, <1>2 DEF Take, Available, Go, mapVars, TypeOK
  <2>3. job'[w] = d /\ job'[Handler] = job[Handler] /\ \A v \in Workers \ {w} : job'[v] = job[v]
    BY <1>0, <2>1 DEF TypeOK, Threads
  <2>4. Places'
    BY <1>0, <2>1, <2>3, ReservedNames DEF Places, BeforeList, AfterList
  <2>5. Alone'
    BY <1>0, <2>1, <2>3 DEF Alone
  <2>6. Owned' /\ Newer'
    BY <1>0, <2>1, <2>3 DEF Owned, Newer, AfterList, mapVars
  <2> QED
    BY <1>0, <2>1, <2>2, <2>4, <2>5, <2>6 DEF WatchInv, mapVars
<1>3. CASE RemoveFinalizer(w)
  <2>1. /\ at[w] = "finalizer" /\ at'[w] = "final"
        /\ at'[Handler] = at[Handler]
        /\ \A v \in Workers \ {w} : at'[v] = at[v]
        /\ UNCHANGED << version, applied, job, seen, mapVars >>
    BY <1>3, WorkerMoves DEF RemoveFinalizer
  <2>2. TypeOK'
    BY <1>0, <1>3 DEF RemoveFinalizer, Go, queueVars, mapVars, TypeOK, Phases
  <2>3. Places' /\ Alone' /\ Owned' /\ Newer'
    BY <1>0, <2>1 DEF Places, Alone, Owned, Newer, BeforeList, AfterList, mapVars
  <2> QED
    BY <1>0, <2>1, <2>2, <2>3 DEF WatchInv, mapVars
<1>4. CASE FinalDeleteLocks(w) \/ TimeoutLocks(w)
  <2>1. /\ \/ at[w] = "final" /\ at'[w] = "delete"
           \/ at[w] = "timeout" /\ at'[w] = "read"
        /\ at'[Handler] = at[Handler]
        /\ \A v \in Workers \ {w} : at'[v] = at[v]
        /\ UNCHANGED << version, applied, job, seen, speedy >>
    BY <1>4, WorkerMoves DEF FinalDeleteLocks, TimeoutLocks
  <2>2. lock["speedyMutex"] = Free /\ lock' = [lock EXCEPT !["speedyMutex"] = w]
    BY <1>0, <1>4 DEF FinalDeleteLocks, TimeoutLocks, Lock, MutexOf
  <2>3. TypeOK'
    BY <1>0, <1>4, <2>2 DEF FinalDeleteLocks, TimeoutLocks, Go, queueVars, TypeOK
  <2>4. Owned'
    BY <1>0, <2>1, <2>2, ReservedNames DEF Owned, TypeOK, Threads
  <2>5. Places' /\ Alone' /\ Newer'
    BY <1>0, <2>1 DEF Places, Alone, Newer, BeforeList, AfterList
  <2> QED
    BY <1>0, <2>1, <2>3, <2>4, <2>5 DEF WatchInv
<1>5. CASE FinalDelete(w)
  <2>1. /\ at[w] = "delete" /\ lock["speedyMutex"] = w
        /\ speedy' = speedy \ {job[w]}
        /\ lock' = [lock EXCEPT !["speedyMutex"] = Free]
        /\ Finished(w)
        /\ UNCHANGED << version, applied >>
    BY <1>0, <1>5 DEF FinalDelete, Unlock, MutexOf, Owned
  <2>2. TypeOK'
    <3>1. at' \in [Threads -> HandlerPlaces \cup BeforeList \cup AfterList]
      BY <1>0, <2>1 DEF Finished, Go, TypeOK, HandlerPlaces, BeforeList, AfterList
    <3>2. speedy' \subseteq Deployments
      BY <1>0, <2>1 DEF TypeOK
    <3>3. lock' \in [{"mutex", "speedyMutex"} -> Threads \cup {Free}]
      BY <1>0, <2>1 DEF TypeOK
    <3>4. UNCHANGED << object, cache, version, applied, calls, todo, queueVars, restarts >>
      BY <1>5 DEF FinalDelete
    <3> QED
      BY <1>0, <2>1, <3>1, <3>2, <3>3, <3>4, WorkerFinishes
      DEF queueVars, TypeOK, HandlerPlaces, BeforeList, AfterList
  <2>3. \A v \in Workers \ {w} : at[v] \notin {"read", "delete"}
    BY <1>0, <2>1 DEF Owned
  <2>4. Places' /\ Alone' /\ Owned' /\ Newer'
    BY <1>0, <2>1, <2>3, WorkerFinishes DEF Places, Alone, Owned, Newer, BeforeList, AfterList
  <2> QED
    BY <1>0, <2>1, <2>2, <2>4 DEF WatchInv
<1>6. CASE AppLogic(w)
  <2>1. /\ at[w] = "logic" /\ at'[w] = "timeout"
        /\ at'[Handler] = at[Handler]
        /\ \A v \in Workers \ {w} : at'[v] = at[v]
        /\ seen' = [seen EXCEPT ![w] = version]
        /\ UNCHANGED << version, applied, job, mapVars >>
    BY <1>6, WorkerMoves DEF AppLogic
  <2>2. TypeOK'
    BY <1>0, <1>6 DEF AppLogic, Go, queueVars, mapVars, TypeOK
  <2>3. seen'[w] = version /\ \A v \in Workers \ {w} : seen'[v] = seen[v]
    BY <1>0, <2>1 DEF TypeOK
  <2>4. Places' /\ Alone' /\ Owned'
    BY <1>0, <2>1, <2>3 DEF Places, Alone, Owned, BeforeList, AfterList, mapVars
  <2>5. Newer'
    BY <1>0, <2>1, <2>3 DEF Newer, TypeOK, AfterList
  <2> QED
    BY <1>0, <2>1, <2>2, <2>4, <2>5 DEF WatchInv, mapVars
<1>7. CASE Timeout(w)
  <2>1. /\ at[w] = "read" /\ at'[w] = "status" /\ lock["speedyMutex"] = w
        /\ at'[Handler] = at[Handler]
        /\ \A v \in Workers \ {w} : at'[v] = at[v]
        /\ lock' = [lock EXCEPT !["speedyMutex"] = Free]
        /\ UNCHANGED << version, applied, job, seen, speedy >>
    BY <1>0, <1>7, WorkerMoves DEF Timeout, Unlock, MutexOf, Owned
  <2>2. TypeOK'
    BY <1>0, <1>7, <2>1 DEF Timeout, Go, queueVars, TypeOK
  <2>3. \A v \in Workers \ {w} : at[v] \notin {"read", "delete"}
    BY <1>0, <2>1 DEF Owned
  <2>4. Places' /\ Alone' /\ Owned' /\ Newer'
    BY <1>0, <2>1, <2>3 DEF Places, Alone, Owned, Newer, BeforeList, AfterList
  <2> QED
    BY <1>0, <2>1, <2>2, <2>4 DEF WatchInv
<1>8. CASE UpdateStatus(w) \/ UpdateConflicts(w)
  <2>1. /\ at[w] = "status"
        /\ Finished(w)
        /\ applied' = [applied EXCEPT ![job[w]] = seen[w]] \/ UNCHANGED applied
        /\ UNCHANGED << version, mapVars >>
    BY <1>8 DEF UpdateStatus, UpdateConflicts
  <2>2. TypeOK'
    <3>1. at' \in [Threads -> HandlerPlaces \cup BeforeList \cup AfterList]
      BY <1>0, <2>1 DEF Finished, Go, TypeOK, HandlerPlaces, BeforeList, AfterList
    <3>2. applied' \in [Deployments -> 0 .. MaxVersion]
      BY <1>0, <2>1 DEF TypeOK
    <3>3. /\ UNCHANGED << object, cache, calls, todo, queue, restarts >>
          /\ delayed' \subseteq Deployments /\ retry' \subseteq Deployments
      BY <1>0, <1>8, <2>1 DEF UpdateStatus, UpdateConflicts, TypeOK
    <3> QED
      BY <1>0, <2>1, <3>1, <3>2, <3>3, WorkerFinishes
      DEF mapVars, TypeOK, HandlerPlaces, BeforeList, AfterList
  <2>3. Places' /\ Alone' /\ Owned'
    BY <1>0, <2>1, WorkerFinishes DEF Places, Alone, Owned, BeforeList, AfterList, mapVars
  <2>4. Newer'
    <3>1. \A v \in Workers : at'[v] \in AfterList =>
            /\ v # w /\ at[v] \in AfterList /\ job'[v] = job[v] /\ seen'[v] = seen[v]
            /\ job[v] \in Deployments /\ job[v] # job[w]
      BY <1>0, <2>1, WorkerFinishes, ReservedNames DEF Alone, Places, AfterList, TypeOK, Threads
    <3>2. seen[w] <= version /\ seen[w] \in Nat
      BY <1>0, <2>1 DEF Newer, AfterList, TypeOK
    <3>3. \A d \in Deployments : applied'[d] <= version /\ (d # job[w] => applied'[d] = applied[d])
      BY <1>0, <2>1, <3>2 DEF Newer, TypeOK
    <3> QED
      BY <1>0, <2>1, <3>1, <3>3 DEF Newer
  <2> QED
    BY <1>0, <2>1, <2>2, <2>3, <2>4 DEF WatchInv, mapVars
<1> QED
  BY <1>1, <1>2, <1>3, <1>4, <1>5, <1>6, <1>7, <1>8 DEF WorkerStep

LEMMA WatchStep == WatchInv /\ [Next]_vars => WatchInv'
<1> SUFFICES ASSUME WatchInv, [Next]_vars PROVE WatchInv'
  OBVIOUS
<1>1. CASE Crash \/ Abort
  BY <1>1, WatchRestart DEF Crash, Abort
<1>2. CASE UNCHANGED vars
  BY <1>2 DEF vars, queueVars, mapVars, WatchInv, TypeOK, Places, Alone, Owned, Newer
<1> QED
  BY <1>1, <1>2, WatchEvents, WatchHandler, WatchWorker DEF Next

LEMMA WatchHolds == Spec => []WatchInv
  BY WatchInit, WatchStep, PTL DEF Spec

\* Every variable has its type, with any number of workers beside the handler.
THEOREM WatchTypeCorrect == Spec => []TypeOK
  BY WatchHolds, PTL DEF WatchInv

\* The application's mutex keeps its workers apart, also across restarts.
THEOREM WorkersExcluded == Spec => []WorkersExclude
<1>1. WatchInv => WorkersExclude
  <2> SUFFICES ASSUME WatchInv PROVE WorkersExclude
    OBVIOUS
  <2>1. Inside \cap Workers \subseteq {lock["speedyMutex"]}
    BY DEF Inside, WatchInv, Places, BeforeList, AfterList, Owned
  <2>2. /\ IsFiniteSet({lock["speedyMutex"]})
        /\ Cardinality({lock["speedyMutex"]}) = 1
    BY FS_Singleton
  <2>3. /\ Cardinality(Inside \cap Workers) <= Cardinality({lock["speedyMutex"]})
        /\ Cardinality(Inside \cap Workers) \in Nat
    BY <2>1, <2>2, FS_Subset, FS_CardinalityType
  <2> QED
    BY <2>2, <2>3 DEF WorkersExclude
<1> QED
  BY <1>1, WatchHolds, PTL

-----------------------------------------------------------------------------
(* Changes of the organization reach its deployments                       *)

\* What StaleIsQueued says of one deployment.
Queued(d) ==
  \/ d \in queue \cup retry
  \/ \E w \in Workers : job[w] = d /\ UpToDate(w)
  \/ calls > 0
  \/ d \in todo

Current(d) == object[d] = "live" /\ cache[d] = "live" /\ applied[d] # version

\* The cache knows no deployment that was never created.
Born == \A d \in Deployments : object[d] = "unborn" => cache[d] = "unborn"

LEMMA BornHolds == Spec => []Born
<1>1. Init => Born
  BY DEF Init, Born
<1>2. WatchInv /\ Born /\ [Next]_vars => Born'
  <2> SUFFICES ASSUME WatchInv, Born, [Next]_vars PROVE Born'
    OBVIOUS
  <2> USE DEF WatchInv, TypeOK, Born
  <2>1. CASE UNCHANGED << object, cache >>
    BY <2>1
  <2>2. ASSUME NEW d \in Deployments, Create(d) \/ Delete(d) \/ Sync(d) \/ TimerFires(d)
        PROVE  Born'
    BY <2>2 DEF Create, Delete, Sync, TimerFires
  <2>3. CASE OrganizationChanges \/ HandlerStep
    BY <2>1, <2>3 DEF OrganizationChanges, HandlerStep, HandlerLists, HandlerLocks, HandlerResets,
      HandlerEnqueues, HandlerReturns
  <2>4. ASSUME NEW w \in Workers, WorkerStep(w) PROVE Born'
    BY <2>1, <2>4 DEF WorkerStep, TakeGone, Take, RemoveFinalizer, FinalDeleteLocks, FinalDelete,
      AppLogic, TimeoutLocks, Timeout, UpdateStatus, UpdateConflicts
  <2>5. CASE Crash \/ Abort
    BY <2>5 DEF Crash, Abort, Restart
  <2> QED
    BY <2>1, <2>2, <2>3, <2>4, <2>5 DEF Next, vars
<1> QED
  BY <1>1, <1>2, WatchHolds, PTL DEF Spec

\* A deployment with an old status that was queued stays queued, and one whose
\* status becomes old is queued by the step that makes it old.
LEMMA StaleStep == WatchInv /\ Born /\ StaleIsQueued /\ [Next]_vars => StaleIsQueued'
<1> SUFFICES ASSUME WatchInv, Born, StaleIsQueued, [Next]_vars, NEW d \in Deployments, Current(d)'
             PROVE  Queued(d)'
  BY DEF StaleIsQueued, Current, Queued, UpToDate
<1>0. /\ TypeOK /\ Places /\ Alone /\ Newer
      /\ Current(d) => Queued(d)
  BY DEF WatchInv, StaleIsQueued, Current, Queued
<1>1. CASE \E e \in Deployments : Create(e) \/ Delete(e)
  <2>1. /\ Current(d)
        /\ UNCHANGED << version, calls, todo, queue, retry, at, job, seen >>
    BY <1>0, <1>1 DEF Create, Delete, Current, queueVars, Born, TypeOK
  <2> QED
    BY <1>0, <2>1 DEF Queued, UpToDate
<1>2. ASSUME NEW e \in Deployments, Sync(e) PROVE Queued(d)'
  BY <1>0, <1>2 DEF Sync, Current, Queued, UpToDate, TypeOK
<1>3. ASSUME NEW e \in Deployments, TimerFires(e) PROVE Queued(d)'
  BY <1>0, <1>3 DEF TimerFires, Current, Queued, UpToDate
<1>4. CASE OrganizationChanges
  BY <1>0, <1>4 DEF OrganizationChanges, Queued, TypeOK
<1>5. CASE HandlerLists
  BY <1>5 DEF HandlerLists, Current, Queued, Listed
<1>6. CASE HandlerEnqueues
  <2>1. Current(d) /\ \A w \in Workers : job'[w] = job[w] /\ (UpToDate(w) => UpToDate(w)')
    BY <1>0, <1>6, HandlerIsNoWorker
    DEF HandlerEnqueues, Current, UpToDate, Go, TypeOK, Threads
  <2> QED
    BY <1>0, <1>6, <2>1 DEF HandlerEnqueues, Rest, Queued
<1>7. CASE HandlerResets \/ HandlerReturns \/ \E e \in Deployments : HandlerLocks(e)
  <2>1. Current(d) /\ \A w \in Workers : job'[w] = job[w] /\ (UpToDate(w) => UpToDate(w)')
    BY <1>0, <1>7, HandlerIsNoWorker
    DEF HandlerResets, HandlerReturns, HandlerLocks, Current, UpToDate, Go, TypeOK, Threads
  <2> QED
    BY <1>0, <1>7, <2>1 DEF HandlerResets, HandlerReturns, HandlerLocks, Queued, queueVars
<1>8. CASE Crash \/ Abort
  BY <1>8 DEF Crash, Abort, Restart, Current, Queued
<1>9. CASE UNCHANGED vars
  BY <1>0, <1>9 DEF vars, queueVars, Current, Queued, UpToDate
<1>10. ASSUME NEW w \in Workers, WorkerStep(w) PROVE Queued(d)'
  <2>1. /\ UNCHANGED << cache, version, calls, todo >>
        /\ \A v \in Workers \ {w} : job'[v] = job[v] /\ at'[v] = at[v] /\ seen'[v] = seen[v]
    BY <1>0, <1>10, HandlerIsNoWorker
    DEF WorkerStep, TakeGone, Take, RemoveFinalizer, FinalDeleteLocks, FinalDelete, AppLogic,
        TimeoutLocks, Timeout, UpdateStatus, UpdateConflicts, Available, Finished, Go, TypeOK, Threads
  <2>2. ASSUME queue \subseteq queue' \cup {job'[w]}, retry \subseteq retry', Current(d),
               job[w] = d /\ UpToDate(w) => job'[w] = d /\ UpToDate(w)',
               d \notin queue' /\ d = job'[w] => UpToDate(w)' \/ d \notin queue
        PROVE  Queued(d)'
    <3>1. \A v \in Workers : job[v] = d /\ UpToDate(v) => job'[v] = d /\ UpToDate(v)'
      BY <2>1, <2>2 DEF UpToDate
    <3> QED
      BY <1>0, <2>1, <2>2, <3>1 DEF Queued
  <2>3. ASSUME NEW e \in Deployments, TakeGone(w, e) PROVE Queued(d)'
    BY <1>0, <2>3 DEF TakeGone, Available, Listed, Current, Queued, UpToDate
  <2>4. ASSUME NEW e \in Deployments, Take(w, e) PROVE Queued(d)'
    <3>1. /\ at[w] = "idle" /\ seen[w] = 0 /\ queue' = queue \ {e} /\ retry' = retry
          /\ job'[w] = e /\ at'[w] = (IF cache[e] = "live" THEN "logic" ELSE "finalizer")
          /\ Current(d)
      BY <1>0, <2>4 DEF Take, Available, Go, Current, Places, BeforeList, TypeOK, Threads
    <3>2. ~ UpToDate(w)
      BY <1>0, <3>1, WatchBounds DEF UpToDate, TypeOK
    <3> QED
      BY <2>1, <2>2, <3>1, <3>2 DEF Current, UpToDate
  <2>5. CASE RemoveFinalizer(w) \/ FinalDeleteLocks(w) \/ TimeoutLocks(w) \/ Timeout(w) \/ AppLogic(w)
    <3>1. /\ UNCHANGED << queue, retry, job, applied >>
          /\ \/ at[w] \in {"finalizer", "final", "timeout", "read"} /\ seen' = seen
             \/ seen'[w] = version
      BY <1>0, <2>5 DEF RemoveFinalizer, FinalDeleteLocks, TimeoutLocks, Timeout, AppLogic, queueVars, TypeOK
    <3>2. UpToDate(w) => UpToDate(w)'
      BY <1>0, <2>1, <3>1 DEF UpToDate
    <3>3. Current(d)
      BY <1>0, <2>1, <2>5, <3>1
      DEF Current, RemoveFinalizer, FinalDeleteLocks, TimeoutLocks, Timeout, AppLogic, TypeOK
    <3> QED
      BY <2>2, <3>1, <3>2, <3>3
  <2>6. CASE FinalDelete(w)
    <3>1. /\ at[w] = "delete" /\ seen[w] = 0
          /\ UNCHANGED << queue, retry, object, applied >>
          /\ Finished(w)
      BY <1>0, <2>6 DEF FinalDelete, Places, BeforeList, queueVars
    <3>2. ~ UpToDate(w) /\ job'[w] = None /\ Current(d)
      BY <1>0, <2>1, <3>1, WatchBounds DEF UpToDate, Current, TypeOK, Finished, Threads
    <3> QED
      BY <2>2, <3>1, <3>2, ReservedNames
  <2>7. CASE UpdateConflicts(w)
    BY <1>0, <2>1, <2>7, ReservedNames
    DEF UpdateConflicts, Finished, Current, Queued, UpToDate
  <2>8. CASE UpdateStatus(w)
    <3>1. /\ at[w] = "status" /\ job[w] \in Deployments
          /\ UNCHANGED << queue, retry, object >>
          /\ applied' = [applied EXCEPT ![job[w]] = seen[w]]
          /\ Finished(w)
      BY <1>0, <2>8, ReservedNames DEF UpdateStatus, Places, TypeOK, Threads
    <3>2. Current(d) /\ (job[w] = d => ~ UpToDate(w))
      <4>1. CASE job[w] = d
        <5>1. applied'[d] = seen[w] /\ seen[w] # version
          BY <1>0, <2>1, <3>1, <4>1 DEF Current, TypeOK
        <5>2. applied[d] <= seen[w] /\ seen[w] <= version
          BY <1>0, <3>1, <4>1 DEF Newer, AfterList
        <5>3. applied[d] # version
          BY <1>0, <5>1, <5>2 DEF TypeOK
        <5> QED
          BY <2>1, <3>1, <5>1, <5>3 DEF Current, UpToDate
      <4>2. CASE job[w] # d
        BY <1>0, <2>1, <3>1, <4>2 DEF Current, TypeOK
      <4> QED
        BY <4>1, <4>2
    <3>3. job'[w] = None
      BY <1>0, <3>1 DEF Finished, TypeOK, Threads
    <3> QED
      BY <2>2, <3>1, <3>2, <3>3, ReservedNames
  <2> QED
    BY <1>10, <2>3, <2>4, <2>5, <2>6, <2>7, <2>8 DEF WorkerStep
<1> QED
  BY <1>1, <1>2, <1>3, <1>4, <1>5, <1>6, <1>7, <1>8, <1>9, <1>10 DEF Next, HandlerStep

\* A change of the organization reaches every deployment without waiting for its
\* next poll, for any number of workers, deployments, changes and restarts.
THEOREM StaleIsQueuedCorrect == Spec => []StaleIsQueued
<1>1. Init => StaleIsQueued
  BY DEF Init, StaleIsQueued
<1> QED
  BY <1>1, StaleStep, WatchHolds, BornHolds, PTL DEF Spec
=============================================================================
