------------------------------ MODULE Replicas ------------------------------
(***************************************************************************)
(* Two managers that look after the same objects.  Leader election is off  *)
(* unless --leader-elect is given, so nothing but the optimistic           *)
(* concurrency of the API server keeps their passes apart.  Each manager   *)
(* is an OrgIntent with its own cache, queues, workers and speedy map; the *)
(* objects are shared, and so is the number of faults.                     *)
(***************************************************************************)
EXTENDS AppLogic, OrgNames

CONSTANTS
  Namespaces, OrganizationNames, DeploymentNames, UserKeys, Specs, Reconciler,
  MaxConcurrentReconciles, MaxGen, MaxFaults

VARIABLES
  store, faults,
  cacheA, dirtyA, delayedA, pcA, baseA, memA, orgEventsA, speedyA,
  cacheB, dirtyB, delayedB, pcB, baseB, memB, orgEventsB, speedyB

A == INSTANCE OrgIntent WITH
       cache <- cacheA, dirty <- dirtyA, delayed <- delayedA, pc <- pcA, base <- baseA,
       mem <- memA, orgEvents <- orgEventsA, speedy <- speedyA

B == INSTANCE OrgIntent WITH
       cache <- cacheB, dirty <- dirtyB, delayed <- delayedB, pc <- pcB, base <- baseB,
       mem <- memB, orgEvents <- orgEventsB, speedy <- speedyB

ASSUME KeysAssumption == UserKeys \subseteq A!Keys
ASSUME SpecsAssumption == Specs \in [A!Keys -> SUBSET ObjectSpec]
ASSUME ReconcilerAssumption == Reconciler \in {"deployment", "deployment2"}
ASSUME BoundsAssumption ==
  MaxConcurrentReconciles \in Nat /\ MaxGen \in [A!Keys -> Nat] /\ MaxFaults \in Nat

localA == << cacheA, dirtyA, delayedA, pcA, baseA, memA, orgEventsA, speedyA >>
localB == << cacheB, dirtyB, delayedB, pcB, baseB, memB, orgEventsB, speedyB >>
vars   == << store, faults, localA, localB >>

Init == A!Init /\ B!Init

NextA == A!Next /\ UNCHANGED localB
NextB == B!Next /\ UNCHANGED localA

Next == NextA \/ NextB

Spec == Init /\ [][Next]_vars

FairSpec == Spec /\ A!Fairness /\ B!Fairness

-----------------------------------------------------------------------------
\* The invariants one manager relies on, in the presence of the other.
BothNeverForget == A!NeverForgotten /\ B!NeverForgotten

\* Only an object the finalizer protects is reported ready, whichever manager
\* put the finalizer there and whichever reports.
ReadyIsHeld == A!ReadyIsHeld

\* Whichever manager wrote last, and however old the copy the other one works
\* on: a status reported ready reflects the spec in force at that moment.
StatusFromCurrentSpec == A!StatusFromCurrentSpec

\* A deployment neither manager will look at again has the registers its spec
\* and its organization call for.  One manager alone cannot promise that: the
\* other may write what it made from an older copy of the organization.
NoLostWakeup ==
  \A d \in A!Deployments :
    /\ A!Present(store[d])
    /\ ~ A!Pending(d) /\ ~ B!Pending(d)
    /\ \A o \in A!Organizations :
         o.name = GetOrganizationName(d.name)
         => /\ o \notin orgEventsA \cup orgEventsB
            /\ ~ A!PassesFilter(cacheA[o], store[o])
            /\ ~ B!PassesFilter(cacheB[o], store[o])
    => A!RegisterSettles(d, store[d].status.register)

\* A status that is right, with no other result on its way in either manager,
\* stays right, whoever looks at it next.
RightStaysRight ==
  [][ \A k \in A!Keys :
        /\ A!AtRest(k) /\ B!AtRest(k)
        /\ faults' = faults
        /\ \A j \in A!Organizations \cup {k} : ~ A!PassesFilter(store[j], store'[j])
        => A!AtRest(k)' /\ B!AtRest(k)' ]_vars

\* The managers do not keep each other from the result: once users stop, every
\* status is in the end what the specs call for, and stays so for good, although
\* both managers go on polling and writing.
Convergence == A!Convergence
=============================================================================
