----------------------------- MODULE OrgPublish -----------------------------
(***************************************************************************)
(* What the intent manager promises to everybody who reads a status,       *)
(* without caches, queues, workers, finalizers or failures.                *)
(*                                                                         *)
(* Each status a deployment is given is made from its own spec as it is at *)
(* that moment and from one snapshot of the organizations.  The snapshot   *)
(* may be old, and its parts of different age, but for every organization  *)
(* it is no older than the one before: what readers of a status see of the *)
(* organizations never goes back in time.                                  *)
(***************************************************************************)
EXTENDS AppLogic, OrgNames

CONSTANTS Organizations, Deployments, Reconciler

VARIABLES
  object,  \* object[k]: the object as users see it
  past,    \* past[o]: the versions organization o has had so far
  used     \* used[d][o]: the generation of o that d's status was last made from

vars == << object, past, used >>

Keys == Organizations \cup Deployments

Nothing(gen) == [gen |-> gen, present |-> FALSE, spec |-> NilSpec, status |-> NoStatus]

Version(seen) == [gen |-> seen.gen, present |-> seen.present, spec |-> seen.spec]

Init ==
  /\ object = [k \in Keys |-> Nothing(0)]
  /\ past = [o \in Organizations |-> {Version(Nothing(0))}]
  /\ used = [d \in Deployments |-> [o \in Organizations |-> 0]]

-----------------------------------------------------------------------------
\* Users create, edit or delete k, or its deletion comes to its end.
Change(k) ==
  LET new == object'[k]
  IN  /\ new.gen = object[k].gen + 1
      /\ new.present \in BOOLEAN
      /\ new.spec \in ObjectSpec
      /\ new.status \in {object[k].status, NoStatus}
      /\ object' = [object EXCEPT ![k] = new]
      /\ past' = [o \in Organizations |-> past[o] \cup {Version(object'[o])}]
      /\ UNCHANGED used

Publish(k, status) ==
  /\ object[k].present
  /\ object' = [object EXCEPT ![k].status = Persisted(status)]
  /\ UNCHANGED past

\* A pass that failed changes the condition, and initializes the status at most.
Failures(status) == { SetConditions(s, "False") : s \in {status, InitializeResource(status)} }

PublishOrganization(o) ==
  /\ \/ Publish(o, SetConditions(
          OrganizationLogic(InitializeResource(object[o].status), object[o].spec), "True"))
     \/ \E status \in Failures(object[o].status) : Publish(o, status)
  /\ UNCHANGED used

\* The snapshots that may follow the one d's status was made from.
Snapshots(d) ==
  { snapshot \in [Organizations -> UNION { past[o] : o \in Organizations }] :
      \A o \in Organizations : snapshot[o] \in past[o] /\ snapshot[o].gen >= used[d][o] }

Owners(d, snapshot) ==
  { o \in Organizations : snapshot[o].present /\ o.name = GetOrganizationName(d.name) }

\* What a pass over d leaves, given a snapshot of the organizations.
Outcomes(d, snapshot) ==
  LET status == InitializeResource(object[d].status)
  IN  IF Owners(d, snapshot) = {}
      THEN { SetConditions(OrganizationNotFound(status), "False") }
      ELSE { SetConditions(
               DeploymentLogic(Reconciler, status, object[d].spec, snapshot[o].spec), "True")
             : o \in Owners(d, snapshot) }

PublishDeployment(d) ==
  \E snapshot \in Snapshots(d) :
    /\ \E status \in Outcomes(d, snapshot) \cup Failures(object[d].status) : Publish(d, status)
    /\ used' = [used EXCEPT ![d] = [o \in Organizations |-> snapshot[o].gen]]

Next ==
  \/ \E k \in Keys : Change(k)
  \/ \E o \in Organizations : PublishOrganization(o)
  \/ \E d \in Deployments : PublishDeployment(d)

Spec == Init /\ [][Next]_vars
=============================================================================
