------------------------------ MODULE Registry ------------------------------
(***************************************************************************)
(* The registry library, through which other programs read the statuses    *)
(* the intent manager writes.  A lookup is one Get: it reads one object as *)
(* it is, or, through a cached client, as it was, so what holds of every   *)
(* state of the store holds of every answer.                               *)
(*                                                                         *)
(* The answer to a lookup is a set of at most one value; an error is {}.   *)
(***************************************************************************)
EXTENDS OrgIntent

CONSTANT CriticalKinds   \* the registers that serve dynamic gRPC services

ASSUME CriticalAssumption == CriticalKinds \subseteq Kinds /\ CriticalKinds # {}

ASSUME StrategiesAssumption == Nil \notin Strategies /\ Blank \notin Strategies

Named(ns, registerName) ==
  { k \in Keys : /\ Present(store[k])
                 /\ k.kind = LookupKind(registerName)
                 /\ k.ns = ns
                 /\ k.name = registerName }

\* A status that was never initialized has no registers ...
GetStateRegister(status) == IF status.state = "nil" THEN NoRegister ELSE status.register

\* ... and a strategy without values.
GetStateAddressAllocationStrategy(status) ==
  IF status.state = "nil" THEN Blank ELSE status.strategy

RegisterAnswers(ns, registerName) ==
  { register \in { GetStateRegister(store[k].status) : k \in Named(ns, registerName) } :
      CriticalKinds \subseteq DOMAIN register }

StrategyAnswers(ns, registerName) ==
  { GetStateAddressAllocationStrategy(store[k].status) : k \in Named(ns, registerName) }

Names == OrganizationNames \cup DeploymentNames

-----------------------------------------------------------------------------
\* Whoever gets registers for a deployment gets them from one that is up: no
\* register outlives the pass that takes the deployment down, be it disabled or
\* its organization gone, and none appears before the pass that takes it up.  (A
\* deployment with a one-label name is never found: its organization's is.)
RegistersMeanUp ==
  \A d \in Deployments :
    LookupKind(d.name) = "Deployment" /\ RegisterAnswers(d.ns, d.name) # {}
    => store[d].status.state = "up" /\ store[d].status.reason = ""

\* No lookup returns a nil strategy, which its callers would dereference, and
\* from an object that any pass has written to the strategy comes with all its
\* fields, also when the object is down and its registers are gone: callers need
\* not fill in the defaults of the CRD, at whatever point of a pass they ask.
StrategyIsUsable ==
  \A ns \in Namespaces, name \in Names :
    /\ Nil \notin StrategyAnswers(ns, name)
    /\ (\A k \in Named(ns, name) : store[k].status.state # "nil")
       => StrategyAnswers(ns, name) \subseteq Strategies
=============================================================================
