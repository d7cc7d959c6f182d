------------------------------ MODULE AppLogic ------------------------------
(***************************************************************************)
(* The application logic of the three controllers as functions from what   *)
(* they read (the object's status, its spec, the spec of the organization  *)
(* it belongs to) to the status they leave in memory.                      *)
(***************************************************************************)
EXTENDS Registers

\* The part of a spec the program reads.  body is "nil" when the object was
\* created without spec.deployment (spec.organization): its getters then
\* dereference a nil pointer.  An organization has no admin-state.
ObjectSpec == [body     : {"set", "nil"},
               admin    : {"enable", "disable"},
               register : RegisterMaps,
               strategy : Strategies \cup {Nil}]

NilSpec == [body |-> "nil", admin |-> "enable", register |-> NoRegister, strategy |-> Nil]

\* status.deployment (status.organization) and the Ready condition.  The state
\* "nil" stands for a status that was never initialized.
ObjectStatus == [state    : {"nil", "", "up", "down"},
                 reason   : {"", "organization not found", "admin state disabled"},
                 register : RegisterMaps,
                 strategy : Strategies \cup {Nil, Blank},
                 ready    : {"unset", "True", "False"}]

NoStatus == [state |-> "nil", reason |-> "", register |-> NoRegister,
             strategy |-> Nil, ready |-> "unset"]

InitializeResource(status) ==
  IF status.state # "nil"
  THEN status
  ELSE [status EXCEPT !.state = "", !.reason = "", !.register = NoRegister,
                      !.strategy = Blank]

SetConditions(status, ready) == [status EXCEPT !.ready = ready]

\* As if the CRD had no defaults.
AsSent(status) == status

\* A status as it is stored: the API server fills in the defaults of the CRD.
Persisted(status) == [status EXCEPT !.strategy = Defaulted(@)]

-----------------------------------------------------------------------------
(* internal/controllers/organization                                       *)

OrganizationLogic(status, spec) ==
  [status EXCEPT !.state = "up", !.reason = "", !.register = spec.register,
                 !.strategy = GetAddressAllocationStrategy(spec.strategy)]

-----------------------------------------------------------------------------
(* internal/controllers/deployment and deployment2: no organization matches *)

NotFoundKeepingRegister(status) ==
  [status EXCEPT !.state = "down", !.reason = "organization not found"]

\* The strategy of the last successful pass stays where it is.
OrganizationNotFound(status) ==
  [status EXCEPT !.state = "down", !.reason = "organization not found",
                 !.register = NoRegister]

AdminStateDisabled(status) ==
  [status EXCEPT !.state = "down", !.reason = "admin state disabled",
                 !.register = NoRegister]

ReasonKept(status, spec, org) ==
  [status EXCEPT
     !.state    = "up",
     !.register = GetDeploymentRegister(org.register, spec.register),
     !.strategy = GetDeploymentStrategy(GetAddressAllocationStrategy(org.strategy),
                                        GetAddressAllocationStrategy(spec.strategy))]

\* deployment2: spec is the deployment's, org the spec of the organization.
Deployment2Enabled(status, spec, org) ==
  [status EXCEPT
     !.state    = "up",
     !.reason   = "",
     !.register = GetDeploymentRegister(org.register, spec.register),
     !.strategy = GetDeploymentStrategy(GetAddressAllocationStrategy(org.strategy),
                                        GetAddressAllocationStrategy(spec.strategy))]

\* deployment: sets the register only.
DeploymentEnabled(status, spec, org) ==
  [status EXCEPT !.register = GetDeploymentRegister(org.register, spec.register)]

DeploymentLogic(reconciler, status, spec, org) ==
  IF spec.admin = "disable" THEN AdminStateDisabled(status)
  ELSE IF reconciler = "deployment2" THEN Deployment2Enabled(status, spec, org)
  ELSE DeploymentEnabled(status, spec, org)
=============================================================================
