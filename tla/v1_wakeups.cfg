SPECIFICATION Spec
CONSTANTS
  Kinds = {"ipam"}
  RegisterNames = {"a", "b"}
  Strategies = {"default", "custom"}
  DefaultStrategy = "default"
  Namespaces = {"ns1"}
  OrganizationNames <- OneOrganization
  DeploymentNames <- OneDeployment
  UserKeys <- Together
  Specs <- OrgsDeps
  Reconciler = "deployment"
  MaxConcurrentReconciles = 1
  MaxGen <- Edits22
  MaxFaults = 0
CHECK_DEADLOCK FALSE
INVARIANTS NoLostWakeup
