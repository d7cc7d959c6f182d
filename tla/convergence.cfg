SPECIFICATION FairSpec
CONSTANTS
  Kinds = {"ipam"}
  RegisterNames = {"a", "b"}
  Strategies = {"default", "custom"}
  DefaultStrategy = "default"
  Namespaces = {"ns1"}
  OrganizationNames <- OneOrganization
  DeploymentNames <- OneDeployment
  UserKeys <- Together
  Specs <- OrgDep
  Reconciler = "deployment2"
  MaxConcurrentReconciles = 1
  MaxGen <- Edits31
  MaxFaults = 1
CHECK_DEADLOCK FALSE
PROPERTIES Convergence
