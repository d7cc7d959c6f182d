SPECIFICATION Spec
CONSTANTS
  Kinds = {"ipam"}
  RegisterNames = {"a", "b"}
  Strategies = {"default", "custom"}
  DefaultStrategy = "default"
  Namespaces = {"ns1", "ns2"}
  OrganizationNames <- OneOrganization
  DeploymentNames <- OneDeployment
  UserKeys <- Apart
  Specs <- OrgDep
  Reconciler = "deployment2"
  MaxConcurrentReconciles = 1
  MaxGen <- Edits11
  MaxFaults = 0
CHECK_DEADLOCK FALSE
PROPERTIES EventWakesDeployments
