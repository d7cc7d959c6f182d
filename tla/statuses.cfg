SPECIFICATION Spec
CONSTANTS
  Kinds = {"ipam", "as"}
  RegisterNames = {"a", "b"}
  Strategies = {"default", "custom"}
  DefaultStrategy = "default"
  Namespaces = {"ns1"}
  OrganizationNames <- OneOrganization
  DeploymentNames <- OneDeployment
  UserKeys <- Together
  Specs <- OrgDeps
  Reconciler = "deployment2"
  MaxConcurrentReconciles = 1
  MaxGen <- Edits23
  MaxFaults = 0
  CriticalKinds = {"ipam", "as"}
CHECK_DEADLOCK FALSE
INVARIANTS ReadyHasOrganization DownOffersNothing RegistersMeanUp StrategyIsUsable
PROPERTIES StatusFromCurrentSpec
