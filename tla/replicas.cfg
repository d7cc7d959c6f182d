SPECIFICATION FairSpec
CONSTANTS
  Kinds = {"ipam"}
  RegisterNames = {"a", "b"}
  Strategies = {"default", "custom"}
  DefaultStrategy = "default"
  Namespaces = {"ns1"}
  OrganizationNames <- OneOrganization
  DeploymentNames <- NoDeployment
  UserKeys <- One
  Specs <- OrgSpecs
  Reconciler = "deployment2"
  MaxConcurrentReconciles = 1
  MaxGen <- Edits2
  MaxFaults = 0
CHECK_DEADLOCK FALSE
INVARIANTS BothNeverForget ReadyIsHeld
PROPERTIES StatusFromCurrentSpec RightStaysRight Convergence
