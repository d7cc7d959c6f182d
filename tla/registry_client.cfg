SPECIFICATION Spec
CONSTANTS
  Labels <- AllLabelNames
  Deployments <- SomeDeployments
  Suffixes <- Replicas
  BarePods <- OneBarePod
  Served = {"ipam", "as"}
  Matching <- Matches
INVARIANTS TypeOK ServerNameIsDeployment SameServer
