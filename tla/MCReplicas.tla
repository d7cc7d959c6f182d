----------------------------- MODULE MCReplicas -----------------------------
(***************************************************************************)
(* A small instance of Replicas: one organization, which users create and  *)
(* then edit or delete, and two managers with a worker each.               *)
(***************************************************************************)
EXTENDS Replicas

Nokia == << "nokia" >>

OneOrganization == { Nokia }
NoDeployment    == {}

Organization == [kind |-> "Organization", ns |-> "ns1", name |-> Nokia]

One == { Organization }

Edits2 == [k \in One |-> 2]

Ipam(name) == [kind \in {"ipam"} |-> name]

ASpec(register, strategy) ==
  [body |-> "set", admin |-> "enable", register |-> register, strategy |-> strategy]

OrgSpecs == [k \in One |-> { ASpec(Ipam("a"), "custom"), ASpec(Ipam("b"), Nil) }]
=============================================================================
