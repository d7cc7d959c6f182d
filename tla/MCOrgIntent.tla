---------------------------- MODULE MCOrgIntent ----------------------------
(***************************************************************************)
(* Small instances of OrgIntent: the organization "nokia" and its          *)
(* deployment "nokia.region1".                                             *)
(***************************************************************************)
EXTENDS OrgIntent

Nokia        == << "nokia" >>
NokiaRegion1 == << "nokia", "region1" >>

OneOrganization == { Nokia }
OneDeployment   == { NokiaRegion1 }

Organization(ns)     == [kind |-> "Organization", ns |-> ns, name |-> Nokia]
Deployment(ns)   == [kind |-> "Deployment", ns |-> ns, name |-> NokiaRegion1]

\* The objects users create: in one namespace, or the deployment in another
\* namespace than its organization.
Together == { Organization("ns1"), Deployment("ns1") }
Apart    == { Organization("ns1"), Deployment("ns2") }

\* How often users change an organization and a deployment.
Edits(org, dep) == [k \in Keys |-> IF k.kind = "Organization" THEN org ELSE dep]
Edits11 == Edits(1, 1)
Edits31 == Edits(3, 1)
Edits22 == Edits(2, 2)

Ipam(name) == [kind \in {"ipam"} |-> name]

ASpec(admin, register, strategy) ==
  [body |-> "set", admin |-> admin, register |-> register, strategy |-> strategy]

Provides == ASpec("enable", Ipam("a"), "custom")   \* an organization
Inherits == ASpec("enable", NoRegister, Nil)       \* a deployment

OrgSpecs == { Provides, ASpec("enable", Ipam("b"), Nil) }
DepSpecs == { Inherits, NilSpec }

\* What users may ask for: one or several specs for each kind of object.
SpecsFor(org, dep) == [k \in Keys |-> IF k.kind = "Organization" THEN org ELSE dep]
OrgDep   == SpecsFor({ Provides }, { Inherits })
OrgsDeps == SpecsFor(OrgSpecs, DepSpecs)
=============================================================================
