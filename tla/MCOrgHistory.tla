---------------------------- MODULE MCOrgHistory ----------------------------
(***************************************************************************)
(* Small instances of OrgHistory, made of the values of MCOrgIntent's.     *)
(***************************************************************************)
EXTENDS OrgHistory

Nokia        == << "nokia" >>
NokiaRegion1 == << "nokia", "region1" >>

OneOrganization == { Nokia }
OneDeployment   == { NokiaRegion1 }

Organization(ns) == [kind |-> "Organization", ns |-> ns, name |-> Nokia]
Deployment(ns)   == [kind |-> "Deployment", ns |-> ns, name |-> NokiaRegion1]

\* One organization, or two of the same name in different namespaces.
Together == { Organization("ns1"), Deployment("ns1") }
Rivals   == Together \cup { Organization("ns2") }

Edits(org, dep) == [k \in Keys |-> IF k.kind = "Organization" THEN org ELSE dep]
Edits11 == Edits(1, 1)
Edits12 == Edits(1, 2)

Ipam(name) == [kind \in {"ipam"} |-> name]

ASpec(admin, register, strategy) ==
  [body |-> "set", admin |-> admin, register |-> register, strategy |-> strategy]

A == ASpec("enable", Ipam("a"), "custom")
B == ASpec("enable", [kind \in {"as"} |-> "b"], Nil)
Inherits == ASpec("enable", NoRegister, Nil)

SpecsFor(org, dep) == [k \in Keys |-> IF k.kind = "Organization" THEN org ELSE dep]
WithNil == SpecsFor({ A, NilSpec }, { Inherits, NilSpec })

\* The two organizations offer different registers.
RivalSpecs ==
  [k \in Keys |-> CASE k = Organization("ns1") -> { A }
                    [] k = Organization("ns2") -> { B }
                    [] OTHER                   -> { Inherits }]
=============================================================================
