----------------------------- MODULE MCRegistry -----------------------------
(***************************************************************************)
(* A small instance of Registry: "nokia" and "nokia.region1", where the    *)
(* deployment chooses one of the two critical registers at most and has to *)
(* inherit the other.                                                      *)
(***************************************************************************)
EXTENDS Registry

Nokia        == << "nokia" >>
NokiaRegion1 == << "nokia", "region1" >>

OneOrganization == { Nokia }
OneDeployment   == { NokiaRegion1 }

Together == { [kind |-> "Organization", ns |-> "ns1", name |-> Nokia],
              [kind |-> "Deployment", ns |-> "ns1", name |-> NokiaRegion1] }

Edits(org, dep) == [k \in Keys |-> IF k.kind = "Organization" THEN org ELSE dep]
Edits23 == Edits(2, 3)

ASpec(admin, register, strategy) ==
  [body |-> "set", admin |-> admin, register |-> register, strategy |-> strategy]

Critical == [kind \in {"ipam", "as"} |-> "a"]
Ipam     == [kind \in {"ipam"} |-> "b"]

OrgDeps ==
  [k \in Keys |-> IF k.kind = "Organization"
                  THEN { ASpec("enable", Critical, "custom") }
                  ELSE { ASpec("enable", Ipam, Nil), ASpec("disable", Ipam, "custom") }]
=============================================================================
