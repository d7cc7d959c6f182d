------------------------------ MODULE OrgNames ------------------------------
(***************************************************************************)
(* Names.  Everything in this program is tied together by dotted names: a  *)
(* Deployment belongs to the Organization its name starts with, and a user *)
(* of the registry passes a dotted name that stands for either.  A name is *)
(* the sequence of its labels, what strings.Split(name, ".") returns; the  *)
(* empty string is << >>.                                                  *)
(***************************************************************************)
EXTENDS Naturals, Sequences

Empty == << >>

(***************************************************************************)
(* The two halves of a Deployment's name.  A name that does not have       *)
(* exactly two labels belongs to no organization.                          *)
(***************************************************************************)
GetOrganizationName(name) == IF Len(name) = 2 THEN << name[1] >> ELSE Empty

GetDeploymentName(name) == IF Len(name) = 2 THEN << name[2] >> ELSE Empty

(***************************************************************************)
(* pkg/registry: the name a user asks for, and the kind of object the      *)
(* registry looks up under it ("none": wrong input, an error).             *)
(***************************************************************************)
GetRegisterName(organizationName, deploymentName) ==
  IF deploymentName = Empty
  THEN organizationName
  ELSE organizationName \o deploymentName

LookupKind(registerName) ==
  CASE Len(registerName) = 2 -> "Deployment"
    [] Len(registerName) = 1 -> "Organization"
    [] OTHER                 -> "none"

(***************************************************************************)
(* The key of an object in the speedy map: namespace and name joined by a  *)
(* dot.  A namespace is a single label.                                    *)
(***************************************************************************)
GetCrName(namespace, name) == << namespace >> \o name
=============================================================================
