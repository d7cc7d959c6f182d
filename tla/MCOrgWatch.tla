---------------------------- MODULE MCOrgWatch ----------------------------
(***************************************************************************)
(* Small instances of OrgWatch.  Deployments and workers are told apart    *)
(* nowhere, so both sets are symmetric.                                    *)
(***************************************************************************)
EXTENDS OrgWatch, TLC

Symmetry == Permutations(Deployments) \cup Permutations(Workers)
=============================================================================
