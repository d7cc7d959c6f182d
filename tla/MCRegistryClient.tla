-------------------------- MODULE MCRegistryClient --------------------------
(***************************************************************************)
(* A small instance of RegistryClient.  Pods match a kind as the code      *)
(* matches them: their name contains a fixed name, here as the labels of   *)
(* one contain those of the other.  The Deployment "ipam" is alone with    *)
(* its match; the Deployments "aspool" and "my aspool" share one, also     *)
(* with a pod of no Deployment whose name is nothing but the match.        *)
(***************************************************************************)
EXTENDS RegistryClient

Ipam   == << "nddr", "ipam" >>
Aspool == << "nddr", "aspool" >>

AllLabelNames == { "nddr", "ipam", "aspool", "my", "h1", "h2", "x", "y" }
SomeDeployments == { Ipam, Aspool, << "my" >> \o Aspool }
OneBarePod == { Aspool }

Replicas == { << "h1", "x" >>, << "h2", "y" >> }

Contains(pod, match) ==
  \E start \in 1 .. Len(pod) - Len(match) + 1 :
    SubSeq(pod, start, start + Len(match) - 1) = match

RegisterMatch == [kind \in Served |-> IF kind = "ipam" THEN Ipam ELSE Aspool]

Matches == [kind \in Served |-> { pod \in PodNames : Contains(pod, RegisterMatch[kind]) }]
=============================================================================
