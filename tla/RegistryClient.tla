--------------------------- MODULE RegistryClient ---------------------------
(***************************************************************************)
(* GetRegistryClient of the registry library: from a kind of register to   *)
(* the address of the gRPC server that hands out its resources.            *)
(*                                                                         *)
(* The library looks for a pod whose name contains what it knows of the    *)
(* kind, and rebuilds from the pod's name the name of the Kubernetes       *)
(* Deployment the pod belongs to, while pods come and go.  A pod's name is *)
(* the sequence of its labels, what strings.Split(podName, "-") returns:   *)
(* those of its Deployment, the hash of a ReplicaSet and an id of its own. *)
(***************************************************************************)
EXTENDS Integers, Sequences, FiniteSets

CONSTANTS
  Labels,
  Deployments,   \* names of the Kubernetes Deployments, sequences of labels
  Suffixes,      \* the pairs of hash and id Kubernetes appends to them
  BarePods,      \* names of pods that belong to no Deployment
  Served,        \* the kinds of registers the library knows a server for
  Matching       \* Matching[kind]: the pods whose name contains the kind's match

PodNames == { d \o suffix : d \in Deployments, suffix \in Suffixes } \cup BarePods

ASSUME NamesAssumption ==
  /\ Suffixes \subseteq Labels \X Labels
  /\ Deployments \subseteq Seq(Labels) \ { << >> }
  /\ BarePods \subseteq Seq(Labels) \ { << >> }

ASSUME MatchingAssumption == Matching \in [Served -> SUBSET PodNames]

None == "none"

ASSUME ReservedName == None \notin Served

VARIABLES
  pods,      \* the pods of the namespace ndd-system
  asked,     \* the kind of the call in progress
  list,      \* the pods it has listed
  podName,   \* the pod it has found
  i,         \* getGrpcServerName: the index of its loop, here from 1,
  newName,   \* and what it has built
  given      \* given[kind]: the Deployments whose servers callers were given

loopVars == << podName, i, newName >>
vars == << pods, asked, list, loopVars, given >>

NoName == << >>

Init ==
  /\ pods = {}
  /\ asked = None
  /\ list = {}
  /\ podName = NoName /\ i = 1 /\ newName = NoName
  /\ given = [kind \in Served |-> {}]

-----------------------------------------------------------------------------
PodStarts(p) ==
  /\ pods' = pods \cup {p}
  /\ UNCHANGED << asked, list, loopVars, given >>

PodStops(p) ==
  /\ pods' = pods \ {p}
  /\ UNCHANGED << asked, list, loopVars, given >>

\* Any other kind is refused at once.  The list of pods may fail: no call.
Ask(kind) ==
  /\ asked = None
  /\ asked' = kind
  /\ list' = pods
  /\ UNCHANGED << pods, loopVars, given >>

Return ==
  /\ asked' = None
  /\ list' = {}
  /\ podName' = NoName /\ i' = 1 /\ newName' = NoName

Searching == asked # None /\ podName = NoName

\* The first match in the list's order, which is not specified.
FindPod ==
  /\ Searching
  /\ podName' \in list \cap Matching[asked]
  /\ list' = {}
  /\ UNCHANGED << pods, asked, i, newName, given >>

\* As if found were not checked.
NoPodUnchecked ==
  /\ Searching
  /\ list \cap Matching[asked] = {}
  /\ i' = 2 /\ newName' = NoName
  /\ UNCHANGED << pods, asked, list, podName, given >>

NoPod ==
  /\ Searching
  /\ list \cap Matching[asked] = {}
  /\ Return
  /\ UNCHANGED << pods, given >>

IncludingHash(pod) == Len(pod) - 1

LastLabel(pod) == Len(pod) - 2

Looping == podName # NoName /\ i <= Len(podName)

\* The first label is taken in any case.
NextLabel ==
  /\ Looping
  /\ newName' = IF i = 1 THEN << podName[1] >>
                ELSE IF i <= LastLabel(podName) THEN Append(newName, podName[i])
                ELSE newName
  /\ i' = i + 1
  /\ UNCHANGED << pods, asked, list, podName, given >>

Dial ==
  /\ i > 1 /\ ~ Looping
  /\ given' = [given EXCEPT ![asked] = @ \cup { newName }]
  /\ Return
  /\ UNCHANGED pods

-----------------------------------------------------------------------------
Next ==
  \/ \E p \in PodNames : PodStarts(p) \/ PodStops(p)
  \/ \E kind \in Served : Ask(kind)
  \/ FindPod \/ NoPod \/ NextLabel \/ Dial

Spec == Init /\ [][Next]_vars

-----------------------------------------------------------------------------
(* Properties                                                              *)

\* Every variable has its type, and the loop never runs without a pod.
TypeOK ==
  /\ pods \subseteq PodNames
  /\ asked \in Served \cup { None }
  /\ list \subseteq PodNames
  /\ podName \in PodNames \cup { NoName }
  /\ i \in Nat \ {0}
  /\ newName \in Seq(Labels)
  /\ given \in [Served -> SUBSET Seq(Labels)]
  /\ i > 1 => asked \in Served /\ podName \in Matching[asked]

\* The name of the Deployment that a pod's name begins with.  A name of fewer
\* than three labels has none: the loop returns its first label.
NameOf(pod) == IF Len(pod) > 2 THEN SubSeq(pod, 1, Len(pod) - 2) ELSE << pod[1] >>

\* The loop rebuilds exactly the name of the Deployment, label by label.
ServerNameIsDeployment ==
  i > Len(podName) /\ podName # NoName => newName = NameOf(podName)

\* Whichever pod is found first, and whatever pods were replaced between two
\* calls: two servers given for a kind differ only if two of the pods that match
\* the kind belong to different Deployments.
SameServer ==
  \A kind \in Served :
    given[kind] \subseteq { NameOf(pod) : pod \in Matching[kind] }
=============================================================================
