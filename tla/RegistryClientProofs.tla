------------------------ MODULE RegistryClientProofs ------------------------
(***************************************************************************)
(* Proofs about RegistryClient, for every set of names and pods.           *)
(***************************************************************************)
EXTENDS RegistryClient, SequenceTheorems, TLAPS

\* The name of a pod is a sequence of at least one label.
LEMMA PodNameType ==
  ASSUME NEW pod \in PodNames
  PROVE  pod \in Seq(Labels) /\ Len(pod) > 0 /\ pod # NoName
<1>1. CASE pod \in BarePods
  BY <1>1, NamesAssumption DEF NoName
<1>2. CASE pod \notin BarePods
  <2>1. PICK d \in Deployments, suffix \in Suffixes : pod = d \o suffix
    BY <1>2 DEF PodNames
  <2>2. d \in Seq(Labels) /\ Len(d) > 0
    BY NamesAssumption
  <2>3. suffix \in Seq(Labels) /\ Len(suffix) = 2
    <3>1. PICK hash \in Labels, id \in Labels : suffix = << hash, id >>
      BY NamesAssumption
    <3> QED
      BY <3>1
  <2>4. pod \in Seq(Labels) /\ Len(pod) = Len(d) + Len(suffix)
    BY <2>1, <2>2, <2>3, ConcatProperties
  <2> QED
    BY <2>2, <2>3, <2>4 DEF NoName
<1> QED
  BY <1>1, <1>2

-----------------------------------------------------------------------------
(* The loop of getGrpcServerName                                           *)

\* How many labels the loop has taken after n rounds: all of the first n but the
\* hash and the id, and the first label whatever follows it.
Taken(pod, n) ==
  IF n = 0 THEN 0
  ELSE IF n <= Len(pod) - 2 THEN n
  ELSE IF Len(pod) > 2 THEN Len(pod) - 2
  ELSE 1

\* What is built so far is the beginning of the pod's name.
LoopInv ==
  IF podName = NoName
  THEN i = 1 /\ newName = NoName
  ELSE /\ asked \in Served
       /\ podName \in Matching[asked]
       /\ i \in 1 .. Len(podName) + 1
       /\ Len(newName) = Taken(podName, i - 1)
       /\ \A n \in 1 .. Len(newName) : newName[n] = podName[n]

ClientInv == TypeOK /\ LoopInv

LEMMA InvInit == Init => ClientInv
  BY DEF Init, ClientInv, TypeOK, LoopInv, NoName

\* One round of the loop keeps what is built a beginning of the pod's name.
LEMMA RoundKeeps ==
  ASSUME ClientInv, NextLabel
  PROVE  ClientInv'
<1>1. /\ podName \in PodNames
      /\ podName \in Seq(Labels)
      /\ Len(podName) > 0
      /\ podName # NoName
      /\ i \in 1 .. Len(podName)
      /\ newName \in Seq(Labels)
  BY PodNameType DEF NextLabel, Looping, ClientInv, LoopInv, TypeOK
<1>2. /\ Len(newName) = Taken(podName, i - 1)
      /\ \A n \in 1 .. Len(newName) : newName[n] = podName[n]
  BY <1>1 DEF ClientInv, LoopInv
<1>3. /\ i' = i + 1
      /\ UNCHANGED << pods, asked, list, podName, given >>
  BY DEF NextLabel
<1>4. /\ newName' \in Seq(Labels)
      /\ Len(newName') = Taken(podName, i)
      /\ \A n \in 1 .. Len(newName') : newName'[n] = podName[n]
  <2>1. podName[i] \in Labels /\ podName[1] \in Labels
    BY <1>1
  <2>2. CASE i = 1
    <3>1. newName' = << podName[1] >>
      BY <2>2 DEF NextLabel
    <3> QED
      BY <1>1, <2>1, <2>2, <3>1 DEF Taken
  <2>3. CASE i # 1 /\ i <= LastLabel(podName)
    <3>1. newName' = Append(newName, podName[i])
      BY <2>3 DEF NextLabel
    <3>2. Len(newName) = i - 1
      BY <1>1, <1>2, <2>3 DEF Taken, LastLabel
    <3>3. /\ newName' \in Seq(Labels)
          /\ Len(newName') = i
          /\ newName'[i] = podName[i]
          /\ \A n \in 1 .. i - 1 : newName'[n] = newName[n]
      BY <1>1, <2>1, <3>1, <3>2, AppendProperties
    <3>4. Taken(podName, i) = i
      BY <1>1, <2>3 DEF Taken, LastLabel
    <3>5. \A n \in 1 .. i : newName'[n] = podName[n]
      BY <1>1, <1>2, <3>2, <3>3
    <3> QED
      BY <3>3, <3>4, <3>5
  <2>4. CASE i # 1 /\ ~ (i <= LastLabel(podName))
    <3>1. newName' = newName
      BY <2>4 DEF NextLabel
    <3>2. Taken(podName, i) = Taken(podName, i - 1)
      BY <1>1, <2>4 DEF Taken, LastLabel
    <3> QED
      BY <1>1, <1>2, <3>1, <3>2
  <2> QED
    BY <2>2, <2>3, <2>4
<1>5. TypeOK'
  BY <1>1, <1>3, <1>4 DEF ClientInv, LoopInv, TypeOK
<1>6. LoopInv'
  BY <1>1, <1>3, <1>4 DEF ClientInv, LoopInv
<1> QED
  BY <1>5, <1>6 DEF ClientInv

LEMMA InvStep == ClientInv /\ [Next]_vars => ClientInv'
<1> SUFFICES ASSUME ClientInv, [Next]_vars PROVE ClientInv'
  OBVIOUS
<1> USE DEF ClientInv
<1>1. ASSUME NEW p \in PodNames, PodStarts(p) \/ PodStops(p) PROVE ClientInv'
  BY <1>1 DEF PodStarts, PodStops, loopVars, TypeOK, LoopInv
<1>2. ASSUME NEW kind \in Served, Ask(kind) PROVE ClientInv'
  BY <1>2, ReservedName DEF Ask, loopVars, TypeOK, LoopInv
<1>3. CASE FindPod
  <2>1. podName' \in PodNames /\ podName' \in Matching[asked] /\ asked \in Served
    BY <1>3 DEF FindPod, Searching, TypeOK
  <2>2. podName' # NoName /\ Len(podName') \in Nat
    BY <2>1, PodNameType
  <2> QED
    BY <1>3, <2>1, <2>2 DEF FindPod, Searching, TypeOK, LoopInv, Taken, NoName
<1>4. CASE NoPod
  BY <1>4 DEF NoPod, Return, TypeOK, LoopInv, NoName
<1>5. CASE NextLabel
  BY <1>5, RoundKeeps
<1>6. CASE Dial
  BY <1>6 DEF Dial, Return, TypeOK, LoopInv, NoName
<1>7. CASE UNCHANGED vars
  BY <1>7 DEF vars, loopVars, TypeOK, LoopInv
<1> QED
  BY <1>1, <1>2, <1>3, <1>4, <1>5, <1>6, <1>7 DEF Next

LEMMA InvHolds == Spec => []ClientInv
  BY InvInit, InvStep, PTL DEF Spec

\* Every variable has its type, and the loop never runs without a pod.
THEOREM ClientTypeCorrect == Spec => []TypeOK
  BY InvHolds, PTL DEF ClientInv

-----------------------------------------------------------------------------
\* A loop that has come to its end has built the name NameOf defines.
LEMMA LoopEnd ==
  ASSUME ClientInv, podName # NoName, i > Len(podName)
  PROVE  newName = NameOf(podName)
<1>1. podName \in Seq(Labels) /\ Len(podName) > 0 /\ newName \in Seq(Labels)
  BY PodNameType DEF ClientInv, TypeOK
<1>2. /\ Len(newName) = Taken(podName, Len(podName))
      /\ \A n \in 1 .. Len(newName) : newName[n] = podName[n]
  BY <1>1 DEF ClientInv, LoopInv
<1>3. /\ NameOf(podName) \in Seq(Labels)
      /\ Len(NameOf(podName)) = Taken(podName, Len(podName))
      /\ \A n \in 1 .. Len(NameOf(podName)) : NameOf(podName)[n] = podName[n]
  <2>1. CASE Len(podName) > 2
    <3>1. NameOf(podName) = SubSeq(podName, 1, Len(podName) - 2)
      BY <2>1 DEF NameOf
    <3>2. /\ SubSeq(podName, 1, Len(podName) - 2) \in Seq(Labels)
          /\ Len(SubSeq(podName, 1, Len(podName) - 2)) = Len(podName) - 2
          /\ \A n \in 1 .. Len(podName) - 2 :
               SubSeq(podName, 1, Len(podName) - 2)[n] = podName[n]
      BY <1>1, <2>1, SubSeqProperties
    <3> QED
      BY <1>1, <2>1, <3>1, <3>2 DEF Taken
  <2>2. CASE ~ (Len(podName) > 2)
    <3>1. NameOf(podName) = << podName[1] >>
      BY <2>2 DEF NameOf
    <3> QED
      BY <1>1, <2>2, <3>1 DEF Taken
  <2> QED
    BY <2>1, <2>2
<1> QED
  BY <1>1, <1>2, <1>3, SeqEqual

\* Whatever pods come and go, a call that found a pod builds the name of the
\* pod's Deployment: the hash and the id are left out and nothing else is.
THEOREM ServerNameCorrect == Spec => []ServerNameIsDeployment
<1>1. ClientInv => ServerNameIsDeployment
  BY LoopEnd DEF ServerNameIsDeployment
<1> QED
  BY <1>1, InvHolds, PTL

\* Every server a caller was ever given for a kind belongs to the Deployment of
\* a pod that matches the kind.
THEOREM SameServerCorrect == Spec => []SameServer
<1>1. Init => SameServer
  BY DEF Init, SameServer
<1>2. ClientInv /\ SameServer /\ [Next]_vars => SameServer'
  <2> SUFFICES ASSUME ClientInv, SameServer, [Next]_vars PROVE SameServer'
    OBVIOUS
  <2>1. CASE Dial
    <3>1. podName # NoName /\ i > Len(podName)
      BY <2>1, PodNameType DEF Dial, Looping, ClientInv, LoopInv, TypeOK
    <3>2. newName = NameOf(podName) /\ asked \in Served /\ podName \in Matching[asked]
      BY <3>1, LoopEnd DEF ClientInv, LoopInv
    <3> QED
      BY <2>1, <3>2 DEF Dial, SameServer, ClientInv, TypeOK
  <2>2. CASE UNCHANGED given
    BY <2>2 DEF SameServer
  <2> QED
    BY <2>1, <2>2
    DEF Next, PodStarts, PodStops, Ask, FindPod, NoPod, NextLabel, vars
<1> QED
  BY <1>1, <1>2, InvHolds, PTL DEF Spec
=============================================================================
