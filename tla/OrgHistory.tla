----------------------------- MODULE OrgHistory -----------------------------
(***************************************************************************)
(* OrgIntent implements OrgPublish.  What OrgPublish remembers (the        *)
(* versions organizations have had, the snapshot a status was made from)   *)
(* the program does not, so OrgIntent is given history variables: they     *)
(* record what a step does and never influence it.                         *)
(***************************************************************************)
EXTENDS OrgIntent

VARIABLES
  past,   \* past[o]: the versions of o the API server has stored
  draft,  \* draft[d]: generations of the cached organizations when d's worker listed them
  used    \* used[d]: the draft that d's status was made from

historyVars == << vars, past, draft, used >>

Seen(stored) ==
  [gen |-> stored.gen, present |-> Present(stored), spec |-> stored.spec,
   status |-> stored.status]

Published == INSTANCE OrgPublish WITH object <- [k \in Keys |-> Seen(store[k])]

Generations == [o \in Organizations |-> cache[o].gen]

HistoryInit ==
  /\ Init
  /\ past = [o \in Organizations |-> {Published!Version(Seen(Gone(0)))}]
  /\ draft = [d \in Deployments |-> [o \in Organizations |-> 0]]
  /\ used = [d \in Deployments |-> [o \in Organizations |-> 0]]

\* The worker at d lists the organizations, respectively writes d's status.
Lists(d)  == pc[d] = "logic" /\ pc'[d] \in {"ok", "fail"}
Writes(d) == pc[d] \in {"ok", "fail"} /\ pc'[d] = "idle" /\ store'[d].status # store[d].status

Record ==
  /\ past' = [o \in Organizations |-> past[o] \cup {Published!Version(Seen(store'[o]))}]
  /\ draft' = [d \in Deployments |-> IF Lists(d) THEN Generations ELSE draft[d]]
  /\ used' = [d \in Deployments |-> IF Writes(d) THEN draft[d] ELSE used[d]]

HistoryNext == Next /\ Record

HistorySpec == HistoryInit /\ [][HistoryNext]_historyVars

\* Whatever caches, queues, workers, conflicts, lost answers and crashes do, the
\* statuses users see are those of a manager that looks at one snapshot of the
\* organizations at a time, each no older than the one before.
ImplementsPublish == Published!Spec
=============================================================================
