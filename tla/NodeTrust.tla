----------------------------- MODULE NodeTrust -----------------------------
(***************************************************************************)
(* The gate in front of the BNK apply: a DaemonSet puts the CA of the      *)
(* mirror on every node and tries to reach the mirror from it, and what    *)
(* its pods logged decides whether `bnk up` goes on.                       *)
(*                                                                         *)
(* Three clocks run against each other: the budget within which a pod      *)
(* keeps trying, the wait for the DaemonSet to be rolled out, and the      *)
(* collector's own deadline.  In the meantime routes come up and go, the   *)
(* DaemonSet controller is late, logs cannot be read, and the command dies *)
(* and is run again while the pods of the previous run are still there.    *)
(*                                                                         *)
(* A tick is a minute; a run is an invocation of `bnk up`.                 *)
(***************************************************************************)
EXTENDS FiniteSets, Integers

CONSTANTS
  Nodes,
  Budget,       \* reachability_retry_seconds
  CollectTime,  \* the deadline in CollectNodeProbeResults
  ReadyTime,    \* reachability_timeout_seconds
  MaxRuns,      \* bound: how often `bnk up` is run
  MaxFlaps      \* bound: how often the path from a node changes

ASSUME TimesAssumption ==
  /\ {Budget, CollectTime, ReadyTime, MaxRuns, MaxFlaps} \subseteq Nat
  /\ ReadyTime >= Budget + 2        \* ReachabilityTimeout clamps it

VARIABLES
  step,      \* of the command
  run,       \* the run id in the pod template of the DaemonSet, 0 when there
             \* is no DaemonSet
  observed,  \* the template the controller has seen: status.observedGeneration
  pod,       \* node -> its pod: the template it runs, its verdict, and how
             \* long it will go on trying
  timer,     \* of the step
  reach,     \* the nodes from which the mirror can be reached
  flaps,
  unread,    \* the nodes whose log could not be read when the gate decided
  met        \* not in the code: the nodes that could reach it at some time since
             \* the run began

gateVars == <<step, run, observed, pod, timer, reach, flaps, unread, met>>

NoPod    == [run |-> 0, verdict |-> "none", left |-> 0]
Over    == {"passed", "unchecked", "refused", "not ready", "killed"}
Active   == {"rollout", "collect"}

-----------------------------------------------------------------------------
(* The command: ensureRegistryCATrust.                                     *)

\* EnsureRegistryCATrust: a run id of its own rolls the DaemonSet.
StartGate ==
  /\ step \notin Active /\ run < MaxRuns
  /\ step' = "rollout" /\ run' = run + 1 /\ timer' = ReadyTime
  /\ unread' = {} /\ met' = reach
  /\ UNCHANGED <<observed, pod, reach, flaps>>

\* waitRegistryTrustReady, on the status as the controller last wrote it.  A
\* pod is ready as soon as it runs.
RolledOut == observed = run /\ \A n \in Nodes : pod[n].run = observed

Ready ==
  /\ step = "rollout" /\ RolledOut
  /\ step' = "collect" /\ timer' = CollectTime
  /\ UNCHANGED <<run, observed, pod, reach, flaps, unread, met>>

NotReady ==
  /\ step = "rollout" /\ ~RolledOut /\ timer = 0
  /\ step' = "not ready"
  /\ UNCHANGED <<run, observed, pod, timer, reach, flaps, unread, met>>

\* Mutation: one node that reported is enough.
CoveredByOne(unreadable) ==
  \E n \in Nodes \ unreadable : pod[n].verdict # "none"

\* CollectNodeProbeResults: a log that cannot be read counts as that of a node
\* that has reported, under a label nothing requires.
Covered(unreadable) ==
  \A n \in Nodes \ unreadable : pod[n].verdict # "none"

\* SummariseProbeResults: the mirror is required of every node that reported it,
\* and the gate says "reachable from every node" when none of those refuses, also of
\* a node whose log it could not read.
Decide(unreadable) ==
  /\ step = "collect" /\ Covered(unreadable)
  /\ step' = IF \E n \in Nodes \ unreadable : pod[n].verdict = "failed"
             THEN "refused" ELSE "passed"
  /\ unread' = unreadable
  /\ UNCHANGED <<run, observed, pod, timer, reach, flaps, met>>

\* Mutation: the collector waits for every node however long it takes.
CollectNeverEnds ==
  /\ step = "collect" /\ timer < 0 /\ ~Covered({})
  /\ step' = "unchecked"
  /\ UNCHANGED <<run, observed, pod, timer, reach, flaps, unread, met>>

\* An error of the collector is a warning to its caller, who goes on without the check.
CollectEnds ==
  /\ step = "collect" /\ timer = 0 /\ ~Covered({})
  /\ step' = "unchecked"
  /\ UNCHANGED <<run, observed, pod, timer, reach, flaps, unread, met>>

\* So is a DaemonSet or a list of pods that cannot be read.
CollectFails ==
  /\ step = "collect" /\ step' = "unchecked"
  /\ UNCHANGED <<run, observed, pod, timer, reach, flaps, unread, met>>

\* An error of the API server, the operator's ctrl-C.
GateKilled ==
  /\ step \in Active /\ step' = "killed"
  /\ UNCHANGED <<run, observed, pod, timer, reach, flaps, unread, met>>

-----------------------------------------------------------------------------
(* The cluster.                                                            *)

Observe ==
  /\ observed < run /\ observed' = run
  /\ UNCHANGED <<step, run, pod, timer, reach, flaps, unread, met>>

Replace(n) ==
  /\ pod[n].run < observed
  /\ pod' = [pod EXCEPT ![n] = [run |-> observed, verdict |-> "none", left |-> Budget]]
  /\ UNCHANGED <<step, run, observed, timer, reach, flaps, unread, met>>

\* nodeProbeScript: the first success is the verdict, and so is a failure once
\* the budget is spent; then the pod sleeps.
Probe(n) ==
  /\ pod[n].run > 0 /\ pod[n].verdict = "none"
  /\ n \in reach \/ pod[n].left = 0
  /\ pod' = [pod EXCEPT ![n].verdict = IF n \in reach THEN "ok" ELSE "failed"]
  /\ UNCHANGED <<step, run, observed, timer, reach, flaps, unread, met>>

\* A minute passes, when no pod is past its budget and no wait of the command
\* past its deadline.
Tick ==
  /\ step \in Active /\ timer > 0
  /\ \A n \in Nodes : pod[n].verdict = "none" /\ pod[n].run > 0 => pod[n].left > 0
  /\ timer' = timer - 1
  /\ pod' = [n \in Nodes |-> [pod[n] EXCEPT
               !.left = IF pod[n].verdict = "none" /\ @ > 0 THEN @ - 1 ELSE @]]
  /\ UNCHANGED <<step, run, observed, reach, flaps, unread, met>>

\* Routes are programmed, security groups and gateways edited.
Flap(n) ==
  /\ flaps < MaxFlaps /\ flaps' = flaps + 1
  /\ reach' = IF n \in reach THEN reach \ {n} ELSE reach \cup {n}
  /\ met' = IF n \in reach THEN met ELSE met \cup {n}
  /\ UNCHANGED <<step, run, observed, pod, timer, unread>>

GateInit ==
  /\ step = "idle" /\ run = 0 /\ observed = 0 /\ timer = 0 /\ flaps = 0
  /\ pod = [n \in Nodes |-> NoPod]
  /\ reach \in SUBSET Nodes /\ unread = {} /\ met = {}

Command == StartGate \/ Ready \/ NotReady \/ CollectEnds \/ CollectFails \/ GateKilled
             \/ \E unreadable \in SUBSET Nodes : Decide(unreadable)

Cluster == Observe \/ \E n \in Nodes : Replace(n) \/ Probe(n)

GateNext == Command \/ Cluster \/ Tick \/ \E n \in Nodes : Flap(n)

\* Time passes and the command and the pods run; the controller may never get
\* to its DaemonSet.
GateFairness ==
  /\ WF_gateVars(Ready) /\ WF_gateVars(NotReady) /\ WF_gateVars(CollectEnds)
  /\ WF_gateVars(Decide({})) /\ WF_gateVars(Tick)
  /\ \A n \in Nodes : WF_gateVars(Probe(n))

GateSpec == GateInit /\ [][GateNext]_gateVars /\ GateFairness

-----------------------------------------------------------------------------
(* Properties.                                                             *)

\* A gate that says "reachable from every node" had the mirror reached from every
\* node whose log it read during this run, not by a pod of an earlier one (the run id,
\* the wait for the rollout, the count of the nodes that reported).  Of a node whose
\* log it could not read it knows nothing and says the same.
PassedMeansReached == step = "passed" => Nodes \ unread \subseteq met

\* Every run of the gate ends, also when the controller never rolls the DaemonSet
\* out and when a node never reports (the deadlines of waitRegistryTrustReady and
\* CollectNodeProbeResults).
GateEnds == step \in Active ~> step \in Over
=============================================================================
