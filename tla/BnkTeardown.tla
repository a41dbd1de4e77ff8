---------------------------- MODULE BnkTeardown ----------------------------
(***************************************************************************)
(* How `bnk down` and `down` tear BNK off a cluster (RunTrialDown).        *)
(*                                                                         *)
(* Four parties touch the same custom resources.  The DRAIN deletes them,  *)
(* pass after pass, the leaves before the root (the CNEInstance), and      *)
(* waits for the operator to finalize them.  The SWEEP, a goroutine beside *)
(* it, keeps removing the admission webhook, which the OPERATOR (the F5    *)
(* Lifecycle Operator and its controllers) keeps writing back while it     *)
(* finalizes and re-creates.  Then TERRAFORM deletes the root without      *)
(* waiting, removes the operator, and deletes the namespace, which can go  *)
(* only when the last finalizer has gone.  If it cannot, the REPAIR clears *)
(* the finalizers nobody is left to clear, and the destroy is run again.   *)
(*                                                                         *)
(* Time counts in polls of the drain.  The model is that of a workspace    *)
(* with one BNK namespace; the code drains two one after the other.        *)
(***************************************************************************)
EXTENDS Naturals, FiniteSets

CONSTANTS
  Leaves,       \* the custom resources the drain deletes first
  Root,         \* the CNEInstance
  Remade,       \* leaves a controller creates anew when they disappear
  Protected,    \* leaves the webhook refuses to let anyone delete
  Budget,       \* bnkCRDrainTimeout, in polls
  Grace,        \* bnkCRRefusalGrace, in polls
  MaxAttempts   \* destroyMaxAttempts

ASSUME SetsAssumption   == /\ Root \notin Leaves
                           /\ Remade \subseteq Leaves
                           /\ Protected \subseteq Leaves
ASSUME BudgetAssumption == /\ Budget \in Nat /\ Grace \in Nat
                           /\ Grace < Budget
ASSUME AttemptsAssumption == MaxAttempts \in Nat \ {0}

VARIABLES
  obj,       \* custom resource -> absent, live, or deleting (it carries a
             \* deletionTimestamp and waits for its finalizers)
  fin,       \* the resources that carry an F5 finalizer
  webhook,   \* the ValidatingWebhookConfiguration: absent; unready, when its
             \* service has no endpoint; or serving
  flo,       \* the operator is installed
  ns,        \* the namespace: active, terminating or gone
  sweeper,   \* the webhook sweep: off, waiting for its tick, or sweeping
  cancelled, \* the sweep's context is cancelled
  pc,        \* where RunTrialDown is
  drain,     \* the local state of drainPhase and deleteAllIn
  tries,     \* terraform destroys run so far by destroyWithRetry
  repaired,  \* the namespace has been freed; this is the one retry
  failed,    \* RunTrialDown returns an error
  flaky,     \* the API server and the cloud may fail, too
  idle       \* not in the code: polls since a resource was marked or went

Objs == Leaves \cup {Root}

cluster  == <<obj, fin, webhook, flo, ns>>
terraform == <<tries, repaired, failed>>
vars == <<obj, fin, webhook, flo, ns, sweeper, cancelled, pc, drain, tries,
          repaired, failed, flaky, idle>>

-----------------------------------------------------------------------------
(* What happens to a custom resource.                                      *)

\* splitCNEInstance: the leaves, then the root.
PhaseObjs(phase) == IF phase = "leaves" THEN Leaves ELSE {Root}

\* A resource marked for deletion goes when no finalizer holds it.
Marked(o)   == IF o \in fin THEN "deleting" ELSE "absent"

\* What the API server says to a delete of a resource that is there.
Refuses     == webhook = "unready"
Denies(o)   == webhook = "serving" /\ o \in Protected
Accepts(o)  == ~Refuses /\ ~Denies(o)

\* Something has happened to a resource the drain waits for.
Stirs(o) == idle' = IF o \in PhaseObjs(drain.phase) THEN 0 ELSE idle

Mark(o) == /\ obj' = [obj EXCEPT ![o] = IF @ = "live" THEN Marked(o) ELSE @]
           /\ Stirs(o)

-----------------------------------------------------------------------------
(* The operator, until terraform removes it.                               *)

Finalize(o) ==
  /\ flo /\ obj[o] = "deleting" /\ o \in fin
  /\ fin' = fin \ {o}
  /\ obj' = [obj EXCEPT ![o] = "absent"]
  /\ Stirs(o)
  /\ UNCHANGED <<webhook, flo, ns, sweeper, cancelled, pc, drain, terraform, flaky>>

\* The root declares that its product's defaults exist, so the controller puts
\* them back, as new objects, and reconciles the webhook.  Nothing can be
\* created in a terminating namespace.
Recreate(o) ==
  /\ flo /\ ns = "active" /\ o \in Remade
  /\ obj[o] = "absent" /\ obj[Root] # "absent"
  /\ obj' = [obj EXCEPT ![o] = "live"]
  /\ fin' = fin \cup {o}
  /\ drain' = [drain EXCEPT !.uid[o] = IF @ = "none" THEN @ ELSE "older"]
  /\ UNCHANGED <<webhook, flo, ns, sweeper, cancelled, pc, terraform, flaky, idle>>

WebhookChanges ==
  /\ flo
  /\ webhook' = CASE webhook = "absent"  -> "unready"   \* re-created
                  [] webhook = "unready" -> "serving"   \* its endpoint is up
                  [] OTHER               -> "unready"   \* controller restarts
  /\ UNCHANGED <<obj, fin, flo, ns, sweeper, cancelled, pc, drain, terraform, flaky, idle>>

Operator == WebhookChanges \/ \E o \in Objs : Finalize(o) \/ Recreate(o)

-----------------------------------------------------------------------------
(* The namespace controller of a namespace that is being deleted.          *)

DeleteContent(o) ==
  /\ ns = "terminating" /\ obj[o] = "live" /\ Accepts(o)
  /\ Mark(o)
  /\ UNCHANGED <<fin, webhook, flo, ns, sweeper, cancelled, pc, drain, terraform, flaky>>

NamespaceGoes ==
  /\ ns = "terminating" /\ \A o \in Objs : obj[o] = "absent"
  /\ ns' = "gone"
  /\ UNCHANGED <<obj, fin, webhook, flo, sweeper, cancelled, pc, drain, terraform, flaky, idle>>

NamespaceController == NamespaceGoes \/ \E o \in Objs : DeleteContent(o)

-----------------------------------------------------------------------------
(* The webhook sweep.                                                      *)

\* startTeardownWebhookSweep: the first sweep is synchronous and best-effort,
\* and without a kubeconfig there is no loop either.
StartSweep ==
  /\ pc = "start"
  /\ pc' = "drain"
  /\ cancelled' = FALSE
  /\ \/ sweeper' = "waiting" /\ webhook' = "absent"
     \/ flaky /\ sweeper' \in {"waiting", "off"} /\ UNCHANGED webhook
  /\ UNCHANGED <<obj, fin, flo, ns, drain, terraform, flaky, idle>>

Tick ==
  /\ sweeper = "waiting" /\ ~cancelled
  /\ sweeper' = "sweeping"
  /\ UNCHANGED <<cluster, cancelled, pc, drain, terraform, flaky, idle>>

Sweep ==
  /\ sweeper = "sweeping"
  /\ sweeper' = "waiting"
  /\ webhook' \in {"absent"} \cup (IF flaky \/ cancelled THEN {webhook} ELSE {})
  /\ UNCHANGED <<obj, fin, flo, ns, cancelled, pc, drain, terraform, flaky, idle>>

SweepEnds ==
  /\ sweeper = "waiting" /\ cancelled
  /\ sweeper' = "off"
  /\ UNCHANGED <<cluster, cancelled, pc, drain, terraform, flaky, idle>>

Sweeper == Tick \/ Sweep \/ SweepEnds

-----------------------------------------------------------------------------
(* The drain.                                                              *)

\* A pass that has seen nothing yet.
Pass(d) == [d EXCEPT !.left = PhaseObjs(d.phase), !.present = FALSE,
                     !.accepted = FALSE, !.marked = FALSE, !.refused = FALSE,
                     !.unknown = FALSE]

\* What drainPhase owns anew in each phase; the deadline is shared.
NewPhase(phase, polls) ==
  Pass([phase |-> phase, left |-> {}, cur |-> Root, polls |-> polls,
        refusing |-> 0, denied |-> {}, uid |-> [o \in Objs |-> "none"],
        present |-> FALSE, accepted |-> FALSE, marked |-> FALSE,
        refused |-> FALSE, unknown |-> FALSE])

NoDrain == NewPhase("leaves", 0)
\* The drain returns, and its locals are gone.
EndDrain == pc' = "destroy" /\ drain' = NoDrain

\* sweepBNKCustomResources returns quietly when it cannot reach the cluster.
StartDrain ==
  /\ pc = "drain"
  /\ \/ pc' = "pass" /\ UNCHANGED drain
     \/ flaky /\ EndDrain
  /\ UNCHANGED <<cluster, sweeper, cancelled, terraform, flaky, idle>>

Seen(o)     == [drain EXCEPT !.left = @ \ {o}, !.cur = Root]
Accepted(o) == [Seen(o) EXCEPT !.present = TRUE, !.accepted = TRUE,
                               !.uid[o] = "this"]
Denied(o)   == [Seen(o) EXCEPT !.denied = @ \cup {o}]
Refused(o)  == [Seen(o) EXCEPT !.present = TRUE, !.refused = TRUE]

DrainStep == UNCHANGED <<fin, webhook, flo, ns, sweeper, cancelled, terraform, flaky>>

\* The outcome of a delete that no uncallable webhook refuses.
Deleted(o) == \/ Denies(o) /\ drain' = Denied(o) /\ UNCHANGED <<obj, idle>>
              \/ Accepts(o) /\ Mark(o) /\ drain' = Accepted(o)

\* One resource of a pass of deleteAllIn: listed, and deleted unless it is
\* marked already or was re-created since its delete was accepted.
Visit(o) ==
  /\ pc = "pass" /\ o \in drain.left
  /\ \/ /\ flaky                                         \* the list failed
        /\ drain' = [Seen(o) EXCEPT !.unknown = TRUE]
        /\ UNCHANGED <<obj, idle, pc>>
     \/ /\ obj[o] = "absent" \/ drain.uid[o] = "older"
        /\ drain' = Seen(o) /\ UNCHANGED <<obj, idle, pc>>
     \/ /\ obj[o] = "deleting" /\ drain.uid[o] # "older"
        /\ drain' = [Seen(o) EXCEPT !.present = TRUE, !.marked = TRUE]
        /\ UNCHANGED <<obj, idle, pc>>
     \/ /\ obj[o] = "live" /\ drain.uid[o] # "older"
        /\ \/ Deleted(o) /\ UNCHANGED pc
           \/ flaky /\ drain' = Refused(o) /\ UNCHANGED <<obj, idle, pc>>
           \/ /\ Refuses                                 \* act on the refusal
              /\ drain' = [drain EXCEPT !.cur = o]
              /\ pc' = "neutralise" /\ UNCHANGED <<obj, idle>>
  /\ DrainStep

Neutralise ==
  /\ pc = "neutralise"
  /\ pc' = "redelete"
  /\ webhook' \in {"absent"} \cup (IF flaky THEN {webhook} ELSE {})
  /\ UNCHANGED <<obj, fin, flo, ns, sweeper, cancelled, drain, terraform, flaky, idle>>

\* ... and retry at once, whatever the neutraliser has found.
Redelete ==
  /\ pc = "redelete"
  /\ pc' = "pass"
  /\ LET o == drain.cur IN
       \/ /\ obj[o] = "absent"                           \* NotFound
          /\ drain' = [Seen(o) EXCEPT !.present = TRUE]
          /\ UNCHANGED <<obj, idle>>
       \/ obj[o] # "absent" /\ Deleted(o)
       \/ /\ Refuses \/ flaky
          /\ drain' = Refused(o) /\ UNCHANGED <<obj, idle>>
  /\ DrainStep

PassOver == pc = "pass" /\ drain.left = {}
\* Mutation: a kind that could not be listed counts as empty.
DrainedUnlessSeen == ~drain.present
Drained == ~drain.present /\ ~drain.unknown
\* No part of the cluster works towards the delete.
Stalled == /\ drain.refused /\ ~drain.accepted /\ ~drain.marked
           /\ ~drain.unknown

\* Mutation: the first refusal is taken for a permanent one.
GivesUpAtOnce == Stalled
\* drain.refusing counts the stalled passes in a row before this one.
GivesUp == Stalled /\ drain.refusing >= Grace
ExpiredLate == drain.polls > Budget   \* Mutation: the deadline is off by one.
Expired == drain.polls = Budget

\* What the final count finds: it leaves out what the product protects.
Remaining == {o \in PhaseObjs(drain.phase) : obj[o] # "absent"} \ drain.denied

NextPhase ==
  IF drain.phase = "leaves"
  THEN drain' = NewPhase("root", drain.polls) /\ UNCHANGED pc
  ELSE EndDrain

PhaseDrained ==
  /\ PassOver /\ Drained
  /\ NextPhase
  /\ UNCHANGED <<cluster, sweeper, cancelled, terraform, flaky, idle>>

\* The root is left alone when its leaves are still there.
GiveUp ==
  /\ PassOver /\ ~Drained /\ GivesUp
  /\ EndDrain
  /\ UNCHANGED <<cluster, sweeper, cancelled, terraform, flaky, idle>>

\* Mutation: at the deadline the drain goes on with the root regardless.
DeadlineIgnoresLeaves ==
  /\ PassOver /\ ~Drained /\ ~GivesUp /\ Expired
  /\ NextPhase
  /\ UNCHANGED <<cluster, sweeper, cancelled, terraform, flaky, idle>>

Deadline ==
  /\ PassOver /\ ~Drained /\ ~GivesUp /\ Expired
  /\ \/ Remaining = {} /\ NextPhase
     \/ (Remaining # {} \/ flaky) /\ EndDrain
  /\ UNCHANGED <<cluster, sweeper, cancelled, terraform, flaky, idle>>

Later(n) == IF n < Grace THEN n + 1 ELSE n

\* Mutation: any progress restarts the budget, not only the grace period.
PollRestarts ==
  /\ PassOver /\ ~Drained /\ ~GivesUp /\ ~Expired
  /\ drain' = Pass([drain EXCEPT !.polls = IF Stalled THEN @ + 1 ELSE 0,
                       !.refusing = IF Stalled THEN @ + 1 ELSE 0])
  /\ idle' = Later(idle)
  /\ UNCHANGED <<cluster, sweeper, cancelled, pc, terraform, flaky>>

Poll ==
  /\ PassOver /\ ~Drained /\ ~GivesUp /\ ~Expired
  /\ drain' = Pass([drain EXCEPT !.polls = @ + 1,
                       !.refusing = IF Stalled THEN @ + 1 ELSE 0])
  /\ idle' = Later(idle)
  /\ UNCHANGED <<cluster, sweeper, cancelled, pc, terraform, flaky>>

Drain == \/ StartDrain \/ Neutralise \/ Redelete \/ PhaseDrained \/ GiveUp
         \/ Deadline \/ Poll \/ \E o \in Objs : Visit(o)

-----------------------------------------------------------------------------
(* Terraform destroy: the root is marked and not waited for, the operator  *)
(* is uninstalled, and the namespace's deletion is waited for.             *)

Destroy == UNCHANGED <<sweeper, cancelled, drain, flaky>>

\* RequireSnapshotOrVarFile: nothing to destroy with.
NoVariables ==
  /\ pc = "destroy" /\ flaky /\ tries = 1 /\ ~repaired
  /\ pc' = "stop" /\ failed' = TRUE
  /\ UNCHANGED <<cluster, tries, repaired, idle>> /\ Destroy

DestroyRoot ==
  /\ pc = "destroy"
  /\ obj[Root] # "live" \/ Accepts(Root)
  /\ IF obj[Root] = "live" THEN Mark(Root) ELSE UNCHANGED <<obj, idle>>
  /\ pc' = "operator"
  /\ UNCHANGED <<fin, webhook, flo, ns, terraform>> /\ Destroy

DestroyOperator ==
  /\ pc = "operator"
  /\ flo' = FALSE
  /\ webhook' = IF webhook = "serving" THEN "unready" ELSE webhook
  /\ pc' = "namespace"
  /\ UNCHANGED <<obj, fin, ns, terraform, idle>> /\ Destroy

DestroyNamespace ==
  /\ pc = "namespace"
  /\ ns' = IF ns = "gone" THEN "gone" ELSE "terminating"
  /\ pc' = "await"
  /\ UNCHANGED <<obj, fin, webhook, flo, terraform, idle>> /\ Destroy

Destroyed ==
  /\ pc = "await" /\ ns = "gone"
  /\ pc' = "stop"
  /\ UNCHANGED <<cluster, terraform, idle>> /\ Destroy

\* "failed calling webhook" looks transient: the destroy is run again.
RetryDestroy ==
  /\ \/ pc = "destroy" /\ obj[Root] = "live" /\ Refuses
     \/ flaky /\ pc \in {"destroy", "operator", "namespace", "await"}
  /\ tries < MaxAttempts
  /\ tries' = tries + 1
  /\ pc' = "destroy"
  /\ UNCHANGED <<cluster, repaired, failed, idle>> /\ Destroy

\* Nothing moves in the terminating namespace: the provider's timeout (five
\* minutes, a hundred ticks of the sweep) is only ever spent on that.
Stuck ==
  /\ ns = "terminating"
  /\ webhook = "absent" \/ sweeper = "off"
  /\ \A o \in Objs : obj[o] = "live" => ~Accepts(o)
  /\ \E o \in Objs : obj[o] # "absent"

\* Mutation: the repair is run behind successful destroys only.
FailsUnrepaired ==
  /\ \/ pc = "destroy" /\ obj[Root] = "live" /\ Refuses /\ tries = MaxAttempts
     \/ pc = "await" /\ Stuck
  /\ pc' = "stop" /\ failed' = TRUE
  /\ UNCHANGED <<cluster, tries, repaired, idle>> /\ Destroy

DestroyFails ==
  /\ \/ pc = "destroy" /\ obj[Root] = "live" /\ Refuses /\ tries = MaxAttempts
     \/ pc = "await" /\ Stuck
     \/ flaky /\ pc \in {"destroy", "operator", "namespace", "await"}
  /\ IF repaired THEN pc' = "stop" /\ failed' = TRUE
                 ELSE pc' = "repair" /\ UNCHANGED failed
  /\ UNCHANGED <<cluster, tries, repaired, idle>> /\ Destroy

-----------------------------------------------------------------------------
(* freeStuckBNKNamespace.                                                  *)

ClearFinalizers(cleared) ==
  /\ fin' = fin \ cleared
  /\ obj' = [o \in Objs |-> IF o \in cleared /\ obj[o] = "deleting"
                            THEN "absent" ELSE obj[o]]
  /\ pc' = "freed" /\ idle' = 0
  /\ UNCHANGED <<webhook, flo, ns, terraform>> /\ Destroy

\* Mutation: the namespace's phase is not looked at.
FreeAnyNamespace(cleared) == pc = "repair" /\ ClearFinalizers(cleared)

\* Every F5 finalizer in a namespace that is Terminating.
FreeNamespace(cleared) ==
  /\ pc = "repair" /\ ns = "terminating"
  /\ cleared = fin \/ flaky
  /\ ClearFinalizers(cleared)

Free == \E cleared \in (SUBSET fin) \ {{}} : FreeNamespace(cleared)

\* Only a namespace that has gone is worth a retry; a look that fails counts.
Freed ==
  /\ pc = "freed" /\ (ns = "gone" \/ flaky)
  /\ repaired' = TRUE /\ tries' = 1
  /\ pc' = "destroy"
  /\ UNCHANGED <<cluster, failed, idle>> /\ Destroy

\* Nothing to repair, no way to, or it did not help: the error stands.
NotFreed ==
  /\ \/ pc = "repair" /\ (ns # "terminating" \/ fin = {} \/ flaky)
     \/ pc = "freed" /\ ns # "gone" /\ (flaky \/ Stuck)
  /\ pc' = "stop" /\ failed' = TRUE
  /\ UNCHANGED <<cluster, tries, repaired, idle>> /\ Destroy

Terraform == \/ DestroyRoot \/ DestroyOperator \/ DestroyNamespace \/ Destroyed
             \/ NoVariables \/ RetryDestroy \/ DestroyFails \/ Free \/ Freed \/ NotFreed

-----------------------------------------------------------------------------

\* The deferred stop: cancel the sweep ...
StopSweep ==
  /\ pc = "stop" /\ ~cancelled
  /\ cancelled' = TRUE
  /\ UNCHANGED <<cluster, sweeper, pc, drain, terraform, flaky, idle>>

\* ... and wait for it.
Return ==
  /\ pc = "stop" /\ cancelled /\ sweeper = "off"
  /\ pc' = "returned"
  /\ UNCHANGED <<cluster, sweeper, cancelled, drain, terraform, flaky, idle>>

\* The command is typed again after an error.
Rerun ==
  /\ pc = "returned" /\ failed
  /\ pc' = "start"
  /\ tries' = 1 /\ repaired' = FALSE /\ failed' = FALSE
  /\ UNCHANGED <<cluster, sweeper, cancelled, drain, flaky, idle>>

Init ==
  /\ obj = [o \in Objs |-> "live"]
  /\ fin = Objs
  /\ webhook \in {"unready", "serving"}
  /\ flo = TRUE /\ ns = "active"
  /\ sweeper = "off" /\ cancelled = FALSE
  /\ pc = "start"
  /\ drain = NoDrain
  /\ tries = 1 /\ repaired = FALSE /\ failed = FALSE
  /\ flaky \in BOOLEAN
  /\ idle = 0

RunTrialDown == StartSweep \/ Drain \/ Terraform \/ StopSweep \/ Return

Next == RunTrialDown \/ Sweeper \/ Operator \/ NamespaceController \/ Rerun

Spec == Init /\ [][Next]_vars

\* The command runs, its goroutine ticks, and the namespace controller does
\* its work; the operator owes nothing, and nobody has to type it again.
FairSpec == /\ Spec
            /\ WF_vars(RunTrialDown)
            /\ WF_vars(Sweeper)
            /\ WF_vars(NamespaceController)

-----------------------------------------------------------------------------
(* Properties.                                                             *)

DrainType ==
  [phase : {"leaves", "root"}, left : SUBSET Objs, cur : Objs,
   polls : 0 .. Budget, refusing : 0 .. Budget, denied : SUBSET Leaves,
   uid : [Objs -> {"none", "this", "older"}], present : BOOLEAN,
   accepted : BOOLEAN, marked : BOOLEAN, refused : BOOLEAN, unknown : BOOLEAN]

\* Every variable holds a value of its type.
TypeOK ==
  /\ obj \in [Objs -> {"absent", "live", "deleting"}]
  /\ fin \subseteq Objs
  /\ webhook \in {"absent", "unready", "serving"}
  /\ flo \in BOOLEAN
  /\ ns \in {"active", "terminating", "gone"}
  /\ sweeper \in {"off", "waiting", "sweeping"}
  /\ cancelled \in BOOLEAN
  /\ pc \in {"start", "drain", "pass", "neutralise", "redelete", "destroy",
             "operator", "namespace", "await", "repair", "freed", "stop",
             "returned"}
  /\ drain \in DrainType
  /\ tries \in 1 .. MaxAttempts
  /\ repaired \in BOOLEAN /\ failed \in BOOLEAN /\ flaky \in BOOLEAN
  /\ idle \in 0 .. Grace

DrainDeletes(o) ==
  /\ ns = "active" /\ pc \in {"pass", "redelete"}
  /\ obj[o] = "live" /\ obj'[o] # "live"

\* The drain asks for the root only when every leaf has finished finalizing;
\* what may be left is what a controller has put back since (drainBNKCustom-
\* Resources: the leaves confirmed gone, and only then the CNEInstance).
RootAfterLeaves ==
  [][DrainDeletes(Root) =>
       \A o \in Leaves \ Protected :
         obj[o] = "absent" \/ (obj[o] = "live" /\ o \in Remade)]_vars

\* The drain gives up before its deadline only when, for the whole grace
\* period, no resource it waits for was marked or went (drainPhase: giving up
\* on evidence rather than on one sample).
GiveUpOnEvidence ==
  [][/\ ns = "active" /\ pc = "pass" /\ pc' = "destroy"
     /\ drain.polls < Budget
     /\ \E o \in PhaseObjs(drain.phase) \ (Remade \cup Protected) :
          obj[o] # "absent"
     => idle = Grace]_vars

\* Finalizers are cleared only when the operator that owns them is gone
\* (freeStuckBNKNamespace runs behind a destroy, whatever made it fail).
RepairOnlyOrphans ==
  [][pc = "repair" /\ pc' = "freed" => ~flo]_vars

\* However long the operator and the controllers keep it busy, the teardown
\* returns (one deadline for both phases, bounded retries, one repair).
TeardownReturns == pc = "start" ~> pc = "returned"

\* Once terraform has removed the operator, the teardown succeeds whatever the
\* drain has left behind, unless something else fails: the sweep, the repair
\* and the retry together unblock the namespace.
OrphansAreFreed == ~flaky /\ ~flo ~> pc = "returned" /\ ~failed
=============================================================================
