------------------------ MODULE BnkTeardown_proofs ------------------------
(***************************************************************************)
(* Why the drain deletes the root after its leaves and gives up on         *)
(* evidence, and why the repair clears nothing under a live operator, for  *)
(* any sets of resources and any budget.                                   *)
(***************************************************************************)
EXTENDS BnkTeardown, TLAPS

\* The stalled passes in a row are among the polls so far.
TypeInv == TypeOK /\ drain.refusing <= drain.polls

-----------------------------------------------------------------------------
(* Types.                                                                  *)

\* A new pass starts from nothing seen, with all that the drain remembers.
LEMMA PassType ==
  ASSUME NEW d \in DrainType
  PROVE  /\ Pass(d) \in DrainType
         /\ Pass(d).left = PhaseObjs(d.phase)
         /\ Pass(d).phase = d.phase /\ Pass(d).cur = d.cur
         /\ Pass(d).polls = d.polls /\ Pass(d).refusing = d.refusing
         /\ Pass(d).denied = d.denied /\ Pass(d).uid = d.uid
         /\ Pass(d).present = FALSE /\ Pass(d).unknown = FALSE
  <1>1. PhaseObjs(d.phase) \subseteq Objs
    BY DEF PhaseObjs, Objs
  <1>. DEFINE P == PhaseObjs(d.phase)
  <1>2. P \in SUBSET Objs
    BY <1>1
  <1>. HIDE DEF P
  <1>3. Pass(d) = [d EXCEPT !.left = P, !.present = FALSE, !.accepted = FALSE,
                            !.marked = FALSE, !.refused = FALSE,
                            !.unknown = FALSE]
    BY DEF Pass, P
  <1>. QED BY <1>2, <1>3 DEF DrainType, P

LEMMA NewPhaseType ==
  ASSUME NEW phase \in {"leaves", "root"}, NEW polls \in 0 .. Budget
  PROVE  /\ NewPhase(phase, polls) \in DrainType
         /\ NewPhase(phase, polls).phase = phase
         /\ NewPhase(phase, polls).refusing = 0
         /\ NewPhase(phase, polls).polls = polls
         /\ NewPhase(phase, polls).denied = {}
         /\ NewPhase(phase, polls).left = PhaseObjs(phase)
         /\ NewPhase(phase, polls).uid = [o \in Objs |-> "none"]
  <1>. DEFINE d == [phase |-> phase, left |-> {}, cur |-> Root,
                    polls |-> polls, refusing |-> 0, denied |-> {},
                    uid |-> [o \in Objs |-> "none"], present |-> FALSE,
                    accepted |-> FALSE, marked |-> FALSE, refused |-> FALSE,
                    unknown |-> FALSE]
  <1>1. [o \in Objs |-> "none"] \in [Objs -> {"none", "this", "older"}]
    OBVIOUS
  <1>2. d \in DrainType
    BY <1>1, BudgetAssumption DEF DrainType, Objs
  <1>3. NewPhase(phase, polls) = Pass(d)
    BY DEF NewPhase
  <1>4. /\ d.phase = phase /\ d.refusing = 0 /\ d.polls = polls
        /\ d.denied = {} /\ d.uid = [o \in Objs |-> "none"]
    OBVIOUS
  <1>. HIDE DEF d
  <1>. QED BY <1>2, <1>3, <1>4, PassType

LEMMA NoDrainType ==
  NoDrain \in DrainType /\ NoDrain.refusing <= NoDrain.polls
  BY NewPhaseType, BudgetAssumption DEF NoDrain

LEMMA EndDrainType ==
  ASSUME EndDrain
  PROVE  pc' = "destroy" /\ drain' \in DrainType /\ drain'.refusing <= drain'.polls
  BY NoDrainType DEF EndDrain

LEMMA NextPhaseType ==
  ASSUME TypeInv, NextPhase
  PROVE  /\ pc' \in {pc, "destroy"}
         /\ drain' \in DrainType
         /\ drain'.refusing <= drain'.polls
  <1>0. drain.polls \in 0 .. Budget
    BY DEF TypeInv, TypeOK, DrainType
  <1>1. CASE drain.phase = "leaves"
    BY <1>0, <1>1, NewPhaseType, BudgetAssumption DEF NextPhase
  <1>2. CASE drain.phase # "leaves"
    BY <1>2, EndDrainType DEF NextPhase
  <1>. QED BY <1>1, <1>2

\* A step that leaves the drain alone keeps the types of the rest.
LEMMA InitType == Init => TypeInv
  <1>. SUFFICES ASSUME Init PROVE TypeInv
    OBVIOUS
  <1>1. obj \in [Objs -> {"absent", "live", "deleting"}] /\ fin \subseteq Objs
    BY DEF Init
  <1>2. tries \in 1 .. MaxAttempts /\ idle \in 0 .. Grace
    BY BudgetAssumption, AttemptsAssumption DEF Init
  <1>3. drain \in DrainType /\ drain.refusing <= drain.polls
    BY NoDrainType DEF Init
  <1>4. flo \in BOOLEAN /\ cancelled \in BOOLEAN /\ repaired \in BOOLEAN
        /\ failed \in BOOLEAN /\ flaky \in BOOLEAN
    BY DEF Init
  <1>5. /\ webhook \in {"absent", "unready", "serving"}
        /\ ns \in {"active", "terminating", "gone"}
        /\ sweeper \in {"off", "waiting", "sweeping"}
        /\ pc \in {"start", "drain", "pass", "neutralise", "redelete",
                   "destroy", "operator", "namespace", "await", "repair",
                   "freed", "stop", "returned"}
    BY DEF Init
  <1>. QED BY <1>1, <1>2, <1>3, <1>4, <1>5 DEF TypeInv, TypeOK

LEMMA OperatorType == TypeInv /\ Operator => TypeInv'
  <1>. SUFFICES ASSUME TypeInv, Operator PROVE TypeInv'
    OBVIOUS
  <1>. USE BudgetAssumption DEF TypeInv, TypeOK, DrainType, terraform
  <1>1. CASE WebhookChanges
    BY <1>1 DEF WebhookChanges
  <1>2. ASSUME NEW o \in Objs, Finalize(o) PROVE TypeInv'
    BY <1>2 DEF Finalize, Stirs
  <1>3. ASSUME NEW o \in Objs, Recreate(o) PROVE TypeInv'
    BY <1>3 DEF Recreate
  <1>. QED BY <1>1, <1>2, <1>3 DEF Operator

LEMMA NamespaceType == TypeInv /\ NamespaceController => TypeInv'
  <1>. SUFFICES ASSUME TypeInv, NamespaceController PROVE TypeInv'
    OBVIOUS
  <1>. USE BudgetAssumption DEF TypeInv, TypeOK, terraform
  <1>1. CASE NamespaceGoes
    BY <1>1 DEF NamespaceGoes
  <1>2. ASSUME NEW o \in Objs, DeleteContent(o) PROVE TypeInv'
    BY <1>2 DEF DeleteContent, Mark, Marked, Stirs
  <1>. QED BY <1>1, <1>2 DEF NamespaceController

LEMMA SweeperType == TypeInv /\ Sweeper => TypeInv'
  BY DEF Sweeper, Tick, Sweep, SweepEnds, TypeInv, TypeOK, cluster, terraform

\* What the drain notes of a resource changes neither its counters nor what
\* it has still to visit in another way than Seen does.
SameDrain(d, o) ==
  /\ d \in DrainType
  /\ d.phase = drain.phase /\ d.polls = drain.polls
  /\ d.refusing = drain.refusing /\ d.left = drain.left \ {o}

LEMMA SeenType ==
  ASSUME TypeInv, NEW o \in Objs
  PROVE  SameDrain(Seen(o), o)
         /\ Seen(o).present = drain.present /\ Seen(o).unknown = drain.unknown
         /\ Seen(o).denied = drain.denied /\ Seen(o).uid = drain.uid
  BY DEF TypeInv, TypeOK, DrainType, Seen, Objs, SameDrain

LEMMA NotedType ==
  ASSUME TypeInv, NEW o \in Objs,
         drain' \in {[Seen(o) EXCEPT !.unknown = TRUE], Seen(o),
                     [Seen(o) EXCEPT !.present = TRUE],
                     [Seen(o) EXCEPT !.present = TRUE, !.marked = TRUE],
                     Refused(o)}
  PROVE  SameDrain(drain', o)
         /\ drain'.denied = drain.denied /\ drain'.uid = drain.uid
         /\ (drain'.present \/ drain'.unknown \/ drain' = Seen(o))
  <1>1. Seen(o) \in DrainType
    BY SeenType DEF SameDrain
  <1>. DEFINE d == Seen(o)
  <1>2. SameDrain(d, o) /\ d.denied = drain.denied /\ d.uid = drain.uid
    BY SeenType
  <1>3. drain' \in {[d EXCEPT !.unknown = TRUE], d, [d EXCEPT !.present = TRUE],
                    [d EXCEPT !.present = TRUE, !.marked = TRUE],
                    [d EXCEPT !.present = TRUE, !.refused = TRUE]}
    BY DEF Refused
  <1>. HIDE DEF d
  <1>4. SameDrain(drain', o)
        /\ drain'.denied = d.denied /\ drain'.uid = d.uid
    BY <1>2, <1>3 DEF DrainType, SameDrain
  <1>5. drain'.present \/ drain'.unknown \/ drain' = d
    BY <1>2, <1>3 DEF DrainType, SameDrain
  <1>. QED BY <1>2, <1>4, <1>5 DEF d

LEMMA DeniedType ==
  ASSUME TypeInv, NEW o \in Leaves, drain' = Denied(o)
  PROVE  SameDrain(drain', o) /\ drain'.uid = drain.uid
         /\ drain'.denied = drain.denied \cup {o}
  <1>. DEFINE d == Seen(o)
  <1>1. SameDrain(d, o) /\ d.denied = drain.denied /\ d.uid = drain.uid
    BY SeenType DEF Objs
  <1>2. drain' = [d EXCEPT !.denied = @ \cup {o}]
    BY DEF Denied
  <1>. HIDE DEF d
  <1>. QED BY <1>1, <1>2 DEF DrainType, SameDrain

LEMMA AcceptedType ==
  ASSUME TypeInv, NEW o \in Objs, drain' = Accepted(o)
  PROVE  SameDrain(drain', o) /\ drain'.present
         /\ drain'.denied = drain.denied
         /\ drain'.uid = [drain.uid EXCEPT ![o] = "this"]
  <1>. DEFINE d == Seen(o)
  <1>1. SameDrain(d, o) /\ d.denied = drain.denied /\ d.uid = drain.uid
    BY SeenType
  <1>. DEFINE u == [d.uid EXCEPT ![o] = "this"]
  <1>2. drain' = [d EXCEPT !.present = TRUE, !.accepted = TRUE, !.uid = u]
    BY DEF Accepted
  <1>3. u = [drain.uid EXCEPT ![o] = "this"]
        /\ u \in [Objs -> {"none", "this", "older"}]
    BY <1>1 DEF SameDrain, DrainType
  <1>. HIDE DEF d, u
  <1>4. SameDrain(drain', o)
    BY <1>1, <1>2, <1>3 DEF DrainType, SameDrain
  <1>5. drain'.present /\ drain'.denied = d.denied /\ drain'.uid = u
    BY <1>1, <1>2 DEF DrainType, SameDrain
  <1>. QED BY <1>1, <1>3, <1>4, <1>5

LEMMA MarkType ==
  ASSUME TypeInv, NEW o \in Objs, Mark(o)
  PROVE  obj' \in [Objs -> {"absent", "live", "deleting"}] /\ idle' \in 0 .. Grace
  BY BudgetAssumption DEF TypeInv, TypeOK, Mark, Marked, Stirs

LEMMA DeletedType ==
  ASSUME TypeInv, NEW o \in Objs, Deleted(o)
  PROVE  /\ obj' \in [Objs -> {"absent", "live", "deleting"}]
         /\ idle' \in 0 .. Grace
         /\ SameDrain(drain', o)
  <1>1. CASE Denies(o) /\ drain' = Denied(o) /\ UNCHANGED <<obj, idle>>
    BY <1>1, DeniedType, SetsAssumption DEF Denies, TypeInv, TypeOK
  <1>2. CASE Accepts(o) /\ Mark(o) /\ drain' = Accepted(o)
    BY <1>2, MarkType, AcceptedType
  <1>. QED BY <1>1, <1>2 DEF Deleted

\* A step of the drain that leaves the namespace's other parties alone.
LEMMA DrainStepType ==
  ASSUME TypeInv, DrainStep, NEW o \in Objs,
         obj' \in [Objs -> {"absent", "live", "deleting"}],
         idle' \in 0 .. Grace,
         pc' \in {pc, "neutralise", "pass"},
         SameDrain(drain', o)
  PROVE  TypeInv'
  <1>1. drain' \in DrainType /\ drain'.refusing <= drain'.polls
    BY DEF TypeInv, SameDrain
  <1>2. pc' \in {"start", "drain", "pass", "neutralise", "redelete",
                 "destroy", "operator", "namespace", "await", "repair",
                 "freed", "stop", "returned"}
    BY DEF TypeInv, TypeOK
  <1>. QED BY <1>1, <1>2 DEF TypeInv, TypeOK, DrainStep, terraform

LEMMA VisitType ==
  ASSUME TypeInv, NEW o \in Objs, Visit(o)
  PROVE  TypeInv'
  <1>0. DrainStep /\ obj \in [Objs -> {"absent", "live", "deleting"}]
        /\ idle \in 0 .. Grace
    BY DEF Visit, TypeInv, TypeOK
  <1>1. CASE drain' \in {[Seen(o) EXCEPT !.unknown = TRUE], Seen(o),
                         [Seen(o) EXCEPT !.present = TRUE, !.marked = TRUE],
                         Refused(o)}
             /\ UNCHANGED <<obj, idle, pc>>
    BY <1>0, <1>1, NotedType, DrainStepType
  <1>2. CASE Deleted(o) /\ UNCHANGED pc
    BY <1>0, <1>2, DeletedType, DrainStepType
  <1>3. CASE /\ drain' = [drain EXCEPT !.cur = o]
             /\ pc' = "neutralise" /\ UNCHANGED <<obj, idle>>
    <2>1. drain' \in DrainType /\ drain'.refusing <= drain'.polls
      BY <1>3 DEF TypeInv, TypeOK, DrainType
    <2>. QED BY <1>0, <1>3, <2>1 DEF TypeInv, TypeOK, DrainStep, terraform
  <1>. QED BY <1>1, <1>2, <1>3 DEF Visit

LEMMA RedeleteType ==
  ASSUME TypeInv, Redelete
  PROVE  TypeInv'
  <1>. DEFINE o == drain.cur
  <1>0. /\ DrainStep /\ obj \in [Objs -> {"absent", "live", "deleting"}]
        /\ idle \in 0 .. Grace /\ pc' = "pass" /\ o \in Objs
    BY DEF Redelete, TypeInv, TypeOK, DrainType
  <1>1. CASE drain' \in {[Seen(o) EXCEPT !.present = TRUE], Refused(o)}
             /\ UNCHANGED <<obj, idle>>
    BY <1>0, <1>1, NotedType, DrainStepType
  <1>2. CASE Deleted(o)
    BY <1>0, <1>2, DeletedType, DrainStepType
  <1>. QED BY <1>1, <1>2 DEF Redelete

LEMMA PollType ==
  ASSUME TypeInv, Poll
  PROVE  /\ drain' \in DrainType /\ drain'.refusing <= drain'.polls
         /\ drain'.phase = drain.phase /\ drain'.left = PhaseObjs(drain.phase)
         /\ drain'.denied = drain.denied /\ drain'.uid = drain.uid
         /\ idle' \in 0 .. Grace
  <1>. DEFINE p == drain.polls + 1
              r == IF Stalled THEN drain.refusing + 1 ELSE 0
              d == [drain EXCEPT !.polls = p, !.refusing = r]
  <1>1. drain' = Pass(d)
    BY DEF Poll
  <1>2. /\ drain \in DrainType /\ drain.refusing <= drain.polls
        /\ drain.polls # Budget /\ idle \in 0 .. Grace
    BY DEF Poll, Expired, TypeInv, TypeOK
  <1>3. p \in 0 .. Budget /\ r \in 0 .. Budget /\ r <= p
    BY <1>2, BudgetAssumption DEF DrainType
  <1>4. idle' \in 0 .. Grace
    BY <1>2, BudgetAssumption DEF Poll, Later
  <1>. HIDE DEF p, r
  <1>5. /\ d \in DrainType /\ d.phase = drain.phase /\ d.refusing <= d.polls
        /\ d.denied = drain.denied /\ d.uid = drain.uid
    BY <1>2, <1>3 DEF DrainType
  <1>. HIDE DEF d
  <1>. QED BY <1>1, <1>4, <1>5, PassType

LEMMA DrainStepsType == TypeInv /\ Drain => TypeInv'
  <1>. SUFFICES ASSUME TypeInv, Drain PROVE TypeInv'
    OBVIOUS
  <1>. USE BudgetAssumption, AttemptsAssumption
       DEF TypeInv, TypeOK, cluster, terraform
  <1>1. CASE StartDrain
    BY <1>1, EndDrainType DEF StartDrain
  <1>2. CASE Neutralise
    BY <1>2 DEF Neutralise
  <1>3. CASE Redelete
    BY <1>3, RedeleteType
  <1>4. CASE PhaseDrained
    BY <1>4, NextPhaseType DEF PhaseDrained
  <1>5. CASE GiveUp
    BY <1>5, EndDrainType DEF GiveUp
  <1>6. CASE Deadline
    BY <1>6, EndDrainType, NextPhaseType DEF Deadline
  <1>7. CASE Poll
    BY <1>7, PollType DEF Poll
  <1>8. ASSUME NEW o \in Objs, Visit(o) PROVE TypeInv'
    BY <1>8, VisitType
  <1>. QED BY <1>1, <1>2, <1>3, <1>4, <1>5, <1>6, <1>7, <1>8 DEF Drain

LEMMA TerraformType == TypeInv /\ Terraform => TypeInv'
  <1>. SUFFICES ASSUME TypeInv, Terraform PROVE TypeInv'
    OBVIOUS
  <1>. USE AttemptsAssumption, BudgetAssumption
       DEF TypeInv, TypeOK, cluster, terraform, Destroy, Objs
  <1>1. CASE NoVariables
    BY <1>1 DEF NoVariables
  <1>2. CASE DestroyRoot
    BY <1>2 DEF DestroyRoot, Mark, Marked, Stirs
  <1>3. CASE DestroyOperator
    BY <1>3 DEF DestroyOperator
  <1>4. CASE DestroyNamespace
    BY <1>4 DEF DestroyNamespace
  <1>5. CASE Destroyed
    BY <1>5 DEF Destroyed
  <1>6. CASE RetryDestroy
    BY <1>6 DEF RetryDestroy
  <1>7. CASE DestroyFails
    BY <1>7 DEF DestroyFails
  <1>8. CASE Free
    BY <1>8 DEF Free, FreeNamespace, ClearFinalizers
  <1>9. CASE Freed
    BY <1>9 DEF Freed
  <1>10. CASE NotFreed
    BY <1>10 DEF NotFreed
  <1>. QED BY <1>1, <1>2, <1>3, <1>4, <1>5, <1>6, <1>7, <1>8, <1>9, <1>10
           DEF Terraform

LEMMA CommandType ==
  TypeInv /\ (StartSweep \/ StopSweep \/ Return \/ Rerun) => TypeInv'
  <1>. SUFFICES ASSUME TypeInv, StartSweep \/ StopSweep \/ Return \/ Rerun
                PROVE  TypeInv'
    OBVIOUS
  <1>. USE AttemptsAssumption DEF TypeInv, TypeOK, cluster, terraform
  <1>1. CASE StartSweep
    BY <1>1 DEF StartSweep
  <1>2. CASE StopSweep
    BY <1>2 DEF StopSweep
  <1>3. CASE Return
    BY <1>3 DEF Return
  <1>4. CASE Rerun
    <2>1. tries' \in 1 .. MaxAttempts
      BY <1>4 DEF Rerun
    <2>2. repaired' \in BOOLEAN /\ failed' \in BOOLEAN /\ pc' = "start"
      BY <1>4, Zenon DEF Rerun
    <2>3. UNCHANGED <<obj, fin, webhook, flo, ns, sweeper, cancelled, drain,
                      flaky, idle>>
      BY <1>4 DEF Rerun
    <2>4. flaky' \in BOOLEAN /\ flo' \in BOOLEAN /\ cancelled' \in BOOLEAN
      BY <2>3
    <2>. QED BY <2>1, <2>2, <2>3, <2>4
  <1>. QED BY <1>1, <1>2, <1>3, <1>4

LEMMA TypeStep == TypeInv /\ [Next]_vars => TypeInv'
  <1>. SUFFICES ASSUME TypeInv, [Next]_vars PROVE TypeInv'
    OBVIOUS
  <1>1. CASE UNCHANGED vars
    BY <1>1 DEF vars, TypeInv, TypeOK
  <1>2. CASE Next
    BY <1>2, DrainStepsType, TerraformType, SweeperType, OperatorType,
       NamespaceType, CommandType
    DEF Next, RunTrialDown
  <1>. QED BY <1>1, <1>2

\* TypeOK holds for every set of resources and every budget.
THEOREM TypeCorrect == Spec => []TypeOK
  <1>1. TypeInv => TypeOK
    BY DEF TypeInv
  <1>. QED BY <1>1, InitType, TypeStep, PTL DEF Spec

-----------------------------------------------------------------------------
(* The repair.                                                             *)

\* The operator is gone before the namespace's deletion begins.
OperatorInv ==
  /\ pc = "namespace" => ~flo
  /\ ns # "active" => ~flo

\* Nothing but the removal of the operator and the deletion of the namespace
\* bears on it.
LEMMA DrainFrame ==
  Drain => /\ UNCHANGED <<flo, ns>>
           /\ pc \notin {"namespace", "repair"}
           /\ pc' \notin {"namespace", "freed"}
  <1>. SUFFICES ASSUME Drain
                PROVE  /\ UNCHANGED <<flo, ns>>
                       /\ pc \notin {"namespace", "repair"}
                       /\ pc' \notin {"namespace", "freed"}
    OBVIOUS
  <1>. USE DEF cluster, DrainStep, EndDrain, NextPhase, PassOver
  <1>1. CASE StartDrain
    BY <1>1 DEF StartDrain
  <1>2. CASE Neutralise
    BY <1>2 DEF Neutralise
  <1>3. CASE Redelete
    BY <1>3 DEF Redelete
  <1>4. CASE PhaseDrained
    BY <1>4 DEF PhaseDrained
  <1>5. CASE GiveUp
    BY <1>5 DEF GiveUp
  <1>6. CASE Deadline
    BY <1>6 DEF Deadline
  <1>7. CASE Poll
    BY <1>7 DEF Poll
  <1>8. ASSUME NEW o \in Objs, Visit(o)
        PROVE  /\ UNCHANGED <<flo, ns>>
               /\ pc \notin {"namespace", "repair"}
               /\ pc' \notin {"namespace", "freed"}
    BY <1>8 DEF Visit
  <1>. QED BY <1>1, <1>2, <1>3, <1>4, <1>5, <1>6, <1>7, <1>8 DEF Drain

LEMMA TerraformOperator ==
  ASSUME OperatorInv, Terraform
  PROVE  OperatorInv' /\ (pc = "repair" /\ pc' = "freed" => ~flo)
  <1>. USE DEF OperatorInv, cluster, terraform, Destroy
  <1>1. CASE NoVariables
    BY <1>1 DEF NoVariables
  <1>2. CASE DestroyRoot
    BY <1>2 DEF DestroyRoot
  <1>3. CASE DestroyOperator
    BY <1>3 DEF DestroyOperator
  <1>4. CASE DestroyNamespace
    BY <1>4 DEF DestroyNamespace
  <1>5. CASE Destroyed
    BY <1>5 DEF Destroyed
  <1>6. CASE RetryDestroy
    BY <1>6 DEF RetryDestroy
  <1>7. CASE DestroyFails
    BY <1>7 DEF DestroyFails
  <1>8. CASE Free
    BY <1>8 DEF Free, FreeNamespace, ClearFinalizers
  <1>9. CASE Freed
    BY <1>9 DEF Freed
  <1>10. CASE NotFreed
    BY <1>10 DEF NotFreed
  <1>. QED BY <1>1, <1>2, <1>3, <1>4, <1>5, <1>6, <1>7, <1>8, <1>9, <1>10
           DEF Terraform

LEMMA OthersOperator ==
  ASSUME OperatorInv,
         StartSweep \/ StopSweep \/ Return \/ Rerun \/ Sweeper \/ Operator
           \/ NamespaceController
  PROVE  OperatorInv' /\ ~(pc = "repair" /\ pc' = "freed")
  <1>. USE DEF OperatorInv, cluster, terraform
  <1>1. CASE StartSweep \/ StopSweep \/ Return \/ Rerun
    BY <1>1 DEF StartSweep, StopSweep, Return, Rerun
  <1>2. CASE Sweeper
    BY <1>2 DEF Sweeper, Tick, Sweep, SweepEnds
  <1>3. CASE Operator
    BY <1>3 DEF Operator, WebhookChanges, Finalize, Recreate
  <1>4. CASE NamespaceController
    BY <1>4 DEF NamespaceController, NamespaceGoes, DeleteContent
  <1>. QED BY <1>1, <1>2, <1>3, <1>4

LEMMA OperatorStep ==
  ASSUME OperatorInv, [Next]_vars
  PROVE  OperatorInv' /\ (pc = "repair" /\ pc' = "freed" => ~flo)
  <1>1. CASE UNCHANGED vars
    BY <1>1 DEF vars, OperatorInv
  <1>2. CASE Drain
    BY <1>2, DrainFrame DEF OperatorInv
  <1>3. CASE Terraform
    BY <1>3, TerraformOperator
  <1>4. CASE StartSweep \/ StopSweep \/ Return \/ Rerun \/ Sweeper \/ Operator
               \/ NamespaceController
    BY <1>4, OthersOperator
  <1>. QED BY <1>1, <1>2, <1>3, <1>4 DEF Next, RunTrialDown

\* The repair clears finalizers only once the operator that owns them is gone,
\* whatever resources there are and however often the destroy is retried.
THEOREM RepairSpares == Spec => RepairOnlyOrphans
  <1>1. Init => OperatorInv
    BY DEF Init, OperatorInv
  <1>2. OperatorInv /\ [Next]_vars => OperatorInv'
    BY OperatorStep
  <1>3. OperatorInv /\ [Next]_vars =>
          [pc = "repair" /\ pc' = "freed" => ~flo]_vars
    BY OperatorStep
  <1>. QED BY <1>1, <1>2, <1>3, PTL DEF Spec, RepairOnlyOrphans

-----------------------------------------------------------------------------
(* The invariant behind the order.                                         *)

\* A leaf the root need not wait for: it has gone, or is a new object that a
\* controller has put in its place.
Settled(o) == obj[o] = "absent" \/ (obj[o] = "live" /\ o \in Remade)

\* What the drain remembers is true of the resources.
MemorySound ==
  /\ drain.denied \subseteq Protected
  /\ drain.left \subseteq PhaseObjs(drain.phase)
  /\ \A o \in Objs :
       /\ drain.uid[o] = "older" => obj[o] = "live" /\ o \in Remade
       /\ drain.uid[o] = "this"  => obj[o] # "live"

\* A refused delete is retried on the resource it was refused for.
RetrySound ==
  pc \in {"neutralise", "redelete"} =>
    /\ drain.cur \in drain.left
    /\ obj[drain.cur] = "live"
    /\ drain.uid[drain.cur] = "none"

\* A pass that has found nothing to wait for yet has found the leaves it has
\* visited settled.
PassSound ==
  drain.phase = "leaves" /\ Drained =>
    \A o \in Leaves \ Protected : o \in drain.left \/ Settled(o)

\* In the root phase all of them are.
RootPhaseSound ==
  drain.phase = "root" => \A o \in Leaves \ Protected : Settled(o)

Sound == MemorySound /\ RetrySound /\ PassSound /\ RootPhaseSound

\* The namespace's deletion takes the resources out of the drain's hands.
DrainInv == ns = "active" => Sound

LEMMA QuietSound ==
  ASSUME Sound, UNCHANGED <<obj, drain>>,
         pc' = pc \/ pc' \notin {"neutralise", "redelete"}
  PROVE  Sound'
  BY DEF Sound, MemorySound, RetrySound, PassSound, RootPhaseSound, Settled,
         Drained

\* A drain that begins has nothing to remember.
LEMMA NoDrainSound ==
  ASSUME drain' = NoDrain, pc' \notin {"neutralise", "redelete"}
  PROVE  Sound'
  <1>1. /\ drain'.phase = "leaves" /\ drain'.left = PhaseObjs("leaves")
        /\ drain'.denied = {} /\ drain'.uid = [o \in Objs |-> "none"]
    BY NewPhaseType, BudgetAssumption DEF NoDrain
  <1>2. MemorySound'
    BY <1>1 DEF MemorySound
  <1>3. PassSound'
    BY <1>1 DEF PassSound, PhaseObjs
  <1>. QED BY <1>1, <1>2, <1>3 DEF Sound, RetrySound, RootPhaseSound

LEMMA RootPhaseStarts ==
  ASSUME TypeInv, drain' = NewPhase("root", drain.polls), pc' = "pass",
         UNCHANGED obj, \A o \in Leaves \ Protected : Settled(o)
  PROVE  Sound'
  <1>0. drain.polls \in 0 .. Budget
    BY DEF TypeInv, TypeOK, DrainType
  <1>1. /\ drain'.phase = "root" /\ drain'.left = PhaseObjs("root")
        /\ drain'.denied = {} /\ drain'.uid = [o \in Objs |-> "none"]
    BY <1>0, NewPhaseType
  <1>2. MemorySound'
    BY <1>1 DEF MemorySound
  <1>3. RootPhaseSound'
    BY DEF RootPhaseSound, Settled
  <1>. QED BY <1>1, <1>2, <1>3 DEF Sound, RetrySound, PassSound

LEMMA OperatorSound ==
  ASSUME TypeInv, Sound, Operator
  PROVE  Sound'
  <1>. USE DEF Sound, MemorySound, RetrySound, PassSound, RootPhaseSound,
               Settled, Drained
  <1>1. CASE WebhookChanges
    BY <1>1 DEF WebhookChanges
  <1>2. ASSUME NEW o \in Objs, Finalize(o) PROVE Sound'
    BY <1>2 DEF Finalize, TypeInv, TypeOK, Objs
  <1>3. ASSUME NEW o \in Objs, Recreate(o) PROVE Sound'
    <2>. DEFINE u == [drain.uid EXCEPT ![o] = IF @ = "none" THEN @ ELSE "older"]
    <2>1. /\ obj' = [obj EXCEPT ![o] = "live"] /\ o \in Remade
          /\ obj[o] = "absent" /\ pc' = pc
      BY <1>3 DEF Recreate
    <2>2. drain' = [drain EXCEPT !.uid = u]
      BY <1>3 DEF Recreate
    <2>3. \A p \in Objs : u[p] = IF p = o /\ drain.uid[o] # "none"
                                 THEN "older" ELSE drain.uid[p]
      BY DEF TypeInv, TypeOK, DrainType
    <2>. HIDE DEF u
    <2>4. /\ drain'.phase = drain.phase /\ drain'.left = drain.left
          /\ drain'.denied = drain.denied /\ drain'.cur = drain.cur
          /\ drain'.present = drain.present /\ drain'.unknown = drain.unknown
          /\ drain'.uid = u
      BY <2>2 DEF TypeInv, TypeOK, DrainType
    <2>5. /\ \A p \in Objs : obj'[p] = IF p = o THEN "live" ELSE obj[p]
          /\ drain.cur \in Objs
      BY <2>1 DEF TypeInv, TypeOK, DrainType
    <2>6. MemorySound'
      BY <2>1, <2>3, <2>4, <2>5
    <2>7. RetrySound'
      BY <2>1, <2>3, <2>4, <2>5
    <2>8. PassSound' /\ RootPhaseSound'
      BY <2>1, <2>4, <2>5 DEF Objs
    <2>. QED BY <2>6, <2>7, <2>8
  <1>. QED BY <1>1, <1>2, <1>3 DEF Operator

\* A resource that goes unmarked is one that has settled.
LEMMA NotedSound ==
  ASSUME TypeInv, Sound, NEW o \in Objs, UNCHANGED obj, pc' = "pass",
         drain' \in {[Seen(o) EXCEPT !.unknown = TRUE], Seen(o),
                     [Seen(o) EXCEPT !.present = TRUE],
                     [Seen(o) EXCEPT !.present = TRUE, !.marked = TRUE],
                     Refused(o)},
         Drained' => Settled(o)
  PROVE  Sound'
  <1>1. /\ SameDrain(drain', o)
        /\ drain'.denied = drain.denied /\ drain'.uid = drain.uid
        /\ (drain'.present \/ drain'.unknown \/ drain' = Seen(o))
    BY NotedType
  <1>2. MemorySound'
    BY <1>1 DEF Sound, MemorySound, SameDrain
  <1>3. PassSound'
    <2>1. drain' = Seen(o) => drain'.present = drain.present
                              /\ drain'.unknown = drain.unknown
      BY SeenType
    <2>. QED BY <1>1, <2>1 DEF Sound, PassSound, SameDrain, Settled, Drained
  <1>4. RootPhaseSound'
    BY <1>1 DEF Sound, RootPhaseSound, SameDrain, Settled
  <1>. QED BY <1>2, <1>3, <1>4 DEF Sound, RetrySound

\* A delete that is accepted marks a resource the pass has still to visit.
LEMMA DeletedSound ==
  ASSUME TypeInv, Sound, NEW o \in Objs, o \in drain.left, pc' = "pass",
         obj[o] = "live", Deleted(o)
  PROVE  Sound'
  <1>1. CASE Denies(o) /\ drain' = Denied(o) /\ UNCHANGED <<obj, idle>>
    <2>1. o \in Leaves /\ o \in Protected
      BY <1>1, SetsAssumption DEF Denies
    <2>2. /\ SameDrain(drain', o) /\ drain'.uid = drain.uid
          /\ drain'.denied = drain.denied \cup {o}
      BY <1>1, <2>1, DeniedType
    <2>3. drain'.present = drain.present /\ drain'.unknown = drain.unknown
      <3>. DEFINE d == Seen(o)
      <3>1. d \in DrainType
            /\ d.present = drain.present /\ d.unknown = drain.unknown
        BY SeenType DEF SameDrain
      <3>2. drain' = [d EXCEPT !.denied = @ \cup {o}]
        BY <1>1 DEF Denied
      <3>. HIDE DEF d
      <3>. QED BY <3>1, <3>2 DEF DrainType
    <2>4. MemorySound'
      BY <1>1, <2>1, <2>2 DEF Sound, MemorySound, SameDrain
    <2>5. PassSound' /\ RootPhaseSound'
      BY <1>1, <2>1, <2>2, <2>3
      DEF Sound, PassSound, RootPhaseSound, SameDrain, Settled, Drained
    <2>. QED BY <2>4, <2>5 DEF Sound, RetrySound
  <1>2. CASE Accepts(o) /\ Mark(o) /\ drain' = Accepted(o)
    <2>1. /\ SameDrain(drain', o) /\ drain'.present
          /\ drain'.denied = drain.denied
          /\ drain'.uid = [drain.uid EXCEPT ![o] = "this"]
      BY <1>2, AcceptedType
    <2>2. \A p \in Objs : drain'.uid[p] = IF p = o THEN "this" ELSE drain.uid[p]
      BY <2>1 DEF TypeInv, TypeOK, DrainType
    <2>3. obj'[o] # "live" /\ \A p \in Objs \ {o} : obj'[p] = obj[p]
      BY <1>2 DEF Mark, Marked, TypeInv, TypeOK
    <2>4. MemorySound'
      BY <2>1, <2>2, <2>3 DEF Sound, MemorySound, SameDrain
    <2>5. PassSound'
      BY <2>1 DEF PassSound, Drained
    <2>6. RootPhaseSound'
      <3>1. SUFFICES ASSUME drain.phase = "root", NEW p \in Leaves \ Protected
                     PROVE  Settled(p)'
        BY <2>1 DEF RootPhaseSound, SameDrain
      <3>2. o = Root
        BY <3>1 DEF Sound, MemorySound, PhaseObjs
      <3>. QED BY <2>3, <3>1, <3>2, SetsAssumption
               DEF Sound, RootPhaseSound, Settled, Objs
    <2>. QED BY <2>4, <2>5, <2>6 DEF Sound, RetrySound
  <1>. QED BY <1>1, <1>2 DEF Deleted

\* A resource that is noted is one to wait for.
LEMMA FlaggedType ==
  ASSUME TypeInv, NEW o \in Objs,
         drain' \in {[Seen(o) EXCEPT !.unknown = TRUE],
                     [Seen(o) EXCEPT !.present = TRUE],
                     [Seen(o) EXCEPT !.present = TRUE, !.marked = TRUE],
                     Refused(o)}
  PROVE  ~Drained'
  <1>. DEFINE d == Seen(o)
  <1>1. d \in DrainType
    BY SeenType DEF SameDrain
  <1>2. drain' \in {[d EXCEPT !.unknown = TRUE], [d EXCEPT !.present = TRUE],
                    [d EXCEPT !.present = TRUE, !.marked = TRUE],
                    [d EXCEPT !.present = TRUE, !.refused = TRUE]}
    BY DEF Refused
  <1>. HIDE DEF d
  <1>. QED BY <1>1, <1>2 DEF DrainType, Drained

LEMMA VisitSound ==
  ASSUME TypeInv, Sound, NEW o \in Objs, Visit(o)
  PROVE  Sound'
  <1>0. pc = "pass" /\ o \in drain.left
    BY DEF Visit
  <1>1. CASE /\ drain' \in {[Seen(o) EXCEPT !.unknown = TRUE],
                            [Seen(o) EXCEPT !.present = TRUE, !.marked = TRUE],
                            Refused(o)}
             /\ UNCHANGED <<obj, idle, pc>>
    BY <1>0, <1>1, FlaggedType, NotedSound
  <1>2. CASE /\ obj[o] = "absent" \/ drain.uid[o] = "older"
             /\ drain' = Seen(o) /\ UNCHANGED <<obj, idle, pc>>
    <2>1. Settled(o)
      BY <1>2 DEF Sound, MemorySound, Settled
    <2>. QED BY <1>0, <1>2, <2>1, NotedSound
  <1>3. CASE obj[o] = "live" /\ Deleted(o) /\ UNCHANGED pc
    BY <1>0, <1>3, DeletedSound
  <1>4. CASE /\ obj[o] = "live" /\ drain.uid[o] # "older"
             /\ drain' = [drain EXCEPT !.cur = o]
             /\ pc' = "neutralise" /\ UNCHANGED <<obj, idle>>
    <2>1. /\ drain'.cur = o /\ drain'.phase = drain.phase
          /\ drain'.left = drain.left /\ drain'.uid = drain.uid
          /\ drain'.denied = drain.denied /\ drain'.present = drain.present
          /\ drain'.unknown = drain.unknown
      BY <1>4 DEF TypeInv, TypeOK, DrainType
    <2>2. drain.uid[o] = "none"
      BY <1>4 DEF Sound, MemorySound, TypeInv, TypeOK, DrainType
    <2>. QED BY <1>0, <1>4, <2>1, <2>2
             DEF Sound, MemorySound, RetrySound, PassSound, RootPhaseSound,
                 Settled, Drained
  <1>. QED BY <1>1, <1>2, <1>3, <1>4 DEF Visit

LEMMA RedeleteSound ==
  ASSUME TypeInv, Sound, Redelete
  PROVE  Sound'
  <1>. DEFINE o == drain.cur
  <1>0. /\ o \in Objs /\ o \in drain.left /\ obj[o] = "live" /\ pc' = "pass"
    BY DEF Redelete, Sound, RetrySound, TypeInv, TypeOK, DrainType
  <1>1. CASE drain' = Refused(o) /\ UNCHANGED <<obj, idle>>
    BY <1>0, <1>1, FlaggedType, NotedSound
  <1>2. CASE Deleted(o)
    BY <1>0, <1>2, DeletedSound
  <1>. QED BY <1>0, <1>1, <1>2 DEF Redelete

\* Both ways into the root phase have found the leaves settled.
LEMMA PhaseEndsSound ==
  ASSUME TypeInv, Sound, PhaseDrained \/ Deadline
  PROVE  Sound'
  <1>0. pc = "pass" /\ drain.left = {} /\ UNCHANGED obj
    BY DEF PhaseDrained, Deadline, PassOver, cluster
  <1>1. CASE EndDrain
    BY <1>1, NoDrainSound DEF EndDrain
  <1>2. CASE ~EndDrain
    <2>1. /\ drain.phase = "leaves" /\ drain' = NewPhase("root", drain.polls)
          /\ pc' = "pass" /\ (Drained \/ Remaining = {})
      BY <1>0, <1>2 DEF PhaseDrained, Deadline, NextPhase
    <2>2. ASSUME NEW o \in Leaves \ Protected
          PROVE  Settled(o)
      <3>1. CASE Drained
        BY <1>0, <2>1, <3>1 DEF Sound, PassSound
      <3>2. CASE Remaining = {}
        BY <2>1, <3>2 DEF Remaining, PhaseObjs, Settled, Sound, MemorySound
      <3>. QED BY <2>1, <3>1, <3>2
    <2>. QED BY <1>0, <2>1, <2>2, RootPhaseStarts
  <1>. QED BY <1>1, <1>2

LEMMA PollSound ==
  ASSUME TypeInv, Sound, Poll
  PROVE  Sound'
  <1>1. pc = "pass" /\ pc' = pc /\ UNCHANGED obj
    BY DEF Poll, PassOver, cluster
  <1>2. PassSound'
    BY PollType DEF PassSound, PhaseObjs
  <1>. QED BY <1>1, <1>2, PollType
           DEF Sound, MemorySound, RetrySound, RootPhaseSound, Settled

LEMMA DrainSound ==
  ASSUME TypeInv, Sound, Drain
  PROVE  Sound'
  <1>. USE DEF cluster
  <1>1. CASE StartDrain
    BY <1>1, QuietSound, NoDrainSound DEF StartDrain, EndDrain
  <1>2. CASE Neutralise
    BY <1>2
    DEF Neutralise, Sound, MemorySound, RetrySound, PassSound, RootPhaseSound,
        Settled, Drained
  <1>3. CASE Redelete
    BY <1>3, RedeleteSound
  <1>4. CASE PhaseDrained \/ Deadline
    BY <1>4, PhaseEndsSound
  <1>5. CASE GiveUp
    BY <1>5, NoDrainSound DEF GiveUp, EndDrain
  <1>6. CASE Poll
    BY <1>6, PollSound
  <1>7. ASSUME NEW o \in Objs, Visit(o) PROVE Sound'
    BY <1>7, VisitSound
  <1>. QED BY <1>1, <1>2, <1>3, <1>4, <1>5, <1>6, <1>7 DEF Drain

\* Terraform marks the root and no leaf, as long as the namespace is there.
LEMMA TerraformSound ==
  ASSUME TypeInv, Sound, Terraform, ns = "active"
  PROVE  Sound'
  <1>. USE DEF cluster, terraform, Destroy
  <1>1. CASE DestroyRoot
    <2>1. drain' = drain /\ pc' = "operator"
      BY <1>1 DEF DestroyRoot
    <2>2. /\ \A o \in Leaves : obj'[o] = obj[o]
          /\ obj'[Root] = obj[Root] \/ obj'[Root] # "live"
      BY <1>1, SetsAssumption
      DEF DestroyRoot, Mark, Marked, TypeInv, TypeOK, Objs
    <2>3. drain.uid[Root] # "older"
      BY SetsAssumption DEF Sound, MemorySound, Objs
    <2>4. MemorySound'
      BY <2>1, <2>2, <2>3 DEF Sound, MemorySound, Objs
    <2>. QED BY <2>1, <2>2, <2>4
             DEF Sound, RetrySound, PassSound, RootPhaseSound, Settled, Drained
  <1>2. CASE Free
    BY <1>2 DEF Free, FreeNamespace
  <1>3. CASE NoVariables \/ DestroyOperator \/ DestroyNamespace \/ Destroyed
             \/ RetryDestroy
    BY <1>3, QuietSound
    DEF NoVariables, DestroyOperator, DestroyNamespace, Destroyed, RetryDestroy
  <1>4. CASE DestroyFails \/ Freed \/ NotFreed
    BY <1>4, QuietSound DEF DestroyFails, Freed, NotFreed
  <1>. QED BY <1>1, <1>2, <1>3, <1>4 DEF Terraform

\* Nothing takes the namespace back from its deletion.
LEMMA StaysActive == [Next]_vars /\ ns' = "active" => ns = "active"
  <1>. SUFFICES ASSUME [Next]_vars, ns' = "active" PROVE ns = "active"
    OBVIOUS
  <1>. USE DEF cluster, terraform
  <1>1. CASE Terraform
    BY <1>1
    DEF Terraform, NoVariables, DestroyRoot, DestroyOperator,
        DestroyNamespace, Destroyed, RetryDestroy, DestroyFails, Free,
        FreeNamespace, ClearFinalizers, Freed, NotFreed, Destroy
  <1>2. CASE Drain
    BY <1>2, DrainFrame
  <1>3. CASE StartSweep \/ StopSweep \/ Return \/ Rerun \/ Sweeper
    BY <1>3 DEF StartSweep, StopSweep, Return, Rerun, Sweeper, Tick, Sweep,
                SweepEnds
  <1>4. CASE Operator \/ NamespaceController
    BY <1>4 DEF Operator, WebhookChanges, Finalize, Recreate,
                NamespaceController, NamespaceGoes, DeleteContent
  <1>. QED BY <1>1, <1>2, <1>3, <1>4 DEF Next, RunTrialDown, vars

LEMMA DrainInvInit == Init => DrainInv
  <1>1. ASSUME Init PROVE Sound
    <2>1. /\ drain.phase = "leaves" /\ drain.left = PhaseObjs("leaves")
          /\ drain.denied = {} /\ drain.uid = [o \in Objs |-> "none"]
      BY <1>1, NewPhaseType, BudgetAssumption DEF Init, NoDrain
    <2>. QED BY <1>1, <2>1
             DEF Init, Sound, MemorySound, RetrySound, PassSound,
                 RootPhaseSound, PhaseObjs
  <1>. QED BY <1>1 DEF DrainInv

LEMMA DrainInvStep == TypeInv /\ DrainInv /\ [Next]_vars => DrainInv'
  <1>. SUFFICES ASSUME TypeInv, DrainInv, [Next]_vars, ns' = "active"
                PROVE  Sound'
    BY DEF DrainInv
  <1>. USE DEF cluster, terraform
  <1>1. ns = "active"
    BY StaysActive
  <1>2. Sound
    BY <1>1 DEF DrainInv
  <1>3. CASE UNCHANGED vars
    BY <1>2, <1>3, QuietSound DEF vars
  <1>4. CASE Drain
    BY <1>2, <1>4, DrainSound
  <1>5. CASE Terraform
    BY <1>1, <1>2, <1>5, TerraformSound
  <1>6. CASE Operator
    BY <1>2, <1>6, OperatorSound
  <1>7. CASE NamespaceController
    BY <1>1, <1>7 DEF NamespaceController, NamespaceGoes, DeleteContent
  <1>8. CASE StartSweep \/ StopSweep \/ Return \/ Rerun \/ Sweeper
    BY <1>2, <1>8, QuietSound
    DEF StartSweep, StopSweep, Return, Rerun, Sweeper, Tick, Sweep, SweepEnds
  <1>. QED BY <1>3, <1>4, <1>5, <1>6, <1>7, <1>8 DEF Next, RunTrialDown

\* Of all the steps only a pass deletes, and it deletes the root only once the
\* leaf phase is over.
LEMMA RootStep ==
  ASSUME TypeInv, DrainInv, [Next]_vars, DrainDeletes(Root)
  PROVE  \A o \in Leaves \ Protected :
           obj[o] = "absent" \/ (obj[o] = "live" /\ o \in Remade)
  <1>0. /\ ns = "active" /\ pc \in {"pass", "redelete"}
        /\ obj[Root] = "live" /\ obj'[Root] # "live"
    BY DEF DrainDeletes
  <1>1. Sound
    BY <1>0 DEF DrainInv
  <1>. USE DEF cluster, terraform
  <1>2. Root \in drain.left
    <2>1. ASSUME NEW o \in Objs, Deleted(o), o \in drain.left
          PROVE  Root \in drain.left
      BY <1>0, <2>1 DEF Deleted, Mark, TypeInv, TypeOK, Objs
    <2>2. CASE Drain
      <3>1. ASSUME NEW o \in Objs, Visit(o) PROVE Root \in drain.left
        BY <1>0, <2>1, <3>1 DEF Visit
      <3>2. CASE Redelete
        BY <1>0, <1>1, <2>1, <3>2
        DEF Redelete, Sound, RetrySound, TypeInv, TypeOK, DrainType
      <3>. QED BY <1>0, <2>2, <3>1, <3>2
               DEF Drain, StartDrain, Neutralise, PhaseDrained, GiveUp,
                   Deadline, Poll
    <2>3. CASE Terraform
      BY <1>0, <2>3
      DEF Terraform, NoVariables, DestroyRoot, DestroyOperator,
          DestroyNamespace, Destroyed, RetryDestroy, DestroyFails, Free,
          FreeNamespace, Freed, NotFreed
    <2>4. CASE Operator
      BY <1>0, <2>4
      DEF Operator, WebhookChanges, Finalize, Recreate, TypeInv, TypeOK, Objs
    <2>5. CASE NamespaceController
      BY <1>0, <2>5 DEF NamespaceController, NamespaceGoes, DeleteContent
    <2>6. CASE StartSweep \/ StopSweep \/ Return \/ Rerun \/ Sweeper
      BY <1>0, <2>6
      DEF StartSweep, StopSweep, Return, Rerun, Sweeper, Tick, Sweep, SweepEnds
    <2>. QED BY <1>0, <2>2, <2>3, <2>4, <2>5, <2>6 DEF Next, RunTrialDown, vars
  <1>3. drain.phase = "root"
    BY <1>1, <1>2, SetsAssumption
    DEF Sound, MemorySound, PhaseObjs, TypeInv, TypeOK, DrainType
  <1>. QED BY <1>1, <1>3 DEF Sound, RootPhaseSound, Settled

\* The drain deletes the root only when every leaf it may delete has gone or
\* been put back, whatever the resources and however long they take.
THEOREM RootWaits == Spec => RootAfterLeaves
  <1>1. TypeInv /\ DrainInv /\ [Next]_vars =>
          [DrainDeletes(Root) =>
             \A o \in Leaves \ Protected :
               obj[o] = "absent" \/ (obj[o] = "live" /\ o \in Remade)]_vars
    BY RootStep
  <1>. QED BY <1>1, DrainInvInit, InitType, TypeStep, DrainInvStep, PTL
           DEF Spec, RootAfterLeaves

-----------------------------------------------------------------------------
(* The invariant behind giving up.                                         *)

\* No resource was seen to go or to be on its way since the pass began.
Untouched == ~drain.accepted /\ ~drain.marked /\ ~drain.unknown

\* The resources an untouched pass has visited wait for nothing.
NoneWaits ==
  Untouched => \A o \in PhaseObjs(drain.phase) \ drain.left : obj[o] # "deleting"

\* Nor does any that the drain still has to visit, once a pass has stalled, so
\* nothing has happened to one for as long as the passes have.
LongStalled ==
  Untouched /\ drain.refusing > 0 =>
    /\ \A o \in PhaseObjs(drain.phase) : obj[o] # "deleting"
    /\ idle = Grace \/ idle >= drain.refusing

\* A pass that finds nothing to wait for has found nothing there.
NoneLeft ==
  Drained => \A o \in PhaseObjs(drain.phase) \ (Remade \cup Protected) :
               o \in drain.left \/ obj[o] = "absent"

InDrain == pc \in {"pass", "neutralise", "redelete"}

\* Outside the drain its memory is that of one that has seen nothing.
Unused == drain.refusing = 0 /\ drain.left = PhaseObjs(drain.phase)

Evidence == NoneWaits /\ LongStalled /\ NoneLeft

EvidenceInv == ns = "active" => Evidence /\ (InDrain \/ Unused)

LEMMA QuietEvidence ==
  ASSUME Evidence, InDrain \/ Unused, UNCHANGED <<obj, drain, idle>>,
         InDrain => InDrain'
  PROVE  Evidence' /\ (InDrain' \/ Unused')
  BY DEF Evidence, NoneWaits, LongStalled, NoneLeft, Untouched, Drained, Unused

\* A drain that begins has seen nothing.
LEMMA NewPhaseEvidence ==
  ASSUME TypeInv, NEW phase \in {"leaves", "root"}, NEW polls \in 0 .. Budget,
         drain' = NewPhase(phase, polls)
  PROVE  Evidence' /\ Unused'
  <1>1. /\ drain'.phase = phase /\ drain'.left = PhaseObjs(phase)
        /\ drain'.refusing = 0
    BY NewPhaseType
  <1>. QED BY <1>1 DEF Evidence, NoneWaits, LongStalled, NoneLeft, Unused

LEMMA NoDrainEvidence ==
  ASSUME TypeInv, drain' = NoDrain
  PROVE  Evidence' /\ Unused'
  BY NewPhaseEvidence, BudgetAssumption DEF NoDrain

\* What Seen and Denied leave as it is.
LEMMA SeenSame ==
  ASSUME TypeInv, NEW o \in Objs, drain' \in {Seen(o), Denied(o)}
  PROVE  /\ drain'.accepted = drain.accepted /\ drain'.marked = drain.marked
         /\ drain'.unknown = drain.unknown /\ drain'.present = drain.present
  <1>. DEFINE d == Seen(o)
  <1>1. /\ d \in DrainType
        /\ d.accepted = drain.accepted /\ d.marked = drain.marked
        /\ d.unknown = drain.unknown /\ d.present = drain.present
    BY DEF TypeInv, TypeOK, DrainType, Seen, Objs
  <1>2. drain' \in {d, [d EXCEPT !.denied = d.denied \cup {o}]}
    BY DEF Denied
  <1>. HIDE DEF d
  <1>. QED BY <1>1, <1>2 DEF DrainType

\* A resource that is found there ends the hope that none is.
LEMMA PresentSame ==
  ASSUME TypeInv, NEW o \in Objs,
         drain' \in {[Seen(o) EXCEPT !.present = TRUE], Refused(o)}
  PROVE  /\ drain'.accepted = drain.accepted /\ drain'.marked = drain.marked
         /\ drain'.unknown = drain.unknown /\ drain'.present
  <1>. DEFINE d == Seen(o)
  <1>1. d \in DrainType
        /\ d.accepted = drain.accepted /\ d.marked = drain.marked
        /\ d.unknown = drain.unknown
    BY DEF TypeInv, TypeOK, DrainType, Seen, Objs
  <1>2. drain' \in {[d EXCEPT !.present = TRUE],
                    [d EXCEPT !.present = TRUE, !.refused = TRUE]}
    BY DEF Refused
  <1>. HIDE DEF d
  <1>. QED BY <1>1, <1>2 DEF DrainType

\* A delete that is accepted, a mark that is found and a list that fails are
\* noted.
LEMMA TouchedSays ==
  ASSUME TypeInv, NEW o \in Objs,
         drain' \in {[Seen(o) EXCEPT !.unknown = TRUE], Accepted(o),
                     [Seen(o) EXCEPT !.present = TRUE, !.marked = TRUE]}
  PROVE  ~Untouched' /\ ~Drained'
  <1>. DEFINE d == Seen(o)
              u == [d.uid EXCEPT ![o] = "this"]
  <1>1. d \in DrainType
    BY SeenType DEF SameDrain
  <1>2. drain' \in {[d EXCEPT !.unknown = TRUE],
                    [d EXCEPT !.present = TRUE, !.accepted = TRUE, !.uid = u],
                    [d EXCEPT !.present = TRUE, !.marked = TRUE]}
    BY DEF Accepted
  <1>. HIDE DEF d, u
  <1>. QED BY <1>1, <1>2 DEF DrainType, Drained, Untouched

\* A resource that does not wait is visited, and may be skipped.
LEMMA VisitedEvidence ==
  ASSUME TypeInv, Evidence, NEW o \in Objs, UNCHANGED <<obj, idle>>,
         SameDrain(drain', o), obj[o] # "deleting",
         Untouched' => Untouched,
         Drained' => /\ Drained
                     /\ obj[o] = "absent" \/ o \in Remade \cup Protected
  PROVE  Evidence'
  <1>1. /\ drain'.phase = drain.phase /\ drain'.left = drain.left \ {o}
        /\ drain'.refusing = drain.refusing
    BY DEF SameDrain
  <1>2. NoneWaits'
    BY <1>1 DEF Evidence, NoneWaits
  <1>3. LongStalled'
    BY <1>1 DEF Evidence, LongStalled
  <1>4. NoneLeft'
    BY <1>1 DEF Evidence, NoneLeft
  <1>. QED BY <1>2, <1>3, <1>4 DEF Evidence

LEMMA TouchedEvidence ==
  ASSUME ~Untouched', ~Drained'
  PROVE  Evidence'
  BY DEF Evidence, NoneWaits, LongStalled, NoneLeft

LEMMA DeletedEvidence ==
  ASSUME TypeInv, Evidence, NEW o \in Objs, obj[o] = "live", Deleted(o)
  PROVE  Evidence'
  <1>1. CASE Denies(o) /\ drain' = Denied(o) /\ UNCHANGED <<obj, idle>>
    <2>1. o \in Leaves /\ o \in Protected
      BY <1>1, SetsAssumption DEF Denies
    <2>2. SameDrain(drain', o)
      BY <1>1, <2>1, DeniedType
    <2>3. (Untouched' => Untouched) /\ (Drained' => Drained)
      BY <1>1, SeenSame DEF Untouched, Drained
    <2>. QED BY <1>1, <2>1, <2>2, <2>3, VisitedEvidence
  <1>2. CASE Accepts(o) /\ Mark(o) /\ drain' = Accepted(o)
    BY <1>2, TouchedSays, TouchedEvidence
  <1>. QED BY <1>1, <1>2 DEF Deleted

LEMMA RefusedEvidence ==
  ASSUME TypeInv, Evidence, NEW o \in Objs, obj[o] # "deleting",
         drain' = Refused(o), UNCHANGED <<obj, idle>>
  PROVE  Evidence'
  <1>1. SameDrain(drain', o)
    BY NotedType
  <1>2. (Untouched' => Untouched) /\ ~Drained'
    BY PresentSame DEF Untouched, Drained
  <1>. QED BY <1>1, <1>2, VisitedEvidence

\* An object that is younger than the accepted delete is live, and one that a
\* controller remakes.
LEMMA VisitEvidence ==
  ASSUME TypeInv, MemorySound, Evidence, NEW o \in Objs, Visit(o)
  PROVE  Evidence' /\ InDrain'
  <1>0. pc' \in {pc, "neutralise"} /\ pc = "pass"
    BY DEF Visit
  <1>1. CASE drain' \in {[Seen(o) EXCEPT !.unknown = TRUE],
                         [Seen(o) EXCEPT !.present = TRUE, !.marked = TRUE]}
    BY <1>0, <1>1, TouchedSays, TouchedEvidence DEF InDrain
  <1>2. CASE /\ obj[o] = "absent" \/ drain.uid[o] = "older"
             /\ drain' = Seen(o) /\ UNCHANGED <<obj, idle, pc>>
    <2>1. obj[o] # "deleting" /\ (obj[o] = "absent" \/ o \in Remade)
      BY <1>2 DEF MemorySound
    <2>2. SameDrain(drain', o)
      BY <1>2, SeenType
    <2>3. (Untouched' => Untouched) /\ (Drained' => Drained)
      BY <1>2, SeenSame DEF Untouched, Drained
    <2>. QED BY <1>0, <1>2, <2>1, <2>2, <2>3, VisitedEvidence DEF InDrain
  <1>3. CASE obj[o] = "live" /\ Deleted(o) /\ UNCHANGED pc
    BY <1>0, <1>3, DeletedEvidence DEF InDrain
  <1>4. CASE obj[o] = "live" /\ drain' = Refused(o) /\ UNCHANGED <<obj, idle, pc>>
    BY <1>0, <1>4, RefusedEvidence DEF InDrain
  <1>5. CASE /\ drain' = [drain EXCEPT !.cur = o]
             /\ pc' = "neutralise" /\ UNCHANGED <<obj, idle>>
    <2>1. /\ drain'.phase = drain.phase /\ drain'.left = drain.left
          /\ drain'.refusing = drain.refusing
          /\ drain'.accepted = drain.accepted /\ drain'.marked = drain.marked
          /\ drain'.unknown = drain.unknown /\ drain'.present = drain.present
      BY <1>5 DEF TypeInv, TypeOK, DrainType
    <2>. QED BY <1>5, <2>1
             DEF Evidence, NoneWaits, LongStalled, NoneLeft, Untouched,
                 Drained, InDrain
  <1>. QED BY <1>1, <1>2, <1>3, <1>4, <1>5 DEF Visit

LEMMA RedeleteEvidence ==
  ASSUME TypeInv, RetrySound, Evidence, Redelete
  PROVE  Evidence' /\ InDrain'
  <1>. DEFINE o == drain.cur
  <1>0. /\ o \in Objs /\ obj[o] = "live" /\ pc' = "pass"
    BY DEF Redelete, RetrySound, TypeInv, TypeOK, DrainType
  <1>1. CASE drain' = Refused(o) /\ UNCHANGED <<obj, idle>>
    BY <1>0, <1>1, RefusedEvidence DEF InDrain
  <1>2. CASE Deleted(o)
    BY <1>0, <1>2, DeletedEvidence DEF InDrain
  <1>. QED BY <1>0, <1>1, <1>2 DEF Redelete

\* A stalled pass counts as one more, and none that it visited waits.
LEMMA PollEvidence ==
  ASSUME TypeInv, Evidence, Poll
  PROVE  Evidence' /\ InDrain'
  <1>1. /\ drain'.phase = drain.phase /\ drain'.left = PhaseObjs(drain.phase)
        /\ drain.left = {} /\ UNCHANGED <<obj, pc>> /\ pc = "pass"
        /\ idle' = Later(idle) /\ idle \in 0 .. Grace
    BY PollType DEF Poll, PassOver, cluster, TypeInv, TypeOK
  <1>2. drain'.refusing = IF Stalled THEN drain.refusing + 1 ELSE 0
    <2>. DEFINE p == drain.polls + 1
                r == IF Stalled THEN drain.refusing + 1 ELSE 0
                d == [drain EXCEPT !.polls = p, !.refusing = r]
    <2>1. drain' = Pass(d)
      BY DEF Poll
    <2>2. /\ drain \in DrainType /\ drain.refusing <= drain.polls
          /\ drain.polls # Budget
      BY DEF Poll, Expired, TypeInv, TypeOK
    <2>3. p \in 0 .. Budget /\ r \in 0 .. Budget
      BY <2>2, BudgetAssumption DEF DrainType
    <2>. HIDE DEF p, r
    <2>4. d \in DrainType /\ d.refusing = r
      BY <2>2, <2>3 DEF DrainType
    <2>. HIDE DEF d
    <2>. QED BY <2>1, <2>4, PassType DEF r
  <1>3. NoneWaits' /\ NoneLeft'
    BY <1>1 DEF NoneWaits, NoneLeft
  <1>4. LongStalled'
    <2>1. CASE ~Stalled
      BY <1>2, <2>1 DEF LongStalled
    <2>2. CASE Stalled
      <3>1. Untouched /\ \A o \in PhaseObjs(drain.phase) : obj[o] # "deleting"
        BY <1>1, <2>2 DEF Stalled, Untouched, Evidence, NoneWaits
      <3>2. drain.refusing \in Nat /\ Grace \in Nat
        BY BudgetAssumption DEF TypeInv, TypeOK, DrainType
      <3>3. idle = Grace \/ idle >= drain.refusing
        BY <1>1, <3>1, <3>2 DEF Evidence, LongStalled
      <3>4. idle' = Grace \/ idle' >= drain'.refusing
        BY <1>1, <1>2, <2>2, <3>2, <3>3 DEF Later
      <3>. QED BY <1>1, <3>1, <3>4 DEF LongStalled
    <2>. QED BY <2>1, <2>2
  <1>. QED BY <1>1, <1>3, <1>4 DEF Evidence, InDrain

LEMMA NextPhaseEvidence ==
  ASSUME TypeInv, NextPhase, pc = "pass"
  PROVE  Evidence' /\ (InDrain' \/ Unused')
  <1>1. drain.polls \in 0 .. Budget
    BY DEF TypeInv, TypeOK, DrainType
  <1>. QED BY <1>1, NewPhaseEvidence, NoDrainEvidence DEF NextPhase, EndDrain

LEMMA DrainEvidence ==
  ASSUME TypeInv, Sound, Evidence, InDrain \/ Unused, Drain
  PROVE  Evidence' /\ (InDrain' \/ Unused')
  <1>. USE DEF cluster
  <1>1. CASE StartDrain
    BY <1>1, QuietEvidence, NoDrainEvidence DEF StartDrain, EndDrain, InDrain
  <1>2. CASE Neutralise
    BY <1>2, QuietEvidence DEF Neutralise, InDrain
  <1>3. CASE Redelete
    BY <1>3, RedeleteEvidence DEF Sound
  <1>4. CASE PhaseDrained \/ Deadline
    BY <1>4, NextPhaseEvidence, NoDrainEvidence
    DEF PhaseDrained, Deadline, PassOver, EndDrain
  <1>5. CASE GiveUp
    BY <1>5, NoDrainEvidence DEF GiveUp, EndDrain
  <1>6. CASE Poll
    BY <1>6, PollEvidence
  <1>7. ASSUME NEW o \in Objs, Visit(o) PROVE Evidence' /\ InDrain'
    BY <1>7, VisitEvidence DEF Sound
  <1>. QED BY <1>1, <1>2, <1>3, <1>4, <1>5, <1>6, <1>7 DEF Drain

\* The operator finalizes only what waits, and creates what it remakes.
LEMMA OperatorEvidence ==
  ASSUME TypeInv, Evidence, Operator
  PROVE  Evidence' /\ (InDrain \/ Unused => InDrain' \/ Unused')
  <1>. USE DEF Evidence, NoneWaits, LongStalled, NoneLeft, Untouched, Drained,
               InDrain, Unused
  <1>1. CASE WebhookChanges
    BY <1>1 DEF WebhookChanges
  <1>2. ASSUME NEW o \in Objs, Finalize(o)
        PROVE  Evidence' /\ (InDrain \/ Unused => InDrain' \/ Unused')
    <2>1. /\ \A p \in Objs : obj'[p] = IF p = o THEN "absent" ELSE obj[p]
          /\ obj[o] = "deleting" /\ drain' = drain /\ pc' = pc
          /\ o \in PhaseObjs(drain.phase) \/ idle' = idle
          /\ PhaseObjs(drain.phase) \subseteq Objs
      BY <1>2 DEF Finalize, Stirs, TypeInv, TypeOK, PhaseObjs, Objs
    <2>2. NoneWaits' /\ NoneLeft'
      BY <2>1
    <2>3. LongStalled'
      BY <2>1
    <2>. QED BY <2>1, <2>2, <2>3
  <1>3. ASSUME NEW o \in Objs, Recreate(o)
        PROVE  Evidence' /\ (InDrain \/ Unused => InDrain' \/ Unused')
    <2>. DEFINE u == [drain.uid EXCEPT ![o] = IF @ = "none" THEN @ ELSE "older"]
    <2>1. /\ \A p \in Objs : obj'[p] = IF p = o THEN "live" ELSE obj[p]
          /\ o \in Remade /\ pc' = pc /\ idle' = idle
          /\ PhaseObjs(drain.phase) \subseteq Objs
      BY <1>3 DEF Recreate, TypeInv, TypeOK, PhaseObjs, Objs
    <2>2. drain' = [drain EXCEPT !.uid = u]
      BY <1>3 DEF Recreate
    <2>. HIDE DEF u
    <2>3. /\ drain'.phase = drain.phase /\ drain'.left = drain.left
          /\ drain'.refusing = drain.refusing
          /\ drain'.accepted = drain.accepted /\ drain'.marked = drain.marked
          /\ drain'.unknown = drain.unknown /\ drain'.present = drain.present
      BY <2>2 DEF TypeInv, TypeOK, DrainType
    <2>4. NoneWaits' /\ NoneLeft'
      BY <2>1, <2>3
    <2>5. LongStalled'
      BY <2>1, <2>3
    <2>. QED BY <2>1, <2>3, <2>4, <2>5
  <1>. QED BY <1>1, <1>2, <1>3 DEF Operator

\* Terraform finds the drain's memory unused, and leaves it alone.
LEMMA TerraformEvidence ==
  ASSUME TypeInv, Evidence, InDrain \/ Unused, Terraform, ns = "active"
  PROVE  Evidence' /\ Unused'
  <1>. USE DEF cluster, terraform, Destroy
  <1>1. drain' = drain /\ ~InDrain
    <2>1. CASE NoVariables \/ DestroyRoot \/ DestroyOperator
               \/ DestroyNamespace \/ Destroyed
      BY <2>1 DEF NoVariables, DestroyRoot, DestroyOperator, DestroyNamespace,
                  Destroyed, InDrain
    <2>2. CASE RetryDestroy \/ DestroyFails \/ Freed \/ NotFreed
      BY <2>2 DEF RetryDestroy, DestroyFails, Freed, NotFreed, InDrain
    <2>3. CASE Free
      BY <2>3 DEF Free, FreeNamespace
    <2>. QED BY <2>1, <2>2, <2>3 DEF Terraform
  <1>2. Unused'
    BY <1>1 DEF Unused
  <1>. QED BY <1>2 DEF Unused, Evidence, NoneWaits, LongStalled, NoneLeft

LEMMA EvidenceInvStep ==
  TypeInv /\ DrainInv /\ EvidenceInv /\ [Next]_vars => EvidenceInv'
  <1>. SUFFICES ASSUME TypeInv, DrainInv, EvidenceInv, [Next]_vars, ns' = "active"
                PROVE  Evidence' /\ (InDrain' \/ Unused')
    BY DEF EvidenceInv
  <1>. USE DEF cluster, terraform
  <1>1. ns = "active"
    BY StaysActive
  <1>2. Sound /\ Evidence /\ (InDrain \/ Unused)
    BY <1>1 DEF DrainInv, EvidenceInv
  <1>3. CASE UNCHANGED vars
    BY <1>2, <1>3, QuietEvidence DEF vars, InDrain
  <1>4. CASE Drain
    BY <1>2, <1>4, DrainEvidence
  <1>5. CASE Terraform
    BY <1>1, <1>2, <1>5, TerraformEvidence
  <1>6. CASE Operator
    BY <1>2, <1>6, OperatorEvidence
  <1>7. CASE NamespaceController
    BY <1>1, <1>7 DEF NamespaceController, NamespaceGoes, DeleteContent
  <1>8. CASE StartSweep \/ StopSweep \/ Return \/ Rerun \/ Sweeper
    BY <1>2, <1>8, QuietEvidence
    DEF StartSweep, StopSweep, Return, Rerun, Sweeper, Tick, Sweep, SweepEnds,
        InDrain
  <1>. QED BY <1>3, <1>4, <1>5, <1>6, <1>7, <1>8 DEF Next, RunTrialDown

\* A drain that ends before its deadline with something still there has given
\* up, after as many stalled passes as the grace period has polls.
LEMMA GiveUpStep ==
  ASSUME TypeInv, EvidenceInv, [Next]_vars, ns = "active", pc = "pass",
         pc' = "destroy", drain.polls < Budget,
         NEW o \in PhaseObjs(drain.phase) \ (Remade \cup Protected),
         obj[o] # "absent"
  PROVE  idle = Grace
  <1>. USE DEF cluster, terraform
  <1>0. /\ drain.refusing \in Nat /\ Grace \in Nat /\ Budget \in Nat
        /\ idle \in 0 .. Grace /\ drain.polls \in Nat
    BY BudgetAssumption DEF TypeInv, TypeOK, DrainType
  <1>1. Evidence
    BY DEF EvidenceInv
  <1>2. CASE PhaseDrained
    BY <1>1, <1>2 DEF PhaseDrained, PassOver, Evidence, NoneLeft
  <1>3. CASE Deadline
    BY <1>0, <1>3 DEF Deadline, Expired
  <1>4. CASE GiveUp
    <2>1. Untouched /\ drain.refusing >= Grace
      BY <1>4 DEF GiveUp, GivesUp, Stalled, Untouched
    <2>2. CASE drain.refusing = 0
      BY <1>0, <2>1, <2>2
    <2>3. CASE drain.refusing > 0
      BY <1>0, <1>1, <2>1, <2>3 DEF Evidence, LongStalled
    <2>. QED BY <1>0, <2>2, <2>3
  <1>5. CASE StartDrain \/ Neutralise \/ Redelete \/ Poll
             \/ \E p \in Objs : Visit(p)
    BY <1>5 DEF StartDrain, Neutralise, Redelete, Poll, Visit
  <1>6. CASE Terraform
    BY <1>6
    DEF Terraform, NoVariables, DestroyRoot, DestroyOperator,
        DestroyNamespace, Destroyed, RetryDestroy, DestroyFails, Free,
        FreeNamespace, Freed, NotFreed
  <1>7. CASE StartSweep \/ StopSweep \/ Return \/ Rerun \/ Sweeper
    BY <1>7 DEF StartSweep, StopSweep, Return, Rerun, Sweeper, Tick, Sweep,
                SweepEnds
  <1>8. CASE Operator \/ NamespaceController \/ UNCHANGED vars
    BY <1>8 DEF Operator, WebhookChanges, Finalize, Recreate,
                NamespaceController, NamespaceGoes, DeleteContent, vars
  <1>. QED BY <1>2, <1>3, <1>4, <1>5, <1>6, <1>7, <1>8
           DEF Next, RunTrialDown, Drain

\* The drain gives up before its deadline only when, for the whole grace period,
\* no resource it waits for was marked or went: drainPhase counts the refused
\* passes in a row and starts again at the first sign of progress.
THEOREM GivesUpOnEvidence == Spec => GiveUpOnEvidence
  <1>1. Init => EvidenceInv
    <2>1. ASSUME Init PROVE Evidence /\ Unused
      <3>1. /\ drain.phase = "leaves" /\ drain.left = PhaseObjs("leaves")
            /\ drain.refusing = 0
        BY <2>1, NewPhaseType, BudgetAssumption DEF Init, NoDrain
      <3>. QED BY <3>1
               DEF Evidence, NoneWaits, LongStalled, NoneLeft, Unused
    <2>. QED BY <2>1 DEF EvidenceInv
  <1>2. TypeInv /\ EvidenceInv /\ [Next]_vars =>
          [/\ ns = "active" /\ pc = "pass" /\ pc' = "destroy"
           /\ drain.polls < Budget
           /\ \E o \in PhaseObjs(drain.phase) \ (Remade \cup Protected) :
                obj[o] # "absent"
           => idle = Grace]_vars
    BY GiveUpStep
  <1>. QED BY <1>1, <1>2, DrainInvInit, InitType, TypeStep, DrainInvStep,
              EvidenceInvStep, PTL
           DEF Spec, GiveUpOnEvidence
=============================================================================
