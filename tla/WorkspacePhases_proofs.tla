------------------------ MODULE WorkspacePhases_proofs ------------------------
(***************************************************************************)
(* Proofs about WorkspacePhases: every variable keeps its type; with one   *)
(* terminal at work, phases are destroyed in order, through a record of    *)
(* the cluster that is there, none outlives the cluster it stands on, and  *)
(* a command that reports success has done what it says.                   *)
(***************************************************************************)
EXTENDS WorkspacePhases, SequenceTheorems, TLAPS

LegsType == UNION {[S -> SUBSET Resources] : S \in SUBSET Phases}

-----------------------------------------------------------------------------
(* The pieces of a running command are of their types.                     *)

LEMMA LegsElim ==
  ASSUME NEW legs \in LegsType
  PROVE  /\ DOMAIN legs \in SUBSET Phases
         /\ \A ph \in DOMAIN legs : legs[ph] \in SUBSET Resources
BY DEF LegsType

LEMMA LegsTypes ==
  /\ NoLegs \in LegsType
  /\ \A of \in SUBSET Phases : /\ ApplyLegs(of) \in LegsType
                               /\ DestroyLegs(of) \in LegsType
<1>1. NoLegs \in LegsType
  BY ZenonT(40) DEF NoLegs, LegsType
<1>2. \A ph \in Phases : Goal(ph) \in SUBSET Resources
  BY DEF Goal, ClusterGoal, BnkGoal, Resources
<1>3. \A of \in SUBSET Phases : ApplyLegs(of) \in LegsType
  BY <1>2 DEF ApplyLegs, LegsType
<1>4. \A of \in SUBSET Phases : DestroyLegs(of) \in LegsType
  BY DEF DestroyLegs, LegsType
<1> QED BY <1>1, <1>3, <1>4

LEMMA StageTypes ==
  /\ \A of \in SUBSET Phases : Up(of) \in StageType /\ Down(of) \in StageType
  /\ Apply \in StageType
  /\ Register \in StageType
  /\ AutoConnect \in StageType
BY DEF Up, Down, Apply, Register, AutoConnect, Stage, StageType, Phases

LEMMA FreeType == Free \in ProcType
BY LegsTypes DEF Free, ProcType, LegsType

LEMMA NextStageType ==
  ASSUME NEW pr \in ProcType, pr.todo # <<>>
  PROVE  NextStage(pr) \in ProcType
<1>1. Tail(pr.todo) \in Seq(StageType)
  BY DEF ProcType
<1> QED BY <1>1, LegsTypes DEF NextStage, ProcType, LegsType

LEMMA FailStageType ==
  ASSUME NEW pr \in ProcType, pr.todo # <<>>
  PROVE  FailStage(pr) \in ProcType
<1>1. <<>> \in Seq(StageType)
  OBVIOUS
<1> QED BY <1>1, NextStageType, LegsTypes DEF FailStage, ProcType, LegsType

LEMMA WithoutLegType ==
  ASSUME NEW pr \in ProcType, NEW ph
  PROVE  WithoutLeg(pr, ph) \in ProcType
<1>1. pr.legs \in LegsType
  BY DEF ProcType, LegsType
<1>2. [x \in DOMAIN pr.legs \ {ph} |-> pr.legs[x]] \in LegsType
  <2> DEFINE S == DOMAIN pr.legs \ {ph}
  <2>1. S \in SUBSET Phases /\ \A x \in S : pr.legs[x] \in SUBSET Resources
    BY <1>1, LegsElim
  <2>2. [x \in S |-> pr.legs[x]] \in [S -> SUBSET Resources]
    BY <2>1
  <2> QED BY <2>1, <2>2 DEF LegsType
<1> QED BY <1>2 DEF WithoutLeg, ProcType, LegsType

\* A step of one command leaves every command of its type.
LEMMA StepType ==
  ASSUME TypeOK, NEW p \in Procs, NEW pr \in ProcType, Step(p, pr)
  PROVE  proc' \in [Procs -> ProcType] /\ teardown' \in BOOLEAN
BY DEF Step, TypeOK

-----------------------------------------------------------------------------
(* Type correctness, one lemma per kind of step.                           *)

LEMMA BegunType ==
  ASSUME NEW c \in AllCommands, NEW stages \in Seq(StageType)
  PROVE  Begun(c, stages) \in ProcType
BY FreeType DEF Begun, ProcType

LEMMA BeginTypeOK ==
  ASSUME TypeOK, NEW p \in Procs, NEW c \in AllCommands,
         NEW stages \in Seq(StageType), Begin(p, c, stages)
  PROVE  TypeOK'
BY BegunType DEF Begin, files, TypeOK

LEMMA RefuseTypeOK ==
  ASSUME TypeOK, NEW p \in Procs, NEW c \in AllCommands,
         Refuse(p, c) \/ NoOp(p, c)
  PROVE  TypeOK'
<1>1. /\ [Free EXCEPT !.cmd = c, !.exit = "error"] \in ProcType
      /\ [Free EXCEPT !.cmd = c, !.exit = "ok"] \in ProcType
  BY FreeType DEF ProcType
<1> QED BY <1>1 DEF Refuse, NoOp, files, TypeOK

\* The connect that may save its gateway in config.yaml.
LEMMA ConnectTypeOK ==
  ASSUME TypeOK, NEW p \in Procs, RunTGWConnect(p)
  PROVE  TypeOK'
<1>1. CASE Refuse(p, "tgw connect")
  BY <1>1, RefuseTypeOK DEF AllCommands
<1>2. CASE ~Refuse(p, "tgw connect")
  <2>1. Begun("tgw connect", <<Up({"tgw"})>>) \in ProcType
    <3>1. <<Up({"tgw"})>> \in Seq(StageType)
      BY StageTypes DEF Phases
    <3> QED BY <3>1, BegunType DEF AllCommands
  <2>2. PICK named \in BOOLEAN : cfg' = [cfg EXCEPT !.existingTGW = @ \/ named]
    BY <1>2 DEF RunTGWConnect
  <2>3. cfg' \in ConfigSpace
    BY <2>2 DEF TypeOK, ConfigSpace
  <2> QED BY <1>2, <2>1, <2>3 DEF RunTGWConnect, TypeOK
<1> QED BY <1>1, <1>2

LEMMA InvokeTypeOK ==
  ASSUME TypeOK, NEW p \in Procs, Invoke(p)
  PROVE  TypeOK'
<1>c. CASE RunTGWConnect(p)
  BY <1>c, ConnectTypeOK
<1>o. CASE ~RunTGWConnect(p)
  <2>a. PICK c \in AllCommands :
          \/ \E stages \in Seq(StageType) : Begin(p, c, stages)
          \/ Refuse(p, c) \/ NoOp(p, c)
    <3>s. \A of \in SUBSET Phases : <<Up(of)>> \in Seq(StageType)
                                    /\ <<Down(of)>> \in Seq(StageType)
      BY StageTypes
    <3>e. <<>> \in Seq(StageType) /\ <<Apply>> \in Seq(StageType)
          /\ <<Register>> \in Seq(StageType)
      BY StageTypes
    <3>c. \A s, t \in Seq(StageType) : s \o t \in Seq(StageType)
      OBVIOUS
    <3>p. /\ {"cluster"} \in SUBSET Phases /\ {"bnk"} \in SUBSET Phases
          /\ {"bnk", "testing"} \in SUBSET Phases /\ {"testing"} \in SUBSET Phases
          /\ {"gateway"} \in SUBSET Phases /\ {"flp"} \in SUBSET Phases
          /\ {"tgw"} \in SUBSET Phases
      BY DEF Phases
    <3>1. CASE RunUp(p)
      BY <3>1, <3>s, <3>e, <3>c, <3>p DEF RunUp, AllCommands
    <3>2. CASE RunDown(p)
      <4>1. {ph \in {"bnk", "testing"} : Present(ph)} \in SUBSET Phases
        BY DEF Phases
      <4>2. DownStages \in Seq(StageType)
        BY <4>1, <3>s, <3>e, <3>c, <3>p DEF DownStages
      <4> QED BY <3>2, <4>2 DEF RunDown, AllCommands, TeardownCommands
    <3>3. CASE RunApply(p)
      BY <3>3, <3>e DEF RunApply, AllCommands
    <3>4. CASE RunClusterUp(p)
      BY <3>4, <3>s, <3>p DEF RunClusterUp, AllCommands
    <3>5. CASE RunClusterRegister(p)
      BY <3>5, <3>e DEF RunClusterRegister, AllCommands
    <3>6. CASE RunClusterDown(p)
      BY <3>6, <3>s, <3>p DEF RunClusterDown, AllCommands, TeardownCommands
    <3>7. CASE RunBnkUp(p)
      BY <3>7, <3>s, <3>e, <3>c, <3>p DEF RunBnkUp, AllCommands
    <3>8. CASE RunBnkDown(p)
      BY <3>8, <3>s, <3>p DEF RunBnkDown, AllCommands, TeardownCommands
    <3>9. CASE RunTestingUp(p)
      BY <3>9, <3>s, <3>p DEF RunTestingUp, AllCommands
    <3>10. CASE RunTestingDown(p)
      BY <3>10, <3>s, <3>p DEF RunTestingDown, AllCommands, TeardownCommands
    <3>11. CASE RunGatewayUp(p)
      BY <3>11, <3>s, <3>p DEF RunGatewayUp, AllCommands
    <3>12. CASE RunGatewayDown(p)
      BY <3>12, <3>s, <3>p DEF RunGatewayDown, AllCommands, TeardownCommands
    <3>13. CASE RunFLPUp(p)
      BY <3>13, <3>s, <3>p DEF RunFLPUp, AllCommands
    <3>14. CASE RunFLPDown(p)
      BY <3>14, <3>s, <3>p DEF RunFLPDown, AllCommands, TeardownCommands
    <3>16. CASE RunTGWDisconnect(p)
      BY <3>16, <3>s, <3>p DEF RunTGWDisconnect, AllCommands, TeardownCommands
    <3> QED BY <3>1, <3>2, <3>3, <3>4, <3>5, <3>6, <3>7, <3>8, <3>9, <3>10,
               <3>11, <3>12, <3>13, <3>14, <3>16, <1>o DEF Invoke
  <2> QED BY <2>a, BeginTypeOK, RefuseTypeOK
<1> QED BY <1>c, <1>o

LEMMA StartLegsTypeOK ==
  ASSUME TypeOK, NEW p \in Procs, NEW legs \in LegsType, StartLegs(p, legs),
         UNCHANGED files
  PROVE  TypeOK'
<1>1. [proc[p] EXCEPT !.at = "run", !.legs = legs] \in ProcType
  BY DEF TypeOK, ProcType, LegsType
<1> QED BY <1>1, StepType DEF StartLegs, files, TypeOK

LEMMA EnterUpTypeOK ==
  ASSUME TypeOK, NEW p \in Procs, NEW of \in SUBSET Phases, EnterUp(p, of)
  PROVE  TypeOK'
<1>1. CASE Step(p, [proc[p] EXCEPT !.at = "record"])
  <2>1. [proc[p] EXCEPT !.at = "record"] \in ProcType
    BY DEF TypeOK, ProcType
  <2> QED BY <1>1, <2>1, StepType DEF EnterUp, files, TypeOK
<1>2. CASE \E approved \in SUBSET of : StartLegs(p, ApplyLegs(approved))
  BY <1>2, LegsTypes, StartLegsTypeOK DEF EnterUp
<1> QED BY <1>1, <1>2 DEF EnterUp

LEMMA EnterTypeOK ==
  ASSUME TypeOK, NEW p \in Procs, Enter(p)
  PROVE  TypeOK'
<1>t. proc[p] \in ProcType
  BY DEF TypeOK
<1>p. /\ {"cluster"} \in SUBSET Phases /\ {"bnk"} \in SUBSET Phases
      /\ {"bnk", "testing"} \in SUBSET Phases /\ {"testing"} \in SUBSET Phases
      /\ {"gateway"} \in SUBSET Phases /\ {"flp"} \in SUBSET Phases
      /\ {"tgw"} \in SUBSET Phases
  BY DEF Phases
<1>a. AutoConnectStages \in Seq(StageType)
  BY StageTypes DEF AutoConnectStages
<1>1. CASE EnterUpTrial(p)
  BY <1>1, <1>p, EnterUpTypeOK DEF EnterUpTrial
<1>2. CASE EnterUpTesting(p) \/ EnterUpGateway(p) \/ EnterUpFLP(p)
  BY <1>2, <1>p, EnterUpTypeOK DEF EnterUpTesting, EnterUpGateway, EnterUpFLP
<1>3. CASE EnterUpTGW(p)
  <2>1. CASE EnterUp(p, {"tgw"})
    BY <2>1, <1>p, EnterUpTypeOK
  <2>2. CASE ~EnterUp(p, {"tgw"})
    <3>1. /\ proc[p].todo # <<>> /\ Step(p, NextStage(proc[p]))
          /\ handoff' = handoff \cup {"tgw"} /\ UNCHANGED <<cfg, tf, outputs>>
      BY <1>3, <2>2 DEF EnterUpTGW, At
    <3> QED BY <3>1, <1>t, NextStageType, StepType DEF TypeOK
  <2> QED BY <2>1, <2>2
<1>4. CASE EnterUpCluster(p)
  <2>1. CASE EnterUp(p, {"cluster"})
    BY <2>1, <1>p, EnterUpTypeOK
  <2>2. CASE ~EnterUp(p, {"cluster"})
    <3>1. /\ proc[p].todo # <<>> /\ UNCHANGED files
          /\ Step(p, [proc[p] EXCEPT !.todo = <<Register>> \o Tail(@)])
      BY <1>4, <2>2 DEF EnterUpCluster, At
    <3>2. <<Register>> \o Tail(proc[p].todo) \in Seq(StageType)
      <4>1. Tail(proc[p].todo) \in Seq(StageType) BY <1>t, <3>1 DEF ProcType
      <4>2. <<Register>> \in Seq(StageType) BY StageTypes
      <4> QED BY <4>1, <4>2
    <3>3. [proc[p] EXCEPT !.todo = <<Register>> \o Tail(@)] \in ProcType
      BY <1>t, <3>2 DEF ProcType
    <3> QED BY <3>1, <3>3, StepType DEF TypeOK, files
  <2> QED BY <2>1, <2>2
<1>5. CASE EnterApply(p)
  BY <1>5, <1>p, LegsTypes, StartLegsTypeOK DEF EnterApply
<1>6. CASE EnterRegister(p)
  <2>1. proc[p].todo # <<>>
    BY <1>6 DEF EnterRegister, At
  <2>2. NextStage(proc[p]) \in ProcType
    BY <1>t, <2>1, NextStageType
  <2>3. AutoConnectStages \o NextStage(proc[p]).todo \in Seq(StageType)
    <3>1. NextStage(proc[p]).todo \in Seq(StageType) BY <2>2 DEF ProcType
    <3> QED BY <3>1, <1>a
  <2>4. [NextStage(proc[p]) EXCEPT !.todo = AutoConnectStages \o @] \in ProcType
    BY <2>2, <2>3 DEF ProcType
  <2>5. proc' \in [Procs -> ProcType] /\ teardown' \in BOOLEAN
    BY <1>6, <2>4, StepType DEF EnterRegister
  <2> QED BY <1>6, <2>5 DEF EnterRegister, TypeOK, OutputsValues
<1>7. CASE EnterDown(p)
  BY <1>7, LegsTypes, StartLegsTypeOK DEF EnterDown, Dependents
<1>8. CASE EnterDownCluster(p)
  <2>1. CASE Step(p, NextStage(proc[p]))
    <3>1. proc[p].todo # <<>> /\ UNCHANGED files
      BY <1>8 DEF EnterDownCluster, At
    <3> QED BY <3>1, <2>1, <1>t, NextStageType, StepType DEF TypeOK, files
  <2>2. CASE StartLegs(p, DestroyLegs({"cluster"}))
    BY <1>8, <2>2, <1>p, LegsTypes, StartLegsTypeOK DEF EnterDownCluster
  <2> QED BY <1>8, <2>1, <2>2 DEF EnterDownCluster
<1>9. CASE FailEntry(p)
  BY <1>9, <1>t, FailStageType, StepType DEF FailEntry, TypeOK, files
<1> QED BY <1>1, <1>2, <1>3, <1>4, <1>5, <1>6, <1>7, <1>8, <1>9 DEF Enter

LEMMA TerraformTypeOK ==
  ASSUME TypeOK, NEW p \in Procs, Terraform(p)
  PROVE  TypeOK'
<1>t. proc[p] \in ProcType
  BY DEF TypeOK
<1>0. PICK ph \in Phases : Converge(p, ph) \/ LegDone(p, ph) \/ LegFail(p, ph)
  BY DEF Terraform
<1>1. CASE Converge(p, ph)
  <2>1. outputs' \in OutputsValues
    BY <1>1 DEF Converge, OutputsAfter, OutputsValues, TypeOK
  <2>2. proc[p].legs[ph] \in SUBSET Resources
    BY <1>1, <1>t, LegsElim DEF Converge, RunningLeg, ProcType, LegsType
  <2>3. tf' \in [Phases -> SUBSET Resources]
    <3>1. CASE \E r \in Creatable(tf[ph], proc[p].legs[ph]) :
                 tf' = [tf EXCEPT ![ph] = @ \cup {r}]
      BY <2>2, <3>1 DEF Creatable, TypeOK
    <3>2. CASE \E r \in Destroyable(tf[ph], proc[p].legs[ph]) :
                 tf' = [tf EXCEPT ![ph] = @ \ {r}]
      BY <3>2 DEF TypeOK
    <3> QED BY <1>1, <3>1, <3>2 DEF Converge
  <2> QED BY <1>1, <2>1, <2>3 DEF Converge, TypeOK
<1>2. CASE LegDone(p, ph)
  BY <1>2, <1>t, WithoutLegType, StepType DEF LegDone, TypeOK, files
<1>3. CASE LegFail(p, ph)
  <2>1. [WithoutLeg(proc[p], ph) EXCEPT !.failed = TRUE] \in ProcType
    BY <1>t, WithoutLegType DEF ProcType
  <2> QED BY <1>3, <2>1, StepType DEF LegFail, TypeOK, files
<1> QED BY <1>0, <1>1, <1>2, <1>3

LEMMA WaitTypeOK ==
  ASSUME TypeOK, NEW p \in Procs, Wait(p), proc[p].todo # <<>>
  PROVE  TypeOK'
<1>t. proc[p] \in ProcType
  BY DEF TypeOK
<1>1. [proc[p] EXCEPT !.at = "record"] \in ProcType
  BY <1>t DEF ProcType
<1> QED BY <1>t, <1>1, FailStageType, StepType DEF Wait, TypeOK, files

LEMMA RecordTypeOK ==
  ASSUME TypeOK, NEW p \in Procs, Record(p)
  PROVE  TypeOK'
<1>t. proc[p] \in ProcType /\ proc[p].todo # <<>>
  BY DEF TypeOK, Record, RecordCluster, RecordHandoff, RecordNothing,
         DeleteClusterOutputs, DeleteHandoff, At
<1>n. NextStage(proc[p]) \in ProcType /\ FailStage(proc[p]) \in ProcType
  BY <1>t, NextStageType, FailStageType
<1>1. CASE RecordCluster(p)
  <2>1. AutoConnectStages \o NextStage(proc[p]).todo \in Seq(StageType)
    <3>1. NextStage(proc[p]).todo \in Seq(StageType) BY <1>n DEF ProcType
    <3>2. AutoConnectStages \in Seq(StageType)
      BY StageTypes DEF AutoConnectStages
    <3> QED BY <3>1, <3>2
  <2>2. [NextStage(proc[p]) EXCEPT !.todo = AutoConnectStages \o @] \in ProcType
    BY <1>n, <2>1 DEF ProcType
  <2>3. proc' \in [Procs -> ProcType] /\ teardown' \in BOOLEAN
    BY <1>1, <2>2, StepType DEF RecordCluster
  <2> QED BY <1>1, <2>3 DEF RecordCluster, TypeOK, OutputsValues
<1>2. CASE RecordHandoff(p)
  BY <1>2, <1>n, StepType DEF RecordHandoff, TypeOK
<1>3. CASE RecordNothing(p)
  BY <1>3, <1>n, StepType DEF RecordNothing, TypeOK, files
<1>4. CASE DeleteClusterOutputs(p)
  BY <1>4, <1>n, StepType DEF DeleteClusterOutputs, TypeOK, OutputsValues
<1>5. CASE DeleteHandoff(p)
  BY <1>5, <1>n, StepType DEF DeleteHandoff, TypeOK
<1> QED BY <1>1, <1>2, <1>3, <1>4, <1>5 DEF Record

LEMMA EndTypeOK ==
  ASSUME TypeOK, NEW p \in Procs, Return(p) \/ Crash(p)
  PROVE  TypeOK'
<1>1. [proc[p] EXCEPT !.exit = "ok"] \in ProcType
  BY DEF TypeOK, ProcType
<1>2. [Free EXCEPT !.cmd = proc[p].cmd, !.exit = "crashed"] \in ProcType
  BY FreeType DEF TypeOK, ProcType
<1> QED BY <1>1, <1>2, StepType DEF Return, Crash, TypeOK, files

\* A command that is past the entry of a stage has that stage at the head of
\* its queue, and terraform runs only in the middle of one.
StagesSound ==
  \A p \in Procs :
    /\ Running(p) /\ proc[p].at # "enter" => proc[p].todo # <<>>
    /\ DOMAIN proc[p].legs # {} => Running(p) /\ proc[p].at = "run"

TypeInv == TypeOK /\ StagesSound

LEMMA InitTypeInv == Init => TypeInv
<1> SUFFICES ASSUME Init PROVE TypeInv
  OBVIOUS
<1>1. TypeOK
  BY FreeType, ConfigsAssumption DEF Init, TypeOK, OutputsValues
<1>2. StagesSound
  BY DEF Init, StagesSound, Running, Free, NoLegs
<1> QED BY <1>1, <1>2 DEF TypeInv

\* What a step of one command makes of the others: nothing.
LEMMA StepAlone ==
  ASSUME TypeOK, NEW p \in Procs, NEW pr, Step(p, pr)
  PROVE  proc'[p] = pr /\ \A q \in Procs \ {p} : proc'[q] = proc[q]
BY DEF Step, TypeOK

LEMMA StagesKept ==
  ASSUME StagesSound, NEW p \in Procs,
         \A q \in Procs \ {p} : proc'[q] = proc[q],
         (proc'[p].exit = "running" /\ proc'[p].at # "enter")
            => proc'[p].todo # <<>>,
         DOMAIN proc'[p].legs # {}
            => proc'[p].exit = "running" /\ proc'[p].at = "run"
  PROVE  StagesSound'
BY DEF StagesSound, Running

LEMMA StepStages ==
  ASSUME TypeInv, NEW p \in Procs, NEW pr, Step(p, pr),
         (pr.exit = "running" /\ pr.at # "enter") => pr.todo # <<>>,
         DOMAIN pr.legs # {} => pr.exit = "running" /\ pr.at = "run"
  PROVE  StagesSound'
BY StepAlone, StagesKept DEF TypeInv

\* The next stage, or the end after a failed one, starts from nothing.
LEMMA NextStageFresh ==
  ASSUME NEW pr \in ProcType
  PROVE  /\ NextStage(pr).at = "enter" /\ DOMAIN NextStage(pr).legs = {}
         /\ NextStage(pr).todo = Tail(pr.todo) /\ NextStage(pr).exit = pr.exit
         /\ DOMAIN FailStage(pr).legs = {}
         /\ \/ FailStage(pr) = NextStage(pr)
            \/ FailStage(pr).exit = "error" /\ FailStage(pr).todo = <<>>
BY DEF NextStage, FailStage, NoLegs, ProcType

LEMMA InvokeSteps ==
  ASSUME TypeOK, NEW p \in Procs, Invoke(p)
  PROVE  /\ ~Running(p)
         /\ UNCHANGED <<tf, outputs, handoff>>
         /\ cfg'.flpStandalone = cfg.flpStandalone
         /\ \A q \in Procs \ {p} : proc'[q] = proc[q]
         /\ proc'[p].at = "enter" /\ proc'[p].legs = NoLegs
         /\ proc'[p].exit # "running" => proc'[p].todo = <<>>
<1>1. PICK c : /\ ~Running(p)
               /\ \/ \E stages : Begin(p, c, stages)
                  \/ Refuse(p, c) \/ NoOp(p, c)
                  \/ /\ proc' = [proc EXCEPT ![p] = Begun(c, <<Up({"tgw"})>>)]
                     /\ \E named \in BOOLEAN :
                          cfg' = [cfg EXCEPT !.existingTGW = @ \/ named]
                     /\ UNCHANGED <<tf, outputs, handoff>>
  BY DEF Invoke, Accepts, RunUp, RunDown, RunApply, RunClusterUp,
         RunClusterRegister, RunClusterDown, RunBnkUp, RunBnkDown,
         RunTestingUp, RunTestingDown, RunGatewayUp, RunGatewayDown,
         RunFLPUp, RunFLPDown, RunTGWConnect, RunTGWDisconnect
<1>2. UNCHANGED <<tf, outputs, handoff>> /\ cfg'.flpStandalone = cfg.flpStandalone
  BY <1>1 DEF Begin, Refuse, NoOp, TypeOK, ConfigSpace, files
<1>3. \E pr : /\ proc' = [proc EXCEPT ![p] = pr]
              /\ pr.at = "enter" /\ pr.legs = NoLegs
              /\ pr.exit # "running" => pr.todo = <<>>
  <2>1. ASSUME NEW stages PROVE /\ Begun(c, stages).at = "enter"
                                /\ Begun(c, stages).legs = NoLegs
                                /\ Begun(c, stages).exit = "running"
    BY DEF Begun, Free
  <2>2. ASSUME NEW e PROVE
          LET pr == [Free EXCEPT !.cmd = c, !.exit = e]
          IN  pr.at = "enter" /\ pr.legs = NoLegs /\ pr.todo = <<>>
    BY DEF Free
  <2> QED BY <1>1, <2>1, <2>2 DEF Begin, Refuse, NoOp
<1> QED BY <1>1, <1>2, <1>3 DEF TypeOK

LEMMA StartLegsStages ==
  ASSUME TypeInv, NEW p \in Procs, NEW legs, StartLegs(p, legs),
         Running(p), proc[p].todo # <<>>
  PROVE  StagesSound'
<1> DEFINE pr == [proc[p] EXCEPT !.at = "run", !.legs = legs]
<1>1. pr.at = "run" /\ pr.exit = "running" /\ pr.todo # <<>>
  BY DEF TypeInv, TypeOK, ProcType, Running
<1>2. Step(p, pr)
  BY DEF StartLegs
<1> HIDE DEF pr
<1> QED BY <1>1, <1>2, StepStages

LEMMA NextStages ==
  ASSUME TypeInv, NEW p \in Procs, proc[p].todo # <<>>,
         \/ Step(p, NextStage(proc[p])) \/ Step(p, FailStage(proc[p]))
         \/ Step(p, [NextStage(proc[p]) EXCEPT !.todo = AutoConnectStages \o @])
  PROVE  StagesSound'
<1>1. proc[p] \in ProcType /\ NextStage(proc[p]) \in ProcType
  BY NextStageType DEF TypeInv, TypeOK
<1>2. CASE Step(p, NextStage(proc[p])) \/ Step(p, FailStage(proc[p]))
  BY <1>1, <1>2, NextStageFresh, StepStages
<1> DEFINE pr == [NextStage(proc[p]) EXCEPT !.todo = AutoConnectStages \o @]
<1>3. CASE Step(p, pr)
  <2>1. pr.at = "enter" /\ DOMAIN pr.legs = {}
    BY <1>1, NextStageFresh DEF ProcType
  <2> HIDE DEF pr
  <2> QED BY <1>3, <2>1, StepStages
<1> QED BY <1>2, <1>3

LEMMA RecordNow ==
  ASSUME TypeInv, NEW p \in Procs, Running(p), proc[p].todo # <<>>,
         DOMAIN proc[p].legs = {}, Step(p, [proc[p] EXCEPT !.at = "record"])
  PROVE  StagesSound'
<1>1. proc[p] \in ProcType
  BY DEF TypeInv, TypeOK
<1> QED BY <1>1, StepAlone, StagesKept DEF TypeInv, ProcType, Running

LEMMA EnterUpStages ==
  ASSUME TypeInv, NEW p \in Procs, NEW of, EnterUp(p, of)
  PROVE  StagesSound'
<1>1. Running(p) /\ proc[p].todo # <<>> /\ DOMAIN proc[p].legs = {}
  BY DEF EnterUp, At, TypeInv, StagesSound
<1> QED BY <1>1, RecordNow, StartLegsStages DEF EnterUp

LEMMA EnterStages ==
  ASSUME TypeInv, NEW p \in Procs, Enter(p)
  PROVE  StagesSound'
<1>1. /\ Running(p) /\ proc[p].todo # <<>> /\ DOMAIN proc[p].legs = {}
      /\ proc[p].at = "enter"
  BY DEF Enter, EnterUpTrial, EnterUpTesting, EnterUpGateway, EnterUpFLP,
         EnterUpTGW, EnterUpCluster, EnterApply, EnterRegister, EnterDown,
         EnterDownCluster, FailEntry, EnterUp, At, TypeInv, StagesSound
<1>2. CASE \E of : EnterUp(p, of)
  BY <1>2, EnterUpStages
<1>3. CASE \E legs : StartLegs(p, legs)
  BY <1>1, <1>3, StartLegsStages
<1>4. CASE Step(p, NextStage(proc[p])) \/ Step(p, FailStage(proc[p]))
  BY <1>1, <1>4, NextStages
<1>5. CASE Step(p, [proc[p] EXCEPT !.todo = <<Register>> \o Tail(@)])
  <2> DEFINE pr == [proc[p] EXCEPT !.todo = <<Register>> \o Tail(@)]
  <2>1. pr.at = "enter" /\ DOMAIN pr.legs = {}
    BY <1>1 DEF TypeInv, TypeOK, ProcType
  <2>2. Step(p, pr)
    BY <1>5
  <2> HIDE DEF pr
  <2> QED BY <2>1, <2>2, StepStages
<1>6. CASE Step(p, [NextStage(proc[p]) EXCEPT !.todo = AutoConnectStages \o @])
  BY <1>1, <1>6, NextStages
<1> QED BY <1>2, <1>3, <1>4, <1>5, <1>6
        DEF Enter, EnterUpTrial, EnterUpTesting, EnterUpGateway, EnterUpFLP,
            EnterUpTGW, EnterUpCluster, EnterApply, EnterRegister, EnterDown,
            EnterDownCluster, FailEntry

LEMMA TerraformStages ==
  ASSUME TypeInv, NEW p \in Procs, Terraform(p) \/ Wait(p)
  PROVE  StagesSound'
<1>t. proc[p] \in ProcType
  BY DEF TypeInv, TypeOK
<1>1. CASE UNCHANGED proc
  BY <1>1 DEF TypeInv, StagesSound, Running
<1>2. ASSUME NEW ph, LegDone(p, ph) \/ LegFail(p, ph) PROVE StagesSound'
  <2>1. Running(p) /\ proc[p].at = "run" /\ proc[p].todo # <<>>
    BY <1>2 DEF LegDone, LegFail, RunningLeg, TypeInv, StagesSound
  <2>2. /\ WithoutLeg(proc[p], ph) \in ProcType
        /\ WithoutLeg(proc[p], ph).at = proc[p].at
        /\ WithoutLeg(proc[p], ph).exit = proc[p].exit
        /\ WithoutLeg(proc[p], ph).todo = proc[p].todo
    BY <1>t, WithoutLegType DEF WithoutLeg, ProcType
  <2>3. proc'[p].at = "run" /\ proc'[p].exit = "running" /\ proc'[p].todo # <<>>
    BY <1>2, <2>1, <2>2, StepAlone
       DEF LegDone, LegFail, TypeInv, ProcType, Running
  <2> QED BY <1>2, <2>3, StepAlone, StagesKept DEF LegDone, LegFail, TypeInv
<1>3. CASE Wait(p)
  <2>1. Running(p) /\ proc[p].todo # <<>> /\ DOMAIN proc[p].legs = {}
    BY <1>3 DEF Wait, TypeInv, StagesSound, NoLegs
  <2> QED BY <1>3, <2>1, RecordNow, NextStages DEF Wait
<1> QED BY <1>1, <1>2, <1>3 DEF Terraform, Converge

LEMMA RecordStages ==
  ASSUME TypeInv, NEW p \in Procs, Record(p)
  PROVE  StagesSound'
<1>1. proc[p].todo # <<>>
  BY DEF Record, RecordCluster, RecordHandoff, RecordNothing,
         DeleteClusterOutputs, DeleteHandoff, At
<1> QED BY <1>1, NextStages
        DEF Record, RecordCluster, RecordHandoff, RecordNothing,
            DeleteClusterOutputs, DeleteHandoff

LEMMA EndStages ==
  ASSUME TypeInv, NEW p \in Procs, Return(p) \/ Crash(p)
  PROVE  StagesSound'
<1>t. proc[p] \in ProcType
  BY DEF TypeInv, TypeOK
<1>1. CASE Return(p)
  <2>1. DOMAIN proc[p].legs = {}
    BY <1>1 DEF Return, TypeInv, StagesSound
  <2> QED BY <1>1, <1>t, <2>1, StepAlone, StagesKept DEF Return, TypeInv, ProcType
<1>2. CASE Crash(p)
  <2> DEFINE pr == [Free EXCEPT !.cmd = proc[p].cmd, !.exit = "crashed"]
  <2>1. pr.at = "enter" /\ DOMAIN pr.legs = {}
    BY DEF Free, NoLegs
  <2>2. Step(p, pr)
    BY <1>2 DEF Crash
  <2> HIDE DEF pr
  <2> QED BY <2>1, <2>2, StepStages
<1> QED BY <1>1, <1>2

LEMMA NextTypeInv == TypeInv /\ [Next]_vars => TypeInv'
<1> SUFFICES ASSUME TypeInv, [Next]_vars PROVE TypeInv'
  OBVIOUS
<1> USE DEF TypeInv
<1>1. CASE BeginTeardown
  BY <1>1 DEF BeginTeardown, files, TypeOK, StagesSound, Running
<1>2. CASE UNCHANGED vars
  BY <1>2 DEF vars, TypeOK, StagesSound, Running
<1>3. ASSUME NEW p \in Procs, Invoke(p) PROVE TypeInv'
  <2>1. DOMAIN proc'[p].legs = {} /\ proc'[p].at = "enter"
    BY <1>3, InvokeSteps DEF NoLegs
  <2> QED BY <1>3, <2>1, InvokeTypeOK, InvokeSteps, StagesKept
<1>4. ASSUME NEW p \in Procs, Work(p) \/ Crash(p) PROVE TypeInv'
  <2>1. CASE Enter(p)
    BY <2>1, EnterTypeOK, EnterStages
  <2>2. CASE Terraform(p)
    BY <2>2, TerraformTypeOK, TerraformStages
  <2>3. CASE Wait(p)
    <3>1. proc[p].todo # <<>>
      BY <2>3 DEF Wait, StagesSound
    <3> QED BY <2>3, <3>1, WaitTypeOK, TerraformStages
  <2>4. CASE Record(p)
    BY <2>4, RecordTypeOK, RecordStages
  <2>5. CASE Return(p) \/ Crash(p)
    BY <2>5, EndTypeOK, EndStages
  <2> QED BY <1>4, <2>1, <2>2, <2>3, <2>4, <2>5 DEF Work
<1> QED BY <1>1, <1>2, <1>3, <1>4 DEF Next

LEMMA AlwaysTypeInv == Spec => []TypeInv
BY InitTypeInv, NextTypeInv, PTL DEF Spec

\* Whatever the commands do, in whatever number of terminals, and wherever they
\* are killed, every variable holds a value of its type: every queue of stages,
\* terraform state, record and handoff (all the commands of the phases).
THEOREM TypeCorrect == Spec => []TypeOK
BY AlwaysTypeInv, PTL DEF TypeInv

-----------------------------------------------------------------------------
(***************************************************************************)
(* Why, with one terminal at work, the cluster phase is destroyed last,    *)
(* the gateway phase before the trial, and the record of the cluster is    *)
(* there for as long as a phase needs it.                                  *)
(*                                                                         *)
(* The guards of the commands look at the phases once, and terraform runs  *)
(* later: the inductive invariant says that what a guard has seen is still *)
(* so when the stage behind it runs.  It needs no assumption on the state  *)
(* backend: with a remote one the guards see nothing, but then neither     *)
(* does the destroy, which is skipped.                                     *)
(***************************************************************************)

SoleTerminal == \A p, q \in Procs : p = q

TrialDown(st)   == st.op = "down" /\ "bnk" \in st.of
ClusterDown(st) == st.op = "down" /\ "cluster" \in st.of

NoTrialDown(todo)    == \A i \in DOMAIN todo : ~TrialDown(todo[i])
TrialDownFirst(todo) == \A i \in DOMAIN todo : i > 1 => ~TrialDown(todo[i])

\* Every terraform run belongs to the stage at the head, destroys only in a
\* destroying stage, and keeps the record it needs.
LegsSound(pr) ==
  \A ph \in DOMAIN pr.legs :
    LET st == Head(pr.todo)  goal == pr.legs[ph] IN
    /\ ph \in st.of
    /\ goal = {} => st.op = "down"
    /\ st.op = "down" => goal = {}
    /\ ph = "cluster" => st.of = {"cluster"} /\ goal \in {{}, ClusterGoal}
    /\ ph = "bnk" => goal = {} \/ "layer" \in goal
    /\ NeedsRecord(ph) /\ goal # {} => outputs # "none"
    /\ NeedsRecord(ph) \/ ph = "bnk" => outputs # "stale"

\* Once past its guard, a cluster down runs with nothing else deployed.
ClusterDownSound(pr) ==
  pr.exit = "running" /\ pr.at # "enter" /\ ClusterDown(Head(pr.todo))
    => \A ph \in Dependents : tf[ph] = {}

\* A trial down is the first stage of its command, whose guard has seen the
\* gateway phase gone.
TrialDownSound(pr) ==
  pr.exit = "running" =>
    /\ TrialDownFirst(pr.todo)
    /\ pr.todo # <<>> /\ TrialDown(Head(pr.todo)) =>
         /\ Head(pr.todo).of \subseteq {"bnk", "testing"}
         /\ tf["gateway"] = {}

CommandSound(pr) == LegsSound(pr) /\ ClusterDownSound(pr) /\ TrialDownSound(pr)

SafeInv ==
  /\ TypeInv
  /\ tf["cluster"] \subseteq ClusterGoal
  /\ DependentsHaveRecord
  /\ \A p \in Procs : CommandSound(proc[p])

-----------------------------------------------------------------------------
(* Queues of stages.                                                       *)

LEMMA ConcatFirst ==
  ASSUME NEW s \in Seq(StageType), NEW t \in Seq(StageType),
         TrialDownFirst(s), NoTrialDown(t)
  PROVE  /\ TrialDownFirst(s \o t)
         /\ NoTrialDown(s) => NoTrialDown(s \o t)
BY DEF TrialDownFirst, NoTrialDown

LEMMA TailNone ==
  ASSUME NEW s \in Seq(StageType), s # <<>>, TrialDownFirst(s)
  PROVE  NoTrialDown(Tail(s))
<1> SUFFICES ASSUME NEW i \in DOMAIN Tail(s) PROVE ~TrialDown(Tail(s)[i])
  BY DEF NoTrialDown
<1>1. i \in Nat /\ i >= 1 /\ i + 1 \in DOMAIN s /\ Tail(s)[i] = s[i + 1]
  OBVIOUS
<1> QED BY <1>1 DEF TrialDownFirst

LEMMA NoneFirst ==
  ASSUME NEW s \in Seq(StageType), NoTrialDown(s)
  PROVE  TrialDownFirst(s) /\ (s # <<>> => ~TrialDown(Head(s)))
BY DEF TrialDownFirst, NoTrialDown

LEMMA SingleStage ==
  ASSUME NEW st \in StageType
  PROVE  /\ <<st>> \in Seq(StageType) /\ Head(<<st>>) = st
         /\ TrialDownFirst(<<st>>)
         /\ ~TrialDown(st) => NoTrialDown(<<st>>)
BY DEF TrialDownFirst, NoTrialDown

LEMMA AutoConnectNone ==
  ASSUME NEW s \in Seq(StageType), NoTrialDown(s)
  PROVE  AutoConnectStages \o s \in Seq(StageType)
         /\ NoTrialDown(AutoConnectStages \o s)
<1>1. AutoConnectStages \in Seq(StageType) /\ NoTrialDown(AutoConnectStages)
  <2>1. CASE cfg.existingTGW
    BY <2>1, StageTypes, SingleStage DEF AutoConnectStages, AutoConnect, TrialDown
  <2>2. CASE ~cfg.existingTGW
    BY <2>2 DEF AutoConnectStages, NoTrialDown
  <2> QED BY <2>1, <2>2
<1> QED BY <1>1, ConcatFirst, NoneFirst

-----------------------------------------------------------------------------
(* A sound command, whose step leaves what it relies on alone, keeps the   *)
(* invariant.                                                              *)

LEMMA SafeKept ==
  ASSUME SoleTerminal, SafeInv, NEW p \in Procs, TypeInv',
         cfg'.flpStandalone = cfg.flpStandalone, UNCHANGED <<tf, outputs>>,
         CommandSound(proc'[p])
  PROVE  SafeInv'
<1>1. CommandSound(proc[p])'
  BY DEF CommandSound, LegsSound, ClusterDownSound, TrialDownSound, NeedsRecord
<1>2. \A q \in Procs : q = p
  BY DEF SoleTerminal
<1>3. (\A q \in Procs : CommandSound(proc[q]))'
  BY <1>1, <1>2
<1>4. DependentsHaveRecord'
  BY DEF SafeInv, DependentsHaveRecord, NeedsRecord, Usable
<1> QED BY <1>3, <1>4 DEF SafeInv

\* Between two stages a command only has to keep its queue in order.
LEMMA FreshSound ==
  ASSUME NEW pr, DOMAIN pr.legs = {},
         pr.exit # "running" \/ (pr.at = "enter" /\ TrialDownSound(pr))
  PROVE  CommandSound(pr)
BY DEF CommandSound, LegsSound, ClusterDownSound, TrialDownSound

LEMMA NextStageSound ==
  ASSUME SafeInv, NEW p \in Procs, proc[p].todo # <<>>, Running(p)
  PROVE  /\ CommandSound(NextStage(proc[p]))
         /\ CommandSound(FailStage(proc[p]))
         /\ CommandSound([NextStage(proc[p]) EXCEPT !.todo = AutoConnectStages \o @])
<1>1. proc[p] \in ProcType /\ proc[p].todo \in Seq(StageType)
  BY DEF SafeInv, TypeInv, TypeOK, ProcType
<1>2. TrialDownFirst(proc[p].todo)
  BY DEF SafeInv, CommandSound, TrialDownSound, Running
<1> DEFINE rest == Tail(proc[p].todo)
<1>3. rest \in Seq(StageType) /\ NoTrialDown(rest)
  BY <1>1, <1>2, TailNone
<1>4. CommandSound(NextStage(proc[p]))
  <2> DEFINE pr == NextStage(proc[p])
  <2>1. pr.at = "enter" /\ DOMAIN pr.legs = {} /\ pr.todo = rest
    BY <1>1, NextStageFresh
  <2> HIDE DEF pr
  <2>2. TrialDownSound(pr)
    BY <1>3, <2>1, NoneFirst DEF TrialDownSound
  <2>3. CommandSound(pr)
    BY <2>1, <2>2, FreshSound
  <2> QED BY <2>3 DEF pr
<1>5. CommandSound(FailStage(proc[p]))
  BY <1>1, <1>4, FreshSound, NextStageFresh
<1> DEFINE pr == [NextStage(proc[p]) EXCEPT !.todo = AutoConnectStages \o @]
<1>6. CommandSound(pr)
  <2>1. /\ pr.todo = AutoConnectStages \o rest
        /\ pr.at = "enter" /\ DOMAIN pr.legs = {}
    <3> DEFINE ns == NextStage(proc[p])
    <3>1. /\ ns \in ProcType /\ ns.todo = rest
          /\ ns.at = "enter" /\ DOMAIN ns.legs = {}
      BY <1>1, NextStageType, NextStageFresh
    <3> HIDE DEF ns
    <3>2. pr = [ns EXCEPT !.todo = AutoConnectStages \o @]
      BY DEF ns
    <3> HIDE DEF pr, rest
    <3> QED BY <3>1, <3>2 DEF ProcType
  <2>2. pr.todo \in Seq(StageType) /\ NoTrialDown(pr.todo)
    BY <1>3, <2>1, AutoConnectNone
  <2> HIDE DEF pr
  <2>3. TrialDownSound(pr)
    BY <2>2, NoneFirst DEF TrialDownSound
  <2> QED BY <2>1, <2>3, FreshSound
<1> QED BY <1>4, <1>5, <1>6

-----------------------------------------------------------------------------
(* The steps keep the invariant.                                           *)

\* What the guards of the commands that queue a trial down have seen.
LEMMA SeenIsSo ==
  ASSUME NEW ph \in Phases, NEW other \in Phases, ph # "cluster",
         other # "cluster", Present(ph), ~Present(other)
  PROVE  tf[other] = {}
BY DEF Present, LocalState

LEMMA DownStagesSound ==
  ASSUME ~Present("gateway")
  PROVE  /\ DownStages \in Seq(StageType)
         /\ TrialDownFirst(DownStages)
         /\ DownStages # <<>> /\ TrialDown(Head(DownStages)) =>
              /\ Head(DownStages).of \subseteq {"bnk", "testing"}
              /\ tf["gateway"] = {}
<1> DEFINE trial   == {ph \in {"bnk", "testing"} : Present(ph)}
           first   == IF trial # {} THEN <<Down(trial)>> ELSE <<>>
           tgw     == IF Present("tgw") THEN <<Down({"tgw"})>> ELSE <<>>
           cluster == IF ClusterResidual THEN <<Down({"cluster"})>> ELSE <<>>
<1>1. /\ trial \in SUBSET Phases /\ {"tgw"} \in SUBSET Phases
      /\ {"cluster"} \in SUBSET Phases
  BY DEF Phases
<1>2. tgw \in Seq(StageType) /\ NoTrialDown(tgw)
  <2>1. CASE Present("tgw")
    BY <2>1, <1>1, StageTypes, SingleStage DEF Down, Stage, TrialDown
  <2>2. CASE ~Present("tgw")
    BY <2>2 DEF NoTrialDown
  <2> QED BY <2>1, <2>2
<1>3. cluster \in Seq(StageType) /\ NoTrialDown(cluster)
  <2>1. CASE ClusterResidual
    BY <2>1, <1>1, StageTypes, SingleStage DEF Down, Stage, TrialDown
  <2>2. CASE ~ClusterResidual
    BY <2>2 DEF NoTrialDown
  <2> QED BY <2>1, <2>2
<1>4. CASE trial = {}
  <2>1. first = <<>>
    BY <1>4
  <2> HIDE DEF tgw, cluster
  <2>2. DownStages = tgw \o cluster
    BY <1>2, <2>1 DEF DownStages, tgw, cluster
  <2>3. DownStages \in Seq(StageType) /\ NoTrialDown(DownStages)
    BY <1>2, <1>3, <2>2, ConcatFirst, NoneFirst
  <2> QED BY <2>3, NoneFirst
<1>5. CASE trial # {}
  <2>1. first = <<Down(trial)>> /\ Down(trial) \in StageType
    BY <1>1, <1>5, StageTypes
  <2> HIDE DEF trial, tgw, cluster
  <2>2. DownStages = (first \o tgw) \o cluster
    BY DEF DownStages, first, trial, tgw, cluster
  <2> HIDE DEF first
  <2>3. first \in Seq(StageType) /\ TrialDownFirst(first)
    BY <2>1, SingleStage
  <2>4. (first \o tgw) \in Seq(StageType) /\ TrialDownFirst(first \o tgw)
    BY <1>2, <2>3, ConcatFirst
  <2>5. DownStages \in Seq(StageType) /\ TrialDownFirst(DownStages)
    <3> DEFINE two == first \o tgw
    <3>1. two \in Seq(StageType) /\ TrialDownFirst(two)
      BY <2>4
    <3> HIDE DEF two
    <3>2. two \o cluster \in Seq(StageType) /\ TrialDownFirst(two \o cluster)
      BY <1>3, <3>1, ConcatFirst
    <3> QED BY <2>2, <3>2 DEF two
  <2>6. Head(DownStages) = Down(trial)
    <3>1. Len(first) = 1 /\ first[1] = Down(trial)
      BY <2>1
    <3>2. /\ Len(first \o tgw) >= 1 /\ (first \o tgw)[1] = Down(trial)
          /\ (first \o tgw) \in Seq(StageType)
      BY <1>2, <2>3, <3>1
    <3> QED BY <1>3, <2>2, <3>2
  <2>7. TrialDown(Down(trial)) => "bnk" \in trial
    BY DEF TrialDown, Down, Stage
  <2>8. "bnk" \in trial => tf["gateway"] = {}
    BY SeenIsSo DEF trial, Phases
  <2>9. Head(DownStages).of \subseteq {"bnk", "testing"}
    BY <2>6 DEF Down, Stage, trial
  <2> QED BY <2>5, <2>6, <2>7, <2>8, <2>9
<1> QED BY <1>4, <1>5

LEMMA InvokeSafe ==
  ASSUME SoleTerminal, SafeInv, NEW p \in Procs, Invoke(p), TypeInv'
  PROVE  SafeInv'
<1> DEFINE pr == proc'[p]
<1>1. /\ cfg'.flpStandalone = cfg.flpStandalone /\ UNCHANGED <<tf, outputs>>
      /\ pr.at = "enter" /\ DOMAIN pr.legs = {}
  BY InvokeSteps DEF SafeInv, TypeInv, files, NoLegs
<1>b. ASSUME NEW c, NEW stages, Begin(p, c, stages)
      PROVE  pr.todo = stages
  BY <1>b DEF Begin, Begun, Free, SafeInv, TypeInv, TypeOK
<1>r. ASSUME NEW c, Refuse(p, c) \/ NoOp(p, c)
      PROVE  pr.exit # "running"
  BY <1>r DEF Refuse, NoOp, Free, SafeInv, TypeInv, TypeOK
<1>s. ASSUME NEW of \in SUBSET Phases
      PROVE  /\ <<Up(of)>> \in Seq(StageType) /\ NoTrialDown(<<Up(of)>>)
             /\ "bnk" \notin of => /\ <<Down(of)>> \in Seq(StageType)
                                   /\ NoTrialDown(<<Down(of)>>)
  BY StageTypes, SingleStage DEF TrialDown, Up, Down, Stage
<1>q. ASSUME NEW c, NEW stages \in Seq(StageType), NoTrialDown(stages),
             Begin(p, c, stages)
      PROVE  TrialDownSound(pr)
  BY <1>q, <1>b, NoneFirst DEF TrialDownSound
<1>p. /\ {"cluster"} \in SUBSET Phases /\ {"bnk"} \in SUBSET Phases
      /\ {"bnk", "testing"} \in SUBSET Phases /\ {"testing"} \in SUBSET Phases
      /\ {"gateway"} \in SUBSET Phases /\ {"flp"} \in SUBSET Phases
      /\ {"tgw"} \in SUBSET Phases
  BY DEF Phases
<1>e. <<>> \in Seq(StageType) /\ NoTrialDown(<<>>)
  BY DEF NoTrialDown
<1>c. \A s, t \in Seq(StageType) : NoTrialDown(s) /\ NoTrialDown(t) =>
        s \o t \in Seq(StageType) /\ NoTrialDown(s \o t)
  BY ConcatFirst, NoneFirst
<1> HIDE DEF pr
<1>2. pr.exit # "running" \/ TrialDownSound(pr)
  <2>1. CASE RunUp(p)
    BY <2>1, <1>q, <1>s, <1>p, <1>e, <1>c DEF RunUp
  <2>2. CASE RunDown(p)
    <3>1. CASE ~Present("gateway") /\ Begin(p, "down", DownStages)
      BY <3>1, <1>b, DownStagesSound DEF TrialDownSound
    <3> QED BY <2>2, <3>1, <1>r DEF RunDown
  <2>3. CASE RunApply(p)
    <3>1. <<Apply>> \in Seq(StageType) /\ NoTrialDown(<<Apply>>)
      BY StageTypes, SingleStage DEF TrialDown, Apply, Stage
    <3> QED BY <2>3, <3>1, <1>q DEF RunApply
  <2>4. CASE RunClusterUp(p) \/ RunClusterDown(p)
    BY <2>4, <1>q, <1>s, <1>p DEF RunClusterUp, RunClusterDown
  <2>5. CASE RunClusterRegister(p)
    <3>1. <<Register>> \in Seq(StageType) /\ NoTrialDown(<<Register>>)
      BY StageTypes, SingleStage DEF TrialDown, Register, Stage
    <3> QED BY <2>5, <3>1, <1>q DEF RunClusterRegister
  <2>6. CASE RunBnkUp(p)
    BY <2>6, <1>q, <1>s, <1>p, <1>e, <1>c DEF RunBnkUp
  <2>7. CASE RunBnkDown(p)
    <3>1. CASE TrialShape /\ ~Present("gateway")
               /\ Begin(p, "bnk down", <<Down({"bnk"})>>)
      <4>1. tf["gateway"] = {}
        BY <3>1, SeenIsSo DEF TrialShape, Present, Phases
      <4>2. Down({"bnk"}) \in StageType
        BY <1>p, StageTypes
      <4>3. TrialDownFirst(<<Down({"bnk"})>>) /\ Head(<<Down({"bnk"})>>) = Down({"bnk"})
        BY <4>2, SingleStage
      <4>4. pr.todo = <<Down({"bnk"})>>
        BY <3>1, <1>b
      <4>5. Down({"bnk"}).of = {"bnk"}
        BY DEF Down, Stage
      <4> QED BY <4>1, <4>3, <4>4, <4>5 DEF TrialDownSound
    <3> QED BY <2>7, <3>1, <1>r DEF RunBnkDown
  <2>8. CASE RunTestingUp(p) \/ RunTestingDown(p)
    BY <2>8, <1>q, <1>r, <1>s, <1>p DEF RunTestingUp, RunTestingDown
  <2>9. CASE RunGatewayUp(p) \/ RunGatewayDown(p)
    BY <2>9, <1>q, <1>r, <1>s, <1>p DEF RunGatewayUp, RunGatewayDown
  <2>10. CASE RunFLPUp(p) \/ RunFLPDown(p)
    BY <2>10, <1>q, <1>r, <1>s, <1>p DEF RunFLPUp, RunFLPDown
  <2>11. CASE RunTGWConnect(p) \/ RunTGWDisconnect(p)
    <3>1. CASE proc' = [proc EXCEPT ![p] = Begun("tgw connect", <<Up({"tgw"})>>)]
      <4>1. pr.todo = <<Up({"tgw"})>>
        BY <3>1 DEF pr, Begun, Free, SafeInv, TypeInv, TypeOK
      <4> QED BY <4>1, <1>s, <1>p, NoneFirst DEF TrialDownSound
    <3> QED BY <2>11, <3>1, <1>q, <1>r, <1>s, <1>p
            DEF RunTGWConnect, RunTGWDisconnect
  <2> QED BY <2>1, <2>2, <2>3, <2>4, <2>5, <2>6, <2>7, <2>8, <2>9, <2>10,
             <2>11 DEF Invoke
<1>3. CommandSound(pr)
  BY <1>1, <1>2, FreshSound
<1> QED BY <1>1, <1>3, SafeKept DEF pr

\* The next stage of a command starts sound, whichever way this one ended.
LEMMA LeaveStage ==
  ASSUME SoleTerminal, SafeInv, NEW p \in Procs, TypeInv', Running(p),
         proc[p].todo # <<>>, UNCHANGED <<cfg, tf, outputs>>,
         \/ Step(p, NextStage(proc[p])) \/ Step(p, FailStage(proc[p]))
         \/ Step(p, [NextStage(proc[p]) EXCEPT !.todo = AutoConnectStages \o @])
  PROVE  SafeInv'
<1>1. CommandSound(proc'[p])
  BY NextStageSound, StepAlone DEF SafeInv, TypeInv
<1> QED BY <1>1, SafeKept

\* Terraform starts, in a stage that has it and towards the stage's goals.
LEMMA StartSound ==
  ASSUME SoleTerminal, SafeInv, NEW p \in Procs, TypeInv', Running(p),
         proc[p].todo # <<>>, UNCHANGED files, NEW legs, StartLegs(p, legs),
         LegsSound([proc[p] EXCEPT !.at = "run", !.legs = legs]),
         ClusterDown(Head1(p)) => \A ph \in Dependents : tf[ph] = {}
  PROVE  SafeInv'
<1> DEFINE pr == [proc[p] EXCEPT !.at = "run", !.legs = legs]
<1>1. proc[p] \in ProcType
  BY DEF SafeInv, TypeInv, TypeOK
<1>2. pr.todo = proc[p].todo /\ pr.exit = proc[p].exit
  BY <1>1 DEF ProcType
<1>3. proc'[p] = pr
  BY StepAlone DEF StartLegs, SafeInv, TypeInv
<1>4. LegsSound(pr)
  OBVIOUS
<1> HIDE DEF pr
<1>5. ClusterDownSound(pr) /\ TrialDownSound(pr)
  BY <1>2 DEF ClusterDownSound, TrialDownSound, SafeInv, CommandSound, Head1
<1> QED BY <1>3, <1>4, <1>5, SafeKept DEF CommandSound, files

\* The legs that start are those of the stage, each with the goal given.
LEMMA LegsOf ==
  ASSUME TypeInv, NEW p \in Procs, NEW legs \in LegsType, NEW st,
         st = Head1(p), DOMAIN legs \subseteq st.of,
         \A ph \in DOMAIN legs :
           /\ legs[ph] = {} => st.op = "down"
           /\ st.op = "down" => legs[ph] = {}
           /\ ph = "cluster" => st.of = {"cluster"} /\ legs[ph] \in {{}, ClusterGoal}
           /\ ph = "bnk" => legs[ph] = {} \/ "layer" \in legs[ph]
           /\ NeedsRecord(ph) /\ legs[ph] # {} => outputs # "none"
           /\ NeedsRecord(ph) \/ ph = "bnk" => outputs # "stale"
  PROVE  LegsSound([proc[p] EXCEPT !.at = "run", !.legs = legs])
<1> DEFINE pr == [proc[p] EXCEPT !.at = "run", !.legs = legs]
<1>1. pr.todo = proc[p].todo /\ pr.legs = legs
  BY DEF TypeInv, TypeOK, ProcType
<1> HIDE DEF pr
<1>2. LegsSound(pr)
  BY <1>1 DEF LegsSound, Head1
<1> QED BY <1>2 DEF pr

\* A phase whose plan has resolved its cluster has no stale record.
LEMMA ResolvedFresh ==
  ASSUME NEW ph, Resolves(ph), NeedsRecord(ph) \/ ph = "bnk"
  PROVE  outputs # "stale"
BY DEF Resolves, NeedsRecord

\* Before the record of a stage is written, none of its terraform runs is left.
LEMMA RecordSound ==
  ASSUME SoleTerminal, SafeInv, NEW p \in Procs, TypeInv', Running(p),
         proc[p].todo # <<>>, DOMAIN proc[p].legs = {}, UNCHANGED files,
         Step(p, [proc[p] EXCEPT !.at = "record"]),
         ClusterDown(Head1(p)) => \A ph \in Dependents : tf[ph] = {}
  PROVE  SafeInv'
<1> DEFINE pr == [proc[p] EXCEPT !.at = "record"]
<1>1. proc[p] \in ProcType
  BY DEF SafeInv, TypeInv, TypeOK
<1>2. /\ pr.todo = proc[p].todo /\ pr.exit = proc[p].exit
      /\ pr.legs = proc[p].legs
  BY <1>1 DEF ProcType
<1>3. proc'[p] = pr
  BY StepAlone DEF SafeInv, TypeInv
<1> HIDE DEF pr
<1>4. ClusterDownSound(pr) /\ TrialDownSound(pr) /\ LegsSound(pr)
  BY <1>2 DEF ClusterDownSound, TrialDownSound, LegsSound, SafeInv,
              CommandSound, Head1
<1> QED BY <1>3, <1>4, SafeKept DEF CommandSound, files

LEMMA EnterUpSafe ==
  ASSUME SoleTerminal, SafeInv, NEW p \in Procs, TypeInv',
         NEW of \in SUBSET Phases, "cluster" \in of => of = {"cluster"},
         EnterUp(p, of)
  PROVE  SafeInv'
<1>1. /\ Running(p) /\ proc[p].todo # <<>> /\ DOMAIN proc[p].legs = {}
      /\ Head1(p).op = "up" /\ Head1(p).of = of
      /\ \A ph \in of : HandoffReady(ph) /\ Resolves(ph)
  BY DEF EnterUp, At, SafeInv, TypeInv, StagesSound
<1>2. CASE Step(p, [proc[p] EXCEPT !.at = "record"])
  <2>1. UNCHANGED files
    BY DEF EnterUp
  <2> QED BY <1>1, <1>2, <2>1, RecordSound DEF ClusterDown
<1>3. ASSUME NEW approved \in SUBSET of, StartLegs(p, ApplyLegs(approved))
      PROVE  SafeInv'
  <2>1. ApplyLegs(approved) \in LegsType
    BY LegsTypes
  <2>2. /\ DOMAIN ApplyLegs(approved) = approved
        /\ \A ph \in approved : ApplyLegs(approved)[ph] = Goal(ph)
    BY DEF ApplyLegs
  <2>3. \A ph \in approved :
          /\ Goal(ph) # {}
          /\ ph = "cluster" => Goal(ph) = ClusterGoal
          /\ ph = "bnk" => "layer" \in Goal(ph)
          /\ NeedsRecord(ph) => outputs # "none"
          /\ NeedsRecord(ph) \/ ph = "bnk" => outputs # "stale"
    BY <1>1, ResolvedFresh DEF Goal, ClusterGoal, BnkGoal, HandoffReady
  <2>4. LegsSound([proc[p] EXCEPT !.at = "run", !.legs = ApplyLegs(approved)])
    <3> DEFINE legs == ApplyLegs(approved)
    <3> HIDE DEF legs
    <3>1. /\ legs \in LegsType /\ DOMAIN legs \subseteq of
          /\ \A ph \in DOMAIN legs : legs[ph] = Goal(ph) /\ ph \in approved
      BY <2>1, <2>2 DEF legs
    <3>2. \A ph \in DOMAIN legs :
            /\ legs[ph] # {} /\ Head1(p).op # "down"
            /\ ph = "cluster" => Head1(p).of = {"cluster"} /\ legs[ph] = ClusterGoal
            /\ ph = "bnk" => "layer" \in legs[ph]
            /\ NeedsRecord(ph) => outputs # "none"
            /\ NeedsRecord(ph) \/ ph = "bnk" => outputs # "stale"
      BY <1>1, <2>3, <3>1
    <3>3. DOMAIN legs \subseteq Head1(p).of
      BY <1>1, <3>1
    <3>4. LegsSound([proc[p] EXCEPT !.at = "run", !.legs = legs])
      BY <3>1, <3>2, <3>3, LegsOf DEF SafeInv
    <3> QED BY <3>4 DEF legs
  <2>5. UNCHANGED files
    BY DEF EnterUp
  <2> QED BY <1>1, <1>3, <2>4, <2>5, StartSound DEF ClusterDown
<1> QED BY <1>2, <1>3 DEF EnterUp

LEMMA EnterDownSafe ==
  ASSUME SoleTerminal, SafeInv, NEW p \in Procs, TypeInv',
         EnterDown(p) \/ EnterDownCluster(p)
  PROVE  SafeInv'
<1>1. ASSUME NEW of \in SUBSET Phases, of # {}, Running(p), proc[p].todo # <<>>,
             Head1(p).op = "down", Head1(p).of = of,
             "cluster" \in of => of = {"cluster"},
             \A ph \in of : NeedsRecord(ph) \/ ph = "bnk" => outputs # "stale"
      PROVE  LegsSound([proc[p] EXCEPT !.at = "run", !.legs = DestroyLegs(of)])
  <2>1. DestroyLegs(of) \in LegsType
    BY LegsTypes
  <2>2. /\ DOMAIN DestroyLegs(of) = of
        /\ \A ph \in of : DestroyLegs(of)[ph] = {}
    BY DEF DestroyLegs
  <2> QED BY <1>1, <2>1, <2>2, LegsOf DEF SafeInv
<1>2. CASE EnterDown(p)
  <2>1. PICK of \in (SUBSET Dependents) \ {{}} :
          /\ At(p, "enter", "down", of)
          /\ \A ph \in of : Resolves(ph)
          /\ StartLegs(p, DestroyLegs(of)) /\ UNCHANGED files
    BY <1>2 DEF EnterDown
  <2>2. /\ of \in SUBSET Phases /\ of # {} /\ "cluster" \notin of
        /\ Running(p) /\ proc[p].todo # <<>>
        /\ Head1(p).op = "down" /\ Head1(p).of = of
    BY <2>1 DEF At, Dependents
  <2>3. \A ph \in of : NeedsRecord(ph) \/ ph = "bnk" => outputs # "stale"
    BY <2>1, ResolvedFresh
  <2> QED BY <2>1, <2>2, <2>3, <1>1, StartSound DEF ClusterDown
<1>3. CASE EnterDownCluster(p)
  <2>1. /\ Running(p) /\ proc[p].todo # <<>> /\ UNCHANGED files
        /\ Head1(p).op = "down" /\ Head1(p).of = {"cluster"}
        /\ \A ph \in Dependents : ~Present(ph)
    BY <1>3 DEF EnterDownCluster, At, ClusterDownRefused
  <2>2. CASE ClusterResidual /\ StartLegs(p, DestroyLegs({"cluster"}))
    <3>1. \A ph \in Dependents : tf[ph] = {}
      BY <2>1, <2>2 DEF ClusterResidual, Present, LocalState, Dependents
    <3>2. {"cluster"} \in SUBSET Phases
      BY DEF Phases
    <3>3. ~NeedsRecord("cluster")
      BY DEF NeedsRecord
    <3> QED BY <2>1, <2>2, <3>1, <3>2, <3>3, <1>1, StartSound
  <2>3. CASE Step(p, NextStage(proc[p]))
    BY <2>1, <2>3, LeaveStage DEF files
  <2> QED BY <1>3, <2>2, <2>3 DEF EnterDownCluster
<1> QED BY <1>2, <1>3

\* The record may change when what replaces it will do, and no terraform run
\* relies on the old one.
LEMMA RecordChanges ==
  ASSUME SoleTerminal, SafeInv, NEW p \in Procs, TypeInv', Running(p),
         proc[p].todo # <<>>, UNCHANGED <<cfg, tf>>,
         \/ Step(p, NextStage(proc[p]))
         \/ Step(p, [NextStage(proc[p]) EXCEPT !.todo = AutoConnectStages \o @]),
         \/ outputs' \in {"own", "trial", "registered", outputs}
         \/ \A ph \in Dependents : tf[ph] = {}
  PROVE  SafeInv'
<1>1. CommandSound(proc'[p]) /\ DOMAIN proc'[p].legs = {}
  <2>1. proc[p] \in ProcType /\ NextStage(proc[p]) \in ProcType
    BY NextStageType DEF SafeInv, TypeInv, TypeOK
  <2> DEFINE pr == [NextStage(proc[p]) EXCEPT !.todo = AutoConnectStages \o @]
  <2>2. DOMAIN NextStage(proc[p]).legs = {}
    BY <2>1, NextStageFresh
  <2>3. pr.legs = NextStage(proc[p]).legs
    BY <2>1 DEF ProcType
  <2>4. CommandSound(pr) /\ CommandSound(NextStage(proc[p]))
    BY NextStageSound
  <2>5. proc'[p] = pr \/ proc'[p] = NextStage(proc[p])
    BY StepAlone DEF SafeInv, TypeInv
  <2> HIDE DEF pr
  <2> QED BY <2>2, <2>3, <2>4, <2>5
<1>2. CommandSound(proc[p])'
  BY <1>1 DEF CommandSound, LegsSound, ClusterDownSound, TrialDownSound
<1>3. (\A q \in Procs : CommandSound(proc[q]))'
  BY <1>2 DEF SoleTerminal
<1>4. DependentsHaveRecord'
  BY DEF SafeInv, DependentsHaveRecord, NeedsRecord, Dependents, Usable
<1> QED BY <1>3, <1>4 DEF SafeInv

LEMMA EnterSafe ==
  ASSUME SoleTerminal, SafeInv, NEW p \in Procs, TypeInv', Enter(p)
  PROVE  SafeInv'
<1>p. /\ {"cluster"} \in SUBSET Phases /\ {"bnk"} \in SUBSET Phases
      /\ {"bnk", "testing"} \in SUBSET Phases /\ {"testing"} \in SUBSET Phases
      /\ {"gateway"} \in SUBSET Phases /\ {"flp"} \in SUBSET Phases
      /\ {"tgw"} \in SUBSET Phases
  BY DEF Phases
<1>1. CASE EnterUpTrial(p)
  BY <1>1, <1>p, EnterUpSafe DEF EnterUpTrial
<1>2. CASE EnterUpTesting(p) \/ EnterUpGateway(p) \/ EnterUpFLP(p)
  BY <1>2, <1>p, EnterUpSafe DEF EnterUpTesting, EnterUpGateway, EnterUpFLP
<1>3. CASE EnterUpTGW(p)
  BY <1>3, <1>p, EnterUpSafe, LeaveStage DEF EnterUpTGW, At
<1>4. CASE EnterUpCluster(p)
  <2>1. CASE EnterUp(p, {"cluster"})
    BY <2>1, <1>p, EnterUpSafe
  <2>2. CASE ~EnterUp(p, {"cluster"})
    <3> DEFINE rest == Tail(proc[p].todo)
               pr   == [proc[p] EXCEPT !.todo = <<Register>> \o Tail(@)]
    <3>1. /\ Running(p) /\ proc[p].todo # <<>> /\ UNCHANGED files /\ Step(p, pr)
          /\ DOMAIN proc[p].legs = {} /\ proc[p].at = "enter"
      BY <1>4, <2>2 DEF EnterUpCluster, At, SafeInv, TypeInv, StagesSound
    <3>2. proc[p] \in ProcType /\ proc[p].todo \in Seq(StageType)
      BY DEF SafeInv, TypeInv, TypeOK, ProcType
    <3>3. rest \in Seq(StageType) /\ NoTrialDown(rest)
      <4>1. TrialDownFirst(proc[p].todo)
        BY <3>1 DEF SafeInv, CommandSound, TrialDownSound, Running
      <4> QED BY <3>1, <3>2, <4>1, TailNone
    <3>4. /\ pr.todo = <<Register>> \o rest
          /\ pr.at = "enter" /\ DOMAIN pr.legs = {}
      BY <3>1, <3>2 DEF ProcType
    <3> HIDE DEF pr, rest
    <3>5. /\ <<Register>> \in Seq(StageType) /\ TrialDownFirst(<<Register>>)
          /\ NoTrialDown(<<Register>>)
      BY StageTypes, SingleStage DEF TrialDown, Register, Stage
    <3>6. pr.todo \in Seq(StageType) /\ NoTrialDown(pr.todo)
      <4> DEFINE reg == <<Register>>
      <4>1. /\ reg \in Seq(StageType) /\ TrialDownFirst(reg) /\ NoTrialDown(reg)
            /\ pr.todo = reg \o rest
        BY <3>4, <3>5
      <4> HIDE DEF reg
      <4> QED BY <3>3, <4>1, ConcatFirst
    <3>7. CommandSound(pr)
      <4>1. TrialDownSound(pr)
        BY <3>6, NoneFirst DEF TrialDownSound
      <4> QED BY <3>4, <4>1, FreshSound
    <3>8. proc'[p] = pr
      BY <3>1, StepAlone DEF SafeInv, TypeInv
    <3> QED BY <3>1, <3>7, <3>8, SafeKept DEF files
  <2> QED BY <2>1, <2>2
<1>5. CASE EnterApply(p)
  <2>1. /\ Running(p) /\ proc[p].todo # <<>> /\ UNCHANGED files
        /\ Head1(p).op = "apply" /\ Head1(p).of = {"bnk"}
        /\ HandoffReady("bnk") /\ Resolves("bnk")
        /\ StartLegs(p, ApplyLegs({"bnk"}))
    BY <1>5 DEF EnterApply, At
  <2> DEFINE legs == ApplyLegs({"bnk"})
  <2>2. /\ legs \in LegsType /\ DOMAIN legs = {"bnk"}
        /\ "layer" \in legs["bnk"] /\ (NeedsRecord("bnk") => outputs # "none")
        /\ outputs # "stale"
    BY <1>p, <2>1, LegsTypes, ResolvedFresh
       DEF ApplyLegs, Goal, BnkGoal, HandoffReady
  <2>3. StartLegs(p, legs)
    BY <2>1
  <2> HIDE DEF legs
  <2>4. LegsSound([proc[p] EXCEPT !.at = "run", !.legs = legs])
    BY <2>1, <2>2, LegsOf DEF SafeInv
  <2> QED BY <2>1, <2>3, <2>4, StartSound DEF ClusterDown
<1>6. CASE EnterRegister(p)
  BY <1>6, RecordChanges DEF EnterRegister, At
<1>7. CASE EnterDown(p) \/ EnterDownCluster(p)
  BY <1>7, EnterDownSafe
<1>8. CASE FailEntry(p)
  BY <1>8, LeaveStage DEF FailEntry, files
<1> QED BY <1>1, <1>2, <1>3, <1>4, <1>5, <1>6, <1>7, <1>8 DEF Enter

\* What a terraform run that is at work may rely on.
LEMMA LegFacts ==
  ASSUME SafeInv, NEW p \in Procs, NEW ph \in Phases, RunningLeg(p, ph)
  PROVE  LET goal == proc[p].legs[ph] IN
         /\ goal \in SUBSET Resources
         /\ ph \in Head1(p).of
         /\ goal = {} <=> Head1(p).op = "down"
         /\ ph = "cluster" => Head1(p).of = {"cluster"} /\ goal \in {{}, ClusterGoal}
         /\ ph = "bnk" => goal = {} \/ "layer" \in goal
         /\ NeedsRecord(ph) /\ goal # {} => outputs # "none"
         /\ NeedsRecord(ph) \/ ph = "bnk" => outputs # "stale"
         /\ ClusterDown(Head1(p)) => \A d \in Dependents : tf[d] = {}
         /\ TrialDown(Head1(p)) => /\ Head1(p).of \subseteq {"bnk", "testing"}
                                   /\ tf["gateway"] = {}
<1>1. /\ Running(p) /\ proc[p].at = "run" /\ ph \in DOMAIN proc[p].legs
      /\ proc[p].todo # <<>>
  BY DEF RunningLeg, SafeInv, TypeInv, StagesSound
<1>2. proc[p].legs[ph] \in SUBSET Resources
  BY <1>1, LegsElim DEF SafeInv, TypeInv, TypeOK, ProcType, LegsType
<1>3. LegsSound(proc[p]) /\ ClusterDownSound(proc[p]) /\ TrialDownSound(proc[p])
  BY DEF SafeInv, CommandSound
<1> QED BY <1>1, <1>2, <1>3
        DEF LegsSound, ClusterDownSound, TrialDownSound, Head1, Running

LEMMA ConvergeSafe ==
  ASSUME SoleTerminal, SafeInv, NEW p \in Procs, NEW ph \in Phases, TypeInv',
         Converge(p, ph)
  PROVE  SafeInv'
<1> DEFINE goal == proc[p].legs[ph]
<1>t. /\ tf \in [Phases -> SUBSET Resources] /\ outputs \in OutputsValues
      /\ tf' \in [Phases -> SUBSET Resources]
  BY DEF SafeInv, TypeInv, TypeOK
<1>1. /\ RunningLeg(p, ph) /\ UNCHANGED <<cfg, proc>>
      /\ \A x \in Phases \ {ph} : tf'[x] = tf[x]
      /\ \/ UNCHANGED outputs /\ goal # {} /\ \E r \in goal : tf'[ph] = tf[ph] \cup {r}
         \/ \E r \in tf[ph] \ goal :
              /\ tf'[ph] = tf[ph] \ {r}
              /\ outputs' = OutputsAfter(ph, r)
  BY <1>t DEF Converge, Creatable, Destroyable
<1>2. /\ ph \in Head1(p).of
      /\ goal = {} <=> Head1(p).op = "down"
      /\ ph = "cluster" => Head1(p).of = {"cluster"} /\ goal \in {{}, ClusterGoal}
      /\ NeedsRecord(ph) /\ goal # {} => outputs # "none"
      /\ NeedsRecord(ph) \/ ph = "bnk" => outputs # "stale"
      /\ ClusterDown(Head1(p)) => \A d \in Dependents : tf[d] = {}
      /\ TrialDown(Head1(p)) => /\ Head1(p).of \subseteq {"bnk", "testing"}
                                /\ tf["gateway"] = {}
  BY <1>1, LegFacts
<1> HIDE DEF goal
<1>3. tf'["cluster"] \subseteq ClusterGoal
  BY <1>1, <1>2 DEF SafeInv, Phases
<1>o. \/ outputs' = outputs
      \/ /\ outputs = "own" /\ outputs' = "stale"
         /\ ph = "cluster" /\ ClusterDown(Head1(p))
      \/ outputs = "trial" /\ outputs' = "lost"
  BY <1>1, <1>2 DEF OutputsAfter, ClusterGoal, ClusterDown
<1>4. \/ outputs' \in {outputs, "lost"}
      \/ \A d \in Dependents : tf[d] = {}
  BY <1>2, <1>o
<1>5. DependentsHaveRecord'
  <2>1. ~NeedsRecord("cluster") /\ \A x \in Phases : NeedsRecord(x)' = NeedsRecord(x)
    BY <1>1 DEF NeedsRecord
  <2> SUFFICES ASSUME NEW x \in Phases, NeedsRecord(x), tf'[x] # {}
               PROVE  Usable' \/ outputs' = "lost"
    BY <2>1 DEF DependentsHaveRecord
  <2>2. x \in Dependents
    BY <2>1 DEF Dependents
  <2>3. CASE tf[x] # {}
    BY <1>4, <2>2, <2>3 DEF SafeInv, DependentsHaveRecord, Usable
  <2>4. CASE tf[x] = {}
    <3>1. x = ph /\ goal # {} /\ UNCHANGED outputs
      BY <1>1, <2>4
    <3> QED BY <1>t, <1>2, <3>1 DEF OutputsValues, Usable
  <2> QED BY <2>3, <2>4
<1>6. CommandSound(proc[p])'
  <2>1. LegsSound(proc[p])'
    <3>1. outputs' = "none" => outputs = "none"
      BY <1>o
    <3>2. LegsSound(proc[p])
      BY DEF SafeInv, CommandSound
    <3>3. CASE outputs' = "stale" => outputs = "stale"
      BY <1>1, <3>1, <3>2, <3>3 DEF LegsSound, NeedsRecord
    <3>4. CASE ph = "cluster"
      <4>1. Head1(p).of = {"cluster"}
        BY <1>2, <3>4
      <4>2. \A x \in DOMAIN proc[p].legs : x = "cluster"
        BY <3>2, <4>1 DEF LegsSound, Head1
      <4> QED BY <1>1, <3>1, <3>2, <4>2 DEF LegsSound, NeedsRecord
    <3> QED BY <1>o, <3>3, <3>4
  <2>2. ClusterDownSound(proc[p])'
    <3>1. ClusterDown(Head1(p)) => \A d \in Dependents : tf'[d] = {}
      BY <1>1, <1>2 DEF ClusterDown, Dependents
    <3> QED BY <1>1, <3>1 DEF ClusterDownSound, Head1
  <2>3. TrialDownSound(proc[p])'
    <3>1. TrialDown(Head1(p)) => tf'["gateway"] = {}
      BY <1>1, <1>2 DEF Phases
    <3>2. TrialDownSound(proc[p])
      BY DEF SafeInv, CommandSound
    <3> QED BY <1>1, <3>1, <3>2 DEF TrialDownSound, Head1
  <2> QED BY <2>1, <2>2, <2>3 DEF CommandSound
<1>7. (\A q \in Procs : CommandSound(proc[q]))'
  BY <1>6 DEF SoleTerminal
<1> QED BY <1>3, <1>5, <1>7 DEF SafeInv

LEMMA TerraformSafe ==
  ASSUME SoleTerminal, SafeInv, NEW p \in Procs, TypeInv', Terraform(p) \/ Wait(p)
  PROVE  SafeInv'
<1>t. proc[p] \in ProcType
  BY DEF SafeInv, TypeInv, TypeOK
<1>1. ASSUME NEW ph \in Phases, Converge(p, ph) PROVE SafeInv'
  BY <1>1, ConvergeSafe
<1>2. ASSUME NEW ph \in Phases, LegDone(p, ph) \/ LegFail(p, ph) PROVE SafeInv'
  <2>1. UNCHANGED files /\ proc[p].at = "run"
    BY <1>2 DEF LegDone, LegFail, RunningLeg
  <2> DEFINE pr == proc'[p]
  <2>2. /\ pr.todo = proc[p].todo /\ pr.exit = proc[p].exit
        /\ pr.at = proc[p].at
        /\ DOMAIN pr.legs \subseteq DOMAIN proc[p].legs
        /\ \A x \in DOMAIN pr.legs : pr.legs[x] = proc[p].legs[x]
    <3>1. /\ WithoutLeg(proc[p], ph) \in ProcType
          /\ WithoutLeg(proc[p], ph).todo = proc[p].todo
          /\ WithoutLeg(proc[p], ph).exit = proc[p].exit
          /\ WithoutLeg(proc[p], ph).at = proc[p].at
          /\ WithoutLeg(proc[p], ph).legs
               = [x \in DOMAIN proc[p].legs \ {ph} |-> proc[p].legs[x]]
      BY <1>t, WithoutLegType DEF WithoutLeg, ProcType
    <3>2. \/ pr = WithoutLeg(proc[p], ph)
          \/ pr = [WithoutLeg(proc[p], ph) EXCEPT !.failed = TRUE]
      BY <1>2, StepAlone DEF LegDone, LegFail, SafeInv, TypeInv
    <3> DEFINE wl == WithoutLeg(proc[p], ph)
    <3> HIDE DEF wl, pr
    <3>3. /\ pr.todo = wl.todo /\ pr.exit = wl.exit /\ pr.at = wl.at
          /\ pr.legs = wl.legs
      BY <3>1, <3>2 DEF ProcType, wl
    <3> QED BY <3>1, <3>3 DEF wl
  <2> HIDE DEF pr
  <2>3. CommandSound(pr)
    <3>1. CommandSound(proc[p])
      BY DEF SafeInv
    <3> QED BY <2>2, <3>1
            DEF CommandSound, LegsSound, ClusterDownSound, TrialDownSound
  <2> QED BY <2>1, <2>3, SafeKept DEF pr, files
<1>3. CASE Wait(p)
  <2>1. /\ Running(p) /\ proc[p].at = "run" /\ DOMAIN proc[p].legs = {}
        /\ proc[p].todo # <<>> /\ UNCHANGED files
    BY <1>3 DEF Wait, NoLegs, SafeInv, TypeInv, StagesSound
  <2>2. ClusterDown(Head1(p)) => \A ph \in Dependents : tf[ph] = {}
    BY <2>1 DEF SafeInv, CommandSound, ClusterDownSound, Head1, Running
  <2> QED BY <1>3, <2>1, <2>2, RecordSound, LeaveStage DEF Wait, files
<1> QED BY <1>1, <1>2, <1>3 DEF Terraform

LEMMA RecordSafe ==
  ASSUME SoleTerminal, SafeInv, NEW p \in Procs, TypeInv', Record(p)
  PROVE  SafeInv'
<1>1. CASE RecordCluster(p)
  BY <1>1, RecordChanges DEF RecordCluster, At
<1>2. CASE RecordHandoff(p) \/ RecordNothing(p) \/ DeleteHandoff(p)
  BY <1>2, LeaveStage
     DEF RecordHandoff, RecordNothing, DeleteHandoff, At, files
<1>3. CASE DeleteClusterOutputs(p)
  <2>1. \A ph \in Dependents : tf[ph] = {}
    BY <1>3 DEF DeleteClusterOutputs, At, SafeInv, CommandSound,
                ClusterDownSound, ClusterDown, Head1, Running
  <2> QED BY <1>3, <2>1, RecordChanges DEF DeleteClusterOutputs, At
<1> QED BY <1>1, <1>2, <1>3 DEF Record

LEMMA EndSafe ==
  ASSUME SoleTerminal, SafeInv, NEW p \in Procs, TypeInv', Return(p) \/ Crash(p)
  PROVE  SafeInv'
<1>t. proc[p] \in ProcType
  BY DEF SafeInv, TypeInv, TypeOK
<1>1. DOMAIN proc'[p].legs = {} /\ proc'[p].exit # "running"
  <2>1. CASE Return(p)
    <3>1. DOMAIN proc[p].legs = {}
      BY <2>1 DEF Return, SafeInv, TypeInv, StagesSound
    <3>2. proc'[p] = [proc[p] EXCEPT !.exit = "ok"]
      BY <2>1, StepAlone DEF Return, SafeInv, TypeInv
    <3> QED BY <1>t, <3>1, <3>2 DEF ProcType
  <2>2. CASE Crash(p)
    <3>1. proc'[p] = [Free EXCEPT !.cmd = proc[p].cmd, !.exit = "crashed"]
      BY <2>2, StepAlone DEF Crash, SafeInv, TypeInv
    <3> QED BY <3>1 DEF Free, NoLegs
  <2> QED BY <2>1, <2>2
<1>2. CommandSound(proc'[p])
  BY <1>1, FreshSound
<1> QED BY <1>2, SafeKept DEF Return, Crash, files

-----------------------------------------------------------------------------
(* The theorems.                                                           *)

LEMMA InitSafe == Init => SafeInv
<1> SUFFICES ASSUME Init PROVE SafeInv
  OBVIOUS
<1>1. TypeInv
  BY InitTypeInv
<1>2. tf["cluster"] \subseteq ClusterGoal /\ DependentsHaveRecord
  BY DEF Init, Phases, DependentsHaveRecord
<1>3. \A p \in Procs : CommandSound(proc[p])
  BY FreshSound DEF Init, Free, NoLegs
<1> QED BY <1>1, <1>2, <1>3 DEF SafeInv

LEMMA NextSafe ==
  ASSUME SoleTerminal
  PROVE  SafeInv /\ [Next]_vars => SafeInv'
<1> SUFFICES ASSUME SafeInv, [Next]_vars PROVE SafeInv'
  OBVIOUS
<1>0. TypeInv'
  BY NextTypeInv DEF SafeInv
<1>1. CASE BeginTeardown \/ UNCHANGED vars
  <2>1. UNCHANGED <<cfg, tf, outputs, proc>>
    BY <1>1 DEF BeginTeardown, vars, files
  <2>2. DependentsHaveRecord' /\ \A p \in Procs : CommandSound(proc[p])'
    BY <2>1 DEF SafeInv, DependentsHaveRecord, NeedsRecord, Usable, CommandSound,
                LegsSound, ClusterDownSound, TrialDownSound
  <2> QED BY <1>0, <2>1, <2>2 DEF SafeInv
<1>2. ASSUME NEW p \in Procs, Invoke(p) \/ Work(p) \/ Crash(p) PROVE SafeInv'
  BY <1>0, <1>2, InvokeSafe, EnterSafe, TerraformSafe, RecordSafe, EndSafe
     DEF Work
<1> QED BY <1>1, <1>2 DEF Next

LEMMA AlwaysSafe ==
  ASSUME SoleTerminal
  PROVE  Spec => []SafeInv
<1>1. SafeInv /\ [Next]_vars => SafeInv'
  BY NextSafe
<1> QED BY <1>1, InitSafe, PTL DEF Spec

\* With one terminal at work, every phase that is torn down through the
\* cluster's record finds one, as long as it has anything left, and a usable
\* one unless it was the record of the trial's cluster and that was destroyed
\* (writeAndInit<Phase>'s check of cluster-outputs.json, runClusterDown's
\* deletion of it), for every config.yaml and any failures and kills.
THEOREM RecordKept ==
  ASSUME SoleTerminal
  PROVE  Spec => []DependentsHaveRecord
<1>1. SafeInv => DependentsHaveRecord
  BY DEF SafeInv
<1> QED BY <1>1, AlwaysSafe, PTL

\* Only a terraform run changes what the phases hold.
LEMMA OnlyTerraform ==
  ASSUME TypeInv, [Next]_vars, NEW ph \in Phases, tf'[ph] # tf[ph]
  PROVE  \E p \in Procs : Converge(p, ph)
<1>1. \/ \E p \in Procs, x \in Phases : Converge(p, x)
      \/ UNCHANGED tf
  BY ZenonT(40) DEF Next, vars, files, BeginTeardown, Invoke, Begin, Refuse, NoOp, RunUp,
         RunDown, RunApply, RunClusterUp, RunClusterRegister, RunClusterDown,
         RunBnkUp, RunBnkDown, RunTestingUp, RunTestingDown, RunGatewayUp,
         RunGatewayDown, RunFLPUp, RunFLPDown, RunTGWConnect, RunTGWDisconnect,
         Work, Enter, EnterUpTrial, EnterUpTesting, EnterUpGateway, EnterUpFLP,
         EnterUpTGW, EnterUpCluster, EnterApply, EnterRegister, EnterDown,
         EnterDownCluster, FailEntry, EnterUp, Terraform, LegDone, LegFail,
         Wait, Record, RecordCluster, RecordHandoff, RecordNothing,
         DeleteClusterOutputs, DeleteHandoff, Return, Crash
<1>2. ASSUME NEW p \in Procs, NEW x \in Phases, Converge(p, x), x # ph
      PROVE  tf'[ph] = tf[ph]
  BY <1>2 DEF Converge, TypeInv, TypeOK
<1> QED BY <1>1, <1>2

\* With one terminal at work, nothing of the cluster phase is destroyed while
\* another phase still has state (runClusterDown's guard, which only looks at
\* the phases before the destroy it guards runs).
THEOREM ClusterLast ==
  ASSUME SoleTerminal
  PROVE  Spec => ClusterDestroyedLast
<1>1. ASSUME SafeInv, [Next]_vars, Shrinks("cluster")
      PROVE  \A ph \in Dependents : tf[ph] = {}
  <2>1. PICK p \in Procs : Converge(p, "cluster")
    BY <1>1, OnlyTerraform DEF SafeInv, Shrinks, Phases
  <2> DEFINE goal == proc[p].legs["cluster"]
  <2>2. /\ goal \in {{}, ClusterGoal} /\ Head1(p).of = {"cluster"}
        /\ goal = {} <=> Head1(p).op = "down"
        /\ ClusterDown(Head1(p)) => \A ph \in Dependents : tf[ph] = {}
    BY <1>1, <2>1, LegFacts DEF Converge, Phases
  <2>3. tf \in [Phases -> SUBSET Resources] /\ tf["cluster"] \subseteq ClusterGoal
    BY <1>1 DEF SafeInv, TypeInv, TypeOK
  <2>4. goal # ClusterGoal
    BY <1>1, <2>1, <2>3 DEF Converge, Creatable, Destroyable, Shrinks, Phases
  <2> QED BY <2>2, <2>4 DEF ClusterDown
<1>2. SafeInv /\ [Next]_vars
        => [Shrinks("cluster") => \A ph \in Dependents : tf[ph] = {}]_vars
  BY <1>1
<1> QED BY <1>2, AlwaysSafe, PTL DEF Spec, ClusterDestroyedLast

\* With one terminal at work, the trial's layer is not destroyed while the
\* gateway phase has state (the guards of runBnkDown and RunDown, which only
\* look before the prompt).
THEOREM GatewayFirst ==
  ASSUME SoleTerminal
  PROVE  Spec => GatewayDestroyedFirst
<1>1. ASSUME SafeInv, [Next]_vars, "layer" \in tf["bnk"], "layer" \notin tf'["bnk"]
      PROVE  tf["gateway"] = {}
  <2>1. PICK p \in Procs : Converge(p, "bnk")
    BY <1>1, OnlyTerraform DEF SafeInv, Phases
  <2> DEFINE goal == proc[p].legs["bnk"]
  <2>2. /\ goal = {} \/ "layer" \in goal
        /\ goal = {} <=> Head1(p).op = "down"
        /\ "bnk" \in Head1(p).of
        /\ TrialDown(Head1(p)) => tf["gateway"] = {}
    BY <1>1, <2>1, LegFacts DEF Converge, Phases
  <2>3. tf \in [Phases -> SUBSET Resources]
    BY <1>1 DEF SafeInv, TypeInv, TypeOK
  <2>4. "layer" \notin goal
    BY <1>1, <2>1, <2>3 DEF Converge, Creatable, Destroyable, Phases
  <2> QED BY <2>2, <2>4 DEF TrialDown
<1>2. SafeInv /\ [Next]_vars
        => [("layer" \in tf["bnk"] /\ "layer" \notin tf'["bnk"])
              => tf["gateway"] = {}]_vars
  BY <1>1
<1> QED BY <1>2, AlwaysSafe, PTL DEF Spec, GatewayDestroyedFirst

-----------------------------------------------------------------------------
(***************************************************************************)
(* What the commands have reached when they report success, and why, with  *)
(* one terminal at work, no phase outlives the cluster it stands on: the   *)
(* refinement of ClusterHosting.                                           *)
(*                                                                         *)
(* On top of what keeps the order, the invariants say what a stage that    *)
(* is over has achieved, and that a command's queue still holds whatever   *)
(* the command has left to do.                                             *)
(***************************************************************************)

-----------------------------------------------------------------------------
(* Where the layers stand.                                                 *)

\* The record names the workspace's own cluster only while that stands.
OwnIsThere == outputs = "own" => "roks" \in tf["cluster"]

\* ... the trial's only while that stands, and not again once it has gone.
TrialIsThere == /\ outputs = "trial" => "roks" \in tf["bnk"]
                /\ outputs = "lost" => "roks" \notin tf["bnk"]

\* The trial is applied with a cluster of its own or upon another one.
LegHosted(pr) ==
  "bnk" \in DOMAIN pr.legs =>
    /\ pr.legs["bnk"] # {} =>
         "roks" \in pr.legs["bnk"] \/ outputs # "none" \/ ~cfg.create
    /\ "roks" \in pr.legs["bnk"] => outputs = "none"

\* The terraform runs of a stage that have ended well have reached their goal.
DoneSound(pr) ==
  pr.exit = "running" /\ pr.at # "enter" /\ (pr.at = "record" \/ ~pr.failed) =>
    \A ph \in Head(pr.todo).of \ DOMAIN pr.legs :
      /\ Head(pr.todo).op = "down" => tf[ph] = {}
      /\ Head(pr.todo).op = "up" /\ ph = "cluster" => tf[ph] = ClusterGoal

CommandHosted(pr) == LegHosted(pr) /\ DoneSound(pr)

HostInv ==
  /\ SafeInv
  /\ OwnIsThere
  /\ TrialIsThere
  /\ NoOrphans
  /\ \A p \in Procs : CommandHosted(proc[p])

LEMMA HeadStage ==
  ASSUME NEW todo \in Seq(StageType), todo # <<>>
  PROVE  Head(todo) \in StageType /\ Head(todo).of \subseteq Phases
<1>1. Head(todo) \in StageType
  OBVIOUS
<1>2. \A st \in StageType : st.of \subseteq Phases
  BY DEF StageType
<1> QED BY <1>1, <1>2

LEMMA FreshHosted ==
  ASSUME NEW pr, DOMAIN pr.legs = {}, pr.exit # "running" \/ pr.at = "enter"
  PROVE  CommandHosted(pr)
BY DEF CommandHosted, LegHosted, DoneSound

\* No command changes what config.yaml says of the cluster and the proxy.
SameConfig == /\ cfg'.create = cfg.create
              /\ cfg'.flpStandalone = cfg.flpStandalone
              /\ cfg'.s3 = cfg.s3

LEMMA ConfigKept ==
  ASSUME TypeOK, [Next]_vars
  PROVE  SameConfig
<1>1. ASSUME NEW p \in Procs, RunTGWConnect(p)
      PROVE  \/ UNCHANGED cfg
             \/ \E named \in BOOLEAN : cfg' = [cfg EXCEPT !.existingTGW = @ \/ named]
  BY <1>1 DEF RunTGWConnect, Refuse, files
<1>2. ASSUME NEW p \in Procs, Invoke(p), ~RunTGWConnect(p) PROVE UNCHANGED cfg
  BY <1>2 DEF Invoke, files, Begin, Refuse, NoOp, RunUp, RunDown, RunApply,
         RunClusterUp, RunClusterRegister, RunClusterDown, RunBnkUp, RunBnkDown,
         RunTestingUp, RunTestingDown, RunGatewayUp, RunGatewayDown, RunFLPUp,
         RunFLPDown, RunTGWDisconnect
<1>3. ASSUME NEW p \in Procs, Work(p) \/ Crash(p) PROVE UNCHANGED cfg
  BY <1>3 DEF files, Work, Enter, EnterUpTrial, EnterUpTesting, EnterUpGateway,
         EnterUpFLP, EnterUpTGW, EnterUpCluster, EnterApply, EnterRegister,
         EnterDown, EnterDownCluster, FailEntry, EnterUp, Terraform, Converge,
         LegDone, LegFail, Wait, Record, RecordCluster, RecordHandoff,
         RecordNothing, DeleteClusterOutputs, DeleteHandoff, Return, Crash
<1>4. ASSUME NEW named \in BOOLEAN, cfg' = [cfg EXCEPT !.existingTGW = @ \/ named]
      PROVE  SameConfig
  BY <1>4 DEF SameConfig, TypeOK, ConfigSpace
<1>5. UNCHANGED cfg => SameConfig
  BY DEF SameConfig
<1> QED BY <1>1, <1>2, <1>3, <1>4, <1>5 DEF Next, vars, BeginTeardown, files

\* A step that leaves the phases and the record alone.
LEMMA HostKept ==
  ASSUME SoleTerminal, HostInv, NEW p \in Procs, SafeInv', SameConfig,
         UNCHANGED <<tf, outputs>>, CommandHosted(proc'[p])
  PROVE  HostInv'
<1>1. CommandHosted(proc[p])'
  BY DEF CommandHosted, LegHosted, DoneSound, SameConfig
<1>2. (\A q \in Procs : CommandHosted(proc[q]))'
  BY <1>1 DEF SoleTerminal
<1>3. OwnIsThere' /\ TrialIsThere' /\ NoOrphans'
  BY DEF HostInv, OwnIsThere, TrialIsThere, NoOrphans, OnCluster, ClusterStands,
         SameConfig
<1> QED BY <1>2, <1>3 DEF HostInv

\* A command between two stages, or at its end, has no terraform run.
LEMMA BetweenStages ==
  ASSUME TypeInv, NEW p \in Procs, Running(p), proc[p].todo # <<>>,
         \/ Step(p, NextStage(proc[p])) \/ Step(p, FailStage(proc[p]))
         \/ Step(p, [NextStage(proc[p]) EXCEPT !.todo = AutoConnectStages \o @])
  PROVE  /\ DOMAIN proc'[p].legs = {}
         /\ proc'[p].exit # "running" \/ proc'[p].at = "enter"
<1>1. proc[p] \in ProcType /\ NextStage(proc[p]) \in ProcType
  BY NextStageType DEF TypeInv, TypeOK
<1> DEFINE pr == [NextStage(proc[p]) EXCEPT !.todo = AutoConnectStages \o @]
<1>2. pr.at = "enter" /\ DOMAIN pr.legs = {}
  <2> DEFINE ns == NextStage(proc[p])
  <2>1. ns \in ProcType /\ ns.at = "enter" /\ DOMAIN ns.legs = {}
    BY <1>1, NextStageFresh
  <2> HIDE DEF ns
  <2>2. [ns EXCEPT !.todo = AutoConnectStages \o @].at = "enter"
        /\ DOMAIN [ns EXCEPT !.todo = AutoConnectStages \o @].legs = {}
    BY <2>1 DEF ProcType
  <2> QED BY <2>2 DEF ns
<1>3. \/ proc'[p] = NextStage(proc[p]) \/ proc'[p] = FailStage(proc[p])
      \/ proc'[p] = pr
  BY StepAlone DEF TypeInv
<1> HIDE DEF pr
<1> QED BY <1>1, <1>2, <1>3, NextStageFresh

LEMMA LeaveHosted ==
  ASSUME SoleTerminal, HostInv, NEW p \in Procs, SafeInv', SameConfig,
         Running(p), proc[p].todo # <<>>, UNCHANGED <<tf, outputs>>,
         \/ Step(p, NextStage(proc[p])) \/ Step(p, FailStage(proc[p]))
         \/ Step(p, [NextStage(proc[p]) EXCEPT !.todo = AutoConnectStages \o @])
  PROVE  HostInv'
BY BetweenStages, FreshHosted, HostKept DEF HostInv, SafeInv

\* The record may come to name any cluster that stands; it is dropped or left
\* dangling only when no layer is deployed.
LEMMA RecordHosted ==
  ASSUME SoleTerminal, HostInv, NEW p \in Procs, SafeInv', SameConfig,
         Running(p), proc[p].todo # <<>>, UNCHANGED tf,
         \/ Step(p, NextStage(proc[p]))
         \/ Step(p, [NextStage(proc[p]) EXCEPT !.todo = AutoConnectStages \o @]),
         \/ outputs' \in {"registered", outputs}
         \/ outputs' = "own" /\ "roks" \in tf["cluster"]
         \/ outputs' = "trial" /\ "roks" \in tf["bnk"]
         \/ outputs' = "none" /\ \A ph \in Dependents : tf[ph] = {}
  PROVE  HostInv'
<1>1. CommandHosted(proc[p])'
  <2>1. /\ DOMAIN proc'[p].legs = {}
        /\ proc'[p].exit # "running" \/ proc'[p].at = "enter"
    BY BetweenStages DEF HostInv, SafeInv
  <2> QED BY <2>1 DEF CommandHosted, LegHosted, DoneSound
<1>2. (\A q \in Procs : CommandHosted(proc[q]))'
  BY <1>1 DEF SoleTerminal
<1>3. OwnIsThere' /\ TrialIsThere'
  BY DEF HostInv, OwnIsThere, TrialIsThere
<1>4. NoOrphans'
  BY DEF HostInv, NoOrphans, OnCluster, ClusterStands, SameConfig
<1> QED BY <1>2, <1>3, <1>4 DEF HostInv

-----------------------------------------------------------------------------
(* A stage starts: its terraform runs, or nothing to change.               *)

\* What of the command a start of terraform runs leaves as it is.
LEMMA Started ==
  ASSUME TypeInv, NEW p \in Procs, NEW legs, StartLegs(p, legs)
  PROVE  /\ proc'[p].todo = proc[p].todo /\ proc'[p].exit = proc[p].exit
         /\ proc'[p].cmd = proc[p].cmd
         /\ proc'[p].at = "run" /\ proc'[p].legs = legs
<1>1. proc'[p] = [proc[p] EXCEPT !.at = "run", !.legs = legs]
  BY StepAlone DEF StartLegs, TypeInv
<1> QED BY <1>1 DEF TypeInv, TypeOK, ProcType

LEMMA Recorded ==
  ASSUME TypeInv, NEW p \in Procs, Step(p, [proc[p] EXCEPT !.at = "record"])
  PROVE  /\ proc'[p].todo = proc[p].todo /\ proc'[p].exit = proc[p].exit
         /\ proc'[p].cmd = proc[p].cmd
         /\ proc'[p].at = "record" /\ proc'[p].legs = proc[p].legs
<1>1. proc'[p] = [proc[p] EXCEPT !.at = "record"]
  BY StepAlone DEF TypeInv
<1> QED BY <1>1 DEF TypeInv, TypeOK, ProcType

LEMMA BnkGoalHosted ==
  /\ "roks" \in Goal("bnk") \/ outputs # "none" \/ ~cfg.create
  /\ "roks" \in Goal("bnk") => outputs = "none"
BY DEF Goal, BnkGoal

LEMMA EnterUpHosted ==
  ASSUME SoleTerminal, HostInv, NEW p \in Procs, SafeInv', SameConfig,
         NEW of \in SUBSET Phases, "cluster" \in of => of = {"cluster"},
         EnterUp(p, of)
  PROVE  HostInv'
<1>1. /\ Running(p) /\ proc[p].todo # <<>> /\ DOMAIN proc[p].legs = {}
      /\ Head(proc[p].todo).op = "up" /\ Head(proc[p].todo).of = of
      /\ UNCHANGED <<tf, outputs>>
  BY DEF EnterUp, At, Head1, files, HostInv, SafeInv, TypeInv, StagesSound
<1>2. ASSUME \A ph \in of : tf[ph] = Goal(ph),
             Step(p, [proc[p] EXCEPT !.at = "record"])
      PROVE  HostInv'
  <2>1. "cluster" \in of => tf["cluster"] = ClusterGoal
    BY <1>2 DEF Goal
  <2>2. CommandHosted(proc'[p])
    BY <1>1, <1>2, <2>1, Recorded
       DEF CommandHosted, LegHosted, DoneSound, HostInv, SafeInv
  <2> QED BY <1>1, <2>2, HostKept
<1>3. ASSUME NEW approved \in SUBSET of, approved # {},
             StartLegs(p, ApplyLegs(approved))
      PROVE  HostInv'
  <2> DEFINE legs == ApplyLegs(approved)
  <2>1. /\ DOMAIN legs = approved
        /\ \A ph \in approved : legs[ph] = Goal(ph)
    BY DEF ApplyLegs
  <2>2. /\ proc'[p].todo = proc[p].todo /\ proc'[p].legs = legs
    BY <1>3, Started DEF HostInv, SafeInv
  <2> HIDE DEF legs
  <2>3. LegHosted(proc'[p])
    BY <2>1, <2>2, BnkGoalHosted DEF LegHosted
  <2>4. "cluster" \notin of \ DOMAIN legs
    BY <1>3, <2>1
  <2>5. DoneSound(proc'[p])
    BY <1>1, <2>2, <2>4 DEF DoneSound
  <2> QED BY <1>1, <2>3, <2>5, HostKept DEF CommandHosted
<1>4. \/ /\ \A ph \in of : tf[ph] = Goal(ph)
         /\ Step(p, [proc[p] EXCEPT !.at = "record"])
      \/ \E approved \in SUBSET of : approved # {} /\ StartLegs(p, ApplyLegs(approved))
  BY DEF EnterUp
<1> QED BY <1>2, <1>3, <1>4

LEMMA StartDownHosted ==
  ASSUME SoleTerminal, HostInv, NEW p \in Procs, SafeInv', SameConfig,
         NEW of \in SUBSET Phases, UNCHANGED files,
         proc[p].todo # <<>>, Head(proc[p].todo).op = "down",
         Head(proc[p].todo).of = of, StartLegs(p, DestroyLegs(of))
  PROVE  HostInv'
<1> DEFINE legs == DestroyLegs(of)
<1>1. DOMAIN legs = of /\ \A ph \in of : legs[ph] = {}
  BY DEF DestroyLegs
<1>2. proc'[p].todo = proc[p].todo /\ proc'[p].legs = legs
  BY Started DEF HostInv, SafeInv
<1> HIDE DEF legs
<1>3. CommandHosted(proc'[p])
  BY <1>1, <1>2 DEF CommandHosted, LegHosted, DoneSound
<1> QED BY <1>3, HostKept DEF files

LEMMA EnterHosted ==
  ASSUME SoleTerminal, HostInv, NEW p \in Procs, SafeInv', SameConfig, Enter(p)
  PROVE  HostInv'
<1>p. /\ {"cluster"} \in SUBSET Phases /\ {"bnk"} \in SUBSET Phases
      /\ {"bnk", "testing"} \in SUBSET Phases /\ {"testing"} \in SUBSET Phases
      /\ {"gateway"} \in SUBSET Phases /\ {"flp"} \in SUBSET Phases
      /\ {"tgw"} \in SUBSET Phases
  BY DEF Phases
<1>1. CASE EnterUpTrial(p)
  BY <1>1, <1>p, EnterUpHosted DEF EnterUpTrial
<1>2. CASE EnterUpTesting(p) \/ EnterUpGateway(p) \/ EnterUpFLP(p)
  BY <1>2, <1>p, EnterUpHosted DEF EnterUpTesting, EnterUpGateway, EnterUpFLP
<1>3. CASE EnterUpTGW(p)
  BY <1>3, <1>p, EnterUpHosted, LeaveHosted DEF EnterUpTGW, At
<1>4. CASE EnterUpCluster(p)
  <2>1. CASE EnterUp(p, {"cluster"})
    BY <2>1, <1>p, EnterUpHosted
  <2>2. CASE ~EnterUp(p, {"cluster"})
    <3> DEFINE pr == [proc[p] EXCEPT !.todo = <<Register>> \o Tail(@)]
    <3>1. /\ UNCHANGED files /\ Step(p, pr)
          /\ DOMAIN proc[p].legs = {} /\ proc[p].at = "enter"
      BY <1>4, <2>2 DEF EnterUpCluster, At, HostInv, SafeInv, TypeInv, StagesSound
    <3>2. pr.at = "enter" /\ DOMAIN pr.legs = {}
      BY <3>1 DEF HostInv, SafeInv, TypeInv, TypeOK, ProcType
    <3>3. proc'[p] = pr
      BY <3>1, StepAlone DEF HostInv, SafeInv, TypeInv
    <3> HIDE DEF pr
    <3>4. CommandHosted(proc'[p])
      BY <3>2, <3>3, FreshHosted
    <3> QED BY <3>1, <3>4, HostKept DEF files
  <2> QED BY <2>1, <2>2
<1>5. CASE EnterApply(p)
  <2> DEFINE legs == ApplyLegs({"bnk"})
  <2>1. /\ UNCHANGED files /\ Head(proc[p].todo).op = "apply"
        /\ StartLegs(p, legs)
    BY <1>5 DEF EnterApply, At, Head1
  <2>2. DOMAIN legs = {"bnk"} /\ legs["bnk"] = Goal("bnk")
    BY DEF ApplyLegs
  <2> HIDE DEF legs
  <2>3. proc'[p].todo = proc[p].todo /\ proc'[p].legs = legs
    BY <2>1, Started DEF HostInv, SafeInv
  <2>4. CommandHosted(proc'[p])
    BY <2>1, <2>2, <2>3, BnkGoalHosted DEF CommandHosted, LegHosted, DoneSound
  <2> QED BY <2>1, <2>4, HostKept DEF files
<1>6. CASE EnterRegister(p)
  BY <1>6, RecordHosted DEF EnterRegister, At
<1>7. CASE EnterDown(p)
  BY <1>7, StartDownHosted DEF EnterDown, At, Head1, Dependents
<1>8. CASE EnterDownCluster(p)
  BY <1>8, <1>p, StartDownHosted, LeaveHosted
     DEF EnterDownCluster, At, Head1, files
<1>9. CASE FailEntry(p)
  BY <1>9, LeaveHosted DEF FailEntry, files
<1> QED BY <1>1, <1>2, <1>3, <1>4, <1>5, <1>6, <1>7, <1>8, <1>9 DEF Enter

-----------------------------------------------------------------------------
(* Terraform at work, and the records after it.                            *)

\* What the destruction of a phase's resource makes of the record.
RecordAfter(ph, r) ==
  /\ \/ outputs' = outputs
     \/ ph = "cluster" /\ r = "roks" /\ outputs = "own" /\ outputs' = "stale"
     \/ ph = "bnk" /\ r = "roks" /\ outputs = "trial" /\ outputs' = "lost"
  /\ ph = "cluster" /\ r = "roks" => outputs' # "own"
  /\ ph = "bnk" /\ r = "roks" => outputs' # "trial"

\* What one step of a terraform run makes of the phases and the record.
LEMMA ConvergeFacts ==
  ASSUME SafeInv, NEW p \in Procs, NEW ph \in Phases, Converge(p, ph)
  PROVE  /\ RunningLeg(p, ph) /\ UNCHANGED <<cfg, handoff, proc>>
         /\ \A x \in Phases \ {ph} : tf'[x] = tf[x]
         /\ \/ /\ outputs' = outputs
               /\ \E r \in Resources :
                    /\ r \in proc[p].legs[ph] /\ r \notin tf[ph]
                    /\ Below(r) \cap proc[p].legs[ph] \subseteq tf[ph]
                    /\ tf'[ph] = tf[ph] \cup {r}
            \/ \E r \in Resources :
                 /\ r \in tf[ph] \ proc[p].legs[ph]
                 /\ \A s \in tf[ph] \ proc[p].legs[ph] : r \notin Below(s)
                 /\ tf'[ph] = tf[ph] \ {r}
                 /\ RecordAfter(ph, r)
<1>1. tf \in [Phases -> SUBSET Resources]
  BY DEF SafeInv, TypeInv, TypeOK
<1>2. /\ RunningLeg(p, ph) /\ UNCHANGED <<cfg, handoff, proc>>
      /\ \/ \E r \in Creatable(tf[ph], proc[p].legs[ph]) :
              tf' = [tf EXCEPT ![ph] = @ \cup {r}] /\ UNCHANGED outputs
         \/ \E r \in Destroyable(tf[ph], proc[p].legs[ph]) :
              /\ tf' = [tf EXCEPT ![ph] = @ \ {r}]
              /\ outputs' = OutputsAfter(ph, r)
  BY DEF Converge
<1>3. proc[p].legs[ph] \in SUBSET Resources
  BY <1>2, LegFacts
<1>4. ASSUME NEW r \in Creatable(tf[ph], proc[p].legs[ph]),
             tf' = [tf EXCEPT ![ph] = @ \cup {r}]
      PROVE  /\ r \in Resources /\ r \in proc[p].legs[ph] /\ r \notin tf[ph]
             /\ Below(r) \cap proc[p].legs[ph] \subseteq tf[ph]
             /\ tf'[ph] = tf[ph] \cup {r}
             /\ \A x \in Phases \ {ph} : tf'[x] = tf[x]
  BY <1>1, <1>3, <1>4 DEF Creatable
<1>5. ASSUME NEW r \in Destroyable(tf[ph], proc[p].legs[ph]),
             tf' = [tf EXCEPT ![ph] = @ \ {r}]
      PROVE  /\ r \in Resources /\ r \in tf[ph] \ proc[p].legs[ph]
             /\ \A s \in tf[ph] \ proc[p].legs[ph] : r \notin Below(s)
             /\ tf'[ph] = tf[ph] \ {r}
             /\ \A x \in Phases \ {ph} : tf'[x] = tf[x]
  BY <1>1, <1>5 DEF Destroyable
<1>6. ASSUME NEW r, outputs' = OutputsAfter(ph, r)
      PROVE  RecordAfter(ph, r)
  BY <1>6 DEF OutputsAfter, RecordAfter
<1>7. CASE \E r \in Creatable(tf[ph], proc[p].legs[ph]) :
             tf' = [tf EXCEPT ![ph] = @ \cup {r}] /\ UNCHANGED outputs
  BY <1>2, <1>4, <1>7
<1>8. CASE \E r \in Destroyable(tf[ph], proc[p].legs[ph]) :
             /\ tf' = [tf EXCEPT ![ph] = @ \ {r}]
             /\ outputs' = OutputsAfter(ph, r)
  BY <1>2, <1>5, <1>6, <1>8
<1> QED BY <1>2, <1>7, <1>8

\* A phase other than the trial that stands on the cluster needs its record.
LEMMA OthersNeedRecord ==
  \A ph \in OnCluster : ph = "bnk" \/ NeedsRecord(ph)
BY DEF OnCluster, NeedsRecord, Dependents, Phases

LEMMA ConvergeHosted ==
  ASSUME SoleTerminal, HostInv, NEW p \in Procs, NEW ph \in Phases,
         SafeInv', SameConfig, Converge(p, ph)
  PROVE  HostInv'
<1> DEFINE goal == proc[p].legs[ph]
<1>t. /\ tf \in [Phases -> SUBSET Resources] /\ tf' \in [Phases -> SUBSET Resources]
      /\ outputs \in OutputsValues
  BY DEF HostInv, SafeInv, TypeInv, TypeOK
<1>f. /\ RunningLeg(p, ph) /\ UNCHANGED <<cfg, proc>>
      /\ \A x \in Phases \ {ph} : tf'[x] = tf[x]
      /\ \/ /\ outputs' = outputs
            /\ \E r \in Resources :
                 /\ r \in goal /\ r \notin tf[ph]
                 /\ Below(r) \cap goal \subseteq tf[ph]
                 /\ tf'[ph] = tf[ph] \cup {r}
         \/ \E r \in Resources :
              /\ r \in tf[ph] \ goal
              /\ \A s \in tf[ph] \ goal : r \notin Below(s)
              /\ tf'[ph] = tf[ph] \ {r}
              /\ RecordAfter(ph, r)
  BY ConvergeFacts DEF HostInv
<1>o. \/ outputs' = outputs
      \/ ph = "cluster" /\ outputs = "own" /\ outputs' = "stale"
      \/ ph = "bnk" /\ outputs = "trial" /\ outputs' = "lost"
  BY <1>f DEF RecordAfter
<1>l. /\ goal = {} <=> Head1(p).op = "down"
      /\ ph = "cluster" => Head1(p).of = {"cluster"} /\ goal \in {{}, ClusterGoal}
      /\ ph = "bnk" => goal = {} \/ "layer" \in goal
      /\ ph = "bnk" => outputs # "stale"
      /\ ClusterDown(Head1(p)) => \A d \in Dependents : tf[d] = {}
  BY <1>f, LegFacts DEF HostInv
<1>h. ph = "bnk" =>
        /\ goal # {} => "roks" \in goal \/ outputs # "none" \/ ~cfg.create
        /\ "roks" \in goal => outputs = "none"
  BY <1>f DEF HostInv, CommandHosted, LegHosted, RunningLeg
<1> HIDE DEF goal
<1>1. OwnIsThere'
  BY <1>f, <1>t DEF HostInv, OwnIsThere, Phases, RecordAfter
<1>g. TrialIsThere'
  <2>1. CASE ph = "bnk"
    BY <1>f, <1>h, <1>t, <2>1 DEF HostInv, TrialIsThere, RecordAfter
  <2>2. CASE ph # "bnk"
    BY <1>f, <1>o, <2>2 DEF HostInv, TrialIsThere, Phases
  <2> QED BY <2>1, <2>2
<1>2. LegHosted(proc[p])'
  <2>1. outputs' = "none" <=> outputs = "none"
    BY <1>o
  <2> QED BY <1>f, <2>1 DEF LegHosted, HostInv, CommandHosted
<1>3. DoneSound(proc[p])'
  <2>1. \A x \in Phases \ DOMAIN proc[p].legs : tf'[x] = tf[x]
    BY <1>f DEF RunningLeg
  <2>2. proc[p].exit = "running" /\ proc[p].at # "enter" =>
          Head(proc[p].todo).of \subseteq Phases
    <3>1. proc[p].todo \in Seq(StageType)
      BY DEF HostInv, SafeInv, TypeInv, TypeOK, ProcType
    <3>2. proc[p].exit = "running" /\ proc[p].at # "enter" => proc[p].todo # <<>>
      BY DEF HostInv, SafeInv, TypeInv, StagesSound, Running
    <3> QED BY <3>1, <3>2, HeadStage
  <2>3. DoneSound(proc[p])
    BY DEF HostInv, CommandHosted
  <2> QED BY <1>f, <2>1, <2>2, <2>3 DEF DoneSound
<1>4. NoOrphans'
  <2> SUFFICES ASSUME NEW x \in OnCluster, "layer" \in tf'[x]
               PROVE  ClusterStands' \/ outputs' = "lost"
    BY <1>f DEF NoOrphans, OnCluster
  <2>1. x \in Dependents /\ x \in Phases
    BY DEF OnCluster, Dependents
  <2>2. CASE x # "bnk"
    <3>1. NeedsRecord(x)' /\ tf'[x] # {}
      BY <1>f, <2>2, OthersNeedRecord DEF NeedsRecord
    <3>2. Usable' \/ outputs' = "lost"
      BY <2>1, <3>1 DEF SafeInv, DependentsHaveRecord
    <3> QED BY <1>1, <1>g, <3>2 DEF OwnIsThere, TrialIsThere, ClusterStands, Usable
  <2>3. CASE x = "bnk" /\ ph # "bnk"
    <3>1. "layer" \in tf["bnk"] /\ tf'["bnk"] = tf["bnk"]
      BY <1>f, <2>1, <2>3
    <3>2. ClusterStands \/ outputs = "lost"
      BY <2>3, <3>1 DEF HostInv, NoOrphans
    <3>3. "roks" \in tf["cluster"] => "roks" \in tf'["cluster"]
      <4>1. ASSUME ph = "cluster", goal = {} PROVE FALSE
        BY <1>l, <2>1, <2>3, <3>1, <4>1 DEF ClusterDown
      <4>2. ph = "cluster" => goal = ClusterGoal
        BY <1>l, <4>1
      <4> QED BY <1>f, <1>t, <4>2 DEF ClusterGoal, Phases
    <3>4. outputs \in {"registered", "lost"} => outputs' = outputs
      BY <1>o
    <3> QED BY <1>f, <3>1, <3>2, <3>3, <3>4 DEF ClusterStands
  <2>4. CASE x = "bnk" /\ ph = "bnk"
    <3>1. /\ tf'["cluster"] = tf["cluster"]
          /\ outputs' = outputs \/ (outputs = "trial" /\ outputs' = "lost")
      <4>1. ph # "cluster" /\ "cluster" \in Phases \ {ph}
        BY <2>4 DEF Phases
      <4> QED BY <1>f, <1>o, <4>1
    <3>2. CASE outputs \in {"own", "trial", "registered", "lost"} \/ ~cfg.create
      BY <1>1, <1>f, <1>g, <3>1, <3>2 DEF OwnIsThere, TrialIsThere, ClusterStands
    <3>3. CASE outputs = "none" /\ cfg.create
      <4>1. goal # {} => "roks" \in goal
        BY <1>h, <2>4, <3>3
      <4>2. "layer" \in tf["bnk"] => "roks" \in tf["bnk"] \cup tf["cluster"]
        BY <2>4, <3>3 DEF HostInv, NoOrphans, ClusterStands, OnCluster, Dependents
      <4>3. "roks" \in tf'["bnk"] \/ "roks" \in tf["cluster"]
        <5>1. ASSUME NEW r \in goal, Below(r) \cap goal \subseteq tf["bnk"],
                     tf'["bnk"] = tf["bnk"] \cup {r}
              PROVE  "roks" \in tf'["bnk"] \/ "roks" \in tf["cluster"]
          <6>1. CASE r = "layer"
            BY <4>1, <5>1, <6>1 DEF Below
          <6>2. CASE r # "layer"
            BY <2>4, <4>2, <5>1, <6>2
          <6> QED BY <6>1, <6>2
        <5>2. ASSUME NEW r \in tf["bnk"] \ goal, tf'["bnk"] = tf["bnk"] \ {r},
                     \A s \in tf["bnk"] \ goal : r \notin Below(s)
              PROVE  "roks" \in tf'["bnk"] \/ "roks" \in tf["cluster"]
          <6>1. "layer" \in tf["bnk"]
            BY <2>4, <5>2
          <6>2. ASSUME r = "roks" PROVE FALSE
            <7>1. goal = {}
              BY <4>1, <5>2, <6>2
            <7> QED BY <5>2, <6>1, <6>2, <7>1 DEF Below
          <6> QED BY <4>2, <5>2, <6>1, <6>2
        <5> QED BY <1>f, <2>4, <5>1, <5>2
      <4> QED BY <3>1, <4>3 DEF ClusterStands
    <3>4. outputs # "stale"
      BY <1>l, <2>4
    <3> QED BY <1>t, <3>2, <3>3, <3>4 DEF OutputsValues
  <2> QED BY <2>2, <2>3, <2>4
<1>5. (\A q \in Procs : CommandHosted(proc[q]))'
  BY <1>2, <1>3 DEF SoleTerminal, CommandHosted
<1> QED BY <1>1, <1>g, <1>4, <1>5 DEF HostInv

\* What of the command the end of one of its terraform runs leaves as it is.
LEMMA LegEnds ==
  ASSUME TypeInv, NEW p \in Procs, NEW ph \in Phases,
         LegDone(p, ph) \/ LegFail(p, ph)
  PROVE  /\ proc'[p].todo = proc[p].todo /\ proc'[p].exit = proc[p].exit
         /\ proc'[p].cmd = proc[p].cmd
         /\ proc'[p].at = proc[p].at
         /\ DOMAIN proc'[p].legs = DOMAIN proc[p].legs \ {ph}
         /\ \A x \in DOMAIN proc'[p].legs : proc'[p].legs[x] = proc[p].legs[x]
         /\ LegDone(p, ph) => proc'[p].failed = proc[p].failed
         /\ ~LegDone(p, ph) => proc'[p].failed
<1>t. proc[p] \in ProcType
  BY DEF TypeInv, TypeOK
<1> DEFINE wl == WithoutLeg(proc[p], ph)
<1>1. /\ wl \in ProcType /\ wl.todo = proc[p].todo /\ wl.exit = proc[p].exit
      /\ wl.cmd = proc[p].cmd /\ wl.at = proc[p].at /\ wl.failed = proc[p].failed
      /\ wl.legs = [x \in DOMAIN proc[p].legs \ {ph} |-> proc[p].legs[x]]
  BY <1>t, WithoutLegType DEF WithoutLeg, ProcType
<1>2. /\ LegDone(p, ph) => proc'[p] = wl
      /\ LegFail(p, ph) => proc'[p] = [wl EXCEPT !.failed = TRUE]
  BY StepAlone DEF LegDone, LegFail, TypeInv
<1> HIDE DEF wl
<1>3. CASE LegDone(p, ph)
  BY <1>1, <1>2, <1>3
<1>4. CASE ~LegDone(p, ph)
  <2> DEFINE pr == [wl EXCEPT !.failed = TRUE]
  <2>1. /\ pr.todo = wl.todo /\ pr.exit = wl.exit /\ pr.cmd = wl.cmd
        /\ pr.at = wl.at /\ pr.legs = wl.legs /\ pr.failed
    BY <1>1 DEF ProcType
  <2>2. proc'[p] = pr
    BY <1>2, <1>4
  <2> HIDE DEF pr
  <2> QED BY <1>1, <1>4, <2>1, <2>2
<1> QED BY <1>3, <1>4

LEMMA TerraformHosted ==
  ASSUME SoleTerminal, HostInv, NEW p \in Procs, SafeInv', SameConfig,
         Terraform(p) \/ Wait(p)
  PROVE  HostInv'
<1>1. ASSUME NEW ph \in Phases, Converge(p, ph) PROVE HostInv'
  BY <1>1, ConvergeHosted
<1>2. ASSUME NEW ph \in Phases, LegDone(p, ph) \/ LegFail(p, ph) PROVE HostInv'
  <2>1. /\ UNCHANGED files /\ RunningLeg(p, ph)
        /\ LegDone(p, ph) => tf[ph] = proc[p].legs[ph]
    BY <1>2 DEF LegDone, LegFail
  <2>2. /\ proc'[p].todo = proc[p].todo /\ proc'[p].exit = proc[p].exit
        /\ proc'[p].at = proc[p].at /\ proc[p].at = "run"
        /\ DOMAIN proc'[p].legs = DOMAIN proc[p].legs \ {ph}
        /\ \A x \in DOMAIN proc'[p].legs : proc'[p].legs[x] = proc[p].legs[x]
        /\ LegDone(p, ph) => proc'[p].failed = proc[p].failed
        /\ ~LegDone(p, ph) => proc'[p].failed
    BY <1>2, <2>1, LegEnds DEF HostInv, SafeInv, RunningLeg
  <2>3. /\ Head(proc[p].todo).op = "down" => proc[p].legs[ph] = {}
        /\ Head(proc[p].todo).op = "up" /\ ph = "cluster"
             => proc[p].legs[ph] = ClusterGoal
    BY <2>1, LegFacts DEF HostInv, Head1
  <2>4. LegHosted(proc[p]) /\ DoneSound(proc[p])
    BY DEF HostInv, CommandHosted
  <2>5. LegHosted(proc'[p])
    BY <2>2, <2>4 DEF LegHosted
  <2>6. DoneSound(proc'[p])
    BY <2>1, <2>2, <2>3, <2>4 DEF DoneSound
  <2> QED BY <2>1, <2>5, <2>6, HostKept DEF CommandHosted, files
<1>3. CASE Wait(p)
  <2>1. /\ Running(p) /\ proc[p].at = "run" /\ DOMAIN proc[p].legs = {}
        /\ proc[p].todo # <<>> /\ UNCHANGED files
    BY <1>3 DEF Wait, NoLegs, HostInv, SafeInv, TypeInv, StagesSound
  <2>2. CASE proc[p].failed
    BY <1>3, <2>1, <2>2, LeaveHosted DEF Wait, files
  <2>3. CASE ~proc[p].failed
    <3>1. Step(p, [proc[p] EXCEPT !.at = "record"])
      BY <1>3, <2>3 DEF Wait
    <3>2. CommandHosted(proc'[p])
      BY <2>1, <2>3, <3>1, Recorded
         DEF CommandHosted, LegHosted, DoneSound, HostInv, SafeInv
    <3> QED BY <2>1, <3>2, HostKept DEF files
  <2> QED BY <2>2, <2>3
<1> QED BY <1>1, <1>2, <1>3 DEF Terraform

\* What a stage whose record is being written has achieved.
LEMMA StageDone ==
  ASSUME HostInv, NEW p \in Procs, Running(p), proc[p].at = "record"
  PROVE  /\ Head1(p).op = "down" => \A ph \in Head1(p).of : tf[ph] = {}
         /\ Head1(p).op = "up" /\ "cluster" \in Head1(p).of
              => tf["cluster"] = ClusterGoal
<1>1. DOMAIN proc[p].legs = {}
  BY DEF HostInv, SafeInv, TypeInv, StagesSound
<1> QED BY <1>1 DEF HostInv, CommandHosted, DoneSound, Running, Head1

LEMMA RecordStepHosted ==
  ASSUME SoleTerminal, HostInv, NEW p \in Procs, SafeInv', SameConfig, Record(p)
  PROVE  HostInv'
<1>1. CASE RecordCluster(p)
  <2>1. "roks" \in tf["cluster"]
    BY <1>1, StageDone DEF RecordCluster, At, ClusterGoal
  <2> QED BY <1>1, <2>1, RecordHosted DEF RecordCluster, At
<1>2. CASE RecordHandoff(p) \/ RecordNothing(p) \/ DeleteHandoff(p)
  BY <1>2, LeaveHosted
     DEF RecordHandoff, RecordNothing, DeleteHandoff, At, files
<1>3. CASE DeleteClusterOutputs(p)
  <2>1. \A ph \in Dependents : tf[ph] = {}
    BY <1>3 DEF DeleteClusterOutputs, At, HostInv, SafeInv, CommandSound,
                ClusterDownSound, ClusterDown, Head1, Running
  <2> QED BY <1>3, <2>1, RecordHosted DEF DeleteClusterOutputs, At
<1> QED BY <1>1, <1>2, <1>3 DEF Record

\* A command that ends, or is killed, has no terraform run and is over.
LEMMA EndFacts ==
  ASSUME TypeInv, NEW p \in Procs, Return(p) \/ Crash(p)
  PROVE  /\ DOMAIN proc'[p].legs = {} /\ proc'[p].cmd = proc[p].cmd
         /\ \/ Return(p) /\ proc'[p].exit = "ok"
            \/ proc'[p].exit = "crashed"
<1>t. proc[p] \in ProcType
  BY DEF TypeInv, TypeOK
<1>1. CASE Return(p)
  <2>1. DOMAIN proc[p].legs = {}
    BY <1>1 DEF Return, TypeInv, StagesSound
  <2>2. proc'[p] = [proc[p] EXCEPT !.exit = "ok"]
    BY <1>1, StepAlone DEF Return, TypeInv
  <2> QED BY <1>t, <1>1, <2>1, <2>2 DEF ProcType
<1>2. CASE Crash(p)
  <2>1. proc'[p] = [Free EXCEPT !.cmd = proc[p].cmd, !.exit = "crashed"]
    BY <1>2, StepAlone DEF Crash, TypeInv
  <2> QED BY <2>1 DEF Free, NoLegs
<1> QED BY <1>1, <1>2

LEMMA InitHost == Init => HostInv
<1> SUFFICES ASSUME Init PROVE HostInv
  OBVIOUS
<1>1. OwnIsThere /\ TrialIsThere /\ NoOrphans
  BY DEF Init, OwnIsThere, TrialIsThere, NoOrphans, OnCluster, Dependents
<1>2. \A p \in Procs : CommandHosted(proc[p])
  BY FreshHosted DEF Init, Free, NoLegs
<1> QED BY <1>1, <1>2, InitSafe DEF HostInv

LEMMA NextHost ==
  ASSUME SoleTerminal
  PROVE  HostInv /\ [Next]_vars => HostInv'
<1> SUFFICES ASSUME HostInv, [Next]_vars PROVE HostInv'
  OBVIOUS
<1>0. SafeInv' /\ SameConfig
  BY NextSafe, ConfigKept DEF HostInv, SafeInv, TypeInv
<1>1. CASE BeginTeardown \/ UNCHANGED vars
  <2>1. UNCHANGED <<cfg, tf, outputs, proc>>
    BY <1>1 DEF BeginTeardown, vars, files
  <2>2. /\ OwnIsThere' /\ TrialIsThere' /\ NoOrphans'
        /\ (\A p \in Procs : CommandHosted(proc[p]))'
    BY <2>1 DEF HostInv, OwnIsThere, TrialIsThere, NoOrphans, OnCluster, ClusterStands,
                CommandHosted, LegHosted, DoneSound
  <2> QED BY <1>0, <2>2 DEF HostInv
<1>2. ASSUME NEW p \in Procs, Invoke(p) PROVE HostInv'
  <2>1. /\ UNCHANGED <<tf, outputs>> /\ proc'[p].at = "enter"
        /\ DOMAIN proc'[p].legs = {}
    BY <1>2, InvokeSteps DEF HostInv, SafeInv, TypeInv, NoLegs
  <2> QED BY <1>0, <2>1, FreshHosted, HostKept
<1>3. ASSUME NEW p \in Procs, Return(p) \/ Crash(p) PROVE HostInv'
  <2>1. UNCHANGED <<tf, outputs>>
    BY <1>3 DEF Return, Crash, files
  <2>2. CommandHosted(proc'[p])
    BY <1>3, EndFacts, FreshHosted DEF HostInv, SafeInv
  <2> QED BY <1>0, <2>1, <2>2, HostKept
<1>4. ASSUME NEW p \in Procs, Enter(p) \/ Terraform(p) \/ Wait(p) \/ Record(p)
      PROVE  HostInv'
  BY <1>0, <1>4, EnterHosted, TerraformHosted, RecordStepHosted
<1> QED BY <1>1, <1>2, <1>3, <1>4 DEF Next, Work

LEMMA AlwaysHost ==
  ASSUME SoleTerminal
  PROVE  Spec => []HostInv
<1>1. HostInv /\ [Next]_vars => HostInv'
  BY NextHost
<1> QED BY <1>1, InitHost, PTL DEF Spec

\* With one terminal at work, a deployed layer has a cluster to stand on, or
\* had the trial's, which was registered and then destroyed with the trial, for
\* every config.yaml and any failures and kills (the guards of runClusterDown,
\* the record every dependent phase insists on, the trial's create path).
THEOREM LayersHosted ==
  ASSUME SoleTerminal
  PROVE  Spec => []NoOrphans
<1>1. HostInv => NoOrphans
  BY DEF HostInv
<1> QED BY <1>1, AlwaysHost, PTL

-----------------------------------------------------------------------------
(* The phases keep the promise of ClusterHosting.                          *)

\* What ClusterHosting is instantiated with.
Stands == {c \in {"own", "trial", "adopted"} :
             CASE c = "own"   -> "roks" \in tf["cluster"]
               [] c = "trial" -> "roks" \in tf["bnk"]
               [] OTHER       -> outputs = "registered" \/ ~cfg.create}
Deployed == {ph \in OnCluster : "layer" \in tf[ph]}
OnRecord == CASE outputs = "trial" -> "trial" [] outputs = "lost" -> "lost"
              [] OTHER -> "other"

StandsIs ==
  /\ Stands \subseteq {"own", "trial", "adopted"}
  /\ "own" \in Stands <=> "roks" \in tf["cluster"]
  /\ "trial" \in Stands <=> "roks" \in tf["bnk"]
  /\ "adopted" \in Stands <=> outputs = "registered" \/ ~cfg.create
  /\ ClusterStands <=> Stands # {}
  /\ OnRecord = "trial" <=> outputs = "trial"
  /\ OnRecord = "lost" <=> outputs = "lost"
  /\ OnRecord = "other" <=> outputs \notin {"trial", "lost"}

LEMMA StandsNow == StandsIs /\ StandsIs'
<1>1. StandsIs
  BY DEF StandsIs, Stands, ClusterStands, OnRecord
<1>2. StandsIs'
  BY DEF StandsIs, Stands, ClusterStands, OnRecord
<1> QED BY <1>1, <1>2

LEMMA GainStep ==
  ASSUME NEW c \in {"own", "trial", "adopted"},
         Stands' = Stands \cup {c}, Deployed' = Deployed,
         OnRecord' \in {OnRecord, "other"}
  PROVE  Hosting!Next
<1>1. Hosting!Gain(c)
  BY DEF Hosting!Gain, Stands, Deployed, OnRecord
<1> QED BY <1>1 DEF Hosting!Next, Hosting!Clusters

LEMMA LoseStep ==
  ASSUME NEW c \in {"own", "trial", "adopted"},
         Stands' = Stands \ {c}, Deployed' = Deployed, OnRecord' = OnRecord,
         Deployed # {} => c # "own" /\ Stands # {c},
         c # "trial" \/ OnRecord # "trial"
  PROVE  Hosting!Next
<1>1. Hosting!Lose(c)
  BY DEF Hosting!Lose, Stands, Deployed, OnRecord
<1> QED BY <1>1 DEF Hosting!Next, Hosting!Clusters

LEMMA HandOverStep ==
  ASSUME "trial" \in Stands, Stands' \in {Stands, Stands \ {"adopted"}},
         Deployed' = Deployed, OnRecord' = "trial"
  PROVE  Hosting!Next
<1>1. Hosting!HandOver
  BY DEF Hosting!HandOver, Stands, Deployed, OnRecord
<1> QED BY <1>1 DEF Hosting!Next

LEMMA ForsakeStep ==
  ASSUME OnRecord = "trial", OnRecord' = "lost", Stands' = Stands \ {"trial"},
         Deployed' = Deployed
  PROVE  Hosting!Next
<1>1. Hosting!Forsake
  BY DEF Hosting!Forsake, Stands, Deployed, OnRecord
<1> QED BY <1>1 DEF Hosting!Next

LEMMA RenameStep ==
  ASSUME Stands' = Stands, Deployed' = Deployed, OnRecord' = "other",
         Deployed # {} => Stands # {}
  PROVE  Hosting!Next
<1>1. Hosting!Rename
  BY DEF Hosting!Rename, Stands, Deployed, OnRecord
<1> QED BY <1>1 DEF Hosting!Next

LEMMA DeployStep ==
  ASSUME NEW l \in Dependents, Stands # {} \/ OnRecord = "lost",
         Stands' = Stands, Deployed' = Deployed \cup {l}, OnRecord' = OnRecord
  PROVE  Hosting!Next
<1>1. Hosting!Deploy(l)
  BY DEF Hosting!Deploy, Stands, Deployed, OnRecord
<1> QED BY <1>1 DEF Hosting!Next

LEMMA WithdrawStep ==
  ASSUME NEW l \in Dependents, Stands' = Stands, Deployed' = Deployed \ {l},
         OnRecord' = OnRecord
  PROVE  Hosting!Next
<1>1. Hosting!Withdraw(l)
  BY DEF Hosting!Withdraw, Stands, Deployed, OnRecord
<1> QED BY <1>1 DEF Hosting!Next

HostingStep == [Hosting!Next]_<<Stands, Deployed, OnRecord>>

\* One cluster at most comes or goes.
LEMMA OneCluster ==
  ASSUME NEW c \in {"own", "trial", "adopted"},
         \A d \in {"own", "trial", "adopted"} \ {c} : d \in Stands' <=> d \in Stands
  PROVE  \/ Stands' = Stands
         \/ Stands' = Stands \cup {c}
         \/ Stands' = Stands \ {c} /\ c \in Stands
<1>1. /\ Stands \in SUBSET {"own", "trial", "adopted"}
      /\ Stands' \in SUBSET {"own", "trial", "adopted"}
  BY StandsNow DEF StandsIs
<1> DEFINE S == Stands
<1>2. S \in SUBSET {"own", "trial", "adopted"}
  BY <1>1
<1> HIDE DEF S
<1>3. ASSUME NEW T \in SUBSET {"own", "trial", "adopted"},
             \A d \in {"own", "trial", "adopted"} \ {c} : d \in T <=> d \in S
      PROVE  T = S \/ T = S \cup {c} \/ T = S \ {c}
  <2>1. CASE c \in T
    <3>1. T = S \cup {c}
      BY <1>2, <1>3, <2>1
    <3> QED BY <3>1
  <2>2. CASE c \notin T
    <3>1. T = S \ {c}
      BY <1>2, <1>3, <2>2
    <3> QED BY <3>1
  <2> QED BY <2>1, <2>2
<1>4. Stands' = Stands \/ Stands' = Stands \cup {c} \/ Stands' = Stands \ {c}
  BY <1>1, <1>3 DEF S
<1>5. c \notin Stands => Stands \ {c} = Stands
  OBVIOUS
<1> QED BY <1>4, <1>5

\* Clusters come and go one at a time, and none that a layer needs.
LEMMA ClustersStep ==
  ASSUME NEW c \in {"own", "trial", "adopted"}, Deployed' = Deployed,
         OnRecord' = OnRecord,
         \A d \in {"own", "trial", "adopted"} \ {c} : d \in Stands' <=> d \in Stands,
         c \in Stands /\ c \notin Stands' =>
           /\ Deployed # {} => c # "own" /\ Stands' # {}
           /\ c # "trial" \/ OnRecord # "trial"
  PROVE  HostingStep
<1>1. CASE Stands' = Stands
  BY <1>1 DEF HostingStep
<1>2. CASE Stands' = Stands \cup {c}
  BY <1>2, GainStep DEF HostingStep
<1>3. CASE Stands' = Stands \ {c} /\ c \in Stands
  <2>1. c \notin Stands'
    BY <1>3
  <2>2. Deployed # {} => c # "own" /\ Stands # {c}
    BY <1>3, <2>1
  <2> QED BY <1>3, <2>1, <2>2, LoseStep DEF HostingStep
<1> QED BY <1>1, <1>2, <1>3, OneCluster

\* A step that changes no phase can gain or lose the adopted cluster, put the
\* trial's on record, or take it off.
LEMMA RecordImplements ==
  ASSUME HostInv, NoOrphans', TrialIsThere', SameConfig, UNCHANGED tf,
         outputs' = "lost" => outputs = "lost"
  PROVE  HostingStep
<1>1. Deployed' = Deployed
  BY DEF Deployed, OnCluster, SameConfig
<1>2. /\ "own" \in Stands' <=> "own" \in Stands
      /\ "trial" \in Stands' <=> "trial" \in Stands
      /\ \A d \in {"own", "trial", "adopted"} \ {"adopted"} :
           d \in Stands' <=> d \in Stands
  BY StandsNow DEF StandsIs
<1>3. Deployed # {} => Stands' # {} \/ outputs' = "lost"
  BY <1>1, StandsNow DEF StandsIs, NoOrphans, Deployed
<1>4. CASE outputs' = "lost"
  <2>1. /\ OnRecord' = OnRecord
        /\ \A c \in {"own", "trial", "adopted"} : c \in Stands' <=> c \in Stands
    BY <1>2, <1>4, StandsNow DEF StandsIs, SameConfig
  <2> QED BY <1>1, <2>1, ClustersStep
<1>5. CASE outputs' = "trial"
  <2>1. /\ "trial" \in Stands /\ OnRecord' = "trial"
        /\ "adopted" \in Stands' => "adopted" \in Stands
    BY <1>2, <1>5, StandsNow DEF StandsIs, TrialIsThere, SameConfig
  <2>2. Stands' \in {Stands, Stands \ {"adopted"}}
    BY <1>2, <2>1, OneCluster
  <2> QED BY <1>1, <2>1, <2>2, HandOverStep DEF HostingStep
<1>6. CASE outputs' \notin {"lost", "trial"}
  <2>1. OnRecord' = "other"
    BY <1>6, StandsNow DEF StandsIs
  <2>2. CASE Stands' = Stands
    BY <1>1, <1>3, <1>6, <2>1, <2>2, RenameStep DEF HostingStep
  <2>3. CASE Stands' = Stands \cup {"adopted"}
    BY <1>1, <2>1, <2>3, GainStep DEF HostingStep
  <2>4. CASE Stands' = Stands \ {"adopted"} /\ "adopted" \in Stands
    <3>1. "adopted" \notin Stands'
      BY <2>4
    <3>2. OnRecord = "other"
      BY <2>4, <3>1, StandsNow DEF StandsIs, SameConfig
    <3>3. Deployed # {} => Stands # {"adopted"}
      BY <1>3, <1>6, <2>4
    <3> QED BY <1>1, <2>1, <2>4, <3>2, <3>3, LoseStep DEF HostingStep
  <2> QED BY <1>2, <2>2, <2>3, <2>4, OneCluster
<1> QED BY <1>4, <1>5, <1>6

\* A step of a terraform run.
LEMMA ConvergeImplements ==
  ASSUME HostInv, NoOrphans', SameConfig, NEW p \in Procs, NEW ph \in Phases,
         Converge(p, ph)
  PROVE  HostingStep
<1>t. tf \in [Phases -> SUBSET Resources]
  BY DEF HostInv, SafeInv, TypeInv, TypeOK
<1>1. RunningLeg(p, ph) /\ \A x \in Phases \ {ph} : tf'[x] = tf[x]
  BY ConvergeFacts DEF HostInv
<1>2. PICK r \in Resources :
        \/ /\ tf'[ph] = tf[ph] \cup {r} /\ r \in proc[p].legs[ph]
           /\ outputs' = outputs
        \/ /\ tf'[ph] = tf[ph] \ {r} /\ r \in tf[ph] \ proc[p].legs[ph]
           /\ RecordAfter(ph, r)
  BY ConvergeFacts DEF HostInv
<1>h. Deployed' # {} => Stands' # {} \/ outputs' = "lost"
  BY StandsNow DEF StandsIs, NoOrphans, Deployed
<1>3. OnCluster' = OnCluster /\ OnCluster \subseteq Phases \ {"cluster"}
  BY DEF OnCluster, SameConfig, Dependents
<1>a. "adopted" \in Stands' <=> "adopted" \in Stands
  BY <1>2, StandsNow DEF StandsIs, SameConfig, RecordAfter
<1>o. \/ OnRecord' = OnRecord
      \/ ph = "bnk" /\ r = "roks" /\ outputs = "trial" /\ outputs' = "lost"
  BY <1>2 DEF RecordAfter, OnRecord
<1>4. CASE ph = "cluster"
  <2>1. Deployed' = Deployed
    BY <1>1, <1>3, <1>4 DEF Deployed
  <2>2. "trial" \in Stands' <=> "trial" \in Stands
    BY <1>1, <1>4, StandsNow DEF StandsIs, Phases
  <2>3. "own" \in Stands /\ "own" \notin Stands' => Deployed = {}
    <3> SUFFICES ASSUME "roks" \in tf["cluster"], "roks" \notin tf'["cluster"]
                 PROVE  Deployed = {}
      BY StandsNow DEF StandsIs
    <3>1. "roks" \notin proc[p].legs["cluster"]
      BY <1>2, <1>4
    <3>2. ClusterDown(Head1(p))
      BY <1>1, <1>4, <3>1, LegFacts DEF HostInv, ClusterGoal, ClusterDown
    <3>3. \A d \in Dependents : tf[d] = {}
      BY <1>1, <3>2, LegFacts DEF HostInv
    <3> QED BY <3>3 DEF Deployed, OnCluster
  <2>4. OnRecord' = OnRecord
    BY <1>4, <1>o
  <2> QED BY <1>a, <2>1, <2>2, <2>3, <2>4, ClustersStep
<1>5. CASE ph # "cluster"
  <2>1. "own" \in Stands' <=> "own" \in Stands
    BY <1>1, <1>5, StandsNow DEF StandsIs, Phases
  <2>2. CASE r = "layer" /\ ph \in OnCluster
    <3>1. Stands' = Stands
      <4>1. "trial" \in Stands' <=> "trial" \in Stands
        BY <1>1, <1>2, <2>2, StandsNow DEF StandsIs, Phases
      <4>2. \A c : c \in Stands' <=> c \in Stands
        BY <1>a, <2>1, <4>1, StandsNow DEF StandsIs
      <4> QED BY <4>2
    <3>2. Deployed' = Deployed \cup {ph} \/ Deployed' = Deployed \ {ph}
      BY <1>1, <1>2, <1>3, <2>2 DEF Deployed
    <3>3. ph \in Dependents /\ OnRecord' = OnRecord
      BY <1>o, <2>2 DEF OnCluster
    <3>4. CASE Deployed' = Deployed \cup {ph}
      <4>1. Stands # {} \/ OnRecord = "lost"
        BY <1>h, <3>1, <3>3, <3>4, StandsNow DEF StandsIs
      <4> QED BY <3>1, <3>3, <3>4, <4>1, DeployStep DEF HostingStep
    <3>5. CASE Deployed' = Deployed \ {ph}
      BY <3>1, <3>3, <3>5, WithdrawStep DEF HostingStep
    <3> QED BY <3>2, <3>4, <3>5
  <2>3. CASE ~(r = "layer" /\ ph \in OnCluster)
    <3>1. Deployed' = Deployed
      BY <1>1, <1>2, <1>3, <2>3 DEF Deployed
    <3>2. \A d \in {"own", "trial", "adopted"} \ {"trial"} :
            d \in Stands' <=> d \in Stands
      BY <1>a, <2>1
    <3>3. CASE OnRecord' = OnRecord
      <4>1. ASSUME "trial" \in Stands, "trial" \notin Stands'
            PROVE  /\ Deployed # {} => Stands' # {}
                   /\ OnRecord # "trial"
        <5>1. "roks" \in tf["bnk"] /\ "roks" \notin tf'["bnk"]
          BY <4>1, StandsNow DEF StandsIs
        <5>2. ph = "bnk" /\ r = "roks" /\ RecordAfter(ph, r)
          BY <1>1, <1>2, <5>1 DEF Phases
        <5>3. outputs' # "trial" /\ outputs # "lost"
          BY <5>1, <5>2 DEF RecordAfter, HostInv, TrialIsThere
        <5>4. outputs' # "lost"
          BY <3>3, <5>3, StandsNow DEF StandsIs
        <5> QED BY <1>h, <3>1, <3>3, <5>3, <5>4, StandsNow DEF StandsIs
      <4> QED BY <3>1, <3>2, <3>3, <4>1, ClustersStep
    <3>4. CASE /\ ph = "bnk" /\ r = "roks"
               /\ outputs = "trial" /\ outputs' = "lost"
      <4>1. "trial" \notin Stands' /\ OnRecord = "trial" /\ OnRecord' = "lost"
        BY <1>2, <3>4, StandsNow DEF StandsIs
      <4>2. "trial" \in Stands
        BY <3>4, StandsNow DEF StandsIs, HostInv, TrialIsThere
      <4>3. Stands' = Stands \ {"trial"}
        BY <3>2, <4>1, <4>2, OneCluster
      <4> QED BY <3>1, <4>1, <4>3, ForsakeStep DEF HostingStep
    <3> QED BY <1>o, <3>3, <3>4
  <2> QED BY <2>2, <2>3
<1> QED BY <1>4, <1>5

\* The record of the trial's cluster is left behind by terraform alone.
LEMMA LostWithTrial ==
  ASSUME SafeInv, [Next]_vars, UNCHANGED tf, outputs' = "lost"
  PROVE  outputs = "lost"
<1>1. ASSUME NEW p \in Procs, NEW ph \in Phases, Converge(p, ph)
      PROVE  outputs = "lost"
  <2>1. CASE outputs' = outputs
    BY <2>1
  <2>2. CASE outputs' # outputs
    <3>1. PICK r : r \in tf[ph] /\ tf'[ph] = tf[ph] \ {r}
      BY <1>1, <2>2, ConvergeFacts
    <3> QED BY <3>1
  <2> QED BY <2>1, <2>2
<1>2. ASSUME NEW p \in Procs, Work(p) \/ Crash(p),
             ~\E ph \in Phases : Converge(p, ph)
      PROVE  outputs' \in {outputs, "own", "trial", "registered", "none"}
  BY <1>2 DEF files, Work, Enter, EnterUpTrial, EnterUpTesting, EnterUpGateway,
         EnterUpFLP, EnterUpTGW, EnterUpCluster, EnterApply, EnterRegister,
         EnterDown, EnterDownCluster, FailEntry, EnterUp, Terraform,
         LegDone, LegFail, Wait, Record, RecordCluster, RecordHandoff,
         RecordNothing, DeleteClusterOutputs, DeleteHandoff, Return, Crash
<1>3. ASSUME NEW p \in Procs, Invoke(p) PROVE UNCHANGED outputs
  BY <1>3, InvokeSteps DEF SafeInv, TypeInv
<1> QED BY <1>1, <1>2, <1>3 DEF Next, vars, BeginTeardown, files

LEMMA NextImplements ==
  ASSUME SoleTerminal
  PROVE  HostInv /\ [Next]_vars => HostingStep
<1> SUFFICES ASSUME HostInv, [Next]_vars PROVE HostingStep
  OBVIOUS
<1>1. SameConfig /\ NoOrphans' /\ TrialIsThere'
  BY NextHost, ConfigKept DEF HostInv, SafeInv, TypeInv
<1>2. CASE UNCHANGED tf
  <2>1. outputs' = "lost" => outputs = "lost"
    BY <1>2, LostWithTrial DEF HostInv
  <2> QED BY <1>1, <1>2, <2>1, RecordImplements
<1>3. CASE ~UNCHANGED tf
  <2>1. PICK ph \in Phases : tf'[ph] # tf[ph]
    <3>1. tf \in [Phases -> SUBSET Resources] /\ tf' \in [Phases -> SUBSET Resources]
      BY NextTypeInv DEF HostInv, SafeInv, TypeInv, TypeOK
    <3> QED BY <1>3, <3>1
  <2>2. PICK p \in Procs : Converge(p, ph)
    BY <2>1, OnlyTerraform DEF HostInv, SafeInv
  <2> QED BY <1>1, <2>2, ConvergeImplements
<1> QED BY <1>2, <1>3

\* With one terminal at work, the phases implement ClusterHosting: initially no
\* cluster but an adopted one stands, and every step of every command gains or
\* loses one cluster, deploys or withdraws one layer, puts the trial's cluster
\* on record or takes it off, or does none of it, as that specification allows
\* (terraform's steps, the writes of cluster-outputs.json).
THEOREM HostingImplemented ==
  ASSUME SoleTerminal
  PROVE  Spec => ImplementsHosting
<1>1. Init => Hosting!Init
  <2> SUFFICES ASSUME Init PROVE Hosting!Init
    OBVIOUS
  <2>1. /\ "own" \notin Stands /\ "trial" \notin Stands /\ Deployed = {}
        /\ OnRecord = "other"
    BY StandsNow DEF StandsIs, Init, Deployed, OnCluster, Dependents, Phases
  <2>2. Stands \subseteq {"adopted"}
    BY <2>1, StandsNow DEF StandsIs
  <2> QED BY <2>1, <2>2 DEF Hosting!Init, Stands, Deployed, OnRecord
<1>2. HostInv /\ [Next]_vars => HostingStep
  BY NextImplements
<1> QED BY <1>1, <1>2, AlwaysHost, PTL
        DEF Spec, ImplementsHosting, Hosting!Spec, HostingStep, Stands, Deployed,
            OnRecord

-----------------------------------------------------------------------------
(* What a command's queue still holds.                                     *)

Named            == Usable \/ outputs = "lost"
Queued(todo, ph) == \E i \in DOMAIN todo : ph \in todo[i].of
TestingUp(st)    == st.op = "up" /\ "testing" \in st.of /\ ~st.soft
NothingDeployed  == \A ph \in Phases : tf[ph] = {}

\* down and cluster down destroy, one stage after the other, and give up with
\* the first that fails; what is still deployed is still queued, or the queue
\* ends with the cluster's stage, whose guard looks at every phase again.
TeardownSound(pr) ==
  pr.exit = "running" /\ pr.cmd \in {"down", "cluster down"} =>
    /\ \A i \in DOMAIN pr.todo : pr.todo[i].op = "down" /\ ~pr.todo[i].soft
    /\ \/ cfg.s3
       \/ Queued(pr.todo, "cluster")
       \/ \A ph \in Phases : tf[ph] # {} => Queued(pr.todo, ph)

\* Before the gateway's stage of down comes that of the trial and the testing
\* phase, as long as they have anything left.
DetachSound(pr) ==
  pr.exit = "running" /\ pr.cmd = "down" =>
    /\ ~cfg.s3
    /\ \A i \in DOMAIN pr.todo, ph \in {"bnk", "testing"} :
         "tgw" \in pr.todo[i].of /\ tf[ph] # {} =>
           \E j \in 1 .. (i - 1) : ph \in pr.todo[j].of

\* up still has its testing phase to bring up, or the record it insists on.
UpSound(pr) ==
  pr.exit = "running" /\ pr.cmd = "up" =>
    /\ \A i \in DOMAIN pr.todo : pr.todo[i].op # "down"
    /\ Named \/ \E i \in DOMAIN pr.todo : TestingUp(pr.todo[i])
    /\ pr.todo # <<>> /\ pr.at # "enter" /\ TestingUp(Head(pr.todo)) => Named

\* What a command that has reported success has reached.
SuccessSound(pr) ==
  pr.exit = "ok" =>
    /\ pr.cmd \in {"down", "cluster down"} => cfg.s3 \/ NothingDeployed
    /\ pr.cmd = "up" => Named

CommandHolds(pr) == /\ TeardownSound(pr) /\ DetachSound(pr)
                    /\ UpSound(pr) /\ SuccessSound(pr)

OutcomeInv == HostInv /\ \A p \in Procs : CommandHolds(proc[p])

-----------------------------------------------------------------------------
(* Queues again: the elements of a tail and of a concatenation.            *)

LEMMA TailStages ==
  ASSUME NEW s \in Seq(StageType), s # <<>>
  PROVE  /\ \A i \in DOMAIN Tail(s) : /\ i \in Nat /\ i >= 1 /\ i + 1 \in DOMAIN s
                                      /\ Tail(s)[i] = s[i + 1]
         /\ \A i \in DOMAIN s : \/ i = 1 /\ s[i] = Head(s)
                                \/ i - 1 \in DOMAIN Tail(s) /\ Tail(s)[i - 1] = s[i]
         /\ 1 \in DOMAIN s /\ s[1] = Head(s)
OBVIOUS

LEMMA ConcatStages ==
  ASSUME NEW s \in Seq(StageType), NEW t \in Seq(StageType)
  PROVE  /\ \A i \in DOMAIN (s \o t) : \/ \E j \in DOMAIN s : (s \o t)[i] = s[j]
                                       \/ \E j \in DOMAIN t : (s \o t)[i] = t[j]
         /\ \A j \in DOMAIN s : j \in DOMAIN (s \o t) /\ (s \o t)[j] = s[j]
         /\ \A j \in DOMAIN t : /\ Len(s) + j \in DOMAIN (s \o t)
                                /\ (s \o t)[Len(s) + j] = t[j]
<1>1. ASSUME NEW i \in DOMAIN (s \o t)
      PROVE  \/ \E j \in DOMAIN s : (s \o t)[i] = s[j]
             \/ \E j \in DOMAIN t : (s \o t)[i] = t[j]
  <2>1. CASE i <= Len(s)
    <3>1. i \in DOMAIN s /\ (s \o t)[i] = s[i]
      BY <2>1
    <3> QED BY <3>1
  <2>2. CASE i > Len(s)
    <3>1. i - Len(s) \in DOMAIN t /\ (s \o t)[i] = t[i - Len(s)]
      BY <2>2
    <3> QED BY <3>1
  <2> QED BY <2>1, <2>2
<1>2. \A j \in DOMAIN s : j \in DOMAIN (s \o t) /\ (s \o t)[j] = s[j]
  OBVIOUS
<1>3. \A j \in DOMAIN t : /\ Len(s) + j \in DOMAIN (s \o t)
                          /\ (s \o t)[Len(s) + j] = t[j]
  OBVIOUS
<1> QED BY <1>1, <1>2, <1>3

-----------------------------------------------------------------------------
(* What a queue holds, through a stage and from one stage to the next.     *)

LEMMA HoldsOne ==
  ASSUME SoleTerminal, HostInv', NEW p \in Procs, CommandHolds(proc[p])'
  PROVE  OutcomeInv'
<1>1. (\A q \in Procs : CommandHolds(proc[q]))'
  BY DEF SoleTerminal
<1> QED BY <1>1 DEF OutcomeInv

\* The stage goes on: it destroys or creates, or starts, or is to be recorded.
LEMMA HoldsThrough ==
  ASSUME OutcomeInv, NEW p \in Procs, SameConfig, Running(p), proc[p].todo # <<>>,
         proc'[p].todo = proc[p].todo, proc'[p].exit = proc[p].exit,
         proc'[p].cmd = proc[p].cmd,
         Head1(p).op = "down" => \A ph \in Phases : tf[ph] = {} => tf'[ph] = {},
         Head1(p).op # "down" /\ Named => Named',
         proc[p].at = "enter" /\ TestingUp(Head1(p)) => Named
  PROVE  CommandHolds(proc[p])'
<1> DEFINE todo == proc[p].todo
<1>0. todo \in Seq(StageType)
  BY DEF OutcomeInv, HostInv, SafeInv, TypeInv, TypeOK, ProcType
<1>1. 1 \in DOMAIN todo /\ todo[1] = Head1(p)
  BY <1>0 DEF Head1
<1>h. CommandHolds(proc[p])
  BY DEF OutcomeInv
<1> HIDE DEF todo
<1>2. TeardownSound(proc[p])'
  <2> SUFFICES ASSUME proc[p].exit = "running", proc[p].cmd \in {"down", "cluster down"}
               PROVE  /\ \A i \in DOMAIN todo : todo[i].op = "down" /\ ~todo[i].soft
                      /\ \/ cfg.s3 \/ Queued(todo, "cluster")
                         \/ \A ph \in Phases : tf'[ph] # {} => Queued(todo, ph)
    BY DEF TeardownSound, Queued, SameConfig, todo
  <2>1. /\ \A i \in DOMAIN todo : todo[i].op = "down" /\ ~todo[i].soft
        /\ \/ cfg.s3 \/ Queued(todo, "cluster")
           \/ \A ph \in Phases : tf[ph] # {} => Queued(todo, ph)
    BY <1>h DEF CommandHolds, TeardownSound, todo
  <2> QED BY <1>1, <2>1
<1>3. DetachSound(proc[p])'
  <2> SUFFICES ASSUME proc[p].exit = "running", proc[p].cmd = "down"
               PROVE  /\ ~cfg.s3
                      /\ \A i \in DOMAIN todo, ph \in {"bnk", "testing"} :
                           "tgw" \in todo[i].of /\ tf'[ph] # {} =>
                             \E j \in 1 .. (i - 1) : ph \in todo[j].of
    BY DEF DetachSound, SameConfig, todo
  <2>1. /\ ~cfg.s3
        /\ \A i \in DOMAIN todo, ph \in {"bnk", "testing"} :
             "tgw" \in todo[i].of /\ tf[ph] # {} =>
               \E j \in 1 .. (i - 1) : ph \in todo[j].of
    BY <1>h DEF CommandHolds, DetachSound, todo
  <2>2. Head1(p).op = "down"
    BY <1>1, <1>h DEF CommandHolds, TeardownSound, todo
  <2>3. \A ph \in {"bnk", "testing"} : tf[ph] = {} => tf'[ph] = {}
    BY <2>2 DEF Phases
  <2> QED BY <2>1, <2>3
<1>4. UpSound(proc[p])'
  <2> SUFFICES ASSUME proc[p].exit = "running", proc[p].cmd = "up"
               PROVE  /\ \A i \in DOMAIN todo : todo[i].op # "down"
                      /\ Named' \/ \E i \in DOMAIN todo : TestingUp(todo[i])
                      /\ todo # <<>> /\ TestingUp(Head(todo)) /\ proc'[p].at # "enter"
                           => Named'
    BY DEF UpSound, todo, TestingUp
  <2>1. /\ \A i \in DOMAIN todo : todo[i].op # "down"
        /\ Named \/ \E i \in DOMAIN todo : TestingUp(todo[i])
        /\ todo # <<>> /\ proc[p].at # "enter" /\ TestingUp(Head(todo)) => Named
    BY <1>h DEF CommandHolds, UpSound, todo
  <2>2. Named => Named'
    BY <1>1, <2>1
  <2> QED BY <2>1, <2>2 DEF Head1, todo
<1>5. SuccessSound(proc[p])'
  BY DEF SuccessSound, Running
<1> QED BY <1>2, <1>3, <1>4, <1>5 DEF CommandHolds

\* The stage is over and done; the command goes on with those behind it, an
\* up perhaps with one more in front.
LEMMA HoldsNext ==
  ASSUME OutcomeInv, NEW p \in Procs, SameConfig, Running(p), proc[p].todo # <<>>,
         UNCHANGED tf,
         proc'[p].exit = proc[p].exit, proc'[p].cmd = proc[p].cmd,
         proc'[p].at = "enter",
         NEW pre \in Seq(StageType), \A i \in DOMAIN pre : pre[i].op # "down",
         proc'[p].todo = pre \o Tail(proc[p].todo),
         Head1(p).op = "down" /\ ~Head1(p).soft =>
           /\ pre = <<>>
           /\ cfg.s3 \/ \A ph \in Head1(p).of : tf[ph] = {}
           /\ "cluster" \in Head1(p).of => cfg.s3 \/ NothingDeployed,
         Head1(p).op # "down" /\ Named => Named',
         proc[p].cmd = "up" /\ TestingUp(Head1(p)) => Named
  PROVE  CommandHolds(proc[p])'
<1> DEFINE todo == proc[p].todo
           rest == Tail(todo)
           next == pre \o rest
<1>0. todo \in Seq(StageType)
  BY DEF OutcomeInv, HostInv, SafeInv, TypeInv, TypeOK, ProcType
<1>1. /\ \A i \in DOMAIN rest : /\ i \in Nat /\ i >= 1 /\ i + 1 \in DOMAIN todo
                                /\ rest[i] = todo[i + 1]
      /\ \A i \in DOMAIN todo : \/ i = 1 /\ todo[i] = Head1(p)
                                \/ i - 1 \in DOMAIN rest /\ rest[i - 1] = todo[i]
      /\ 1 \in DOMAIN todo /\ todo[1] = Head1(p)
  BY <1>0, TailStages DEF Head1
<1>2. rest \in Seq(StageType)
  BY <1>0
<1>t. proc'[p].todo = next
  OBVIOUS
<1> HIDE DEF todo, rest
<1>n. pre = <<>> => next = rest
  BY <1>2
<1>3. /\ \A i \in DOMAIN next : \/ \E j \in DOMAIN pre : next[i] = pre[j]
                                \/ \E j \in DOMAIN rest : next[i] = rest[j]
      /\ \A j \in DOMAIN rest : \E i \in DOMAIN next : next[i] = rest[j]
  <2>1. ASSUME NEW j \in DOMAIN rest PROVE \E i \in DOMAIN next : next[i] = rest[j]
    <3>1. Len(pre) + j \in DOMAIN next /\ next[Len(pre) + j] = rest[j]
      BY <1>2, <2>1, ConcatStages
    <3> QED BY <3>1
  <2> QED BY <1>2, <2>1, ConcatStages
<1>h. CommandHolds(proc[p])
  BY DEF OutcomeInv
<1> HIDE DEF next
<1>4. TeardownSound(proc[p])'
  <2> SUFFICES ASSUME proc[p].exit = "running", proc[p].cmd \in {"down", "cluster down"}
               PROVE  /\ \A i \in DOMAIN next : next[i].op = "down" /\ ~next[i].soft
                      /\ \/ cfg.s3 \/ Queued(next, "cluster")
                         \/ \A ph \in Phases : tf[ph] # {} => Queued(next, ph)
    BY <1>t DEF TeardownSound, Queued, SameConfig
  <2>1. /\ \A i \in DOMAIN todo : todo[i].op = "down" /\ ~todo[i].soft
        /\ \/ cfg.s3 \/ Queued(todo, "cluster")
           \/ \A ph \in Phases : tf[ph] # {} => Queued(todo, ph)
    BY <1>h DEF CommandHolds, TeardownSound, todo
  <2>2. next = rest /\ Head1(p).op = "down" /\ ~Head1(p).soft
    BY <1>1, <1>n, <2>1
  <2>3. \A ph : Queued(todo, ph) => ph \in Head1(p).of \/ Queued(rest, ph)
    BY <1>1 DEF Queued
  <2>4. \A i \in DOMAIN rest : rest[i].op = "down" /\ ~rest[i].soft
    BY <1>1, <2>1
  <2>5. \/ cfg.s3 \/ Queued(rest, "cluster")
        \/ \A ph \in Phases : tf[ph] # {} => Queued(rest, ph)
    <3>1. CASE "cluster" \in Head1(p).of
      BY <2>2, <3>1 DEF NothingDeployed
    <3>2. CASE "cluster" \notin Head1(p).of
      BY <2>1, <2>2, <2>3, <3>2
    <3> QED BY <3>1, <3>2
  <2> QED BY <2>2, <2>4, <2>5
<1>5. DetachSound(proc[p])'
  <2> SUFFICES ASSUME proc[p].exit = "running", proc[p].cmd = "down"
               PROVE  /\ ~cfg.s3
                      /\ \A i \in DOMAIN next, ph \in {"bnk", "testing"} :
                           "tgw" \in next[i].of /\ tf[ph] # {} =>
                             \E j \in 1 .. (i - 1) : ph \in next[j].of
    BY <1>t DEF DetachSound, SameConfig
  <2>1. /\ ~cfg.s3
        /\ \A i \in DOMAIN todo, ph \in {"bnk", "testing"} :
             "tgw" \in todo[i].of /\ tf[ph] # {} =>
               \E j \in 1 .. (i - 1) : ph \in todo[j].of
    BY <1>h DEF CommandHolds, DetachSound, todo
  <2>2. next = rest /\ Head1(p).op = "down" /\ ~Head1(p).soft
    BY <1>1, <1>h, <1>n DEF CommandHolds, TeardownSound, todo
  <2>3. ASSUME NEW i \in DOMAIN rest, NEW ph \in {"bnk", "testing"},
               "tgw" \in rest[i].of, tf[ph] # {}
        PROVE  \E j \in 1 .. (i - 1) : ph \in rest[j].of
    <3>1. /\ i \in Nat /\ i >= 1 /\ i + 1 \in DOMAIN todo /\ "tgw" \in todo[i + 1].of
          /\ DOMAIN rest = 1 .. Len(rest) /\ Len(rest) \in Nat
      BY <1>1, <1>2, <2>3
    <3>2. PICK k \in 1 .. i : ph \in todo[k].of
      <4>1. \E k \in 1 .. ((i + 1) - 1) : ph \in todo[k].of
        BY <2>1, <2>3, <3>1
      <4>2. (i + 1) - 1 = i
        BY <3>1
      <4> QED BY <4>1, <4>2
    <3>3. k # 1
      BY <1>1, <2>1, <2>2, <2>3, <3>2
    <3>4. k - 1 \in 1 .. (i - 1) /\ k - 1 \in DOMAIN rest /\ (k - 1) + 1 = k
      BY <3>1, <3>2, <3>3
    <3>5. rest[k - 1] = todo[k]
      BY <1>1, <3>4
    <3> QED BY <3>2, <3>4, <3>5
  <2> QED BY <2>1, <2>2, <2>3
<1>6. UpSound(proc[p])'
  <2> SUFFICES ASSUME proc[p].exit = "running", proc[p].cmd = "up"
               PROVE  /\ \A i \in DOMAIN next : next[i].op # "down"
                      /\ Named' \/ \E i \in DOMAIN next : TestingUp(next[i])
    BY <1>t DEF UpSound, TestingUp
  <2>1. /\ \A i \in DOMAIN todo : todo[i].op # "down"
        /\ Named \/ \E i \in DOMAIN todo : TestingUp(todo[i])
    BY <1>h DEF CommandHolds, UpSound, todo
  <2>2. Named => Named'
    BY <1>1, <2>1
  <2>3. \A i \in DOMAIN next : next[i].op # "down"
    BY <1>1, <1>3, <2>1
  <2>4. ASSUME NEW i \in DOMAIN todo, TestingUp(todo[i]), ~Named
        PROVE  \E k \in DOMAIN next : TestingUp(next[k])
    <3>1. \E j \in DOMAIN rest : TestingUp(rest[j])
      BY <1>1, <2>4
    <3> QED BY <1>3, <3>1
  <2> QED BY <2>1, <2>2, <2>3, <2>4
<1>7. SuccessSound(proc[p])'
  BY DEF SuccessSound, Running
<1> QED BY <1>4, <1>5, <1>6, <1>7 DEF CommandHolds

LEMMA NextStageFields ==
  ASSUME TypeInv, NEW p \in Procs, proc[p].todo # <<>>
  PROVE  LET ns == NextStage(proc[p]) IN
         /\ ns \in ProcType /\ ns.todo = Tail(proc[p].todo)
         /\ ns.cmd = proc[p].cmd
         /\ ns.at = "enter" /\ ns.exit = proc[p].exit
<1>1. proc[p] \in ProcType
  BY DEF TypeInv, TypeOK
<1>2. NextStage(proc[p]).cmd = proc[p].cmd
  BY <1>1 DEF NextStage, ProcType
<1> QED BY <1>1, <1>2, NextStageType, NextStageFresh

\* What of the command going on with its next stage leaves as it is.
LEMMA NextShape ==
  ASSUME TypeInv, NEW p \in Procs, proc[p].todo # <<>>,
         NEW pre \in Seq(StageType),
         Step(p, [NextStage(proc[p]) EXCEPT !.todo = pre \o @])
  PROVE  /\ proc'[p].exit = proc[p].exit /\ proc'[p].cmd = proc[p].cmd
         /\ proc'[p].at = "enter" /\ proc'[p].todo = pre \o Tail(proc[p].todo)
<1> DEFINE ns == NextStage(proc[p])
<1>1. /\ ns \in ProcType /\ ns.todo = Tail(proc[p].todo) /\ ns.cmd = proc[p].cmd
      /\ ns.at = "enter" /\ ns.exit = proc[p].exit
  BY NextStageFields
<1>2. proc'[p] = [ns EXCEPT !.todo = pre \o @]
  BY StepAlone DEF TypeInv
<1> HIDE DEF ns
<1>3. proc'[p].todo = pre \o ns.todo
  BY <1>1, <1>2 DEF ProcType
<1>4. proc'[p].exit = ns.exit /\ proc'[p].cmd = ns.cmd /\ proc'[p].at = ns.at
  BY <1>1, <1>2 DEF ProcType
<1> QED BY <1>1, <1>3, <1>4

LEMMA PlainNextShape ==
  ASSUME TypeInv, NEW p \in Procs, proc[p].todo # <<>>, Step(p, NextStage(proc[p]))
  PROVE  /\ proc'[p].exit = proc[p].exit /\ proc'[p].cmd = proc[p].cmd
         /\ proc'[p].at = "enter" /\ proc'[p].todo = <<>> \o Tail(proc[p].todo)
<1> DEFINE ns == NextStage(proc[p])
<1>1. /\ ns \in ProcType /\ ns.todo = Tail(proc[p].todo) /\ ns.cmd = proc[p].cmd
      /\ ns.at = "enter" /\ ns.exit = proc[p].exit
  BY NextStageFields
<1>2. proc'[p] = ns
  BY StepAlone DEF TypeInv
<1> HIDE DEF ns
<1>3. ns.todo \in Seq(StageType)
  BY <1>1 DEF ProcType
<1>4. <<>> \o ns.todo = ns.todo
  BY <1>3
<1> QED BY <1>1, <1>2, <1>4

\* The stage is over with nothing for the command to add.
LEMMA HoldsPlainNext ==
  ASSUME OutcomeInv, NEW p \in Procs, SameConfig, Running(p), proc[p].todo # <<>>,
         UNCHANGED tf, Step(p, NextStage(proc[p])),
         Head1(p).op = "down" /\ ~Head1(p).soft =>
           /\ cfg.s3 \/ \A ph \in Head1(p).of : tf[ph] = {}
           /\ "cluster" \in Head1(p).of => cfg.s3 \/ NothingDeployed,
         Head1(p).op # "down" /\ Named => Named',
         proc[p].cmd = "up" /\ TestingUp(Head1(p)) => Named
  PROVE  CommandHolds(proc[p])'
<1>1. TypeInv
  BY DEF OutcomeInv, HostInv, SafeInv
<1> DEFINE pre == <<>>
<1>2. /\ pre \in Seq(StageType) /\ \A i \in DOMAIN pre : pre[i].op # "down"
      /\ pre = <<>>
  OBVIOUS
<1>3. /\ proc'[p].exit = proc[p].exit /\ proc'[p].cmd = proc[p].cmd
      /\ proc'[p].at = "enter" /\ proc'[p].todo = pre \o Tail(proc[p].todo)
  BY <1>1, PlainNextShape
<1> HIDE DEF pre
<1> QED BY <1>2, <1>3, HoldsNext

\* A failed stage ends the command, or was a best-effort one.
LEMMA HoldsFailed ==
  ASSUME OutcomeInv, NEW p \in Procs, SameConfig, Running(p), proc[p].todo # <<>>,
         UNCHANGED <<tf, outputs>>, Step(p, FailStage(proc[p]))
  PROVE  CommandHolds(proc[p])'
<1>1. CASE Head1(p).soft
  <2>1. FailStage(proc[p]) = NextStage(proc[p])
    BY <1>1 DEF FailStage, Head1
  <2>2. Named => Named'
    BY DEF Named, Usable
  <2> QED BY <1>1, <2>1, <2>2, HoldsPlainNext DEF TestingUp
<1>2. CASE ~Head1(p).soft
  <2>1. proc'[p] = FailStage(proc[p])
    BY StepAlone DEF OutcomeInv, HostInv, SafeInv, TypeInv
  <2>2. proc'[p].exit = "error"
    BY <1>2, <2>1 DEF FailStage, Head1, OutcomeInv, HostInv, SafeInv, TypeInv,
                      TypeOK, ProcType
  <2> QED BY <2>2 DEF CommandHolds, TeardownSound, DetachSound, UpSound, SuccessSound
<1> QED BY <1>1, <1>2

\* ... and with the connection of the VPC to add.
LEMMA HoldsConnectNext ==
  ASSUME OutcomeInv, NEW p \in Procs, SameConfig, Running(p), proc[p].todo # <<>>,
         UNCHANGED tf, Head1(p).op # "down", "testing" \notin Head1(p).of,
         Step(p, [NextStage(proc[p]) EXCEPT !.todo = AutoConnectStages \o @]),
         Named => Named'
  PROVE  CommandHolds(proc[p])'
<1>1. TypeInv
  BY DEF OutcomeInv, HostInv, SafeInv
<1> DEFINE pre == AutoConnectStages
<1>2. pre \in Seq(StageType) /\ \A i \in DOMAIN pre : pre[i].op # "down"
  BY StageTypes DEF AutoConnectStages, AutoConnect
<1>3. /\ proc'[p].exit = proc[p].exit /\ proc'[p].cmd = proc[p].cmd
      /\ proc'[p].at = "enter" /\ proc'[p].todo = pre \o Tail(proc[p].todo)
  BY <1>1, <1>2, NextShape
<1>4. ~TestingUp(Head1(p))
  BY DEF TestingUp
<1> HIDE DEF pre
<1> QED BY <1>2, <1>3, <1>4, HoldsNext

-----------------------------------------------------------------------------
(* Every step of a command keeps what its queue holds.                     *)

LEMMA ReadyUsable ==
  ASSUME TypeOK, HandoffReady("testing"), Resolves("testing")
  PROVE  Named
BY DEF TypeOK, OutputsValues, HandoffReady, NeedsRecord, Resolves, Named, Usable

LEMMA EnterUpHolds ==
  ASSUME OutcomeInv, NEW p \in Procs, SameConfig, NEW of, EnterUp(p, of)
  PROVE  CommandHolds(proc[p])'
<1>0. TypeInv
  BY DEF OutcomeInv, HostInv, SafeInv
<1>1. /\ Running(p) /\ proc[p].todo # <<>> /\ Head1(p).op = "up" /\ Head1(p).of = of
      /\ UNCHANGED <<tf, outputs>>
      /\ \A ph \in of : HandoffReady(ph) /\ Resolves(ph)
      /\ \/ Step(p, [proc[p] EXCEPT !.at = "record"])
         \/ \E legs : StartLegs(p, legs)
  BY DEF EnterUp, At, files
<1>2. /\ proc'[p].todo = proc[p].todo /\ proc'[p].exit = proc[p].exit
      /\ proc'[p].cmd = proc[p].cmd
  BY <1>0, <1>1, Started, Recorded
<1>3. TestingUp(Head1(p)) => Named
  BY <1>0, <1>1, ReadyUsable DEF TestingUp, TypeInv
<1>4. Named => Named'
  BY <1>1 DEF Named, Usable
<1> QED BY <1>1, <1>2, <1>3, <1>4, HoldsThrough

LEMMA EnterHolds ==
  ASSUME OutcomeInv, NEW p \in Procs, SameConfig, Enter(p)
  PROVE  CommandHolds(proc[p])'
<1>0. TypeInv
  BY DEF OutcomeInv, HostInv, SafeInv
<1>u. UNCHANGED outputs => (Named => Named')
  BY DEF Named, Usable
<1>1. CASE \E of : EnterUp(p, of)
  BY <1>1, EnterUpHolds
<1>2. CASE EnterUpTGW(p) /\ ~EnterUp(p, {"tgw"})
  <2>1. /\ Running(p) /\ proc[p].todo # <<>>
        /\ Head1(p).op = "up" /\ Head1(p).of = {"tgw"}
        /\ UNCHANGED <<tf, outputs>> /\ Step(p, NextStage(proc[p]))
    BY <1>2 DEF EnterUpTGW, At
  <2> QED BY <1>u, <2>1, HoldsPlainNext DEF TestingUp
<1>3. CASE EnterUpCluster(p) /\ ~EnterUp(p, {"cluster"})
  <2>1. /\ Running(p) /\ proc[p].todo # <<>> /\ proc[p].at = "enter"
        /\ Head1(p).op = "up" /\ Head1(p).of = {"cluster"}
        /\ UNCHANGED <<tf, outputs>>
        /\ Step(p, [proc[p] EXCEPT !.todo = <<Register>> \o Tail(@)])
    BY <1>3 DEF EnterUpCluster, At, files
  <2>2. proc'[p] = [proc[p] EXCEPT !.todo = <<Register>> \o Tail(@)]
    BY <1>0, <2>1, StepAlone DEF TypeInv
  <2> DEFINE pre == <<Register>>
  <2>3. /\ proc'[p].exit = proc[p].exit /\ proc'[p].cmd = proc[p].cmd
        /\ proc'[p].at = "enter" /\ proc'[p].todo = pre \o Tail(proc[p].todo)
    BY <1>0, <2>1, <2>2 DEF TypeInv, TypeOK, ProcType
  <2>4. pre \in Seq(StageType) /\ \A i \in DOMAIN pre : pre[i].op # "down"
    BY StageTypes DEF Register, Stage
  <2>5. ~TestingUp(Head1(p))
    BY <2>1 DEF TestingUp
  <2> HIDE DEF pre
  <2> QED BY <1>u, <2>1, <2>3, <2>4, <2>5, HoldsNext
<1>4. CASE EnterApply(p)
  <2>1. /\ Running(p) /\ proc[p].todo # <<>> /\ Head1(p).op = "apply"
        /\ UNCHANGED <<tf, outputs>> /\ StartLegs(p, ApplyLegs({"bnk"}))
    BY <1>4 DEF EnterApply, At, files
  <2> QED BY <1>0, <1>u, <2>1, Started, HoldsThrough DEF TestingUp
<1>5. CASE EnterRegister(p)
  <2>1. /\ Running(p) /\ proc[p].todo # <<>> /\ Head1(p).op = "register"
        /\ Head1(p).of = {} /\ UNCHANGED tf /\ Named'
        /\ Step(p, [NextStage(proc[p]) EXCEPT !.todo = AutoConnectStages \o @])
    BY <1>5 DEF EnterRegister, At, Named, Usable
  <2> QED BY <2>1, HoldsConnectNext
<1>6. CASE EnterDown(p)
  <2>1. /\ Running(p) /\ proc[p].todo # <<>> /\ Head1(p).op = "down"
        /\ UNCHANGED <<tf, outputs>> /\ \E legs : StartLegs(p, legs)
    BY <1>6 DEF EnterDown, At, files
  <2> QED BY <1>0, <2>1, Started, HoldsThrough DEF TestingUp
<1>7. CASE EnterDownCluster(p)
  <2>1. /\ Running(p) /\ proc[p].todo # <<>> /\ Head1(p).op = "down"
        /\ Head1(p).of = {"cluster"} /\ UNCHANGED <<tf, outputs>>
        /\ \A ph \in Dependents : ~Present(ph)
    BY <1>7 DEF EnterDownCluster, At, files, ClusterDownRefused
  <2>2. CASE ~ClusterResidual /\ Step(p, NextStage(proc[p]))
    <3>1. cfg.s3 \/ NothingDeployed
      BY <2>1, <2>2
         DEF Present, ClusterResidual, LocalState, NothingDeployed, Dependents
    <3>2. cfg.s3 \/ \A ph \in Head1(p).of : tf[ph] = {}
      BY <2>1, <2>2 DEF ClusterResidual, LocalState
    <3> QED BY <2>1, <2>2, <3>1, <3>2, HoldsPlainNext DEF TestingUp
  <2>3. CASE \E legs : StartLegs(p, legs)
    BY <1>0, <2>1, <2>3, Started, HoldsThrough DEF TestingUp
  <2> QED BY <1>7, <2>2, <2>3 DEF EnterDownCluster
<1>8. CASE FailEntry(p)
  BY <1>8, HoldsFailed DEF FailEntry, files
<1> QED BY <1>1, <1>2, <1>3, <1>4, <1>5, <1>6, <1>7, <1>8
        DEF Enter, EnterUpTrial, EnterUpTesting, EnterUpGateway, EnterUpFLP,
            EnterUpTGW, EnterUpCluster

\* Only the destroy of the cluster makes its record stale, that of the trial's
\* leaves the record behind.
LEMMA ConvergeRecord ==
  ASSUME SafeInv, NEW p \in Procs, NEW ph \in Phases, Converge(p, ph)
  PROVE  outputs' \in {outputs, "lost"} \/ Head1(p).op = "down"
<1> SUFFICES ASSUME outputs' \notin {outputs, "lost"} PROVE Head1(p).op = "down"
  OBVIOUS
<1>1. /\ RunningLeg(p, ph) /\ ph = "cluster" /\ "roks" \notin proc[p].legs["cluster"]
  BY DEF Converge, OutputsAfter, Destroyable
<1> QED BY <1>1, LegFacts DEF ClusterGoal

LEMMA TerraformHolds ==
  ASSUME OutcomeInv, NEW p \in Procs, SameConfig, Terraform(p) \/ Wait(p)
  PROVE  CommandHolds(proc[p])'
<1>0. TypeInv /\ SafeInv
  BY DEF OutcomeInv, HostInv, SafeInv
<1>u. UNCHANGED outputs => (Named => Named')
  BY DEF Named, Usable
<1>1. ASSUME NEW ph \in Phases, Converge(p, ph) PROVE CommandHolds(proc[p])'
  <2>1. /\ Running(p) /\ proc[p].at = "run" /\ proc[p].todo # <<>> /\ UNCHANGED proc
    BY <1>0, <1>1 DEF Converge, RunningLeg, TypeInv, StagesSound
  <2>2. Head1(p).op = "down" => \A x \in Phases : tf[x] = {} => tf'[x] = {}
    <3>1. Head1(p).op = "down" => proc[p].legs[ph] = {}
      BY <1>0, <1>1, LegFacts DEF Converge
    <3> QED BY <1>0, <1>1, <3>1, ConvergeFacts
  <2>3. Head1(p).op # "down" /\ Named => Named'
    BY <1>0, <1>1, ConvergeRecord DEF Named, Usable
  <2> QED BY <2>1, <2>2, <2>3, HoldsThrough
<1>2. ASSUME NEW ph \in Phases, LegDone(p, ph) \/ LegFail(p, ph)
      PROVE  CommandHolds(proc[p])'
  <2>1. /\ Running(p) /\ proc[p].at = "run" /\ proc[p].todo # <<>>
        /\ UNCHANGED <<tf, outputs>>
    BY <1>0, <1>2 DEF LegDone, LegFail, RunningLeg, files, TypeInv, StagesSound
  <2>2. /\ proc'[p].todo = proc[p].todo /\ proc'[p].exit = proc[p].exit
        /\ proc'[p].cmd = proc[p].cmd
    BY <1>0, <1>2, LegEnds
  <2> QED BY <1>u, <2>1, <2>2, HoldsThrough
<1>3. CASE Wait(p)
  <2>1. /\ Running(p) /\ proc[p].at = "run" /\ proc[p].todo # <<>>
        /\ UNCHANGED <<tf, outputs>>
        /\ \/ Step(p, FailStage(proc[p]))
           \/ Step(p, [proc[p] EXCEPT !.at = "record"])
    BY <1>0, <1>3 DEF Wait, files, TypeInv, StagesSound
  <2>2. CASE Step(p, FailStage(proc[p]))
    BY <2>1, <2>2, HoldsFailed
  <2>3. CASE Step(p, [proc[p] EXCEPT !.at = "record"])
    BY <1>0, <1>u, <2>1, <2>3, Recorded, HoldsThrough
  <2> QED BY <2>1, <2>2, <2>3
<1> QED BY <1>1, <1>2, <1>3 DEF Terraform

LEMMA RecordHolds ==
  ASSUME OutcomeInv, NEW p \in Procs, SameConfig, Record(p)
  PROVE  CommandHolds(proc[p])'
<1>0. HostInv /\ SafeInv
  BY DEF OutcomeInv, HostInv
<1>u. UNCHANGED outputs => (Named => Named')
  BY DEF Named, Usable
<1>1. /\ Running(p) /\ proc[p].todo # <<>> /\ proc[p].at = "record" /\ UNCHANGED tf
      /\ Head1(p).op = "down" => \A ph \in Head1(p).of : tf[ph] = {}
      /\ proc[p].cmd = "up" /\ TestingUp(Head1(p)) => Named
  <2>1. /\ Running(p) /\ proc[p].todo # <<>> /\ proc[p].at = "record" /\ UNCHANGED tf
    BY DEF Record, RecordCluster, RecordHandoff, RecordNothing,
           DeleteClusterOutputs, DeleteHandoff, At, files
  <2>2. UpSound(proc[p])
    BY DEF OutcomeInv, CommandHolds
  <2> QED BY <1>0, <2>1, <2>2, StageDone DEF UpSound, Running, Head1
<1>2. CASE RecordCluster(p)
  <2>1. /\ Head1(p).op = "up" /\ Head1(p).of = {"cluster"}
        /\ Step(p, [NextStage(proc[p]) EXCEPT !.todo = AutoConnectStages \o @])
        /\ outputs' \in {"own", outputs}
    BY <1>2 DEF RecordCluster, At
  <2>2. Named => Named'
    BY <2>1 DEF Named, Usable
  <2> QED BY <1>1, <2>1, <2>2, HoldsConnectNext
<1>3. CASE RecordHandoff(p) \/ RecordNothing(p) \/ DeleteHandoff(p)
  <2>1. /\ UNCHANGED outputs /\ "cluster" \notin Head1(p).of
        /\ Step(p, NextStage(proc[p])) \/ Step(p, FailStage(proc[p]))
    BY <1>3 DEF RecordHandoff, RecordNothing, DeleteHandoff, At, files
  <2> QED BY <1>1, <1>u, <2>1, HoldsPlainNext, HoldsFailed
<1>4. CASE DeleteClusterOutputs(p)
  <2>1. /\ Head1(p).op = "down" /\ Head1(p).of = {"cluster"}
        /\ Step(p, NextStage(proc[p]))
    BY <1>4 DEF DeleteClusterOutputs, At
  <2>2. \A ph \in Dependents : tf[ph] = {}
    BY <1>0, <1>1, <2>1 DEF SafeInv, CommandSound, ClusterDownSound, ClusterDown,
                            Head1, Running
  <2>3. NothingDeployed
    BY <1>1, <2>1, <2>2 DEF NothingDeployed, Dependents
  <2> QED BY <1>1, <2>1, <2>3, HoldsPlainNext
<1> QED BY <1>2, <1>3, <1>4 DEF Record

LEMMA EndHolds ==
  ASSUME OutcomeInv, NEW p \in Procs, SameConfig, Return(p) \/ Crash(p)
  PROVE  CommandHolds(proc[p])'
<1>0. TypeInv
  BY DEF OutcomeInv, HostInv, SafeInv
<1>1. UNCHANGED <<tf, outputs>>
  BY DEF Return, Crash, files
<1>2. /\ proc'[p].cmd = proc[p].cmd
      /\ \/ Return(p) /\ proc'[p].exit = "ok"
         \/ proc'[p].exit = "crashed"
  BY <1>0, EndFacts
<1>3. CASE Return(p) /\ proc'[p].exit = "ok"
  <2>1. proc[p].todo = <<>> /\ proc[p].exit = "running"
    BY <1>3 DEF Return, Running
  <2>2. TeardownSound(proc[p]) /\ UpSound(proc[p])
    BY DEF OutcomeInv, CommandHolds
  <2>3. proc[p].cmd \in {"down", "cluster down"} => cfg.s3 \/ NothingDeployed
    <3>1. \A ph : ~Queued(proc[p].todo, ph)
      BY <2>1 DEF Queued
    <3> QED BY <2>1, <2>2, <3>1 DEF TeardownSound, NothingDeployed
  <2>4. proc[p].cmd = "up" => Named
    BY <2>1, <2>2 DEF UpSound
  <2>5. SuccessSound(proc[p])'
    BY <1>1, <1>2, <2>3, <2>4
       DEF SuccessSound, SameConfig, NothingDeployed, Named, Usable
  <2> QED BY <1>3, <2>5 DEF CommandHolds, TeardownSound, DetachSound, UpSound
<1>4. CASE proc'[p].exit = "crashed"
  BY <1>4 DEF CommandHolds, TeardownSound, DetachSound, UpSound, SuccessSound
<1> QED BY <1>2, <1>3, <1>4

-----------------------------------------------------------------------------
(* The queues the commands start with.                                     *)

\* down queues every phase it has seen, the trial's stage first.
LEMMA DownStagesHold ==
  ASSUME TypeOK, ~cfg.s3, ~Present("gateway"), ~Present("flp")
  PROVE  /\ \A i \in DOMAIN DownStages : DownStages[i].op = "down" /\ ~DownStages[i].soft
         /\ \A ph \in Phases : tf[ph] # {} => Queued(DownStages, ph)
         /\ \A i \in DOMAIN DownStages, ph \in {"bnk", "testing"} :
              "tgw" \in DownStages[i].of /\ tf[ph] # {} =>
                \E j \in 1 .. (i - 1) : ph \in DownStages[j].of
<1> DEFINE trial   == {ph \in {"bnk", "testing"} : Present(ph)}
           first   == IF trial # {} THEN <<Down(trial)>> ELSE <<>>
           tgw     == IF Present("tgw") THEN <<Down({"tgw"})>> ELSE <<>>
           cluster == IF ClusterResidual THEN <<Down({"cluster"})>> ELSE <<>>
           two     == first \o tgw
           all     == two \o cluster
<1>d. DownStages = all
  BY DEF DownStages
<1>p. /\ trial \in SUBSET Phases /\ {"tgw"} \in SUBSET Phases
      /\ {"cluster"} \in SUBSET Phases
  BY DEF Phases
<1>s. \A of \in SUBSET Phases : /\ Down(of) \in StageType /\ Down(of).of = of
                                /\ Down(of).op = "down" /\ ~Down(of).soft
  BY StageTypes DEF Down, Stage
<1>1. /\ first \in Seq(StageType)
      /\ \A i \in DOMAIN first : first[i] = Down(trial)
      /\ trial # {} => 1 \in DOMAIN first
  <2>1. Down(trial) \in StageType
    BY <1>p, <1>s
  <2> DEFINE one == Down(trial)
  <2> HIDE DEF one, trial
  <2>2. /\ <<one>> \in Seq(StageType) /\ 1 \in DOMAIN <<one>>
        /\ \A i \in DOMAIN <<one>> : <<one>>[i] = one
    BY <2>1 DEF one
  <2>3. CASE trial # {}
    BY <2>2, <2>3 DEF one
  <2>4. CASE trial = {}
    BY <2>4
  <2> QED BY <2>3, <2>4
<1>2. /\ tgw \in Seq(StageType)
      /\ \A i \in DOMAIN tgw : tgw[i] = Down({"tgw"})
      /\ Present("tgw") => 1 \in DOMAIN tgw
  BY <1>p, <1>s
<1>3. /\ cluster \in Seq(StageType)
      /\ \A i \in DOMAIN cluster : cluster[i] = Down({"cluster"})
      /\ ClusterResidual => 1 \in DOMAIN cluster
  BY <1>p, <1>s
<1>t. \A x : x \in trial <=> x \in {"bnk", "testing"} /\ Present(x)
  OBVIOUS
<1> HIDE DEF trial, first, tgw, cluster
<1>4. /\ \A i \in DOMAIN two : two[i] \in {Down(trial), Down({"tgw"})}
      /\ \A j \in DOMAIN first : j \in DOMAIN two /\ two[j] = first[j]
      /\ \A j \in DOMAIN tgw : /\ Len(first) + j \in DOMAIN two
                               /\ two[Len(first) + j] = tgw[j]
  BY <1>1, <1>2, ConcatStages
<1>5. two \in Seq(StageType)
  BY <1>1, <1>2
<1> HIDE DEF two
<1>6. /\ \A i \in DOMAIN all : all[i] \in {Down(trial), Down({"tgw"}), Down({"cluster"})}
      /\ \A j \in DOMAIN two : j \in DOMAIN all /\ all[j] = two[j]
      /\ \A j \in DOMAIN cluster : /\ Len(two) + j \in DOMAIN all
                                   /\ all[Len(two) + j] = cluster[j]
  BY <1>3, <1>4, <1>5, ConcatStages
<1>7. all \in Seq(StageType)
  BY <1>3, <1>5
<1> HIDE DEF all
<1>8. \A i \in DOMAIN all : all[i].op = "down" /\ ~all[i].soft
  BY <1>6, <1>p, <1>s
<1>9. ASSUME NEW ph \in Phases, tf[ph] # {} PROVE Queued(all, ph)
  <2>1. ph \in {"cluster", "bnk", "testing", "tgw"}
    BY <1>9 DEF Present, LocalState, Phases
  <2>2. CASE ph \in {"bnk", "testing"}
    <3>1. ph \in trial
      BY <1>9, <1>t, <2>2 DEF Present, LocalState
    <3>2. 1 \in DOMAIN all /\ all[1] = Down(trial)
      BY <1>1, <1>4, <1>6, <3>1
    <3> QED BY <1>p, <1>s, <3>1, <3>2 DEF Queued
  <2>3. CASE ph = "tgw"
    <3>1. Present("tgw")
      BY <1>9, <2>3 DEF Present, LocalState
    <3>2. Len(first) + 1 \in DOMAIN all /\ all[Len(first) + 1] = Down({"tgw"})
      BY <1>2, <1>4, <1>6, <3>1
    <3> QED BY <1>p, <1>s, <2>3, <3>2 DEF Queued
  <2>4. CASE ph = "cluster"
    <3>1. ClusterResidual
      BY <1>9, <2>4 DEF ClusterResidual, LocalState
    <3>2. Len(two) + 1 \in DOMAIN all /\ all[Len(two) + 1] = Down({"cluster"})
      BY <1>3, <1>6, <3>1
    <3> QED BY <1>p, <1>s, <2>4, <3>2 DEF Queued
  <2> QED BY <2>1, <2>2, <2>3, <2>4
<1>10. ASSUME NEW i \in DOMAIN all, NEW ph \in {"bnk", "testing"},
              "tgw" \in all[i].of, tf[ph] # {}
       PROVE  \E j \in 1 .. (i - 1) : ph \in all[j].of
  <2>1. ph \in trial /\ "tgw" \notin trial
    BY <1>10, <1>t DEF Present, LocalState
  <2>2. 1 \in DOMAIN all /\ all[1] = Down(trial)
    BY <1>1, <1>4, <1>6, <2>1
  <2>3. all[1].of = trial
    BY <1>p, <1>s, <2>2
  <2>4. i \in Nat /\ i >= 1 /\ i # 1
    BY <1>7, <1>10, <2>1, <2>3
  <2>5. 1 \in 1 .. (i - 1)
    BY <2>4
  <2> QED BY <2>1, <2>3, <2>5
<1> QED BY <1>d, <1>8, <1>9, <1>10

LEMMA InvokeHolds ==
  ASSUME TypeOK, NEW p \in Procs, SameConfig, Invoke(p)
  PROVE  CommandHolds(proc[p])'
<1>0. UNCHANGED <<tf, outputs>>
  BY InvokeSteps
<1> DEFINE pr == proc'[p]
<1>b. ASSUME NEW c, NEW stages, Begin(p, c, stages)
      PROVE  pr.cmd = c /\ pr.todo = stages /\ pr.at = "enter" /\ pr.exit = "running"
  BY <1>b DEF Begin, Begun, Free, TypeOK
<1>r. ASSUME NEW c
      PROVE  /\ Refuse(p, c) => pr.cmd = c /\ pr.exit = "error"
             /\ NoOp(p, c) => pr.cmd = c /\ pr.exit = "ok"
  BY <1>r DEF Refuse, NoOp, Free, TypeOK
<1> HIDE DEF pr
<1>v. pr.cmd \notin {"up", "down", "cluster down"} => CommandHolds(proc[p])'
  BY DEF CommandHolds, TeardownSound, DetachSound, UpSound, SuccessSound, pr
<1>e. pr.exit = "error" => CommandHolds(proc[p])'
  BY DEF CommandHolds, TeardownSound, DetachSound, UpSound, SuccessSound, pr
<1>1. CASE RunUp(p)
  <2> DEFINE pre  == IF ~Present("cluster") /\ outputs # "none"
                       THEN <<>> ELSE <<Up({"cluster"})>>
             last == <<Up({"bnk", "testing"})>>
  <2>1. pr.cmd = "up" /\ pr.todo = pre \o last /\ pr.at = "enter" /\ pr.exit = "running"
    BY <1>1, <1>b DEF RunUp
  <2>2. /\ pre \in Seq(StageType) /\ \A i \in DOMAIN pre : pre[i].op # "down"
        /\ last \in Seq(StageType) /\ \A i \in DOMAIN last : last[i].op # "down"
        /\ 1 \in DOMAIN last /\ TestingUp(last[1])
    BY StageTypes DEF Up, Stage, TestingUp, Phases
  <2> HIDE DEF pre, last
  <2>3. \A i \in DOMAIN pr.todo : pr.todo[i].op # "down"
    BY <2>1, <2>2, ConcatStages
  <2>4. \E i \in DOMAIN pr.todo : TestingUp(pr.todo[i])
    <3>1. Len(pre) + 1 \in DOMAIN pr.todo /\ pr.todo[Len(pre) + 1] = last[1]
      BY <2>1, <2>2, ConcatStages
    <3> QED BY <2>2, <3>1
  <2> QED BY <2>1, <2>3, <2>4
          DEF CommandHolds, TeardownSound, DetachSound, UpSound, SuccessSound,
              TestingUp, pr
<1>2. CASE RunDown(p)
  <2>1. CASE NothingPresent /\ NoOp(p, "down")
    <3>1. cfg.s3 \/ NothingDeployed
      BY <2>1 DEF NothingPresent, Present, ClusterResidual, LocalState, NothingDeployed
    <3>2. pr.cmd = "down" /\ pr.exit = "ok"
      BY <1>r, <2>1
    <3>3. SuccessSound(proc[p])'
      BY <1>0, <3>1, <3>2 DEF SuccessSound, SameConfig, NothingDeployed, pr
    <3> QED BY <3>2, <3>3 DEF CommandHolds, TeardownSound, DetachSound, UpSound, pr
  <2>2. CASE Refuse(p, "down")
    BY <1>e, <1>r, <2>2
  <2>3. CASE /\ ~NothingPresent /\ ~Present("gateway") /\ ~Present("flp")
             /\ Begin(p, "down", DownStages)
    <3>1. ~cfg.s3
      BY <2>3 DEF NothingPresent, Present, ClusterResidual, LocalState
    <3>2. pr.cmd = "down" /\ pr.todo = DownStages /\ pr.exit = "running"
      BY <1>b, <2>3
    <3>3. TeardownSound(proc[p])'
      BY <1>0, <2>3, <3>1, <3>2, DownStagesHold DEF TeardownSound, Queued, SameConfig, pr
    <3>4. DetachSound(proc[p])'
      BY <1>0, <2>3, <3>1, <3>2, DownStagesHold DEF DetachSound, SameConfig, pr
    <3> QED BY <3>2, <3>3, <3>4 DEF CommandHolds, UpSound, SuccessSound, pr
  <2> QED BY <1>2, <2>1, <2>2, <2>3 DEF RunDown
<1>3. CASE RunClusterDown(p)
  <2> DEFINE stages == <<Down({"cluster"})>>
  <2>1. pr.cmd = "cluster down" /\ pr.todo = stages /\ pr.exit = "running"
    BY <1>3, <1>b DEF RunClusterDown
  <2>2. /\ 1 \in DOMAIN stages /\ "cluster" \in stages[1].of
        /\ \A i \in DOMAIN stages : stages[i].op = "down" /\ ~stages[i].soft
    BY DEF Down, Stage
  <2> HIDE DEF stages
  <2>3. TeardownSound(proc[p])'
    BY <2>1, <2>2 DEF TeardownSound, Queued, pr
  <2> QED BY <2>1, <2>3 DEF CommandHolds, DetachSound, UpSound, SuccessSound, pr
<1>4. CASE RunTGWConnect(p)
  <2>1. Begun("tgw connect", <<Up({"tgw"})>>).cmd = "tgw connect"
    BY DEF Begun, Free
  <2>2. pr.cmd = "tgw connect"
    BY <1>4, <1>r, <2>1 DEF RunTGWConnect, TypeOK, pr
  <2> QED BY <1>v, <2>2
<1>5. CASE \/ RunApply(p) \/ RunClusterUp(p) \/ RunClusterRegister(p)
           \/ RunBnkUp(p) \/ RunBnkDown(p) \/ RunTestingUp(p) \/ RunTestingDown(p)
           \/ RunGatewayUp(p) \/ RunGatewayDown(p) \/ RunFLPUp(p) \/ RunFLPDown(p)
           \/ RunTGWDisconnect(p)
  <2>1. \A c, stages : Begin(p, c, stages) => pr.cmd = c
    BY <1>b
  <2>2. \A c : Refuse(p, c) \/ NoOp(p, c) => pr.cmd = c
    BY <1>r
  <2> HIDE DEF Begin, Refuse, NoOp
  <2>3. CASE RunApply(p) \/ RunClusterUp(p) \/ RunClusterRegister(p)
    BY <1>v, <2>1, <2>3 DEF RunApply, RunClusterUp, RunClusterRegister
  <2>4. CASE RunBnkUp(p) \/ RunBnkDown(p)
    BY <1>v, <2>1, <2>2, <2>4 DEF RunBnkUp, RunBnkDown
  <2>5. CASE RunTestingUp(p) \/ RunTestingDown(p)
    BY <1>v, <2>1, <2>2, <2>5 DEF RunTestingUp, RunTestingDown
  <2>6. CASE RunGatewayUp(p) \/ RunGatewayDown(p)
    BY <1>v, <2>1, <2>2, <2>6 DEF RunGatewayUp, RunGatewayDown
  <2>7. CASE RunFLPUp(p) \/ RunFLPDown(p)
    BY <1>v, <2>1, <2>2, <2>7 DEF RunFLPUp, RunFLPDown
  <2>8. CASE RunTGWDisconnect(p)
    BY <1>v, <2>1, <2>2, <2>8 DEF RunTGWDisconnect
  <2> QED BY <1>5, <2>3, <2>4, <2>5, <2>6, <2>7, <2>8
<1> QED BY <1>1, <1>2, <1>3, <1>4, <1>5 DEF Invoke

-----------------------------------------------------------------------------
(* The theorems.                                                           *)

LEMMA InitOutcome == Init => OutcomeInv
<1> SUFFICES ASSUME Init PROVE OutcomeInv
  OBVIOUS
<1>1. \A p \in Procs : CommandHolds(proc[p])
  BY DEF Init, Free, CommandHolds, TeardownSound, DetachSound, UpSound, SuccessSound
<1> QED BY <1>1, InitHost DEF OutcomeInv

LEMMA NextOutcome ==
  ASSUME SoleTerminal
  PROVE  OutcomeInv /\ [Next]_vars => OutcomeInv'
<1> SUFFICES ASSUME OutcomeInv, [Next]_vars PROVE OutcomeInv'
  OBVIOUS
<1>0. HostInv' /\ SameConfig /\ TypeOK
  BY NextHost, ConfigKept DEF OutcomeInv, HostInv, SafeInv, TypeInv
<1>1. CASE BeginTeardown \/ UNCHANGED vars
  <2>1. UNCHANGED <<cfg, tf, outputs, proc>>
    BY <1>1 DEF BeginTeardown, vars, files
  <2>2. ASSUME NEW p \in Procs PROVE CommandHolds(proc[p])'
    <3>1. CommandHolds(proc[p])
      BY DEF OutcomeInv
    <3> QED BY <2>1, <3>1
            DEF CommandHolds, TeardownSound, DetachSound, UpSound, SuccessSound,
                Queued, NothingDeployed, Named, Usable, TestingUp
  <2> QED BY <1>0, <2>2 DEF OutcomeInv
<1>2. ASSUME NEW p \in Procs, Invoke(p) \/ Work(p) \/ Crash(p) PROVE OutcomeInv'
  <2>1. CommandHolds(proc[p])'
    BY <1>0, <1>2, InvokeHolds, EnterHolds, TerraformHolds, RecordHolds, EndHolds
       DEF Work
  <2> QED BY <1>0, <2>1, HoldsOne
<1> QED BY <1>1, <1>2 DEF Next

\* The terraform states are files beside the workspace.
Local == ~cfg.s3

LEMMA AlwaysOutcome ==
  ASSUME SoleTerminal
  PROVE  Spec => []OutcomeInv
<1>1. OutcomeInv /\ [Next]_vars => OutcomeInv'
  BY NextOutcome
<1> QED BY <1>1, InitOutcome, PTL DEF Spec

\* With one terminal at work, an up that has reported success leaves a record
\* of a cluster that stands, although writing it is best-effort, or that of the
\* trial's cluster, which its own re-planning of the trial destroyed (RunUp,
\* tryPersistClusterOutputs, the testing phase's check of cluster-outputs.json).
THEOREM UpRecorded ==
  ASSUME SoleTerminal
  PROVE  Spec => []UpLeavesUsableRecord
<1>1. OutcomeInv => UpLeavesUsableRecord
  BY DEF OutcomeInv, CommandHolds, SuccessSound, UpLeavesUsableRecord, Named
<1> QED BY <1>1, AlwaysOutcome, PTL

\* With one terminal at work and the terraform states in local files, a down or
\* cluster down that has reported success has left no phase behind, whatever
\* was deployed and however the commands before failed (RunDown's detection,
\* the guard of runClusterDown).  With the s3 backend this is false.
THEOREM TeardownEmpties ==
  ASSUME SoleTerminal, \A c \in Configs : ~c.s3
  PROVE  Spec => []TeardownSuccessMeansEmpty
<1>1. Init => Local
  BY DEF Init, Local
<1>2. OutcomeInv /\ Local /\ [Next]_vars => Local'
  BY ConfigKept DEF SameConfig, OutcomeInv, HostInv, SafeInv, TypeInv, Local
<1>3. OutcomeInv /\ Local => TeardownSuccessMeansEmpty
  BY DEF OutcomeInv, CommandHolds, SuccessSound, NothingDeployed,
         TeardownSuccessMeansEmpty, Local
<1> QED BY <1>1, <1>2, <1>3, AlwaysOutcome, PTL DEF Spec

\* With one terminal at work, down takes nothing of the gateway's connection
\* away before the trial and the testing phase are gone (the order of RunDown's
\* stages, each of which ends the command when it fails).
THEOREM DetachLast ==
  ASSUME SoleTerminal
  PROVE  Spec => DetachAfterTrial
<1>1. ASSUME OutcomeInv, [Next]_vars, NEW p \in Procs, Running(p),
             proc[p].cmd = "down", Shrinks("tgw")
      PROVE  tf["bnk"] = {} /\ tf["testing"] = {}
  <2>1. PICK q \in Procs : Converge(q, "tgw")
    BY <1>1, OnlyTerraform DEF OutcomeInv, HostInv, SafeInv, Shrinks, Phases
  <2>2. Converge(p, "tgw")
    BY <2>1 DEF SoleTerminal
  <2>3. "tgw" \in Head1(p).of
    BY <1>1, <2>2, LegFacts DEF OutcomeInv, HostInv, Converge, Phases
  <2>4. 1 \in DOMAIN proc[p].todo /\ proc[p].todo[1] = Head1(p)
    <3>1. proc[p].todo # <<>> /\ proc[p].todo \in Seq(StageType)
      BY <1>1, <2>2 DEF Converge, RunningLeg, OutcomeInv, HostInv, SafeInv, TypeInv,
                        StagesSound, TypeOK, ProcType
    <3> QED BY <3>1 DEF Head1
  <2>5. \A ph \in {"bnk", "testing"} : tf[ph] # {} =>
          \E j \in 1 .. (1 - 1) : ph \in proc[p].todo[j].of
    BY <1>1, <2>3, <2>4 DEF OutcomeInv, CommandHolds, DetachSound, Running
  <2>6. 1 .. (1 - 1) = {}
    OBVIOUS
  <2> QED BY <2>5, <2>6
<1>2. OutcomeInv /\ [Next]_vars
        => [\A p \in Procs :
              Running(p) /\ proc[p].cmd = "down" /\ Shrinks("tgw")
                => tf["bnk"] = {} /\ tf["testing"] = {}]_vars
  BY <1>1
<1> QED BY <1>2, AlwaysOutcome, PTL DEF Spec, DetachAfterTrial
=============================================================================
