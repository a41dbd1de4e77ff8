--------------------------- MODULE WorkspacePhases ---------------------------
(***************************************************************************)
(* A roksbnkctl workspace is deployed in phases.  Each phase has its own   *)
(* terraform state (state-cluster/, state/, state-testing/,                *)
(* state-gateway/, state-flp/, state-tgw/) and the phases hand values to   *)
(* each other through three JSON records: cluster-outputs.json,            *)
(* flp-outputs.json and tgw-outputs.json.  Nothing but those files         *)
(* connects the commands: each command is a process of its own, which      *)
(* detects what is present, decides, prompts, and runs terraform.          *)
(*                                                                         *)
(* This module models every phase command: what it detects, what it        *)
(* refuses, which stages it queues, and how the terraform runs it starts   *)
(* change the phases resource by resource while any of them may fail, be   *)
(* cancelled by a failing sibling, or be killed.                           *)
(***************************************************************************)
EXTENDS Naturals, FiniteSets, Sequences

CONSTANTS
  Procs,     \* the terminals commands are typed in
  Configs,   \* the config.yaml contents under study
  Commands   \* the commands the operators use

Phases     == {"cluster", "bnk", "testing", "gateway", "flp", "tgw"}
Dependents == Phases \ {"cluster"}

\* What a phase's terraform state may hold: the VPC network and the ROKS
\* cluster (the cluster phase; the trial state too when it is planned on the
\* create path) and the phase's own layer.
Resources == {"net", "roks", "layer"}

\* config.yaml, reduced to what decides a branch: cluster.create, a transit
\* gateway named in resources.transit_gateway.existing, a VPC some other
\* cluster already attached to it, bnk.license_mode = f5licenseproxy, a
\* standalone bnk.flp VSI, and state.backend = s3.
ConfigSpace == [create : BOOLEAN, existingTGW : BOOLEAN, vpcAttached : BOOLEAN,
                flpLicense : BOOLEAN, flpStandalone : BOOLEAN, s3 : BOOLEAN]

TeardownCommands == {"gateway down", "flp down", "tgw disconnect",
                     "bnk down", "testing down", "cluster down", "down"}

AllCommands == TeardownCommands \cup
  {"up", "apply", "cluster up", "cluster register", "bnk up", "testing up",
   "gateway up", "flp up", "tgw connect"}

ASSUME ConfigsAssumption  == Configs \subseteq ConfigSpace
ASSUME CommandsAssumption == Commands \subseteq AllCommands

VARIABLES
  cfg,       \* the workspace's config.yaml
  tf,        \* phase -> the resources its terraform state holds
  outputs,   \* cluster-outputs.json: which cluster it names
  handoff,   \* which of flp-outputs.json and tgw-outputs.json exist
  proc,      \* terminal -> its running, or last, command
  teardown   \* the operators have decided to wind the workspace down

files == <<cfg, tf, outputs, handoff>>
vars  == <<cfg, tf, outputs, handoff, proc, teardown>>

-----------------------------------------------------------------------------
(* What the commands can see.                                              *)

\* cluster-outputs.json is absent; names the cluster state-cluster/ holds, or
\* one it held; names the cluster the trial's state holds, or one it held; or
\* names a cluster somebody else owns.
OutputsValues == {"none", "own", "stale", "trial", "lost", "registered"}

\* Detection reads the local terraform.tfstate of a phase and nothing else;
\* with the s3 backend there is no such file.
LocalState(ph) == IF cfg.s3 THEN {} ELSE tf[ph]

\* A phase is present when its state has any resource, the cluster phase when
\* it has the cluster itself.
Present(ph) == IF ph = "cluster" THEN "roks" \in LocalState(ph)
                                 ELSE LocalState(ph) # {}
\* Mutation: what is left of a half-destroyed cluster phase goes unseen.
ClusterResidualUnseen == "roks" \in LocalState("cluster")
ClusterResidual == LocalState("cluster") # {}
NothingPresent  == ~ClusterResidual /\ \A ph \in Phases : ~Present(ph)

TrialShape   == LocalState("bnk") # {}             \* ShapeSplit
ShapeEmpty   == ~TrialShape /\ ~ClusterResidual

-----------------------------------------------------------------------------
(* What a terraform run of a phase is asked for, and whether it can plan.  *)

\* The phases that adopt a cluster through cluster-outputs.json and refuse to
\* run, up or down, without it.
NeedsRecord(ph) == \/ ph \in {"testing", "gateway", "tgw"}
                   \/ ph = "flp" /\ ~cfg.flpStandalone

\* Mutation: a phase comes up without looking for cluster-outputs.json.
HandoffUnchecked(ph) == /\ ph = "bnk" /\ cfg.flpLicense => "flp" \in handoff
                        /\ ph = "tgw" => cfg.existingTGW
\* writeAndInit<Phase>: what a phase insists on before an apply.
HandoffReady(ph) ==
  /\ NeedsRecord(ph) => outputs # "none"
  /\ ph = "tgw" => cfg.existingTGW
  /\ ph = "bnk" /\ cfg.flpLicense => "flp" \in handoff

\* Mutation: the trial's destroy insists on the proxy's handoff like its apply.
DestroyNeedsProxy(ph) == HandoffReady(ph)
\* ... and before a destroy, where a missing FLP handoff is tolerated.
DestroyReady(ph) == /\ NeedsRecord(ph) => outputs # "none"
                    /\ ph = "tgw" => cfg.existingTGW

\* A plan resolves the cluster its override names; the lookup of a destroyed
\* cluster fails.  Only the cluster phase and a standalone FLP look up none.
Resolves(ph) == \/ outputs \notin {"stale", "lost"}
                \/ ph = "cluster"
                \/ ph = "flp" /\ cfg.flpStandalone

ClusterGoal == {"net", "roks"}

\* The resources the rendered variables declare.  Without cluster-outputs.json
\* the trial is planned on the create path: create_roks_cluster is whatever
\* config.yaml says.
BnkGoal == IF outputs = "none" /\ cfg.create THEN {"net", "roks", "layer"}
                                             ELSE {"layer"}
Goal(ph) == CASE ph = "cluster" -> ClusterGoal
              [] ph = "bnk"     -> BnkGoal
              [] OTHER          -> {"layer"}

\* Terraform creates what a resource needs before it and destroys in reverse.
Below(r) == CASE r = "net" -> {} [] r = "roks" -> {"net"}
              [] r = "layer" -> {"net", "roks"}
Creatable(held, goal)   == {r \in goal \ held : Below(r) \cap goal \subseteq held}
Destroyable(held, goal) == {r \in held \ goal :
                              \A s \in held \ goal : r \notin Below(s)}

-----------------------------------------------------------------------------
(* A running command: the stages still queued, where the first of them is, *)
(* and the terraform runs ("legs") it has started, with the goal of each.  *)

NoLegs == [ph \in {} |-> {}]
Stage(op, of) == [op |-> op, of |-> of, soft |-> FALSE]
Up(of)        == Stage("up", of)
Down(of)      == Stage("down", of)
Apply         == Stage("apply", {"bnk"})
Register      == Stage("register", {})
\* tryAutoConnectTGW: a connect whose failure does not fail the command.
AutoConnect   == [op |-> "up", of |-> {"tgw"}, soft |-> TRUE]

Free  == [cmd |-> "none", todo |-> <<>>, at |-> "enter", legs |-> NoLegs,
          failed |-> FALSE, exit |-> "none"]

Running(p) == proc[p].exit = "running"
Head1(p)   == Head(proc[p].todo)
At(p, where, op, of) ==
  /\ Running(p)
  /\ proc[p].todo # <<>>
  /\ proc[p].at = where
  /\ Head1(p).op = op
  /\ Head1(p).of = of

Accepts(p, c) ==
  /\ c \in Commands
  /\ ~Running(p)
  /\ teardown => c \in TeardownCommands

Begun(c, stages) == [Free EXCEPT !.cmd = c, !.todo = stages,
                                 !.exit = "running"]
Begin(p, c, stages) ==
  /\ proc' = [proc EXCEPT ![p] = Begun(c, stages)]
  /\ UNCHANGED <<files, teardown>>

\* A command that returns before any terraform run: refused, or a no-op.
Refuse(p, c) ==
  /\ proc' = [proc EXCEPT ![p] = [Free EXCEPT !.cmd = c, !.exit = "error"]]
  /\ UNCHANGED <<files, teardown>>
NoOp(p, c) ==
  /\ proc' = [proc EXCEPT ![p] = [Free EXCEPT !.cmd = c, !.exit = "ok"]]
  /\ UNCHANGED <<files, teardown>>

\* The first stage is over; the command goes on with the next one.
NextStage(pr) == [pr EXCEPT !.todo = Tail(@), !.at = "enter", !.legs = NoLegs,
                            !.failed = FALSE]

\* The first stage failed: the command returns its error, unless the stage is
\* a best-effort one, whose error is only printed.
FailStage(pr) == IF Head(pr.todo).soft THEN NextStage(pr)
                 ELSE [pr EXCEPT !.todo = <<>>, !.legs = NoLegs,
                                 !.failed = FALSE, !.exit = "error"]

\* Another terminal's terraform holds the lock of one of these states.
Locked(p, of) == \E q \in Procs \ {p} : DOMAIN proc[q].legs \cap of # {}

-----------------------------------------------------------------------------
(* The commands: what each detects, refuses and queues.                    *)

\* `up`: the cluster phase first, unless it is skipped for a recorded cluster;
\* then the trial and the testing phase together.
RunUp(p) ==
  LET reuse == ~Present("cluster") /\ outputs # "none" IN
  /\ Accepts(p, "up")
  /\ Begin(p, "up", (IF reuse THEN <<>> ELSE <<Up({"cluster"})>>)
                      \o <<Up({"bnk", "testing"})>>)

\* Mutation: the gateway connection is detached first, not between.
DownStagesDetachFirst ==
  LET trial == {ph \in {"bnk", "testing"} : Present(ph)} IN
     (IF Present("tgw") THEN <<Down({"tgw"})>> ELSE <<>>)
  \o (IF trial # {} THEN <<Down(trial)>> ELSE <<>>)
  \o (IF ClusterResidual THEN <<Down({"cluster"})>> ELSE <<>>)

\* `down`: the stages are fixed by the presence detected before the prompt.
DownStages ==
  LET trial == {ph \in {"bnk", "testing"} : Present(ph)} IN
     (IF trial # {} THEN <<Down(trial)>> ELSE <<>>)
  \o (IF Present("tgw") THEN <<Down({"tgw"})>> ELSE <<>>)
  \o (IF ClusterResidual THEN <<Down({"cluster"})>> ELSE <<>>)

RunDown(p) ==
  /\ Accepts(p, "down")
  /\ \/ NothingPresent /\ NoOp(p, "down")
     \/ /\ ~NothingPresent
        /\ Present("gateway") \/ Present("flp") \/ ~teardown  \* guard, or "n"
        /\ Refuse(p, "down")
     \/ /\ ~NothingPresent
        /\ ~Present("gateway") /\ ~Present("flp")
        /\ Begin(p, "down", DownStages)

RunApply(p) == Accepts(p, "apply") /\ Begin(p, "apply", <<Apply>>)

RunClusterUp(p) ==
  Accepts(p, "cluster up") /\ Begin(p, "cluster up", <<Up({"cluster"})>>)

RunClusterRegister(p) ==
  Accepts(p, "cluster register") /\ Begin(p, "cluster register", <<Register>>)

RunClusterDown(p) ==
  Accepts(p, "cluster down") /\ Begin(p, "cluster down", <<Down({"cluster"})>>)

\* `bnk up`: bootstraps the cluster phase when neither state has anything.
RunBnkUp(p) ==
  /\ Accepts(p, "bnk up")
  /\ Begin(p, "bnk up", (IF ShapeEmpty THEN <<Up({"cluster"})>> ELSE <<>>)
                          \o <<Up({"bnk"})>>)

\* Mutation: `bnk down` does not look at the gateway phase.
RunBnkDownUnguarded(p) ==
  /\ Accepts(p, "bnk down")
  /\ IF TrialShape THEN Begin(p, "bnk down", <<Down({"bnk"})>>)
                   ELSE NoOp(p, "bnk down")

RunBnkDown(p) ==
  /\ Accepts(p, "bnk down")
  /\ \/ ~TrialShape /\ NoOp(p, "bnk down")
     \/ TrialShape /\ Present("gateway") /\ Refuse(p, "bnk down")
     \/ TrialShape /\ ~Present("gateway")
        /\ Begin(p, "bnk down", <<Down({"bnk"})>>)

RunTestingUp(p) ==
  Accepts(p, "testing up") /\ Begin(p, "testing up", <<Up({"testing"})>>)

RunTestingDown(p) ==
  /\ Accepts(p, "testing down")
  /\ IF Present("testing") THEN Begin(p, "testing down", <<Down({"testing"})>>)
                           ELSE NoOp(p, "testing down")

RunGatewayUp(p) ==
  /\ Accepts(p, "gateway up")
  /\ IF Present("cluster") \/ Present("bnk")
     THEN Begin(p, "gateway up", <<Up({"gateway"})>>)
     ELSE Refuse(p, "gateway up")

RunGatewayDown(p) ==
  /\ Accepts(p, "gateway down")
  /\ IF Present("gateway") THEN Begin(p, "gateway down", <<Down({"gateway"})>>)
                           ELSE NoOp(p, "gateway down")

\* `flp up` and `tgw connect` take a created cluster or a recorded one.
ClusterKnown == Present("cluster") \/ outputs # "none"

RunFLPUp(p) ==
  /\ Accepts(p, "flp up")
  /\ IF cfg.flpStandalone \/ ClusterKnown
     THEN Begin(p, "flp up", <<Up({"flp"})>>)
     ELSE Refuse(p, "flp up")

RunFLPDown(p) ==
  /\ Accepts(p, "flp down")
  /\ IF Present("flp") THEN Begin(p, "flp down", <<Down({"flp"})>>)
                       ELSE NoOp(p, "flp down")

\* A gateway given on the command line is saved in config.yaml.
RunTGWConnect(p) ==
  /\ Accepts(p, "tgw connect")
  /\ \/ ~ClusterKnown /\ Refuse(p, "tgw connect")
     \/ /\ ClusterKnown
        /\ proc' = [proc EXCEPT ![p] = Begun("tgw connect", <<Up({"tgw"})>>)]
        /\ \E named \in BOOLEAN :
             cfg' = [cfg EXCEPT !.existingTGW = @ \/ named]
        /\ UNCHANGED <<tf, outputs, handoff, teardown>>

RunTGWDisconnect(p) ==
  /\ Accepts(p, "tgw disconnect")
  /\ IF Present("tgw") THEN Begin(p, "tgw disconnect", <<Down({"tgw"})>>)
                       ELSE NoOp(p, "tgw disconnect")

Invoke(p) ==
  \/ RunUp(p) \/ RunDown(p) \/ RunApply(p)
  \/ RunClusterUp(p) \/ RunClusterRegister(p) \/ RunClusterDown(p)
  \/ RunBnkUp(p) \/ RunBnkDown(p) \/ RunTestingUp(p) \/ RunTestingDown(p)
  \/ RunGatewayUp(p) \/ RunGatewayDown(p) \/ RunFLPUp(p) \/ RunFLPDown(p)
  \/ RunTGWConnect(p) \/ RunTGWDisconnect(p)

-----------------------------------------------------------------------------
(* Entering a stage: its guards, its plans and its prompts.                *)

Step(p, pr) == proc' = [proc EXCEPT ![p] = pr] /\ UNCHANGED teardown

\* Start a terraform run for each phase of the legs, towards its goal.
StartLegs(p, legs) ==
  /\ ~Locked(p, DOMAIN legs)
  /\ Step(p, [proc[p] EXCEPT !.at = "run", !.legs = legs])

ApplyLegs(of)   == [ph \in of |-> Goal(ph)]
DestroyLegs(of) == [ph \in of |-> {}]

\* An apply: plan every phase of the stage, then apply the phases that have
\* changes and that the operator approves; none approved is an abort.
EnterUp(p, of) ==
  LET changed == {ph \in of : tf[ph] # Goal(ph)} IN
  /\ At(p, "enter", "up", of)
  /\ \A ph \in of : HandoffReady(ph) /\ Resolves(ph)
  /\ UNCHANGED files
  /\ \/ changed = {} /\ Step(p, [proc[p] EXCEPT !.at = "record"])
     \/ \E approved \in (SUBSET changed) \ {{}} :
          StartLegs(p, ApplyLegs(approved))

EnterUpTrial(p)   == \E of \in {{"bnk"}, {"bnk", "testing"}} : EnterUp(p, of)
EnterUpTesting(p) == EnterUp(p, {"testing"})
EnterUpGateway(p) == EnterUp(p, {"gateway"})
EnterUpFLP(p)     == EnterUp(p, {"flp"})

\* `cluster up` attaches to a named cluster when cluster.create is false.
EnterUpCluster(p) ==
  \/ cfg.create /\ EnterUp(p, {"cluster"})
  \/ /\ ~cfg.create
     /\ At(p, "enter", "up", {"cluster"})
     /\ Step(p, [proc[p] EXCEPT !.todo = <<Register>> \o Tail(@)])
     /\ UNCHANGED files

\* A VPC takes one attachment: if it has one already, connect only records it.
EnterUpTGW(p) ==
  \/ EnterUp(p, {"tgw"})
  \/ /\ At(p, "enter", "up", {"tgw"})
     /\ cfg.existingTGW /\ outputs # "none"
     /\ cfg.vpcAttached \/ tf["tgw"] # {}
     /\ handoff' = handoff \cup {"tgw"}
     /\ Step(p, NextStage(proc[p]))
     /\ UNCHANGED <<cfg, tf, outputs>>

\* A direct apply: no plan, no prompt.
EnterApply(p) ==
  /\ At(p, "enter", "apply", {"bnk"})
  /\ HandoffReady("bnk") /\ Resolves("bnk")
  /\ StartLegs(p, ApplyLegs({"bnk"}))
  /\ UNCHANGED files

\* runClusterRegister: look the cluster up (one that the workspace itself has
\* created is as good), write the record, attach the VPC.
AutoConnectStages == IF cfg.existingTGW THEN <<AutoConnect>> ELSE <<>>

EnterRegister(p) ==
  /\ At(p, "enter", "register", {})
  /\ outputs' \in {"registered"}
                 \cup (IF "roks" \in tf["cluster"] THEN {"own"} ELSE {})
                 \cup (IF "roks" \in tf["bnk"] THEN {"trial"} ELSE {})
  /\ Step(p, [NextStage(proc[p]) EXCEPT !.todo = AutoConnectStages \o @])
  /\ UNCHANGED <<cfg, tf, handoff>>

\* A destroy of phases other than the cluster's.
EnterDown(p) ==
  \E of \in (SUBSET Dependents) \ {{}} :
    /\ At(p, "enter", "down", of)
    /\ \A ph \in of : DestroyReady(ph) /\ Resolves(ph)
    /\ StartLegs(p, DestroyLegs(of))
    /\ UNCHANGED files

\* `cluster down` detects presence afresh, whoever called it, and refuses
\* while any phase that stands on the cluster has state.
ClusterDownUnguarded == FALSE   \* Mutation: no guard.
\* Mutation: the guard of the three-phase split, before FLP and TGW came.
ClusterDownThreePhase == \E ph \in {"bnk", "testing", "gateway"} : Present(ph)
ClusterDownRefused == \E ph \in Dependents : Present(ph)

EnterDownCluster(p) ==
  /\ At(p, "enter", "down", {"cluster"})
  /\ ~ClusterDownRefused
  /\ UNCHANGED files
  /\ \/ ~ClusterResidual /\ Step(p, NextStage(proc[p]))
     \/ ClusterResidual /\ StartLegs(p, DestroyLegs({"cluster"}))

\* What makes a stage return an error before it touches anything.
EntryRefused(p) ==
  LET st == Head1(p) IN
  CASE st.op \in {"up", "apply"} ->
         \E ph \in st.of : ~HandoffReady(ph) \/ ~Resolves(ph)
    [] st.op = "down" /\ st.of = {"cluster"} -> ClusterDownRefused
    [] st.op = "down" -> \E ph \in st.of : ~DestroyReady(ph) \/ ~Resolves(ph)
    [] OTHER -> FALSE

\* A stage fails on entry: refused by a guard, by a held lock, or by what lies
\* outside the workspace (declined prompt, failed lookup, failed plan).
FailEntry(p) ==
  /\ Running(p) /\ proc[p].todo # <<>> /\ proc[p].at = "enter"
  /\ EntryRefused(p) \/ Locked(p, Head1(p).of) \/ ~teardown
  /\ Step(p, FailStage(proc[p]))
  /\ UNCHANGED files

-----------------------------------------------------------------------------
(* Terraform runs.                                                         *)

RunningLeg(p, ph) == Running(p) /\ proc[p].at = "run" /\ ph \in DOMAIN proc[p].legs

\* Destroying a cluster leaves the record that names it behind.
OutputsAfter(ph, r) ==
  CASE ph = "cluster" /\ r = "roks" /\ outputs = "own" -> "stale"
    [] ph = "bnk" /\ r = "roks" /\ outputs = "trial"   -> "lost"
    [] OTHER -> outputs

\* The layers made of Kubernetes objects: they are reached through the cluster,
\* the others and the clusters themselves through the cloud alone.
InCluster(ph) == \/ ph \in {"bnk", "gateway"}
                 \/ ph = "flp" /\ ~cfg.flpStandalone
Reaches(ph, r) == r = "layer" /\ InCluster(ph) => Resolves(ph)

Converge(p, ph) ==
  LET goal == proc[p].legs[ph] IN
  /\ RunningLeg(p, ph)
  /\ \/ \E r \in Creatable(tf[ph], goal) :
          /\ Reaches(ph, r)
          /\ tf' = [tf EXCEPT ![ph] = @ \cup {r}]
          /\ UNCHANGED outputs
     \/ \E r \in Destroyable(tf[ph], goal) :
          /\ Reaches(ph, r)
          /\ tf' = [tf EXCEPT ![ph] = @ \ {r}]
          /\ outputs' = OutputsAfter(ph, r)
  /\ UNCHANGED <<cfg, handoff, proc, teardown>>

WithoutLeg(pr, ph) ==
  [pr EXCEPT !.legs = [x \in DOMAIN pr.legs \ {ph} |-> pr.legs[x]]]

LegDone(p, ph) ==
  /\ RunningLeg(p, ph)
  /\ tf[ph] = proc[p].legs[ph]
  /\ Step(p, WithoutLeg(proc[p], ph))
  /\ UNCHANGED files

\* A leg fails: its cluster has gone, or anything in the cloud goes wrong.  The
\* error group then cancels the sibling, which stops wherever it is.
LegFail(p, ph) ==
  /\ RunningLeg(p, ph)
  /\ ~Resolves(ph) \/ proc[p].failed \/ ~teardown
  /\ Step(p, [WithoutLeg(proc[p], ph) EXCEPT !.failed = TRUE])
  /\ UNCHANGED files

\* All legs are in: record the result, or return the first error.
Wait(p) ==
  /\ Running(p) /\ proc[p].at = "run" /\ proc[p].legs = NoLegs
  /\ Step(p, IF proc[p].failed THEN FailStage(proc[p])
              ELSE [proc[p] EXCEPT !.at = "record"])
  /\ UNCHANGED files

-----------------------------------------------------------------------------
(* After the terraform run: the records.                                   *)

\* tryPersistClusterOutputs warns when it fails; then the VPC is attached.
RecordCluster(p) ==
  /\ At(p, "record", "up", {"cluster"})
  /\ outputs' \in {"own"} \cup (IF teardown THEN {} ELSE {outputs})
  /\ Step(p, [NextStage(proc[p]) EXCEPT !.todo = AutoConnectStages \o @])
  /\ UNCHANGED <<cfg, tf, handoff>>

\* Mutation: the cluster's record is written where the handoffs are.
RecordAnyHandoff(p) ==
  \E ph \in {"cluster", "flp", "tgw"} :
    /\ At(p, "record", "up", {ph})
    /\ handoff' = handoff \cup {ph}
    /\ Step(p, NextStage(proc[p]))
    /\ UNCHANGED <<cfg, tf, outputs>>

\* persistFLPOutputs and persistTGWOutputs return their error.
RecordHandoff(p) ==
  \E ph \in {"flp", "tgw"} :
    /\ At(p, "record", "up", {ph})
    /\ \/ handoff' = handoff \cup {ph} /\ Step(p, NextStage(proc[p]))
       \/ ~teardown /\ Step(p, FailStage(proc[p])) /\ UNCHANGED handoff
    /\ UNCHANGED <<cfg, tf, outputs>>

\* The other phases leave nothing behind.
RecordNothing(p) ==
  /\ Running(p) /\ proc[p].todo # <<>> /\ proc[p].at = "record"
  /\ Head1(p).of \cap {"cluster", "flp", "tgw"} = {}
  /\ Step(p, NextStage(proc[p]))
  /\ UNCHANGED files

\* After a destroy the record is deleted; failing to is only a warning.
DeleteClusterOutputs(p) ==
  /\ At(p, "record", "down", {"cluster"})
  /\ outputs' \in {"none"} \cup (IF teardown THEN {} ELSE {outputs})
  /\ Step(p, NextStage(proc[p]))
  /\ UNCHANGED <<cfg, tf, handoff>>

DeleteHandoff(p) ==
  \E ph \in {"flp", "tgw"} :
    /\ At(p, "record", "down", {ph})
    /\ handoff' \in {handoff \ {ph}} \cup (IF teardown THEN {} ELSE {handoff})
    /\ Step(p, NextStage(proc[p]))
    /\ UNCHANGED <<cfg, tf, outputs>>

\* No stage is left: the command returns nil.
Return(p) ==
  /\ Running(p) /\ proc[p].todo = <<>>
  /\ Step(p, [proc[p] EXCEPT !.exit = "ok"])
  /\ UNCHANGED files

\* The process is killed; terraform stops where it is.
Crash(p) ==
  /\ Running(p) /\ ~teardown
  /\ Step(p, [Free EXCEPT !.cmd = proc[p].cmd, !.exit = "crashed"])
  /\ UNCHANGED files

-----------------------------------------------------------------------------

\* From here on only teardown commands are typed and the cloud obliges.
BeginTeardown ==
  /\ ~teardown
  /\ teardown' = TRUE
  /\ UNCHANGED <<files, proc>>

Init ==
  /\ cfg \in Configs
  /\ tf = [ph \in Phases |-> {}]
  /\ outputs = "none"
  /\ handoff = {}
  /\ proc = [p \in Procs |-> Free]
  /\ teardown = FALSE

Enter(p) ==
  \/ EnterUpTrial(p) \/ EnterUpTesting(p) \/ EnterUpGateway(p) \/ EnterUpFLP(p)
  \/ EnterUpTGW(p) \/ EnterUpCluster(p) \/ EnterApply(p) \/ EnterRegister(p)
  \/ EnterDown(p) \/ EnterDownCluster(p) \/ FailEntry(p)

Terraform(p) ==
  \E ph \in Phases : Converge(p, ph) \/ LegDone(p, ph) \/ LegFail(p, ph)

Record(p) ==
  \/ RecordCluster(p) \/ RecordHandoff(p) \/ RecordNothing(p)
  \/ DeleteClusterOutputs(p) \/ DeleteHandoff(p)

Work(p) == Enter(p) \/ Terraform(p) \/ Wait(p) \/ Record(p) \/ Return(p)

Next == BeginTeardown \/ \E p \in Procs : Invoke(p) \/ Work(p) \/ Crash(p)

Spec == Init /\ [][Next]_vars

\* A killed or idle command owes nothing, a running one goes on; and the
\* teardown chain (a demo's teardown script, a blueprint's reverse-order
\* module chain) types the phase downs again until they are done.
Fairness ==
  \A p \in Procs :
    /\ WF_vars(Work(p))
    /\ SF_vars(teardown /\ RunGatewayDown(p))
    /\ SF_vars(teardown /\ RunFLPDown(p))
    /\ SF_vars(teardown /\ RunDown(p))

FairSpec == Spec /\ Fairness

-----------------------------------------------------------------------------
(* Properties.                                                             *)

StageType == [op : {"up", "down", "apply", "register"},
              of : SUBSET Phases, soft : BOOLEAN]

ProcType == [cmd : AllCommands \cup {"none"},
             todo : Seq(StageType),
             at : {"enter", "run", "record"},
             legs : UNION {[S -> SUBSET Resources] : S \in SUBSET Phases},
             failed : BOOLEAN,
             exit : {"none", "running", "ok", "error", "crashed"}]

\* Every variable holds a value of its type.
TypeOK ==
  /\ cfg \in ConfigSpace
  /\ tf \in [Phases -> SUBSET Resources]
  /\ outputs \in OutputsValues
  /\ handoff \subseteq {"flp", "tgw"}
  /\ proc \in [Procs -> ProcType]
  /\ teardown \in BOOLEAN

\* The cluster a deployed layer stands on: the workspace's own, the trial's
\* own, or one it adopted.
ClusterStands == \/ "roks" \in tf["cluster"] \cup tf["bnk"]
                 \/ outputs = "registered"
                 \/ ~cfg.create

OnCluster == {ph \in Dependents : ph = "flp" => ~cfg.flpStandalone}

\* No phase's layer outlives the cluster it was deployed on: whatever failed,
\* was cancelled or was killed on the way (cluster down's guard, the order of
\* the stages of down).  The one exception is the code's: a trial's cluster that
\* `cluster register` has handed to the other phases, and that went with it.
NoOrphans == (\E ph \in OnCluster : "layer" \in tf[ph])
               => ClusterStands \/ outputs = "lost"

\* The record names a cluster that stands.
Usable == outputs \in {"own", "trial", "registered"}

\* A phase that cannot be torn down without cluster-outputs.json has one for
\* as long as it has anything to tear down, and a usable one unless the trial's
\* registered cluster was destroyed (the record is deleted last, and replaced
\* only by that of a cluster that stands).
DependentsHaveRecord ==
  \A ph \in Phases :
    NeedsRecord(ph) /\ tf[ph] # {} => Usable \/ outputs = "lost"

\* A teardown that reports success has left nothing behind in any phase it
\* answers for (the no-op paths of down and cluster down included).
TeardownSuccessMeansEmpty ==
  \A p \in Procs :
    proc[p].exit = "ok" /\ proc[p].cmd \in {"down", "cluster down"} =>
      \A ph \in Phases : tf[ph] = {}

\* An up that reports success leaves a record that names a live cluster (the
\* best-effort write of the record, the testing phase's insistence on it); or
\* the record named the trial's cluster, which the up itself then destroyed, as
\* a trial planned over a record declares none.
UpLeavesUsableRecord ==
  \A p \in Procs :
    proc[p].exit = "ok" /\ proc[p].cmd = "up" => Usable \/ outputs = "lost"

Shrinks(ph) == tf'[ph] # tf[ph] /\ tf'[ph] \subseteq tf[ph]

\* Nothing of the cluster phase is destroyed while any other phase still has
\* state (the refusal of cluster down, whichever command it runs in).
ClusterDestroyedLast ==
  [][Shrinks("cluster") => \A ph \in Dependents : tf[ph] = {}]_vars

\* The trial's layer, whose namespace the gateway's resources live in, is not
\* destroyed under them (the guards of bnk down and down).
GatewayDestroyedFirst ==
  [][("layer" \in tf["bnk"] /\ "layer" \notin tf'["bnk"])
       => tf["gateway"] = {}]_vars

\* The composite down detaches the transit gateway only when the trial and the
\* testing phase are completely gone (a failed leg ends the command).
DetachAfterTrial ==
  [][\A p \in Procs :
       Running(p) /\ proc[p].cmd = "down" /\ Shrinks("tgw")
         => tf["bnk"] = {} /\ tf["testing"] = {}]_vars

\* The phases keep the promise of ClusterHosting: clusters are gained and lost,
\* layers deployed and withdrawn, only as it allows.
Hosting == INSTANCE ClusterHosting WITH
  Layers   <- Dependents,
  stands   <- {c \in {"own", "trial", "adopted"} :
                 CASE c = "own"   -> "roks" \in tf["cluster"]
                   [] c = "trial" -> "roks" \in tf["bnk"]
                   [] OTHER       -> outputs = "registered" \/ ~cfg.create},
  deployed <- {ph \in OnCluster : "layer" \in tf[ph]},
  record   <- CASE outputs = "trial" -> "trial" [] outputs = "lost" -> "lost"
                [] OTHER -> "other"

ImplementsHosting == Hosting!Spec

\* Once the operators wind the workspace down, repeating the phase downs and
\* down empties every phase, whatever state the failures before left; or it
\* destroys a trial's cluster that the record names, and what still needs that
\* record has to be re-registered first.
TeardownCompletes ==
  teardown ~> (\A ph \in Phases : tf[ph] = {}) \/ outputs = "lost"
=============================================================================
