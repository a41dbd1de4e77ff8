--------------------------- MODULE AppliedTfvars ---------------------------
(***************************************************************************)
(* Where the variables of a terraform run come from, and the snapshot of   *)
(* them that an apply leaves behind (terraform.applied.tfvars).            *)
(*                                                                         *)
(* A run reads a chain of var-files in which a later file wins: the one    *)
(* rendered from config.yaml, terraform.tfvars.user, the replay of the     *)
(* phase's snapshot (plan, apply and every down, never an up), --var-file, *)
(* and the override of the phase.  A successful apply writes the chain it  *)
(* used to the snapshot of the phase's directory, secrets redacted.  The   *)
(* destroy of a workspace that was edited since depends on that snapshot,  *)
(* and so do the guards that keep an installed BNK on its version.         *)
(*                                                                         *)
(* A var-file is a function from the variables it sets to their values.    *)
(***************************************************************************)
CONSTANTS
  TPhases,     \* the phases in use: trial (the BNK phase) and some others
  Versions,    \* the BNK manifest versions
  LineOf,      \* version -> its release line
  UserFiles,   \* what terraform.tfvars.user may contain
  VarFiles,    \* what the file of --var-file may contain
  Prefixed,    \* config.yaml has a prefix: its rendering is complete
  Backends     \* what terraform runs on: local, docker

None     == "none"
Password == "registry_mirror_password"
Secret   == "secret"
Redacted == "<redacted>"
NoFile   == [v \in {} |-> None]
NoSnapshot == [phase |-> None, file |-> NoFile]
VarNames == {"manifest_version", "deploy_bnk", "workers", Password}

ASSUME PhasesAssumption ==
  /\ "trial" \in TPhases
  /\ TPhases \subseteq {"cluster", "trial", "testing", "gateway", "flp", "tgw"}
ASSUME PrefixAssumption == Prefixed \in BOOLEAN
ASSUME VersionsAssumption == None \notin Versions
ASSUME UserFilesAssumption == \A f \in UserFiles \cup VarFiles : DOMAIN f = {"workers"}

VARIABLES
  version,   \* bnk.manifest_version in config.yaml
  userfile,  \* terraform.tfvars.user, NoFile when there is none
  snapshot,  \* state directory -> its terraform.applied.tfvars: the phase in its
             \* header and the variables; NoSnapshot when there is none
  deployed,  \* phase -> the variables its state was last applied with, NoFile
             \* when there is no state
  saved,     \* the plan that `plan --out` saved, NoFile when there is none
  fresh      \* not in the code: the phases whose last apply read the var-files
             \* and got as far as writing the snapshot

tfvarsVars == <<version, userfile, snapshot, deployed, saved, fresh>>

-----------------------------------------------------------------------------
(* Var-files.                                                              *)

\* terraform reads f after g: what both set is what f says.
Over(f, g) == [v \in DOMAIN f \cup DOMAIN g |-> IF v \in DOMAIN f THEN f[v] ELSE g[v]]

\* RenderTFVars: without a prefix the rendering leaves out variables that have
\* no default.
Rendered == [v \in IF Prefixed THEN VarNames ELSE VarNames \ {"workers"} |->
               CASE v = "manifest_version" -> version
                 [] v = "deploy_bnk"       -> TRUE
                 [] v = "workers"          -> 1
                 [] OTHER                  -> Secret]

\* The override of a phase turns off what the other phases create.  That of the
\* BNK phase does not speak of deploy_bnk.
Override(p) == [v \in IF p = "trial" THEN {} ELSE {"deploy_bnk"} |-> FALSE]

\* Mutation: terraform.tfvars.user is layered last.
ChainUserLast(extra) == Over(userfile, Over(extra, Rendered))

\* tf.Workspace.varFiles: the extra files come last.
Chain(extra) == Over(extra, Over(userfile, Rendered))

\* terraform refuses to run without a variable that has no default.
Complete(file) == VarNames \subseteq DOMAIN file

\* phaseStateDir and appliedTFVarsPath: a phase they do not name shares the
\* directory of the BNK phase.
Dir(p) == IF p \in {"cluster", "testing", "gateway"} THEN p ELSE "trial"
Dirs   == {Dir(p) : p \in TPhases}

\* renderAppliedTFVars.
Redact(file) == [v \in DOMAIN file |-> IF v = Password THEN Redacted ELSE file[v]]

\* LayerAppliedTFVars: the snapshot without its redacted variables.
Replay(p) == [v \in DOMAIN snapshot[Dir(p)].file \ {Password} |->
                snapshot[Dir(p)].file[v]]

UpFile(p, varfile)     == Chain(Over(Override(p), varfile))
ReplayFile(p, varfile) == Chain(Over(Override(p), Over(varfile, Replay(p))))

\* RequireSnapshotOrVarFile.
HasVariables(p, varfile) ==
  Prefixed \/ snapshot[Dir(p)] # NoSnapshot \/ varfile # NoFile \/ userfile # NoFile

-----------------------------------------------------------------------------
(* Applies.                                                                *)

Records(p, file) ==
  snapshot' = [snapshot EXCEPT ![Dir(p)] = [phase |-> p, file |-> Redact(file)]]

\* terraform refuses a saved plan once the state it was made for has changed.
Changes(p, file) ==
  /\ deployed' = [deployed EXCEPT ![p] = file]
  /\ saved' = IF p = "trial" THEN NoFile ELSE saved

\* tf.Workspace.Apply: the snapshot is written after terraform has succeeded.
\* An apply may fail and leave part of the phase; the write may fail, or the
\* process die before it.
Apply(p, file) ==
  /\ Complete(file)
  /\ Changes(p, file)
  /\ \/ Records(p, file) /\ fresh' = fresh \cup {p}
     \/ fresh' = fresh \ {p} /\ UNCHANGED snapshot
  /\ UNCHANGED <<version, userfile>>

\* What the guards know of the installed BNK.
Recorded == IF snapshot["trial"] = NoSnapshot THEN None
            ELSE snapshot["trial"].file["manifest_version"]

\* Mutation: only a change of line is refused, and only by gateway up.
GuardsPassUnlessGateway(p) ==
  p = "gateway" =>
    Recorded \in {None} \cup {v \in Versions : LineOf[v] = LineOf[version]}

\* guardCreateTimeSettings (CheckLineChange, CheckManifestVersionChange), and
\* the line guard of RunGatewayUp.
GuardsPass(p) ==
  /\ p = "trial" /\ deployed["trial"] # NoFile => Recorded \in {None, version}
  /\ p = "gateway" =>
       Recorded \in {None} \cup {v \in Versions : LineOf[v] = LineOf[version]}

\* bnk up, cluster up, testing up, gateway up, flp up, tgw connect.
Up(p, varfile) ==
  /\ "local" \in Backends
  /\ GuardsPass(p)
  /\ Apply(p, UpFile(p, varfile))

\* RunPlan with --out.
PlanOut(varfile) ==
  /\ "local" \in Backends
  /\ HasVariables("trial", varfile) /\ Complete(ReplayFile("trial", varfile))
  /\ saved' = ReplayFile("trial", varfile)
  /\ UNCHANGED <<version, userfile, snapshot, deployed, fresh>>

\* RunApply: no guard, and the replay.
DirectApply(varfile) ==
  /\ "local" \in Backends
  /\ HasVariables("trial", varfile)
  /\ Apply("trial", ReplayFile("trial", varfile))

\* applyReviewedPlan: the plan holds the variables; what is recorded are the
\* var-files as they are now.
ApplyPlan(varfile) ==
  /\ saved # NoFile
  /\ Changes("trial", saved)
  /\ \/ Records("trial", ReplayFile("trial", varfile))
     \/ UNCHANGED snapshot
  /\ fresh' = fresh \ {"trial"}
  /\ UNCHANGED <<version, userfile>>

\* dockerTerraform with apply: neither guard, replay, override nor snapshot.
DockerApply(varfile) ==
  /\ "docker" \in Backends
  /\ Complete(Chain(varfile))
  /\ Changes("trial", Chain(varfile))
  /\ fresh' = fresh \ {"trial"}
  /\ UNCHANGED <<version, userfile, snapshot>>

-----------------------------------------------------------------------------
(* Destroys leave the snapshot as it is; one that fails leaves the phase.  *)

Gone(p) == /\ deployed' = [deployed EXCEPT ![p] = NoFile]
           /\ saved' = IF p = "trial" THEN NoFile ELSE saved
           /\ fresh' = fresh \ {p}
           /\ UNCHANGED <<version, userfile, snapshot>>

Down(p, varfile) ==
  /\ "local" \in Backends
  /\ deployed[p] # NoFile
  /\ HasVariables(p, varfile) /\ Complete(ReplayFile(p, varfile))
  /\ Gone(p)

DockerDown(varfile) ==
  /\ "docker" \in Backends
  /\ deployed["trial"] # NoFile
  /\ Complete(Chain(varfile))
  /\ Gone("trial")

-----------------------------------------------------------------------------
(* The operator.                                                           *)

EditConfig == /\ version' \in Versions \ {version}
              /\ UNCHANGED <<userfile, snapshot, deployed, saved, fresh>>

EditUserFile == /\ userfile' \in (UserFiles \cup {NoFile}) \ {userfile}
                /\ UNCHANGED <<version, snapshot, deployed, saved, fresh>>

TfvarsInit ==
  /\ version \in Versions
  /\ userfile \in UserFiles \cup {NoFile}
  /\ snapshot = [d \in Dirs |-> NoSnapshot]
  /\ deployed = [p \in TPhases |-> NoFile]
  /\ saved = NoFile
  /\ fresh = {}

TfvarsNext ==
  \/ EditConfig \/ EditUserFile
  \/ \E varfile \in VarFiles \cup {NoFile} :
       \/ PlanOut(varfile) \/ DirectApply(varfile) \/ ApplyPlan(varfile)
       \/ DockerApply(varfile) \/ DockerDown(varfile)
       \/ \E p \in TPhases : Up(p, varfile) \/ Down(p, varfile)

TfvarsSpec == TfvarsInit /\ [][TfvarsNext]_tfvarsVars

-----------------------------------------------------------------------------
(* Properties.                                                             *)

\* The snapshot of the phase's directory was written by its last apply.
Tells(p) == p \in fresh /\ snapshot[Dir(p)].phase = p

\* A destroy without --var-file runs with the variables of the apply it undoes,
\* whatever was edited since in config.yaml and terraform.tfvars.user
\* (LayerAppliedTFVars, Workspace.varFiles, the overrides).
DestroyReplaysApply ==
  \A p \in TPhases : deployed[p] # NoFile /\ Tells(p) =>
    ReplayFile(p, NoFile) = deployed[p]

InstalledVersion ==
  IF deployed["trial"] = NoFile \/ deployed["trial"]["deploy_bnk"] = FALSE THEN None
  ELSE deployed["trial"]["manifest_version"]

\* While the snapshot tells what is installed, no command replaces an installed
\* BNK by another version in place: up refuses, and apply and a reviewed plan
\* run with the recorded version (guardCreateTimeSettings, RunApply).  Only the
\* containerised apply, which has neither guard nor replay, may.
Replaced == /\ InstalledVersion # None /\ InstalledVersion' # None
            /\ InstalledVersion' # InstalledVersion

VersionFixed ==
  [][ Replaced /\ Tells("trial") =>
        \E varfile \in VarFiles \cup {NoFile} : DockerApply(varfile) ]_tfvarsVars
=============================================================================
