------------------------- MODULE AppliedTfvars_proofs -------------------------
(***************************************************************************)
(* Why a destroy replays the apply it undoes, and an installed BNK keeps   *)
(* its version, for any versions and lines, whatever the operator's files  *)
(* say of the variables they may set, with and without a prefix.           *)
(*                                                                         *)
(* The snapshot leaves the secrets out, other phases write to the same     *)
(* directory, and the write may not happen: the inductive invariant says   *)
(* when the snapshot is the last apply, secrets redacted, and that a plan  *)
(* that is still to be applied agrees with it on the version.              *)
(***************************************************************************)
EXTENDS AppliedTfvars, TLAPS

\* What terraform has been run with: every variable, and the secret as rendered.
Whole(file) == /\ file = [v \in VarNames |-> file[v]]
               /\ file[Password] = Secret

Types ==
  /\ version \in Versions
  /\ userfile \in UserFiles \cup {NoFile}
  /\ snapshot = [d \in Dirs |-> snapshot[d]]
  /\ deployed = [p \in TPhases |-> deployed[p]]

\* The files in the directories, of whatever phase, set variables there are.
SnapshotsKnown == \A d \in Dirs : DOMAIN snapshot[d].file \subseteq VarNames

\* Only the BNK phase is applied with a deploy_bnk of its own.
DeployedWhole ==
  \A p \in TPhases : deployed[p] # NoFile =>
    /\ Whole(deployed[p])
    /\ p # "trial" => deployed[p]["deploy_bnk"] = FALSE

SnapshotsTell ==
  \A p \in TPhases : deployed[p] # NoFile /\ Tells(p) =>
    snapshot[Dir(p)].file = Redact(deployed[p])

\* A plan goes stale with the next apply: what it was made from is still so.
PlanAgrees ==
  saved # NoFile =>
    /\ Whole(saved)
    /\ deployed["trial"] # NoFile /\ Tells("trial") =>
         saved["manifest_version"] = deployed["trial"]["manifest_version"]

TfvarsInv ==
  Types /\ SnapshotsKnown /\ DeployedWhole /\ SnapshotsTell /\ PlanAgrees

-----------------------------------------------------------------------------
(* What a chain of var-files sets.                                         *)

LEMMA RenderedFacts ==
  /\ DOMAIN Rendered \subseteq VarNames
  /\ VarNames \ {"workers"} \subseteq DOMAIN Rendered
  /\ Rendered["manifest_version"] = version
  /\ Rendered["deploy_bnk"] = TRUE
  /\ Rendered[Password] = Secret
BY DEF Rendered, VarNames, Password

\* The operator's files set nothing but the number of workers, so a chain has
\* the other variables from its extra files or from the rendering.
LEMMA ChainFacts ==
  ASSUME userfile \in UserFiles \cup {NoFile}, NEW extra,
         DOMAIN extra \subseteq VarNames
  PROVE  /\ DOMAIN Chain(extra) \subseteq VarNames
         /\ Chain(extra) = [v \in DOMAIN Chain(extra) |-> Chain(extra)[v]]
         /\ \A v \in DOMAIN extra : Chain(extra)[v] = extra[v]
         /\ \A v \in VarNames \ {"workers"} :
              v \notin DOMAIN extra => Chain(extra)[v] = Rendered[v]
         /\ DOMAIN extra \cup (VarNames \ {"workers"}) \subseteq DOMAIN Chain(extra)
<1>1. DOMAIN userfile \subseteq {"workers"}
  BY UserFilesAssumption DEF NoFile
<1> DEFINE rest == Over(userfile, Rendered)
<1>2. /\ DOMAIN rest = DOMAIN userfile \cup DOMAIN Rendered
      /\ \A v \in DOMAIN Rendered \ DOMAIN userfile : rest[v] = Rendered[v]
  BY DEF Over
<1>3. /\ DOMAIN rest \subseteq VarNames /\ VarNames \ {"workers"} \subseteq DOMAIN rest
      /\ \A v \in VarNames \ {"workers"} : rest[v] = Rendered[v]
  BY <1>1, <1>2, RenderedFacts DEF VarNames
<1> HIDE DEF rest
<1>4. Chain(extra) = Over(extra, rest)
  BY DEF Chain, rest
<1>5. /\ DOMAIN Chain(extra) = DOMAIN extra \cup DOMAIN rest
      /\ \A v \in DOMAIN extra : Chain(extra)[v] = extra[v]
      /\ \A v \in DOMAIN rest \ DOMAIN extra : Chain(extra)[v] = rest[v]
      /\ Chain(extra) = [v \in DOMAIN Chain(extra) |-> Chain(extra)[v]]
  BY <1>4 DEF Over
<1> QED BY <1>3, <1>5

LEMMA VarFileDomain ==
  ASSUME NEW varfile \in VarFiles \cup {NoFile}
  PROVE  DOMAIN varfile \subseteq {"workers"}
BY UserFilesAssumption DEF NoFile

\* What an up is run with.
LEMMA UpFacts ==
  ASSUME Types, NEW p \in TPhases, NEW varfile \in VarFiles \cup {NoFile},
         Complete(UpFile(p, varfile))
  PROVE  /\ Whole(UpFile(p, varfile))
         /\ UpFile(p, varfile)["manifest_version"] = version
         /\ p # "trial" => UpFile(p, varfile)["deploy_bnk"] = FALSE
<1> DEFINE extra == Over(Override(p), varfile)
<1>1. DOMAIN varfile \subseteq {"workers"}
  BY VarFileDomain
<1>2. /\ DOMAIN Override(p) \subseteq {"deploy_bnk"}
      /\ p # "trial" => "deploy_bnk" \in DOMAIN Override(p)
                        /\ Override(p)["deploy_bnk"] = FALSE
  BY DEF Override
<1>3. /\ DOMAIN extra \subseteq {"deploy_bnk", "workers"}
      /\ p # "trial" => "deploy_bnk" \in DOMAIN extra /\ extra["deploy_bnk"] = FALSE
  BY <1>1, <1>2 DEF Over
<1>4. DOMAIN extra \subseteq VarNames
  BY <1>3 DEF VarNames
<1>5. UpFile(p, varfile) = Chain(extra)
  BY DEF UpFile
<1> HIDE DEF extra
<1>6. /\ Chain(extra) = [v \in VarNames |-> Chain(extra)[v]]
      /\ Chain(extra)["manifest_version"] = version
      /\ Chain(extra)[Password] = Secret
      /\ p # "trial" => Chain(extra)["deploy_bnk"] = FALSE
  BY <1>3, <1>4, <1>5, ChainFacts, RenderedFacts
     DEF Types, Complete, VarNames, Password
<1> QED BY <1>5, <1>6 DEF Whole

\* What a run with the replay reads: the variables of the snapshot, but for the
\* secret, unless the phase's override or --var-file sets them.
LEMMA ReplayFacts ==
  ASSUME Types, SnapshotsKnown, NEW p \in TPhases,
         NEW varfile \in VarFiles \cup {NoFile}
  PROVE  LET file == ReplayFile(p, varfile)  snap == snapshot[Dir(p)].file IN
         /\ file = [v \in DOMAIN file |-> file[v]]
         /\ DOMAIN file \subseteq VarNames
         /\ (VarNames \ {"workers"}) \cup DOMAIN snap \subseteq DOMAIN file
         /\ file[Password] = Secret
         /\ p # "trial" => file["deploy_bnk"] = FALSE
         /\ \A v \in DOMAIN snap \ {Password} :
              \/ file[v] = snap[v]
              \/ v \in DOMAIN varfile
              \/ p # "trial" /\ v = "deploy_bnk"
<1> DEFINE snap  == snapshot[Dir(p)].file
           rest  == Over(varfile, Replay(p))
           extra == Over(Override(p), rest)
<1>1. DOMAIN varfile \subseteq {"workers"}
  BY VarFileDomain
<1>2. /\ DOMAIN Override(p) \subseteq {"deploy_bnk"}
      /\ p = "trial" => DOMAIN Override(p) = {}
      /\ p # "trial" => "deploy_bnk" \in DOMAIN Override(p)
                        /\ Override(p)["deploy_bnk"] = FALSE
  BY DEF Override
<1>3. DOMAIN snap \subseteq VarNames
  BY DEF SnapshotsKnown, Dirs
<1>4. /\ DOMAIN Replay(p) = DOMAIN snap \ {Password}
      /\ \A v \in DOMAIN snap \ {Password} : Replay(p)[v] = snap[v]
  BY DEF Replay
<1>5. ReplayFile(p, varfile) = Chain(extra)
  BY DEF ReplayFile
<1> HIDE DEF snap
<1>6. /\ DOMAIN rest = DOMAIN varfile \cup DOMAIN Replay(p)
      /\ \A v \in DOMAIN Replay(p) \ DOMAIN varfile : rest[v] = Replay(p)[v]
  BY DEF Over
<1>7. /\ DOMAIN rest = DOMAIN varfile \cup (DOMAIN snap \ {Password})
      /\ \A v \in DOMAIN snap \ {Password} : rest[v] = snap[v] \/ v \in DOMAIN varfile
  BY <1>4, <1>6
<1> HIDE DEF rest
<1>8. /\ DOMAIN extra = DOMAIN Override(p) \cup DOMAIN rest
      /\ \A v \in DOMAIN Override(p) : extra[v] = Override(p)[v]
      /\ \A v \in DOMAIN rest \ DOMAIN Override(p) : extra[v] = rest[v]
  BY DEF Over
<1>9. /\ DOMAIN extra \subseteq VarNames /\ Password \notin DOMAIN extra
      /\ DOMAIN snap \ {Password} \subseteq DOMAIN extra
      /\ p # "trial" => "deploy_bnk" \in DOMAIN extra /\ extra["deploy_bnk"] = FALSE
      /\ \A v \in DOMAIN snap \ {Password} :
           \/ extra[v] = snap[v]
           \/ v \in DOMAIN varfile
           \/ p # "trial" /\ v = "deploy_bnk"
  BY <1>1, <1>2, <1>3, <1>7, <1>8 DEF VarNames, Password
<1> HIDE DEF extra
<1>10. /\ Chain(extra) = [v \in DOMAIN Chain(extra) |-> Chain(extra)[v]]
       /\ DOMAIN Chain(extra) \subseteq VarNames
       /\ DOMAIN extra \cup (VarNames \ {"workers"}) \subseteq DOMAIN Chain(extra)
       /\ \A v \in DOMAIN extra : Chain(extra)[v] = extra[v]
       /\ Chain(extra)[Password] = Rendered[Password]
  BY <1>9, ChainFacts DEF Types, VarNames, Password
<1>11. Chain(extra)[Password] = Secret
  BY <1>10, RenderedFacts
<1>12. DOMAIN snap \subseteq DOMAIN Chain(extra)
  BY <1>3, <1>9, <1>10 DEF VarNames, Password
<1>13. p # "trial" => Chain(extra)["deploy_bnk"] = FALSE
  BY <1>9, <1>10
<1>14. \A v \in DOMAIN snap \ {Password} :
         \/ Chain(extra)[v] = snap[v]
         \/ v \in DOMAIN varfile
         \/ p # "trial" /\ v = "deploy_bnk"
  BY <1>9, <1>10
<1> QED BY <1>5, <1>10, <1>11, <1>12, <1>13, <1>14 DEF snap

-----------------------------------------------------------------------------
(* Every step keeps the invariant.                                         *)

LEMMA RedactDomain ==
  ASSUME NEW file, DOMAIN file \subseteq VarNames
  PROVE  DOMAIN Redact(file) \subseteq VarNames
BY DEF Redact

LEMMA WholeFacts ==
  ASSUME NEW file, Whole(file)
  PROVE  DOMAIN file = VarNames /\ file # NoFile
BY DEF Whole, NoFile, VarNames

LEMMA InitTfvars == TfvarsInit => TfvarsInv
<1> SUFFICES ASSUME TfvarsInit PROVE TfvarsInv
  OBVIOUS
<1>1. Types
  BY DEF TfvarsInit, Types
<1>2. SnapshotsKnown
  BY DEF TfvarsInit, SnapshotsKnown, NoSnapshot, NoFile
<1>3. DeployedWhole /\ SnapshotsTell /\ PlanAgrees
  BY DEF TfvarsInit, DeployedWhole, SnapshotsTell, PlanAgrees
<1> QED BY <1>1, <1>2, <1>3 DEF TfvarsInv

\* An apply that reads the chain of var-files and records it, or fails to.
LEMMA ApplyKeeps ==
  ASSUME TfvarsInv, NEW p \in TPhases, NEW file, Apply(p, file), Whole(file),
         p # "trial" => file["deploy_bnk"] = FALSE
  PROVE  TfvarsInv'
<1> USE DEF TfvarsInv
<1>1. /\ deployed' = [deployed EXCEPT ![p] = file]
      /\ saved' = IF p = "trial" THEN NoFile ELSE saved
      /\ version' = version /\ userfile' = userfile
  BY DEF Apply, Changes
<1>2. \/ Records(p, file) /\ fresh' = fresh \cup {p}
      \/ snapshot' = snapshot /\ fresh' = fresh \ {p}
  BY DEF Apply
<1>3. DOMAIN file = VarNames /\ file # NoFile
  BY WholeFacts
<1>4. p \in DOMAIN deployed /\ Dir(p) \in DOMAIN snapshot
  BY DEF Types, Dirs
<1>5. /\ deployed'[p] = file
      /\ \A q \in TPhases : q # p => deployed'[q] = deployed[q]
  BY <1>1, <1>4
<1>6. Records(p, file) =>
        /\ snapshot'[Dir(p)].phase = p /\ snapshot'[Dir(p)].file = Redact(file)
        /\ \A d \in Dirs : d # Dir(p) => snapshot'[d] = snapshot[d]
  BY <1>4 DEF Records, Types
<1>7. Types'
  BY <1>1, <1>2, <1>4 DEF Types, Records
<1>8. SnapshotsKnown'
  BY <1>2, <1>3, <1>6, RedactDomain DEF SnapshotsKnown
<1>9. DeployedWhole'
  BY <1>5 DEF DeployedWhole
<1>10. ASSUME NEW q \in TPhases, q # p, Tells(q)'
       PROVE  Tells(q) /\ snapshot'[Dir(q)] = snapshot[Dir(q)]
  <2>1. Dir(q) \in Dirs
    BY DEF Dirs
  <2> QED BY <1>2, <1>6, <1>10, <2>1 DEF Tells
<1>11. Tells(p)' => snapshot'[Dir(p)].file = Redact(file)
  BY <1>2, <1>6 DEF Tells
<1>12. SnapshotsTell'
  BY <1>5, <1>10, <1>11 DEF SnapshotsTell
<1>13. PlanAgrees'
  <2>1. CASE p = "trial"
    BY <1>1, <2>1 DEF PlanAgrees
  <2>2. CASE p # "trial"
    BY <1>1, <1>5, <1>10, <2>2, PhasesAssumption DEF PlanAgrees
  <2> QED BY <2>1, <2>2
<1> QED BY <1>7, <1>8, <1>9, <1>12, <1>13

\* The applies whose record, if any, is not of the variables they ran with.
LEMMA UnrecordedKeeps ==
  ASSUME TfvarsInv, NEW file, NEW record, Whole(file), Changes("trial", file),
         DOMAIN record \subseteq VarNames,
         Records("trial", record) \/ UNCHANGED snapshot,
         fresh' = fresh \ {"trial"}, UNCHANGED <<version, userfile>>
  PROVE  TfvarsInv'
<1> USE DEF TfvarsInv
<1>1. "trial" \in TPhases /\ Dir("trial") = "trial" /\ "trial" \in Dirs
  BY PhasesAssumption DEF Dirs, Dir
<1>2. saved' = NoFile /\ deployed' = [deployed EXCEPT !["trial"] = file]
  BY DEF Changes
<1>3. /\ deployed'["trial"] = file
      /\ \A q \in TPhases : q # "trial" => deployed'[q] = deployed[q]
  BY <1>1, <1>2 DEF Types
<1>4. /\ \A d \in Dirs : d # "trial" => snapshot'[d] = snapshot[d]
      /\ \/ snapshot'["trial"] = snapshot["trial"]
         \/ snapshot'["trial"] = [phase |-> "trial", file |-> Redact(record)]
  BY <1>1 DEF Records, Types
<1>5. Types'
  BY <1>2 DEF Types, Records
<1>6. SnapshotsKnown'
  <2>1. DOMAIN Redact(record) \subseteq VarNames
    BY RedactDomain
  <2> QED BY <1>4, <2>1 DEF SnapshotsKnown
<1>7. DeployedWhole'
  BY <1>3 DEF DeployedWhole
<1>8. ASSUME NEW q \in TPhases, Tells(q)'
      PROVE  q # "trial" /\ Tells(q) /\ snapshot'[Dir(q)] = snapshot[Dir(q)]
  <2>1. q # "trial" /\ q \in fresh /\ Dir(q) \in Dirs
    BY <1>8 DEF Tells, Dirs
  <2>2. snapshot'[Dir(q)].phase = q
    BY <1>8 DEF Tells
  <2>3. snapshot'[Dir(q)] = snapshot[Dir(q)]
    BY <1>4, <2>1, <2>2
  <2> QED BY <2>1, <2>2, <2>3 DEF Tells
<1>9. SnapshotsTell'
  BY <1>3, <1>8 DEF SnapshotsTell
<1>10. PlanAgrees'
  BY <1>2 DEF PlanAgrees
<1> QED BY <1>5, <1>6, <1>7, <1>9, <1>10

LEMMA GoneKeeps ==
  ASSUME TfvarsInv, NEW p \in TPhases, Gone(p)
  PROVE  TfvarsInv'
<1> USE DEF TfvarsInv, Gone
<1>1. /\ deployed'[p] = NoFile
      /\ \A q \in TPhases : q # p => deployed'[q] = deployed[q]
  BY DEF Types
<1>2. \A q \in TPhases : Tells(q)' => Tells(q)
  BY DEF Tells
<1>3. Types'
  BY DEF Types
<1>4. SnapshotsKnown'
  BY DEF SnapshotsKnown
<1>5. DeployedWhole'
  BY <1>1 DEF DeployedWhole
<1>6. SnapshotsTell'
  BY <1>1, <1>2 DEF SnapshotsTell
<1>7. PlanAgrees'
  BY <1>1, <1>2, PhasesAssumption DEF PlanAgrees
<1> QED BY <1>3, <1>4, <1>5, <1>6, <1>7

\* What the replay of the BNK phase says of the version is what is deployed.
LEMMA ReplayVersion ==
  ASSUME TfvarsInv, NEW varfile \in VarFiles \cup {NoFile},
         deployed["trial"] # NoFile, Tells("trial")
  PROVE  ReplayFile("trial", varfile)["manifest_version"]
           = deployed["trial"]["manifest_version"]
<1> DEFINE snap == snapshot[Dir("trial")].file
<1>1. "trial" \in TPhases
  BY PhasesAssumption
<1>2. snap = Redact(deployed["trial"]) /\ Whole(deployed["trial"])
  BY <1>1 DEF TfvarsInv, SnapshotsTell, DeployedWhole
<1>3. DOMAIN deployed["trial"] = VarNames
  BY <1>2 DEF Whole
<1>4. /\ "manifest_version" \in DOMAIN snap \ {Password}
      /\ snap["manifest_version"] = deployed["trial"]["manifest_version"]
  BY <1>2, <1>3 DEF Redact, VarNames, Password
<1>5. "manifest_version" \notin DOMAIN varfile
  BY VarFileDomain
<1>6. \A v \in DOMAIN snap \ {Password} :
        \/ ReplayFile("trial", varfile)[v] = snap[v]
        \/ v \in DOMAIN varfile
        \/ "trial" # "trial" /\ v = "deploy_bnk"
  BY <1>1, ReplayFacts DEF TfvarsInv
<1> HIDE DEF snap
<1> QED BY <1>4, <1>5, <1>6

LEMMA ReplayWhole ==
  ASSUME TfvarsInv, NEW p \in TPhases, NEW varfile \in VarFiles \cup {NoFile},
         Complete(ReplayFile(p, varfile))
  PROVE  Whole(ReplayFile(p, varfile))
<1>1. /\ ReplayFile(p, varfile) =
           [v \in DOMAIN ReplayFile(p, varfile) |-> ReplayFile(p, varfile)[v]]
      /\ DOMAIN ReplayFile(p, varfile) \subseteq VarNames
      /\ ReplayFile(p, varfile)[Password] = Secret
  BY ReplayFacts DEF TfvarsInv
<1>2. DOMAIN ReplayFile(p, varfile) = VarNames
  BY <1>1 DEF Complete
<1> QED BY <1>1, <1>2 DEF Whole

LEMMA NextTfvars ==
  ASSUME TfvarsInv, [TfvarsNext]_tfvarsVars
  PROVE  TfvarsInv'
<1> USE DEF TfvarsInv
<1>1. CASE EditConfig \/ EditUserFile
  BY <1>1 DEF EditConfig, EditUserFile, Types, SnapshotsKnown, DeployedWhole,
              SnapshotsTell, PlanAgrees, Tells
<1>2. ASSUME NEW varfile \in VarFiles \cup {NoFile}, PlanOut(varfile)
      PROVE  TfvarsInv'
  <2>1. "trial" \in TPhases
    BY PhasesAssumption
  <2>2. Types' /\ SnapshotsKnown' /\ DeployedWhole' /\ SnapshotsTell'
    BY <1>2 DEF PlanOut, Types, SnapshotsKnown, DeployedWhole, SnapshotsTell, Tells
  <2>3. Whole(ReplayFile("trial", varfile))
    BY <1>2, <2>1, ReplayWhole DEF PlanOut
  <2>4. deployed["trial"] # NoFile /\ Tells("trial") =>
          ReplayFile("trial", varfile)["manifest_version"]
            = deployed["trial"]["manifest_version"]
    BY ReplayVersion
  <2>5. PlanAgrees'
    BY <1>2, <2>3, <2>4 DEF PlanOut, PlanAgrees, Tells
  <2> QED BY <2>2, <2>5
<1>3. ASSUME NEW varfile \in VarFiles \cup {NoFile}, DirectApply(varfile)
      PROVE  TfvarsInv'
  <2>1. "trial" \in TPhases
    BY PhasesAssumption
  <2>2. Whole(ReplayFile("trial", varfile))
    BY <1>3, <2>1, ReplayWhole DEF DirectApply, Apply
  <2> QED BY <1>3, <2>1, <2>2, ApplyKeeps DEF DirectApply
<1>4. ASSUME NEW varfile \in VarFiles \cup {NoFile}, ApplyPlan(varfile)
      PROVE  TfvarsInv'
  <2>1. "trial" \in TPhases
    BY PhasesAssumption
  <2>2. DOMAIN ReplayFile("trial", varfile) \subseteq VarNames
    BY <2>1, ReplayFacts
  <2>3. Whole(saved)
    BY <1>4 DEF ApplyPlan, PlanAgrees
  <2> QED BY <1>4, <2>2, <2>3, UnrecordedKeeps DEF ApplyPlan
<1>5. ASSUME NEW varfile \in VarFiles \cup {NoFile}, DockerApply(varfile)
      PROVE  TfvarsInv'
  <2>1. DOMAIN varfile \subseteq {"workers"}
    BY VarFileDomain
  <2>2. /\ DOMAIN Chain(varfile) \subseteq VarNames
        /\ Chain(varfile) = [v \in DOMAIN Chain(varfile) |-> Chain(varfile)[v]]
        /\ Chain(varfile)[Password] = Rendered[Password]
    BY <2>1, ChainFacts DEF Types, VarNames, Password
  <2>3. Whole(Chain(varfile))
    BY <1>5, <2>2, RenderedFacts DEF DockerApply, Complete, Whole
  <2> QED BY <1>5, <2>2, <2>3, UnrecordedKeeps DEF DockerApply
<1>6. ASSUME NEW varfile \in VarFiles \cup {NoFile}, DockerDown(varfile)
      PROVE  TfvarsInv'
  BY <1>6, GoneKeeps, PhasesAssumption DEF DockerDown
<1>7. ASSUME NEW varfile \in VarFiles \cup {NoFile}, NEW p \in TPhases,
             Up(p, varfile)
      PROVE  TfvarsInv'
  <2>1. Complete(UpFile(p, varfile)) /\ Apply(p, UpFile(p, varfile))
    BY <1>7 DEF Up, Apply
  <2>2. /\ Whole(UpFile(p, varfile))
        /\ p # "trial" => UpFile(p, varfile)["deploy_bnk"] = FALSE
    BY <2>1, UpFacts
  <2> QED BY <2>1, <2>2, ApplyKeeps
<1>8. ASSUME NEW varfile \in VarFiles \cup {NoFile}, NEW p \in TPhases,
             Down(p, varfile)
      PROVE  TfvarsInv'
  BY <1>8, GoneKeeps DEF Down
<1>9. CASE UNCHANGED tfvarsVars
  BY <1>9 DEF tfvarsVars, Types, SnapshotsKnown, DeployedWhole, SnapshotsTell,
              PlanAgrees, Tells
<1> QED BY <1>1, <1>2, <1>3, <1>4, <1>5, <1>6, <1>7, <1>8, <1>9 DEF TfvarsNext

LEMMA AlwaysTfvars == TfvarsSpec => []TfvarsInv
<1>1. TfvarsInv /\ [TfvarsNext]_tfvarsVars => TfvarsInv'
  BY NextTfvars
<1> QED BY <1>1, InitTfvars, PTL DEF TfvarsSpec

-----------------------------------------------------------------------------
(* What follows.                                                           *)

\* A destroy without --var-file runs with the variables of the apply it undoes:
\* the snapshot has all of them but the secret, which the rendering has, and it
\* is read after terraform.tfvars.user (LayerAppliedTFVars, varFiles).
THEOREM DestroyReplays == TfvarsSpec => []DestroyReplaysApply
<1>1. ASSUME TfvarsInv, NEW p \in TPhases, deployed[p] # NoFile, Tells(p)
      PROVE  ReplayFile(p, NoFile) = deployed[p]
  <2> DEFINE file == ReplayFile(p, NoFile)  snap == snapshot[Dir(p)].file
  <2>1. Whole(deployed[p]) /\ snap = Redact(deployed[p])
    BY <1>1 DEF TfvarsInv, DeployedWhole, SnapshotsTell
  <2>2. /\ DOMAIN snap = VarNames
        /\ \A v \in VarNames \ {Password} : snap[v] = deployed[p][v]
    BY <2>1 DEF Redact, Whole
  <2>3. /\ file = [v \in DOMAIN file |-> file[v]]
        /\ DOMAIN file \subseteq VarNames
        /\ (VarNames \ {"workers"}) \cup DOMAIN snap \subseteq DOMAIN file
        /\ file[Password] = Secret
        /\ p # "trial" => file["deploy_bnk"] = FALSE
        /\ \A v \in DOMAIN snap \ {Password} :
             \/ file[v] = snap[v]
             \/ v \in DOMAIN NoFile
             \/ p # "trial" /\ v = "deploy_bnk"
    BY <1>1, ReplayFacts DEF TfvarsInv
  <2>4. p # "trial" => deployed[p]["deploy_bnk"] = FALSE
    BY <1>1 DEF TfvarsInv, DeployedWhole
  <2>5. DOMAIN NoFile = {}
    BY DEF NoFile
  <2> HIDE DEF file, snap
  <2>6. \A v \in VarNames : file[v] = deployed[p][v]
    BY <2>1, <2>2, <2>3, <2>4, <2>5 DEF Whole
  <2>7. file = [v \in VarNames |-> file[v]]
    BY <2>2, <2>3
  <2>8. file = deployed[p]
    BY <2>1, <2>6, <2>7 DEF Whole
  <2> QED BY <2>8 DEF file
<1>2. TfvarsInv => DestroyReplaysApply
  BY <1>1 DEF DestroyReplaysApply
<1> QED BY <1>2, AlwaysTfvars, PTL

LEMMA InstalledSame ==
  ASSUME deployed'["trial"] = deployed["trial"]
  PROVE  ~Replaced
BY DEF Replaced, InstalledVersion

\* What a new version of the trial has to be different from.
LEMMA InstalledIs ==
  ASSUME Replaced
  PROVE  /\ deployed["trial"] # NoFile
         /\ deployed["trial"]["manifest_version"] # None
         /\ deployed'["trial"]["manifest_version"]
              # deployed["trial"]["manifest_version"]
BY DEF Replaced, InstalledVersion

\* While the snapshot tells what is installed, only the containerised apply puts
\* another version of BNK in its place: up is refused, apply and a reviewed plan
\* run with the recorded version (guardCreateTimeSettings, RunApply).
THEOREM VersionKept == TfvarsSpec => VersionFixed
<1> DEFINE OnlyDocker == Replaced /\ Tells("trial") =>
                           \E varfile \in VarFiles \cup {NoFile} : DockerApply(varfile)
<1>1. ASSUME TfvarsInv, TfvarsNext, Replaced, Tells("trial")
      PROVE  \E varfile \in VarFiles \cup {NoFile} : DockerApply(varfile)
  <2>1. /\ "trial" \in TPhases /\ Dir("trial") = "trial"
        /\ deployed["trial"] # NoFile
        /\ deployed["trial"]["manifest_version"] # None
        /\ deployed'["trial"]["manifest_version"]
             # deployed["trial"]["manifest_version"]
        /\ deployed'["trial"] # deployed["trial"]
    BY <1>1, InstalledIs, InstalledSame, PhasesAssumption DEF Dir
  <2>2. Whole(deployed["trial"])
        /\ snapshot["trial"].file = Redact(deployed["trial"])
    BY <1>1, <2>1 DEF TfvarsInv, DeployedWhole, SnapshotsTell
  <2>3. Recorded = deployed["trial"]["manifest_version"]
    <3>1. snapshot["trial"] # NoSnapshot
      BY <1>1, <2>1 DEF Tells, NoSnapshot, None
    <3>2. "manifest_version" \in DOMAIN deployed["trial"]
          /\ "manifest_version" # Password
      BY <2>2 DEF Whole, VarNames, Password
    <3> QED BY <2>2, <3>1, <3>2 DEF Recorded, Redact
  <2>4. ~(EditConfig \/ EditUserFile)
    BY <2>1 DEF EditConfig, EditUserFile
  <2>5. ASSUME NEW varfile \in VarFiles \cup {NoFile}
        PROVE  /\ ~PlanOut(varfile) /\ ~DirectApply(varfile)
               /\ ~ApplyPlan(varfile) /\ ~DockerDown(varfile)
    <3>1. ~PlanOut(varfile)
      BY <2>1 DEF PlanOut
    <3>2. ASSUME DirectApply(varfile) PROVE FALSE
      <4>1. deployed'["trial"] = ReplayFile("trial", varfile)
        BY <1>1, <2>1, <3>2 DEF DirectApply, Apply, Changes, TfvarsInv, Types
      <4> QED BY <1>1, <2>1, <4>1, ReplayVersion
    <3>3. ASSUME ApplyPlan(varfile) PROVE FALSE
      <4>1. deployed'["trial"] = saved /\ saved # NoFile
        BY <1>1, <2>1, <3>3 DEF ApplyPlan, Changes, TfvarsInv, Types
      <4> QED BY <1>1, <2>1, <4>1 DEF TfvarsInv, PlanAgrees
    <3>4. ASSUME DockerDown(varfile) PROVE FALSE
      <4>1. deployed'["trial"] = NoFile
        BY <1>1, <2>1, <3>4 DEF DockerDown, Gone, TfvarsInv, Types
      <4> QED BY <1>1, <4>1 DEF Replaced, InstalledVersion
    <3> QED BY <3>1, <3>2, <3>3, <3>4
  <2>6. ASSUME NEW varfile \in VarFiles \cup {NoFile}, NEW p \in TPhases
        PROVE  ~Up(p, varfile) /\ ~Down(p, varfile)
    <3>1. ASSUME Down(p, varfile) PROVE FALSE
      <4>1. deployed'["trial"] \in {NoFile, deployed["trial"]}
        BY <1>1, <2>1, <3>1 DEF Down, Gone, TfvarsInv, Types
      <4> QED BY <1>1, <2>1, <4>1 DEF Replaced, InstalledVersion
    <3>2. ASSUME Up(p, varfile) PROVE FALSE
      <4>1. deployed' = [deployed EXCEPT ![p] = UpFile(p, varfile)]
            /\ Complete(UpFile(p, varfile))
        BY <3>2 DEF Up, Apply, Changes
      <4>2. p = "trial" /\ deployed'["trial"] = UpFile("trial", varfile)
        BY <1>1, <2>1, <4>1 DEF TfvarsInv, Types
      <4>3. deployed'["trial"]["manifest_version"] = version
        BY <1>1, <4>1, <4>2, UpFacts DEF TfvarsInv
      <4>4. Recorded \in {None, version}
        BY <2>1, <3>2, <4>2 DEF Up, GuardsPass
      <4> QED BY <2>1, <2>3, <4>3, <4>4
    <3> QED BY <3>1, <3>2
  <2> QED BY <1>1, <2>4, <2>5, <2>6 DEF TfvarsNext
<1>2. TfvarsInv /\ [TfvarsNext]_tfvarsVars => [OnlyDocker]_tfvarsVars
  BY <1>1
<1> QED BY <1>2, AlwaysTfvars, PTL DEF TfvarsSpec, VersionFixed
=============================================================================
