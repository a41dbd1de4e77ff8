------------------------------ MODULE ExecRun ------------------------------
(***************************************************************************)
(* One Backend.Run: a tool run on this host, in a docker container, as a   *)
(* Kubernetes Job, in the ops pod, or on a host reached by ssh.            *)
(*                                                                         *)
(* Run creates things outside its own process (a Secret with files, a Job, *)
(* a container, directories), waits for a tool that runs elsewhere, and    *)
(* has to say what became of it and to take away what it made.  Calls fail *)
(* or lose their reply, the user interrupts, the process is killed, and    *)
(* the goroutine that answers an interrupt races with the return of Run.   *)
(***************************************************************************)
CONSTANT Backends

ASSUME BackendsAssumption == Backends \subseteq {"local", "docker", "k8s", "ops", "ssh"}

VARIABLES
  backend,   \* which Backend; "ops" is the long-lived path of the k8s one
  files,     \* RunOpts.Files is not empty
  flaky,     \* calls may fail in this run
  pc,        \* the step of Run
  cancelled, \* ctx: the user has interrupted
  helper,    \* the goroutine that waits for ctx.Done or cancelDone
  cli,       \* the process
  tool,      \* what became of the tool
  child,     \* a process of the tool holds its output open (local)
  left,      \* what Run has made and nobody has taken away
  owned,     \* the files Secret names the Job as its owner
  warned,    \* the user has been told that it may not
  result,    \* what Run returned
  mishap     \* not in the code: a call that made something lost its reply, one that
             \* takes something away failed, or the process was killed

execVars == <<backend, files, flaky, pc, cancelled, helper, cli, tool, child,
              left, owned, warned, result, mishap>>
fixed == <<backend, files, flaky>>

First == [local  |-> "look", docker |-> "temp", k8s |-> "stage", ops |-> "spawn",
          ssh    |-> "connect"]
Ended   == {"ok", "bad", "killed"}
Pending == [rc |-> "none", err |-> FALSE]

At(b, step) == cli = "up" /\ backend = b /\ pc = step

\* A call with ctx.  One that fails may have done its work before ctx was
\* cancelled or the reply was lost.
MayFail == flaky \/ cancelled

GoTo(step) == pc' = step /\ UNCHANGED result

\* The deferred os.RemoveAll of the local directory runs with the return.
Return(rc, err) == pc' = "done" /\ result' = [rc |-> rc, err |-> err]
Returned(things) == things \ {"directory"}

\* The exit code of a tool that has ended.
ToolCode == IF tool = "ok" THEN "0" ELSE "tool"

-----------------------------------------------------------------------------
(* The k8s backend: runAsJob.                                              *)

CreateSecret ==
  /\ At("k8s", "stage")
  /\ \/ ~files /\ GoTo("create") /\ UNCHANGED <<left, mishap>>
     \/ files /\ ~cancelled /\ GoTo("create") /\ left' = left \cup {"secret"} /\ UNCHANGED mishap
     \/ files /\ MayFail /\ Return("127", TRUE)
        /\ \E made \in SUBSET {"secret"} : left' = left \cup made /\ mishap' = (mishap \/ made # {})
  /\ UNCHANGED <<fixed, cancelled, helper, cli, tool, child, owned, warned>>

CreateJob ==
  /\ At("k8s", "create")
  /\ \/ /\ ~cancelled /\ left' = left \cup {"job"}
        /\ tool' = "created" /\ GoTo("own") /\ UNCHANGED mishap
     \/ /\ MayFail
        /\ \E made \in SUBSET {"job"} :
             /\ left' = left \cup made /\ mishap' = (mishap \/ made # {})
             /\ tool' = IF made = {} THEN tool ELSE "created"
        /\ IF files THEN GoTo("unstage") ELSE Return("127", TRUE)
  /\ UNCHANGED <<fixed, cancelled, helper, cli, child, owned, warned>>

\* Mutation: a Job that could not be created returns without the delete.
UnstageForgotten ==
  /\ At("k8s", "unstage")
  /\ Return("127", TRUE)
  /\ UNCHANGED <<fixed, cancelled, helper, cli, tool, child, left, owned, warned, mishap>>

\* The Job could not be created: its Secret is deleted, with a context of its own.
Unstage ==
  /\ At("k8s", "unstage")
  /\ Return("127", TRUE)
  /\ \/ left' = left \ {"secret"} /\ UNCHANGED mishap
     \/ flaky /\ mishap' = TRUE /\ UNCHANGED left
  /\ UNCHANGED <<fixed, cancelled, helper, cli, tool, child, owned, warned>>

\* setSecretOwnerRef, with ctx; a failure is only warned about, and the patch may have
\* been applied.  Then the goroutine starts.
OwnSecret ==
  /\ At("k8s", "own")
  /\ \/ ~files /\ UNCHANGED <<owned, warned>>
     \/ files /\ ~cancelled /\ owned' = TRUE /\ UNCHANGED warned
     \/ files /\ MayFail /\ owned' \in BOOLEAN /\ warned' = TRUE
  /\ GoTo("ready") /\ helper' = "armed"
  /\ UNCHANGED <<fixed, cancelled, cli, tool, child, left, mishap>>

\* waitForJobPodRunning: a pod that runs or has run; one that will not start,
\* or three minutes without one; or ctx.
PodRunning ==
  /\ At("k8s", "ready")
  /\ \/ tool \in {"running", "ok", "bad"} /\ "job" \in left /\ GoTo("run")
     \/ (tool \in {"created", "stuck", "killed"} \/ "job" \notin left \/ cancelled \/ flaky)
        /\ Return("126", TRUE)
  /\ UNCHANGED <<fixed, cancelled, helper, cli, tool, child, left, owned, warned, mishap>>

\* Mutation: a Job that cannot be found is taken for a finished one.
JobCompletionGone ==
  /\ At("k8s", "run")
  /\ \/ "job" \notin left /\ Return("0", FALSE)
     \/ "job" \in left /\ tool \in {"ok", "bad"} /\ Return(ToolCode, FALSE)
     \/ cancelled /\ Return("126", TRUE)
  /\ UNCHANGED <<fixed, cancelled, helper, cli, tool, child, left, owned, warned, mishap>>

\* Mutation: the loop does not select on ctx.Done.
JobCompletionDeaf ==
  /\ At("k8s", "run")
  /\ "job" \in left /\ tool \in {"ok", "bad"} /\ Return(ToolCode, FALSE)
  /\ UNCHANGED <<fixed, cancelled, helper, cli, tool, child, left, owned, warned, mishap>>

\* waitForJobCompletion, then the log stream, which ends with the pod or ctx.  A
\* Job that has gone is polled for until ctx is cancelled.
JobCompletion ==
  /\ At("k8s", "run")
  /\ \/ "job" \in left /\ tool \in {"ok", "bad"} /\ Return(ToolCode, FALSE)
     \/ cancelled /\ Return("126", TRUE)
  /\ UNCHANGED <<fixed, cancelled, helper, cli, tool, child, left, owned, warned, mishap>>

\* The clean-up goroutine: the Job, then the Secret.
HelperJob ==
  /\ cli = "up" /\ backend = "k8s" /\ helper = "armed" /\ cancelled
  /\ helper' = "deleting"
  /\ \/ left' = left \ {"job"} /\ tool' = IF tool \in Ended THEN tool ELSE "killed"
     \/ flaky /\ UNCHANGED <<left, tool>>
  /\ UNCHANGED <<fixed, pc, cancelled, cli, child, owned, warned, result, mishap>>

HelperSecret ==
  /\ cli = "up" /\ helper = "deleting"
  /\ helper' = "gone"
  /\ left' = left \ {"secret"} \/ (flaky /\ UNCHANGED left)
  /\ UNCHANGED <<fixed, pc, cancelled, cli, tool, child, owned, warned, result, mishap>>

\* close(cancelDone): select may take it even when ctx is cancelled as well.
HelperStops ==
  /\ cli = "up" /\ helper = "armed" /\ pc = "done"
  /\ helper' = "gone"
  /\ UNCHANGED <<fixed, pc, cancelled, cli, tool, child, left, owned, warned, result, mishap>>

-----------------------------------------------------------------------------
(* The long-lived path: runOnOpsPod.                                       *)

OpsSpawn ==
  /\ At("ops", "spawn")
  /\ \/ ~cancelled /\ tool' = "running" /\ GoTo("run")
     \/ Return("127", TRUE) /\ UNCHANGED tool       \* the pod is not there, or not ready
  /\ UNCHANGED <<fixed, cancelled, helper, cli, child, left, owned, warned, mishap>>

OpsRun ==
  /\ At("ops", "run")
  /\ \/ tool \in {"ok", "bad"} /\ Return(ToolCode, FALSE)
     \/ cancelled /\ Return("137", TRUE)
     \/ flaky /\ Return("126", TRUE)
  /\ UNCHANGED <<fixed, cancelled, helper, cli, tool, child, left, owned, warned, mishap>>

-----------------------------------------------------------------------------
(* The docker backend.                                                     *)

DockerTemp ==
  /\ At("docker", "temp")
  /\ \/ GoTo("mounts") /\ left' = left \cup {"directory"}
     \/ flaky /\ Return("0", TRUE) /\ UNCHANGED left
     \/ Return("127", TRUE) /\ UNCHANGED left       \* no daemon
  /\ UNCHANGED <<fixed, cancelled, helper, cli, tool, child, owned, warned, mishap>>

\* buildMountsAndEnv writes the files, the key and the kubeconfig there.
DockerMounts ==
  /\ At("docker", "mounts")
  /\ \/ GoTo("image") /\ UNCHANGED left
     \/ flaky /\ Return("0", TRUE) /\ left' = Returned(left)
  /\ UNCHANGED <<fixed, cancelled, helper, cli, tool, child, owned, warned, mishap>>

\* ensureImage.
DockerImage ==
  /\ At("docker", "image")
  /\ \/ ~cancelled /\ GoTo("create") /\ UNCHANGED left
     \/ Return("127", TRUE) /\ left' = Returned(left)
  /\ UNCHANGED <<fixed, cancelled, helper, cli, tool, child, owned, warned, mishap>>

DockerCreate ==
  /\ At("docker", "create")
  /\ \/ ~cancelled /\ GoTo("attach") /\ left' = left \cup {"container"} /\ tool' = "created"
     \/ /\ MayFail /\ Return("126", TRUE)
        /\ \/ left' = Returned(left) /\ UNCHANGED tool
           \/ left' = Returned(left) \cup {"container"} /\ tool' = "created"
  /\ UNCHANGED <<fixed, cancelled, helper, cli, child, owned, warned, mishap>>

DockerAttach ==
  /\ At("docker", "attach")
  /\ \/ ~cancelled /\ GoTo("spawn") /\ UNCHANGED left
     \/ MayFail /\ Return("126", TRUE) /\ left' = Returned(left)
  /\ UNCHANGED <<fixed, cancelled, helper, cli, tool, child, owned, warned, mishap>>

\* ContainerWait and ContainerStart; then the goroutine.  The daemon removes a
\* container it could not start.
DockerStart ==
  /\ At("docker", "spawn")
  /\ \/ /\ ~cancelled /\ tool' = "running" /\ GoTo("run") /\ helper' = "armed"
        /\ UNCHANGED <<left, mishap>>
     \/ /\ Return("126", TRUE) /\ UNCHANGED helper
        /\ \/ left' = Returned(left) \ {"container"} /\ tool' = "none" /\ UNCHANGED mishap
           \/ MayFail /\ left' = Returned(left) /\ UNCHANGED tool /\ mishap' = TRUE
           \/ MayFail /\ left' = Returned(left) /\ tool' = "running" /\ mishap' = TRUE
  /\ UNCHANGED <<fixed, cancelled, cli, child, owned, warned>>

\* The select.  The wait was asked for before the start and its condition is
\* "not running", which a created container meets: its answer may come at once.
DockerWait ==
  /\ At("docker", "run")
  /\ pc' = "drain"
  /\ \/ tool \in Ended /\ result' = [rc |-> ToolCode, err |-> FALSE]
     \/ result' = [rc |-> "0", err |-> FALSE]
     \/ MayFail /\ result' = [rc |-> "126", err |-> TRUE]
     \/ cancelled /\ result' = [rc |-> "137", err |-> TRUE]
  /\ UNCHANGED <<fixed, cancelled, helper, cli, tool, child, left, owned, warned, mishap>>

\* <-streamDone: the attached stream ends with the container, or breaks.
DockerDrain ==
  /\ At("docker", "drain")
  /\ tool \in Ended \/ flaky
  /\ GoTo("done") /\ left' = Returned(left)
  /\ UNCHANGED <<fixed, cancelled, helper, cli, tool, child, owned, warned, mishap>>

\* ContainerKill with a context whose deadline is now: no request is sent.
HelperKill ==
  /\ cli = "up" /\ backend = "docker" /\ helper = "armed" /\ cancelled
  /\ helper' = "gone"
  /\ UNCHANGED <<fixed, pc, cancelled, cli, tool, child, left, owned, warned, result, mishap>>

-----------------------------------------------------------------------------
(* The ssh backend.                                                        *)

\* Resolve the target and its key, and connect.
SshConnect ==
  /\ At("ssh", "connect")
  /\ (~cancelled /\ GoTo("check")) \/ Return("127", TRUE)
  /\ UNCHANGED <<fixed, cancelled, helper, cli, tool, child, left, owned, warned, mishap>>

\* ensureTool.  A check that fails for the transport says 0 and is taken for a tool
\* that is there.
SshTool ==
  /\ At("ssh", "check")
  /\ \/ GoTo("mktemp")
     \/ \E rc \in {"126", "127"} : Return(rc, TRUE)  \* no such tool, or no bootstrap
  /\ UNCHANGED <<fixed, cancelled, helper, cli, tool, child, left, owned, warned, mishap>>

\* makeRemoteTempdir; the deferred rm -rf is registered only when it succeeds.
SshTempdir ==
  /\ At("ssh", "mktemp")
  /\ \/ ~cancelled /\ GoTo("files") /\ left' = left \cup {"tempdir"} /\ UNCHANGED mishap
     \/ /\ MayFail /\ Return("126", TRUE)
        /\ \E made \in SUBSET {"tempdir"} : left' = left \cup made /\ mishap' = (mishap \/ made # {})
  /\ UNCHANGED <<fixed, cancelled, helper, cli, tool, child, owned, warned>>

\* From here on a failure returns by way of the deferred rm -rf.
Abort == pc' = "tidy" /\ result' = [rc |-> "126", err |-> TRUE]

\* writeFiles.
SshFiles ==
  /\ At("ssh", "files")
  /\ GoTo("canary") \/ (files /\ MayFail /\ Abort)
  /\ UNCHANGED <<fixed, cancelled, helper, cli, tool, child, left, owned, warned, mishap>>

\* canarySetEnvCheck: when the canary does not come back, for whatever reason, the
\* tool is run by a script.
SshCanary ==
  /\ At("ssh", "canary")
  /\ GoTo("spawn") \/ GoTo("wrapper")
  /\ UNCHANGED <<fixed, cancelled, helper, cli, tool, child, left, owned, warned, mishap>>

\* runViaWrapper writes .env and run.sh.
SshWrapper ==
  /\ At("ssh", "wrapper")
  /\ GoTo("spawn") \/ (MayFail /\ Abort)
  /\ UNCHANGED <<fixed, cancelled, helper, cli, tool, child, left, owned, warned, mishap>>

\* Even with ctx cancelled the session may get as far as starting the tool.
SshExec ==
  /\ At("ssh", "spawn")
  /\ \/ GoTo("run") /\ tool' = "running"
     \/ MayFail /\ Abort /\ UNCHANGED tool
  /\ UNCHANGED <<fixed, cancelled, helper, cli, child, left, owned, warned, mishap>>

\* Client.Run: the session ends with the tool, with ctx (SIGKILL, then close),
\* or with the connection.
SshRun ==
  /\ At("ssh", "run")
  /\ \/ /\ tool \in {"ok", "bad"} /\ UNCHANGED tool
        /\ pc' = "tidy" /\ result' = [rc |-> ToolCode, err |-> FALSE]
     \/ cancelled /\ Abort /\ tool' = IF tool \in Ended THEN tool ELSE "killed"
     \/ flaky /\ Abort /\ UNCHANGED tool
  /\ UNCHANGED <<fixed, cancelled, helper, cli, child, left, owned, warned, mishap>>

\* Mutation: the deferred rm is run with ctx.
SshTidyWithCtx ==
  /\ At("ssh", "tidy")
  /\ GoTo("done")
  /\ \/ ~cancelled /\ left' = left \ {"tempdir"} /\ UNCHANGED mishap
     \/ cancelled /\ UNCHANGED <<left, mishap>>
     \/ flaky /\ mishap' = TRUE /\ UNCHANGED left
  /\ UNCHANGED <<fixed, cancelled, helper, cli, tool, child, owned, warned>>

\* The deferred rm -rf, with a context of its own, on the same connection.  (The
\* trap in run.sh does not run: run.sh execs the tool.)
SshTidy ==
  /\ At("ssh", "tidy")
  /\ GoTo("done")
  /\ \/ left' = left \ {"tempdir"} /\ UNCHANGED mishap
     \/ flaky /\ mishap' = TRUE /\ UNCHANGED left
  /\ UNCHANGED <<fixed, cancelled, helper, cli, tool, child, owned, warned>>

-----------------------------------------------------------------------------
(* The local backend.                                                      *)

\* LookPath, then the files, in a directory of their own.
LocalFiles ==
  /\ At("local", "look")
  /\ \/ Return("127", TRUE) /\ UNCHANGED left
     \/ files /\ flaky /\ Return("0", TRUE) /\ UNCHANGED left
     \/ GoTo("spawn") /\ left' = IF files THEN left \cup {"directory"} ELSE left
  /\ UNCHANGED <<fixed, cancelled, helper, cli, tool, child, owned, warned, mishap>>

LocalStart ==
  /\ At("local", "spawn")
  /\ \/ ~cancelled /\ GoTo("run") /\ tool' = "running" /\ UNCHANGED left
     \/ cancelled /\ Return("137", TRUE) /\ UNCHANGED tool /\ left' = Returned(left)
     \/ flaky /\ Return("0", TRUE) /\ UNCHANGED tool /\ left' = Returned(left)
  /\ UNCHANGED <<fixed, cancelled, helper, cli, child, owned, warned, mishap>>

\* CommandContext kills the tool, not what the tool has started.
LocalKill ==
  /\ At("local", "run") /\ cancelled /\ tool = "running"
  /\ tool' = "killed"
  /\ UNCHANGED <<fixed, pc, cancelled, helper, cli, child, left, owned, warned, result, mishap>>

\* cmd.Run returns when the tool has ended and its output is closed.
LocalRun ==
  /\ At("local", "run") /\ tool \in Ended /\ ~child
  /\ \/ tool = "ok" /\ Return("0", FALSE)
     \/ tool # "ok" /\ IF cancelled THEN Return("137", TRUE) ELSE Return("tool", TRUE)
     \/ flaky /\ Return("0", TRUE)                   \* its output could not be copied
  /\ left' = Returned(left)
  /\ UNCHANGED <<fixed, cancelled, helper, cli, tool, child, owned, warned, mishap>>

-----------------------------------------------------------------------------
(* External: the tool, the user, and what clears up after them.            *)

\* The pod mounts the Secret: without it it does not start.
ToolStarts ==
  /\ backend = "k8s" /\ tool = "created" /\ "job" \in left
  /\ files => "secret" \in left
  /\ tool' \in {"running", "stuck"}
  /\ UNCHANGED <<fixed, pc, cancelled, helper, cli, child, left, owned, warned, result, mishap>>

ToolEnds ==
  /\ tool = "running" /\ tool' \in {"ok", "bad"}
  /\ child' \in IF backend = "local" THEN BOOLEAN ELSE {FALSE}
  /\ UNCHANGED <<fixed, pc, cancelled, helper, cli, left, owned, warned, result, mishap>>

ChildEnds ==
  /\ child /\ child' = FALSE
  /\ UNCHANGED <<fixed, pc, cancelled, helper, cli, tool, left, owned, warned, result, mishap>>

\* ttlSecondsAfterFinished is a minute and Run polls every second: the Job is
\* gone before Run has seen it finish only when the API fails that long.
Expire ==
  /\ "job" \in left /\ tool \in {"ok", "bad"}
  /\ pc = "done" \/ cli # "up" \/ flaky
  /\ left' = left \ {"job"}
  /\ UNCHANGED <<fixed, pc, cancelled, helper, cli, tool, child, owned, warned, result, mishap>>

CollectSecret ==
  /\ owned /\ "job" \notin left /\ "secret" \in left
  /\ left' = left \ {"secret"}
  /\ UNCHANGED <<fixed, pc, cancelled, helper, cli, tool, child, owned, warned, result, mishap>>

\* AutoRemove.
RemoveContainer ==
  /\ "container" \in left /\ tool \in Ended
  /\ left' = left \ {"container"}
  /\ UNCHANGED <<fixed, pc, cancelled, helper, cli, tool, child, owned, warned, result, mishap>>

\* Ctrl-C cancels ctx (signal.NotifyContext).  In runAsJob whether the goroutine
\* gets to clean up before the process ends is a race.
Interrupt ==
  /\ cli = "up" /\ pc # "done" /\ ~cancelled
  /\ cancelled' = TRUE
  /\ UNCHANGED <<fixed, pc, helper, cli, tool, child, left, owned, warned, result, mishap>>

Exit ==
  /\ cli = "up" /\ pc = "done" /\ cli' = "exited" /\ helper' = "gone"
  /\ UNCHANGED <<fixed, pc, cancelled, tool, child, left, owned, warned, result, mishap>>

Killed ==
  /\ cli = "up" /\ pc # "done" /\ cli' = "killed" /\ helper' = "gone" /\ mishap' = TRUE
  /\ UNCHANGED <<fixed, pc, cancelled, tool, child, left, owned, warned, result>>

-----------------------------------------------------------------------------

Init ==
  /\ backend \in Backends /\ files \in BOOLEAN /\ flaky \in BOOLEAN
  /\ pc = First[backend] /\ cancelled = FALSE /\ helper = "none" /\ cli = "up"
  /\ tool = "none" /\ child = FALSE /\ left = {} /\ owned = FALSE /\ warned = FALSE
  /\ result = Pending /\ mishap = FALSE

Run ==
  \/ CreateSecret \/ CreateJob \/ Unstage \/ OwnSecret \/ PodRunning \/ JobCompletion
  \/ OpsSpawn \/ OpsRun
  \/ DockerTemp \/ DockerMounts \/ DockerImage \/ DockerCreate \/ DockerAttach \/ DockerStart \/ DockerWait
  \/ DockerDrain
  \/ SshConnect \/ SshTool \/ SshTempdir \/ SshFiles \/ SshCanary \/ SshWrapper \/ SshExec \/ SshRun \/ SshTidy
  \/ LocalFiles \/ LocalStart \/ LocalKill \/ LocalRun
Helper  == HelperJob \/ HelperSecret \/ HelperStops \/ HelperKill
CleanUp == Expire \/ CollectSecret \/ RemoveContainer
Next ==
  \/ Run \/ Helper \/ CleanUp
  \/ ToolStarts \/ ToolEnds \/ ChildEnds \/ Interrupt \/ Exit \/ Killed

\* Run and its goroutine go on, and the controllers keep what they promise.  The
\* tool, and what it has started, may run for ever.
Fairness == WF_execVars(Run) /\ WF_execVars(Helper) /\ WF_execVars(CleanUp)
ExecSpec == Init /\ [][Next]_execVars /\ Fairness

-----------------------------------------------------------------------------
(* Invariants *)

\* Type correctness; and Run returns something, once.
ExecTypeOK ==
  /\ backend \in Backends /\ files \in BOOLEAN /\ flaky \in BOOLEAN
  /\ cancelled \in BOOLEAN /\ helper \in {"none", "armed", "deleting", "gone"}
  /\ cli \in {"up", "exited", "killed"} /\ child \in BOOLEAN /\ owned \in BOOLEAN
  /\ warned \in BOOLEAN /\ mishap \in BOOLEAN
  /\ tool \in {"none", "created", "stuck", "running"} \cup Ended
  /\ left \subseteq {"secret", "job", "container", "directory", "tempdir"}
  /\ result.rc \in {"none", "0", "tool", "126", "127", "137"} /\ result.err \in BOOLEAN
  /\ pc = "done" => result.rc # "none"

\* Run reports success only of a tool that has run and ended with 0, and blames
\* only a tool that has failed, whatever the API, the connection or the user did
\* meanwhile: a caller that is told 0 goes on with the next phase.  (The docker
\* backend asks for the wait before the start and cannot promise this.)
ExitIsTheTools ==
  pc = "done" /\ backend # "docker" =>
    /\ result.rc = "0" /\ ~result.err => tool = "ok"
    /\ result.rc = "tool" => tool = "bad"

\* The files Secret outlives Run, interrupted or not, only as a dependent of a Job,
\* which takes it along, or with a warning that it is nobody's; unless the call that
\* made it lost its reply, the one that deletes it failed, or Run was killed.
SecretAccounted ==
  pc = "done" /\ ~mishap /\ "secret" \in left => owned \/ warned

-----------------------------------------------------------------------------
(* Temporal properties *)

\* A Run whose tool has ended, or was ended by an interrupt, leaves nothing behind
\* but a Secret it has warned of, whether or not the goroutine that cleans up after
\* an interrupt got to it before the process was gone; unless a call that made
\* something lost its reply, one that takes something away failed, or Run was killed.
NothingLeft ==
  (pc = "done" /\ tool \in Ended /\ ~mishap) ~> (mishap \/ left \subseteq IF warned THEN {"secret"} ELSE {})

\* An interrupted Run returns, except where it waits for what it cannot end: a
\* container, a process the tool has started on this host.  And a Run whose tool
\* has ended returns as long as calls succeed.
RunReturns ==
  /\ (cancelled /\ cli = "up" /\ backend \in {"k8s", "ops", "ssh"}) ~> (pc = "done" \/ cli # "up")
  /\ (tool \in Ended /\ ~child /\ ~flaky /\ cli = "up") ~> (pc = "done" \/ cli # "up")
=============================================================================
