# Specification of roksbnkctl

roksbnkctl builds and tears down F5 BNK test environments on IBM Cloud: a VPC
and a ROKS cluster, the BNK trial on it, and optional layers beside it. It is a
command-line program; almost all of its state is on disk (terraform states and
JSON records of a *workspace*), in the cloud, or in the cluster. What is hard
about it is not any one algorithm. It is that every command is a process of its
own that looks at files other commands left, decides, and then changes things
for half an hour during which anything can fail.

This directory holds TLA+ models of that, the TLC instances that check them, and
TLAPS proofs of the properties that matter most.

## The system

| Part | State it keeps | Operations | What is hard | Module |
|---|---|---|---|---|
| Phases (`orchestration/`, `cli/*_phase.go`) | six terraform states, `cluster-outputs.json`, `flp-outputs.json`, `tgw-outputs.json` | `up`, `down`, `apply`, and up/down, connect/disconnect, register per phase | order of teardown, half-done runs, stale records, two terminals | `WorkspacePhases` |
| BNK teardown (`teardown_cr_sweep.go`, `teardown_webhook_sweep_loop.go`, `bnk_teardown_cleanup.go`) | the custom resources, finalizers and webhooks in the cluster | drain, concurrent webhook loop, destroy, finalizer repair | races with a live operator that re-creates what is deleted | `BnkTeardown` |
| Terraform driver (`tf/terraform.go`, `applyWithRetry`, `destroyWithRetry`) | state and lock per phase | init, plan, apply, destroy, retry | retry of what was partly done | inside the others |
| Applied-tfvars (`config/applied_tfvars.go`, `applied_replay.go`) | one snapshot per phase directory | write after apply, replay before destroy; the create-time guards read it | a snapshot of the wrong phase, or of an older apply | `AppliedTfvars` |
| State backend and sources (`cli/state.go`, `tf/migrate.go`, `tf/fetch.go`) | source trees, backend override, `.terraform`, state documents | `state s3`, `local`, `migrate`; fetch and init before every run | a migration that stops half-way, a tree that is unpacked half-way | `TerraformState` |
| Registry mirror (`registry/mirror`, `cli/registry_*.go`) | mirrored images, `registry-mirror.json` | replicate, adopt, verify, delete, target | a record that is a cache, a pool of workers, a source that moves | `RegistryMirror` |
| Node gate (`k8s/registry_trust.go`, `node_reachability.go`) | a DaemonSet, its pods' logs | install the CA, probe, collect | three deadlines, pods of an earlier run | `NodeTrust` |
| Execution backends (`exec/`, `remote/ssh.go`) | Jobs, Secrets, containers, remote directories | run, stream, cancel, clean up | clean-up on an interrupt, a reply that is lost | `ExecRun` |
| Kubeconfig (`cli/kubeconfig_scope.go`, `orchestration/kubetarget.go`, `kubeconfig_refresh.go`) | files that workspaces share | resolve, refresh, download, pin | stale credentials, two writers | `KubeAccess` |
| Workspace files (`cli/init.go`, `cli/workspaces.go`, `config/`) | `config.yaml`, the current pointer, the keychain, ssh keys here and in the cloud | init, `ws new`, `use`, `delete` | many places, no transaction | `WorkspaceInit` |
| Supply chain (`cos/`, `cli/cos.go`, `cli/init_supply_chain.go`) | an instance, a bucket, two objects | made by init and by the `cos` verbs | coordinates of what is not complete | `SupplyChain` |
| Configuration (`config/envoverride*.go`, `override_paths.go`, `cli/config_cmd.go`) | the config, the environment | override, `config yaml`, `config env`, init from either | two forms, precedence, a default that differs from what is absent | `Settings` |
| Rendering (`tf/vars.go`, `naming/`) | `terraform.tfvars` | render | what is left out means terraform's default | `Rendering` |
| Orphan cleanup (`cli/cleanup.go`, `ibm/orphans.go`) | the account | scan, protect, detach, delete | it goes by names | `Cleanup` |
| Everything else (`ibm/`, `forge/`, `k8s/` verbs, `test/`, `doctor/`, ...) | held by a service | one call each | little of their own | - |

The parts meet in the phases: a phase command resolves the configuration,
renders the variables, runs its guards, drives terraform, and writes the record
the next phase reads. `PROJECT.json` lists every component with its sources and
what is and is not modelled, and every hazard with its line.

## Modules

| Module | Models | Proofs |
|---|---|---|
| `WorkspacePhases` | every phase command, from what it detects to what it leaves | `WorkspacePhases_proofs` |
| `ClusterHosting` | what the phases promise together: layers stand on clusters; `WorkspacePhases` implements it (`ImplementsHosting`) | |
| `BnkTeardown` | `bnk down`: drain, webhook sweep, terraform destroy and repair, against a live operator | `BnkTeardown_proofs` |
| `AppliedTfvars` | where the variables of a terraform run come from, and the snapshot an apply leaves | `AppliedTfvars_proofs` |
| `TerraformState` | the working directories, the backend and its migration | `TerraformState_proofs` |
| `RegistryMirror` | the mirror, its record, and the guard of an install | `Remotes_proofs` |
| `NodeTrust` | the gate in front of an install | `Remotes_proofs` |
| `ExecRun` | one `Backend.Run`, of each backend | `Remotes_proofs` |
| `KubeAccess` | which cluster a command talks to, with which credential | `KubeAccess_proofs` |
| `SupplyChain`, `WorkspaceInit` | what a workspace is set up with and what is left of it; the second extends the first, because init makes the storage | `WorkspaceInit_proofs` |
| `Settings`, `Rendering`, `Cleanup` | from what an operator writes to what terraform is told and what the sweep spares; `Cleanup` composes them: the sweep runs on the configuration `Settings` produced | `Cleanup_proofs` |
| `Absent` | the value that stands for what is not there | |

`Remotes_proofs` has the proofs of three components, each about its own
specification; they share nothing.

Each `MC...` module holds the values TLC needs and no behaviour. A definition
named `...Mutated`, or after what it gets wrong, is a plausible mistake in the
definition after it, used to see that the properties notice; no specification
uses one.

### WorkspacePhases

A **terminal** (`Procs`) runs one command at a time. A command is a queue of
**stages** (`proc[p].todo`), each of which has three steps: `enter` (guards,
plan, prompt), `run` (the terraform runs, one *leg* per phase of the stage), and
`record` (the JSON record it writes or deletes). `up` is *cluster*, then *BNK and
testing together*; `down` is *BNK and testing together*, then *transit gateway*,
then *cluster*. The stages of `down` are fixed by the presence that was detected
before the prompt, as in `RunDown`; the guard of `cluster down` is evaluated when
its stage is entered, as in `runClusterDown`, which the cluster leg of `down`
goes through as well.

| Variable | In the code |
|---|---|
| `tf[ph]` | `state-cluster/`, `state/`, `state-testing/`, `state-gateway/`, `state-flp/`, `state-tgw/`: the resources in `terraform.tfstate`, as network, cluster and the phase's own layer |
| `outputs` | `cluster-outputs.json`: absent; naming the cluster of `state-cluster/` (`own`), or one it held (`stale`); naming the cluster of the trial's `state/` (`trial`), or one it held (`lost`); naming somebody else's (`registered`) |
| `handoff` | which of `flp-outputs.json` and `tgw-outputs.json` exist |
| `cfg` | the settings of `config.yaml` that decide a branch |
| `proc` | the running command of a terminal; its `exit` is the returned error |
| `teardown` | not in the code: the operators wind the workspace down and the cloud obliges |

A terraform run creates and destroys resource by resource along their
dependencies (`Converge`), and may fail or be cancelled by its failing sibling at
any of those steps (`LegFail`, the error group of `runBNKAndTestingParallel` and
`RunDown`). Any process may be killed (`Crash`). Detection reads the local
`terraform.tfstate` (`LocalState`), so it sees nothing when the state is in s3.

What is abstracted: a phase's layer is one resource, because no decision of the
phases looks inside it. The refusals whose inputs lie outside the workspace (a
shared VPC, overlapping address prefixes, an adopted BNK, a declined prompt, a
failed look-up or plan) are `FailEntry`. Kubeconfig refresh, BNK Forge
registration and the proxy's node-port settings are left out: they change no
state the phases decide on. `plan` and `phase status` change nothing and are left
out. A retried terraform run is a leg that goes on.

`cluster register` looks a cluster up by name and records what it finds, also one
that the workspace's own `apply` created as part of the trial: the comment at
`cluster_phase.go:171` calls adopting a cluster of roksbnkctl's own the common case.
Nothing then connects the record with the state that owns the cluster. The trial is
destroyed, by `bnk down`, `down`, or an `up` or `apply` that plans it over the record
and so declares no cluster any more, while testing, gateway or proxy are deployed on
that cluster, and the record stays (`outputs = "lost"`). From there `up` succeeds over
a dead record, because it reuses any that it can read, and what is made of Kubernetes
objects on the lost cluster (`InCluster`) can neither be applied nor destroyed until
another cluster is registered. `NoOrphans`, `DependentsHaveRecord`,
`UpLeavesUsableRecord`, `TeardownCompletes` and the promise of `ClusterHosting` hold
but for this, and each says so: `lost` is the one value they except. In
`ClusterHosting` the registration and the loss are actions of their own (`HandOver`,
`Forsake`), so everything else is still promised without it.

### BnkTeardown

Four parties act on the same custom resources:

- the **drain** (`Drain`), `sweepBNKCustomResources` down to `deleteAllIn`: it
  deletes the leaves pass after pass until they have gone, then the root (the
  CNEInstance), within one deadline for both phases;
- the **sweep** (`Sweeper`), the goroutine of `runTeardownWebhookSweep`: every
  three seconds, until it is cancelled and waited for, it removes the validating
  webhook;
- the **operator** (`Operator`), external: it finalizes what is deleted, puts
  remade leaves back as new objects, and writes its webhook back;
- **terraform and the repair** (`Terraform`): `destroyWithRetry`, then
  `freeStuckBNKNamespace` and one more destroy. The resources of the destroy
  itself are external and go in the order the terraform module declares: the
  root, not waited for; the operator; the namespace, waited for. A
  `NamespaceController` works in the terminating namespace.

| Variable | In the code |
|---|---|
| `obj`, `fin` | the F5 custom resources: there, marked or gone; and who still carries an F5 finalizer |
| `webhook` | the webhook configuration, and whether its service answers. One that does not refuses every delete; one that does denies those of protected resources |
| `flo`, `ns` | the operator's release and the BNK namespace |
| `sweeper`, `cancelled` | the goroutine and its context |
| `pc` | where `RunTrialDown` is |
| `drain` | the locals of `drainPhase` and `deletePass`: `left` is what the pass has still to list, `denied`, `uid` is `deletedUID` (whether the resource is still the one whose delete was accepted), `present` to `unknown` are what the pass has seen |
| `tries`, `repaired`, `failed` | the attempts of `destroyWithRetry`, the one retry after a repair, the returned error |
| `flaky` | not in the code: whether anything beside the webhook fails, chosen at the start |
| `idle` | not in the code: polls since a resource of this phase was marked or went |

Each resource a pass visits is a step of its own, so the operator and the sweep
come between the list and the delete, the refusal and the retry, the last pass
and the final count. The order in which a pass visits is arbitrary, as the order
of the API's resource lists is. Time counts in polls of the drain; the sweep's
tick is not tied to it. `Stuck` abstracts the provider's five-minute timeout: it
fires only when nothing can move any more, because five minutes are a hundred
ticks of the sweep. "failed calling webhook" is one of the messages
`looksTransient` retries.

Left out: the second namespace of a two-namespace install (the same code drains
it after the first), the docker backend (it has no repair), the licence secrets
(they lie in the namespace), and an interrupt.

### AppliedTfvars

A var-file is a function from variables to values; a run reads a chain of them
in which the later wins, and `Chain` is that chain for every command. Every
apply that succeeds writes the snapshot of its *directory* with the secrets
redacted; the trial and the FLP phase share one, so `flp up` overwrites the
snapshot of BNK, which is why the header names the phase and the replay asks for
it. `fresh` is not in the code: it says which phases' last apply read the
var-files and got as far as the snapshot. Also here are the guards that read the
snapshot (`GuardsPass`): they refuse an `up` that would move an installed BNK to
another version. A failed apply that changed nothing is left out; a saved plan
(`plan --out`) carries the variables it was made with, but the snapshot of its
apply records the var-files as they are at that time, so such a phase is not
`fresh`.

### TerraformState

A phase has a directory, a directory has a source tree, a backend override and
what `terraform init` recorded; a state document belongs to a backend and a
phase. A command goes through `check` (migrate only: is the remote key taken),
`fetch`, `unpack`, `open` (writes the override), `init`, `apply`, phase by phase,
and may fail or die before each. One command runs at a time. The lockfile has a
variable of its own, because unpacking treats it in its own way: it is a seed, so it
is created only where none lies (`SeedLock`), filled after that (`LockSeeded`), and
never written again. A process killed between the two leaves a part of one, which
every later unpacking keeps (`fetch.go:180`), although the comment there means to leave
alone only an established workspace. `terraform init` then reads it; where it succeeds
it completes it, and where it does not the command fails, again and again.

Four things the source does shaped the statements. `WholeTree` asks for a whole
lockfile only of a directory that `init` has been through. With a local source all phases work in the
one directory the operator names, so `OwnState` is stated of the other two. A
GitHub download that was killed half-way is taken for whole the next time, while
the embedded sources are unpacked again, so `WholeTree` is stated of the
embedded and the local source. And `init -reconfigure`, which every other
command runs, before a migration leaves nothing to migrate: the resources stay
recorded in the local document, and `NothingForgotten` says no more than that.

### RegistryMirror

`record` is `registry-mirror.json`, `held` what the mirrors hold, `upstream` what
the sources hold. A replicate takes artifacts into `job.busy` (with the digest it
saw) and pushes them by tag later; in between the source may move. A record is
written at the end, also after failures, with their number. An adopt reads the
mirror at once. `GuardRegistryMirror` and `RendersTFVars` are what `bnk up` and
every teardown make of the record. A record that no longer matches a re-pointed
registry makes the rendering fail (`tf/vars.go:55`), and the rendering is the
first step of a teardown too, although `lifecycle.go:948` says that a teardown
must never be gated on the mirror; `Down` has that guard because the code does.
`registry prune` and two registry commands at once are left out.

### NodeTrust

The gate starts a DaemonSet with its run id in the template, waits for the
rollout, and then reads the verdicts of the pods until every node has spoken or
its deadline has passed. Ticks are minutes. The controller, the pods, the network
and the logs are external and free to be late; the gate may be killed and run
again over the pods of the previous run, which is what the run id is for.

A pod whose log cannot be read counts as a node that has spoken
(`node_reachability.go:270`), and `registry_trust.go:119` says "reachable from every
node" unless a log that was read refuses. `unread` is the set of those nodes when the
gate decided, and `PassedMeansReached` is about the others: a gate can pass with every
log unread. The comment at `node_reachability.go:209` calls a gate that passes blind
the very thing the collection is there to prevent. A gate that could not collect at
all ends as `unchecked`: its caller warns and goes on.

### ExecRun

One `Run` of one backend: the k8s Job with its files Secret, the exec into a
long-lived ops pod, the docker container, the ssh session, the local process.
`pc` is where Run is, `helper` its goroutine that answers the interrupt, `left`
what lies around outside the process, `owned` whether the Secret will go with its
Job, `warned` whether the user was told that it may not. Any call may fail or lose
its reply when the run is `flaky`; an interrupt and a kill come at any time. `mishap` is
not in the code: a call that made something lost its reply, one that takes something
away failed, or the process was killed. An interrupt is none of these. Of an
interrupted Job run, whether the goroutine cleans up before the process ends is a race;
a Job it did not get to takes its Secret along when it has run its course, and that is
what `NothingLeft` and `SecretAccounted` rest on. One case is left: an interrupt that
cancels `setSecretOwnerRef`, after which nothing owns the Secret and the goroutine may
not come to it either. The comment at `k8s.go:822` says that an interrupted run does
delete the Secret; the properties require only that it was warned of. The docker backend asks for the end of the container before it
starts it (`docker.go:320`), so a wait that is answered at once reports 0 of a
tool that is still to run; `ExitIsTheTools` is therefore not stated for it. Its
kill on interrupt uses the context that has just been cancelled, so its
containers are not promised to stop either (`RunReturns`).

### KubeAccess

A verb reads the candidate kubeconfigs one after the other, settles for one, may
refresh it, and hands path and context to kubectl, which reads the file again.
`files` are shared between workspaces and written by `up`, `register`, `download`,
`refresh` and `plan` of other terminals between any two of these reads. Contexts
carry the cluster's id in their name, and that is what `RightCluster` rests on. A
verb without a known cluster follows whatever context is current: the property
does not speak of it. A refresh writes the cluster of the workspace in use into
the shared forge file. The self-heal of a verb that failed is left out.

### WorkspaceInit and SupplyChain

`init` is a sequence of writes to places no two of which are written together:
the keychain, `~/.ssh`, the workspace's ssh directory, the SSH keys of a region,
the object storage, `config.yaml`, the pointer to the workspace in use. Each is an
action of its own; `Stop` ends the command anywhere and stands for errors, for ^C
and for a kill, with an empty `config.yaml` where it strikes inside `os.WriteFile`.
`SupplyChain` has the `cos` verbs and the search and creation that init does.
`init --config-file` and `init --non-interactive` (`StartSeed`), and
`--override-from-env` at the end of the interview (`Overlay`), put into the
configuration whatever a file or the environment holds (`Seeds`): names of SSH keys
(`testing_ssh_key_name`), a list of copies (`copied_ssh_key_files`), coordinates of the
object storage, the API key. Nothing of it is looked up, uploaded or copied. `given`
marks the fields that came in that way, and `taken` the names in `~/.ssh` that a
`ws delete` has gone by because such a list had them. The run has one terminal, three
commands and two workspaces. The VPC that
`pickOrCreateFLPVPC` makes and the cluster record of `registerReusedCluster` are
left out.

What the model had to follow, and a reader of the docs may not expect: a second
init builds the configuration from scratch, so it forgets what other commands
wrote into it and which key files it had copied (`CopiedSSHKeyFiles`), and a
delete then leaves them; the copy of the proxy's key is never recorded;
`ws delete` asks only whether `state/` holds anything, not the other phase
directories; the forge token has a `DeleteForgeTokenFromKeychain` that nothing
calls; the API key is saved before it is verified; `cos bucket create` has a
`--region` that nothing reads. A `ws delete` only warns when the keychain keeps the
key, or a copy stays in `~/.ssh`, and reports the workspace deleted all the same:
`held` and `kept` are what it has warned of, and `DeletedIsGone` excepts that much. And
a workspace made from another one's `config.yaml` has that one's list of copies, so
that deleting it removes the other's file, against the comment at `workspaces.go:199`
(only files it created): `OnlyOwnCopiesGo` excepts the names in `taken`, as `KeysInCloud`
and `CoordsComplete` except what is `given`.

### Settings, Rendering, Cleanup

The override table has about two hundred rows; `Settings` has one or two of each
shape that the code treats in its own way, with values the conversions tell
apart. A document is a tree or a set of variables; `config yaml` and `config env`
turn one into the other, init makes a workspace of either, with variables on top.
`wanted` is what the operator first asked for. A document that init has read is
`Served`. `Rendering` says what variables
come of a configuration and, with the defaults of the root module, what terraform
is told. A toggle is not all that terraform goes by: the registry's storage hangs on
a cluster that is made, the client VPC on a jumphost, and a gateway that is not made is
looked up only for one (`MadeFor`, `LookedUpFor`, of the terraform modules in `src/terraform`). Nor is
a name always of the prefix: a client VPC may be given one, which wins (`NameFor`).
`ToldAsAsked` compares all that with what was wanted. `cluster_absent` is told by the FLP
phase alone, in a var-file of its own (`second_phase_reuse.go:488`), so it has its
default here. `Cleanup` runs on the
saved configuration: the scan by prefix, what it protects (`Adopted`), the order
of the deletes, the emptying of the gateway while others attach networks and IBM
Cloud completes requests late. Kinds of resources are reduced to four, one per
treatment; what blocks a delete is external.

Two limits are worth knowing. A `resources:` block is either absent or complete,
as the tool writes it; of a partial block, `config env` emits
`..._CREATE=false` for every toggle it does not mention, and that reads as a
refusal. Quoting is left out (`readDotEnv` does not undo the escape of a single
quote that `config env` writes), and so are the blocks that have no variable
(advanced and TCP settings, state, targets, exec), which a conversion loses.
Four further disagreements are outside what is asserted: `cluster.existing_subnet_ids`
and the VPC of `bnk.flp.vsi` are adopted but not in `adoptedRefs`, while
`book/src/11-tearing-down.md` says every adopted path is protected; a client VPC that
was made under a given name is not found by a sweep that goes by the prefix; the prefix
`dev` also matches what the prefix `dev-2` makes; and the list of gateways is read
one page deep.

## Runs

| Run | Question | Instance | States | Result |
|---|---|---|---|---|
| `PhasesSafety` | Is anything orphaned, torn down out of order, or reported as done when it is not, and do the phases implement `ClusterHosting`? | one terminal, all 16 commands, four configurations: a created cluster with a named transit gateway, an adopted one, an adopted one whose VPC is already attached, a proxy without a cluster | 1.3 M | holds |
| `PhasesTeardown` | Can every state that failures leave be torn down, until a registered trial cluster is lost? | one terminal, 11 commands, licensing through a proxy; liveness | 59 k | holds |
| `PhasesRemoteState` | Do the no-op paths work with the s3 backend? | `up`, `down` | | they do not |
| `BnkTeardown` | Does the drain keep the order, give up on evidence only, spare a live operator's finalizers; does the command return, and succeed on what it has orphaned? | two leaves and a root; liveness | 206 k | holds |
| `Tfvars` | Does a destroy run with the variables of the apply it undoes, and does an installed BNK keep its version? | three phases, two in one directory, two versions of two lines, `--var-file` and a user file or none, host and container | 239 k | holds |
| `Mirror` | Does an install find what the record promises, does a filled mirror verify, does a delete forget? | two registries, one with a CA of its own, two manifests, an image and a chart, two digests, two workers | 2.1 M | holds |
| `NodeGate` | Does a gate that passes rest on this run's evidence, and does it end? | two nodes, two runs, two changes of the network; liveness | 114 k | holds |
| `State` | Does every phase keep to its own state, on a whole tree, and never lose the last record of a resource? | two phases, embedded sources, two resources; both backends | 1.9 M | holds |
| `Exec` | Does Run say what became of the tool, clean up, and return? | all five ways to run; liveness | 3 k | holds |
| `Kube` | Does a pinned verb reach only its own cluster, and is a stale credential the last resort? | two terminals, two workspaces, three clusters, nine verbs | 2.4 M | holds |
| `Workspace` | Are the keys and coordinates there that init writes into a configuration, and does a delete remove all of the workspace's and nothing else? | two workspaces, three commands, a machine with a keychain and one without, seeds with a key, a copy and coordinates | 2.7 M | holds |
| `Cleanup` | Is terraform told what was asked, and is nothing adopted or foreign deleted? | 6891 pairs of a written configuration and an environment, two conversions, one sweep | 355 k | holds |

`PROJECT.json` names the properties of each run; the comment above each property
says what it means and of which code.

**The disagreement.** `PhasesRemoteState` checks what comments of the code say of
`down`: that it does nothing only when there is nothing. Presence is read from a
file the s3 backend does not write. Other disagreements met while modelling are
described with their modules above, and each has a named exception in the properties it
touches: the record of a lost cluster (`WorkspacePhases`), the kept lockfile
(`TerraformState`), the logs nobody read (`NodeTrust`), the Secret without an owner
(`ExecRun`), the list of another workspace's copies (`WorkspaceInit`). These are in the
phases and the teardown: the
guard of `cluster down` looks once, before a destroy that takes long, so a second
terminal can deploy on the cluster meanwhile; the write of `cluster-outputs.json`
is best-effort, and its absence is taken for a first deployment; a registered
cluster has no terraform state, and `bnk up` looks only at those; the webhook
sweep runs before the drain, so the webhook protects nothing the drain comes to;
what was denied once is denied for the rest of the drain; the final count does
not leave out what was put back; the repair reads any error as "not found".

### Bounds

The state of `WorkspacePhases` is finite: six phases with at most three resources
each, and a queue of at most four stages. Nothing is capped. One terminal is what
the code assumes (nothing serialises two of them); the safety run uses all
commands, so every sequence of commands, of any length, with every failure on the
way, is explored. The configurations are chosen so that every branch on a setting
is taken both ways over the passing runs.

`BnkTeardown` has one leaf the operator only finalizes and one that is both put
back and protected, so every answer to a delete and every way a resource can look
in a pass occurs, and the two can disagree within a pass. `Budget = 3` polls stand
for the drain's deadline, `Grace = 1` for the refusal grace (a refused poll within
it and one beyond it, both before the deadline), `MaxAttempts = 2` for one retry.

| Bound | Why it is enough |
|---|---|
| `NodeGate`: `Budget = 3`, `CollectTime = 2`, `ReadyTime = 5` | each deadline can pass before or after each of the others; `MaxRuns = 2` gives a pod of an earlier run, `MaxFlaps = 2` a route that comes and goes |
| `State`: `MaxApplies = 2` | a resource recorded before a migration and one created after it |
| `Kube`: `MaxCommands = 2`, `MaxAges = 2` | every pair of commands; a credential that is fresh, about to expire, and expired |
| `Workspace`: `MaxPairs = 2`, `MaxRuns = 3` | a key that is made again under the same name; two commands on one workspace and one on the other between them |
| `Cleanup`: `MaxHops = 2`, `MaxSweeps = 1` | there and back between the two forms; a second sweep begins in states the first can begin in |
| `Mirror`: two artifacts, two digests, `Pool = 2` | a moved tag differs from the one seen; both kinds of artifact are in flight at once; a manifest with both and one with less |
| `Tfvars`: three phases | two that share a directory and one apart; nothing is counted |

What the safety properties of `PhasesSafety`, `BnkTeardown`, `Tfvars`, `Mirror`,
`NodeGate`, `State`, `Exec`, `Kube`, `Workspace` and `Cleanup` say does not rest on these bounds alone:
the theorems below hold for every value of them (`Workspace` for every number of
terminals only in `KeysInCloud`).

Deadlock is not checked where the model stops for a good reason: it is of one
command (`BnkTeardown`, `Exec`), or the bound on commands is used up (`NodeGate`,
`Kube`, `Workspace`, `Cleanup`). In the other runs the operator can always do
something more, and deadlock is checked.

### Fairness

**`PhasesTeardown`.** A command that runs goes on (weak fairness of `Work`):
terraform runs end and goroutines are joined. In the teardown mode, whoever runs
the commands, or the script that does it in `scripts/demos`, repeats
`gateway down`, `flp down` and `down` (strong fairness, because each is disabled
while another command runs). In that mode the cloud obliges: no failures, no
kills, no declined prompts. Nothing is assumed of the time before, so the mode can
begin in any state that any failures can leave. Without it nothing could be
promised: an API that always fails is never torn down.

**`BnkTeardown`.** Weak, of the command (it runs, and each of its waits has a
timeout), of the goroutine (its ticker ticks until it is cancelled), and of the
namespace controller (external: it retries what is left in a terminating
namespace). The operator owes nothing: it may never finalize, and may restore its
webhook as often as it likes. `TeardownReturns` holds with failures of every kind.
`OrphansAreFreed` says that a teardown succeeds once the operator has been removed;
it is stated for runs in which nothing else fails (`~flaky`), because a failing API
can fail every retry.

**`NodeGate`.** Weak, of the gate's own steps, of time, and of the pods' probes,
whose script tries a bounded number of times. The controller owes nothing: that the
gate ends although it never rolls out is what `GateEnds` says.

**`Exec`.** Weak, of Run, of its goroutine while the process lives, and of what
Kubernetes and docker promise to clear (the TTL of a Job, the collection of a
dependent, `AutoRemove`). The tool owes nothing: it may run for ever.

The other specifications are about safety and state no fairness.

## Proofs

Every theorem is about the module's specification, for every value of its
constants, unless a hypothesis is named.

| Theorem | Says |
|---|---|
| `WorkspacePhases_proofs!TypeCorrect` | `[]TypeOK`, for any number of terminals |
| `WorkspacePhases_proofs!RecordKept` | a phase that is torn down through `cluster-outputs.json` has one as long as it has state, and a usable one unless a registered trial cluster was lost (`DependentsHaveRecord`) |
| `WorkspacePhases_proofs!ClusterLast` | nothing of the cluster phase is destroyed while another phase has state (`ClusterDestroyedLast`) |
| `WorkspacePhases_proofs!GatewayFirst` | the trial's layer is not destroyed while the gateway phase has state (`GatewayDestroyedFirst`) |
| `WorkspacePhases_proofs!LayersHosted` | no layer stands on a cluster that has gone, but for a registered trial cluster that went with the trial (`NoOrphans`) |
| `WorkspacePhases_proofs!HostingImplemented` | the phases implement `ClusterHosting`, of which that loss is a step, step by step (`ImplementsHosting`) |
| `WorkspacePhases_proofs!UpRecorded` | an `up` that reports success leaves a record, usable unless it was of the trial's cluster, which that `up` destroyed (`UpLeavesUsableRecord`) |
| `WorkspacePhases_proofs!TeardownEmpties` | a teardown that reports success has left nothing in any phase, with the local backend (`TeardownSuccessMeansEmpty`) |
| `WorkspacePhases_proofs!DetachLast` | `down` detaches the transit gateway only when the trial and the testing phase have gone (`DetachAfterTrial`) |
| `BnkTeardown_proofs!TypeCorrect` | `[]TypeOK` |
| `BnkTeardown_proofs!RootWaits` | the drain deletes the root only when every leaf it may delete has gone or been put back (`RootAfterLeaves`) |
| `BnkTeardown_proofs!RepairSpares` | finalizers are cleared only when the operator that owns them is gone (`RepairOnlyOrphans`) |
| `BnkTeardown_proofs!GivesUpOnEvidence` | the drain gives up before its deadline only after a whole grace period in which nothing it waits for was marked or went (`GiveUpOnEvidence`) |
| `AppliedTfvars_proofs!DestroyReplays` | a destroy runs with the variables of the apply it undoes (`DestroyReplaysApply`) |
| `AppliedTfvars_proofs!VersionKept` | only the containerised apply puts another version of BNK in place of the installed one (`VersionFixed`) |
| `Remotes_proofs!InstallFinds` | an install the guard lets through finds its artifacts (`UpFindsArtifacts`) |
| `Remotes_proofs!FilledVerifies` | a replicate without a failure leaves a mirror that verifies (`ReplicatedVerifies`) |
| `Remotes_proofs!DeleteRemembers` | what a delete did not delete stays recorded (`NothingForgotten`) |
| `Remotes_proofs!GatePassesOnWitness` | a gate that passes had the mirror reached in this run from every node whose log it read (`PassedMeansReached`) |
| `KubeAccess_proofs!Aimed` | the variables have their types, and a command that knows its cluster goes on with a context of it (`AimInv`) |
| `KubeAccess_proofs!TalksToItsCluster` | a `k` verb or a `kubectl` of a workspace that knows its cluster talks to no other one (`RightCluster`) |
| `KubeAccess_proofs!ResolvesRight` | the resolver refuses, or settles for an expired credential, only when nothing better was there all along (`ResolverIsRight`) |
| `TerraformState_proofs!StatesApart` | a phase's state lists only what that phase made (`OwnState`), if the source is not a local directory |
| `TerraformState_proofs!TreesWhole` | terraform works on whole trees only, and applies with a whole lockfile (`WholeTree`), if the source is not a download |
| `TerraformState_proofs!RecordsStay` | no last record of a resource is dropped (`NothingForgotten`) |
| `Remotes_proofs!TypeCorrect` | `[]ExecTypeOK` |
| `Remotes_proofs!ExitReported` | 0 only of a tool that ended with 0, a code only of one that failed (`ExitIsTheTools`) |
| `Remotes_proofs!SecretOwned` | the files Secret of a finished Run, interrupted or not, goes with its Job or has been warned of, unless a call lost its reply, a delete failed or Run was killed (`SecretAccounted`) |
| `Cleanup_proofs!OwnGoesFirst` | the gateway is deleted under the workspace's own connection only after a listing failed (`OwnConnectionFirst`) |
| `Cleanup_proofs!DetachesOurs` | a sweep takes from the gateway only the connection of a VPC it deletes as well (`DetachIsOurs`) |
| `Cleanup_proofs!PathFound` | for each variable of the table, the path found by trying it is the one path it writes |
| `Cleanup_proofs!EnvWritten` | the variables written for a workspace ask for what it says, at every path that a variable carries |
| `Cleanup_proofs!ToldAsItWasAsked` | after any conversions and overrides a workspace says what was asked for, and terraform makes it under its prefix or the given name, adopts and sets that, where the toggles it hangs on let it (`ToldAsAsked`) |
| `Cleanup_proofs!AdoptedStays` | what was said to be adopted, in the file or by a variable, is never deleted (`AdoptedKept`) |
| `WorkspaceInit_proofs!KeysUploaded` | an SSH key that the interview wrote into a `config.yaml` is in its region (`KeysInCloud`), for any number of terminals |
| `WorkspaceInit_proofs!OthersKeepTheirKeys` | a command changes only its own workspace's files in `~/.ssh`, but for a delete by a list that was given (`OnlyOwnCopiesGo`) |
| `WorkspaceInit_proofs!CoordsWhenComplete` | the storage coordinates that init finds or makes are recorded of a complete supply chain only (`CoordsComplete`) |
| `WorkspaceInit_proofs!NothingIsLeft` | a `ws delete` that comes to its end has left no trace of the workspace but those it has warned of (`DeletedIsGone`) |

**Assumptions.** Each module names those on its constants, and TLC evaluates them
on every run of it. `BnkTeardown`: the root is no leaf, the grace is shorter than
the budget (45 s and 4 min in the code), there is at least one attempt.
`RegistryMirror`: the registry of the region serves no CA of its own, a manifest
lists known artifacts, of which there are finitely many. `NodeTrust`:
`TimesAssumption`, the wait for the rollout is at least two minutes longer than the
pods' budget, as `ReachabilityTimeout` sees to. `TerraformState`: the order
lists the phases. `KubeAccess`: there are finitely many clusters, among them those
of the start, and each bears the name of one workspace. `SupplyChain`, `WorkspaceInit`: the
value for nothing is no name, no region and no bucket, and the default region is one.
`Cleanup`: that value is not the status of a connection. `Settings`: nor one of the
values that the code tells apart (`AbsentAssumption`: a set value is never empty, and
`envValue` takes an empty variable for no variable); and the first document is a
`config.yaml` as the tool itself writes it (`InputsAssumption`: `SaveWorkspace` and
`config yaml` marshal a `Workspace`, whose `resources` block has every toggle or is
not there, whose fields without a value are not written, and whose zones have all
their fields). The environment may hold anything.

The theorems have two kinds of hypotheses of their own:

- `SoleTerminal`, one command at a time: all of `WorkspacePhases` but `TypeCorrect`,
  and all of `WorkspaceInit` but `KeysUploaded`. The code serialises nothing across
  processes, so it assumes as much, and some of the properties do not hold without it. In
  `WorkspacePhases` a second terminal deploys on the cluster between the guard of
  `cluster down` and its destroy. In `WorkspaceInit` two deletions of the same
  workspace, with an init of another one between them, remove the other's file from
  `~/.ssh`: the second deletion goes by a list it read before the first removed it.
- What a setting has to be. `TeardownEmpties` assumes that no configuration uses the
  s3 backend, because with it the property is false (run `PhasesRemoteState`).
  `StatesApart` and `TreesWhole` assume a kind of source.

**WorkspacePhases, types.** `TypeOK` is not inductive: a step past the entry of a
stage takes the `Head` of the queue, which must not be empty, and a terraform leg
runs only in the middle of a stage. `StagesSound` says that;
`TypeInv == TypeOK /\ StagesSound` is inductive.

**WorkspacePhases, order.** None of the three properties is inductive: that the
cluster is destroyed last depends on a guard evaluated when the stage was entered,
many steps before the destroy. `SafeInv` carries the guard's finding forward:
`LegsSound` (the legs of a terminal are those of its first stage, towards a goal
that stage may have), `ClusterDownSound` (while a cluster destroy has a leg or is
to be recorded, no other phase has state), `TrialDownSound` (while the trial is
destroyed, the gateway phase has no state), that the cluster phase never holds
more than its goal, and `DependentsHaveRecord` itself. A run has resolved its cluster
before it starts, and so keeps a record that is not stale. Because one terminal runs
one stage at a time, no action of another command can come between.

**WorkspacePhases, hosting.** `NoOrphans` rests on the order: the cluster's run is
the last. `HostInv` adds to `SafeInv` that the record names our own cluster, or the
trial's, only while it stands (`OwnIsThere`, `TrialIsThere`), that the trial is applied with a cluster of its own
or upon another (`LegHosted`), and that a terraform run of a stage that has ended
well has reached its goal (`DoneSound`), which is what lets the next stage, and the
deletion of the record after a destroy, rely on it. The refinement follows: `Stands`,
`Deployed` and `OnRecord` are what `ClusterHosting` is instantiated with, and every action
changes them as one of its actions does, or not at all. The theorem is by cases on
what a terraform run creates or destroys, because the other steps leave the map
alone.

**WorkspacePhases, what a command has reached.** `OutcomeInv` speaks of what is still
to do: while `down` or `cluster down` runs, whatever has state is in a stage of its
queue, or the queue ends with the cluster's stage, whose guard looks at all phases
again (`TeardownSound`); before the detachment of `down` comes the stage of what is
attached (`DetachSound`); `up` has its record or still has the testing phase to
bring up, which insists on one (`UpSound`). `SuccessSound` is what is left of these
when the queue is empty, and stays true because no other command runs.

**BnkTeardown, root after leaves.** When the root is deleted, the evidence that the
leaves had gone lies one whole phase back, collected resource by resource while
the operator kept changing them. `DrainInv` carries it, as long as the namespace is
active: `MemorySound` (what was denied is protected; what is remembered as deleted
is not live, or a new object in its place that is put back), `RetrySound` (a delete
is retried on the live resource that was refused), `PassSound` (as long as a pass
has found nothing to wait for and has failed to list nothing, every leaf it has
visited is settled), `RootPhaseSound` (in the root phase all unprotected leaves are
settled). Settled is stable: only what is put back comes to life again, and the
drain touches no leaf in the root phase.

**BnkTeardown, giving up.** The counter of refused passes says what a pass saw, each
resource at another moment; the property speaks of all of the time in between.
`EvidenceInv` closes the gap. As long as a pass is `Untouched` (no delete accepted, no
mark found, no list failed), none of the resources it has visited waits for its
finalizers (`NoneWaits`); so after a stalled pass none at all does, and then none can
go, for the operator finalizes only what waits: `idle` keeps up with the counter
(`LongStalled`). A drain that ends because it has found nothing has found nothing
there, but for what is put back or protected (`NoneLeft`).

**BnkTeardown, repair.** `OperatorInv` says that the operator is gone whenever
terraform has got as far as the namespace, and from then on. `freeStuckBNKNamespace`
looks only at whether the namespace is Terminating, and this is why that is enough.

**AppliedTfvars.** `TfvarsInv`: the snapshots set known variables only
(`SnapshotsKnown`), what is deployed is a whole assignment with the secret as it is
rendered (`DeployedWhole`), the snapshot of a phase that is `fresh` is its redaction
(`SnapshotsTell`), and a reviewed plan agrees with an installed BNK in the version
(`PlanAgrees`), for an apply in between would have made it stale. That a replay
restores the assignment is then a fact about the chain of var-files (`ReplayFacts`):
the snapshot comes after `terraform.tfvars.user`, and what it lacks, the secret, the
rendering has. `Over` says what `@@` says; it is written out because the
provers do not know `@@`.

**RegistryMirror.** `UpFindsArtifacts` looks at the record long after the copies.
`RecordHolds` says what a complete record means for the mirror, and
`ReplicateSound` carries it there: every artifact of the manifest is in exactly one
of `todo`, `busy` and `got` (`Placed`), and what was got is held, under the digest
that was recorded unless its source moved (`GotSound`). `DeleteSound` is the same
for a delete: what it did not fail on is gone. That zero failures means no failed
artifact is where the finiteness of `Artifacts` is used.

**NodeTrust.** `InOrder` says that no pod is ahead of what the controller has seen,
nor that of the command: a new run id is then above every pod's, so a pod of this
run exists only after the rollout, and its verdict is a witness (`Witnessed`). The
decision needs one of every node but those in `unread`.

**KubeAccess.** Between the choice of a context and its use, another terminal may have
replaced the file. `AimInv` is about the command alone (`CmdAims`): the context it
holds, and the one it keeps for want of a better, are of its own cluster, and a
`kubectl` or `k` verb does not get past the resolver without one. What the file has
become by then decides whether the tool gets an answer, not from whom. `ResolverIsRight`
compares the end of a resolution with all of the time before it. `WatchInv` has the
evidence: a candidate that has been read is no longer among those that had a live
credential all along, for it would have been taken, nor, as long as no expired one is
kept, among those that addressed the cluster all along. When the last candidate has
been read, nothing is left to watch.

**TerraformState.** `OwnInv` ties the chain together: the override of a directory
names its own phase, `.terraform` names what the override named when it was last
set up, and a command is `ready` only for directories set up for its own phase.
`TreeInv` says that the tree of a phase that is `ready` is whole, or being unpacked
again by the same command for the phase that shares it, and its lockfile whole, for it
has been through `init` and no unpacking takes one away. `RecordInv` says that a
migration under way has found its own phase's key free, unless it is forced, and
that a document nobody stored lists nothing: so what is overwritten was nobody's
last record.

**ExecRun.** `ResultSound` says that what Run is about to return already is what
became of the tool, while it tidies up; `SecretSound` that until the Secret has its
owner or has been warned of, Run has a step left that sees to it.

**Settings.** What a list of overrides comes to is computed row by row
(`Overridden`). The library states induction for formulas, which cannot be
instantiated here; `NatSetInduction` states it for a set of naturals, from the
well-foundedness of `<`, and with it `PassesExist` and `OverriddenIs` justify the
recursive definition, and `PassedAll` says what the passes leave at each path: the
value of the last row that sets it, or what the workspace had, once the resources
have been opened. This needs four facts of the table (`Table` and the lemmas after
it), each read off the 24 rows: no variable has two rows, no path has two that are
not secrets, a row that adopts comes before the toggle it switches, and no other row
touches two paths but those that open the proxy's block. `OverrideAt` compares the result with
`Asked`, which looks at the whole list at once. `PathFound` follows from what two
tries with one variable differ in, and `ZonesFound` is the same for zones;
`EnvWritten` puts the two together. `SettingsInv` is the invariant: a document, in
whichever form, means what was asked for at the paths that its form carries
(`YamlSays`, `EnvSays`), and a workspace says it (`SavedSays`). It needs more than
that to be inductive: that the toggles are there together, that a setting of the
proxy is in its block, that values are as their rows store them, so that a value
survives being written as a variable and read again, and that the cluster has been
decided on.

**Rendering.** Each part of the file speaks of variables of its own (`PartsAre`), so the
file says of each what its part does (`FileTold`) and terraform takes its default for the
rest (`WithDefault`). `ClusterPlanned` to `PodsPlanned` go through the kinds of
resources: what `Makes` and `LooksUp` get is what the workspace says, and by
`SettingsInv` what was asked for. A variable that is left out counts here as much as
one that is told: a toggle that another kind hangs on may be told or at its default
(`TogglesPlanned`, `TogglesDecided`, `Unsaid`).

**Cleanup.** `SweepInv`: a sweep runs on a saved configuration, and a workspace is saved
once (by `SettingsInv`), so what is spared does not change under it (`Begun`); it is at
the gateway because it deletes it (`AtGateway`). What is detached was chosen from an
older list than what is there now, so `OwnListed` and `DetachOurs` tie the two: no
connection of the workspace appears after the listing, and the list was acted on only
when it had nothing foreign (`PartitionIs`), which leaves the connections of VPCs that
are being deleted. `AdoptedStays` joins both invariants: the sweep takes nothing that
the saved configuration spares (`TakesNoSpared`), and that configuration says what was
asked for at the keys that adopt a resource, because a conversion carries those
(`KeysAre`).

**WorkspaceInit, keys.** The name of a key goes into the configuration in memory with
the answer, is uploaded region by region, and reaches `config.yaml` at the end;
`KeyInv` has the promise in all three places. What the command carries is in the
cloud, or the command is still at that key with the region on its list (`CmdKeys`),
and no step after that takes a key out of a region. What a file or the environment
gives is marked, and no step takes the mark off without taking the field (`Overlaid`).

**WorkspaceInit, deletion and storage.** `WorkInv`: a recorded copy in `~/.ssh` is the
workspace's unless the list was given or a given list was gone by for that name
(`CopiesOurs`, `CmdCopies`), which is why a deletion by name is safe else; a deletion
removes in order, and what it removed is not put back, while what it could not remove
it has warned of (`CmdDeletes`); a command that carries coordinates carries those of a
complete bucket or given ones, and has none before it has asked (`CmdCoords`). `With` stands for an update by `@@`, like `Over`.

**Only model-checked:** the six liveness properties (`TeardownCompletes`,
`TeardownReturns`, `OrphansAreFreed`, `GateEnds`, `NothingLeft`, `RunReturns`): liveness
under fairness and ENABLED are out of the prover's reach here. Every safety property
and every action property of a passing run is stated by a theorem above.

## Not modelled

- *Requests to services that keep the state themselves*: the IBM Cloud clients, BNK
  Forge, the kubernetes verbs, the tfx helper verbs. Their answers are the
  environment of the other modules.
- *Programs without state of their own*: the tests of a deployment, the license
  proxy's status page, doctor, prompts, exit codes, the redaction of streamed
  output.
- *File I/O*: the replacement of the running binary, the installation.
- *The admission sweep before an apply*: one best-effort call; the same deletion,
  where it races an operator, is in `BnkTeardown`.
- *Version ordering, the support matrix, the tuning of pods*: tables and formatting.
- *Ssh host keys and authentication*.
- Within the modelled parts, what each section above names as left out.

## Plan

What would come next, most important first:

1. The second namespace of a two-namespace install in `BnkTeardown`.
2. Which cluster a layer was deployed on, in `WorkspacePhases`: `cluster register`
   over a deployed workspace re-points the next plan of every phase. Of this hazard
   only the trial's own cluster is modelled.
3. Two registry commands at once, and `registry prune`.
4. The rest of the override table, row by row, with the lists and pointers of
   `envoverride.go` that have a treatment of their own; the proofs rest on the four
   facts of the table named above and would follow it.
