--------------------------- MODULE TerraformState ---------------------------
(***************************************************************************)
(* Where a workspace's terraform state lives and how a command gets to it: *)
(* the source tree is fetched into a working directory, an override file   *)
(* there pins the backend, terraform init records it, and every plan,      *)
(* apply and destroy goes to the state document the directory was last     *)
(* initialised for.  The backend is a setting of the workspace (local      *)
(* files, or one object per phase in a bucket) that state s3, state local, *)
(* state migrate and a second init change underneath the deployed phases.  *)
(*                                                                         *)
(* One command runs at a time; a command may fail or die before any step.  *)
(***************************************************************************)
EXTENDS Naturals, Sequences, SequencesExt, Absent

CONSTANTS
    Phases,      \* the phases of the workspace
    Order,       \* the order in which a command visits them, a sequence
    Trial,       \* the phase whose state lies in state/ (bnk)
    Source,      \* tf_source.type: "embedded", "github" or "local"
    MaxApplies   \* bound: resources ever created

ASSUME PhasesAssumption == Order \in Seq(Phases) /\ Range(Order) = Phases /\ Trial \in Phases
ASSUME SourceAssumption == Source \in {"embedded", "github", "local"}
ASSUME MaxAppliesAssumption == MaxApplies \in Nat

VARIABLES
    present,      \* the workspace has a config.yaml
    backend,      \* its state.backend
    tree,         \* per directory: the terraform sources in it, the lockfile aside
    lock,         \* per directory: its .terraform.lock.hcl
    override,     \* per directory: the state its backend override names
    initialised,  \* per directory: the state its .terraform was set up for
    doc,          \* per state: the resources it lists
    stored,       \* the states that exist as a file or an object
    cloud,        \* the resources that exist
    made,         \* resources created so far
    run           \* the command under way

statevars == <<present, backend, tree, lock, override, initialised, doc, stored, cloud, made, run>>

Backends == {"local", "s3"}
States == Backends \X Phases                        \* a file, or an object in the bucket
Dirs == Phases \union {"shared"}
Resources == Phases \X (1..MaxApplies)              \* the n-th resource, created for a phase

\* Mutation: one directory for all phases.
DirShared(p) == "shared"

\* A local source is used where it lies, by every phase; the others are
\* unpacked below the phase's own state directory.
Dir(p) == IF Source = "local" THEN "shared" ELSE p

Nowhere == <<None, None>>
Deployed(p) == doc[<<"local", p>>] # {}          \* DetectPresence reads the local file

Idle == [cmd |-> "none", todo |-> <<>>, step |-> "none", ready |-> {}, backend |-> "local", force |-> FALSE]

StateInit ==
    /\ present = TRUE
    /\ backend \in Backends
    /\ tree = [d \in Dirs |-> IF Source = "local" THEN "whole" ELSE None]
    /\ lock = [d \in Dirs |-> None]
    /\ override = [d \in Dirs |-> Nowhere]
    /\ initialised = [d \in Dirs |-> Nowhere]
    /\ doc = [s \in States |-> {}]
    /\ stored = {}
    /\ cloud = {}
    /\ made = 0
    /\ run = Idle

-----------------------------------------------------------------------------
(* Commands begin *)

Start(cmd, phases, step, force) ==
    /\ present /\ run.cmd = "none" /\ phases # <<>>
    /\ run' = [cmd |-> cmd, todo |-> phases, step |-> step, ready |-> {}, backend |-> backend, force |-> force]
    /\ UNCHANGED <<present, backend, tree, lock, override, initialised, doc, stored, cloud, made>>

StartPlan(p) == Start("plan", <<p>>, "fetch", FALSE)

\* One phase, or all of them: planned one after the other, applied together.
StartUp(phases) == Start("up", phases, "fetch", FALSE)

StartDown(p) == Deployed(p) /\ Start("down", <<p>>, "fetch", FALSE)

StartMigrate(force) ==
    /\ backend = "s3" /\ \E p \in Phases : Deployed(p)
    /\ Start("migrate", Order, "check", force)

-----------------------------------------------------------------------------
(* A leg: the phase at the head of todo gets its directory *)

Leg(step) == run.step = step /\ run.todo # <<>>

\* The next phase of the command, or the stage after the last one.
Advance ==
    run' = LET rest == Tail(run.todo)
               ready == run.ready \union {Head(run.todo)}
           IN  CASE rest # <<>> /\ run.cmd = "migrate"
                                        -> [run EXCEPT !.todo = rest, !.step = "check"]
                 [] rest # <<>> /\ run.cmd # "migrate"
                                        -> [run EXCEPT !.todo = rest, !.step = "fetch", !.ready = ready]
                 [] rest = <<>> /\ run.cmd \in {"up", "down"}
                                        -> [run EXCEPT !.todo = rest, !.step = "apply", !.ready = ready]
                 [] OTHER               -> Idle

\* Mutation: an embedded tree that is there is not unpacked again.
ReusedOnceThere(d) == Source = "local" \/ tree[d] # None

\* A downloaded release is fetched once, the embedded tree on every run.
Reused(d) == Source = "local" \/ (Source = "github" /\ tree[d] # None)

Fetch ==
    /\ Leg("fetch")
    /\ LET d == Dir(Head(run.todo)) IN
         IF Reused(d)
           THEN run' = [run EXCEPT !.step = "open"] /\ UNCHANGED tree
           ELSE run' = [run EXCEPT !.step = "unpack"] /\ tree' = [tree EXCEPT ![d] = "partial"]
    /\ UNCHANGED <<present, backend, lock, override, initialised, doc, stored, cloud, made>>

\* The embedded lockfile is a seed: it is created where none lies and written after
\* that; one that is there stays as it is, whoever left it and however much of it.
SeedLock ==
    /\ Leg("unpack") /\ Source = "embedded"
    /\ LET d == Dir(Head(run.todo)) IN lock[d] = None /\ lock' = [lock EXCEPT ![d] = "part"]
    /\ run' = [run EXCEPT !.step = "seed"]
    /\ UNCHANGED <<present, backend, tree, override, initialised, doc, stored, cloud, made>>

LockSeeded ==
    /\ Leg("seed")
    /\ lock' = [lock EXCEPT ![Dir(Head(run.todo))] = "whole"]
    /\ run' = [run EXCEPT !.step = "unpack"]
    /\ UNCHANGED <<present, backend, tree, override, initialised, doc, stored, cloud, made>>

Unpacked ==
    /\ Leg("unpack")
    /\ Source = "embedded" => lock[Dir(Head(run.todo))] # None
    /\ tree' = [tree EXCEPT ![Dir(Head(run.todo))] = "whole"]
    /\ run' = [run EXCEPT !.step = "open"]
    /\ UNCHANGED <<present, backend, lock, override, initialised, doc, stored, cloud, made>>

\* An archive that cannot be read is removed again; a failed write is not.
UnpackFails ==
    /\ Leg("unpack") \/ Leg("seed")
    /\ LET d == Dir(Head(run.todo)) IN
         IF Source = "github"
           THEN tree' = [tree EXCEPT ![d] = None] /\ lock' = [lock EXCEPT ![d] = None]
           ELSE UNCHANGED <<tree, lock>>
    /\ run' = Idle
    /\ UNCHANGED <<present, backend, override, initialised, doc, stored, cloud, made>>

Open ==
    /\ Leg("open")
    /\ override' = [override EXCEPT ![Dir(Head(run.todo))] = <<run.backend, Head(run.todo)>>]
    /\ run' = [run EXCEPT !.step = "init"]
    /\ UNCHANGED <<present, backend, tree, lock, initialised, doc, stored, cloud, made>>

\* terraform init -reconfigure forgets what the directory was set up for.  It leaves a
\* lockfile of every provider: what a partial one lacks it adds, or it refuses (Fail).
Init ==
    /\ Leg("init") /\ run.cmd # "migrate"
    /\ LET d == Dir(Head(run.todo)) IN
         initialised' = [initialised EXCEPT ![d] = override[d]] /\ lock' = [lock EXCEPT ![d] = "whole"]
    /\ Advance
    /\ UNCHANGED <<present, backend, tree, override, doc, stored, cloud, made>>

\* A refused or failing init, plan or download, Ctrl-C, or the process dies.
Fail ==
    /\ run.cmd # "none"
    /\ run' = Idle
    /\ UNCHANGED <<present, backend, tree, lock, override, initialised, doc, stored, cloud, made>>

-----------------------------------------------------------------------------
(* Terraform works on the state its directory is set up for *)

Ready(p) == run.step = "apply" /\ p \in run.ready

Done(p) == run' = IF run.ready = {p} THEN Idle ELSE [run EXCEPT !.ready = @ \ {p}]

\* The configuration of a phase declares one resource: what the state lists
\* beyond it is destroyed, and it is created unless the state lists it.
Apply(p) ==
    /\ run.cmd = "up" /\ Ready(p)
    /\ LET s == initialised[Dir(p)]
           kept == {r \in doc[s] \intersect cloud : r[1] = p}
           new == IF kept = {} THEN {<<p, made + 1>>} ELSE {}
       IN  /\ made + 1 <= MaxApplies \/ new = {}
           /\ made' = IF new = {} THEN made ELSE made + 1
           /\ cloud' = (cloud \ (doc[s] \ kept)) \union new
           /\ doc' = [doc EXCEPT ![s] = kept \union new]
           /\ stored' = stored \union {s}
    /\ Done(p)
    /\ UNCHANGED <<present, backend, tree, lock, override, initialised>>

Destroy(p) ==
    /\ run.cmd = "down" /\ Ready(p)
    /\ LET s == initialised[Dir(p)] IN
         /\ cloud' = cloud \ doc[s]
         /\ doc' = [doc EXCEPT ![s] = {}]
         /\ stored' = stored \union {s}
    /\ Done(p)
    /\ UNCHANGED <<present, backend, tree, lock, override, initialised, made>>

-----------------------------------------------------------------------------
(* state migrate *)

Occupied(p) == <<"s3", p>> \in stored

\* Mutation: a key that cannot be read is taken for a free one.
CheckAnyError ==
    /\ Leg("check")
    /\ LET p == Head(run.todo) IN
         \/ (~Deployed(p) \/ Occupied(p)) /\ Advance
         \/ Deployed(p) /\ run' = [run EXCEPT !.step = "fetch"]
    /\ UNCHANGED <<present, backend, tree, lock, override, initialised, doc, stored, cloud, made>>

\* What is not deployed is passed over; then HEAD on the phase's key, unless forced:
\* occupied and unreadable keys are passed over as well.
Check ==
    /\ Leg("check")
    /\ LET p == Head(run.todo) IN
         \/ (~Deployed(p) \/ (~run.force /\ Occupied(p))) /\ Advance
         \/ Deployed(p) /\ (run.force \/ ~Occupied(p)) /\ run' = [run EXCEPT !.step = "fetch"]
         \/ Deployed(p) /\ ~run.force /\ Advance              \* the request fails
    /\ UNCHANGED <<present, backend, tree, lock, override, initialised, doc, stored, cloud, made>>

\* terraform init -migrate-state copies from the state the directory was set
\* up for; a directory that already names the new one has nothing to copy.
Migrate ==
    /\ Leg("init") /\ run.cmd = "migrate"
    /\ LET d == Dir(Head(run.todo))
           from == initialised[d]
       IN  /\ IF from \in {Nowhere, override[d]}
                THEN UNCHANGED <<doc, stored>>
                ELSE doc' = [doc EXCEPT ![override[d]] = doc[from]] /\ stored' = stored \union {override[d]}
           /\ initialised' = [initialised EXCEPT ![d] = override[d]]
           /\ lock' = [lock EXCEPT ![d] = "whole"]
    /\ Advance
    /\ UNCHANGED <<present, backend, tree, override, cloud, made>>

MigrateFails ==
    /\ run.cmd = "migrate" /\ run.step \in {"open", "init"}
    /\ Advance
    /\ UNCHANGED <<present, backend, tree, lock, override, initialised, doc, stored, cloud, made>>

-----------------------------------------------------------------------------
(* The workspace's own file *)

Edit(b) ==
    /\ run.cmd = "none"
    /\ backend' = b
    /\ UNCHANGED <<tree, lock, override, initialised, doc, stored, cloud, made, run>>

StateS3 == present /\ Edit("s3") /\ UNCHANGED present
StateLocal == present /\ Edit("local") /\ UNCHANGED present

\* init builds the file from its questions alone, over whatever was there.
Reinit == Edit("local") /\ present' = TRUE

\* ws delete: the whole directory goes, state files and trees with it.
Delete ==
    /\ present /\ run.cmd = "none" /\ ~Deployed(Trial)
    /\ present' = FALSE
    /\ tree' = [d \in Dirs |-> IF Source = "local" THEN tree[d] ELSE None]
    /\ lock' = [d \in Dirs |-> IF Source = "local" THEN lock[d] ELSE None]
    /\ override' = [d \in Dirs |-> IF Source = "local" THEN override[d] ELSE Nowhere]
    /\ initialised' = [d \in Dirs |-> IF Source = "local" THEN initialised[d] ELSE Nowhere]
    /\ doc' = [s \in States |-> IF s[1] = "local" THEN {} ELSE doc[s]]
    /\ stored' = {s \in stored : s[1] = "s3"}
    /\ UNCHANGED <<backend, cloud, made, run>>

StateNext ==
    \/ \E p \in Phases : StartPlan(p) \/ StartUp(<<p>>) \/ StartDown(p) \/ Apply(p) \/ Destroy(p)
    \/ StartUp(Order)
    \/ \E force \in BOOLEAN : StartMigrate(force)
    \/ Fetch \/ SeedLock \/ LockSeeded \/ Unpacked \/ UnpackFails \/ Open \/ Init \/ Check \/ Migrate \/ MigrateFails \/ Fail
    \/ StateS3 \/ StateLocal \/ Reinit \/ Delete

StateSpec == StateInit /\ [][StateNext]_statevars

-----------------------------------------------------------------------------
(* Properties *)

(* A phase's state lists only what that phase created, whatever commands  *)
(* ran, failed and were repeated on whichever backend: the directory a    *)
(* phase applies in is never set up for another phase's state.            *)
OwnState == \A s \in States : \A r \in doc[s] : r[1] = s[2]

(* Terraform never plans or applies on half a source tree, although a run *)
(* may be killed while it unpacks one.  One file is exempt: a lockfile    *)
(* that a killed run left half written is kept by every later unpacking,  *)
(* and terraform init meets it as it lies; where init succeeds, what is   *)
(* applied has a whole one.                                               *)
WholeTree == run.step \in {"open", "init", "apply"} =>
    /\ run.todo # <<>> => tree[Dir(Head(run.todo))] = "whole"
    /\ \A p \in run.ready : tree[Dir(p)] = "whole" /\ lock[Dir(p)] = "whole"

Tracked(r) == \E s \in States : r \in doc[s]

(* Switching the backend to and fro, migrating, failing half way and      *)
(* migrating again never drops the last record of a resource that exists; *)
(* only a forced migration or the deletion of the workspace can.          *)
NothingForgotten == [][
    \A r \in cloud : (Tracked(r) /\ r \in cloud') => (Tracked(r)' \/ run.force \/ ~present')]_statevars
=============================================================================
