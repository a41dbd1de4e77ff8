---------------------------- MODULE KubeAccess ----------------------------
(***************************************************************************)
(* Which cluster a command talks to, and with which credential.            *)
(*                                                                         *)
(* The kubeconfigs lie in files several workspaces share (the default one, *)
(* the forge one) and in files terraform leaves under a workspace.  A verb *)
(* reads them one after the other to find its cluster, may refresh the     *)
(* forge file, and then hands path and context to kubectl, which reads the *)
(* file again.  Other terminals write these files meanwhile, credentials   *)
(* expire, clusters are destroyed and built again under another id.        *)
(***************************************************************************)
EXTENDS FiniteSets, Naturals, Sequences, SequencesExt, Absent

CONSTANTS
  Workspaces, Clusters, Terminals,
  First,        \* the clusters that may be there at the start
  Owner,        \* cluster -> the workspace whose cluster.name it bears
  Verbs,        \* of those below, the ones that are run
  MaxCommands,  \* bound: how many commands are run
  MaxAges       \* bound: how often a credential comes closer to its expiry

ASSUME OwnerAssumption == Owner \in [Clusters -> Workspaces]
ASSUME ClustersAssumption == IsFiniteSet(Clusters) /\ First \subseteq Clusters
ASSUME BoundsAssumption == {MaxCommands, MaxAges} \subseteq Nat
ASSUME VerbsAssumption ==
  Verbs \subseteq {"k", "kubectl", "exec", "shell", "kubeconfig", "refresh", "download",
                   "up", "down", "plan"}

VARIABLES
  status,   \* cluster -> it has yet to be created, is up, is gone
  state,    \* workspace -> the cluster in its terraform state
  record,   \* workspace -> cluster_id in cluster-outputs.json
  files,    \* path -> the kubeconfig there
  term,     \* terminal -> the command that runs in it
  left,     \* what remains of the bounds
  watch     \* not in the code: what every candidate has been throughout a
            \* resolution

kubeVars == <<status, state, record, files, term, left, watch>>

-----------------------------------------------------------------------------
(* Kubeconfigs.                                                            *)

Forge   == <<"forge">>
Default == <<"default">>
OwnFile(c) == <<"own", c>>
Path    == {Forge, Default} \cup {OwnFile(c) : c \in Clusters}

\* A context is named after the cluster id or after the API host and port; both
\* are those of one cluster.
NoContext == <<>>

\* No file, and a file that is being written.
Blank == [usable |-> {}, decoys |-> {}, current |-> NoContext,
          class |-> "unknown", expiry |-> "past"]

\* What IBM hands out: the context with the id has no user, or it has one.
Raw(c, class) ==
  { [usable |-> {<<"host", c>>}, decoys |-> {<<"id", c>>}, current |-> <<"host", c>>,
     class |-> class, expiry |-> "far"],
    [usable |-> {<<"id", c>>}, decoys |-> {}, current |-> <<"id", c>>,
     class |-> class, expiry |-> "far"] }

\* BuildCertKubeconfig: one context, named as the first cluster entry.
Built(c) == [usable |-> {<<"id", c>>}, decoys |-> {}, current |-> <<"id", c>>,
             class |-> "cert", expiry |-> "far"]

\* What an earlier release wrote: BuildTokenKubeconfig.
Token(c) == [Built(c) EXCEPT !.class = "token"]

\* What the operator has put together of several.
Merged(cs, c) == [Built(c) EXCEPT !.usable = {"id"} \X cs]

\* contextForCluster: the contexts of a file that reach the cluster with a user.
Usable(kc, id) == {x \in kc.usable : x[2] = id}

\* ... of which the file's current one is preferred.
ContextsFor(kc, id) ==
  IF kc.current \in Usable(kc, id) THEN {kc.current} ELSE Usable(kc, id)

\* credentialLive; the last minute of a credential counts as past.
Live(kc) == kc.expiry # "past"

\* kubeconfigCandidates.
Candidates == [w \in Workspaces |->
  SetToSeq({OwnFile(c) : c \in {d \in Clusters : Owner[d] = w}}) \o <<Forge, Default>>]

-----------------------------------------------------------------------------
(* Commands.                                                               *)

NoTarget == [path |-> <<>>, ctx |-> NoContext]
Idle == [verb |-> None, ws |-> None, pc |-> "idle", id |-> None, todo |-> <<>>,
         tgt |-> NoTarget, stale |-> NoTarget, data |-> Blank, hit |-> <<>>]
NoWatch == [addressed |-> {}, live |-> {}]

Ended  == {"idle", "done", "refused"}
Pinned == {"k", "kubectl", "exec", "shell"}
Gated  == {"kubectl", "shell"}           \* pinLocalKubeconfig with refresh

At(t, pc)   == term[t].pc = pc
Go(t, next) == term' = [term EXCEPT ![t] = next]
To(t, pc)   == Go(t, [term[t] EXCEPT !.pc = pc])
W(t)        == term[t].ws
Finished(t) == [Idle EXCEPT !.pc = "done", !.verb = term[t].verb]

FirstStep(v) ==
  CASE v \in Pinned -> "read"
    [] v \in {"kubeconfig", "refresh"} -> "gate"
    [] v = "download" -> "fetch"
    [] v = "up" -> "create"
    [] v = "down" -> "destroy"
    [] v = "plan" -> "plan"

Begin(t, v, w) ==
  LET id == IF v \in Pinned THEN record[w] ELSE None
  IN /\ term[t].pc \in Ended /\ left.commands > 0
     /\ Go(t, [Idle EXCEPT !.verb = v, !.ws = w, !.pc = FirstStep(v), !.id = id,
                           !.todo = IF id = None THEN <<>> ELSE Candidates[w]])
     /\ left' = [left EXCEPT !.commands = @ - 1]
     /\ UNCHANGED <<status, state, record, files>>

-----------------------------------------------------------------------------
(* workspaceKubeTarget.                                                    *)

Resolved(t) == IF term[t].verb \in Gated THEN "gate" ELSE "run"

\* Mutation: the first candidate that addresses the cluster will do (issue 281).
ReadFirst(t) ==
  /\ At(t, "read") /\ term[t].todo # <<>>
  /\ LET f  == Head(term[t].todo)
         xs == ContextsFor(files[f], term[t].id)
         on == [term[t] EXCEPT !.todo = Tail(@)]
     IN IF xs = {} THEN Go(t, on)
        ELSE \E x \in xs : Go(t, [on EXCEPT !.tgt = [path |-> f, ctx |-> x],
                                            !.pc = Resolved(t)])
  /\ UNCHANGED <<status, state, record, files, left>>

\* The next candidate: taken when it is live, remembered when it only addresses
\* the cluster.
Read(t) ==
  /\ At(t, "read") /\ term[t].todo # <<>>
  /\ LET f  == Head(term[t].todo)
         xs == ContextsFor(files[f], term[t].id)
         on == [term[t] EXCEPT !.todo = Tail(@)]
     IN IF xs = {} THEN Go(t, on)
        ELSE \E x \in xs :
               LET found == [path |-> f, ctx |-> x]
               IN Go(t, IF Live(files[f])
                        THEN [on EXCEPT !.tgt = found, !.stale = NoTarget,
                                        !.pc = Resolved(t)]
                        ELSE IF term[t].stale = NoTarget THEN [on EXCEPT !.stale = found]
                        ELSE on)
  /\ UNCHANGED <<status, state, record, files, left>>

\* All have been read: the expired one is better than none, none is an error;
\* a workspace whose cluster is unknown takes what there is.
ReadAll(t) ==
  /\ At(t, "read") /\ term[t].todo = <<>>
  /\ Go(t, [term[t] EXCEPT !.tgt = term[t].stale,
       !.pc = IF term[t].id # None /\ term[t].stale = NoTarget THEN "refused" ELSE Resolved(t)])
  /\ UNCHANGED <<status, state, record, files, left>>

-----------------------------------------------------------------------------
(* EnsureFreshKubeconfig.                                                  *)

\* What pinLocalKubeconfig makes of its answer: a pin stays, a fresh forge file
\* replaces the default one.
Settled(t, fresh) ==
  [term[t] EXCEPT !.pc = "run", !.data = Blank,
     !.tgt = IF @ # NoTarget THEN @
             ELSE [path |-> IF fresh THEN Forge ELSE Default, ctx |-> NoContext]]

Gate(t) ==
  /\ At(t, "gate")
  /\ Go(t, CASE files[Forge] = Blank -> Settled(t, FALSE)
             [] files[Forge].expiry = "far" /\ term[t].verb # "refresh" -> Settled(t, TRUE)
             [] OTHER -> [term[t] EXCEPT !.pc = "refresh", !.data = files[Forge]])
  /\ UNCHANGED <<status, state, record, files, left>>

\* A name is not unique in an account; ClusterFromTFOutput has an id once the
\* BNK phase has been applied.
Identities(w) == ({state[w]} \ {None}) \cup {c \in Clusters : status[c] = "up" /\ Owner[c] = w}

\* refreshKubeconfig: a new token in what was read, or the admin kubeconfig of the
\* workspace's cluster as IBM hands it out.
Refresh(t) ==
  /\ At(t, "refresh")
  /\ \E c \in Identities(W(t)) :
       \/ term[t].data.class = "token"
            /\ files' = [files EXCEPT ![Forge] = [term[t].data EXCEPT !.expiry = "far"]]
       \/ term[t].data.class = "cert" /\ status[c] = "up"
            /\ \E kc \in Raw(c, "cert") : files' = [files EXCEPT ![Forge] = kc]
  /\ Go(t, Settled(t, TRUE))
  /\ UNCHANGED <<status, state, record, left>>

\* No client, no cluster, no answer: what was read is used while it lasts.
RefreshFails(t) ==
  /\ At(t, "refresh") /\ Go(t, Settled(t, Live(term[t].data)))
  /\ UNCHANGED <<status, state, record, files, left>>

-----------------------------------------------------------------------------
(* The tool.                                                               *)

\* The cluster it talks to and whether it presents a credential.
Hit(kc, x) == IF x \in kc.usable \cup kc.decoys THEN <<x[2], x \in kc.usable>> ELSE <<>>

\* Mutation: the verb drops the context it resolved.
RunCurrent(t) ==
  /\ At(t, "run")
  /\ LET path == IF term[t].tgt.path = <<>> THEN Default ELSE term[t].tgt.path
     IN Go(t, [Idle EXCEPT !.pc = "done", !.verb = term[t].verb, !.id = term[t].id,
                 !.tgt = IF term[t].verb = "shell" THEN term[t].tgt ELSE NoTarget,
                 !.hit = Hit(files[path], files[path].current)])
  /\ UNCHANGED <<status, state, record, files, left>>

Run(t) ==
  /\ At(t, "run")
  /\ LET path == IF term[t].tgt.path = <<>> THEN Default ELSE term[t].tgt.path
         ctx  == IF term[t].verb \in {"k", "kubectl"} THEN term[t].tgt.ctx ELSE NoContext
         kc   == files[path]
     IN Go(t, [Idle EXCEPT !.pc = "done", !.verb = term[t].verb, !.id = term[t].id,
                 !.tgt = IF term[t].verb = "shell" THEN term[t].tgt ELSE NoTarget,
                 !.hit = Hit(kc, IF ctx = NoContext THEN kc.current ELSE ctx)])
  /\ UNCHANGED <<status, state, record, files, left>>

\* The next command of an interactive shell.
Again(t) ==
  /\ At(t, "done") /\ term[t].verb = "shell" /\ To(t, "run")
  /\ UNCHANGED <<status, state, record, files, left>>

\* A process that only reads leaves nothing behind when it is killed.
Crash(t) ==
  /\ term[t].pc \in {"persist", "fetch", "truncate", "write", "forge", "forget"}
  /\ Go(t, Idle)
  /\ UNCHANGED <<status, state, record, files, left>>

-----------------------------------------------------------------------------
(* cluster up and its kubeconfigs, kubeconfig --download, cluster down, and the  *)
(* file a plan leaves.                                                           *)

Create(t) ==
  /\ At(t, "create")
  /\ IF state[W(t)] # None THEN UNCHANGED <<status, state>>
     ELSE \E c \in Clusters :
            /\ Owner[c] = W(t) /\ status[c] = "new"
            /\ status' = [status EXCEPT ![c] = "up"]
            /\ state' = [state EXCEPT ![W(t)] = c]
  /\ To(t, "persist")
  /\ UNCHANGED <<record, files, left>>

\* Nothing is left to create: the instance is at its bound.
NoCreate(t) ==
  /\ At(t, "create") /\ state[W(t)] = None
  /\ \A c \in Clusters : Owner[c] = W(t) => status[c] # "new"
  /\ Go(t, Finished(t))
  /\ UNCHANGED <<status, state, record, files, left>>

\* tryPersistClusterOutputs is best effort, and so is all that follows.
Persist(t) ==
  /\ At(t, "persist") /\ To(t, "fetch")
  /\ \/ record' = [record EXCEPT ![W(t)] = state[W(t)]]
     \/ UNCHANGED record
  /\ UNCHANGED <<status, state, files, left>>

\* resolveClusterIdentity puts the recorded id first, runKubeconfigDownload does
\* not look at it.
Target(t) ==
  IF term[t].verb = "up" THEN {IF record[W(t)] # None THEN record[W(t)] ELSE state[W(t)]}
  ELSE Identities(W(t))

Fetch(t) ==
  /\ At(t, "fetch")
  /\ \E c \in Target(t) : c # None /\ status[c] = "up" /\
       \E kc \in Raw(c, "cert") : Go(t, [term[t] EXCEPT !.pc = "truncate", !.data = kc])
  /\ UNCHANGED <<status, state, record, files, left>>

FetchFails(t) ==
  /\ At(t, "fetch") /\ Go(t, Finished(t))
  /\ UNCHANGED <<status, state, record, files, left>>

\* os.WriteFile: the file is empty before it is written.
Truncate(t) ==
  /\ At(t, "truncate") /\ To(t, "write")
  /\ files' = [files EXCEPT ![Default] = Blank]
  /\ UNCHANGED <<status, state, record, left>>

Write(t) ==
  /\ At(t, "write")
  /\ IF term[t].verb = "up" THEN To(t, "forge") ELSE Go(t, Finished(t))
  /\ files' = [files EXCEPT ![Default] = term[t].data]
  /\ UNCHANGED <<status, state, record, left>>

\* writeForgeKubeconfig, through a temporary file and a rename.
WriteForge(t) ==
  /\ At(t, "forge") /\ Go(t, Finished(t))
  /\ files' = [files EXCEPT ![Forge] = Built(term[t].data.current[2])]
  /\ UNCHANGED <<status, state, record, left>>

Destroy(t) ==
  /\ At(t, "destroy") /\ To(t, "forget")
  /\ status' = [c \in Clusters |-> IF c = state[W(t)] THEN "gone" ELSE status[c]]
  /\ state' = [state EXCEPT ![W(t)] = None]
  /\ UNCHANGED <<record, files, left>>

Forget(t) ==
  /\ At(t, "forget") /\ Go(t, Finished(t))
  /\ record' = [record EXCEPT ![W(t)] = None]
  /\ UNCHANGED <<status, state, files, left>>

\* The data source writes a kubeconfig with a token as it is read.
Plan(t) ==
  /\ At(t, "plan") /\ Go(t, Finished(t))
  /\ IF state[W(t)] = None THEN UNCHANGED files
     ELSE \E kc \in Raw(state[W(t)], "token") :
            files' = [files EXCEPT ![OwnFile(state[W(t)])] = kc]
  /\ UNCHANGED <<status, state, record, left>>

-----------------------------------------------------------------------------

\* A credential comes closer to its expiry.
Age(f) ==
  /\ left.ages > 0 /\ Live(files[f])
  /\ left' = [left EXCEPT !.ages = @ - 1]
  /\ files' = [files EXCEPT ![f].expiry = IF @ = "far" THEN "near" ELSE "past"]
  /\ UNCHANGED <<status, state, record, term>>

\* While a verb resolves, the candidates that have addressed its cluster, and
\* with a live credential, at every moment.
Watch ==
  watch' = [t \in Terminals |->
    IF term'[t].pc \notin {"read", "gate", "run", "refused"} \/ term'[t].id = None
    THEN NoWatch
    ELSE LET addr == {f \in Range(Candidates[W(t)']) : Usable(files'[f], term'[t].id) # {}}
             live == {f \in addr : Live(files'[f])}
         IN CASE At(t, "read") -> [addressed |-> watch[t].addressed \cap addr,
                                   live |-> watch[t].live \cap live]
              [] At(t, "read")' /\ ~At(t, "read") -> [addressed |-> addr, live |-> live]
              [] OTHER -> watch[t]]

\* At the start a workspace has its first cluster or none, and there may be another
\* of its name; the shared files hold what the last command wrote.
KubeInit ==
  /\ state \in [Workspaces -> First \cup {None}]
  /\ \A w \in Workspaces : state[w] # None => Owner[state[w]] = w
  /\ status \in [Clusters -> {"new", "up"}]
  /\ \A c \in First : status[c] = "up" <=> state[Owner[c]] = c
  /\ record = state
  /\ LET Held == {state[w] : w \in Workspaces} \ {None}
     IN \E forge   \in {Blank} \cup UNION {{Built(c), Token(c)} : c \in Held},
           default \in {Blank} \cup {Merged(Held, c) : c \in Held} :
          files = [f \in Path |-> IF f = Forge THEN forge
                                  ELSE IF f = Default THEN default ELSE Blank]
  /\ term = [t \in Terminals |-> Idle] /\ watch = [t \in Terminals |-> NoWatch]
  /\ left = [commands |-> MaxCommands, ages |-> MaxAges]

Step(t) ==
  \/ Read(t) \/ ReadAll(t) \/ Gate(t) \/ Refresh(t) \/ RefreshFails(t) \/ Run(t)
  \/ Create(t) \/ NoCreate(t) \/ Persist(t) \/ Fetch(t) \/ FetchFails(t)
  \/ Truncate(t) \/ Write(t) \/ WriteForge(t) \/ Destroy(t) \/ Forget(t) \/ Plan(t)

KubeNext ==
  /\ \/ \E t \in Terminals :
          Step(t) \/ Again(t) \/ Crash(t)
            \/ \E v \in Verbs, w \in Workspaces : Begin(t, v, w)
     \/ \E f \in Path : Age(f)
  /\ Watch

KubeSpec == KubeInit /\ [][KubeNext]_kubeVars

-----------------------------------------------------------------------------
(* Properties.                                                             *)

\* A k verb or a kubectl of a workspace that knows its cluster talks to no other
\* one, although the files it reads are shared, and written by another terminal
\* between the choice and the use (workspaceKubeTarget, injectKubeContext).
RightCluster ==
  \A t \in Terminals :
    At(t, "done") /\ term[t].verb \in {"k", "kubectl"} /\ term[t].id # None
      /\ term[t].hit # <<>> => term[t].hit[1] = term[t].id

\* The resolver settles for an expired credential only when no candidate had a
\* live one all along (issue 281), and refuses only when none addressed the
\* cluster all along.
ResolverIsRight ==
  [][ \A t \in Terminals : At(t, "read") /\ ~At(t, "read")' =>
        /\ At(t, "refused")' => watch'[t].addressed = {}
        /\ LET tgt == term'[t].tgt
           IN tgt # NoTarget /\ ~Live(files[tgt.path]) => watch'[t].live = {} ]_kubeVars
=============================================================================
