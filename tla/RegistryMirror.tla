--------------------------- MODULE RegistryMirror ---------------------------
(***************************************************************************)
(* The registry mirror of a disconnected install: `registry replicate`,    *)
(* `adopt`, `verify`, `delete`, `target`, the record they leave in         *)
(* registry-mirror.json, and what `bnk up` and every teardown make of it.  *)
(*                                                                         *)
(* The record is a cache: it says what was replicated, to which mirror and *)
(* for which manifest, and nothing asks the mirror again.  In the meantime *)
(* config.yaml is pointed at another registry, upstream moves its tags, a  *)
(* replicate fails on some artifacts or dies, and a delete removes what an *)
(* install would pull.                                                     *)
(*                                                                         *)
(* One command of the workspace runs at a time; replicate copies with a    *)
(* pool of workers.                                                        *)
(***************************************************************************)
EXTENDS Absent, FiniteSets, Functions, Naturals

CONSTANTS
  Mirrors,      \* host and repository prefix of every mirror
  Icr,          \* the one that the region and the prefix of the workspace name
  Private,      \* the mirrors that serve a CA of their own
  Manifests,    \* manifest versions
  Artifacts,
  Bom,          \* manifest version -> the artifacts it lists
  Classic,      \* charts of a classic helm repository: pushed without a digest
  Files,        \* plain files, pinned by their checksum
  Digests,
  Pool          \* --concurrency

NoDigest == "no digest"
Failed   == "failed"
Kinds    == {"icr", "generic"}
Empty    == [a \in {} |-> None]

\* What is known of a, beside what was known of others.
With(f, a, x) == [b \in DOMAIN f \cup {a} |-> IF b = a THEN x ELSE f[b]]

ASSUME MirrorsAssumption ==
  /\ Icr \in Mirrors /\ Icr \notin Private /\ Private \subseteq Mirrors
  /\ None \notin Mirrors
ASSUME BomAssumption ==
  /\ Bom \in [Manifests -> SUBSET Artifacts]
  /\ Classic \cup Files \subseteq Artifacts /\ Classic \cap Files = {}
  /\ {None, NoDigest, Failed} \cap Digests = {}
ASSUME PoolAssumption == Pool \in Nat \ {0}
ASSUME ArtifactsAssumption == IsFiniteSet(Artifacts)

VARIABLES
  config,    \* the registry: block of config.yaml and bnk.manifest_version
  upstream,  \* artifact -> its digest at the source
  held,      \* mirror -> artifact -> its digest there, None when it is not
  record,    \* registry-mirror.json, NoRecord when there is none
  job,       \* the running command, NoJob when there is none
  installed, \* whether BNK is there
  intact,    \* not in the code: no delete has removed anything since the record
             \* was made
  torn       \* not in the code: what the job copied after its source had moved

mirrorVars == <<config, upstream, held, record, job, installed, intact, torn>>

NoRecord == [kind |-> None, mirror |-> None, manifest |-> None, missing |-> 0,
             artifacts |-> Empty, ca |-> None]
NoJob    == [cmd |-> None, kind |-> None, mirror |-> None, manifest |-> None,
             ca |-> None, todo |-> {}, busy |-> Empty, got |-> Empty]

-----------------------------------------------------------------------------
(* Which mirror: the --target flag, registry.target, or icr.               *)

IsStated(flag) == flag # None \/ config.target # None

TargetKind(flag) == IF flag # None THEN flag
                    ELSE IF config.target # None THEN config.target ELSE "icr"

\* ResolveMirrorIdentity and buildTarget: None when the config does not say.
Identity(kind) == IF kind = "icr" THEN Icr ELSE config.generic

\* MirrorRecordMismatch: a kind that is not stated is taken from the record.
Mismatch(flag) ==
  /\ record # NoRecord
  /\ \/ IsStated(flag) /\ record.kind # TargetKind(flag)
     \/ Identity(IF IsStated(flag) THEN TargetKind(flag) ELSE record.kind)
          \notin {None, record.mirror}

\* resolveMirrorCA: what the operator supplies (--registry-ca, generic_ca) and
\* what the record holds come before what the host serves and the operator has
\* pinned.  A host that does not answer yields none; without a pin the command
\* ends there.
CAs(mirror) ==
  Private \cup IF record.ca # None THEN {record.ca}
              ELSE {None} \cup ({mirror} \cap Private)

\* TLS to the mirror succeeds: captureRegistryCA, craneOpts.
Trusts(mirror, ca) == mirror \in Private => ca = mirror

-----------------------------------------------------------------------------
(* replicate: Engine.Replicate and runRegistryReplicate.                   *)

StartReplicate(flag) ==
  LET kind == TargetKind(flag)  mirror == Identity(kind) IN
  /\ job = NoJob /\ mirror # None
  /\ \E ca \in CAs(mirror) :
       job' = [NoJob EXCEPT !.cmd = "replicate", !.kind = kind, !.mirror = mirror,
                            !.ca = ca, !.manifest = config.manifest,
                            !.todo = Bom[config.manifest]]
  /\ UNCHANGED <<config, upstream, held, record, installed, intact, torn>>

Replicating == job.cmd = "replicate"

\* Mutation: a tag that is there is taken for a copy that is done.
SkipWhenThere(a) ==
  /\ Replicating /\ a \in job.todo \ (Classic \cup Files)
  /\ Trusts(job.mirror, job.ca) /\ held[job.mirror][a] # None
  /\ job' = [job EXCEPT !.todo = @ \ {a}, !.got = With(@, a, upstream[a])]
  /\ UNCHANGED <<config, upstream, held, record, installed, intact, torn>>

\* copyOCI: what the mirror holds already is skipped.
Skip(a) ==
  /\ Replicating /\ a \in job.todo \ (Classic \cup Files)
  /\ Trusts(job.mirror, job.ca) /\ held[job.mirror][a] = upstream[a]
  /\ job' = [job EXCEPT !.todo = @ \ {a}, !.got = With(@, a, upstream[a])]
  /\ UNCHANGED <<config, upstream, held, record, installed, intact, torn>>

\* A worker of the pool takes an artifact; the digest it will report is that of
\* the source now.  A classic chart has none.
Take(a) ==
  /\ Replicating /\ a \in job.todo /\ Cardinality(DOMAIN job.busy) < Pool
  /\ a \notin Classic \cup Files => held[job.mirror][a] # upstream[a]
  /\ job' = [job EXCEPT !.todo = @ \ {a},
               !.busy = With(@, a, IF a \in Classic THEN NoDigest ELSE upstream[a])]
  /\ UNCHANGED <<config, upstream, held, record, installed, intact, torn>>

\* copyOCI, copyClassicHelmChart, copyFile: the copy is by tag.
Push(a) ==
  /\ Replicating /\ a \in DOMAIN job.busy /\ Trusts(job.mirror, job.ca)
  /\ held' = [held EXCEPT ![job.mirror][a] = upstream[a]]
  /\ job' = [job EXCEPT !.busy = Restrict(@, DOMAIN @ \ {a}),
                        !.got = With(@, a, job.busy[a])]
  /\ torn' = IF job.busy[a] \in {NoDigest, upstream[a]} THEN torn ELSE torn \cup {a}
  /\ UNCHANGED <<config, upstream, record, installed, intact>>

\* After copyMaxAttempts, or at once when the error is not a transient one.
CopyFails(a) ==
  /\ Replicating /\ a \in DOMAIN job.busy
  /\ job' = [job EXCEPT !.busy = Restrict(@, DOMAIN @ \ {a}),
                        !.got = With(@, a, Failed)]
  /\ UNCHANGED <<config, upstream, held, record, installed, intact, torn>>

FailedOf(results) == {a \in DOMAIN results : results[a] = Failed}

\* Mutation: the record does not count what failed.
ReplicatedWithoutCount ==
  /\ Replicating /\ job.todo = {} /\ job.busy = Empty
  /\ record' = [kind |-> job.kind, mirror |-> job.mirror, manifest |-> job.manifest,
                missing |-> 0,
                artifacts |-> Restrict(job.got, DOMAIN job.got \ FailedOf(job.got)),
                ca |-> job.ca]
  /\ intact' = TRUE
  /\ job' = NoJob /\ torn' = {}
  /\ UNCHANGED <<config, upstream, held, installed>>

\* summarizeReplication and the record: also what failed in part is recorded.
Replicated ==
  /\ Replicating /\ job.todo = {} /\ job.busy = Empty
  /\ record' = [kind |-> job.kind, mirror |-> job.mirror, manifest |-> job.manifest,
                missing |-> Cardinality(FailedOf(job.got)),
                artifacts |-> Restrict(job.got, DOMAIN job.got \ FailedOf(job.got)),
                ca |-> job.ca]
  /\ intact' = TRUE
  /\ job' = NoJob /\ torn' = {}
  /\ UNCHANGED <<config, upstream, held, installed>>

-----------------------------------------------------------------------------
(* adopt and verify.                                                       *)

\* VerifyAll: against the source.  A classic chart need only be there; a file
\* cannot be resolved at the source as an image.
MatchesSource(mirror, a) ==
  \/ a \in Classic /\ held[mirror][a] # None
  \/ a \notin Classic \cup Files /\ held[mirror][a] = upstream[a]

\* VerifyAllRecorded: against the recorded digest where there is one.
Verifies(mirror, a) ==
  IF a \in DOMAIN record.artifacts /\ record.artifacts[a] # NoDigest
    THEN held[mirror][a] = record.artifacts[a]
    ELSE MatchesSource(mirror, a)

Adopted(flag, ca, artifacts) ==
  /\ record' = [kind |-> TargetKind(flag), mirror |-> Identity(TargetKind(flag)),
                manifest |-> config.manifest, missing |-> 0,
                artifacts |-> artifacts, ca |-> ca]
  /\ intact' = TRUE
  /\ UNCHANGED <<config, upstream, held, job, installed, torn>>

\* runRegistryAdopt: a mirror that can be listed must hold something, unless the
\* operator says --force.
Adopt(flag, force) ==
  LET mirror == Identity(TargetKind(flag)) IN
  /\ job = NoJob /\ mirror # None
  /\ \E ca \in CAs(mirror) :
       /\ \/ force \/ ~Trusts(mirror, ca)
          \/ \E a \in Artifacts : held[mirror][a] # None
       /\ Adopted(flag, ca, Empty)

AdoptVerified(flag) ==
  LET mirror == Identity(TargetKind(flag)) IN
  /\ job = NoJob /\ mirror # None
  /\ \E ca \in CAs(mirror) :
       /\ Trusts(mirror, ca)
       /\ \A a \in Bom[config.manifest] : MatchesSource(mirror, a)
       /\ Adopted(flag, ca, [a \in Bom[config.manifest] |-> held[mirror][a]])

-----------------------------------------------------------------------------
(* delete: runRegistryDelete and Engine.Delete.                            *)

\* The list is that of the record, the mirror that of the config.
StartDelete(flag) ==
  LET kind == TargetKind(flag)  mirror == Identity(kind) IN
  /\ job = NoJob /\ record # NoRecord /\ ~Mismatch(flag)
  /\ record.artifacts # Empty /\ mirror # None
  /\ job' = [NoJob EXCEPT !.cmd = "delete", !.kind = kind, !.mirror = mirror,
                          !.ca = record.ca, !.todo = DOMAIN record.artifacts]
  /\ UNCHANGED <<config, upstream, held, record, installed, intact, torn>>

Deleting == job.cmd = "delete"

\* By digest where the record has one: another manifest under the tag stays.
DeleteOne(a) ==
  LET digest == record.artifacts[a] IN
  /\ Deleting /\ a \in job.todo /\ Trusts(job.mirror, job.ca)
  /\ held[job.mirror][a] # None
  /\ digest # NoDigest => held[job.mirror][a] = digest
  /\ held' = [held EXCEPT ![job.mirror][a] = None]
  /\ job' = [job EXCEPT !.todo = @ \ {a}, !.got = With(@, a, None)]
  /\ intact' = FALSE
  /\ UNCHANGED <<config, upstream, record, installed, torn>>

\* Gone already, or a registry that does not allow it.
DeleteFails(a) ==
  /\ Deleting /\ a \in job.todo
  /\ job' = [job EXCEPT !.todo = @ \ {a}, !.got = With(@, a, Failed)]
  /\ UNCHANGED <<config, upstream, held, record, installed, intact, torn>>

\* Mutation: the record goes also when artifacts remain.
DeletedWhole ==
  /\ Deleting /\ job.todo = {}
  /\ record' = NoRecord
  /\ job' = NoJob
  /\ UNCHANGED <<config, upstream, held, installed, intact, torn>>

\* The record keeps what failed, and goes with the last artifact.
Deleted ==
  /\ Deleting /\ job.todo = {}
  /\ record' = IF FailedOf(job.got) = {} THEN NoRecord
               ELSE [record EXCEPT !.artifacts = Restrict(@, FailedOf(job.got))]
  /\ job' = NoJob
  /\ UNCHANGED <<config, upstream, held, installed, intact, torn>>

\* The process dies; the record is written at the end.
Crash ==
  /\ job # NoJob /\ job' = NoJob /\ torn' = {}
  /\ UNCHANGED <<config, upstream, held, record, installed, intact>>

-----------------------------------------------------------------------------
(* The BNK phase.                                                          *)

\* WriteTFVarsForWorkspace, the first step of every up and every down.
RendersTFVars == ~Mismatch(None)

\* guardRegistryMirror: of an up, and only when config.yaml has the block.
GuardRegistryMirror ==
  config.block => record # NoRecord /\ record.missing = 0 /\ ~Mismatch(None)

\* A record is the opt-in to the redirect (renderBNKRegistryMirror).
Up ==
  /\ job = NoJob /\ GuardRegistryMirror /\ RendersTFVars
  /\ installed' = TRUE
  /\ UNCHANGED <<config, upstream, held, record, job, intact, torn>>

Down ==
  /\ job = NoJob /\ installed /\ RendersTFVars
  /\ installed' = FALSE
  /\ UNCHANGED <<config, upstream, held, record, job, intact, torn>>

-----------------------------------------------------------------------------
(* The operator and the world.                                             *)

\* A command reads the config when it starts: an edit can wait for its end.
Configure(c) ==
  /\ job = NoJob /\ config' = c /\ c # config
  /\ UNCHANGED <<upstream, held, record, job, installed, intact, torn>>

\* registry target: any of them creates the block.
SetTarget ==
  \/ \E kind \in Kinds : Configure([config EXCEPT !.target = kind, !.block = TRUE])
  \/ \E mirror \in Mirrors \ {Icr} :
       Configure([config EXCEPT !.generic = mirror, !.block = TRUE])

EditManifest ==
  \E v \in Manifests : Configure([config EXCEPT !.manifest = v])

\* Nothing compares a classic chart with its source.
UpstreamMoves(a) ==
  /\ a \notin Files \cup Classic
  /\ upstream' \in {[upstream EXCEPT ![a] = d] : d \in Digests \ {upstream[a]}}
  /\ UNCHANGED <<config, held, record, job, installed, intact, torn>>

MirrorInit ==
  /\ config \in [block : {FALSE}, target : {None}, generic : {None},
                 manifest : Manifests]
  /\ \E d \in Digests : upstream = [a \in Artifacts |-> d]
  /\ held = [m \in Mirrors |-> [a \in Artifacts |-> None]]
  /\ record = NoRecord /\ job = NoJob /\ installed = FALSE
  /\ intact = TRUE /\ torn = {}

Copies == \E a \in Artifacts : Skip(a) \/ Take(a) \/ Push(a) \/ CopyFails(a)

Commands == \E flag \in {None} \cup Kinds :
  \/ StartReplicate(flag) \/ StartDelete(flag) \/ AdoptVerified(flag)
  \/ \E force \in BOOLEAN : Adopt(flag, force)

MirrorNext ==
  \/ Commands \/ Copies \/ Replicated \/ Deleted \/ Crash \/ Up \/ Down
  \/ \E a \in Artifacts : DeleteOne(a) \/ DeleteFails(a)
  \/ SetTarget \/ EditManifest
  \/ \E a \in Artifacts : UpstreamMoves(a)

MirrorSpec == MirrorInit /\ [][MirrorNext]_mirrorVars

-----------------------------------------------------------------------------
(* Properties.                                                             *)

BareAdopt == record.artifacts = Empty /\ record.missing = 0

\* An install that the guard lets through finds every artifact of its manifest
\* in the mirror it is pointed at: after failed and repeated replicates, crashes
\* and moves of upstream.  Excluded are the ways in which nobody would look
\* again: a bare adopt, a manifest edited since, artifacts removed since, and a
\* workspace without the block (guardRegistryMirror, MissingCount).
UpFindsArtifacts ==
  /\ config.block /\ GuardRegistryMirror
  /\ ~BareAdopt /\ record.manifest = config.manifest /\ intact
  => \A a \in Bom[config.manifest] : held[record.mirror][a] # None

VerifiesRecord(a) == a \in Bom[record.manifest] => Verifies(record.mirror, a)

\* A mirror that a replicate has just filled verifies, whether each artifact was
\* copied or skipped, unless its source moved between the digest and the copy
\* (VerifyAllRecorded against copyOCI).
ReplicatedVerifies ==
  [][ Replicated /\ record'.missing = 0
        => \A a \in Artifacts \ torn : VerifiesRecord(a)' ]_mirrorVars

\* A delete that ends forgets nothing that is left of what the record lists, so
\* that a later one retries it (runRegistryDelete).
NothingForgotten ==
  [][ Deleted /\ job.mirror = record.mirror =>
        \A a \in DOMAIN record.artifacts :
          /\ held[record.mirror][a] # None
          /\ record.artifacts[a] \in {NoDigest, held[record.mirror][a]}
          => a \in DOMAIN record'.artifacts ]_mirrorVars
=============================================================================
