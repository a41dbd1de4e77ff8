--------------------------- MODULE Remotes_proofs ---------------------------
(***************************************************************************)
(* Three components that act on another machine.                           *)
(*                                                                         *)
(* The registry mirror: why an install finds what the record promises, why *)
(* a mirror that has just been filled verifies, and why a delete forgets   *)
(* nothing, for any mirrors, manifests, artifacts and size of the worker   *)
(* pool.                                                                   *)
(*                                                                         *)
(* The trust gate: why one that passes has had the mirror reached from     *)
(* every node, for any set of nodes, any times and any number of runs.     *)
(*                                                                         *)
(* A run on a backend: what Run says of the tool, and what becomes of the  *)
(* Secret with its files, on every path through every backend.             *)
(***************************************************************************)
EXTENDS RegistryMirror, NodeTrust, ExecRun, FiniteSetTheorems, TLAPS

-----------------------------------------------------------------------------
(* Partial functions.                                                      *)

LEMMA RestrictFact ==
  ASSUME NEW f, NEW S
  PROVE  /\ DOMAIN Restrict(f, S) = S
         /\ \A b \in S : Restrict(f, S)[b] = f[b]
  BY DEF Restrict

LEMMA EmptyFact ==
  DOMAIN Empty = {}
  BY DEF Empty

-----------------------------------------------------------------------------
(* The invariant.                                                          *)

Fields ==
  /\ job = [cmd |-> job.cmd, kind |-> job.kind, mirror |-> job.mirror,
            manifest |-> job.manifest, ca |-> job.ca, todo |-> job.todo,
            busy |-> job.busy, got |-> job.got]
  /\ record = [kind |-> record.kind, mirror |-> record.mirror,
               manifest |-> record.manifest, missing |-> record.missing,
               artifacts |-> record.artifacts, ca |-> record.ca]

TypeInv ==
  /\ Fields
  /\ job.cmd \in {None, "replicate", "delete"}
  /\ config \in [block : BOOLEAN, target : Kinds \cup {None},
                 generic : Mirrors \cup {None}, manifest : Manifests]
  /\ upstream \in [Artifacts -> Digests]
  /\ held \in [Mirrors -> [Artifacts -> Digests \cup {None}]]
  /\ record # NoRecord => record.mirror \in Mirrors /\ record.manifest \in Manifests
  /\ DOMAIN record.artifacts \subseteq Artifacts

\* A replicate works on the artifacts of its manifest, each in one place.
Placed ==
  /\ Bom[job.manifest] = job.todo \cup DOMAIN job.busy \cup DOMAIN job.got
  /\ job.todo \cap DOMAIN job.busy = {} /\ job.todo \cap DOMAIN job.got = {}
  /\ DOMAIN job.busy \cap DOMAIN job.got = {}

BusySound == \A a \in DOMAIN job.busy : job.busy[a] = NoDigest => a \in Classic

\* What it has got is there, and was recorded as it is unless the source moved.
GotSound ==
  \A a \in DOMAIN job.got : job.got[a] # Failed =>
    /\ held[job.mirror][a] # None
    /\ \/ a \in torn
       \/ job.got[a] = NoDigest /\ a \in Classic
       \/ job.got[a] = held[job.mirror][a]

ReplicateSound ==
  Replicating =>
    /\ job.mirror \in Mirrors /\ job.manifest \in Manifests
    /\ Placed /\ BusySound /\ GotSound

\* A delete works on what the record lists; what it has not failed to delete is gone.
DeleteSound ==
  Deleting =>
    /\ record # NoRecord /\ record.artifacts # Empty /\ job.mirror \in Mirrors
    /\ DOMAIN record.artifacts = job.todo \cup DOMAIN job.got
    /\ \A a \in DOMAIN job.got : job.got[a] # Failed => held[job.mirror][a] = None

\* A record without a failure, and from which nothing has been deleted since, is of a
\* mirror that holds its manifest.
RecordHolds ==
  record # NoRecord /\ record.missing = 0 /\ record.artifacts # Empty /\ intact =>
    \A a \in Bom[record.manifest] : held[record.mirror][a] # None

MirrorInv == TypeInv /\ ReplicateSound /\ DeleteSound /\ RecordHolds

LEMMA Distinct ==
  /\ None \notin Digests /\ NoDigest \notin Digests /\ Failed \notin Digests
  /\ None \notin Mirrors /\ Icr \in Mirrors
  /\ \A v \in Manifests : Bom[v] \subseteq Artifacts
  BY BomAssumption, MirrorsAssumption

LEMMA InitMirror == MirrorInit => MirrorInv
  <1>. SUFFICES ASSUME MirrorInit PROVE MirrorInv
    OBVIOUS
  <1>1. job = NoJob /\ record = NoRecord
    BY DEF MirrorInit
  <1>2. Fields /\ job.cmd = None /\ DOMAIN record.artifacts \subseteq Artifacts
    BY <1>1, EmptyFact DEF Fields, NoJob, NoRecord
  <1>3. /\ config \in [block : BOOLEAN, target : Kinds \cup {None},
                       generic : Mirrors \cup {None}, manifest : Manifests]
        /\ upstream \in [Artifacts -> Digests]
        /\ held \in [Mirrors -> [Artifacts -> Digests \cup {None}]]
    BY DEF MirrorInit
  <1>. QED BY <1>1, <1>2, <1>3
        DEF MirrorInv, TypeInv, ReplicateSound, DeleteSound, RecordHolds, Replicating, Deleting, None

LEMMA IdentityType ==
  ASSUME TypeInv, NEW kind
  PROVE  Identity(kind) \in Mirrors \cup {None}
  BY Distinct DEF Identity, TypeInv

-----------------------------------------------------------------------------
(* replicate.                                                              *)

\* A step of a replicate that neither ends it nor touches the record.
LEMMA ReplicateStep ==
  ASSUME MirrorInv, Fields', ReplicateSound',
         held' \in [Mirrors -> [Artifacts -> Digests \cup {None}]],
         \A m \in Mirrors : \A a \in Artifacts : held[m][a] # None => held'[m][a] # None,
         UNCHANGED <<config, upstream, record, intact>>, job'.cmd = "replicate"
  PROVE  MirrorInv'
  <1>1. TypeInv'
    BY DEF MirrorInv, TypeInv
  <1>2. RecordHolds'
    BY Distinct DEF MirrorInv, TypeInv, RecordHolds
  <1>. QED BY <1>1, <1>2 DEF MirrorInv, DeleteSound, Deleting

LEMMA StartReplicateInv ==
  ASSUME MirrorInv, NEW flag, StartReplicate(flag)
  PROVE  MirrorInv'
  <1>1. PICK ca : job' = [NoJob EXCEPT !.cmd = "replicate", !.kind = TargetKind(flag),
                            !.mirror = Identity(TargetKind(flag)),
                            !.ca = ca, !.manifest = config.manifest,
                            !.todo = Bom[config.manifest]]
    BY DEF StartReplicate
  <1>2. /\ Identity(TargetKind(flag)) \in Mirrors
        /\ UNCHANGED <<config, upstream, held, record, intact>>
    BY IdentityType DEF StartReplicate, MirrorInv
  <1>. HIDE DEF TargetKind
  <1>3. Fields'
    BY <1>1, <1>2 DEF NoJob, Fields, MirrorInv, TypeInv
  <1>4. job'.cmd = "replicate" /\ job'.mirror \in Mirrors /\ job'.manifest = config.manifest
        /\ job'.todo = Bom[config.manifest] /\ job'.busy = Empty /\ job'.got = Empty
    BY <1>1, <1>2 DEF NoJob
  <1>5. ReplicateSound'
    BY <1>2, <1>4, EmptyFact DEF ReplicateSound, Placed, BusySound, GotSound, MirrorInv, TypeInv
  <1>. QED BY <1>2, <1>3, <1>4, <1>5, ReplicateStep DEF MirrorInv, TypeInv

\* a has been got: it leaves where it was, todo or busy.
LEMMA GotStep ==
  ASSUME MirrorInv, Replicating, NEW a \in Artifacts, NEW x,
         a \in job.todo \cup DOMAIN job.busy,
         job'.cmd = "replicate", job'.mirror = job.mirror, job'.manifest = job.manifest,
         job'.got = With(job.got, a, x), job'.todo = job.todo \ {a},
         DOMAIN job'.busy = DOMAIN job.busy \ {a},
         \A b \in DOMAIN job'.busy : job'.busy[b] = job.busy[b],
         \A b \in Artifacts : b # a => held'[job.mirror][b] = held[job.mirror][b],
         torn \subseteq torn',
         x # Failed =>
           /\ held'[job.mirror][a] # None
           /\ \/ a \in torn'
              \/ x = NoDigest /\ a \in Classic
              \/ x = held'[job.mirror][a]
  PROVE  ReplicateSound'
  <1>1. /\ DOMAIN job'.got = {a} \cup DOMAIN job.got
        /\ job'.got[a] = x
        /\ \A b \in DOMAIN job.got : b # a => job'.got[b] = job.got[b]
    BY DEF With
  <1>2. Placed /\ BusySound /\ GotSound /\ job.mirror \in Mirrors /\ job.manifest \in Manifests
    BY DEF MirrorInv, ReplicateSound
  <1>3. Placed'
    BY <1>1, <1>2 DEF Placed
  <1>4. BusySound'
    BY <1>2 DEF BusySound
  <1>5. DOMAIN job.got \subseteq Artifacts
    BY <1>2, Distinct DEF Placed
  <1>6. GotSound'
    <2>. SUFFICES ASSUME NEW b \in DOMAIN job'.got, job'.got[b] # Failed
                  PROVE  /\ held'[job.mirror][b] # None
                         /\ \/ b \in torn'
                            \/ job'.got[b] = NoDigest /\ b \in Classic
                            \/ job'.got[b] = held'[job.mirror][b]
      BY DEF GotSound
    <2>1. CASE b = a
      BY <1>1, <2>1
    <2>2. CASE b # a
      <3>1. b \in DOMAIN job.got /\ job'.got[b] = job.got[b] /\ b \in Artifacts
        BY <1>1, <1>5, <2>2
      <3>2. held'[job.mirror][b] = held[job.mirror][b]
        BY <2>2, <3>1
      <3>. QED BY <1>2, <3>1, <3>2 DEF GotSound
    <2>. QED BY <2>1, <2>2
  <1>. QED BY <1>2, <1>3, <1>4, <1>6 DEF ReplicateSound, Replicating

LEMMA SkipInv ==
  ASSUME MirrorInv, NEW a, Skip(a)
  PROVE  MirrorInv'
  <1>1. /\ Replicating /\ a \in job.todo /\ held[job.mirror][a] = upstream[a]
        /\ job' = [job EXCEPT !.todo = @ \ {a}, !.got = With(@, a, upstream[a])]
        /\ UNCHANGED <<config, upstream, held, record, intact, torn>>
    BY DEF Skip
  <1>2. Fields' /\ job'.todo = job.todo \ {a} /\ job'.got = With(job.got, a, upstream[a])
        /\ job'.cmd = "replicate" /\ job'.mirror = job.mirror /\ job'.manifest = job.manifest
        /\ job'.busy = job.busy
    BY <1>1 DEF Fields, MirrorInv, TypeInv, Replicating
  <1>3. a \in Artifacts /\ a \notin DOMAIN job.busy
    BY <1>1, Distinct DEF MirrorInv, ReplicateSound, Placed
  <1>4. upstream[a] # None
    BY <1>3, Distinct DEF MirrorInv, TypeInv
  <1>5. DOMAIN job'.busy = DOMAIN job.busy \ {a}
    BY <1>2, <1>3
  <1>6. ReplicateSound'
    BY <1>1, <1>2, <1>3, <1>4, <1>5, GotStep
  <1>. QED BY <1>1, <1>2, <1>6, ReplicateStep DEF MirrorInv, TypeInv

LEMMA TakeInv ==
  ASSUME MirrorInv, NEW a, Take(a)
  PROVE  MirrorInv'
  <1>. DEFINE x == IF a \in Classic THEN NoDigest ELSE upstream[a]
  <1>1. /\ Replicating /\ a \in job.todo
        /\ job' = [job EXCEPT !.todo = @ \ {a}, !.busy = With(@, a, x)]
        /\ UNCHANGED <<config, upstream, held, record, intact, torn>>
    BY DEF Take
  <1>2. Fields' /\ job'.todo = job.todo \ {a} /\ job'.busy = With(job.busy, a, x)
        /\ job'.cmd = "replicate" /\ job'.mirror = job.mirror /\ job'.manifest = job.manifest
        /\ job'.got = job.got
    BY <1>1 DEF Fields, MirrorInv, TypeInv, Replicating
  <1>3. a \in Artifacts
    BY <1>1, Distinct DEF MirrorInv, ReplicateSound, Placed
  <1>4. x = NoDigest => a \in Classic
    BY <1>3, Distinct DEF MirrorInv, TypeInv
  <1>. HIDE DEF x
  <1>5. /\ DOMAIN job'.busy = {a} \cup DOMAIN job.busy
        /\ job'.busy[a] = x
        /\ \A b \in DOMAIN job.busy : b # a => job'.busy[b] = job.busy[b]
    BY <1>2 DEF With
  <1>6. Placed /\ BusySound /\ GotSound /\ job.mirror \in Mirrors /\ job.manifest \in Manifests
    BY <1>1 DEF MirrorInv, ReplicateSound
  <1>7. Placed'
    BY <1>1, <1>2, <1>5, <1>6 DEF Placed
  <1>8. BusySound'
    BY <1>4, <1>5, <1>6 DEF BusySound
  <1>9. GotSound'
    BY <1>1, <1>2, <1>6 DEF GotSound
  <1>10. ReplicateSound'
    BY <1>2, <1>6, <1>7, <1>8, <1>9 DEF ReplicateSound
  <1>. QED BY <1>1, <1>2, <1>10, ReplicateStep DEF MirrorInv, TypeInv

\* The copy makes the mirror hold what the source has now; what the worker reports is what
\* the source had when it began.
LEMMA PushInv ==
  ASSUME MirrorInv, NEW a, Push(a)
  PROVE  MirrorInv'
  <1>. DEFINE m == job.mirror
              rest == DOMAIN job.busy \ {a}
              x == job.busy[a]
  <1>1. /\ Replicating /\ a \in DOMAIN job.busy
        /\ held' = [held EXCEPT ![m][a] = upstream[a]]
        /\ job' = [job EXCEPT !.busy = Restrict(@, DOMAIN @ \ {a}), !.got = With(@, a, x)]
        /\ torn' = IF x \in {NoDigest, upstream[a]} THEN torn ELSE torn \cup {a}
        /\ UNCHANGED <<config, upstream, record, intact>>
    BY DEF Push
  <1>2. Fields' /\ job'.busy = Restrict(job.busy, rest) /\ job'.got = With(job.got, a, x)
        /\ job'.cmd = "replicate" /\ job'.mirror = m /\ job'.manifest = job.manifest
        /\ job'.todo = job.todo
    BY <1>1 DEF Fields, MirrorInv, TypeInv, Replicating
  <1>3. a \in Artifacts /\ m \in Mirrors /\ upstream[a] \in Digests /\ a \notin job.todo
    BY <1>1, Distinct DEF MirrorInv, TypeInv, ReplicateSound, Placed
  <1>4. x = NoDigest => a \in Classic
    BY <1>1 DEF MirrorInv, ReplicateSound, BusySound
  <1>. HIDE DEF m, rest, x
  <1>5. DOMAIN job'.busy = rest /\ \A b \in rest : job'.busy[b] = job.busy[b]
    BY <1>2, RestrictFact
  <1>6. /\ held' \in [Mirrors -> [Artifacts -> Digests \cup {None}]]
        /\ held'[m][a] = upstream[a]
        /\ \A n \in Mirrors : \A b \in Artifacts : n # m \/ b # a => held'[n][b] = held[n][b]
    BY <1>1, <1>3 DEF MirrorInv, TypeInv
  <1>7. /\ held'[m][a] # None /\ torn \subseteq torn'
        /\ a \in torn' \/ x = NoDigest \/ x = held'[m][a]
    BY <1>1, <1>3, <1>6, Distinct
  <1>8. ReplicateSound'
    <2>1. DOMAIN job'.busy = DOMAIN job.busy \ {a}
          /\ \A b \in DOMAIN job'.busy : job'.busy[b] = job.busy[b]
      BY <1>5 DEF rest
    <2>2. job'.todo = job.todo \ {a}
      BY <1>2, <1>3
    <2>3. \A b \in Artifacts : b # a => held'[job.mirror][b] = held[job.mirror][b]
      BY <1>3, <1>6 DEF m
    <2>. QED BY SMTT(30), <1>1, <1>2, <1>3, <1>4, <1>7, <2>1, <2>2, <2>3, GotStep DEF m
  <1>9. \A n \in Mirrors : \A b \in Artifacts : held[n][b] # None => held'[n][b] # None
    BY <1>6, <1>7
  <1>. QED BY <1>1, <1>2, <1>6, <1>8, <1>9, ReplicateStep

LEMMA CopyFailsInv ==
  ASSUME MirrorInv, NEW a, CopyFails(a)
  PROVE  MirrorInv'
  <1>. DEFINE rest == DOMAIN job.busy \ {a}
  <1>1. /\ Replicating /\ a \in DOMAIN job.busy
        /\ job' = [job EXCEPT !.busy = Restrict(@, DOMAIN @ \ {a}), !.got = With(@, a, Failed)]
        /\ UNCHANGED <<config, upstream, held, record, intact, torn>>
    BY DEF CopyFails
  <1>2. Fields' /\ job'.busy = Restrict(job.busy, rest) /\ job'.got = With(job.got, a, Failed)
        /\ job'.cmd = "replicate" /\ job'.mirror = job.mirror /\ job'.manifest = job.manifest
        /\ job'.todo = job.todo
    BY <1>1 DEF Fields, MirrorInv, TypeInv, Replicating
  <1>3. a \in Artifacts /\ a \notin job.todo
    BY <1>1, Distinct DEF MirrorInv, ReplicateSound, Placed
  <1>. HIDE DEF rest
  <1>4. DOMAIN job'.busy = rest /\ \A b \in rest : job'.busy[b] = job.busy[b]
    BY <1>2, RestrictFact
  <1>5. ReplicateSound'
    <2>1. DOMAIN job'.busy = DOMAIN job.busy \ {a}
          /\ \A b \in DOMAIN job'.busy : job'.busy[b] = job.busy[b]
      BY <1>4 DEF rest
    <2>2. job'.todo = job.todo \ {a}
      BY <1>2, <1>3
    <2>. QED BY <1>1, <1>2, <1>3, <2>1, <2>2, GotStep
  <1>. QED BY <1>1, <1>2, <1>5, ReplicateStep DEF MirrorInv, TypeInv

LEMMA FailedFinite ==
  ASSUME MirrorInv, Replicating, Cardinality(FailedOf(job.got)) = 0
  PROVE  FailedOf(job.got) = {}
  <1>1. FailedOf(job.got) \subseteq Artifacts
    BY Distinct DEF MirrorInv, ReplicateSound, Placed, FailedOf
  <1>2. IsFiniteSet(FailedOf(job.got))
    BY <1>1, ArtifactsAssumption, FS_Subset
  <1>. QED BY <1>2, FS_EmptySet

\* What the record holds when the replicate ends.
LEMMA ReplicatedRecord ==
  ASSUME MirrorInv, Replicated
  PROVE  /\ record' = [kind |-> job.kind, mirror |-> job.mirror, manifest |-> job.manifest,
                       missing |-> Cardinality(FailedOf(job.got)),
                       artifacts |-> record'.artifacts, ca |-> job.ca]
         /\ DOMAIN record'.artifacts = DOMAIN job.got \ FailedOf(job.got)
         /\ \A a \in DOMAIN record'.artifacts : record'.artifacts[a] = job.got[a]
         /\ DOMAIN job.got = Bom[job.manifest]
         /\ GotSound /\ job.mirror \in Mirrors /\ job.manifest \in Manifests
  <1>1. /\ record' = [kind |-> job.kind, mirror |-> job.mirror, manifest |-> job.manifest,
                      missing |-> Cardinality(FailedOf(job.got)),
                      artifacts |-> Restrict(job.got, DOMAIN job.got \ FailedOf(job.got)),
                      ca |-> job.ca]
        /\ Replicating /\ job.todo = {} /\ job.busy = Empty
    BY DEF Replicated
  <1>2. record'.artifacts = Restrict(job.got, DOMAIN job.got \ FailedOf(job.got))
    BY <1>1
  <1>3. /\ DOMAIN record'.artifacts = DOMAIN job.got \ FailedOf(job.got)
        /\ \A a \in DOMAIN record'.artifacts : record'.artifacts[a] = job.got[a]
    BY <1>2 DEF Restrict
  <1>4. Placed /\ GotSound /\ job.mirror \in Mirrors /\ job.manifest \in Manifests
    BY <1>1 DEF MirrorInv, ReplicateSound
  <1>5. DOMAIN job.got = Bom[job.manifest]
    BY <1>1, <1>4, EmptyFact DEF Placed
  <1>. QED BY <1>1, <1>2, <1>3, <1>4, <1>5

\* A step after which no command runs.
LEMMA IdleStep ==
  ASSUME TypeInv, job' = NoJob, Fields', RecordHolds', UNCHANGED <<config, upstream, held>>,
         record' # NoRecord => record'.mirror \in Mirrors /\ record'.manifest \in Manifests,
         DOMAIN record'.artifacts \subseteq Artifacts
  PROVE  MirrorInv'
  <1>1. job'.cmd = None
    BY DEF NoJob
  <1>2. TypeInv'
    BY <1>1 DEF TypeInv
  <1>3. ~Replicating' /\ ~Deleting'
    BY <1>1 DEF Replicating, Deleting, None
  <1>. QED BY <1>2, <1>3 DEF MirrorInv, ReplicateSound, DeleteSound

LEMMA ReplicatedInv ==
  ASSUME MirrorInv, Replicated
  PROVE  MirrorInv'
  <1>1. /\ job' = NoJob /\ Replicating
        /\ UNCHANGED <<config, upstream, held>>
    BY DEF Replicated
  <1>2. /\ record'.mirror = job.mirror /\ record'.manifest = job.manifest
        /\ record'.missing = Cardinality(FailedOf(job.got))
        /\ DOMAIN record'.artifacts \subseteq Artifacts
        /\ job.mirror \in Mirrors /\ job.manifest \in Manifests
    BY ReplicatedRecord, Distinct
  <1>3. Fields'
    <2>1. record' = [kind |-> record'.kind, mirror |-> record'.mirror,
                     manifest |-> record'.manifest, missing |-> record'.missing,
                     artifacts |-> record'.artifacts, ca |-> record'.ca]
      BY ReplicatedRecord
    <2>. QED BY <1>1, <2>1 DEF Fields, NoJob
  <1>4. RecordHolds'
    <2>. SUFFICES ASSUME record'.missing = 0, NEW a \in Bom[record'.manifest]
                  PROVE  held'[record'.mirror][a] # None
      BY DEF RecordHolds
    <2>1. FailedOf(job.got) = {}
      BY <1>1, <1>2, FailedFinite
    <2>2. a \in DOMAIN job.got /\ job.got[a] # Failed
      BY <1>2, <2>1, ReplicatedRecord DEF FailedOf
    <2>. QED BY <1>1, <1>2, <2>2, ReplicatedRecord DEF GotSound
  <1>. QED BY <1>1, <1>2, <1>3, <1>4, IdleStep DEF MirrorInv

-----------------------------------------------------------------------------
(* adopt.                                                                  *)

LEMMA AdoptedInv ==
  ASSUME MirrorInv, job = NoJob, NEW flag, NEW ca, NEW artifacts,
         Identity(TargetKind(flag)) # None, Adopted(flag, ca, artifacts),
         DOMAIN artifacts \subseteq Artifacts,
         artifacts # Empty => \A a \in Bom[config.manifest] :
                                held[Identity(TargetKind(flag))][a] # None
  PROVE  MirrorInv'
  <1>. DEFINE kind == TargetKind(flag)
              mirror == Identity(TargetKind(flag))
  <1>1. /\ record' = [kind |-> kind, mirror |-> mirror, manifest |-> config.manifest,
                      missing |-> 0, artifacts |-> artifacts, ca |-> ca]
        /\ UNCHANGED <<config, upstream, held>> /\ job' = NoJob
    BY DEF Adopted
  <1>2. mirror \in Mirrors /\ config.manifest \in Manifests
    BY IdentityType DEF MirrorInv, TypeInv
  <1>. HIDE DEF kind
  <1>3. Fields'
    BY <1>1 DEF Fields, NoJob
  <1>4. RecordHolds'
    BY <1>1 DEF RecordHolds
  <1>. QED BY <1>1, <1>2, <1>3, <1>4, IdleStep DEF MirrorInv

LEMMA AdoptInv ==
  ASSUME MirrorInv, NEW flag, NEW force, Adopt(flag, force)
  PROVE  MirrorInv'
  <1>1. PICK ca : Adopted(flag, ca, Empty)
    BY DEF Adopt
  <1>2. job = NoJob /\ Identity(TargetKind(flag)) # None
    BY DEF Adopt
  <1>3. DOMAIN Empty \subseteq Artifacts
    BY EmptyFact
  <1>. QED BY <1>1, <1>2, <1>3, AdoptedInv

LEMMA AdoptVerifiedInv ==
  ASSUME MirrorInv, NEW flag, AdoptVerified(flag)
  PROVE  MirrorInv'
  <1>. DEFINE mirror == Identity(TargetKind(flag))
              found == [a \in Bom[config.manifest] |-> held[mirror][a]]
  <1>1. PICK ca : /\ \A a \in Bom[config.manifest] : MatchesSource(mirror, a)
                  /\ Adopted(flag, ca, found)
    BY DEF AdoptVerified
  <1>2. job = NoJob /\ mirror # None /\ config.manifest \in Manifests
    BY DEF AdoptVerified, MirrorInv, TypeInv
  <1>3. DOMAIN found \subseteq Artifacts
    BY <1>2, Distinct
  <1>4. \A a \in Bom[config.manifest] : held[mirror][a] # None
    BY <1>1, <1>2, Distinct DEF MatchesSource, MirrorInv, TypeInv
  <1>. HIDE DEF found
  <1>. QED BY <1>1, <1>2, <1>3, <1>4, AdoptedInv

-----------------------------------------------------------------------------
(* delete.                                                                 *)

\* A step of a delete that neither ends it nor touches the record.
LEMMA DeleteStep ==
  ASSUME MirrorInv, Fields', DeleteSound', RecordHolds',
         held' \in [Mirrors -> [Artifacts -> Digests \cup {None}]],
         UNCHANGED <<config, upstream, record>>, job'.cmd = "delete"
  PROVE  MirrorInv'
  <1>1. TypeInv'
    BY DEF MirrorInv, TypeInv
  <1>. QED BY <1>1 DEF MirrorInv, ReplicateSound, Replicating

LEMMA StartDeleteInv ==
  ASSUME MirrorInv, NEW flag, StartDelete(flag)
  PROVE  MirrorInv'
  <1>1. /\ job' = [NoJob EXCEPT !.cmd = "delete", !.kind = TargetKind(flag),
                      !.mirror = Identity(TargetKind(flag)),
                      !.ca = record.ca, !.todo = DOMAIN record.artifacts]
        /\ Identity(TargetKind(flag)) \in Mirrors
        /\ record # NoRecord /\ record.artifacts # Empty
        /\ UNCHANGED <<config, upstream, held, record, intact>>
    BY IdentityType DEF StartDelete, MirrorInv
  <1>2. Fields'
    BY <1>1 DEF NoJob, Fields, MirrorInv, TypeInv
  <1>3. job'.cmd = "delete" /\ job'.mirror \in Mirrors
        /\ job'.todo = DOMAIN record.artifacts /\ job'.got = Empty
    BY <1>1 DEF NoJob
  <1>4. DeleteSound'
    BY <1>1, <1>3, EmptyFact DEF DeleteSound
  <1>5. RecordHolds'
    BY <1>1 DEF MirrorInv, RecordHolds
  <1>. QED BY <1>1, <1>2, <1>3, <1>4, <1>5, DeleteStep DEF MirrorInv, TypeInv

\* a has been tried: what the delete reports of it is true of the mirror.
LEMMA TriedStep ==
  ASSUME MirrorInv, Deleting, NEW a \in job.todo, NEW x,
         job'.cmd = "delete", job'.mirror = job.mirror,
         job'.got = With(job.got, a, x), job'.todo = job.todo \ {a},
         UNCHANGED record,
         \A b \in Artifacts : b # a => held'[job.mirror][b] = held[job.mirror][b],
         x # Failed => held'[job.mirror][a] = None
  PROVE  DeleteSound'
  <1>1. /\ DOMAIN job'.got = {a} \cup DOMAIN job.got
        /\ job'.got[a] = x
        /\ \A b \in DOMAIN job.got : b # a => job'.got[b] = job.got[b]
    BY DEF With
  <1>2. /\ record # NoRecord /\ record.artifacts # Empty /\ job.mirror \in Mirrors
        /\ DOMAIN record.artifacts = job.todo \cup DOMAIN job.got
        /\ \A b \in DOMAIN job.got : job.got[b] # Failed => held[job.mirror][b] = None
        /\ DOMAIN record.artifacts \subseteq Artifacts
    BY DEF MirrorInv, DeleteSound, TypeInv
  <1>3. DOMAIN record'.artifacts = job'.todo \cup DOMAIN job'.got
    BY <1>1, <1>2
  <1>4. \A b \in DOMAIN job'.got : job'.got[b] # Failed => held'[job'.mirror][b] = None
    <2>. SUFFICES ASSUME NEW b \in DOMAIN job'.got, job'.got[b] # Failed
                  PROVE  held'[job.mirror][b] = None
      OBVIOUS
    <2>1. CASE b = a
      BY <1>1, <2>1
    <2>2. CASE b # a
      BY <1>1, <1>2, <2>2
    <2>. QED BY <2>1, <2>2
  <1>. QED BY <1>2, <1>3, <1>4 DEF DeleteSound

LEMMA DeleteOneInv ==
  ASSUME MirrorInv, NEW a, DeleteOne(a)
  PROVE  MirrorInv'
  <1>. DEFINE m == job.mirror
  <1>1. /\ Deleting /\ a \in job.todo
        /\ held' = [held EXCEPT ![m][a] = None]
        /\ job' = [job EXCEPT !.todo = @ \ {a}, !.got = With(@, a, None)]
        /\ intact' = FALSE
        /\ UNCHANGED <<config, upstream, record>>
    BY DEF DeleteOne
  <1>2. Fields' /\ job'.todo = job.todo \ {a} /\ job'.got = With(job.got, a, None)
        /\ job'.cmd = "delete" /\ job'.mirror = m
    BY <1>1 DEF Fields, MirrorInv, TypeInv, Deleting
  <1>3. a \in Artifacts /\ m \in Mirrors
    BY <1>1 DEF MirrorInv, DeleteSound, TypeInv
  <1>4. /\ held' \in [Mirrors -> [Artifacts -> Digests \cup {None}]]
        /\ held'[m][a] = None
        /\ \A b \in Artifacts : b # a => held'[m][b] = held[m][b]
    BY <1>1, <1>3 DEF MirrorInv, TypeInv
  <1>5. DeleteSound'
    BY <1>1, <1>2, <1>4, TriedStep
  <1>6. RecordHolds'
    BY <1>1 DEF RecordHolds
  <1>. QED BY <1>1, <1>2, <1>4, <1>5, <1>6, DeleteStep

LEMMA DeleteFailsInv ==
  ASSUME MirrorInv, NEW a, DeleteFails(a)
  PROVE  MirrorInv'
  <1>1. /\ Deleting /\ a \in job.todo
        /\ job' = [job EXCEPT !.todo = @ \ {a}, !.got = With(@, a, Failed)]
        /\ UNCHANGED <<config, upstream, held, record, intact>>
    BY DEF DeleteFails
  <1>2. Fields' /\ job'.todo = job.todo \ {a} /\ job'.got = With(job.got, a, Failed)
        /\ job'.cmd = "delete" /\ job'.mirror = job.mirror
    BY <1>1 DEF Fields, MirrorInv, TypeInv, Deleting
  <1>3. DeleteSound'
    BY <1>1, <1>2, TriedStep
  <1>4. RecordHolds'
    BY <1>1 DEF MirrorInv, RecordHolds
  <1>. QED BY <1>1, <1>2, <1>3, <1>4, DeleteStep DEF MirrorInv, TypeInv

LEMMA DeletedInv ==
  ASSUME MirrorInv, Deleted
  PROVE  MirrorInv'
  <1>. DEFINE failed == FailedOf(job.got)
  <1>1. /\ Deleting /\ job.todo = {} /\ job' = NoJob
        /\ record' = IF failed = {} THEN NoRecord
                     ELSE [record EXCEPT !.artifacts = Restrict(@, failed)]
        /\ UNCHANGED <<config, upstream, held, intact>>
    BY DEF Deleted
  <1>2. failed \subseteq Artifacts /\ record # NoRecord /\ record.artifacts # Empty
    BY <1>1 DEF MirrorInv, DeleteSound, TypeInv, FailedOf
  <1>. HIDE DEF failed
  <1>3. CASE failed = {}
    <2>1. record' = NoRecord
      BY <1>1, <1>3
    <2>2. Fields' /\ DOMAIN record'.artifacts \subseteq Artifacts
      BY <1>1, <2>1, EmptyFact DEF Fields, NoJob, NoRecord
    <2>3. RecordHolds'
      BY <2>1 DEF RecordHolds
    <2>. QED BY <1>1, <2>1, <2>2, <2>3, IdleStep DEF MirrorInv
  <1>4. CASE failed # {}
    <2>1. record' = [record EXCEPT !.artifacts = Restrict(@, failed)]
      BY <1>1, <1>4
    <2>2. /\ record'.mirror = record.mirror /\ record'.manifest = record.manifest
          /\ record'.missing = record.missing
          /\ record'.artifacts = Restrict(record.artifacts, failed)
          /\ Fields'
      BY <1>1, <2>1 DEF Fields, NoJob, MirrorInv, TypeInv
    <2>3. DOMAIN record'.artifacts \subseteq Artifacts
      BY <1>2, <2>2 DEF Restrict
    <2>4. RecordHolds'
      BY <1>1, <1>2, <2>2 DEF MirrorInv, RecordHolds
    <2>5. record.mirror \in Mirrors /\ record.manifest \in Manifests
      BY <1>2 DEF MirrorInv, TypeInv
    <2>. QED BY <1>1, <2>2, <2>3, <2>4, <2>5, IdleStep DEF MirrorInv
  <1>. QED BY <1>3, <1>4

LEMMA CrashInv ==
  ASSUME MirrorInv, Crash
  PROVE  MirrorInv'
  <1>1. job' = NoJob /\ UNCHANGED <<config, upstream, held, record, intact>>
    BY DEF Crash
  <1>2. Fields'
    BY <1>1 DEF Fields, NoJob, MirrorInv, TypeInv
  <1>3. RecordHolds'
    BY <1>1 DEF MirrorInv, RecordHolds
  <1>. QED BY <1>1, <1>2, <1>3, IdleStep DEF MirrorInv, TypeInv

-----------------------------------------------------------------------------
(* The operator, the world and the BNK phase.                              *)

LEMMA Frame ==
  ASSUME MirrorInv, UNCHANGED <<held, record, job, intact, torn>>,
         upstream' \in [Artifacts -> Digests],
         config' \in [block : BOOLEAN, target : Kinds \cup {None},
                      generic : Mirrors \cup {None}, manifest : Manifests]
  PROVE  MirrorInv'
  <1>1. TypeInv'
    BY DEF MirrorInv, TypeInv, Fields
  <1>2. ReplicateSound'
    BY DEF MirrorInv, ReplicateSound, Replicating, Placed, BusySound, GotSound
  <1>3. DeleteSound'
    BY DEF MirrorInv, DeleteSound, Deleting
  <1>4. RecordHolds'
    BY DEF MirrorInv, RecordHolds
  <1>. QED BY <1>1, <1>2, <1>3, <1>4 DEF MirrorInv

LEMMA ConfigInv ==
  ASSUME MirrorInv, SetTarget \/ EditManifest
  PROVE  MirrorInv'
  <1>1. UNCHANGED <<upstream, held, record, job, intact, torn>>
    BY DEF SetTarget, EditManifest, Configure
  <1>2. config' \in [block : BOOLEAN, target : Kinds \cup {None},
                     generic : Mirrors \cup {None}, manifest : Manifests]
    <2>1. config \in [block : BOOLEAN, target : Kinds \cup {None},
                      generic : Mirrors \cup {None}, manifest : Manifests]
      BY DEF MirrorInv, TypeInv
    <2>2. ASSUME NEW kind \in Kinds, config' = [config EXCEPT !.target = kind, !.block = TRUE]
          PROVE  config' \in [block : BOOLEAN, target : Kinds \cup {None},
                       generic : Mirrors \cup {None}, manifest : Manifests]
      BY <2>1, <2>2
    <2>3. ASSUME NEW m \in Mirrors, config' = [config EXCEPT !.generic = m, !.block = TRUE]
          PROVE  config' \in [block : BOOLEAN, target : Kinds \cup {None},
                       generic : Mirrors \cup {None}, manifest : Manifests]
      BY <2>1, <2>3
    <2>4. ASSUME NEW v \in Manifests, config' = [config EXCEPT !.manifest = v]
          PROVE  config' \in [block : BOOLEAN, target : Kinds \cup {None},
                       generic : Mirrors \cup {None}, manifest : Manifests]
      BY <2>1, <2>4
    <2>. QED BY <2>2, <2>3, <2>4 DEF SetTarget, EditManifest, Configure
  <1>. QED BY <1>1, <1>2, Frame DEF MirrorInv, TypeInv

LEMMA UpstreamMovesInv ==
  ASSUME MirrorInv, NEW a, UpstreamMoves(a)
  PROVE  MirrorInv'
  <1>1. UNCHANGED <<config, held, record, job, intact, torn>>
    BY DEF UpstreamMoves
  <1>2. upstream' \in [Artifacts -> Digests]
    BY DEF UpstreamMoves, MirrorInv, TypeInv
  <1>. QED BY <1>1, <1>2, Frame DEF MirrorInv, TypeInv

-----------------------------------------------------------------------------
(* The theorems of the mirror.                                             *)

LEMMA StepMirror == MirrorInv /\ [MirrorNext]_mirrorVars => MirrorInv'
  <1>. SUFFICES ASSUME MirrorInv, [MirrorNext]_mirrorVars PROVE MirrorInv'
    OBVIOUS
  <1>1. CASE Commands
    BY <1>1, StartReplicateInv, StartDeleteInv, AdoptVerifiedInv, AdoptInv DEF Commands
  <1>2. CASE Copies
    BY <1>2, SkipInv, TakeInv, PushInv, CopyFailsInv DEF Copies
  <1>3. CASE Replicated \/ Deleted \/ Crash
    BY <1>3, ReplicatedInv, DeletedInv, CrashInv
  <1>4. CASE \E a \in Artifacts : DeleteOne(a) \/ DeleteFails(a)
    BY <1>4, DeleteOneInv, DeleteFailsInv
  <1>5. CASE SetTarget \/ EditManifest
    BY <1>5, ConfigInv
  <1>6. CASE \E a \in Artifacts : UpstreamMoves(a)
    BY <1>6, UpstreamMovesInv
  <1>7. CASE Up \/ Down \/ UNCHANGED mirrorVars
    <2>1. UNCHANGED <<config, upstream, held, record, job, intact, torn>>
      BY <1>7 DEF Up, Down, mirrorVars
    <2>. QED BY <2>1, Frame DEF MirrorInv, TypeInv
  <1>. QED BY <1>1, <1>2, <1>3, <1>4, <1>5, <1>6, <1>7 DEF MirrorNext

\* What an install that the guard lets through would pull is in its mirror
\* (guardRegistryMirror, MissingCount).
THEOREM InstallFinds == MirrorSpec => []UpFindsArtifacts
  <1>1. MirrorInv => UpFindsArtifacts
    BY DEF MirrorInv, RecordHolds, UpFindsArtifacts, GuardRegistryMirror, BareAdopt
  <1>. QED BY <1>1, InitMirror, StepMirror, PTL DEF MirrorSpec

\* A mirror that a replicate has just filled verifies against its record
\* (copyOCI, VerifyAllRecorded).
THEOREM FilledVerifies == MirrorSpec => ReplicatedVerifies
  <1>1. ASSUME MirrorInv, Replicated, record'.missing = 0, NEW a \in Artifacts \ torn
        PROVE  VerifiesRecord(a)'
    <2>. SUFFICES ASSUME a \in Bom[record'.manifest]
                  PROVE  Verifies(record.mirror, a)'
      BY DEF VerifiesRecord
    <2>1. /\ record'.mirror = job.mirror /\ record'.manifest = job.manifest
          /\ FailedOf(job.got) = {} /\ UNCHANGED held
      BY <1>1, ReplicatedRecord, FailedFinite DEF Replicated
    <2>2. a \in DOMAIN record'.artifacts /\ record'.artifacts[a] = job.got[a]
          /\ a \in DOMAIN job.got /\ job.got[a] # Failed
      BY <1>1, <2>1, ReplicatedRecord DEF FailedOf
    <2>3. /\ held[job.mirror][a] # None
          /\ \/ job.got[a] = NoDigest /\ a \in Classic
             \/ job.got[a] = held[job.mirror][a]
      BY <1>1, <2>2, ReplicatedRecord DEF GotSound
    <2>4. held[job.mirror][a] # NoDigest
      <3>1. job.mirror \in Mirrors
        BY <1>1, ReplicatedRecord
      <3>2. held[job.mirror][a] \in Digests \cup {None}
        BY <1>1, <3>1 DEF MirrorInv, TypeInv
      <3>3. NoDigest # None
        BY DEF None, NoDigest
      <3>. QED BY <3>2, <3>3, Distinct
    <2>. QED BY <2>1, <2>2, <2>3, <2>4 DEF Verifies, MatchesSource
  <1>2. MirrorInv /\ [MirrorNext]_mirrorVars =>
          [Replicated /\ record'.missing = 0
             => \A a \in Artifacts \ torn : VerifiesRecord(a)']_mirrorVars
    BY <1>1
  <1>. QED BY <1>2, InitMirror, StepMirror, PTL DEF MirrorSpec, ReplicatedVerifies

\* A delete forgets nothing that is left (runRegistryDelete).
THEOREM DeleteRemembers == MirrorSpec => NothingForgotten
  <1>1. ASSUME MirrorInv, Deleted, job.mirror = record.mirror,
               NEW a \in DOMAIN record.artifacts, held[record.mirror][a] # None
        PROVE  a \in DOMAIN record'.artifacts
    <2>1. /\ Deleting /\ job.todo = {}
          /\ record' = IF FailedOf(job.got) = {} THEN NoRecord
                       ELSE [record EXCEPT !.artifacts = Restrict(@, FailedOf(job.got))]
      BY <1>1 DEF Deleted
    <2>2. a \in FailedOf(job.got)
      BY <1>1, <2>1 DEF MirrorInv, DeleteSound, FailedOf
    <2>3. record'.artifacts = Restrict(record.artifacts, FailedOf(job.got))
      BY <1>1, <2>1, <2>2 DEF MirrorInv, TypeInv, Fields
    <2>. QED BY <2>2, <2>3 DEF Restrict
  <1>2. MirrorInv /\ [MirrorNext]_mirrorVars =>
          [Deleted /\ job.mirror = record.mirror =>
             \A a \in DOMAIN record.artifacts :
               /\ held[record.mirror][a] # None
               /\ record.artifacts[a] \in {NoDigest, held[record.mirror][a]}
               => a \in DOMAIN record'.artifacts]_mirrorVars
    BY <1>1
  <1>. QED BY <1>2, InitMirror, StepMirror, PTL DEF MirrorSpec, NothingForgotten

-----------------------------------------------------------------------------
(* The trust gate.                                                         *)

PodType == [run : Nat, verdict : {"none", "ok", "failed"}, left : Int]

GateTypes ==
  /\ step \in {"idle"} \cup Active \cup Over
  /\ run \in Nat /\ observed \in Nat
  /\ pod \in [Nodes -> PodType]
  /\ reach \subseteq Nodes /\ unread \subseteq Nodes /\ met \subseteq Nodes

\* Nothing is ahead of the command: no pod has a run id that the controller has
\* not observed, and it observes no other than the command's.
InOrder == observed <= run /\ \A n \in Nodes : pod[n].run <= observed

\* The collector reads the logs of pods of its own run only.
OwnPods == step = "collect" => \A n \in Nodes : pod[n].run = run

\* While the gate is up, what can be reached has been reached, and a pod of this
\* run says so only of its own node.
Witnessed ==
  step \in Active =>
    /\ reach \subseteq met
    /\ \A n \in Nodes : pod[n].run = run /\ pod[n].verdict = "ok" => n \in met

GateInv == GateTypes /\ InOrder /\ OwnPods /\ Witnessed /\ PassedMeansReached

-----------------------------------------------------------------------------

LEMMA InitGate == GateInit => GateInv
  BY TimesAssumption DEF GateInit, GateInv, GateTypes, PodType, NoPod, Active, Over, InOrder,
     OwnPods, Witnessed, PassedMeansReached

\* What the invariant says of one pod.
LEMMA OnePod ==
  ASSUME GateInv, NEW n \in Nodes
  PROVE  /\ pod[n] \in PodType /\ pod[n].run \in Nat
         /\ pod[n].run <= observed /\ observed <= run /\ observed \in Nat /\ run \in Nat
  BY DEF GateInv, GateTypes, PodType, InOrder

\* The command's own steps but the decision.
LEMMA CommandGate ==
  GateInv /\ (StartGate \/ Ready \/ NotReady \/ CollectEnds \/ CollectFails \/ GateKilled) => GateInv'
  <1>. SUFFICES ASSUME GateInv, StartGate \/ Ready \/ NotReady \/ CollectEnds \/ CollectFails \/ GateKilled
                PROVE  GateInv'
    OBVIOUS
  \* A new run id is above that of every pod there is.
  <1>1. CASE StartGate
    <2>1. step' = "rollout" /\ run' = run + 1 /\ met' = reach /\ unread' = {}
          /\ UNCHANGED <<observed, pod, reach>>
      BY <1>1 DEF StartGate
    <2>2. \A n \in Nodes : pod'[n].run # run'
      BY <2>1, OnePod
    <2>3. GateTypes'
      BY <2>1 DEF GateInv, GateTypes, Active
    <2>4. InOrder'
      BY <2>1, OnePod DEF GateInv, GateTypes, InOrder
    <2>5. OwnPods' /\ Witnessed' /\ PassedMeansReached'
      BY <2>1, <2>2 DEF OwnPods, Witnessed, PassedMeansReached
    <2>. QED BY <2>3, <2>4, <2>5 DEF GateInv
  \* What is rolled out is of this run.
  <1>2. CASE Ready
    <2>1. step' = "collect" /\ step \in Active /\ UNCHANGED <<run, observed, pod, reach, unread, met>>
      BY <1>2 DEF Ready, Active
    <2>2. OwnPods'
      BY <1>2, <2>1 DEF Ready, RolledOut, OwnPods
    <2>3. Witnessed' /\ PassedMeansReached'
      BY <2>1 DEF GateInv, Witnessed, PassedMeansReached
    <2>4. GateTypes' /\ InOrder'
      BY <2>1 DEF GateInv, GateTypes, InOrder, Active
    <2>. QED BY <2>2, <2>3, <2>4 DEF GateInv
  <1>3. CASE NotReady \/ CollectEnds \/ CollectFails \/ GateKilled
    <2>1. step' \in Over \ {"passed"} /\ UNCHANGED <<run, observed, pod, reach, unread, met>>
      BY <1>3 DEF NotReady, CollectEnds, CollectFails, GateKilled, Over
    <2>2. step' \notin Active
      BY <2>1 DEF Over, Active
    <2>3. OwnPods' /\ Witnessed' /\ PassedMeansReached'
      BY <2>1, <2>2 DEF OwnPods, Witnessed, PassedMeansReached, Active
    <2>4. GateTypes' /\ InOrder'
      BY <2>1 DEF GateInv, GateTypes, InOrder
    <2>. QED BY <2>3, <2>4 DEF GateInv
  <1>. QED BY <1>1, <1>2, <1>3

\* The decision: with no verdict missing in the logs that were read and none "failed",
\* every pod of this run that was read has reached the mirror.
LEMMA DecideGate ==
  ASSUME GateInv, NEW unreadable \in SUBSET Nodes, Decide(unreadable)
  PROVE  GateInv'
  <1>. USE DEF GateInv, GateTypes, PodType, InOrder, OwnPods, Witnessed, PassedMeansReached,
               Active, Over
  <1>1. /\ step' \in Over /\ UNCHANGED <<run, observed, pod, reach, met>> /\ step = "collect"
        /\ unread' = unreadable
    BY DEF Decide
  <1>2. step' = "passed" => Nodes \ unread' \subseteq met'
    <2>. SUFFICES ASSUME step' = "passed", NEW n \in Nodes \ unreadable PROVE n \in met
      BY <1>1
    <2>1. pod[n].verdict # "none" /\ pod[n].verdict # "failed"
      BY DEF Decide, Covered
    <2>2. pod[n].verdict = "ok" /\ pod[n].run = run
      BY <1>1, <2>1
    <2>. QED BY <1>1, <2>2
  <1>. QED BY <1>1, <1>2

LEMMA ObserveGate == GateInv /\ Observe => GateInv'
  <1>. SUFFICES ASSUME GateInv, Observe PROVE GateInv'
    OBVIOUS
  <1>1. observed' = run /\ UNCHANGED <<step, run, pod, reach, unread, met>>
    BY DEF Observe
  <1>2. GateTypes' /\ OwnPods' /\ Witnessed' /\ PassedMeansReached'
    BY <1>1 DEF GateInv, GateTypes, OwnPods, Witnessed, PassedMeansReached
  <1>3. InOrder'
    BY <1>1, OnePod DEF GateInv, GateTypes, InOrder
  <1>. QED BY <1>2, <1>3 DEF GateInv

\* The pod of a node is replaced by one that has said nothing yet; while the
\* collector reads there is none to replace.
LEMMA ReplaceGate ==
  ASSUME GateInv, NEW n \in Nodes, Replace(n)
  PROVE  GateInv'
  <1>. DEFINE new == [run |-> observed, verdict |-> "none", left |-> Budget]
  <1>1. /\ pod' = [pod EXCEPT ![n] = new] /\ pod[n].run < observed
        /\ UNCHANGED <<step, run, observed, reach, unread, met>>
    BY DEF Replace
  <1>2. pod \in [Nodes -> PodType] /\ new \in PodType
    BY TimesAssumption DEF GateInv, GateTypes, PodType
  <1>3. new.run = observed /\ new.verdict = "none"
    OBVIOUS
  <1>. HIDE DEF new
  <1>4. pod' \in [Nodes -> PodType] /\ \A m \in Nodes : pod'[m] = IF m = n THEN new ELSE pod[m]
    BY <1>1, <1>2
  <1>5. step # "collect"
    BY <1>1, OnePod DEF GateInv, OwnPods
  <1>6. GateTypes' /\ InOrder'
    BY <1>1, <1>3, <1>4, OnePod DEF GateInv, GateTypes, InOrder
  <1>7. OwnPods' /\ Witnessed' /\ PassedMeansReached'
    BY <1>1, <1>3, <1>4, <1>5 DEF GateInv, OwnPods, Witnessed, PassedMeansReached
  <1>. QED BY <1>6, <1>7 DEF GateInv

\* A step that changes pods in nothing but what they say, and lets them say "ok" only of
\* a node that can be reached, keeps the invariant.
LEMMA PodsSpeak ==
  ASSUME GateInv, pod' \in [Nodes -> PodType],
         \A m \in Nodes :
           /\ pod'[m].run = pod[m].run
           /\ pod'[m].verdict = "ok" => pod[m].verdict = "ok" \/ m \in reach,
         UNCHANGED <<step, run, observed, reach, unread, met>>
  PROVE  GateInv'
  <1>1. GateTypes' /\ InOrder' /\ OwnPods' /\ PassedMeansReached'
    BY DEF GateInv, GateTypes, InOrder, OwnPods, PassedMeansReached
  <1>2. Witnessed'
    BY DEF GateInv, Witnessed
  <1>. QED BY <1>1, <1>2 DEF GateInv

LEMMA ProbeGate ==
  ASSUME GateInv, NEW n \in Nodes, Probe(n)
  PROVE  GateInv'
  <1>. DEFINE v == IF n \in reach THEN "ok" ELSE "failed"
  <1>1. pod' = [pod EXCEPT ![n].verdict = v] /\ UNCHANGED <<step, run, observed, reach, unread, met>>
    BY DEF Probe
  <1>2. pod \in [Nodes -> PodType]
    BY DEF GateInv, GateTypes
  <1>3. pod' \in [Nodes -> PodType]
    BY <1>1, <1>2 DEF PodType
  <1>4. \A m \in Nodes : /\ pod'[m].run = pod[m].run
                         /\ pod'[m].verdict = IF m = n THEN v ELSE pod[m].verdict
    BY <1>1, <1>2 DEF PodType
  <1>. QED BY <1>1, <1>3, <1>4, PodsSpeak

LEMMA TickGate == GateInv /\ Tick => GateInv'
  <1>. SUFFICES ASSUME GateInv, Tick PROVE GateInv'
    OBVIOUS
  <1>. DEFINE after(n) == [pod[n] EXCEPT
                !.left = IF pod[n].verdict = "none" /\ @ > 0 THEN @ - 1 ELSE @]
  <1>1. pod' = [n \in Nodes |-> after(n)] /\ UNCHANGED <<step, run, observed, reach, unread, met>>
    BY DEF Tick
  <1>2. \A n \in Nodes : /\ after(n) \in PodType
                         /\ after(n).run = pod[n].run /\ after(n).verdict = pod[n].verdict
    BY OnePod DEF PodType
  <1>. HIDE DEF after
  <1>3. pod' \in [Nodes -> PodType] /\ \A n \in Nodes : pod'[n] = after(n)
    BY <1>1, <1>2
  <1>. QED BY <1>1, <1>2, <1>3, PodsSpeak

LEMMA FlapGate ==
  ASSUME GateInv, NEW n \in Nodes, Flap(n)
  PROVE  GateInv'
  BY DEF Flap, GateInv, GateTypes, PodType, InOrder, OwnPods, Witnessed, PassedMeansReached,
         Active, Over

LEMMA StutterGate == GateInv /\ UNCHANGED gateVars => GateInv'
  BY DEF gateVars, GateInv, GateTypes, InOrder, OwnPods, Witnessed, PassedMeansReached

LEMMA NextGate == GateInv /\ [GateNext]_gateVars => GateInv'
  <1>. SUFFICES ASSUME GateInv, [GateNext]_gateVars PROVE GateInv'
    OBVIOUS
  <1>1. CASE Command
    BY <1>1, CommandGate, DecideGate DEF Command
  <1>2. CASE Cluster
    BY <1>2, ObserveGate, ReplaceGate, ProbeGate DEF Cluster
  <1>3. CASE Tick
    BY <1>3, TickGate
  <1>4. CASE \E n \in Nodes : Flap(n)
    BY <1>4, FlapGate
  <1>5. CASE UNCHANGED gateVars
    BY <1>5, StutterGate
  <1>. QED BY <1>1, <1>2, <1>3, <1>4, <1>5 DEF GateNext

\* A gate that says "reachable from every node" has had the mirror reached from every
\* node in this run, save those whose log it could not read, whatever the routes, the
\* controller and earlier runs did (CollectNodeProbeResults, SummariseProbeResults).
THEOREM GatePassesOnWitness == GateSpec => []PassedMeansReached
  <1>1. GateInv => PassedMeansReached
    BY DEF GateInv
  <1>. QED BY <1>1, InitGate, NextGate, PTL DEF GateSpec

-----------------------------------------------------------------------------
(* A run on a backend.                                                     *)

\* Run has something to return once it has only to tidy up.
HasResult == pc \in {"done", "tidy", "drain"} => result.rc # "none"

\* The tool is killed only for the user.
KilledOnInterrupt == tool = "killed" => cancelled

\* What Run is going to return is already what became of the tool.
ResultSound ==
  backend # "docker" /\ pc \in {"done", "tidy"} =>
    /\ result.rc = "0" /\ ~result.err => tool = "ok"
    /\ result.rc = "tool" => tool = "bad"

\* The Secret is there for the files of a Job; until it has its owner, Run has a step
\* left that sees to it.
SecretSound ==
  "secret" \in left =>
    /\ backend = "k8s" /\ files
    /\ mishap \/ owned \/ warned \/ pc \in {"create", "own", "unstage"}

RunInv == ExecTypeOK /\ HasResult /\ KilledOnInterrupt /\ ResultSound /\ SecretSound

-----------------------------------------------------------------------------

LEMMA InitRun == Init => RunInv
  <1>. SUFFICES ASSUME Init PROVE RunInv
    OBVIOUS
  <1>1. pc \in {"look", "temp", "stage", "spawn", "connect"}
    BY BackendsAssumption DEF Init, First
  <1>. QED BY <1>1 DEF Init, RunInv, ExecTypeOK, HasResult, KilledOnInterrupt, ResultSound,
              SecretSound, Pending, Ended

LEMMA ErrType ==
  ASSUME ExecTypeOK,
         UNCHANGED result \/ \E rc : \E err \in BOOLEAN : result' = [rc |-> rc, err |-> err]
  PROVE  result'.err \in BOOLEAN
  BY DEF ExecTypeOK

\* The Job and its Secret.  A Job that is not created takes the Secret to "unstage", one
\* that is to "own"; the exit code is read off a Job that has finished and is there.
LEMMA JobSteps ==
  ASSUME RunInv, CreateSecret \/ CreateJob \/ Unstage \/ OwnSecret \/ PodRunning \/
         JobCompletion
  PROVE  RunInv'
  <1>. USE DEF RunInv, At, GoTo, Return, ToolCode, CreateSecret, CreateJob, Unstage,
               OwnSecret, PodRunning, JobCompletion
  <1>1. UNCHANGED <<backend, files, flaky>>
    BY DEF fixed
  <1>2. ExecTypeOK'
    <2>1. /\ backend' \in Backends /\ files' \in BOOLEAN /\ flaky' \in BOOLEAN
          /\ cancelled' \in BOOLEAN /\ child' \in BOOLEAN /\ owned' \in BOOLEAN
          /\ warned' \in BOOLEAN /\ mishap' \in BOOLEAN
      BY <1>1 DEF ExecTypeOK
    <2>2. /\ helper' \in {"none", "armed", "deleting", "gone"}
          /\ cli' \in {"up", "exited", "killed"}
      BY <1>1 DEF ExecTypeOK
    <2>3. tool' \in {"none", "created", "stuck", "running"} \cup Ended
      BY <1>1 DEF ExecTypeOK, Ended
    <2>4. left' \subseteq {"secret", "job", "container", "directory", "tempdir"}
      BY <1>1 DEF ExecTypeOK
    <2>5. result'.rc \in {"none", "0", "tool", "126", "127", "137"}
      BY <1>1 DEF ExecTypeOK
    <2>6. UNCHANGED result \/ \E rc : \E err \in BOOLEAN : result' = [rc |-> rc, err |-> err]
      BY <1>1
    <2>7. pc' = "done" => result'.rc # "none"
      BY <1>1 DEF HasResult
    <2>. QED BY <2>1, <2>2, <2>3, <2>4, <2>5, <2>6, <2>7, ErrType DEF ExecTypeOK
  <1>3. HasResult'
    BY <1>1 DEF HasResult
  <1>4. KilledOnInterrupt'
    BY <1>1 DEF KilledOnInterrupt, Ended
  <1>5. ResultSound'
    BY <1>1 DEF ResultSound, KilledOnInterrupt, Ended
  <1>6. SecretSound'
    <2>1. CASE CreateSecret
      BY <1>1, <2>1 DEF SecretSound
    <2>2. CASE CreateJob
      BY <1>1, <2>2 DEF SecretSound
    <2>3. CASE Unstage
      BY <1>1, <2>3 DEF SecretSound
    <2>4. CASE OwnSecret
      BY <1>1, <2>4 DEF SecretSound
    <2>5. CASE PodRunning
      BY <1>1, <2>5 DEF SecretSound
    <2>6. CASE JobCompletion
      BY <1>1, <2>6 DEF SecretSound
    <2>. QED BY <2>1, <2>2, <2>3, <2>4, <2>5, <2>6
  <1>. QED BY <1>2, <1>3, <1>4, <1>5, <1>6

LEMMA OpsSteps ==
  ASSUME RunInv, OpsSpawn \/ OpsRun
  PROVE  RunInv'
  <1>. USE DEF RunInv, At, GoTo, Return, ToolCode, OpsSpawn, OpsRun
  <1>1. UNCHANGED <<backend, files, flaky>>
    BY DEF fixed
  <1>2. ExecTypeOK'
    <2>1. /\ backend' \in Backends /\ files' \in BOOLEAN /\ flaky' \in BOOLEAN
          /\ cancelled' \in BOOLEAN /\ child' \in BOOLEAN /\ owned' \in BOOLEAN
          /\ warned' \in BOOLEAN /\ mishap' \in BOOLEAN
      BY <1>1 DEF ExecTypeOK
    <2>2. /\ helper' \in {"none", "armed", "deleting", "gone"}
          /\ cli' \in {"up", "exited", "killed"}
      BY <1>1 DEF ExecTypeOK
    <2>3. tool' \in {"none", "created", "stuck", "running"} \cup Ended
      BY <1>1 DEF ExecTypeOK, Ended
    <2>4. left' \subseteq {"secret", "job", "container", "directory", "tempdir"}
      BY <1>1 DEF ExecTypeOK
    <2>5. result'.rc \in {"none", "0", "tool", "126", "127", "137"}
      BY <1>1 DEF ExecTypeOK
    <2>6. UNCHANGED result \/ \E rc : \E err \in BOOLEAN : result' = [rc |-> rc, err |-> err]
      BY <1>1
    <2>7. pc' = "done" => result'.rc # "none"
      BY <1>1 DEF HasResult
    <2>. QED BY <2>1, <2>2, <2>3, <2>4, <2>5, <2>6, <2>7, ErrType DEF ExecTypeOK
  <1>3. HasResult'
    BY <1>1 DEF HasResult
  <1>4. KilledOnInterrupt'
    BY <1>1 DEF KilledOnInterrupt, Ended
  <1>5. ResultSound'
    BY <1>1 DEF ResultSound, KilledOnInterrupt, Ended
  <1>6. SecretSound'
    BY <1>1 DEF SecretSound
  <1>. QED BY <1>2, <1>3, <1>4, <1>5, <1>6

LEMMA DockerSteps ==
  ASSUME RunInv, DockerTemp \/ DockerMounts \/ DockerImage \/ DockerCreate \/
         DockerAttach \/ DockerStart \/ DockerWait \/ DockerDrain
  PROVE  RunInv'
  <1>. USE DEF RunInv, At, GoTo, Return, Returned, ToolCode, DockerTemp,
               DockerMounts, DockerImage, DockerCreate, DockerAttach, DockerStart,
               DockerWait, DockerDrain
  <1>1. UNCHANGED <<backend, files, flaky>>
    BY DEF fixed
  <1>2. ExecTypeOK'
    <2>1. /\ backend' \in Backends /\ files' \in BOOLEAN /\ flaky' \in BOOLEAN
          /\ cancelled' \in BOOLEAN /\ child' \in BOOLEAN /\ owned' \in BOOLEAN
          /\ warned' \in BOOLEAN /\ mishap' \in BOOLEAN
      BY <1>1 DEF ExecTypeOK
    <2>2. /\ helper' \in {"none", "armed", "deleting", "gone"}
          /\ cli' \in {"up", "exited", "killed"}
      BY <1>1 DEF ExecTypeOK
    <2>3. tool' \in {"none", "created", "stuck", "running"} \cup Ended
      BY <1>1 DEF ExecTypeOK, Ended
    <2>4. left' \subseteq {"secret", "job", "container", "directory", "tempdir"}
      BY <1>1 DEF ExecTypeOK
    <2>5. result'.rc \in {"none", "0", "tool", "126", "127", "137"}
      BY <1>1 DEF ExecTypeOK
    <2>6. UNCHANGED result \/ \E rc : \E err \in BOOLEAN : result' = [rc |-> rc, err |-> err]
      BY <1>1
    <2>7. pc' = "done" => result'.rc # "none"
      BY <1>1 DEF HasResult
    <2>. QED BY <2>1, <2>2, <2>3, <2>4, <2>5, <2>6, <2>7, ErrType DEF ExecTypeOK
  <1>3. HasResult'
    BY <1>1 DEF HasResult
  <1>4. KilledOnInterrupt'
    BY <1>1 DEF KilledOnInterrupt, Ended
  <1>5. ResultSound'
    BY <1>1 DEF ResultSound, KilledOnInterrupt, Ended
  <1>6. SecretSound'
    BY <1>1 DEF SecretSound
  <1>. QED BY <1>2, <1>3, <1>4, <1>5, <1>6

\* The result is set on the way to "tidy", and stands while the directory is removed.
LEMMA SshSteps ==
  ASSUME RunInv, SshConnect \/ SshTool \/ SshTempdir \/ SshFiles \/ SshCanary \/
         SshWrapper \/ SshExec \/ SshRun \/ SshTidy
  PROVE  RunInv'
  <1>. USE DEF RunInv, At, GoTo, Return, Abort, ToolCode, SshConnect, SshTool,
               SshTempdir, SshFiles, SshCanary, SshWrapper, SshExec, SshRun, SshTidy
  <1>1. UNCHANGED <<backend, files, flaky>>
    BY DEF fixed
  <1>2. ExecTypeOK'
    <2>1. /\ backend' \in Backends /\ files' \in BOOLEAN /\ flaky' \in BOOLEAN
          /\ cancelled' \in BOOLEAN /\ child' \in BOOLEAN /\ owned' \in BOOLEAN
          /\ warned' \in BOOLEAN /\ mishap' \in BOOLEAN
      BY <1>1 DEF ExecTypeOK
    <2>2. /\ helper' \in {"none", "armed", "deleting", "gone"}
          /\ cli' \in {"up", "exited", "killed"}
      BY <1>1 DEF ExecTypeOK
    <2>3. tool' \in {"none", "created", "stuck", "running"} \cup Ended
      BY <1>1 DEF ExecTypeOK, Ended
    <2>4. left' \subseteq {"secret", "job", "container", "directory", "tempdir"}
      BY <1>1 DEF ExecTypeOK
    <2>5. result'.rc \in {"none", "0", "tool", "126", "127", "137"}
      BY <1>1 DEF ExecTypeOK
    <2>6. UNCHANGED result \/ \E rc : \E err \in BOOLEAN : result' = [rc |-> rc, err |-> err]
      BY <1>1
    <2>7. pc' = "done" => result'.rc # "none"
      BY <1>1 DEF HasResult
    <2>. QED BY <2>1, <2>2, <2>3, <2>4, <2>5, <2>6, <2>7, ErrType DEF ExecTypeOK
  <1>3. HasResult'
    BY <1>1 DEF HasResult
  <1>4. KilledOnInterrupt'
    BY <1>1 DEF KilledOnInterrupt, Ended
  <1>5. ResultSound'
    BY <1>1 DEF ResultSound, KilledOnInterrupt, Ended
  <1>6. SecretSound'
    BY <1>1 DEF SecretSound
  <1>. QED BY <1>2, <1>3, <1>4, <1>5, <1>6

\* A tool that Run has killed is reported as interrupted, never as having failed.
LEMMA LocalSteps ==
  ASSUME RunInv, LocalFiles \/ LocalStart \/ LocalKill \/ LocalRun
  PROVE  RunInv'
  <1>. USE DEF RunInv, At, GoTo, Return, Returned, LocalFiles, LocalStart, LocalKill,
               LocalRun
  <1>1. UNCHANGED <<backend, files, flaky>>
    BY DEF fixed
  <1>2. ExecTypeOK'
    <2>1. /\ backend' \in Backends /\ files' \in BOOLEAN /\ flaky' \in BOOLEAN
          /\ cancelled' \in BOOLEAN /\ child' \in BOOLEAN /\ owned' \in BOOLEAN
          /\ warned' \in BOOLEAN /\ mishap' \in BOOLEAN
      BY <1>1 DEF ExecTypeOK
    <2>2. /\ helper' \in {"none", "armed", "deleting", "gone"}
          /\ cli' \in {"up", "exited", "killed"}
      BY <1>1 DEF ExecTypeOK
    <2>3. tool' \in {"none", "created", "stuck", "running"} \cup Ended
      BY <1>1 DEF ExecTypeOK, Ended
    <2>4. left' \subseteq {"secret", "job", "container", "directory", "tempdir"}
      BY <1>1 DEF ExecTypeOK
    <2>5. result'.rc \in {"none", "0", "tool", "126", "127", "137"}
      BY <1>1 DEF ExecTypeOK
    <2>6. UNCHANGED result \/ \E rc : \E err \in BOOLEAN : result' = [rc |-> rc, err |-> err]
      BY <1>1
    <2>7. pc' = "done" => result'.rc # "none"
      BY <1>1 DEF HasResult
    <2>. QED BY <2>1, <2>2, <2>3, <2>4, <2>5, <2>6, <2>7, ErrType DEF ExecTypeOK
  <1>3. HasResult'
    BY <1>1 DEF HasResult
  <1>4. KilledOnInterrupt'
    BY <1>1 DEF KilledOnInterrupt, Ended
  <1>5. ResultSound'
    BY <1>1 DEF ResultSound, KilledOnInterrupt, Ended
  <1>6. SecretSound'
    BY <1>1 DEF SecretSound
  <1>. QED BY <1>2, <1>3, <1>4, <1>5, <1>6

\* The goroutine and the controllers only take things away; a tool that has ended
\* stays as it ended.
LEMMA HelperSteps ==
  ASSUME RunInv, HelperJob \/ HelperSecret \/ HelperStops \/ HelperKill \/ Expire \/
         CollectSecret \/ RemoveContainer
  PROVE  RunInv'
  <1>. USE DEF RunInv, HelperJob, HelperSecret, HelperStops, HelperKill, Expire,
               CollectSecret, RemoveContainer
  <1>1. UNCHANGED <<backend, files, flaky>>
    BY DEF fixed
  <1>2. ExecTypeOK'
    <2>1. /\ backend' \in Backends /\ files' \in BOOLEAN /\ flaky' \in BOOLEAN
          /\ cancelled' \in BOOLEAN /\ child' \in BOOLEAN /\ owned' \in BOOLEAN
          /\ warned' \in BOOLEAN /\ mishap' \in BOOLEAN
      BY <1>1 DEF ExecTypeOK
    <2>2. /\ helper' \in {"none", "armed", "deleting", "gone"}
          /\ cli' \in {"up", "exited", "killed"}
      BY <1>1 DEF ExecTypeOK
    <2>3. tool' \in {"none", "created", "stuck", "running"} \cup Ended
      BY <1>1 DEF ExecTypeOK, Ended
    <2>4. left' \subseteq {"secret", "job", "container", "directory", "tempdir"}
      BY <1>1 DEF ExecTypeOK
    <2>5. result'.rc \in {"none", "0", "tool", "126", "127", "137"}
      BY <1>1 DEF ExecTypeOK
    <2>6. UNCHANGED result \/ \E rc : \E err \in BOOLEAN : result' = [rc |-> rc, err |-> err]
      BY <1>1
    <2>7. pc' = "done" => result'.rc # "none"
      BY <1>1 DEF HasResult
    <2>. QED BY <2>1, <2>2, <2>3, <2>4, <2>5, <2>6, <2>7, ErrType DEF ExecTypeOK
  <1>3. HasResult'
    BY <1>1 DEF HasResult
  <1>4. KilledOnInterrupt'
    BY <1>1 DEF KilledOnInterrupt, Ended
  <1>5. ResultSound'
    BY <1>1 DEF ResultSound, KilledOnInterrupt, Ended
  <1>6. SecretSound'
    BY <1>1 DEF SecretSound
  <1>. QED BY <1>2, <1>3, <1>4, <1>5, <1>6

LEMMA OutsideSteps ==
  ASSUME RunInv, ToolStarts \/ ToolEnds \/ ChildEnds \/ Interrupt \/ Exit \/ Killed
  PROVE  RunInv'
  <1>. USE DEF RunInv, ToolStarts, ToolEnds, ChildEnds, Interrupt, Exit, Killed
  <1>1. UNCHANGED <<backend, files, flaky>>
    BY DEF fixed
  <1>2. ExecTypeOK'
    <2>1. /\ backend' \in Backends /\ files' \in BOOLEAN /\ flaky' \in BOOLEAN
          /\ cancelled' \in BOOLEAN /\ child' \in BOOLEAN /\ owned' \in BOOLEAN
          /\ warned' \in BOOLEAN /\ mishap' \in BOOLEAN
      BY <1>1 DEF ExecTypeOK
    <2>2. /\ helper' \in {"none", "armed", "deleting", "gone"}
          /\ cli' \in {"up", "exited", "killed"}
      BY <1>1 DEF ExecTypeOK
    <2>3. tool' \in {"none", "created", "stuck", "running"} \cup Ended
      BY <1>1 DEF ExecTypeOK, Ended
    <2>4. left' \subseteq {"secret", "job", "container", "directory", "tempdir"}
      BY <1>1 DEF ExecTypeOK
    <2>5. result'.rc \in {"none", "0", "tool", "126", "127", "137"}
      BY <1>1 DEF ExecTypeOK
    <2>6. UNCHANGED result \/ \E rc : \E err \in BOOLEAN : result' = [rc |-> rc, err |-> err]
      BY <1>1
    <2>7. pc' = "done" => result'.rc # "none"
      BY <1>1 DEF HasResult
    <2>. QED BY <2>1, <2>2, <2>3, <2>4, <2>5, <2>6, <2>7, ErrType DEF ExecTypeOK
  <1>3. HasResult'
    BY <1>1 DEF HasResult
  <1>4. KilledOnInterrupt'
    BY <1>1 DEF KilledOnInterrupt, Ended
  <1>5. ResultSound'
    BY <1>1 DEF ResultSound, KilledOnInterrupt, Ended
  <1>6. SecretSound'
    BY <1>1 DEF SecretSound
  <1>. QED BY <1>2, <1>3, <1>4, <1>5, <1>6

LEMMA NextRun == RunInv /\ [Next]_execVars => RunInv'
  <1>. SUFFICES ASSUME RunInv, [Next]_execVars PROVE RunInv'
    OBVIOUS
  <1>1. CASE Run
    BY <1>1, JobSteps, OpsSteps, DockerSteps, SshSteps, LocalSteps DEF Run
  <1>2. CASE Helper \/ CleanUp
    BY <1>2, HelperSteps DEF Helper, CleanUp
  <1>3. CASE ToolStarts \/ ToolEnds \/ ChildEnds \/ Interrupt \/ Exit \/ Killed
    BY <1>3, OutsideSteps
  <1>4. CASE UNCHANGED execVars
    BY <1>4 DEF RunInv, ExecTypeOK, HasResult, KilledOnInterrupt, ResultSound, SecretSound,
                execVars, fixed, Ended
  <1>. QED BY <1>1, <1>2, <1>3, <1>4 DEF Next

LEMMA RunInvariant == ExecSpec => []RunInv
  BY InitRun, NextRun, PTL DEF ExecSpec

\* Type correctness of a Run of every backend; and that a Run that is done has returned
\* something.
THEOREM TypeCorrect == ExecSpec => []ExecTypeOK
  <1>1. RunInv => ExecTypeOK
    BY DEF RunInv
  <1>. QED BY <1>1, RunInvariant, PTL

\* A caller is told 0 only of a tool that ran and ended with 0, and a tool's own code
\* only of one that failed, whatever failed or was interrupted on the way
\* (waitForJobCompletion, runOnOpsPod, Client.Run and cmd.Run).
THEOREM ExitReported == ExecSpec => []ExitIsTheTools
  <1>1. RunInv => ExitIsTheTools
    BY DEF RunInv, ResultSound, ExitIsTheTools
  <1>. QED BY <1>1, RunInvariant, PTL

\* The files Secret of a Run that is done, interrupted or not, has an owner that takes it
\* along or has been warned of, unless the call that created it lost its reply, the
\* delete after a Job that could not be created failed, or Run was killed
\* (setSecretOwnerRef, warnOrphanedFilesSecret, the delete in runAsJob).
THEOREM SecretOwned == ExecSpec => []SecretAccounted
  <1>1. RunInv => SecretAccounted
    BY DEF RunInv, SecretSound, SecretAccounted
  <1>. QED BY <1>1, RunInvariant, PTL
=============================================================================
