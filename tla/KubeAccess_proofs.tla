------------------------ MODULE KubeAccess_proofs ------------------------
(***************************************************************************)
(* Why a verb reaches its own cluster, and why the resolver neither gives  *)
(* up nor settles for an expired credential too early, for any workspaces, *)
(* clusters and terminals.  Neither proof needs to know what is in the     *)
(* shared files: a context bears the cluster it reaches, and a file that   *)
(* no longer has it makes the tool fail.                                   *)
(***************************************************************************)
EXTENDS KubeAccess, SequenceTheorems, FiniteSetTheorems, TLAPS

-----------------------------------------------------------------------------
(* The invariants.                                                         *)

\* The contexts of all clusters.
Contexts == {"id", "host"} \X Clusters

Kubeconfig == [usable : SUBSET Contexts, decoys : SUBSET Contexts,
               current : Contexts \cup {NoContext},
               class : {"unknown", "cert", "token"}, expiry : {"past", "near", "far"}]

Steps == {"idle", "done", "refused", "read", "gate", "refresh", "run", "create",
          "persist", "fetch", "truncate", "write", "forge", "destroy", "forget", "plan"}

PathTarget == [path : Path \cup {<<>>}, ctx : Contexts \cup {NoContext}]

\* The cluster a tool has talked to, and whether with a credential.
Hits == {<<>>} \cup (Clusters \X BOOLEAN)

Command == [verb : Verbs \cup {None}, ws : Workspaces \cup {None}, pc : Steps,
            id : Clusters \cup {None}, todo : Seq(Path), tgt : PathTarget,
            stale : PathTarget, data : Kubeconfig,
            hit : Hits]

TypeOK ==
  /\ status \in [Clusters -> {"new", "up", "gone"}]
  /\ state \in [Workspaces -> Clusters \cup {None}]
  /\ record \in [Workspaces -> Clusters \cup {None}]
  /\ files \in [Path -> Kubeconfig]
  /\ term \in [Terminals -> Command]

\* An interactive shell forgets its workspace; what is written has been read.
CmdSound(cmd) ==
  /\ cmd.pc \notin Ended \cup {"run"} => cmd.ws \in Workspaces
  /\ cmd.pc \in {"truncate", "write", "forge"} => cmd.data.current \in Contexts

TypeInv == TypeOK /\ \A t \in Terminals : CmdSound(term[t])

\* A verb whose cluster is known goes on with a context, and only with one of it.
CmdAims(cmd) ==
  /\ cmd.tgt.ctx \in Contexts => cmd.tgt.ctx[2] = cmd.id
  /\ cmd.stale # NoTarget =>
       cmd.stale.ctx \in Contexts /\ cmd.stale.ctx[2] = cmd.id
  /\ cmd.pc \in {"gate", "refresh", "run"} /\ cmd.verb \in {"k", "kubectl"}
       /\ cmd.id # None => cmd.tgt.ctx \in Contexts
  /\ cmd.pc = "done" /\ cmd.verb \in {"k", "kubectl"} /\ cmd.id # None
       /\ cmd.hit # <<>> => cmd.hit[1] = cmd.id

AimInv == TypeInv /\ \A t \in Terminals : CmdAims(term[t])

\* The candidates that have been read are no longer watched, unless one is kept
\* for want of a better.
WatchInv ==
  \A t \in Terminals : At(t, "read") =>
    /\ watch[t].live \subseteq Range(term[t].todo)
    /\ term[t].stale = NoTarget =>
         watch[t].addressed \subseteq Range(term[t].todo)

-----------------------------------------------------------------------------
(* Files and candidates.                                                   *)

LEMMA BlankIs == Blank \in Kubeconfig
  BY DEF Blank, Kubeconfig, NoContext

LEMMA BuiltIs ==
  ASSUME NEW c \in Clusters
  PROVE  Built(c) \in Kubeconfig /\ Built(c).current \in Contexts
  BY DEF Built, Kubeconfig, Contexts

LEMMA TokenIs ==
  ASSUME NEW c \in Clusters
  PROVE  Token(c) \in Kubeconfig
  BY DEF Token, Built, Kubeconfig, Contexts

LEMMA MergedIs ==
  ASSUME NEW c \in Clusters, NEW cs \in SUBSET Clusters
  PROVE  Merged(cs, c) \in Kubeconfig
  BY DEF Merged, Built, Kubeconfig, Contexts

LEMMA RawIs ==
  ASSUME NEW c \in Clusters, NEW class \in {"cert", "token"},
         NEW kc \in Raw(c, class)
  PROVE  kc \in Kubeconfig /\ kc.current \in Contexts
  BY DEF Raw, Kubeconfig, Contexts

LEMMA UsableIs ==
  ASSUME NEW kc \in Kubeconfig, NEW id, NEW x \in ContextsFor(kc, id)
  PROVE  x \in Contexts /\ x[2] = id /\ x \in Usable(kc, id)
  BY DEF ContextsFor, Usable, Kubeconfig

\* There is a sequence of the elements of a finite set.
LEMMA SequenceOf ==
  ASSUME NEW S, IsFiniteSet(S)
  PROVE  SetToSeq(S) \in Seq(S)
  <1>1. Cardinality(S) \in Nat /\ \E f \in [1 .. Cardinality(S) -> S] : IsInjective(f)
    BY FS_CardinalityType DEF ExistsBijection, Bijection, Injection
  <1>2. SetToSeq(S) \in [1 .. Cardinality(S) -> S]
    BY <1>1 DEF SetToSeq
  <1>. QED BY <1>1, <1>2

LEMMA CandidatesType ==
  ASSUME NEW w \in Workspaces
  PROVE  Candidates[w] \in Seq(Path)
  <1>. DEFINE own == {d \in Clusters : Owner[d] = w}
              S == {OwnFile(c) : c \in own}
              f == [c \in own |-> OwnFile(c)]
  <1>1. IsFiniteSet(own)
    BY FS_Subset, ClustersAssumption
  <1>2. f \in Surjection(own, S)
    BY DEF Surjection
  <1>3. IsFiniteSet(S)
    BY <1>1, <1>2, FS_Surjection
  <1>4. S \subseteq Path
    BY DEF Path
  <1>5. Candidates[w] = SetToSeq(S) \o <<Forge, Default>>
    BY DEF Candidates
  <1>6. SetToSeq(S) \in Seq(S)
    BY <1>3, SequenceOf
  <1>. HIDE DEF S
  <1>7. SetToSeq(S) \in Seq(Path)
    BY <1>4, <1>6
  <1>8. <<Forge, Default>> \in Seq(Path)
    BY DEF Path
  <1>. QED BY <1>5, <1>7, <1>8, ConcatProperties

LEMMA TailKeeps ==
  ASSUME NEW s \in Seq(Path), s # <<>>
  PROVE  /\ Head(s) \in Path /\ Tail(s) \in Seq(Path)
         /\ Range(s) \subseteq {Head(s)} \cup Range(Tail(s))
  <1>1. /\ Head(s) \in Path /\ Tail(s) \in Seq(Path)
        /\ Len(Tail(s)) = Len(s) - 1
        /\ \A i \in 1 .. Len(Tail(s)) : Tail(s)[i] = s[i + 1]
    BY HeadTailProperties
  <1>2. ASSUME NEW i \in 1 .. Len(s), i # 1
        PROVE  s[i] \in Range(Tail(s))
    <2>1. i - 1 \in 1 .. Len(Tail(s)) /\ Tail(s)[i - 1] = s[i]
      BY <1>1, <1>2
    <2>. QED BY <1>1, <2>1 DEF Range
  <1>3. s[1] = Head(s)
    OBVIOUS
  <1>. QED BY <1>1, <1>2, <1>3 DEF Range

-----------------------------------------------------------------------------
(* What one terminal does.                                                 *)

OthersStay(t) == \A u \in Terminals : u # t => term'[u] = term[u]

\* What every step of a terminal keeps.
StepKeeps(t) == /\ TypeInv' /\ OthersStay(t)
                /\ CmdAims(term[t]) => CmdAims(term[t])'

LEMMA GoKeeps ==
  ASSUME TypeInv, NEW t \in Terminals, NEW cmd \in Command, Go(t, cmd),
         CmdSound(cmd), CmdAims(term[t]) => CmdAims(cmd),
         status' \in [Clusters -> {"new", "up", "gone"}],
         state' \in [Workspaces -> Clusters \cup {None}],
         record' \in [Workspaces -> Clusters \cup {None}],
         files' \in [Path -> Kubeconfig]
  PROVE  StepKeeps(t) /\ term'[t] = cmd
  <1>1. /\ term' \in [Terminals -> Command] /\ term'[t] = cmd
        /\ \A u \in Terminals : u # t => term'[u] = term[u]
    BY DEF Go, TypeInv, TypeOK
  <1>2. TypeOK'
    BY <1>1 DEF TypeOK
  <1>3. \A u \in Terminals : CmdSound(term'[u])
    BY <1>1 DEF TypeInv
  <1>. QED BY <1>1, <1>2, <1>3 DEF TypeInv, StepKeeps, OthersStay

\* ... when it only looks.
LEMMA LookKeeps ==
  ASSUME TypeInv, NEW t \in Terminals, NEW cmd \in Command, Go(t, cmd),
         CmdSound(cmd), CmdAims(term[t]) => CmdAims(cmd),
         UNCHANGED <<status, state, record, files>>
  PROVE  StepKeeps(t) /\ term'[t] = cmd
  BY GoKeeps DEF TypeInv, TypeOK

LEMMA NoTargetIs == /\ NoTarget \in PathTarget
                    /\ NoTarget.ctx = NoContext /\ NoContext \notin Contexts
  BY DEF NoTarget, PathTarget, NoContext, Contexts

LEMMA IdleIs ==
  /\ Idle \in Command /\ Idle.pc = "idle" /\ Idle.tgt = NoTarget
  /\ Idle.stale = NoTarget /\ Idle.id = None /\ Idle.hit = <<>>
  <1>1. <<>> \in Hits
    BY DEF Hits
  <1>. QED BY <1>1, BlankIs, NoTargetIs DEF Idle, Command, Steps

LEMMA IdleKeeps == CmdSound(Idle) /\ CmdAims(Idle)
  BY IdleIs, NoTargetIs DEF CmdSound, CmdAims, Ended

LEMMA FinishedKeeps ==
  ASSUME TypeInv, NEW t \in Terminals
  PROVE  /\ Finished(t) \in Command /\ Finished(t).pc = "done"
         /\ CmdSound(Finished(t)) /\ CmdAims(Finished(t))
  <1>1. term[t].verb \in Verbs \cup {None}
    BY DEF TypeInv, TypeOK, Command
  <1>2. /\ Finished(t) \in Command
        /\ Finished(t).pc = "done" /\ Finished(t).tgt = NoTarget
        /\ Finished(t).stale = NoTarget /\ Finished(t).id = None
        /\ Finished(t).hit = <<>>
    BY <1>1, IdleIs DEF Finished, Command, Steps
  <1>. QED BY <1>2, NoTargetIs DEF CmdSound, CmdAims, Ended

\* A command that goes on to the next step, with all that it knows.
LEMMA ToKeeps ==
  ASSUME TypeInv, NEW t \in Terminals, NEW pc \in Steps \ {"gate", "refresh", "run", "done"},
         term[t].ws \in Workspaces,
         pc \in {"truncate", "write", "forge"} => term[t].data.current \in Contexts
  PROVE  /\ [term[t] EXCEPT !.pc = pc] \in Command
         /\ CmdSound([term[t] EXCEPT !.pc = pc])
         /\ CmdAims(term[t]) => CmdAims([term[t] EXCEPT !.pc = pc])
  <1>. DEFINE c == [term[t] EXCEPT !.pc = pc]
  <1>1. term[t] \in Command
    BY DEF TypeInv, TypeOK
  <1>2. /\ c \in Command /\ c.pc = pc /\ c.ws = term[t].ws /\ c.tgt = term[t].tgt
        /\ c.stale = term[t].stale /\ c.id = term[t].id /\ c.data = term[t].data
    BY <1>1 DEF Command
  <1>. HIDE DEF c
  <1>3. CmdSound(c)
    BY <1>2 DEF CmdSound, c
  <1>4. CmdAims(term[t]) => CmdAims(c)
    BY <1>2 DEF CmdAims
  <1>. QED BY <1>2, <1>3, <1>4 DEF c

LEMMA WorkspaceKnown ==
  ASSUME TypeInv, NEW t \in Terminals, term[t].pc \notin Ended \cup {"run"}
  PROVE  term[t].ws \in Workspaces /\ term[t].id \in Clusters \cup {None}
         /\ term[t].data \in Kubeconfig /\ term[t].todo \in Seq(Path)
         /\ term[t].tgt \in PathTarget /\ term[t].stale \in PathTarget
  BY DEF TypeInv, TypeOK, CmdSound, Command

\* What a candidate tells the resolver.
ReadTells(t, f) ==
  /\ UNCHANGED files
  /\ \/ /\ term'[t].pc = "read" /\ term'[t].todo = Tail(term[t].todo)
        /\ term'[t].id = term[t].id /\ term'[t].ws = term[t].ws
        /\ \/ /\ term'[t].stale = term[t].stale
              /\ Usable(files[f], term[t].id) = {}
           \/ term'[t].stale # NoTarget /\ ~Live(files[f])
     \/ /\ term'[t].pc \in {"gate", "run"} /\ term'[t].tgt.path = f
        /\ Live(files[f])

LEMMA ReadDoes ==
  ASSUME TypeInv, NEW t \in Terminals, Read(t)
  PROVE  /\ StepKeeps(t) /\ Head(term[t].todo) \in Path
         /\ ReadTells(t, Head(term[t].todo))
  <1>. DEFINE f  == Head(term[t].todo)
              xs == ContextsFor(files[f], term[t].id)
              on == [term[t] EXCEPT !.todo = Tail(@)]
  <1>1. /\ term[t].pc = "read" /\ term[t] \in Command /\ term[t].todo # <<>>
        /\ UNCHANGED <<status, state, record, files>>
    BY DEF Read, At, TypeInv, TypeOK
  <1>2. /\ term[t].ws \in Workspaces /\ f \in Path /\ Tail(term[t].todo) \in Seq(Path)
        /\ files[f] \in Kubeconfig
    BY <1>1, WorkspaceKnown, TailKeeps DEF Ended, TypeInv, TypeOK
  <1>3. /\ on \in Command /\ on.pc = "read" /\ on.ws = term[t].ws
        /\ on.id = term[t].id /\ on.tgt = term[t].tgt /\ on.stale = term[t].stale
        /\ on.verb = term[t].verb /\ on.todo = Tail(term[t].todo)
    BY <1>1, <1>2 DEF Command
  <1>4. /\ Resolved(t) \in {"gate", "run"} /\ {"gate", "run"} \subseteq Steps
        /\ term[t].stale \in PathTarget /\ term[t].tgt \in PathTarget
    BY <1>1 DEF Resolved, Steps, Command
  <1>5. \/ xs = {} /\ Go(t, on)
        \/ \E x \in xs :
             LET found == [path |-> f, ctx |-> x]
             IN Go(t, IF Live(files[f])
                      THEN [on EXCEPT !.tgt = found, !.stale = NoTarget,
                                      !.pc = Resolved(t)]
                      ELSE IF term[t].stale = NoTarget THEN [on EXCEPT !.stale = found]
                      ELSE on)
    BY DEF Read
  <1>6. ASSUME NEW x \in xs PROVE x \in Contexts /\ x[2] = term[t].id
    BY <1>2, UsableIs
  <1>7. xs = {} => Usable(files[f], term[t].id) = {}
    BY DEF ContextsFor
  <1>. HIDE DEF f, xs, on
  <1>8. /\ CmdSound(on)
        /\ CmdAims(term[t]) => CmdAims(on)
    BY <1>1, <1>2, <1>3 DEF CmdSound, CmdAims
  <1>9. CASE /\ Go(t, on)
             /\ xs = {} \/ (~Live(files[f]) /\ term[t].stale # NoTarget)
    <2>1. StepKeeps(t) /\ term'[t] = on
      BY <1>1, <1>3, <1>8, <1>9, LookKeeps
    <2>. QED BY <1>1, <1>2, <1>3, <1>7, <1>9, <2>1 DEF ReadTells, f
  <1>10. ASSUME NEW x \in xs, Live(files[f]),
                Go(t, [on EXCEPT !.tgt = [path |-> f, ctx |-> x], !.stale = NoTarget,
                                 !.pc = Resolved(t)])
         PROVE  StepKeeps(t) /\ ReadTells(t, f)
    <2>. DEFINE found == [path |-> f, ctx |-> x]
                c == [on EXCEPT !.tgt = found, !.stale = NoTarget, !.pc = Resolved(t)]
    <2>1. found \in PathTarget /\ found.path = f /\ found.ctx = x
      BY <1>2, <1>6 DEF PathTarget
    <2>. HIDE DEF found
    <2>2. /\ c \in Command /\ c.pc = Resolved(t) /\ c.tgt = found
          /\ c.stale = NoTarget /\ c.id = on.id /\ c.ws = on.ws
          /\ c.verb = on.verb
      BY <1>3, <1>4, <2>1, NoTargetIs DEF Command
    <2>3. Go(t, c)
      BY <1>10 DEF found
    <2>. HIDE DEF c
    <2>4. CmdSound(c) /\ CmdAims(c)
      BY <1>2, <1>3, <1>4, <1>6, <2>1, <2>2 DEF CmdSound, CmdAims
    <2>5. StepKeeps(t) /\ term'[t] = c
      BY <1>1, <2>2, <2>3, <2>4, LookKeeps
    <2>. QED BY <1>1, <1>4, <1>10, <2>1, <2>2, <2>5 DEF ReadTells
  <1>11. ASSUME NEW x \in xs, ~Live(files[f]),
                Go(t, [on EXCEPT !.stale = [path |-> f, ctx |-> x]])
         PROVE  StepKeeps(t) /\ ReadTells(t, f)
    <2>. DEFINE found == [path |-> f, ctx |-> x]
                c == [on EXCEPT !.stale = found]
    <2>1. found \in PathTarget /\ found.ctx = x /\ found # NoTarget
      BY <1>2, <1>6, NoTargetIs DEF PathTarget
    <2>. HIDE DEF found
    <2>2. /\ c \in Command /\ c.pc = "read" /\ c.tgt = on.tgt
          /\ c.stale = found /\ c.id = on.id /\ c.ws = on.ws
          /\ c.todo = on.todo
      BY <1>3, <2>1 DEF Command
    <2>3. Go(t, c)
      BY <1>11 DEF found
    <2>. HIDE DEF c
    <2>4. CmdAims(term[t]) => CmdAims(c)
      BY <1>2, <1>3, <1>6, <2>1, <2>2 DEF CmdAims
    <2>5. CmdSound(c)
      BY <1>2, <1>3, <2>2 DEF CmdSound
    <2>6. StepKeeps(t) /\ term'[t] = c
      BY <1>1, <2>2, <2>3, <2>4, <2>5, LookKeeps
    <2>. QED BY <1>1, <1>3, <1>11, <2>1, <2>2, <2>6 DEF ReadTells
  <1>12. StepKeeps(t) /\ ReadTells(t, f)
    <2>1. CASE xs = {} /\ Go(t, on)
      BY <1>9, <2>1 DEF f
    <2>2. ASSUME NEW x \in xs,
                 Go(t, IF Live(files[f])
                       THEN [on EXCEPT !.tgt = [path |-> f, ctx |-> x],
                                       !.stale = NoTarget, !.pc = Resolved(t)]
                       ELSE IF term[t].stale = NoTarget
                       THEN [on EXCEPT !.stale = [path |-> f, ctx |-> x]] ELSE on)
          PROVE  StepKeeps(t) /\ ReadTells(t, f)
      <3>1. CASE Live(files[f])
        BY <1>10, <2>2, <3>1
      <3>2. CASE ~Live(files[f]) /\ term[t].stale = NoTarget
        BY <1>11, <2>2, <3>2
      <3>3. CASE ~Live(files[f]) /\ term[t].stale # NoTarget
        BY <1>9, <2>2, <3>3 DEF f
      <3>. QED BY <3>1, <3>2, <3>3
    <2>. QED BY <1>5, <2>1, <2>2
  <1>. QED BY <1>2, <1>12 DEF f

LEMMA ReadAllDoes ==
  ASSUME TypeInv, NEW t \in Terminals, ReadAll(t)
  PROVE  /\ StepKeeps(t) /\ UNCHANGED files /\ term'[t].tgt = term[t].stale
         /\ term'[t].pc \in {"refused", "gate", "run"}
         /\ term'[t].pc = "refused" => term[t].stale = NoTarget
  <1>. DEFINE pc == IF term[t].id # None /\ term[t].stale = NoTarget
                    THEN "refused" ELSE Resolved(t)
              c == [term[t] EXCEPT !.tgt = term[t].stale, !.pc = pc]
  <1>1. /\ term[t].pc = "read" /\ term[t] \in Command /\ Go(t, c)
        /\ UNCHANGED <<status, state, record, files>>
    BY DEF ReadAll, At, TypeInv, TypeOK
  <1>2. /\ pc \in {"refused", "gate", "run"}
        /\ pc = "refused" <=> (term[t].id # None /\ term[t].stale = NoTarget)
        /\ {"refused", "gate", "run"} \subseteq Steps
    BY DEF Resolved, Steps
  <1>. HIDE DEF pc
  <1>3. term[t].ws \in Workspaces /\ term[t].stale \in PathTarget
    BY <1>1, WorkspaceKnown DEF Ended
  <1>4. /\ c \in Command /\ c.pc = pc /\ c.tgt = term[t].stale
        /\ c.stale = term[t].stale /\ c.id = term[t].id /\ c.ws = term[t].ws
    BY <1>1, <1>2, <1>3 DEF Command
  <1>. HIDE DEF c
  <1>5. CmdSound(c)
    BY <1>2, <1>3, <1>4 DEF CmdSound
  <1>6. CmdAims(term[t]) => CmdAims(c)
    BY <1>2, <1>4, NoTargetIs DEF CmdAims
  <1>7. StepKeeps(t) /\ term'[t] = c
    BY <1>1, <1>4, <1>5, <1>6, LookKeeps
  <1>. QED BY <1>1, <1>2, <1>4, <1>7

\* The answer of the refresh leaves a pin alone.
LEMMA SettledKeeps ==
  ASSUME TypeInv, NEW t \in Terminals, term[t].pc \in {"gate", "refresh"},
         NEW fresh \in BOOLEAN
  PROVE  /\ Settled(t, fresh) \in Command /\ Settled(t, fresh).pc = "run"
         /\ CmdSound(Settled(t, fresh))
         /\ CmdAims(term[t]) => CmdAims(Settled(t, fresh))
  <1>. DEFINE tgt == IF term[t].tgt # NoTarget THEN term[t].tgt
                     ELSE [path |-> IF fresh THEN Forge ELSE Default, ctx |-> NoContext]
              c == [term[t] EXCEPT !.pc = "run", !.data = Blank, !.tgt = tgt]
  <1>1. Settled(t, fresh) = c /\ term[t] \in Command
    BY DEF Settled, TypeInv, TypeOK, Command
  <1>2. /\ tgt \in PathTarget
        /\ tgt.ctx \in Contexts => tgt = term[t].tgt
        /\ term[t].tgt.ctx \in Contexts => tgt = term[t].tgt
    BY <1>1, NoTargetIs DEF Command, PathTarget, Path
  <1>. HIDE DEF tgt
  <1>3. /\ c \in Command /\ c.pc = "run" /\ c.tgt = tgt /\ c.verb = term[t].verb
        /\ c.stale = term[t].stale /\ c.id = term[t].id
    BY <1>1, <1>2, BlankIs DEF Command, Steps
  <1>. HIDE DEF c
  <1>4. CmdSound(c)
    BY <1>3 DEF CmdSound
  <1>5. CmdAims(term[t]) => CmdAims(c)
    BY <1>2, <1>3 DEF CmdAims
  <1>. QED BY <1>1, <1>3, <1>4, <1>5

LEMMA GateDoes ==
  ASSUME TypeInv, NEW t \in Terminals, Gate(t)
  PROVE  StepKeeps(t) /\ term'[t].pc \in {"run", "refresh"}
  <1>1. /\ term[t].pc = "gate" /\ term[t] \in Command /\ files[Forge] \in Kubeconfig
        /\ UNCHANGED <<status, state, record, files>>
    BY DEF Gate, At, TypeInv, TypeOK, Path
  <1>. DEFINE c == [term[t] EXCEPT !.pc = "refresh", !.data = files[Forge]]
  <1>2. Go(t, Settled(t, FALSE)) \/ Go(t, Settled(t, TRUE)) \/ Go(t, c)
    BY DEF Gate
  <1>3. ASSUME NEW fresh \in BOOLEAN, Go(t, Settled(t, fresh))
        PROVE  StepKeeps(t) /\ term'[t].pc = "run"
    BY <1>1, <1>3, SettledKeeps, LookKeeps
  <1>4. CASE Go(t, c)
    <2>1. /\ c \in Command /\ c.pc = "refresh" /\ c.tgt = term[t].tgt
          /\ c.stale = term[t].stale /\ c.id = term[t].id /\ c.ws = term[t].ws
          /\ c.verb = term[t].verb
      BY <1>1 DEF Command, Steps
    <2>. HIDE DEF c
    <2>2. CmdSound(c)
      BY <1>1, <2>1, WorkspaceKnown DEF CmdSound, Ended
    <2>3. CmdAims(term[t]) => CmdAims(c)
      BY <1>1, <2>1 DEF CmdAims
    <2>. QED BY <1>1, <1>4, <2>1, <2>2, <2>3, LookKeeps
  <1>. QED BY <1>2, <1>3, <1>4

LEMMA IdentitiesIs ==
  ASSUME TypeInv, NEW w \in Workspaces
  PROVE  Identities(w) \subseteq Clusters
  BY DEF Identities, TypeInv, TypeOK

LEMMA RefreshDoes ==
  ASSUME TypeInv, NEW t \in Terminals, Refresh(t) \/ RefreshFails(t)
  PROVE  StepKeeps(t) /\ term'[t].pc = "run"
  <1>1. /\ term[t].pc = "refresh" /\ UNCHANGED <<status, state, record>>
        /\ \E fresh \in BOOLEAN : Go(t, Settled(t, fresh))
    BY DEF Refresh, RefreshFails, At, Live
  <1>2. term[t].ws \in Workspaces /\ term[t].data \in Kubeconfig
    BY <1>1, WorkspaceKnown DEF Ended
  <1>3. files \in [Path -> Kubeconfig] /\ Forge \in Path
    BY DEF TypeInv, TypeOK, Path
  <1>4. files' \in [Path -> Kubeconfig]
    <2>1. CASE RefreshFails(t)
      BY <1>3, <2>1 DEF RefreshFails
    <2>2. ASSUME NEW c \in Identities(W(t)), NEW kc \in Raw(c, "cert"),
                 files' = [files EXCEPT ![Forge] = kc]
          PROVE  files' \in [Path -> Kubeconfig]
      BY <1>2, <1>3, <2>2, IdentitiesIs, RawIs DEF W
    <2>3. ASSUME files' = [files EXCEPT ![Forge] = [term[t].data EXCEPT !.expiry = "far"]]
          PROVE  files' \in [Path -> Kubeconfig]
      <3>1. [term[t].data EXCEPT !.expiry = "far"] \in Kubeconfig
        BY <1>2 DEF Kubeconfig
      <3>. QED BY <1>3, <2>3, <3>1
    <2>. QED BY <2>1, <2>2, <2>3 DEF Refresh
  <1>5. ASSUME NEW fresh \in BOOLEAN, Go(t, Settled(t, fresh))
        PROVE  StepKeeps(t) /\ term'[t].pc = "run"
    <2>1. /\ status' \in [Clusters -> {"new", "up", "gone"}]
          /\ state' \in [Workspaces -> Clusters \cup {None}]
          /\ record' \in [Workspaces -> Clusters \cup {None}]
      BY <1>1 DEF TypeInv, TypeOK
    <2>. QED BY <1>1, <1>4, <1>5, <2>1, SettledKeeps, GoKeeps
  <1>. QED BY <1>1, <1>5

\* The tool is told the context, or none.
LEMMA RunDoes ==
  ASSUME TypeInv, NEW t \in Terminals, Run(t)
  PROVE  StepKeeps(t) /\ term'[t].pc = "done"
  <1>. DEFINE path == IF term[t].tgt.path = <<>> THEN Default ELSE term[t].tgt.path
              ctx  == IF term[t].verb \in {"k", "kubectl"} THEN term[t].tgt.ctx ELSE NoContext
              kc   == files[path]
              x    == IF ctx = NoContext THEN kc.current ELSE ctx
              hit  == Hit(kc, x)
              tgt  == IF term[t].verb = "shell" THEN term[t].tgt ELSE NoTarget
              c    == [Idle EXCEPT !.pc = "done", !.verb = term[t].verb,
                                   !.id = term[t].id, !.tgt = tgt, !.hit = hit]
  <1>1. /\ term[t].pc = "run" /\ term[t] \in Command /\ Go(t, c)
        /\ UNCHANGED <<status, state, record, files>>
    BY DEF Run, At, TypeInv, TypeOK
  <1>2. term[t].tgt \in PathTarget
    BY <1>1 DEF Command
  <1>3. kc \in Kubeconfig
    BY <1>2 DEF TypeInv, TypeOK, PathTarget, Path
  <1>4. ctx \in Contexts \cup {NoContext}
    BY <1>2 DEF PathTarget
  <1>5. CmdAims(term[t]) /\ term[t].verb \in {"k", "kubectl"} /\ term[t].id # None
          => x \in Contexts /\ x[2] = term[t].id
    BY <1>1, NoTargetIs DEF CmdAims
  <1>6. /\ tgt \in PathTarget
        /\ tgt = NoTarget \/ tgt = term[t].tgt
    BY <1>2, NoTargetIs
  <1>. HIDE DEF x, tgt, kc
  <1>7. hit \in Hits /\ (hit # <<>> => hit[1] = x[2])
    <2>1. CASE x \in kc.usable \cup kc.decoys
      <3>. DEFINE on == x[2]  b == x \in kc.usable
      <3>1. x \in Contexts
        BY <1>3, <2>1 DEF Kubeconfig
      <3>2. on \in Clusters /\ b \in BOOLEAN
        BY <3>1 DEF Contexts
      <3>3. hit = <<on, b>>
        BY <2>1 DEF Hit
      <3>. HIDE DEF on, b, hit
      <3>4. hit \in Hits /\ hit[1] = on
        BY <3>2, <3>3 DEF Hits
      <3>. QED BY <3>4 DEF on
    <2>2. CASE x \notin kc.usable \cup kc.decoys
      <3>1. hit = <<>>
        BY <2>2 DEF Hit
      <3>. HIDE DEF hit
      <3>. QED BY <3>1 DEF Hits
    <2>. QED BY <2>1, <2>2
  <1>. HIDE DEF hit
  <1>8. /\ c \in Command /\ c.pc = "done" /\ c.tgt = tgt /\ c.stale = NoTarget
        /\ c.id = term[t].id /\ c.verb = term[t].verb /\ c.hit = hit
    BY <1>1, <1>6, <1>7, IdleIs DEF Command, Steps
  <1>. HIDE DEF c
  <1>9. CmdSound(c)
    BY <1>8 DEF CmdSound, Ended
  <1>10. CmdAims(term[t]) => CmdAims(c)
    BY <1>5, <1>6, <1>7, <1>8, NoTargetIs DEF CmdAims
  <1>. QED BY <1>1, <1>8, <1>9, <1>10, LookKeeps

\* The next command of a shell: no verb of its own is pinned to a context.
LEMMA AgainDoes ==
  ASSUME TypeInv, NEW t \in Terminals, Again(t)
  PROVE  StepKeeps(t) /\ term'[t].pc = "run"
  <1>. DEFINE c == [term[t] EXCEPT !.pc = "run"]
  <1>1. /\ term[t].pc = "done" /\ term[t].verb = "shell" /\ Go(t, c)
        /\ term[t] \in Command /\ UNCHANGED <<status, state, record, files>>
    BY DEF Again, At, To, TypeInv, TypeOK
  <1>2. /\ c \in Command /\ c.pc = "run" /\ c.verb = term[t].verb
        /\ c.tgt = term[t].tgt /\ c.stale = term[t].stale /\ c.id = term[t].id
    BY <1>1 DEF Command, Steps
  <1>. HIDE DEF c
  <1>3. CmdSound(c)
    BY <1>2 DEF CmdSound
  <1>4. CmdAims(term[t]) => CmdAims(c)
    BY <1>1, <1>2 DEF CmdAims
  <1>. QED BY <1>1, <1>2, <1>3, <1>4, LookKeeps

LEMMA CrashDoes ==
  ASSUME TypeInv, NEW t \in Terminals, Crash(t)
  PROVE  StepKeeps(t) /\ term'[t].pc = "idle" /\ term[t].pc # "read"
  <1>1. /\ Go(t, Idle) /\ term[t].pc # "read"
        /\ UNCHANGED <<status, state, record, files>>
    BY DEF Crash
  <1>. QED BY <1>1, IdleIs, IdleKeeps, LookKeeps

LEMMA BeginDoes ==
  ASSUME TypeInv, NEW t \in Terminals, NEW v \in Verbs, NEW w \in Workspaces,
         Begin(t, v, w)
  PROVE  /\ StepKeeps(t) /\ term[t].pc \in Ended /\ UNCHANGED files
         /\ term'[t].ws = w /\ term'[t].stale = NoTarget
         /\ term'[t].id # None => term'[t].todo = Candidates[w]
  <1>. DEFINE id   == IF v \in Pinned THEN record[w] ELSE None
              todo == IF id = None THEN <<>> ELSE Candidates[w]
              pc   == FirstStep(v)
              c    == [Idle EXCEPT !.verb = v, !.ws = w, !.pc = pc, !.id = id,
                                   !.todo = todo]
  <1>1. /\ Go(t, c) /\ term[t].pc \in Ended
        /\ UNCHANGED <<status, state, record, files>>
    BY DEF Begin
  <1>2. pc \in Steps /\ (v \in {"k", "kubectl"} => pc = "read")
        /\ pc \notin {"truncate", "write", "forge", "done"}
    <2>1. v \in {"k", "kubectl", "exec", "shell", "kubeconfig", "refresh", "download",
                 "up", "down", "plan"}
      BY VerbsAssumption
    <2>. QED BY <2>1 DEF FirstStep, Pinned, Steps
  <1>3. id \in Clusters \cup {None}
    BY DEF TypeInv, TypeOK
  <1>4. todo \in Seq(Path)
    BY CandidatesType
  <1>5. id # None => todo = Candidates[w]
    OBVIOUS
  <1>. HIDE DEF id, todo, pc
  <1>6. /\ c \in Command /\ c.pc = pc /\ c.verb = v /\ c.ws = w /\ c.id = id
        /\ c.todo = todo /\ c.tgt = NoTarget /\ c.stale = NoTarget
    BY <1>2, <1>3, <1>4, IdleIs DEF Command
  <1>. HIDE DEF c
  <1>7. CmdSound(c)
    BY <1>2, <1>6 DEF CmdSound
  <1>8. CmdAims(c)
    BY <1>2, <1>6, NoTargetIs DEF CmdAims
  <1>. QED BY <1>1, <1>5, <1>6, <1>7, <1>8, LookKeeps

LEMMA AgeDoes ==
  ASSUME TypeInv, NEW f \in Path, Age(f)
  PROVE  TypeInv' /\ UNCHANGED term
  <1>. DEFINE e  == IF files[f].expiry = "far" THEN "near" ELSE "past"
              kc == [files[f] EXCEPT !.expiry = e]
  <1>1. files' = [files EXCEPT ![f] = kc] /\ UNCHANGED <<status, state, record, term>>
    BY DEF Age
  <1>2. kc \in Kubeconfig
    BY DEF TypeInv, TypeOK, Kubeconfig
  <1>. HIDE DEF kc
  <1>3. files' \in [Path -> Kubeconfig]
    BY <1>1, <1>2 DEF TypeInv, TypeOK
  <1>. QED BY <1>1, <1>3 DEF TypeInv, TypeOK, CmdSound

-----------------------------------------------------------------------------
(* cluster up, kubeconfig --download, cluster down, plan.                  *)

Building(t) ==
  \/ Create(t) \/ NoCreate(t) \/ Persist(t) \/ Fetch(t) \/ FetchFails(t)
  \/ Truncate(t) \/ Write(t) \/ WriteForge(t) \/ Destroy(t) \/ Forget(t) \/ Plan(t)

BuildingSteps == {"create", "persist", "fetch", "truncate", "write", "forge",
                  "destroy", "forget", "plan"}

\* They change files and records, and what they write is a kubeconfig.
LEMMA BuildingTypes ==
  ASSUME TypeInv, NEW t \in Terminals, Building(t)
  PROVE  /\ term[t].pc \in BuildingSteps
         /\ status' \in [Clusters -> {"new", "up", "gone"}]
         /\ state' \in [Workspaces -> Clusters \cup {None}]
         /\ record' \in [Workspaces -> Clusters \cup {None}]
         /\ files' \in [Path -> Kubeconfig]
  <1>1. term[t].pc \in BuildingSteps
    BY DEF Building, Create, NoCreate, Persist, Fetch, FetchFails, Truncate, Write,
           WriteForge, Destroy, Forget, Plan, At, BuildingSteps
  <1>2. /\ term[t].ws \in Workspaces /\ term[t].data \in Kubeconfig
        /\ term[t].pc = "forge" => term[t].data.current \in Contexts
    BY <1>1, WorkspaceKnown DEF BuildingSteps, Ended, TypeInv, CmdSound
  <1>3. /\ status \in [Clusters -> {"new", "up", "gone"}]
        /\ state \in [Workspaces -> Clusters \cup {None}]
        /\ record \in [Workspaces -> Clusters \cup {None}]
        /\ files \in [Path -> Kubeconfig] /\ Forge \in Path /\ Default \in Path
    BY DEF TypeInv, TypeOK, Path
  <1>4. CASE Create(t)
    BY <1>1, <1>2, <1>3, <1>4 DEF Create, W
  <1>5. CASE NoCreate(t) \/ Fetch(t) \/ FetchFails(t)
    BY <1>1, <1>3, <1>5 DEF NoCreate, Fetch, FetchFails
  <1>6. CASE Persist(t)
    BY <1>1, <1>2, <1>3, <1>6 DEF Persist, W
  <1>7. CASE Truncate(t)
    BY <1>1, <1>3, <1>7, BlankIs DEF Truncate
  <1>8. CASE Write(t)
    BY <1>1, <1>2, <1>3, <1>8 DEF Write
  <1>9. CASE WriteForge(t)
    <2>1. term[t].data.current[2] \in Clusters
      BY <1>2, <1>9 DEF WriteForge, At, Contexts
    <2>2. Built(term[t].data.current[2]) \in Kubeconfig
      BY <2>1, BuiltIs
    <2>. QED BY <1>1, <1>3, <1>9, <2>2 DEF WriteForge
  <1>10. CASE Destroy(t)
    BY <1>1, <1>2, <1>3, <1>10 DEF Destroy, W
  <1>11. CASE Forget(t)
    BY <1>1, <1>2, <1>3, <1>11 DEF Forget, W
  <1>12. CASE Plan(t)
    <2>1. ASSUME state[term[t].ws] # None,
                 NEW kc \in Raw(state[term[t].ws], "token"),
                 files' = [files EXCEPT ![OwnFile(state[term[t].ws])] = kc]
          PROVE  files' \in [Path -> Kubeconfig]
      <3>1. state[term[t].ws] \in Clusters
        BY <1>2, <1>3, <2>1
      <3>2. OwnFile(state[term[t].ws]) \in Path /\ kc \in Kubeconfig
        BY <2>1, <3>1, RawIs DEF Path
      <3>. QED BY <1>3, <2>1, <3>2
    <2>2. files' = files \/ files' \in [Path -> Kubeconfig]
      BY <1>12, <2>1 DEF Plan, W
    <2>. QED BY <1>1, <1>3, <1>12, <2>2 DEF Plan
  <1>. QED BY <1>1, <1>4, <1>5, <1>6, <1>7, <1>8, <1>9, <1>10, <1>11, <1>12
           DEF Building

\* A command that is done with these steps knows no cluster of its own to reach.
LEMMA BuildingKeeps ==
  ASSUME TypeInv, NEW t \in Terminals, Building(t)
  PROVE  /\ StepKeeps(t) /\ term[t].pc # "read"
         /\ term'[t].pc \in {"done", "persist", "fetch", "truncate", "write", "forge", "forget"}
  <1>1. /\ term[t].pc \in BuildingSteps
        /\ status' \in [Clusters -> {"new", "up", "gone"}]
        /\ state' \in [Workspaces -> Clusters \cup {None}]
        /\ record' \in [Workspaces -> Clusters \cup {None}]
        /\ files' \in [Path -> Kubeconfig]
    BY BuildingTypes
  <1>2. /\ term[t] \in Command /\ term[t].ws \in Workspaces
        /\ term[t].pc \in {"truncate", "write", "forge"} => term[t].data.current \in Contexts
        /\ term[t].pc # "read"
    BY <1>1, WorkspaceKnown DEF BuildingSteps, Ended, TypeInv, TypeOK, CmdSound
  <1>3. ASSUME Go(t, Finished(t))
        PROVE  StepKeeps(t) /\ term'[t].pc = "done"
    BY <1>1, <1>3, FinishedKeeps, GoKeeps
  <1>4. ASSUME NEW pc \in {"persist", "fetch", "write", "forge", "forget"}, To(t, pc),
               pc \in {"write", "forge"} => term[t].data.current \in Contexts
        PROVE  StepKeeps(t) /\ term'[t].pc = pc
    <2>. DEFINE c == [term[t] EXCEPT !.pc = pc]
    <2>1. pc \in Steps \ {"gate", "refresh", "run", "done"}
      BY <1>4 DEF Steps
    <2>2. c \in Command /\ CmdSound(c) /\ (CmdAims(term[t]) => CmdAims(c))
      BY <1>2, <1>4, <2>1, ToKeeps
    <2>3. c.pc = pc /\ Go(t, c)
      BY <1>2, <1>4 DEF To, Command
    <2>. HIDE DEF c
    <2>. QED BY <1>1, <2>2, <2>3, GoKeeps
  <1>5. CASE NoCreate(t) \/ FetchFails(t) \/ WriteForge(t) \/ Forget(t) \/ Plan(t)
    BY <1>2, <1>3, <1>5 DEF NoCreate, FetchFails, WriteForge, Forget, Plan
  <1>6. CASE Create(t) \/ Persist(t) \/ Destroy(t)
    BY <1>2, <1>4, <1>6 DEF Create, Persist, Destroy
  <1>7. CASE Truncate(t)
    BY <1>2, <1>4, <1>7 DEF Truncate, At
  <1>8. CASE Write(t)
    BY <1>2, <1>3, <1>4, <1>8 DEF Write, At
  <1>9. CASE Fetch(t)
    <2>1. PICK c \in Target(t) :
            /\ c # None
            /\ \E kc \in Raw(c, "cert") :
                 Go(t, [term[t] EXCEPT !.pc = "truncate", !.data = kc])
      BY <1>9 DEF Fetch
    <2>2. PICK kc \in Raw(c, "cert") :
            Go(t, [term[t] EXCEPT !.pc = "truncate", !.data = kc])
      BY <2>1
    <2>3. c \in Clusters
      <3>1. Identities(term[t].ws) \subseteq Clusters
        BY <1>2, IdentitiesIs
      <3>. QED BY <1>2, <2>1, <3>1 DEF Target, W, TypeInv, TypeOK
    <2>4. kc \in Kubeconfig /\ kc.current \in Contexts
      BY <2>3, RawIs
    <2>. DEFINE d == [term[t] EXCEPT !.pc = "truncate", !.data = kc]
    <2>5. /\ d \in Command /\ d.pc = "truncate" /\ d.data = kc /\ d.ws = term[t].ws
          /\ d.tgt = term[t].tgt /\ d.stale = term[t].stale /\ d.id = term[t].id
      BY <1>2, <2>4 DEF Command, Steps
    <2>6. Go(t, d)
      BY <2>2
    <2>. HIDE DEF d
    <2>7. CmdSound(d)
      BY <1>2, <2>4, <2>5 DEF CmdSound
    <2>8. CmdAims(term[t]) => CmdAims(d)
      BY <2>5 DEF CmdAims
    <2>9. StepKeeps(t) /\ term'[t] = d
      BY <1>1, <2>5, <2>6, <2>7, <2>8, GoKeeps
    <2>. QED BY <1>2, <2>5, <2>9
  <1>. QED BY <1>5, <1>6, <1>7, <1>8, <1>9 DEF Building

-----------------------------------------------------------------------------
(* All commands.                                                           *)

Begun(t) == \E v \in Verbs, w \in Workspaces : Begin(t, v, w)

LEMMA InitAims == KubeInit => AimInv
  <1>. SUFFICES ASSUME KubeInit PROVE AimInv
    OBVIOUS
  <1>. DEFINE Held == {state[w] : w \in Workspaces} \ {None}
  <1>1. /\ state \in [Workspaces -> Clusters \cup {None}] /\ record = state
        /\ status \in [Clusters -> {"new", "up", "gone"}]
        /\ term = [t \in Terminals |-> Idle]
    BY ClustersAssumption DEF KubeInit
  <1>2. Held \subseteq Clusters
    BY <1>1
  <1>3. files \in [Path -> Kubeconfig]
    <2>. HIDE DEF Held
    <2>1. PICK forge \in {Blank} \cup UNION {{Built(c), Token(c)} : c \in Held},
               default \in {Blank} \cup {Merged(Held, c) : c \in Held} :
            files = [f \in Path |-> IF f = Forge THEN forge
                                    ELSE IF f = Default THEN default ELSE Blank]
      BY DEF KubeInit, Held
    <2>2. forge \in Kubeconfig
      <3>1. forge = Blank \/ \E c \in Held : forge = Built(c) \/ forge = Token(c)
        OBVIOUS
      <3>. QED BY <1>2, <3>1, BlankIs, BuiltIs, TokenIs
    <2>3. default \in Kubeconfig
      BY <1>2, BlankIs, MergedIs
    <2>. QED BY <2>1, <2>2, <2>3, BlankIs
  <1>. QED BY <1>1, <1>3, IdleIs, IdleKeeps DEF AimInv, TypeInv, TypeOK

\* Only Read and ReadAll leave the resolver, and only Begin enters it.
LEMMA CommandDoes ==
  ASSUME TypeInv, NEW t \in Terminals, Step(t) \/ Again(t) \/ Crash(t) \/ Begun(t)
  PROVE  /\ StepKeeps(t)
         /\ \/ Read(t) \/ ReadAll(t) \/ Begun(t)
            \/ term[t].pc # "read" /\ term'[t].pc # "read"
  <1>1. CASE Read(t)
    BY <1>1, ReadDoes
  <1>2. CASE ReadAll(t)
    BY <1>2, ReadAllDoes
  <1>3. CASE Gate(t)
    BY <1>3, GateDoes DEF Gate, At
  <1>4. CASE Refresh(t) \/ RefreshFails(t)
    BY <1>4, RefreshDoes DEF Refresh, RefreshFails, At
  <1>5. CASE Run(t)
    BY <1>5, RunDoes DEF Run, At
  <1>6. CASE Building(t)
    BY <1>6, BuildingKeeps
  <1>7. CASE Again(t)
    BY <1>7, AgainDoes DEF Again, At
  <1>8. CASE Crash(t)
    BY <1>8, CrashDoes
  <1>9. CASE Begun(t)
    BY <1>9, BeginDoes DEF Begun
  <1>. QED BY <1>1, <1>2, <1>3, <1>4, <1>5, <1>6, <1>7, <1>8, <1>9 DEF Step, Building

\* A step is that of one terminal, or none has taken one.
LEMMA NextDoes ==
  ASSUME TypeInv, [KubeNext]_kubeVars
  PROVE  /\ TypeInv'
         /\ \/ UNCHANGED term
            \/ \E t \in Terminals : Step(t) \/ Again(t) \/ Crash(t) \/ Begun(t)
  <1>1. CASE UNCHANGED kubeVars
    BY <1>1 DEF kubeVars, TypeInv, TypeOK, CmdSound
  <1>2. CASE \E f \in Path : Age(f)
    BY <1>2, AgeDoes
  <1>3. CASE \E t \in Terminals : Step(t) \/ Again(t) \/ Crash(t) \/ Begun(t)
    BY <1>3, CommandDoes DEF StepKeeps
  <1>. QED BY <1>1, <1>2, <1>3 DEF KubeNext, Begun

LEMMA NextAims == AimInv /\ [KubeNext]_kubeVars => AimInv'
  <1>. SUFFICES ASSUME AimInv, [KubeNext]_kubeVars PROVE AimInv'
    OBVIOUS
  <1>1. TypeInv /\ \A t \in Terminals : CmdAims(term[t])
    BY DEF AimInv
  <1>2. CASE UNCHANGED term
    BY <1>1, <1>2, NextDoes DEF AimInv, CmdAims
  <1>3. ASSUME NEW t \in Terminals, Step(t) \/ Again(t) \/ Crash(t) \/ Begun(t)
        PROVE  AimInv'
    <2>1. StepKeeps(t)
      BY <1>1, <1>3, CommandDoes
    <2>2. ASSUME NEW u \in Terminals PROVE CmdAims(term[u])'
      <3>1. CASE u = t
        BY <1>1, <2>1, <3>1 DEF StepKeeps
      <3>2. CASE u # t
        BY <1>1, <2>1, <3>2 DEF StepKeeps, OthersStay, CmdAims
      <3>. QED BY <3>1, <3>2
    <2>. QED BY <2>1, <2>2 DEF AimInv, StepKeeps
  <1>. QED BY <1>1, <1>2, <1>3, NextDoes

\* The variables have their types in every reachable state, and every command aims
\* at the cluster it has been given.
THEOREM Aimed == KubeSpec => []AimInv
  BY InitAims, NextAims, PTL DEF KubeSpec

\* A k verb or a kubectl whose workspace knows its cluster talks to no other one, for
\* it hands on the context it chose (workspaceKubeTarget, injectKubeContext).
THEOREM TalksToItsCluster == KubeSpec => []RightCluster
  <1>1. AimInv => RightCluster
    BY DEF AimInv, CmdAims, RightCluster, At
  <1>. QED BY <1>1, Aimed, PTL

-----------------------------------------------------------------------------
(* The resolver.                                                           *)

\* What is watched has been so all along, and still is.
LEMMA WatchIs ==
  ASSUME Watch, NEW t \in Terminals, At(t, "read") \/ At(t, "read")'
  PROVE  /\ At(t, "read") => /\ watch'[t].addressed \subseteq watch[t].addressed
                             /\ watch'[t].live \subseteq watch[t].live
         /\ \A f \in watch'[t].addressed :
              f \in Range(Candidates[W(t)']) /\ Usable(files'[f], term'[t].id) # {}
         /\ \A f \in watch'[t].live :
              /\ f \in Range(Candidates[W(t)']) /\ Usable(files'[f], term'[t].id) # {}
              /\ Live(files'[f])
         /\ term'[t].id = None => watch'[t] = NoWatch
  <1>. DEFINE addr == {f \in Range(Candidates[W(t)']) : Usable(files'[f], term'[t].id) # {}}
              live == {f \in addr : Live(files'[f])}
              off  == term'[t].pc \notin {"read", "gate", "run", "refused"} \/ term'[t].id = None
  <1>1. watch'[t] = IF off THEN NoWatch
                    ELSE CASE At(t, "read") -> [addressed |-> watch[t].addressed \cap addr,
                                                live |-> watch[t].live \cap live]
                           [] At(t, "read")' /\ ~At(t, "read")
                                -> [addressed |-> addr, live |-> live]
                           [] OTHER -> watch[t]
    BY DEF Watch
  <1>2. live \subseteq addr
    OBVIOUS
  <1>3. \A f \in addr : f \in Range(Candidates[W(t)']) /\ Usable(files'[f], term'[t].id) # {}
    OBVIOUS
  <1>4. \A f \in live : Live(files'[f])
    OBVIOUS
  <1>5. term'[t].id = None => off
    OBVIOUS
  <1>. HIDE DEF addr, live, off
  <1>6. CASE off
    BY <1>1, <1>6 DEF NoWatch
  <1>7. CASE ~off /\ At(t, "read")
    <2>1. watch'[t] = [addressed |-> watch[t].addressed \cap addr,
                       live |-> watch[t].live \cap live]
      BY <1>1, <1>7
    <2>. QED BY <1>2, <1>3, <1>4, <1>5, <1>7, <2>1
  <1>8. CASE ~off /\ ~At(t, "read")
    <2>1. watch'[t] = [addressed |-> addr, live |-> live]
      BY <1>1, <1>8
    <2>. QED BY <1>2, <1>3, <1>4, <1>5, <1>8, <2>1
  <1>. QED BY <1>6, <1>7, <1>8

LEMMA InitWatches == KubeInit => WatchInv
  BY IdleIs DEF KubeInit, WatchInv, At

\* A terminal that reads on, or begins to.
LEMMA ReadingWatches ==
  ASSUME TypeInv, WatchInv, Watch, NEW t \in Terminals,
         Step(t) \/ Again(t) \/ Crash(t) \/ Begun(t), At(t, "read")'
  PROVE  /\ watch'[t].live \subseteq Range(term'[t].todo)
         /\ term'[t].stale = NoTarget =>
              watch'[t].addressed \subseteq Range(term'[t].todo)
  <1>1. CASE Read(t)
    <2>. DEFINE f == Head(term[t].todo)
    <2>1. /\ UNCHANGED files /\ term'[t].todo = Tail(term[t].todo)
          /\ term'[t].id = term[t].id
          /\ \/ /\ term'[t].stale = term[t].stale
                /\ Usable(files[f], term[t].id) = {}
             \/ term'[t].stale # NoTarget /\ ~Live(files[f])
      BY <1>1, ReadDoes DEF ReadTells, At
    <2>2. term[t].todo \in Seq(Path) /\ term[t].todo # <<>> /\ term[t].pc = "read"
      BY <1>1, WorkspaceKnown DEF Read, At, Ended
    <2>3. Range(term[t].todo) \subseteq {f} \cup Range(term'[t].todo)
      BY <2>1, <2>2, TailKeeps
    <2>4. /\ watch'[t].addressed \subseteq watch[t].addressed
          /\ watch'[t].live \subseteq watch[t].live
          /\ \A g \in watch'[t].addressed : Usable(files'[g], term'[t].id) # {}
          /\ \A g \in watch'[t].live : Usable(files'[g], term'[t].id) # {} /\ Live(files'[g])
      BY <2>2, WatchIs DEF At
    <2>5. /\ watch[t].live \subseteq Range(term[t].todo)
          /\ term[t].stale = NoTarget => watch[t].addressed \subseteq Range(term[t].todo)
      BY <2>2 DEF WatchInv, At
    <2>6. files'[f] = files[f]
      BY <2>1
    <2>7. f \notin watch'[t].live
      <3>1. CASE Usable(files[f], term[t].id) = {}
        BY <2>1, <2>4, <2>6, <3>1
      <3>2. CASE ~Live(files[f])
        BY <2>4, <2>6, <3>2
      <3>. QED BY <2>1, <3>1, <3>2
    <2>8. term'[t].stale = NoTarget => f \notin watch'[t].addressed /\ term[t].stale = NoTarget
      BY <2>1, <2>4, <2>6
    <2>. HIDE DEF f
    <2>. QED BY <2>3, <2>4, <2>5, <2>7, <2>8
  <1>2. CASE ReadAll(t)
    BY <1>2, ReadAllDoes DEF At
  <1>3. CASE Begun(t)
    <2>1. PICK v \in Verbs, w \in Workspaces : Begin(t, v, w)
      BY <1>3 DEF Begun
    <2>2. /\ term'[t].ws = w /\ (term'[t].id # None => term'[t].todo = Candidates[w])
      BY <2>1, BeginDoes
    <2>3. CASE term'[t].id = None
      <3>1. watch'[t] = NoWatch
        BY <2>3, WatchIs
      <3>. QED BY <3>1 DEF NoWatch
    <2>4. CASE term'[t].id # None
      <3>1. /\ \A f \in watch'[t].addressed : f \in Range(Candidates[W(t)'])
            /\ \A f \in watch'[t].live : f \in Range(Candidates[W(t)'])
        BY WatchIs
      <3>2. Candidates[W(t)'] = term'[t].todo
        BY <2>2, <2>4 DEF W
      <3>. QED BY <3>1, <3>2
    <2>. QED BY <2>3, <2>4
  <1>. QED BY <1>1, <1>2, <1>3, CommandDoes DEF At

LEMMA NextWatches == TypeInv /\ WatchInv /\ [KubeNext]_kubeVars => WatchInv'
  <1>. SUFFICES ASSUME TypeInv, WatchInv, [KubeNext]_kubeVars,
                       NEW t \in Terminals, At(t, "read")'
                PROVE  /\ watch'[t].live \subseteq Range(term'[t].todo)
                       /\ term'[t].stale = NoTarget =>
                            watch'[t].addressed \subseteq Range(term'[t].todo)
    BY DEF WatchInv
  <1>1. ASSUME Watch, term'[t] = term[t]
        PROVE  /\ watch'[t].live \subseteq Range(term'[t].todo)
               /\ term'[t].stale = NoTarget =>
                    watch'[t].addressed \subseteq Range(term'[t].todo)
    <2>1. At(t, "read")
      BY <1>1 DEF At
    <2>2. /\ watch'[t].addressed \subseteq watch[t].addressed
          /\ watch'[t].live \subseteq watch[t].live
      BY <1>1, <2>1, WatchIs
    <2>. QED BY <1>1, <2>1, <2>2 DEF WatchInv
  <1>2. CASE UNCHANGED kubeVars
    BY <1>2 DEF kubeVars, WatchInv, At
  <1>3. CASE KubeNext
    <2>1. Watch
      BY <1>3 DEF KubeNext
    <2>2. CASE UNCHANGED term
      BY <1>1, <2>1, <2>2
    <2>3. ASSUME NEW u \in Terminals, Step(u) \/ Again(u) \/ Crash(u) \/ Begun(u)
          PROVE  /\ watch'[t].live \subseteq Range(term'[t].todo)
                 /\ term'[t].stale = NoTarget =>
                      watch'[t].addressed \subseteq Range(term'[t].todo)
      <3>1. CASE u = t
        BY <2>1, <2>3, <3>1, ReadingWatches
      <3>2. CASE u # t
        BY <1>1, <2>1, <2>3, <3>2, CommandDoes DEF StepKeeps, OthersStay
      <3>. QED BY <3>1, <3>2
    <2>. QED BY <2>2, <2>3, NextDoes
  <1>. QED BY <1>2, <1>3

\* The resolver refuses only when no candidate has addressed the cluster all along, and
\* settles for an expired credential only when none has had a live one all along
\* (workspaceKubeTarget).
THEOREM ResolvesRight == KubeSpec => ResolverIsRight
  <1>. DEFINE Right(t) ==
         /\ At(t, "refused")' => watch'[t].addressed = {}
         /\ LET tgt == term'[t].tgt
            IN tgt # NoTarget /\ ~Live(files[tgt.path]) => watch'[t].live = {}
  <1>1. KubeSpec => [](TypeInv /\ WatchInv)
    <2>1. AimInv => TypeInv
      BY DEF AimInv
    <2>. QED BY <2>1, Aimed, InitWatches, NextWatches, PTL DEF KubeSpec
  <1>2. ASSUME TypeInv, WatchInv, [KubeNext]_kubeVars, NEW t \in Terminals,
               At(t, "read"), ~At(t, "read")'
        PROVE  Right(t)
    <2>1. KubeNext
      BY <1>2 DEF kubeVars, At
    <2>2. Watch
      BY <2>1 DEF KubeNext
    <2>3. /\ watch'[t].addressed \subseteq watch[t].addressed
          /\ watch'[t].live \subseteq watch[t].live
      BY <1>2, <2>2, WatchIs
    <2>4. Step(t) \/ Again(t) \/ Crash(t) \/ Begun(t)
      <3>1. term'[t] # term[t]
        BY <1>2 DEF At
      <3>2. PICK u \in Terminals : Step(u) \/ Again(u) \/ Crash(u) \/ Begun(u)
        BY <1>2, <3>1, NextDoes
      <3>3. u = t
        BY <1>2, <3>1, <3>2, CommandDoes DEF StepKeeps, OthersStay
      <3>. QED BY <3>2, <3>3
    <2>5. CASE Read(t)
      <3>1. term'[t].pc \in {"gate", "run"} /\ Live(files[term'[t].tgt.path])
        BY <1>2, <2>5, ReadDoes DEF ReadTells, At
      <3>. QED BY <3>1 DEF At
    <2>6. CASE ReadAll(t)
      <3>1. /\ term'[t].tgt = term[t].stale
            /\ term'[t].pc = "refused" => term[t].stale = NoTarget
        BY <1>2, <2>6, ReadAllDoes
      <3>2. Range(term[t].todo) = {}
        BY <2>6 DEF ReadAll, Range
      <3>3. watch[t].live = {} /\ (term[t].stale = NoTarget => watch[t].addressed = {})
        BY <1>2, <3>2 DEF WatchInv
      <3>. QED BY <2>3, <3>1, <3>3 DEF At
    <2>7. CASE Begun(t)
      BY <1>2, <2>7, BeginDoes DEF Begun, At, Ended
    <2>. QED BY <1>2, <2>4, <2>5, <2>6, <2>7, CommandDoes DEF At
  <1>3. TypeInv /\ WatchInv /\ [KubeNext]_kubeVars =>
          [\A t \in Terminals : At(t, "read") /\ ~At(t, "read")' => Right(t)]_kubeVars
    BY <1>2
  <1>. QED BY <1>1, <1>3, PTL DEF KubeSpec, ResolverIsRight
=============================================================================
