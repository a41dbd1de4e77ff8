----------------------- MODULE TerraformState_proofs -----------------------
(***************************************************************************)
(* Why no phase works on another's state, and none on half a source tree,  *)
(* for any phases in any order, any backend and any number of resources.   *)
(***************************************************************************)
EXTENDS TerraformState, SequenceTheorems, TLAPS

Setups == States \cup {Nowhere}

RunType ==
  [cmd : {"none", "plan", "up", "down", "migrate"}, todo : Seq(Phases),
   step : {"none", "check", "fetch", "unpack", "seed", "open", "init", "apply"},
   ready : SUBSET Phases, backend : Backends, force : BOOLEAN]

TypeInv ==
  /\ backend \in Backends /\ made \in Nat
  /\ tree \in [Dirs -> {None, "partial", "whole"}] /\ lock \in [Dirs -> {None, "part", "whole"}]
  /\ override \in [Dirs -> Setups] /\ initialised \in [Dirs -> Setups]
  /\ doc \in [States -> SUBSET (Phases \X Nat)]
  /\ run \in RunType

-----------------------------------------------------------------------------
(* Types.                                                                  *)

LEMMA OrderType == Order \in Seq(Phases)
  BY PhasesAssumption

LEMMA DirType == \A p \in Phases : Dir(p) \in Dirs
  BY DEF Dir, Dirs

LEMMA IdleType == Idle \in RunType
  BY DEF Idle, RunType, Backends

\* A command begins with the phases it will visit.
LEMMA StartType ==
  ASSUME TypeInv, NEW cmd \in {"plan", "up", "down", "migrate"}, NEW todo \in Seq(Phases),
         NEW step \in {"fetch", "check"}, NEW force \in BOOLEAN, Start(cmd, todo, step, force)
  PROVE  run' \in RunType /\ run'.ready = {} /\ run'.step = step
         /\ UNCHANGED <<backend, tree, lock, override, initialised, doc, made>>
  BY DEF Start, TypeInv, RunType

\* Where a command can be.
RunSound ==
  /\ run.step = "check" => run.cmd = "migrate"
  /\ run.step = "apply" => run.todo = <<>>
  /\ run.step \in {"check", "fetch", "unpack", "seed", "open", "init"} => run.todo # <<>>
  /\ run.cmd = "none" => run.step = "none" /\ run.ready = {}

Sound == TypeInv /\ RunSound

LEMMA InitSound == StateInit => Sound
  <1>. SUFFICES ASSUME StateInit PROVE Sound
    OBVIOUS
  <1>1. /\ tree \in [Dirs -> {None, "partial", "whole"}] /\ lock \in [Dirs -> {None, "part", "whole"}]
        /\ override \in [Dirs -> Setups] /\ initialised \in [Dirs -> Setups]
        /\ doc \in [States -> SUBSET (Phases \X Nat)]
    BY DEF StateInit, Setups
  <1>2. run = Idle /\ backend \in Backends /\ made \in Nat
    BY DEF StateInit
  <1>. QED BY <1>1, <1>2, IdleType DEF Sound, TypeInv, RunSound, Idle

\* A step that changes nothing but the place of the command.
LEMMA OnlyRun ==
  ASSUME TypeInv, run' \in RunType,
         UNCHANGED <<backend, tree, lock, override, initialised, doc, made>>
  PROVE  TypeInv'
  BY DEF TypeInv

AnyStart ==
  \/ \E p \in Phases : StartPlan(p) \/ StartUp(<<p>>) \/ StartDown(p)
  \/ StartUp(Order)
  \/ \E force \in BOOLEAN : StartMigrate(force)

LEMMA StartSound ==
  ASSUME Sound, AnyStart
  PROVE  /\ Sound' /\ run'.ready = {} /\ run'.step \in {"fetch", "check"}
         /\ UNCHANGED <<backend, tree, lock, override, initialised, doc, made>>
  <1>1. PICK cmd \in {"plan", "up", "down", "migrate"}, todo \in Seq(Phases),
             step \in {"fetch", "check"}, force \in BOOLEAN :
               Start(cmd, todo, step, force) /\ (step = "check" => cmd = "migrate")
    <2>1. \A p \in Phases : <<p>> \in Seq(Phases)
      OBVIOUS
    <2>. QED BY <2>1, OrderType DEF AnyStart, StartPlan, StartUp, StartDown, StartMigrate
  <1>2. /\ run' \in RunType /\ run'.ready = {} /\ run'.step = step
        /\ UNCHANGED <<backend, tree, lock, override, initialised, doc, made>>
    BY <1>1, StartType DEF Sound
  <1>3. run'.cmd = cmd /\ run'.todo # <<>>
    BY <1>1 DEF Start
  <1>. QED BY <1>1, <1>2, <1>3, OnlyRun DEF Sound, RunSound

\* Advance goes to a phase further on, to the apply, or ends the command; a migration
\* has nothing ready.
LEMMA AdvanceSound ==
  ASSUME Sound, run.cmd # "none", run.todo # <<>>, Advance
  PROVE  /\ run' \in RunType /\ RunSound'
         /\ run'.step \in {"check", "fetch", "apply", "none"}
         /\ run'.ready \subseteq run.ready \cup {Head(run.todo)}
         /\ run.cmd = "migrate" => run'.ready \subseteq run.ready
  <1>. DEFINE rest == Tail(run.todo)
              ready == run.ready \cup {Head(run.todo)}
  <1>1. rest \in Seq(Phases) /\ Head(run.todo) \in Phases
    BY HeadTailProperties DEF Sound, TypeInv, RunType
  <1>2. ready \in SUBSET Phases
    BY <1>1 DEF Sound, TypeInv, RunType
  <1>3. \/ /\ run.cmd = "migrate" /\ rest # <<>>
           /\ run' = [run EXCEPT !.todo = rest, !.step = "check"]
        \/ /\ run.cmd # "migrate" /\ rest # <<>>
           /\ run' = [run EXCEPT !.todo = rest, !.step = "fetch", !.ready = ready]
        \/ /\ run.cmd # "migrate" /\ rest = <<>>
           /\ run' = [run EXCEPT !.todo = rest, !.step = "apply", !.ready = ready]
        \/ run' = Idle
    BY DEF Advance
  <1>. HIDE DEF rest, ready
  <1>4. CASE /\ run.cmd = "migrate" /\ rest # <<>>
             /\ run' = [run EXCEPT !.todo = rest, !.step = "check"]
    BY <1>1, <1>4 DEF Sound, TypeInv, RunType, RunSound
  <1>5. CASE /\ run.cmd # "migrate" /\ rest # <<>>
             /\ run' = [run EXCEPT !.todo = rest, !.step = "fetch", !.ready = ready]
    BY <1>1, <1>2, <1>5 DEF Sound, TypeInv, RunType, RunSound, ready
  <1>6. CASE /\ run.cmd # "migrate" /\ rest = <<>>
             /\ run' = [run EXCEPT !.todo = rest, !.step = "apply", !.ready = ready]
    BY <1>1, <1>2, <1>6 DEF Sound, TypeInv, RunType, RunSound, ready
  <1>7. CASE run' = Idle
    BY <1>7, IdleType DEF Idle, RunSound
  <1>. QED BY <1>3, <1>4, <1>5, <1>6, <1>7

\* The phase at hand, and its directory.
LEMMA HeadType ==
  ASSUME Sound, NEW step, Leg(step)
  PROVE  Head(run.todo) \in Phases /\ Dir(Head(run.todo)) \in Dirs /\ run.todo # <<>>
  BY HeadTailProperties, DirType DEF Sound, TypeInv, RunType, Leg

\* A step within a leg changes where the command is, and one entry of a directory.
LEMMA LegSound ==
  ASSUME Sound, NEW from \in {"fetch", "unpack", "seed", "open", "check"}, Leg(from),
         NEW step \in {"fetch", "unpack", "seed", "open", "init"}, run' = [run EXCEPT !.step = step]
  PROVE  run' \in RunType /\ RunSound' /\ run'.step = step /\ run'.ready = run.ready
         /\ run'.todo = run.todo /\ run'.cmd = run.cmd /\ run'.backend = run.backend
  BY DEF Sound, TypeInv, RunType, RunSound, Leg

Seed == SeedLock \/ LockSeeded

LEMMA FetchSound == Sound /\ (Fetch \/ Seed \/ Unpacked \/ UnpackFails \/ Open) => Sound'
  <1>. SUFFICES ASSUME Sound, Fetch \/ Seed \/ Unpacked \/ UnpackFails \/ Open PROVE Sound'
    OBVIOUS
  <1>. DEFINE p == Head(run.todo)
  <1>1. p \in Phases /\ Dir(p) \in Dirs
    BY HeadType DEF Fetch, Seed, SeedLock, LockSeeded, Unpacked, UnpackFails, Open
  <1>2. run' \in RunType /\ RunSound'
    <2>1. CASE Fetch
      BY <2>1, LegSound DEF Fetch
    <2>2. CASE Unpacked
      BY <2>2, LegSound DEF Unpacked
    <2>3. CASE UnpackFails
      BY <2>3, IdleType DEF UnpackFails, RunSound, Idle
    <2>4. CASE Open
      BY <2>4, LegSound DEF Open
    <2>5. CASE Seed
      BY <2>5, LegSound DEF Seed, SeedLock, LockSeeded
    <2>. QED BY <2>1, <2>2, <2>3, <2>4, <2>5
  <1>3. UNCHANGED <<backend, initialised, doc, made>>
    BY DEF Fetch, Seed, SeedLock, LockSeeded, Unpacked, UnpackFails, Open
  <1>4. tree' \in [Dirs -> {None, "partial", "whole"}]
    BY <1>1 DEF Fetch, Seed, SeedLock, LockSeeded, Unpacked, UnpackFails, Open, Sound, TypeInv
  <1>6. lock' \in [Dirs -> {None, "part", "whole"}]
    BY <1>1 DEF Fetch, Seed, SeedLock, LockSeeded, Unpacked, UnpackFails, Open, Sound, TypeInv
  <1>5. override' \in [Dirs -> Setups]
    <2>1. <<run.backend, p>> \in Setups
      BY <1>1 DEF Sound, TypeInv, RunType, Setups, States
    <2>. QED BY <1>1, <2>1
          DEF Fetch, Seed, SeedLock, LockSeeded, Unpacked, UnpackFails, Open, Sound, TypeInv
  <1>. QED BY <1>2, <1>3, <1>4, <1>5, <1>6 DEF Sound, TypeInv

LEMMA SetUpSound == Sound /\ (Init \/ Check \/ Migrate \/ MigrateFails \/ Fail) => Sound'
  <1>. SUFFICES ASSUME Sound, Init \/ Check \/ Migrate \/ MigrateFails \/ Fail PROVE Sound'
    OBVIOUS
  <1>1. run' \in RunType /\ RunSound'
    <2>1. CASE Init
      BY <2>1, AdvanceSound DEF Init, Leg, Sound, RunSound
    <2>2. CASE Check
      BY <2>2, AdvanceSound, LegSound DEF Check, Leg, Sound, RunSound
    <2>3. CASE Migrate
      BY <2>3, AdvanceSound DEF Migrate, Leg
    <2>4. CASE MigrateFails
      BY <2>4, AdvanceSound DEF MigrateFails, Sound, RunSound
    <2>5. CASE Fail
      BY <2>5, IdleType DEF Fail, RunSound, Idle
    <2>. QED BY <2>1, <2>2, <2>3, <2>4, <2>5
  <1>2. UNCHANGED <<backend, tree, override, made>>
    BY DEF Init, Check, Migrate, MigrateFails, Fail
  <1>3. initialised' \in [Dirs -> Setups]
    BY HeadType DEF Init, Check, Migrate, MigrateFails, Fail, Sound, TypeInv
  <1>4. doc' \in [States -> SUBSET (Phases \X Nat)]
    <2>1. CASE Init \/ Check \/ MigrateFails \/ Fail
      BY <2>1 DEF Init, Check, MigrateFails, Fail, Sound, TypeInv
    <2>2. CASE Migrate
      <3>. DEFINE d == Dir(Head(run.todo))
                  from == initialised[d]
      <3>1. UNCHANGED doc \/ (from # Nowhere /\ doc' = [doc EXCEPT ![override[d]] = doc[from]])
        BY <2>2 DEF Migrate
      <3>2. from \in Setups
        BY <2>2, HeadType DEF Migrate, Sound, TypeInv
      <3>. HIDE DEF d, from
      <3>. QED BY <3>1, <3>2 DEF Sound, TypeInv, Setups
    <2>. QED BY <2>1, <2>2
  <1>5. lock' \in [Dirs -> {None, "part", "whole"}]
    BY HeadType DEF Init, Check, Migrate, MigrateFails, Fail, Sound, TypeInv
  <1>. QED BY <1>1, <1>2, <1>3, <1>4, <1>5 DEF Sound, TypeInv

\* Terraform on a state: the resources of a phase, and one more.
LEMMA ApplySound ==
  ASSUME Sound, NEW p \in Phases, Apply(p) \/ Destroy(p)
  PROVE  Sound'
  <1>. DEFINE s == initialised[Dir(p)]
  <1>1. run' \in RunType /\ RunSound'
    <2>1. run.step = "apply" /\ run.cmd # "none"
      BY DEF Apply, Destroy, Ready
    <2>2. run' = Idle \/ run' = [run EXCEPT !.ready = @ \ {p}]
      BY DEF Apply, Destroy, Done
    <2>3. CASE run' = Idle
      BY <2>3, IdleType DEF RunSound, Idle
    <2>4. CASE run' = [run EXCEPT !.ready = @ \ {p}]
      BY <2>1, <2>4 DEF Sound, TypeInv, RunType, RunSound
    <2>. QED BY <2>2, <2>3, <2>4
  <1>2. UNCHANGED <<backend, tree, lock, override, initialised>> /\ made' \in Nat
    BY DEF Apply, Destroy, Sound, TypeInv
  <1>3. doc' \in [States -> SUBSET (Phases \X Nat)]
    <2>1. CASE Apply(p)
      <3>. DEFINE kept == {r \in doc[s] \intersect cloud : r[1] = p}
                  new == IF kept = {} THEN {<<p, made + 1>>} ELSE {}
                  after == kept \union new
      <3>1. doc' = [doc EXCEPT ![s] = after]
        BY <2>1 DEF Apply
      <3>2. s \in States => after \subseteq Phases \X Nat
        BY DEF Sound, TypeInv
      <3>. HIDE DEF after, s
      <3>. QED BY <3>1, <3>2 DEF Sound, TypeInv
    <2>2. CASE Destroy(p)
      BY <2>2 DEF Destroy, Sound, TypeInv
    <2>. QED BY <2>1, <2>2
  <1>. QED BY <1>1, <1>2, <1>3 DEF Sound, TypeInv

LEMMA EditSound == Sound /\ (StateS3 \/ StateLocal \/ Reinit \/ Delete) => Sound'
  <1>. SUFFICES ASSUME Sound, StateS3 \/ StateLocal \/ Reinit \/ Delete PROVE Sound'
    OBVIOUS
  <1>1. CASE StateS3 \/ StateLocal \/ Reinit
    BY <1>1 DEF StateS3, StateLocal, Reinit, Edit, Sound, TypeInv, RunSound, Backends
  <1>2. CASE Delete
    <2>1. UNCHANGED <<backend, made, run>>
      BY <1>2 DEF Delete
    <2>2. /\ tree' \in [Dirs -> {None, "partial", "whole"}] /\ lock' \in [Dirs -> {None, "part", "whole"}]
          /\ override' \in [Dirs -> Setups] /\ initialised' \in [Dirs -> Setups]
      BY <1>2 DEF Delete, Sound, TypeInv, Setups
    <2>3. doc' \in [States -> SUBSET (Phases \X Nat)]
      BY <1>2 DEF Delete, Sound, TypeInv
    <2>. QED BY <2>1, <2>2, <2>3 DEF Sound, TypeInv, RunSound
  <1>. QED BY <1>1, <1>2

LEMMA NextSound == Sound /\ [StateNext]_statevars => Sound'
  <1>. SUFFICES ASSUME Sound, [StateNext]_statevars PROVE Sound'
    OBVIOUS
  <1>1. CASE AnyStart
    BY <1>1, StartSound
  <1>2. CASE Fetch \/ Seed \/ Unpacked \/ UnpackFails \/ Open
    BY <1>2, FetchSound
  <1>3. CASE Init \/ Check \/ Migrate \/ MigrateFails \/ Fail
    BY <1>3, SetUpSound
  <1>4. CASE \E p \in Phases : Apply(p) \/ Destroy(p)
    BY <1>4, ApplySound
  <1>5. CASE StateS3 \/ StateLocal \/ Reinit \/ Delete
    BY <1>5, EditSound
  <1>6. CASE UNCHANGED statevars
    BY <1>6 DEF statevars, Sound, TypeInv, RunSound
  <1>. QED BY <1>1, <1>2, <1>3, <1>4, <1>5, <1>6 DEF StateNext, AnyStart, Seed

LEMMA AlwaysSound == StateSpec => []Sound
  BY InitSound, NextSound, PTL DEF StateSpec

-----------------------------------------------------------------------------
(* Every phase works on its own state.                                     *)

\* A directory of a phase names no other phase's state.
OwnDirs ==
  \A p \in Phases : /\ override[p] \in (Backends \X {p}) \cup {Nowhere}
                    /\ initialised[p] \in (Backends \X {p}) \cup {Nowhere}

\* What is to be applied has been set up, for a state of its own.
ReadyOwn == \A p \in run.ready : initialised[p] \in Backends \X {p}

\* terraform init finds the override of the phase at hand.
HeadOwn == run.step = "init" => override[Head(run.todo)] \in Backends \X {Head(run.todo)}

OwnInv == Sound /\ OwnDirs /\ ReadyOwn /\ HeadOwn /\ OwnState

LEMMA InitOwn == StateInit => OwnInv
  <1>. SUFFICES ASSUME StateInit PROVE OwnInv
    OBVIOUS
  <1>1. run.ready = {} /\ run.step = "none"
    BY DEF StateInit, Idle
  <1>2. OwnDirs
    BY DEF StateInit, OwnDirs, Dirs
  <1>3. OwnState
    BY DEF StateInit, OwnState
  <1>. QED BY <1>1, <1>2, <1>3, InitSound DEF OwnInv, ReadyOwn, HeadOwn

\* The directories of the phases lie apart, unless the source is a local one.
LEMMA OwnDir ==
  ASSUME Source # "local"
  PROVE  \A p \in Phases : Dir(p) = p
  BY DEF Dir

\* A step that sets no directory up and writes no state.
LEMMA Elsewhere ==
  ASSUME OwnInv, Sound', UNCHANGED <<override, initialised, doc>>,
         run'.ready \subseteq run.ready, run'.step # "init"
  PROVE  OwnInv'
  BY DEF OwnInv, OwnDirs, ReadyOwn, HeadOwn, OwnState

LEMMA LegOwn ==
  ASSUME Source # "local", OwnInv, Sound', Fetch \/ Seed \/ Unpacked \/ UnpackFails \/ Open
  PROVE  OwnInv'
  <1>1. CASE Fetch \/ Seed \/ Unpacked \/ UnpackFails
    <2>1. run'.ready \subseteq run.ready /\ run'.step # "init"
      BY <1>1 DEF Fetch, Seed, SeedLock, LockSeeded, Unpacked, UnpackFails, Idle, OwnInv, Sound,
                  TypeInv, RunType
    <2>. QED BY <1>1, <2>1, Elsewhere DEF Fetch, Seed, SeedLock, LockSeeded, Unpacked, UnpackFails
  <1>2. CASE Open
    <2>. DEFINE p == Head(run.todo)
    <2>1. p \in Phases /\ Dir(p) = p /\ p \in Dirs
      BY <1>2, HeadType, OwnDir DEF Open, OwnInv
    <2>2. override' = [override EXCEPT ![p] = <<run.backend, p>>] /\ run.backend \in Backends
      BY <1>2, <2>1 DEF Open, OwnInv, Sound, TypeInv, RunType
    <2>3. /\ run'.todo = run.todo /\ run'.ready = run.ready
          /\ UNCHANGED <<initialised, doc>>
      BY <1>2 DEF Open, OwnInv, Sound, TypeInv, RunType
    <2>4. override'[p] = <<run.backend, p>> /\ \A q \in Phases \ {p} : override'[q] = override[q]
      BY <2>1, <2>2 DEF OwnInv, Sound, TypeInv, Dirs
    <2>. HIDE DEF p
    <2>5. OwnDirs'
      BY <2>1, <2>2, <2>3, <2>4 DEF OwnInv, OwnDirs
    <2>6. HeadOwn'
      BY <2>2, <2>3, <2>4 DEF HeadOwn, p
    <2>. QED BY <2>3, <2>5, <2>6 DEF OwnInv, ReadyOwn, OwnState
  <1>. QED BY <1>1, <1>2

\* Only init makes a phase ready.
LEMMA InitOwnStep ==
  ASSUME Source # "local", OwnInv, Sound', Init \/ Migrate
  PROVE  OwnInv'
  <1>. DEFINE p == Head(run.todo)
              b == override[p]
              from == initialised[p]
  <1>1. /\ p \in Phases /\ Dir(p) = p /\ p \in Dirs
        /\ run.step = "init" /\ run.todo # <<>> /\ run.cmd # "none"
    BY HeadType, OwnDir DEF Init, Migrate, Leg, OwnInv, Sound, RunSound
  <1>2. b \in Backends \X {p} /\ from \in (Backends \X {p}) \cup {Nowhere}
    BY <1>1 DEF OwnInv, HeadOwn, OwnDirs
  <1>3. initialised' = [initialised EXCEPT ![p] = b] /\ UNCHANGED override
    BY <1>1 DEF Init, Migrate
  <1>4. UNCHANGED doc \/ (from # Nowhere /\ doc' = [doc EXCEPT ![b] = doc[from]])
    BY <1>1 DEF Init, Migrate
  <1>5. run'.ready \subseteq run.ready \cup {p} /\ run'.step # "init"
    BY <1>1, AdvanceSound DEF Init, Migrate, OwnInv
  <1>6. /\ initialised'[p] = b
        /\ \A q \in Phases \ {p} : initialised'[q] = initialised[q]
    BY <1>1, <1>3 DEF OwnInv, Sound, TypeInv, Dirs
  <1>. HIDE DEF p, b, from
  <1>7. OwnDirs' /\ ReadyOwn'
    <2>1. run'.ready \subseteq Phases
      BY DEF Sound, TypeInv, RunType
    <2>. QED BY <1>2, <1>3, <1>5, <1>6, <2>1 DEF OwnInv, OwnDirs, ReadyOwn
  <1>8. OwnState'
    <2>1. CASE UNCHANGED doc
      BY <2>1 DEF OwnInv, OwnState
    <2>2. CASE from # Nowhere /\ doc' = [doc EXCEPT ![b] = doc[from]]
      <3>1. from \in States /\ from[2] = p /\ b \in States /\ b[2] = p
        BY <1>1, <1>2, <2>2 DEF States
      <3>2. \A r \in doc[from] : r[1] = p
        BY <3>1 DEF OwnInv, OwnState
      <3>3. \A s \in States : doc'[s] = IF s = b THEN doc[from] ELSE doc[s]
        BY <2>2 DEF OwnInv, Sound, TypeInv
      <3>. QED BY <3>1, <3>2, <3>3 DEF OwnInv, OwnState
    <2>. QED BY <1>4, <2>1, <2>2
  <1>. QED BY <1>5, <1>7, <1>8 DEF OwnInv, HeadOwn

LEMMA CheckOwn ==
  ASSUME OwnInv, Sound', Check \/ MigrateFails \/ Fail
  PROVE  OwnInv'
  <1>1. run'.ready \subseteq run.ready /\ run'.step # "init"
    <2>1. CASE Check
      BY <2>1, AdvanceSound DEF Check, Leg, OwnInv, Sound, TypeInv, RunType, RunSound
    <2>2. CASE MigrateFails
      BY <2>2, AdvanceSound DEF MigrateFails, OwnInv, Sound, RunSound
    <2>3. CASE Fail
      BY <2>3 DEF Fail, Idle
    <2>. QED BY <2>1, <2>2, <2>3
  <1>. QED BY <1>1, Elsewhere DEF Check, MigrateFails, Fail

\* Terraform writes the state the phase's directory is set up for.
LEMMA ApplyOwn ==
  ASSUME Source # "local", OwnInv, Sound', NEW p \in Phases, Apply(p) \/ Destroy(p)
  PROVE  OwnInv'
  <1>. DEFINE s == initialised[p]
  <1>1. Dir(p) = p /\ p \in run.ready
    BY OwnDir DEF Apply, Destroy, Ready
  <1>2. s \in States /\ s[2] = p
    BY <1>1 DEF OwnInv, ReadyOwn, States
  <1>3. UNCHANGED <<override, initialised>>
    BY DEF Apply, Destroy
  <1>4. run'.ready \subseteq run.ready /\ run'.step # "init"
    BY DEF Apply, Destroy, Done, Ready, Idle, OwnInv, Sound, TypeInv, RunType
  <1>5. doc'[s] \subseteq {r \in doc[s] : r[1] = p} \cup {<<p, made + 1>>}
    <2>1. CASE Apply(p)
      <3>. DEFINE kept == {r \in doc[s] \intersect cloud : r[1] = p}
                  new == IF kept = {} THEN {<<p, made + 1>>} ELSE {}
                  after == kept \union new
      <3>1. doc' = [doc EXCEPT ![s] = after]
        BY <1>1, <2>1 DEF Apply
      <3>2. after \subseteq {r \in doc[s] : r[1] = p} \cup {<<p, made + 1>>}
        OBVIOUS
      <3>. HIDE DEF after, s
      <3>. QED BY <1>2, <3>1, <3>2 DEF OwnInv, Sound, TypeInv
    <2>2. CASE Destroy(p)
      BY <1>1, <1>2, <2>2 DEF Destroy, OwnInv, Sound, TypeInv
    <2>. QED BY <2>1, <2>2
  <1>6. \A t \in States \ {s} : doc'[t] = doc[t]
    BY <1>1, <1>2 DEF Apply, Destroy, OwnInv, Sound, TypeInv
  <1>. HIDE DEF s
  <1>7. OwnState'
    BY <1>2, <1>5, <1>6 DEF OwnInv, OwnState
  <1>. QED BY <1>3, <1>4, <1>7 DEF OwnInv, OwnDirs, ReadyOwn, HeadOwn

LEMMA EditOwn ==
  ASSUME Source # "local", OwnInv, Sound', StateS3 \/ StateLocal \/ Reinit \/ Delete
  PROVE  OwnInv'
  <1>1. CASE StateS3 \/ StateLocal \/ Reinit
    <2>1. UNCHANGED <<override, initialised, doc, run>>
      BY <1>1 DEF StateS3, StateLocal, Reinit, Edit
    <2>. QED BY <2>1 DEF OwnInv, OwnDirs, ReadyOwn, HeadOwn, OwnState
  <1>2. CASE Delete
    <2>1. run.ready = {} /\ run.step = "none" /\ run' = run
      BY <1>2 DEF Delete, OwnInv, Sound, RunSound
    <2>2. \A p \in Phases : override'[p] = Nowhere /\ initialised'[p] = Nowhere
      BY <1>2 DEF Delete, Dirs
    <2>3. \A s \in States : doc'[s] \subseteq doc[s]
      BY <1>2 DEF Delete
    <2>. QED BY <2>1, <2>2, <2>3 DEF OwnInv, OwnDirs, ReadyOwn, HeadOwn, OwnState
  <1>. QED BY <1>1, <1>2

LEMMA NextOwn ==
  ASSUME Source # "local"
  PROVE  OwnInv /\ [StateNext]_statevars => OwnInv'
  <1>. SUFFICES ASSUME OwnInv, [StateNext]_statevars PROVE OwnInv'
    OBVIOUS
  <1>0. Sound'
    BY NextSound DEF OwnInv
  <1>1. CASE AnyStart
    <2>1. /\ run'.ready = {} /\ run'.step # "init"
          /\ UNCHANGED <<override, initialised, doc>>
      BY <1>1, StartSound DEF OwnInv
    <2>. QED BY <1>0, <2>1, Elsewhere
  <1>2. CASE Fetch \/ Seed \/ Unpacked \/ UnpackFails \/ Open
    BY <1>0, <1>2, LegOwn
  <1>3. CASE Init \/ Migrate
    BY <1>0, <1>3, InitOwnStep
  <1>4. CASE Check \/ MigrateFails \/ Fail
    BY <1>0, <1>4, CheckOwn
  <1>5. CASE \E p \in Phases : Apply(p) \/ Destroy(p)
    BY <1>0, <1>5, ApplyOwn
  <1>6. CASE StateS3 \/ StateLocal \/ Reinit \/ Delete
    BY <1>0, <1>6, EditOwn
  <1>7. CASE UNCHANGED statevars
    BY <1>0, <1>7 DEF statevars, OwnInv, OwnDirs, ReadyOwn, HeadOwn, OwnState
  <1>. QED BY <1>1, <1>2, <1>3, <1>4, <1>5, <1>6, <1>7 DEF StateNext, AnyStart, Seed

\* The state of a phase lists what that phase created and nothing else, unless the source
\* is a local one, whose tree the phases share (FetchSourceForLine, S3StateKey,
\* runStateMigrate).
THEOREM StatesApart ==
  ASSUME Source # "local"
  PROVE  StateSpec => []OwnState
  <1>1. OwnInv /\ [StateNext]_statevars => OwnInv'
    BY NextOwn
  <1>2. OwnInv => OwnState
    BY DEF OwnInv
  <1>. QED BY <1>1, <1>2, InitOwn, PTL DEF StateSpec

-----------------------------------------------------------------------------
(* Whole trees.                                                            *)

\* The phase whose directory is being written.
Unpacking(p) == run.step \in {"unpack", "seed"} /\ Dir(p) = Dir(Head(run.todo))

\* What is ready went through terraform init, which leaves a whole lockfile; a seed is
\* written only where none lay.
LocksWhole == \A p \in run.ready : lock[Dir(p)] = "whole"
              \/ (run.step = "seed" /\ Dir(p) = Dir(Head(run.todo)))

TreeInv ==
  /\ Sound
  /\ Source = "local" => tree["shared"] = "whole" /\ run.step \notin {"unpack", "seed"}
  /\ \A p \in run.ready : tree[Dir(p)] = "whole" \/ Unpacking(p)
  /\ LocksWhole
  /\ run.step \in {"open", "init"} => tree[Dir(Head(run.todo))] = "whole"

LEMMA InitTree == StateInit => TreeInv
  BY InitSound DEF StateInit, TreeInv, LocksWhole, Idle, Dirs

LEMMA TreeWhole == TreeInv => WholeTree
  BY DEF TreeInv, LocksWhole, WholeTree, Unpacking, Sound, RunSound

\* A step that leaves the trees alone and opens no directory.
LEMMA TreesKept ==
  ASSUME TreeInv, Sound', UNCHANGED <<tree, lock>>,
         run'.ready \subseteq run.ready, run.step \notin {"unpack", "seed"},
         run'.step \notin {"unpack", "seed", "open", "init"}
  PROVE  TreeInv'
  BY DEF TreeInv, LocksWhole, Unpacking

\* A download is taken as it lies there; any other tree is unpacked before it is used.
LEMMA FetchTree ==
  ASSUME Source # "github", TreeInv, Sound', Fetch \/ Unpacked \/ Open
  PROVE  TreeInv'
  <1>. DEFINE p == Head(run.todo)
              d == Dir(p)
  <1>1. p \in Phases /\ d \in Dirs
    BY HeadType DEF Fetch, Unpacked, Open, TreeInv
  <1>2. run'.todo = run.todo /\ run'.ready = run.ready /\ UNCHANGED lock
        /\ run.step # "seed" /\ run'.step # "seed"
    BY DEF Fetch, Unpacked, Open, Leg, TreeInv, Sound, TypeInv, RunType
  <1>3. tree \in [Dirs -> {None, "partial", "whole"}] /\ \A q \in Phases : Dir(q) \in Dirs
    BY DirType DEF TreeInv, Sound, TypeInv
  <1>4. run.ready \subseteq Phases
    BY DEF TreeInv, Sound, TypeInv, RunType
  <1>9. LocksWhole'
    BY <1>2 DEF TreeInv, LocksWhole
  <1>5. CASE Fetch /\ Reused(d)
    <2>1. Source = "local" /\ d = "shared"
      BY <1>5 DEF Reused, Dir
    <2>2. UNCHANGED tree /\ run.step = "fetch" /\ run'.step = "open"
      BY <1>5 DEF Fetch, Leg, TreeInv, Sound, TypeInv, RunType
    <2>. QED BY <1>2, <1>9, <2>1, <2>2 DEF TreeInv, Unpacking
  <1>6. CASE Fetch /\ ~Reused(d)
    <2>1. tree' = [tree EXCEPT ![d] = "partial"] /\ run.step = "fetch" /\ run'.step = "unpack"
      BY <1>6 DEF Fetch, Leg, TreeInv, Sound, TypeInv, RunType
    <2>2. Source # "local"
      BY <1>6 DEF Reused
    <2>3. \A q \in run.ready : tree'[Dir(q)] = "whole" \/ Dir(q) = d
      BY <1>1, <1>3, <1>4, <2>1 DEF TreeInv, Unpacking
    <2>. QED BY <1>2, <1>9, <2>1, <2>2, <2>3 DEF TreeInv, Unpacking
  <1>7. CASE Unpacked
    <2>1. tree' = [tree EXCEPT ![d] = "whole"] /\ run.step = "unpack" /\ run'.step = "open"
      BY <1>7 DEF Unpacked, Leg, TreeInv, Sound, TypeInv, RunType
    <2>2. \A e \in Dirs : tree'[e] = IF e = d THEN "whole" ELSE tree[e]
      BY <1>1, <1>3, <2>1
    <2>3. \A q \in run.ready : tree'[Dir(q)] = "whole"
      BY <1>3, <1>4, <2>1, <2>2 DEF TreeInv, Unpacking
    <2>4. "shared" \in Dirs
      BY DEF Dirs
    <2>. QED BY <1>1, <1>2, <1>9, <2>1, <2>2, <2>3, <2>4 DEF TreeInv, Unpacking
  <1>8. CASE Open
    <2>1. UNCHANGED tree /\ run.step = "open" /\ run'.step = "init"
      BY <1>8 DEF Open, Leg, TreeInv, Sound, TypeInv, RunType
    <2>. QED BY <1>2, <1>9, <2>1 DEF TreeInv, Unpacking
  <1>. QED BY <1>5, <1>6, <1>7, <1>8

\* The lockfile is seeded in the middle of an unpacking, in no directory that is ready:
\* one that is has a lockfile.
LEMMA SeedTree ==
  ASSUME TreeInv, Sound', Seed
  PROVE  TreeInv'
  <1>. DEFINE d == Dir(Head(run.todo))
  <1>1. run'.todo = run.todo /\ run'.ready = run.ready /\ UNCHANGED tree /\ Source # "local"
        /\ run.step \in {"unpack", "seed"} /\ run'.step \in {"unpack", "seed"}
    BY DEF Seed, SeedLock, LockSeeded, Leg, TreeInv, Sound, TypeInv, RunType
  <1>2. d \in Dirs /\ run.ready \subseteq Phases /\ \A q \in Phases : Dir(q) \in Dirs
    BY HeadType, DirType DEF Seed, SeedLock, LockSeeded, TreeInv, Sound, TypeInv, RunType
  <1>3. \A e \in Dirs \ {d} : lock'[e] = lock[e]
    BY <1>2 DEF Seed, SeedLock, LockSeeded, TreeInv, Sound, TypeInv
  <1>4. run'.step = "unpack" => lock'[d] = "whole"
    BY <1>2 DEF Seed, SeedLock, LockSeeded, Leg, TreeInv, Sound, TypeInv, RunType
  <1>5. LocksWhole'
    BY <1>1, <1>2, <1>3, <1>4 DEF TreeInv, LocksWhole
  <1>. QED BY <1>1, <1>5 DEF TreeInv, Unpacking

\* The end of a command, and of a leg: what becomes ready has been unpacked, and has been
\* through terraform init.
LEMMA LegTree ==
  ASSUME TreeInv, Sound', Init \/ Migrate \/ Check \/ MigrateFails
  PROVE  TreeInv'
  <1>. DEFINE p == Head(run.todo)
  <1>1. UNCHANGED tree /\ run.step \notin {"unpack", "seed"}
    BY DEF Init, Migrate, Check, MigrateFails, Leg
  <1>2. run'.step \notin {"open", "init", "unpack", "seed"}
    BY AdvanceSound DEF Init, Migrate, Check, MigrateFails, Leg, TreeInv, Sound, TypeInv, RunType,
       RunSound
  <1>3. run'.ready \subseteq run.ready \cup (IF run.step = "init" THEN {p} ELSE {})
    BY AdvanceSound DEF Init, Migrate, Check, MigrateFails, Leg, TreeInv, Sound, TypeInv, RunType,
       RunSound
  <1>4. run.ready \subseteq Phases /\ \A q \in Phases : Dir(q) \in Dirs
    BY DirType DEF TreeInv, Sound, TypeInv, RunType
  <1>5. \A q \in run'.ready : lock'[Dir(q)] = "whole"
    <2>1. CASE Init \/ Migrate
      <3>1. lock' = [lock EXCEPT ![Dir(p)] = "whole"] /\ p \in Phases
        BY <2>1, HeadType DEF Init, Migrate, TreeInv
      <3>2. \A e \in Dirs : lock'[e] = IF e = Dir(p) THEN "whole" ELSE lock[e]
        BY <3>1, <1>4 DEF TreeInv, Sound, TypeInv
      <3>. QED BY <1>1, <1>3, <1>4, <3>1, <3>2 DEF TreeInv, LocksWhole
    <2>2. CASE Check \/ MigrateFails
      <3>1. UNCHANGED lock
        BY <2>2 DEF Check, MigrateFails
      <3>2. run'.ready \subseteq run.ready
        BY <2>2, AdvanceSound DEF Check, MigrateFails, Leg, TreeInv, Sound, TypeInv, RunType, RunSound
      <3>. QED BY <1>1, <3>1, <3>2 DEF TreeInv, LocksWhole
    <2>. QED BY <2>1, <2>2
  <1>. QED BY <1>1, <1>2, <1>3, <1>5 DEF TreeInv, LocksWhole, Unpacking

LEMMA OtherTree ==
  ASSUME TreeInv, Sound',
         \/ AnyStart \/ UnpackFails \/ Fail
         \/ \E p \in Phases : Apply(p) \/ Destroy(p)
         \/ StateS3 \/ StateLocal \/ Reinit \/ Delete
  PROVE  TreeInv'
  <1>1. CASE AnyStart
    BY <1>1, StartSound DEF TreeInv, LocksWhole
  <1>2. CASE UnpackFails \/ Fail
    <2>1. run' = Idle
      BY <1>2 DEF UnpackFails, Fail
    <2>2. Source = "local" => UNCHANGED tree
      BY <1>2 DEF UnpackFails, Fail, Leg, TreeInv
    <2>. QED BY <2>1, <2>2 DEF TreeInv, LocksWhole, Idle
  <1>3. CASE \E p \in Phases : Apply(p) \/ Destroy(p)
    <2>1. run'.ready \subseteq run.ready /\ run.step \notin {"unpack", "seed"}
          /\ run'.step \notin {"unpack", "seed", "open", "init"} /\ UNCHANGED <<tree, lock>>
      BY <1>3 DEF Apply, Destroy, Done, Ready, Idle, TreeInv, Sound, TypeInv, RunType
    <2>. QED BY <2>1, TreesKept
  <1>4. CASE StateS3 \/ StateLocal \/ Reinit
    BY <1>4 DEF StateS3, StateLocal, Reinit, Edit, TreeInv, LocksWhole, Unpacking
  <1>5. CASE Delete
    <2>1. run' = run /\ run.ready = {} /\ run.step = "none"
      BY <1>5 DEF Delete, TreeInv, Sound, RunSound
    <2>2. Source = "local" => tree'["shared"] = tree["shared"]
      BY <1>5 DEF Delete, Dirs
    <2>. QED BY <2>1, <2>2 DEF TreeInv, LocksWhole
  <1>. QED BY <1>1, <1>2, <1>3, <1>4, <1>5

LEMMA NextTree ==
  ASSUME Source # "github"
  PROVE  TreeInv /\ [StateNext]_statevars => TreeInv'
  <1>. SUFFICES ASSUME TreeInv, [StateNext]_statevars PROVE TreeInv'
    OBVIOUS
  <1>0. Sound'
    BY NextSound DEF TreeInv
  <1>1. CASE UNCHANGED statevars
    BY <1>0, <1>1 DEF statevars, TreeInv, LocksWhole, Unpacking
  <1>2. CASE Seed
    BY <1>0, <1>2, SeedTree
  <1>. QED BY <1>0, <1>1, <1>2, FetchTree, LegTree, OtherTree DEF StateNext, AnyStart, Seed

\* Terraform never works on half a source tree, in whatever order phases share and leave
\* directories and commands die, unless the tree is a download, which is taken as it lies
\* there (extractEmbeddedTF against downloadGitHubTarball).  The lockfile is left out of the
\* tree: half a one stays for terraform init to complete or refuse, and what init has
\* prepared has a whole one.
THEOREM TreesWhole ==
  ASSUME Source # "github"
  PROVE  StateSpec => []WholeTree
  <1>1. TreeInv /\ [StateNext]_statevars => TreeInv'
    BY NextTree
  <1>. QED BY <1>1, InitTree, TreeWhole, PTL DEF StateSpec

-----------------------------------------------------------------------------
(* Nothing is forgotten.                                                   *)

\* What a migration is about to write is its own phase's key in the bucket, and nobody's
\* yet unless it is forced.
KeyFree ==
  run.cmd = "migrate" =>
    /\ run.backend = "s3"
    /\ run.step \in {"fetch", "unpack", "seed", "open", "init"} =>
         run.force \/ <<"s3", Head(run.todo)>> \notin stored

OverrideSet == run.step = "init" => override[Dir(Head(run.todo))] = <<run.backend, Head(run.todo)>>

RecordInv ==
  /\ Sound /\ KeyFree /\ OverrideSet
  /\ \A s \in States \ stored : doc[s] = {}

LEMMA InitRecord == StateInit => RecordInv
  BY InitSound DEF StateInit, RecordInv, KeyFree, OverrideSet, Idle

\* Once a migration goes on to another phase it checks that phase's key.
LEMMA AdvanceRecord ==
  ASSUME Sound, run.cmd # "none", run.todo # <<>>, Advance
  PROVE  /\ run'.step \notin {"unpack", "seed", "open", "init"}
         /\ run'.cmd = "migrate" =>
              run'.step = "check" /\ run.cmd = "migrate" /\ run'.backend = run.backend
  <1>. DEFINE rest == Tail(run.todo)
              ready == run.ready \cup {Head(run.todo)}
  <1>1. \/ run.cmd = "migrate" /\ run' = [run EXCEPT !.todo = rest, !.step = "check"]
        \/ run.cmd # "migrate" /\ run' = [run EXCEPT !.todo = rest, !.step = "fetch", !.ready = ready]
        \/ run.cmd # "migrate" /\ run' = [run EXCEPT !.todo = rest, !.step = "apply", !.ready = ready]
        \/ run' = Idle
    BY DEF Advance
  <1>. HIDE DEF rest, ready
  <1>2. run \in RunType
    BY DEF Sound, TypeInv
  <1>3. CASE run.cmd = "migrate" /\ run' = [run EXCEPT !.todo = rest, !.step = "check"]
    BY <1>2, <1>3 DEF RunType
  <1>4. CASE run.cmd # "migrate" /\ run' = [run EXCEPT !.todo = rest, !.step = "fetch", !.ready = ready]
    BY <1>2, <1>4 DEF RunType
  <1>5. CASE run.cmd # "migrate" /\ run' = [run EXCEPT !.todo = rest, !.step = "apply", !.ready = ready]
    BY <1>2, <1>5 DEF RunType
  <1>6. CASE run' = Idle
    BY <1>6 DEF Idle
  <1>. QED BY <1>1, <1>3, <1>4, <1>5, <1>6

LEMMA StartRecord ==
  ASSUME RecordInv, Sound', AnyStart
  PROVE  RecordInv'
  <1>1. UNCHANGED <<override, stored, doc>>
    BY DEF AnyStart, StartPlan, StartUp, StartDown, StartMigrate, Start
  <1>2. run'.step # "init"
    BY StartSound DEF RecordInv
  <1>3. run'.cmd = "migrate" => run'.backend = "s3" /\ run'.step = "check"
    BY DEF AnyStart, StartPlan, StartUp, StartDown, StartMigrate, Start
  <1>. QED BY <1>1, <1>2, <1>3 DEF RecordInv, KeyFree, OverrideSet

LEMMA LegRecord ==
  ASSUME RecordInv, Sound', Fetch \/ Seed \/ Unpacked \/ UnpackFails \/ Open
  PROVE  RecordInv'
  <1>. DEFINE p == Head(run.todo)
  <1>1. p \in Phases /\ Dir(p) \in Dirs
    BY HeadType DEF Fetch, Seed, SeedLock, LockSeeded, Unpacked, UnpackFails, Open, RecordInv
  <1>2. UNCHANGED <<stored, doc>>
    BY DEF Fetch, Seed, SeedLock, LockSeeded, Unpacked, UnpackFails, Open
  <1>3. CASE UnpackFails
    BY <1>2, <1>3 DEF UnpackFails, Idle, RecordInv, KeyFree, OverrideSet
  <1>4. CASE Fetch \/ Seed \/ Unpacked \/ Open
    <2>1. /\ run.step \in {"fetch", "unpack", "seed", "open"} /\ run'.cmd = run.cmd
          /\ run'.todo = run.todo /\ run'.backend = run.backend /\ run'.force = run.force
      BY <1>4 DEF Fetch, Seed, SeedLock, LockSeeded, Unpacked, Open, Leg, RecordInv, Sound, TypeInv, RunType
    <2>2. KeyFree'
      BY <1>2, <2>1 DEF RecordInv, KeyFree
    <2>3. OverrideSet'
      <3>1. CASE Fetch \/ Seed \/ Unpacked
        BY <3>1 DEF Fetch, Seed, SeedLock, LockSeeded, Unpacked, RecordInv, Sound, TypeInv, RunType, OverrideSet
      <3>2. CASE Open
        BY <1>1, <2>1, <3>2 DEF Open, RecordInv, Sound, TypeInv, OverrideSet
      <3>. QED BY <1>4, <3>1, <3>2
    <2>. QED BY <1>2, <2>2, <2>3 DEF RecordInv
  <1>. QED BY <1>3, <1>4

LEMMA CheckRecord ==
  ASSUME RecordInv, Sound', Init \/ Check \/ MigrateFails \/ Fail
  PROVE  RecordInv'
  <1>1. UNCHANGED <<override, stored, doc>>
    BY DEF Init, Check, MigrateFails, Fail
  <1>2. CASE Advance /\ run.cmd # "none" /\ run.todo # <<>>
    BY <1>1, <1>2, AdvanceRecord DEF RecordInv, KeyFree, OverrideSet
  <1>3. CASE Check /\ ~Advance
    BY <1>1, <1>3 DEF Check, Occupied, RecordInv, KeyFree, OverrideSet, Sound, TypeInv, RunType
  <1>4. CASE run' = Idle
    BY <1>1, <1>4 DEF Idle, RecordInv, KeyFree, OverrideSet
  <1>. QED BY <1>2, <1>3, <1>4
        DEF Init, Check, MigrateFails, Fail, Leg, RecordInv, Sound, RunSound

LEMMA MigrateRecord ==
  ASSUME RecordInv, Sound', Migrate
  PROVE  RecordInv'
  <1>1. UNCHANGED override
    BY DEF Migrate
  <1>2. run.cmd # "none" /\ run.todo # <<>> /\ Advance
    BY DEF Migrate, Leg
  <1>3. \A s \in States \ stored' : doc'[s] = {}
    BY DEF Migrate, RecordInv, Sound, TypeInv
  <1>4. KeyFree' /\ OverrideSet'
    BY <1>2, AdvanceRecord DEF RecordInv, KeyFree, OverrideSet
  <1>. QED BY <1>3, <1>4 DEF RecordInv

LEMMA ApplyRecord ==
  ASSUME RecordInv, Sound', NEW p \in Phases, Apply(p) \/ Destroy(p)
  PROVE  RecordInv'
  <1>1. run.cmd # "migrate" /\ run.step = "apply" /\ UNCHANGED override
    BY DEF Apply, Destroy, Ready
  <1>2. run' = Idle \/ run' = [run EXCEPT !.ready = @ \ {p}]
    BY DEF Apply, Destroy, Done
  <1>3. KeyFree' /\ OverrideSet'
    BY <1>1, <1>2 DEF Idle, KeyFree, OverrideSet, RecordInv, Sound, TypeInv, RunType
  <1>4. \A s \in States \ stored' : doc'[s] = {}
    BY DEF Apply, Destroy, RecordInv, Sound, TypeInv
  <1>. QED BY <1>3, <1>4 DEF RecordInv

LEMMA EditRecord ==
  ASSUME RecordInv, Sound', StateS3 \/ StateLocal \/ Reinit \/ Delete
  PROVE  RecordInv'
  <1>1. CASE StateS3 \/ StateLocal \/ Reinit
    BY <1>1 DEF StateS3, StateLocal, Reinit, Edit, RecordInv, KeyFree, OverrideSet
  <1>2. CASE Delete
    <2>1. run' = run /\ run.cmd = "none" /\ run.step = "none"
      BY <1>2 DEF Delete, RecordInv, Sound, RunSound
    <2>2. \A s \in States \ stored' : doc'[s] = {}
      BY <1>2 DEF Delete, RecordInv, States, Backends
    <2>. QED BY <2>1, <2>2 DEF RecordInv, KeyFree, OverrideSet
  <1>. QED BY <1>1, <1>2

LEMMA NextRecord == RecordInv /\ [StateNext]_statevars => RecordInv'
  <1>. SUFFICES ASSUME RecordInv, [StateNext]_statevars PROVE RecordInv'
    OBVIOUS
  <1>0. Sound'
    BY NextSound DEF RecordInv
  <1>1. CASE UNCHANGED statevars
    BY <1>0, <1>1 DEF statevars, RecordInv, KeyFree, OverrideSet
  <1>. QED BY <1>0, <1>1, StartRecord, LegRecord, CheckRecord, MigrateRecord, ApplyRecord,
              EditRecord DEF StateNext, AnyStart, Seed

Forgets(r) == Tracked(r) /\ r \in cloud' /\ ~Tracked(r)'

\* terraform drops from a state what it has destroyed.
LEMMA ApplyKeeps ==
  ASSUME RecordInv, NEW p \in Phases, Apply(p) \/ Destroy(p), NEW r \in cloud, Forgets(r)
  PROVE  FALSE
  <1>. DEFINE s == initialised[Dir(p)]
  <1>1. PICK t \in States : r \in doc[t]
    BY DEF Forgets, Tracked
  <1>2. \A u \in States : u # s => doc'[u] = doc[u]
    BY DEF Apply, Destroy, RecordInv, Sound, TypeInv
  <1>3. t = s
    BY <1>1, <1>2 DEF Forgets, Tracked
  <1>4. CASE Apply(p)
    <2>. DEFINE kept == {q \in doc[s] \intersect cloud : q[1] = p}
                new == IF kept = {} THEN {<<p, made + 1>>} ELSE {}
    <2>1. doc' = [doc EXCEPT ![s] = kept \union new] /\ cloud' = (cloud \ (doc[s] \ kept)) \union new
      BY <1>4 DEF Apply
    <2>. HIDE DEF kept, new, s
    <2>2. doc'[s] = kept \union new
      BY <1>3, <2>1 DEF RecordInv, Sound, TypeInv
    <2>3. r \in kept \union new
      BY <1>1, <1>3, <2>1 DEF Forgets
    <2>. QED BY <1>3, <2>2, <2>3 DEF Forgets, Tracked
  <1>5. CASE Destroy(p)
    BY <1>1, <1>3, <1>5 DEF Destroy, Forgets
  <1>. QED BY <1>4, <1>5

\* A migration writes where nothing was.
LEMMA MigrateKeeps ==
  ASSUME RecordInv, Migrate, ~run.force, NEW r \in cloud, Forgets(r)
  PROVE  FALSE
  <1>. DEFINE d == Dir(Head(run.todo))
  <1>1. override[d] = <<"s3", Head(run.todo)>> /\ override[d] \notin stored
    BY DEF Migrate, Leg, RecordInv, KeyFree, OverrideSet
  <1>2. Head(run.todo) \in Phases
    BY HeadType DEF Migrate, RecordInv
  <1>3. doc[override[d]] = {}
    BY <1>1, <1>2 DEF RecordInv, States, Backends
  <1>4. \A u \in States : u # override[d] => doc'[u] = doc[u]
    BY DEF Migrate, RecordInv, Sound, TypeInv
  <1>. QED BY <1>3, <1>4 DEF Forgets, Tracked

\* No switch of the backend, no migration that fails and is repeated, no command that dies
\* drops the last record of a resource that exists (runStateMigrate, Apply, Destroy), for
\* any source, any phases and any number of resources.
THEOREM RecordsStay == StateSpec => NothingForgotten
  <1>1. ASSUME RecordInv, [StateNext]_statevars, NEW r \in cloud, Tracked(r), r \in cloud'
        PROVE  Tracked(r)' \/ run.force \/ ~present'
    <2>. SUFFICES ASSUME Forgets(r), ~run.force, present' PROVE FALSE
      BY <1>1 DEF Forgets
    <2>1. CASE \E p \in Phases : Apply(p) \/ Destroy(p)
      BY <1>1, <2>1, ApplyKeeps
    <2>2. CASE Migrate
      BY <1>1, <2>2, MigrateKeeps
    <2>3. CASE Delete
      BY <2>3 DEF Delete
    <2>4. CASE UNCHANGED doc
      BY <2>4 DEF Forgets, Tracked
    <2>5. AnyStart => UNCHANGED doc
      BY DEF AnyStart, StartPlan, StartUp, StartDown, StartMigrate, Start
    <2>6. Fetch \/ Seed \/ Unpacked \/ UnpackFails \/ Open \/ Init \/ Check \/ MigrateFails \/ Fail => UNCHANGED doc
      BY DEF Fetch, Seed, SeedLock, LockSeeded, Unpacked, UnpackFails, Open, Init, Check, MigrateFails, Fail
    <2>7. StateS3 \/ StateLocal \/ Reinit \/ UNCHANGED statevars => UNCHANGED doc
      BY DEF StateS3, StateLocal, Reinit, Edit, statevars
    <2>. QED BY <1>1, <2>1, <2>2, <2>3, <2>4, <2>5, <2>6, <2>7 DEF StateNext, AnyStart, Seed
  <1>2. RecordInv /\ [StateNext]_statevars =>
          [\A r \in cloud : (Tracked(r) /\ r \in cloud') => (Tracked(r)' \/ run.force \/ ~present')]_statevars
    BY <1>1
  <1>. QED BY <1>2, InitRecord, NextRecord, PTL DEF StateSpec, NothingForgotten
=============================================================================
