------------------------- MODULE WorkspaceInit_proofs -------------------------
(***************************************************************************)
(* Proofs about WorkspaceInit: what init leaves in the clouds is there     *)
(* before the configuration that names it, and ws delete takes what the    *)
(* workspace put outside its directory and nothing else.                   *)
(*                                                                         *)
(* The keys are shown for any number of terminals.  The rest is shown for  *)
(* one: a second one may edit or delete what the first has read.           *)
(***************************************************************************)
EXTENDS WorkspaceInit, TLAPS

SoleTerminal == \A s, t \in Terminals : s = t

-----------------------------------------------------------------------------
(* Types.                                                                  *)

ConfType == [set : SUBSET Required, b64 : BOOLEAN,
             keys : SUBSET (Regions \X KeyNames), copied : SUBSET KeyNames,
             far : Sources, given : SUBSET {"b64", "keys", "copied", "far"}]
Steps    == {"idle", "resolve", "verify", "partial", "partial key", "interview",
             "check", "generate", "replicate", "upload", "copy", "supply", "instance",
             "bucket", "far", "jwt", "proxy", "overlay", "save", "persist", "seed", "new", "edit",
             "select", "delete", "forget", "unlink", "repoint"}
CmdType  == [step : Steps, name : Names \cup {None}, env : BOOLEAN, conf : ConfType,
             fresh : BOOLEAN, asked : SUBSET Topics, key : KeyNames \cup {None},
             todo : SUBSET Regions, pair : Nat, was : Names \cup {None},
             held : BOOLEAN, kept : SUBSET KeyNames]

\* From the first question about an SSH key to the last copy of it.
KeySteps == {"check", "generate", "replicate", "upload"}

TypeOK ==
  /\ config \in [Names -> ConfType \cup {None}]
  /\ current \in Names \cup {None}
  /\ keychain \subseteq Names
  /\ sshdir \in [Names -> [KeyNames -> Nat]]
  /\ home \in [KeyNames -> Names \cup {"user", None}]
  /\ cloud \in [Regions -> [KeyNames -> Nat]]
  /\ run \in [Terminals -> CmdType]
  /\ pairs \in Nat
  /\ instance \in BOOLEAN
  /\ buckets \in [Buckets -> Bucket \cup {None}]

\* A command works on a workspace, and on a key while it deals with one.
CmdSound(cmd) ==
  /\ cmd.step # "idle" => cmd.name \in Names
  /\ cmd.step \in KeySteps \cup {"copy"} => cmd.key \in KeyNames
  /\ cmd.step \in {"replicate", "upload"} => cmd.pair # 0

TypeInv == TypeOK /\ \A t \in Terminals : CmdSound(run[t])

-----------------------------------------------------------------------------
(* The keys.                                                               *)

\* A key the command will write down is in its region, or the command still has
\* to put it there; unless a file or the environment named it.
CmdKeys(cmd) == "keys" \notin cmd.conf.given =>
  \A key \in cmd.conf.keys :
    \/ cloud[key[1]][key[2]] # 0
    \/ cmd.step \in KeySteps /\ key[1] \in cmd.todo /\ key[2] = cmd.key

KeyInv == TypeInv /\ KeysInCloud /\ \A t \in Terminals : CmdKeys(run[t])

-----------------------------------------------------------------------------
(* What the workspaces have outside their directories.                     *)

Deleting == {"delete", "forget", "unlink", "repoint"}

\* What a configuration calls a copy in ~/.ssh is one, when the list is that of init
\* and no list that was given has been gone by for that name.
CopiesOurs == \A n \in Names : config[n] # None /\ "copied" \notin config[n].given =>
                \A k \in config[n].copied \ taken : home[k] = n

\* So does the command, until it has removed them.
CmdCopies(cmd) == cmd.step # "repoint" /\ "copied" \notin cmd.conf.given =>
  \A k \in cmd.conf.copied \ taken : home[k] = cmd.name

\* What a deletion has already removed, or warned of.
CmdDeletes(cmd) ==
  /\ cmd.step \in Deleting => cmd.was = current
  /\ cmd.step \in Deleting \ {"delete"} =>
       config[cmd.name] = None /\ \A k \in KeyNames : sshdir[cmd.name][k] = 0
  /\ cmd.step \in {"unlink", "repoint"} /\ cmd.name \in keychain => cmd.held
  /\ cmd.step = "repoint" => \A k \in cmd.conf.copied : home[k] = None \/ k \in cmd.kept

\* Before the answers about the supply chain.
Unsupplied == {"idle", "check", "generate", "replicate", "upload", "copy",
               "supply", "instance", "bucket", "far", "jwt"}

\* Coordinates are taken over by the commands that change another block, and else
\* are given or stand for a bucket that is complete.
CmdCoords(cmd) ==
  /\ cmd.step = "edit" => config[cmd.name] # None 
       /\ cmd.conf.far = config[cmd.name].far
  /\ cmd.step \in Unsupplied => cmd.conf.far = NoSource
  /\ cmd.step \notin Deleting \cup {"edit"} /\ cmd.conf.far.bucket \in Buckets
       /\ "far" \notin cmd.conf.given =>
       /\ buckets[cmd.conf.far.bucket] # None
       /\ buckets[cmd.conf.far.bucket].objects = Artefacts
  /\ cmd.step = "jwt" => Found # None /\ "far" \in buckets[Found].objects

\* With KeyInv, for one terminal.
WorkInv ==
  /\ CopiesOurs
  /\ \A t \in Terminals :
       CmdCopies(run[t]) /\ CmdDeletes(run[t]) /\ CmdCoords(run[t])

-----------------------------------------------------------------------------
(* What the steps do to a command.                                         *)

LEMMA IdleTypes ==
  /\ Zero \in ConfType /\ Idle \in CmdType
  /\ Zero.keys = {} /\ Zero.copied = {} /\ Zero.far = NoSource
  /\ Idle.step = "idle" /\ Idle.conf = Zero
<1>1. Zero \in ConfType
  BY DEF Zero, ConfType, Sources, NoSource
<1>3. Idle \in CmdType /\ Idle.step = "idle" /\ Idle.conf = Zero
  BY <1>1 DEF Idle, CmdType, Steps
<1>4. Zero.keys = {} /\ Zero.copied = {} /\ Zero.far = NoSource
  BY DEF Zero
<1> QED BY <1>1, <1>3, <1>4

\* The other commands go on where they are.
OthersStay(t) == \A u \in Terminals : u # t => run'[u] = run[u]

SameName(t) == run'[t].name = run[t].name /\ run'[t].was = run[t].was
SameKey(t)  == run'[t].key = run[t].key

Keeps(t) ==
  run' \in [Terminals -> CmdType] /\ OthersStay(t) /\ SameName(t)

LEMMA GoStep ==
  ASSUME TypeOK, NEW t \in Terminals, NEW s \in Steps, Go(t, [step |-> s])
  PROVE  /\ Keeps(t) /\ SameKey(t)
         /\ run'[t].step = s /\ run'[t].conf = run[t].conf
         /\ run'[t].todo = run[t].todo /\ run'[t].pair = run[t].pair
<1> DEFINE new == With(run[t], [step |-> s])
<1>1. run[t] \in CmdType
  BY DEF TypeOK
<1>2. DOMAIN new = DOMAIN run[t] /\ new = [f \in DOMAIN new |-> new[f]]
  BY DEF With
<1>3. /\ new.step = s /\ new.name = run[t].name /\ new.env = run[t].env
      /\ new.conf = run[t].conf /\ new.fresh = run[t].fresh /\ new.asked = run[t].asked
      /\ new.key = run[t].key /\ new.todo = run[t].todo /\ new.pair = run[t].pair
      /\ new.was = run[t].was /\ new.held = run[t].held /\ new.kept = run[t].kept
  BY <1>1 DEF With, CmdType
<1>4. run' = [run EXCEPT ![t] = new]
  BY DEF Go
<1> HIDE DEF new
<1>5. new \in CmdType
  BY <1>1, <1>2, <1>3 DEF CmdType
<1>6. run' \in [Terminals -> CmdType] /\ OthersStay(t) /\ run'[t] = new
  BY <1>4, <1>5 DEF TypeOK, OthersStay
<1> QED BY <1>3, <1>6 DEF Keeps, SameName, SameKey

LEMMA GoHeld ==
  ASSUME TypeOK, NEW t \in Terminals, NEW s \in Steps, Go(t, [step |-> s, held |-> TRUE])
  PROVE  Keeps(t) /\ run'[t].step = s /\ run'[t].conf = run[t].conf /\ run'[t].held
<1> DEFINE new == With(run[t], [step |-> s, held |-> TRUE])
<1>1. run[t] \in CmdType
  BY DEF TypeOK
<1>2. DOMAIN new = DOMAIN run[t] /\ new = [f \in DOMAIN new |-> new[f]]
  BY DEF With
<1>3. /\ new.step = s /\ new.name = run[t].name /\ new.env = run[t].env
      /\ new.conf = run[t].conf /\ new.fresh = run[t].fresh /\ new.asked = run[t].asked
      /\ new.key = run[t].key /\ new.todo = run[t].todo /\ new.pair = run[t].pair
      /\ new.was = run[t].was /\ new.held = TRUE /\ new.kept = run[t].kept
  BY <1>1 DEF With, CmdType
<1>4. run' = [run EXCEPT ![t] = new]
  BY DEF Go
<1> HIDE DEF new
<1>5. new \in CmdType
  BY <1>1, <1>2, <1>3 DEF CmdType
<1>6. run' \in [Terminals -> CmdType] /\ OthersStay(t) /\ run'[t] = new
  BY <1>4, <1>5 DEF TypeOK, OthersStay
<1> QED BY <1>3, <1>6 DEF Keeps, SameName

LEMMA GoKept ==
  ASSUME TypeOK, NEW t \in Terminals, NEW s \in Steps, NEW ks \in SUBSET KeyNames,
         Go(t, [step |-> s, kept |-> ks])
  PROVE  /\ Keeps(t) /\ run'[t].step = s /\ run'[t].conf = run[t].conf
         /\ run'[t].held = run[t].held /\ run'[t].kept = ks
<1> DEFINE new == With(run[t], [step |-> s, kept |-> ks])
<1>1. run[t] \in CmdType
  BY DEF TypeOK
<1>2. DOMAIN new = DOMAIN run[t] /\ new = [f \in DOMAIN new |-> new[f]]
  BY DEF With
<1>3. /\ new.step = s /\ new.name = run[t].name /\ new.env = run[t].env
      /\ new.conf = run[t].conf /\ new.fresh = run[t].fresh /\ new.asked = run[t].asked
      /\ new.key = run[t].key /\ new.todo = run[t].todo /\ new.pair = run[t].pair
      /\ new.was = run[t].was /\ new.held = run[t].held /\ new.kept = ks
  BY <1>1 DEF With, CmdType
<1>4. run' = [run EXCEPT ![t] = new]
  BY DEF Go
<1> HIDE DEF new
<1>5. new \in CmdType
  BY <1>1, <1>2, <1>3 DEF CmdType
<1>6. run' \in [Terminals -> CmdType] /\ OthersStay(t) /\ run'[t] = new
  BY <1>4, <1>5 DEF TypeOK, OthersStay
<1> QED BY <1>3, <1>6 DEF Keeps, SameName

LEMMA GoConf ==
  ASSUME TypeOK, NEW t \in Terminals, NEW s \in Steps, NEW c \in ConfType,
         Go(t, [step |-> s, conf |-> c])
  PROVE  /\ Keeps(t) /\ SameKey(t)
         /\ run'[t].step = s /\ run'[t].conf = c
         /\ run'[t].todo = run[t].todo /\ run'[t].pair = run[t].pair
<1> DEFINE new == With(run[t], [step |-> s, conf |-> c])
<1>1. run[t] \in CmdType
  BY DEF TypeOK
<1>2. DOMAIN new = DOMAIN run[t] /\ new = [f \in DOMAIN new |-> new[f]]
  BY DEF With
<1>3. /\ new.step = s /\ new.name = run[t].name /\ new.env = run[t].env
      /\ new.conf = c /\ new.fresh = run[t].fresh /\ new.asked = run[t].asked
      /\ new.key = run[t].key /\ new.todo = run[t].todo /\ new.pair = run[t].pair
      /\ new.was = run[t].was /\ new.held = run[t].held /\ new.kept = run[t].kept
  BY <1>1 DEF With, CmdType
<1>4. run' = [run EXCEPT ![t] = new]
  BY DEF Go
<1> HIDE DEF new
<1>5. new \in CmdType
  BY <1>1, <1>2, <1>3 DEF CmdType
<1>6. run' \in [Terminals -> CmdType] /\ OthersStay(t) /\ run'[t] = new
  BY <1>4, <1>5 DEF TypeOK, OthersStay
<1> QED BY <1>3, <1>6 DEF Keeps, SameName, SameKey

LEMMA GoPair ==
  ASSUME TypeOK, NEW t \in Terminals, NEW s \in Steps, NEW p \in Nat,
         Go(t, [step |-> s, pair |-> p])
  PROVE  /\ Keeps(t) /\ SameKey(t)
         /\ run'[t].step = s /\ run'[t].conf = run[t].conf
         /\ run'[t].todo = run[t].todo /\ run'[t].pair = p
<1> DEFINE new == With(run[t], [step |-> s, pair |-> p])
<1>1. run[t] \in CmdType
  BY DEF TypeOK
<1>2. DOMAIN new = DOMAIN run[t] /\ new = [f \in DOMAIN new |-> new[f]]
  BY DEF With
<1>3. /\ new.step = s /\ new.name = run[t].name /\ new.env = run[t].env
      /\ new.conf = run[t].conf /\ new.fresh = run[t].fresh /\ new.asked = run[t].asked
      /\ new.key = run[t].key /\ new.todo = run[t].todo /\ new.pair = p
      /\ new.was = run[t].was /\ new.held = run[t].held /\ new.kept = run[t].kept
  BY <1>1 DEF With, CmdType
<1>4. run' = [run EXCEPT ![t] = new]
  BY DEF Go
<1> HIDE DEF new
<1>5. new \in CmdType
  BY <1>1, <1>2, <1>3 DEF CmdType
<1>6. run' \in [Terminals -> CmdType] /\ OthersStay(t) /\ run'[t] = new
  BY <1>4, <1>5 DEF TypeOK, OthersStay
<1> QED BY <1>3, <1>6 DEF Keeps, SameName, SameKey

LEMMA GoTodo ==
  ASSUME TypeOK, NEW t \in Terminals, NEW s \in Steps, NEW rs \in SUBSET Regions,
         Go(t, [todo |-> rs, step |-> s])
  PROVE  /\ Keeps(t) /\ SameKey(t)
         /\ run'[t].step = s /\ run'[t].conf = run[t].conf
         /\ run'[t].todo = rs /\ run'[t].pair = run[t].pair
<1> DEFINE new == With(run[t], [todo |-> rs, step |-> s])
<1>1. run[t] \in CmdType
  BY DEF TypeOK
<1>2. DOMAIN new = DOMAIN run[t] /\ new = [f \in DOMAIN new |-> new[f]]
  BY DEF With
<1>3. /\ new.step = s /\ new.name = run[t].name /\ new.env = run[t].env
      /\ new.conf = run[t].conf /\ new.fresh = run[t].fresh /\ new.asked = run[t].asked
      /\ new.key = run[t].key /\ new.todo = rs /\ new.pair = run[t].pair
      /\ new.was = run[t].was /\ new.held = run[t].held /\ new.kept = run[t].kept
  BY <1>1 DEF With, CmdType
<1>4. run' = [run EXCEPT ![t] = new]
  BY DEF Go
<1> HIDE DEF new
<1>5. new \in CmdType
  BY <1>1, <1>2, <1>3 DEF CmdType
<1>6. run' \in [Terminals -> CmdType] /\ OthersStay(t) /\ run'[t] = new
  BY <1>4, <1>5 DEF TypeOK, OthersStay
<1> QED BY <1>3, <1>6 DEF Keeps, SameName, SameKey

LEMMA GoFound ==
  ASSUME TypeOK, NEW t \in Terminals, NEW s \in Steps, NEW rs \in SUBSET Regions,
         NEW p \in Nat, Go(t, [step |-> s, todo |-> rs, pair |-> p])
  PROVE  /\ Keeps(t) /\ SameKey(t)
         /\ run'[t].step = s /\ run'[t].conf = run[t].conf
         /\ run'[t].todo = rs /\ run'[t].pair = p
<1> DEFINE new == With(run[t], [step |-> s, todo |-> rs, pair |-> p])
<1>1. run[t] \in CmdType
  BY DEF TypeOK
<1>2. DOMAIN new = DOMAIN run[t] /\ new = [f \in DOMAIN new |-> new[f]]
  BY DEF With
<1>3. /\ new.step = s /\ new.name = run[t].name /\ new.env = run[t].env
      /\ new.conf = run[t].conf /\ new.fresh = run[t].fresh /\ new.asked = run[t].asked
      /\ new.key = run[t].key /\ new.todo = rs /\ new.pair = p
      /\ new.was = run[t].was /\ new.held = run[t].held /\ new.kept = run[t].kept
  BY <1>1 DEF With, CmdType
<1>4. run' = [run EXCEPT ![t] = new]
  BY DEF Go
<1> HIDE DEF new
<1>5. new \in CmdType
  BY <1>1, <1>2, <1>3 DEF CmdType
<1>6. run' \in [Terminals -> CmdType] /\ OthersStay(t) /\ run'[t] = new
  BY <1>4, <1>5 DEF TypeOK, OthersStay
<1> QED BY <1>3, <1>6 DEF Keeps, SameName, SameKey

LEMMA GoAnswers ==
  ASSUME TypeOK, NEW t \in Terminals, NEW s \in Steps, NEW a \in SUBSET Topics,
         NEW c \in ConfType, Go(t, [step |-> s, asked |-> a, conf |-> c])
  PROVE  /\ Keeps(t) /\ SameKey(t)
         /\ run'[t].step = s /\ run'[t].conf = c
         /\ run'[t].todo = run[t].todo /\ run'[t].pair = run[t].pair
<1> DEFINE new == With(run[t], [step |-> s, asked |-> a, conf |-> c])
<1>1. run[t] \in CmdType
  BY DEF TypeOK
<1>2. DOMAIN new = DOMAIN run[t] /\ new = [f \in DOMAIN new |-> new[f]]
  BY DEF With
<1>3. /\ new.step = s /\ new.name = run[t].name /\ new.env = run[t].env
      /\ new.conf = c /\ new.fresh = run[t].fresh /\ new.asked = a
      /\ new.key = run[t].key /\ new.todo = run[t].todo /\ new.pair = run[t].pair
      /\ new.was = run[t].was /\ new.held = run[t].held /\ new.kept = run[t].kept
  BY <1>1 DEF With, CmdType
<1>4. run' = [run EXCEPT ![t] = new]
  BY DEF Go
<1> HIDE DEF new
<1>5. new \in CmdType
  BY <1>1, <1>2, <1>3 DEF CmdType
<1>6. run' \in [Terminals -> CmdType] /\ OthersStay(t) /\ run'[t] = new
  BY <1>4, <1>5 DEF TypeOK, OthersStay
<1> QED BY <1>3, <1>6 DEF Keeps, SameName, SameKey

LEMMA GoJumphosts ==
  ASSUME TypeOK, NEW t \in Terminals, NEW s \in Steps, NEW a \in SUBSET Topics,
         NEW k \in KeyNames, NEW rs \in SUBSET Regions, NEW c \in ConfType,
         Go(t, [step |-> s, asked |-> a, key |-> k, todo |-> rs, conf |-> c])
  PROVE  /\ Keeps(t) /\ run'[t].key = k
         /\ run'[t].step = s /\ run'[t].conf = c
         /\ run'[t].todo = rs /\ run'[t].pair = run[t].pair
<1> DEFINE new == With(run[t], [step |-> s, asked |-> a, key |-> k, todo |-> rs,
                               conf |-> c])
<1>1. run[t] \in CmdType
  BY DEF TypeOK
<1>2. DOMAIN new = DOMAIN run[t] /\ new = [f \in DOMAIN new |-> new[f]]
  BY DEF With
<1>3. /\ new.step = s /\ new.name = run[t].name /\ new.env = run[t].env
      /\ new.conf = c /\ new.fresh = run[t].fresh /\ new.asked = a
      /\ new.key = k /\ new.todo = rs /\ new.pair = run[t].pair
      /\ new.was = run[t].was /\ new.held = run[t].held /\ new.kept = run[t].kept
  BY <1>1 DEF With, CmdType
<1>4. run' = [run EXCEPT ![t] = new]
  BY DEF Go
<1> HIDE DEF new
<1>5. new \in CmdType
  BY <1>1, <1>2, <1>3 DEF CmdType
<1>6. run' \in [Terminals -> CmdType] /\ OthersStay(t) /\ run'[t] = new
  BY <1>4, <1>5 DEF TypeOK, OthersStay
<1> QED BY <1>3, <1>6 DEF Keeps, SameName, SameKey

LEMMA DoneFacts ==
  ASSUME TypeOK, NEW t \in Terminals, Done(t)
  PROVE  /\ run' \in [Terminals -> CmdType] /\ OthersStay(t)
         /\ run'[t] = Idle
BY IdleTypes DEF Done, TypeOK, OthersStay

LEMMA BeginFacts ==
  ASSUME TypeOK, NEW t \in Terminals, NEW cmd \in CmdType, Begin(t, cmd)
  PROVE  /\ run' \in [Terminals -> CmdType] /\ OthersStay(t)
         /\ run'[t].step = cmd.step /\ run'[t].name = cmd.name
         /\ run'[t].conf = cmd.conf /\ run'[t].was = current
<1>1. [cmd EXCEPT !.was = current] \in CmdType
  BY DEF CmdType, TypeOK
<1> DEFINE new == [cmd EXCEPT !.was = current]
<1>2. /\ new.step = cmd.step /\ new.name = cmd.name
      /\ new.conf = cmd.conf /\ new.was = current
  BY DEF CmdType
<1>3. run' = [run EXCEPT ![t] = new]
  BY DEF Begin
<1> HIDE DEF new
<1>4. new \in CmdType
  BY <1>1 DEF new
<1> QED BY <1>2, <1>3, <1>4 DEF TypeOK, OthersStay

-----------------------------------------------------------------------------
(* How the commands begin.                                                 *)

Began(t, n, s) ==
  /\ run' \in [Terminals -> CmdType] /\ OthersStay(t)
  /\ run'[t].step = s /\ run'[t].name = n /\ run'[t].was = current
  /\ UNCHANGED <<config, current, vault, keychain, sshdir, home, taken, cloud, pairs,
                 instance, buckets>>

LEMMA StartInitDoes ==
  ASSUME TypeOK, NEW t \in Terminals, NEW n \in Names, StartInit(t, n)
  PROVE  Began(t, n, "resolve") /\ run'[t].conf = Zero
<1>1. PICK env \in BOOLEAN :
        Begin(t, [Idle EXCEPT !.step = "resolve", !.name = n, !.env = env,
                              !.fresh = config[n] = None])
  BY DEF StartInit
<1> DEFINE cmd == [Idle EXCEPT !.step = "resolve", !.name = n, !.env = env,
                               !.fresh = config[n] = None]
<1>2. cmd \in CmdType
  BY ZenonT(40), IdleTypes DEF CmdType, Steps
<1>3. cmd.step = "resolve" /\ cmd.name = n /\ cmd.conf = Zero
  BY IdleTypes DEF CmdType
<1> HIDE DEF cmd
<1>4. Begin(t, cmd)
  BY <1>1 DEF cmd
<1> QED BY <1>2, <1>3, <1>4, BeginFacts DEF Began, StartInit, filesVars, cosVars

\* A field that was not given, now or before, is what it was.
Overlaid(old, new) ==
  /\ "keys" \notin new.given => "keys" \notin old.given /\ new.keys = old.keys
  /\ "copied" \notin new.given => "copied" \notin old.given /\ new.copied = old.copied
  /\ "far" \notin new.given => "far" \notin old.given /\ new.far = old.far

LEMMA GivenDoes ==
  ASSUME NEW conf \in ConfType, NEW seed \in Seeds
  PROVE  Given(conf, seed) \in ConfType /\ Overlaid(conf, Given(conf, seed))
<1> DEFINE new  == Given(conf, seed)
           full == {f \in DOMAIN seed : seed[f] # Zero[f]}
<1>1. seed \in [b64 : BOOLEAN, keys : SUBSET (Regions \X KeyNames),
                copied : SUBSET KeyNames, far : Sources]
  BY SeedsAssumption
<1>2. full \subseteq {"b64", "keys", "copied", "far"}
  BY <1>1
<1>3. DOMAIN new = DOMAIN conf /\ new = [f \in DOMAIN new |-> new[f]]
  BY DEF Given
<1> HIDE DEF full
<1>4. \A f \in DOMAIN conf :
        new[f] = IF f \in full THEN seed[f]
                 ELSE IF f = "given" THEN conf.given \cup full ELSE conf[f]
  BY DEF Given, full
<1> HIDE DEF new
<1>5. DOMAIN conf = {"set", "b64", "keys", "copied", "far", "given"}
  BY DEF ConfType
<1>6. /\ new.set = conf.set /\ new.given = conf.given \cup full
      /\ new.b64 \in {seed.b64, conf.b64}
      /\ new.keys = IF "keys" \in full THEN seed.keys ELSE conf.keys
      /\ new.copied = IF "copied" \in full THEN seed.copied ELSE conf.copied
      /\ new.far = IF "far" \in full THEN seed.far ELSE conf.far
  BY <1>2, <1>4, <1>5
<1>7. new \in ConfType
  BY <1>1, <1>2, <1>3, <1>5, <1>6 DEF ConfType
<1>8. Overlaid(conf, new)
  BY <1>6 DEF Overlaid
<1> QED BY <1>7, <1>8 DEF new

LEMMA StartSeedDoes ==
  ASSUME TypeOK, NEW t \in Terminals, NEW n \in Names, StartSeed(t, n)
  PROVE  /\ Began(t, n, "seed")
         /\ "keys" \notin run'[t].conf.given => run'[t].conf.keys = {}
         /\ "copied" \notin run'[t].conf.given => run'[t].conf.copied = {}
         /\ "far" \notin run'[t].conf.given => run'[t].conf.far = NoSource
<1> DEFINE base == [Zero EXCEPT !.set = Required]
<1>1. PICK seed \in Seeds :
        Begin(t, [Idle EXCEPT !.step = "seed", !.name = n, !.conf = Given(base, seed)])
  BY DEF StartSeed
<1>0. base \in ConfType /\ base.keys = {} /\ base.copied = {} /\ base.far = NoSource
  BY IdleTypes DEF ConfType
<1> HIDE DEF base
<1> DEFINE conf == Given(base, seed)
           cmd  == [Idle EXCEPT !.step = "seed", !.name = n, !.conf = conf]
<1>2. conf \in ConfType /\ Overlaid(base, conf)
  BY <1>0, GivenDoes
<1>5. Begin(t, cmd)
  BY <1>1
<1> HIDE DEF conf
<1>3. cmd \in CmdType
  BY <1>2, IdleTypes DEF CmdType, Steps
<1>4. cmd.step = "seed" /\ cmd.name = n /\ cmd.conf = conf
  BY IdleTypes DEF CmdType
<1> HIDE DEF cmd
<1>6. Began(t, n, "seed") /\ run'[t].conf = conf
  BY <1>3, <1>4, <1>5, BeginFacts DEF Began, StartSeed, filesVars, cosVars
<1> QED BY <1>0, <1>2, <1>6 DEF Overlaid

LEMMA StartNewDoes ==
  ASSUME TypeOK, NEW t \in Terminals, NEW n \in Names, StartNew(t, n)
  PROVE  Began(t, n, "new") /\ run'[t].conf = Zero
<1> DEFINE cmd == [Idle EXCEPT !.step = "new", !.name = n]
<1>1. cmd \in CmdType
  BY IdleTypes DEF CmdType, Steps
<1>2. cmd.step = "new" /\ cmd.name = n /\ cmd.conf = Zero
  BY IdleTypes DEF CmdType
<1> HIDE DEF cmd
<1>3. Begin(t, cmd)
  BY DEF StartNew, cmd
<1> QED BY <1>1, <1>2, <1>3, BeginFacts DEF Began, StartNew, filesVars, cosVars

LEMMA StartUseDoes ==
  ASSUME TypeOK, NEW t \in Terminals, NEW n \in Names, StartUse(t, n)
  PROVE  Began(t, n, "select") /\ run'[t].conf = Zero
<1> DEFINE cmd == [Idle EXCEPT !.step = "select", !.name = n]
<1>1. cmd \in CmdType
  BY IdleTypes DEF CmdType, Steps
<1>2. cmd.step = "select" /\ cmd.name = n /\ cmd.conf = Zero
  BY IdleTypes DEF CmdType
<1> HIDE DEF cmd
<1>3. Begin(t, cmd)
  BY DEF StartUse, cmd
<1> QED BY <1>1, <1>2, <1>3, BeginFacts DEF Began, StartUse, filesVars, cosVars

LEMMA StartEditDoes ==
  ASSUME TypeOK, NEW t \in Terminals, NEW n \in Names, StartEdit(t, n)
  PROVE  Began(t, n, "edit") /\ config[n] # None /\ run'[t].conf = config[n]
<1> DEFINE cmd == [Idle EXCEPT !.step = "edit", !.name = n, !.conf = config[n]]
<1>1. config[n] \in ConfType /\ config[n] # None
  BY DEF TypeOK, StartEdit
<1>2. cmd \in CmdType
  BY <1>1, IdleTypes DEF CmdType, Steps
<1>3. cmd.step = "edit" /\ cmd.name = n /\ cmd.conf = config[n]
  BY IdleTypes DEF CmdType
<1>4. Begin(t, cmd)
  BY DEF StartEdit
<1> HIDE DEF cmd
<1> QED BY <1>1, <1>2, <1>3, <1>4, BeginFacts DEF Began, StartEdit, filesVars, cosVars

LEMMA StartDeleteDoes ==
  ASSUME TypeOK, NEW t \in Terminals, NEW n \in Names, StartDelete(t, n)
  PROVE  /\ Began(t, n, "delete")
         /\ run'[t].conf = IF config[n] = None THEN Zero ELSE config[n]
<1> DEFINE conf == IF config[n] = None THEN Zero ELSE config[n]
           cmd  == [Idle EXCEPT !.step = "delete", !.name = n, !.conf = conf]
<1>1. conf \in ConfType
  BY IdleTypes DEF TypeOK
<1>2. Begin(t, cmd)
  BY DEF StartDelete
<1> HIDE DEF conf
<1>3. cmd \in CmdType
  BY <1>1, IdleTypes DEF CmdType, Steps
<1>4. cmd.step = "delete" /\ cmd.name = n /\ cmd.conf = conf
  BY IdleTypes DEF CmdType
<1> HIDE DEF cmd
<1>5. Began(t, n, "delete") /\ run'[t].conf = conf
  BY <1>2, <1>3, <1>4, BeginFacts DEF Began, StartDelete, filesVars, cosVars
<1> QED BY <1>5 DEF conf

-----------------------------------------------------------------------------
(* What the interview does to its command.                                 *)

SameWork(t) == run'[t].todo = run[t].todo /\ run'[t].pair = run[t].pair

\* The blocks a configuration is read for stay as they are.
SameAsks ==
  \A n \in Names :
    /\ config[n] = None => config'[n] = None
    /\ config[n] # None => /\ config'[n].keys = config[n].keys
                           /\ config'[n].copied = config[n].copied
                           /\ config'[n].far = config[n].far
                           /\ config'[n].given = config[n].given

LEMMA StoreKeyDoes ==
  ASSUME TypeOK, NEW n \in Names, StoreKey(n)
  PROVE  /\ config' \in [Names -> ConfType \cup {None}] /\ SameAsks
         /\ keychain' \subseteq keychain \cup {n}
<1>1. CASE config' = config
  BY <1>1 DEF StoreKey, SameAsks, TypeOK
<1>2. CASE config[n] # None /\ SaveTo(n, [config[n] EXCEPT !.b64 = TRUE])
  <2> DEFINE conf == [config[n] EXCEPT !.b64 = TRUE]
  <2>1. config[n] \in ConfType
    BY <1>2 DEF TypeOK
  <2>2. /\ conf \in ConfType /\ conf.keys = config[n].keys
        /\ conf.copied = config[n].copied /\ conf.far = config[n].far
        /\ conf.given = config[n].given
    BY <2>1 DEF ConfType
  <2>3. config' = [config EXCEPT ![n] = conf]
    BY <1>2 DEF SaveTo
  <2> HIDE DEF conf
  <2>4. config' \in [Names -> ConfType \cup {None}]
    BY <2>2, <2>3 DEF TypeOK
  <2>5. /\ config'[n] = conf
        /\ \A m \in Names : m # n => config'[m] = config[m]
    BY <2>3 DEF TypeOK
  <2> QED BY <1>2, <2>2, <2>4, <2>5 DEF SameAsks, StoreKey
<1> QED BY <1>1, <1>2 DEF StoreKey

LEMMA ResolveKeyDoes ==
  ASSUME TypeInv, NEW t \in Terminals, ResolveKey(t)
  PROVE  /\ Keeps(t) /\ SameKey(t) /\ SameWork(t)
         /\ run[t].step = "resolve" /\ run'[t].step = "verify"
         /\ run'[t].conf = run[t].conf
         /\ config' \in [Names -> ConfType \cup {None}] /\ SameAsks
         /\ keychain' \subseteq keychain \cup {run[t].name}
<1>1. TypeOK /\ run[t].step = "resolve" /\ run[t].name \in Names
  BY DEF TypeInv, ResolveKey, At, CmdSound
<1>2. /\ Keeps(t) /\ SameKey(t) /\ SameWork(t)
      /\ run'[t].step = "verify" /\ run'[t].conf = run[t].conf
  BY <1>1, GoStep DEF ResolveKey, SameWork, Steps
<1>3. CASE UNCHANGED <<config, keychain>>
  BY <1>1, <1>2, <1>3 DEF SameAsks, TypeOK
<1>4. CASE StoreKey(run[t].name)
  BY <1>1, <1>2, <1>4, StoreKeyDoes
<1> QED BY <1>3, <1>4 DEF ResolveKey

LEMMA VerifyDoes ==
  ASSUME TypeInv, NEW t \in Terminals, Verify(t)
  PROVE  /\ Keeps(t) /\ SameKey(t) /\ SameWork(t)
         /\ run[t].step = "verify" /\ run'[t].step \in {"partial", "interview"}
         /\ run'[t].conf = run[t].conf
<1> DEFINE s == IF run[t].fresh THEN "partial" ELSE "interview"
<1>1. Go(t, [step |-> s]) /\ run[t].step = "verify"
  BY DEF Verify, At
<1>2. s \in {"partial", "interview"} /\ s \in Steps
  BY DEF Steps
<1> HIDE DEF s
<1> QED BY <1>1, <1>2, GoStep DEF TypeInv, SameWork

LEMMA SavePartialDoes ==
  ASSUME TypeInv, NEW t \in Terminals, SavePartial(t)
  PROVE  /\ Keeps(t) /\ SameKey(t) /\ SameWork(t)
         /\ run[t].step = "partial" /\ run'[t].step = "partial key"
         /\ run'[t].conf = run[t].conf
         /\ \E conf \in ConfType :
              /\ conf.keys = {} /\ conf.copied = {} /\ conf.far = NoSource
              /\ config' = [config EXCEPT ![run[t].name] = conf]
<1> DEFINE conf == [Zero EXCEPT !.set = {"region"}]
<1>1. /\ conf \in ConfType /\ conf.keys = {} /\ conf.copied = {}
      /\ conf.far = NoSource
  BY IdleTypes DEF ConfType, Required
<1>2. config' = [config EXCEPT ![run[t].name] = conf]
  BY DEF SavePartial, SaveTo
<1> HIDE DEF conf
<1>3. /\ Keeps(t) /\ SameKey(t) /\ SameWork(t)
      /\ run'[t].step = "partial key" /\ run'[t].conf = run[t].conf
  BY GoStep DEF SavePartial, TypeInv, SameWork, Steps
<1> QED BY <1>1, <1>2, <1>3 DEF SavePartial, At

LEMMA PersistKeyDoes ==
  ASSUME TypeInv, NEW t \in Terminals, PersistKey(t)
  PROVE  /\ Keeps(t) /\ SameKey(t) /\ SameWork(t)
         /\ \/ run[t].step = "partial key" /\ run'[t].step = "interview"
            \/ run[t].step = "persist" /\ run'[t].step = "select"
         /\ run'[t].conf = run[t].conf
         /\ config' \in [Names -> ConfType \cup {None}] /\ SameAsks
         /\ keychain' \subseteq keychain \cup {run[t].name}
<1>1. /\ Keeps(t) /\ SameKey(t) /\ SameWork(t)
      /\ \/ run[t].step = "partial key" /\ run'[t].step = "interview"
         \/ run[t].step = "persist" /\ run'[t].step = "select"
      /\ run'[t].conf = run[t].conf
  <2>1. CASE run[t].step = "partial key" /\ Go(t, [step |-> "interview"])
    BY <2>1, GoStep DEF TypeInv, SameWork, Steps
  <2>2. CASE run[t].step = "persist" /\ Go(t, [step |-> "select"])
    BY <2>2, GoStep DEF TypeInv, SameWork, Steps
  <2> QED BY <2>1, <2>2 DEF PersistKey, At
<1>2. TypeOK /\ run[t].name \in Names
  BY <1>1 DEF TypeInv, CmdSound
<1>3. CASE UNCHANGED <<config, keychain>>
  BY <1>1, <1>2, <1>3 DEF SameAsks, TypeOK
<1>4. CASE StoreKey(run[t].name)
  BY <1>1, <1>2, <1>4, StoreKeyDoes
<1> QED BY <1>3, <1>4 DEF PersistKey

LEMMA InterviewDoes ==
  ASSUME TypeInv, NEW t \in Terminals, Interview(t)
  PROVE  /\ Keeps(t) /\ run[t].step = "interview"
         /\ run'[t].conf.copied = {} /\ run'[t].conf.far = NoSource
         /\ \/ /\ run'[t].step \in {"supply", "overlay"}
               /\ run'[t].conf.keys = {}
            \/ /\ run'[t].step = "check" /\ run'[t].key \in KeyNames
               /\ run'[t].conf.keys = run'[t].todo \X {run'[t].key}
<1>1. TypeOK /\ run[t].step = "interview"
  BY DEF TypeInv, Interview, At
<1>2. PICK asked \in Answers :
        IF "jumphosts" \notin asked
        THEN Go(t, [step |-> IF "bnk" \in asked THEN "supply" ELSE "overlay",
                    asked |-> asked, conf |-> [Zero EXCEPT !.set = Required]])
        ELSE \E k \in KeyNames, rs \in SUBSET Regions \ {{}} :
               Go(t, [step |-> "check", asked |-> asked, key |-> k, todo |-> rs,
                      conf |-> [Zero EXCEPT !.set = Required, !.keys = rs \X {k}]])
  BY DEF Interview
<1>3. asked \in SUBSET Topics
  BY AnswersAssumption
<1>4. CASE "jumphosts" \notin asked
  <2> DEFINE s    == IF "bnk" \in asked THEN "supply" ELSE "overlay"
             conf == [Zero EXCEPT !.set = Required]
  <2>1. Go(t, [step |-> s, asked |-> asked, conf |-> conf])
    BY <1>2, <1>4
  <2>2. s \in {"supply", "overlay"} /\ s \in Steps
    BY DEF Steps
  <2>3. /\ conf \in ConfType /\ conf.keys = {} /\ conf.copied = {}
        /\ conf.far = NoSource
    BY IdleTypes DEF ConfType
  <2> HIDE DEF s, conf
  <2> QED BY <1>1, <1>3, <2>1, <2>2, <2>3, GoAnswers
<1>5. CASE "jumphosts" \in asked
  <2>1. PICK k \in KeyNames, rs \in SUBSET Regions :
          Go(t, [step |-> "check", asked |-> asked, key |-> k, todo |-> rs,
                 conf |-> [Zero EXCEPT !.set = Required, !.keys = rs \X {k}]])
    BY <1>2, <1>5
  <2> DEFINE conf == [Zero EXCEPT !.set = Required, !.keys = rs \X {k}]
  <2>2. rs \X {k} \in SUBSET (Regions \X KeyNames)
    OBVIOUS
  <2>3. /\ conf \in ConfType /\ conf.keys = rs \X {k} /\ conf.copied = {}
        /\ conf.far = NoSource
    BY <2>2, IdleTypes DEF ConfType
  <2>4. Go(t, [step |-> "check", asked |-> asked, key |-> k, todo |-> rs,
               conf |-> conf])
    BY <2>1
  <2> HIDE DEF conf
  <2>5. "check" \in Steps
    BY DEF Steps
  <2> QED BY <1>1, <1>3, <2>3, <2>4, <2>5, GoJumphosts
<1> QED BY <1>4, <1>5

-----------------------------------------------------------------------------
(* What the steps of a key do.                                             *)

\* Where a command goes when the jumphosts' key is done with.
AfterKey   == {"supply", "overlay"}
AfterChain == {"proxy", "overlay"}

LEMMA NextTopic ==
  ASSUME NEW t \in Terminals
  PROVE  /\ Storage(t) \in AfterKey /\ Proxy(t) \in AfterChain
         /\ Storage(t) \in Steps /\ Proxy(t) \in Steps
BY DEF Storage, Proxy, AfterKey, AfterChain, Steps

LEMMA CheckKeyDoes ==
  ASSUME TypeInv, NEW t \in Terminals, CheckKey(t)
  PROVE  /\ Keeps(t) /\ SameKey(t) /\ run'[t].conf = run[t].conf
         /\ run[t].step = "check" /\ run[t].key \in KeyNames
         /\ \/ run'[t].step = "generate" /\ run'[t].todo = run[t].todo
            \/ /\ run'[t].step \in AfterKey \cup {"replicate"}
               /\ run'[t].step = "replicate" => run'[t].pair # 0
               /\ \A r \in run[t].todo :
                    \/ cloud[r][run[t].key] # 0
                    \/ run'[t].step = "replicate" /\ r \in run'[t].todo
<1> DEFINE k       == run[t].key
           have    == {r \in run[t].todo : cloud[r][k] # 0}
           lacking == run[t].todo \ have
<1>1. TypeOK /\ run[t].step = "check" /\ k \in KeyNames
  BY DEF TypeInv, CheckKey, At, CmdSound, KeySteps
<1>2. run[t].todo \subseteq Regions /\ cloud \in [Regions -> [KeyNames -> Nat]]
  BY <1>1 DEF TypeOK, CmdType
<1>3. CASE have = {}
  <2>1. Go(t, [step |-> "generate"])
    BY <1>3 DEF CheckKey
  <2>2. "generate" \in Steps
    BY DEF Steps
  <2> QED BY <1>1, <2>1, <2>2, GoStep
<1>4. CASE have # {}
  <2> DEFINE s == IF lacking = {} THEN Storage(t) ELSE "replicate"
  <2>1. PICK r \in have :
          Go(t, [step |-> s, todo |-> lacking, pair |-> cloud[r][k]])
    BY <1>4 DEF CheckKey
  <2>2. cloud[r][k] \in Nat \ {0} /\ lacking \in SUBSET Regions
    BY <1>1, <1>2
  <2>3. s \in AfterKey \cup {"replicate"} /\ s \in Steps
    BY NextTopic DEF Steps
  <2>4. lacking # {} => s = "replicate"
    OBVIOUS
  <2>5. \A q \in run[t].todo : cloud[q][k] # 0 \/ q \in lacking
    OBVIOUS
  <2> HIDE DEF s, lacking, have, k
  <2>6. /\ Keeps(t) /\ SameKey(t) /\ run'[t].conf = run[t].conf
        /\ run'[t].step = s /\ run'[t].todo = lacking /\ run'[t].pair = cloud[r][k]
    BY <1>1, <2>1, <2>2, <2>3, GoFound
  <2>7. \A q \in run[t].todo :
          \/ cloud[q][k] # 0
          \/ run'[t].step = "replicate" /\ q \in run'[t].todo
    BY <2>4, <2>5, <2>6
  <2>8. run'[t].pair # 0
    BY <2>2, <2>6
  <2> QED BY <1>1, <2>3, <2>6, <2>7, <2>8 DEF k
<1> QED BY <1>3, <1>4

LEMMA GenerateKeyDoes ==
  ASSUME TypeInv, NEW t \in Terminals, GenerateKey(t)
  PROVE  /\ Keeps(t) /\ SameKey(t) /\ run'[t].conf = run[t].conf
         /\ run[t].step = "generate" /\ run[t].key \in KeyNames
         /\ run'[t].step = "upload" /\ run'[t].todo = run[t].todo
         /\ run'[t].pair # 0 /\ pairs' \in Nat
         /\ sshdir' \in [Names -> [KeyNames -> Nat]]
<1>1. /\ TypeOK /\ run[t].step = "generate"
      /\ run[t].key \in KeyNames /\ run[t].name \in Names
  BY DEF TypeInv, GenerateKey, At, CmdSound, KeySteps
<1>2. pairs' \in Nat /\ pairs' # 0
  BY <1>1 DEF GenerateKey, TypeOK
<1>3. Go(t, [step |-> "upload", pair |-> pairs']) /\ "upload" \in Steps
  BY DEF GenerateKey, Steps
<1>4. /\ Keeps(t) /\ SameKey(t) /\ run'[t].conf = run[t].conf
      /\ run'[t].step = "upload" /\ run'[t].todo = run[t].todo
      /\ run'[t].pair = pairs'
  BY <1>1, <1>2, <1>3, GoPair
<1>5. sshdir' = [sshdir EXCEPT ![run[t].name][run[t].key] = pairs']
  BY DEF GenerateKey
<1>6. sshdir' \in [Names -> [KeyNames -> Nat]]
  BY <1>1, <1>2, <1>5 DEF TypeOK
<1> QED BY <1>1, <1>2, <1>4, <1>6

\* No key is ever removed from a region.
CloudGrows ==
  /\ cloud' \in [Regions -> [KeyNames -> Nat]]
  /\ \A r \in Regions, k \in KeyNames : cloud[r][k] # 0 => cloud'[r][k] # 0

LEMMA UploadKeyDoes ==
  ASSUME TypeInv, NEW t \in Terminals, UploadKey(t)
  PROVE  /\ Keeps(t) /\ SameKey(t) /\ run'[t].conf = run[t].conf
         /\ run[t].step \in {"replicate", "upload"} /\ run[t].key \in KeyNames
         /\ run'[t].step \in AfterKey \cup {"replicate", "upload", "copy"}
         /\ run'[t].pair = run[t].pair /\ CloudGrows
         /\ \A r \in run[t].todo :
              \/ cloud'[r][run[t].key] # 0
              \/ run'[t].step \in {"replicate", "upload"} /\ r \in run'[t].todo
<1> DEFINE k == run[t].key
<1>1. TypeOK /\ run[t].step \in {"replicate", "upload"} /\ k \in KeyNames
      /\ run[t].pair \in Nat \ {0}
  <2>1. TypeOK /\ run[t].step \in {"replicate", "upload"} /\ run[t] \in CmdType
    BY DEF TypeInv, UploadKey, At, TypeOK
  <2>2. CmdSound(run[t])
    BY DEF TypeInv
  <2> QED BY <2>1, <2>2 DEF CmdSound, KeySteps, CmdType
<1>2. PICK r \in run[t].todo :
        /\ cloud' = [cloud EXCEPT ![r][k] = run[t].pair]
        /\ Go(t, [todo |-> run[t].todo \ {r},
                  step |-> IF run[t].todo # {r} THEN run[t].step
                           ELSE IF At(t, "upload") THEN "copy" ELSE Storage(t)])
  BY DEF UploadKey
<1> DEFINE rest == run[t].todo \ {r}
           s    == IF run[t].todo # {r} THEN run[t].step
                   ELSE IF At(t, "upload") THEN "copy" ELSE Storage(t)
<1>3. run[t].todo \subseteq Regions /\ r \in Regions /\ rest \in SUBSET Regions
  BY <1>1 DEF TypeOK, CmdType
<1>4. s \in AfterKey \cup {"replicate", "upload", "copy"} /\ s \in Steps
  BY <1>1, NextTopic DEF Steps
<1>5. rest # {} => s \in {"replicate", "upload"}
  BY <1>1
<1>6. Go(t, [todo |-> rest, step |-> s])
  BY <1>2
<1>7. \A q \in run[t].todo : q = r \/ q \in rest
  OBVIOUS
<1>8. CloudGrows /\ cloud'[r][k] # 0
  BY <1>1, <1>2, <1>3 DEF CloudGrows, TypeOK
<1> HIDE DEF rest, s, k
<1>9. /\ Keeps(t) /\ SameKey(t) /\ run'[t].conf = run[t].conf
      /\ run'[t].step = s /\ run'[t].todo = rest /\ run'[t].pair = run[t].pair
  BY <1>1, <1>3, <1>4, <1>6, GoTodo
<1>10. \A q \in run[t].todo :
         \/ cloud'[q][k] # 0
         \/ run'[t].step \in {"replicate", "upload"} /\ q \in run'[t].todo
  BY <1>5, <1>7, <1>8, <1>9
<1> QED BY <1>1, <1>4, <1>8, <1>9, <1>10 DEF k

LEMMA CopyKeyDoes ==
  ASSUME TypeInv, NEW t \in Terminals, CopyKey(t)
  PROVE  /\ Keeps(t) /\ SameKey(t) /\ SameWork(t)
         /\ run[t].step = "copy" /\ run[t].key \in KeyNames
         /\ run'[t].step \in AfterKey
         /\ run'[t].conf.keys = run[t].conf.keys
         /\ run'[t].conf.far = run[t].conf.far
         /\ run'[t].conf.given = run[t].conf.given
         /\ \/ /\ home[run[t].key] = None
               /\ home' = [home EXCEPT ![run[t].key] = run[t].name]
               /\ run'[t].conf.copied = {run[t].key}
            \/ home' = home /\ run'[t].conf = run[t].conf
<1> DEFINE k == run[t].key  conf == [run[t].conf EXCEPT !.copied = {k}]
<1>1. TypeOK /\ run[t].step = "copy" /\ k \in KeyNames
  BY DEF TypeInv, CopyKey, At, CmdSound
<1>2. run[t].conf \in ConfType
  BY <1>1 DEF TypeOK, CmdType
<1>3. /\ conf \in ConfType /\ conf.keys = run[t].conf.keys
      /\ conf.far = run[t].conf.far /\ conf.copied = {k}
      /\ conf.given = run[t].conf.given
  BY <1>1, <1>2 DEF ConfType
<1>4. CASE /\ home[k] = None /\ home' = [home EXCEPT ![k] = run[t].name]
           /\ Go(t, [step |-> Storage(t), conf |-> conf])
  <2> HIDE DEF conf
  <2> QED BY <1>1, <1>3, <1>4, NextTopic, GoConf DEF SameWork
<1>5. CASE UNCHANGED home /\ Go(t, [step |-> Storage(t)])
  BY <1>1, <1>5, NextTopic, GoStep DEF SameWork
<1> QED BY <1>4, <1>5 DEF CopyKey

-----------------------------------------------------------------------------
(* The supply chain.                                                       *)

FoundIs ==
  /\ Found \in Buckets \cup {None}
  /\ Found # None => Found \in Buckets /\ Ours(Found)
  /\ Ours("plain") => Found = "plain"
  /\ ~Ours("plain") /\ Ours("suffixed") => Found = "suffixed"

LEMMA FoundNow == FoundIs /\ FoundIs'
<1>1. FoundIs
  BY BucketsAssumption DEF FoundIs, Found, Buckets
<1>2. FoundIs'
  BY BucketsAssumption DEF FoundIs, Found, Buckets
<1> QED BY <1>1, <1>2

\* An artefact goes into the bucket that is found there, and it is found after.
LEMMA PutDoes ==
  ASSUME TypeOK, NEW o \in Artefacts, PutObject(Provisioned, o)
  PROVE  /\ Provisioned = Found /\ Found \in Buckets /\ Found # None
         /\ Found' = Found /\ instance' = instance
         /\ buckets' \in [Buckets -> Bucket \cup {None}]
         /\ buckets'[Found] # None
         /\ buckets'[Found].objects = buckets[Found].objects \cup {o}
         /\ \A b \in Buckets : buckets[b] # None =>
              /\ buckets'[b] # None
              /\ buckets[b].objects = Artefacts => buckets'[b].objects = Artefacts
<1> DEFINE b == Provisioned
<1>1. Ours(b)
  BY DEF PutObject
<1>2. Found # None /\ b = Found
  <2>1. CASE Found # None
    BY <2>1 DEF Provisioned
  <2>2. CASE Found = None
    <3>1. b = "suffixed"
      BY <2>2 DEF Provisioned
    <3>2. Ours("plain") \/ Ours("suffixed")
      BY <1>1, <3>1
    <3>3. Found \in {"plain", "suffixed"}
      BY <3>2, FoundNow DEF FoundIs
    <3> QED BY <2>2, <3>3, BucketsAssumption DEF Buckets
  <2> QED BY <2>1, <2>2
<1>3. b \in Buckets /\ buckets[b] # None /\ instance
  BY <1>1, <1>2, FoundNow DEF FoundIs, Ours
<1>4. buckets[b] \in Bucket
  BY <1>3 DEF TypeOK
<1> DEFINE new == [buckets[b] EXCEPT !.objects = @ \cup {o}]
<1>5. new \in Bucket /\ new.ours = buckets[b].ours
      /\ new.objects = buckets[b].objects \cup {o}
  BY <1>4 DEF Bucket
<1>6. new # None
  BY <1>5, BucketsAssumption
<1>7. buckets' = [buckets EXCEPT ![b] = new]
  BY <1>3 DEF PutObject, TypeOK
<1> HIDE DEF new, b
<1>8. /\ buckets'[b] = new
      /\ \A c \in Buckets : c # b => buckets'[c] = buckets[c]
      /\ buckets' \in [Buckets -> Bucket \cup {None}]
  BY <1>3, <1>5, <1>7 DEF TypeOK
<1>9. instance' = instance
  BY DEF PutObject
<1>10. \A c \in Buckets : Ours(c)' = Ours(c)
  BY <1>3, <1>5, <1>6, <1>8, <1>9 DEF Ours
<1>11. Found' = Found
  BY <1>10 DEF Found, Buckets
<1>12. buckets[b].objects = Artefacts => new.objects = Artefacts
  BY <1>5
<1> QED BY <1>2, <1>3, <1>5, <1>6, <1>8, <1>9, <1>11, <1>12 DEF b

LEMMA EnsureSupplyChainDoes ==
  ASSUME TypeInv, NEW t \in Terminals, EnsureSupplyChain(t)
  PROVE  /\ Keeps(t) /\ SameKey(t) /\ SameWork(t) /\ run[t].step = "supply"
         /\ run'[t].step \in AfterChain \cup {"instance", "bucket", "far"}
         /\ run'[t].conf.keys = run[t].conf.keys
         /\ run'[t].conf.copied = run[t].conf.copied
         /\ run'[t].conf.given = run[t].conf.given
         /\ \/ run'[t].conf.far = run[t].conf.far
            \/ run'[t].step \in AfterChain /\ run'[t].conf.far.bucket = "local files"
            \/ run'[t].step \in AfterChain /\ Complete
                 /\ run'[t].conf.far.bucket = Found
<1> DEFINE old   == run[t].conf
           chain == Recorded(t, Found)
           local == [old EXCEPT !.far.bucket = "local files"]
<1>1. TypeOK /\ run[t].step = "supply" /\ old \in ConfType
  BY DEF TypeInv, TypeOK, CmdType, EnsureSupplyChain, At
<1>2. /\ chain \in ConfType /\ chain.keys = old.keys
      /\ chain.copied = old.copied /\ chain.given = old.given /\ chain.far.bucket = Found
  <2> DEFINE far == [bucket |-> Found, region |-> DefaultRegion]
  <2>1. far \in Sources /\ far.bucket = Found
    BY FoundNow, RegionAssumption DEF Sources, FoundIs
  <2>2. chain = [old EXCEPT !.far = far]
    BY DEF Recorded
  <2> HIDE DEF far, chain, old
  <2> QED BY <1>1, <2>1, <2>2 DEF ConfType
<1>3. /\ local \in ConfType /\ local.keys = old.keys
      /\ local.copied = old.copied /\ local.given = old.given /\ local.far.bucket = "local files"
  <2> DEFINE far == [old.far EXCEPT !.bucket = "local files"]
  <2>1. old.far \in Sources
    BY <1>1 DEF ConfType
  <2>2. far \in Sources /\ far.bucket = "local files"
    BY <2>1 DEF Sources
  <2>3. local = [old EXCEPT !.far = far]
    BY <1>1 DEF ConfType
  <2> HIDE DEF far, local, old
  <2> QED BY <1>1, <2>2, <2>3 DEF ConfType
<1>4. CASE Complete /\ Go(t, [step |-> Proxy(t), conf |-> chain])
  <2> HIDE DEF chain
  <2>1. /\ Keeps(t) /\ SameKey(t) /\ SameWork(t)
        /\ run'[t].step = Proxy(t) /\ run'[t].conf = chain
    BY <1>1, <1>2, <1>4, NextTopic, GoConf DEF SameWork
  <2> QED BY <1>1, <1>2, <1>4, <2>1, NextTopic
<1>5. CASE Go(t, [step |-> Proxy(t), conf |-> local])
  <2> HIDE DEF local
  <2>1. /\ Keeps(t) /\ SameKey(t) /\ SameWork(t)
        /\ run'[t].step = Proxy(t) /\ run'[t].conf = local
    BY <1>1, <1>3, <1>5, NextTopic, GoConf DEF SameWork
  <2> QED BY <1>1, <1>3, <2>1, NextTopic
<1>6. CASE Go(t, [step |-> Proxy(t)])
  BY <1>1, <1>6, NextTopic, GoStep DEF SameWork
<1>7. CASE Go(t, [step |-> IF ~instance THEN "instance"
                           ELSE IF Found = None THEN "bucket" ELSE "far"])
  <2> DEFINE s == IF ~instance THEN "instance"
                  ELSE IF Found = None THEN "bucket" ELSE "far"
  <2>1. s \in {"instance", "bucket", "far"} /\ s \in Steps
    BY DEF Steps
  <2> HIDE DEF s
  <2>2. Go(t, [step |-> s])
    BY <1>7 DEF s
  <2> QED BY <1>1, <2>1, <2>2, GoStep DEF SameWork
<1> QED BY <1>4, <1>5, <1>6, <1>7 DEF EnsureSupplyChain

LEMMA ProvisionDoes ==
  ASSUME TypeInv, NEW t \in Terminals, Provision(t)
  PROVE  /\ Keeps(t) /\ SameKey(t) /\ SameWork(t)
         /\ run'[t].conf.keys = run[t].conf.keys
         /\ run'[t].conf.copied = run[t].conf.copied
         /\ run'[t].conf.given = run[t].conf.given
         /\ instance' \in BOOLEAN /\ buckets' \in [Buckets -> Bucket \cup {None}]
         /\ \/ /\ run[t].step \in {"instance", "bucket"}
               /\ run'[t].step \in {"bucket", "far"} /\ run'[t].conf = run[t].conf
            \/ /\ run[t].step = "far" /\ PutObject(Provisioned, "far")
               /\ run'[t].step = "jwt" /\ run'[t].conf = run[t].conf
            \/ /\ run[t].step = "jwt" /\ PutObject(Provisioned, "jwt")
               /\ run'[t].step \in AfterChain /\ run'[t].conf.far.bucket = Provisioned
<1> DEFINE old == run[t].conf  b == Provisioned  conf == Recorded(t, b)
<1>1. TypeOK /\ old \in ConfType
  BY DEF TypeInv, TypeOK, CmdType
<1>2. b \in Buckets
  BY FoundNow DEF Provisioned, FoundIs, Buckets
<1>3. /\ conf \in ConfType /\ conf.keys = old.keys
      /\ conf.copied = old.copied /\ conf.given = old.given /\ conf.far.bucket = b
  <2> DEFINE far == [bucket |-> b, region |-> DefaultRegion]
  <2> HIDE DEF b
  <2>1. far \in Sources /\ far.bucket = b
    BY <1>2, RegionAssumption DEF Sources
  <2>2. conf = [old EXCEPT !.far = far]
    BY DEF Recorded
  <2> HIDE DEF far, conf, old
  <2> QED BY <1>1, <2>1, <2>2 DEF ConfType
<1> HIDE DEF conf
<1>4. CASE At(t, "instance") /\ CreateInstance /\ Go(t, [step |-> "bucket"])
  BY <1>1, <1>4, GoStep DEF At, CreateInstance, TypeOK, Steps, SameWork
<1>5. CASE /\ At(t, "bucket") /\ Go(t, [step |-> "far"])
           /\ IF Ours(b) THEN UNCHANGED cosVars ELSE CreateBucket(b, DefaultRegion)
  <2>1. /\ Keeps(t) /\ SameKey(t) /\ SameWork(t)
        /\ run'[t].step = "far" /\ run'[t].conf = run[t].conf
    BY <1>1, <1>5, GoStep DEF Steps, SameWork
  <2>2. CASE UNCHANGED cosVars
    BY <1>1, <1>5, <2>1, <2>2 DEF At, cosVars, TypeOK
  <2>3. CASE CreateBucket(b, DefaultRegion)
    <3> DEFINE new == [region |-> DefaultRegion, ours |-> TRUE, objects |-> {}]
    <3> HIDE DEF b
    <3>1. new \in Bucket
      BY RegionAssumption DEF Bucket
    <3>2. buckets' = [buckets EXCEPT ![b] = new] /\ instance' = instance
      BY <2>3 DEF CreateBucket
    <3> HIDE DEF new
    <3>3. buckets' \in [Buckets -> Bucket \cup {None}]
      BY <1>1, <1>2, <3>1, <3>2 DEF TypeOK
    <3> QED BY <1>1, <1>5, <2>1, <3>2, <3>3 DEF At, TypeOK
  <2> QED BY <1>5, <2>2, <2>3
<1>6. CASE At(t, "far") /\ PutObject(b, "far") /\ Go(t, [step |-> "jwt"])
  <2>1. /\ Keeps(t) /\ SameKey(t) /\ SameWork(t)
        /\ run'[t].step = "jwt" /\ run'[t].conf = run[t].conf
    BY <1>1, <1>6, GoStep DEF Steps, SameWork
  <2>2. instance' = instance /\ buckets' \in [Buckets -> Bucket \cup {None}]
    BY <1>1, <1>6, PutDoes DEF Artefacts
  <2> QED BY <1>1, <1>6, <2>1, <2>2 DEF At, TypeOK
<1>7. CASE /\ At(t, "jwt") /\ PutObject(b, "jwt")
           /\ Go(t, [step |-> Proxy(t), conf |-> conf])
  <2>1. /\ Keeps(t) /\ SameKey(t) /\ SameWork(t)
        /\ run'[t].step = Proxy(t) /\ run'[t].conf = conf
    BY <1>1, <1>3, <1>7, NextTopic, GoConf DEF SameWork
  <2>2. instance' = instance /\ buckets' \in [Buckets -> Bucket \cup {None}]
    BY <1>1, <1>7, PutDoes DEF Artefacts
  <2> QED BY <1>1, <1>3, <1>7, <2>1, <2>2, NextTopic DEF At, TypeOK
<1> QED BY <1>4, <1>5, <1>6, <1>7 DEF Provision, conf

\* ~/.ssh only gets files of the workspace, under names that are free.
HomeGrows(n) ==
  /\ home' \in [KeyNames -> Names \cup {"user", None}]
  /\ \A k \in KeyNames : home[k] # None => home'[k] = home[k]
  /\ \A k \in KeyNames : home[k] = None => home'[k] \in {None, n}

LEMMA CloudSame == ASSUME TypeOK, UNCHANGED cloud PROVE CloudGrows
BY DEF TypeOK, CloudGrows

LEMMA HomeSame == ASSUME TypeOK, NEW n, UNCHANGED home PROVE HomeGrows(n)
BY DEF TypeOK, HomeGrows

\* A pair that is generated for the proxy appliance.
LEMMA PairDoes ==
  ASSUME TypeOK, NEW n \in Names, NEW r \in Regions, NEW k \in KeyNames,
         pairs' = pairs + 1, sshdir' = [sshdir EXCEPT ![n][k] = pairs']
  PROVE  /\ pairs' \in Nat \ {0} /\ sshdir' \in [Names -> [KeyNames -> Nat]]
         /\ cloud' = [cloud EXCEPT ![r][k] = pairs'] => CloudGrows
         /\ cloud' = [cloud EXCEPT ![r][k] = pairs'] => cloud'[r][k] # 0
         /\ home' = [home EXCEPT ![k] = IF @ = None THEN n ELSE @] => HomeGrows(n)
<1>1. pairs' \in Nat \ {0}
  BY DEF TypeOK
<1>2. sshdir' \in [Names -> [KeyNames -> Nat]]
  BY <1>1 DEF TypeOK
<1>3. cloud' = [cloud EXCEPT ![r][k] = pairs'] => CloudGrows
  BY <1>1 DEF TypeOK, CloudGrows
<1>4. cloud' = [cloud EXCEPT ![r][k] = pairs'] => cloud'[r][k] # 0
  BY <1>1 DEF TypeOK
<1>5. home' = [home EXCEPT ![k] = IF @ = None THEN n ELSE @] => HomeGrows(n)
  BY DEF TypeOK, HomeGrows
<1> QED BY <1>1, <1>2, <1>3, <1>4, <1>5

LEMMA ProxyKeyDoes ==
  ASSUME TypeInv, NEW t \in Terminals, ProxyKey(t)
  PROVE  /\ Keeps(t) /\ SameKey(t) /\ SameWork(t)
         /\ run[t].step = "proxy" /\ run'[t].step = "overlay"
         /\ run'[t].conf.copied = run[t].conf.copied
         /\ run'[t].conf.far = run[t].conf.far
         /\ run'[t].conf.given = run[t].conf.given
         /\ CloudGrows /\ HomeGrows(run[t].name)
         /\ \A key \in run'[t].conf.keys :
              key \in run[t].conf.keys \/ cloud'[key[1]][key[2]] # 0
         /\ sshdir' \in [Names -> [KeyNames -> Nat]] /\ pairs' \in Nat
<1> DEFINE n == run[t].name  old == run[t].conf
<1>1. TypeOK /\ run[t].step = "proxy" /\ n \in Names /\ old \in ConfType
  <2>1. TypeOK /\ run[t].step = "proxy" /\ old \in ConfType
    BY DEF TypeInv, TypeOK, CmdType, ProxyKey, At
  <2> QED BY <2>1 DEF TypeInv, CmdSound
<1>2. ASSUME Go(t, [step |-> "overlay"])
      PROVE  /\ Keeps(t) /\ SameKey(t) /\ SameWork(t)
             /\ run'[t].step = "overlay" /\ run'[t].conf = old
  BY <1>1, <1>2, GoStep DEF Steps, SameWork
<1>3. CASE Go(t, [step |-> "overlay"]) /\ UNCHANGED <<sshdir, home, cloud, pairs>>
  <2>1. CloudGrows /\ HomeGrows(n)
    BY <1>1, <1>3, CloudSame, HomeSame
  <2>2. sshdir' \in [Names -> [KeyNames -> Nat]] /\ pairs' \in Nat
    BY <1>1, <1>3 DEF TypeOK
  <2> QED BY <1>1, <1>2, <1>3, <2>1, <2>2
<1>4. ASSUME NEW k \in KeyNames, NEW r \in Regions,
             LET with == Go(t, [step |-> "overlay", conf |-> [run[t].conf EXCEPT !.keys = @ \cup {<<r, k>>}]]) IN
             \/ cloud[r][k] # 0 /\ with /\ UNCHANGED <<sshdir, home, cloud, pairs>>
             \/ /\ cloud[r][k] = 0 /\ pairs < MaxPairs
                /\ pairs' = pairs + 1 /\ sshdir' = [sshdir EXCEPT ![n][k] = pairs']
                /\ \/ Go(t, [step |-> "overlay"]) /\ UNCHANGED <<home, cloud>>
                   \/ with /\ cloud' = [cloud EXCEPT ![r][k] = pairs']
                      /\ home' \in {home, [home EXCEPT ![k] = IF @ = None THEN n ELSE @]}
      PROVE  /\ Keeps(t) /\ SameKey(t) /\ SameWork(t) /\ run'[t].step = "overlay"
             /\ run'[t].conf.copied = old.copied /\ run'[t].conf.far = old.far
             /\ run'[t].conf.given = old.given
             /\ CloudGrows /\ HomeGrows(n)
             /\ \A key \in run'[t].conf.keys : key \in old.keys \/ cloud'[key[1]][key[2]] # 0
             /\ sshdir' \in [Names -> [KeyNames -> Nat]] /\ pairs' \in Nat
  <2> DEFINE conf == [old EXCEPT !.keys = @ \cup {<<r, k>>}]
             made == cloud' = [cloud EXCEPT ![r][k] = pairs']
  <2>1. /\ conf \in ConfType /\ conf.copied = old.copied /\ conf.far = old.far
        /\ conf.given = old.given /\ conf.keys = old.keys \cup {<<r, k>>}
    BY <1>1 DEF ConfType
  <2>2. \/ /\ cloud[r][k] # 0 /\ Go(t, [step |-> "overlay", conf |-> conf])
           /\ UNCHANGED <<sshdir, home, cloud, pairs>>
        \/ /\ pairs' = pairs + 1 /\ sshdir' = [sshdir EXCEPT ![n][k] = pairs']
           /\ Go(t, [step |-> "overlay"]) /\ UNCHANGED <<home, cloud>>
        \/ /\ pairs' = pairs + 1 /\ sshdir' = [sshdir EXCEPT ![n][k] = pairs']
           /\ Go(t, [step |-> "overlay", conf |-> conf]) /\ made
           /\ home' = home \/ home' = [home EXCEPT ![k] = IF @ = None THEN n ELSE @]
    BY <1>4
  <2> HIDE DEF conf
  <2>3. "overlay" \in Steps
    BY DEF Steps
  <2>4. ASSUME Go(t, [step |-> "overlay", conf |-> conf]), cloud'[r][k] # 0
        PROVE  /\ Keeps(t) /\ SameKey(t) /\ SameWork(t) /\ run'[t].step = "overlay"
               /\ run'[t].conf.copied = old.copied /\ run'[t].conf.far = old.far
               /\ run'[t].conf.given = old.given
               /\ \A key \in run'[t].conf.keys :
                    key \in old.keys \/ cloud'[key[1]][key[2]] # 0
    BY <1>1, <2>1, <2>3, <2>4, GoConf DEF SameWork
  <2>5. CASE /\ cloud[r][k] # 0 /\ Go(t, [step |-> "overlay", conf |-> conf])
             /\ UNCHANGED <<sshdir, home, cloud, pairs>>
    <3>1. CloudGrows /\ HomeGrows(n) /\ cloud'[r][k] # 0
      BY <1>1, <2>5, CloudSame, HomeSame
    <3>2. sshdir' \in [Names -> [KeyNames -> Nat]] /\ pairs' \in Nat
      BY <1>1, <2>5 DEF TypeOK
    <3> QED BY <2>4, <2>5, <3>1, <3>2
  <2>6. CASE /\ pairs' = pairs + 1 /\ sshdir' = [sshdir EXCEPT ![n][k] = pairs']
             /\ Go(t, [step |-> "overlay"]) /\ UNCHANGED <<home, cloud>>
    <3>1. CloudGrows /\ HomeGrows(n)
      BY <1>1, <2>6, CloudSame, HomeSame
    <3>2. sshdir' \in [Names -> [KeyNames -> Nat]] /\ pairs' \in Nat
      BY <1>1, <2>6, PairDoes
    <3> QED BY <1>2, <2>6, <3>1, <3>2
  <2>7. CASE /\ pairs' = pairs + 1 /\ sshdir' = [sshdir EXCEPT ![n][k] = pairs']
             /\ Go(t, [step |-> "overlay", conf |-> conf]) /\ made
             /\ home' = home \/ home' = [home EXCEPT ![k] = IF @ = None THEN n ELSE @]
    <3>1. HomeGrows(n)
      BY <1>1, <2>7, HomeSame, PairDoes
    <3>2. CloudGrows /\ cloud'[r][k] # 0
      BY ZenonT(40), <1>1, <2>7, PairDoes
    <3>3. sshdir' \in [Names -> [KeyNames -> Nat]] /\ pairs' \in Nat
      BY <1>1, <2>7, PairDoes
    <3> QED BY <2>4, <2>7, <3>1, <3>2, <3>3
  <2> QED BY <2>2, <2>5, <2>6, <2>7
<1> QED BY <1>1, <1>3, <1>4 DEF ProxyKey

-----------------------------------------------------------------------------
(* The last steps, and the deletion.                                       *)

\* A command that has ended, and what was there stays.
Ended(t) ==
  /\ run' \in [Terminals -> CmdType] /\ OthersStay(t) /\ run'[t] = Idle

LEMMA OverlayDoes ==
  ASSUME TypeInv, NEW t \in Terminals, Overlay(t)
  PROVE  /\ Keeps(t) /\ run[t].step = "overlay" /\ run'[t].step = "save"
         /\ Overlaid(run[t].conf, run'[t].conf)
<1>1. TypeOK /\ run[t].step = "overlay" /\ run[t].conf \in ConfType /\ "save" \in Steps
  BY DEF TypeInv, TypeOK, CmdType, Steps, Overlay, At
<1>2. CASE Go(t, [step |-> "save"])
  BY <1>1, <1>2, GoStep DEF Overlaid
<1>3. ASSUME NEW seed \in Seeds, Go(t, [step |-> "save", conf |-> Given(run[t].conf, seed)])
      PROVE  Keeps(t) /\ run'[t].step = "save" /\ Overlaid(run[t].conf, run'[t].conf)
  <2> DEFINE conf == Given(run[t].conf, seed)
  <2>1. conf \in ConfType /\ Overlaid(run[t].conf, conf)
    BY <1>1, GivenDoes
  <2>2. Go(t, [step |-> "save", conf |-> conf])
    BY <1>3
  <2> HIDE DEF conf
  <2> QED BY <1>1, <2>1, <2>2, GoConf
<1> QED BY <1>1, <1>2, <1>3 DEF Overlay

LEMMA SaveWorkspaceDoes ==
  ASSUME TypeInv, NEW t \in Terminals, SaveWorkspace(t)
  PROVE  /\ run[t].name \in Names /\ run[t].conf \in ConfType
         /\ config' = [config EXCEPT ![run[t].name] = run[t].conf]
         /\ \/ run[t].step = "edit" /\ Ended(t)
            \/ /\ run[t].step \in {"save", "seed", "new"} /\ Keeps(t)
               /\ run'[t].step \in {"persist", "select"}
               /\ run'[t].conf = run[t].conf
<1>1. TypeOK /\ run[t].conf \in ConfType /\ run[t].step \in {"save", "seed", "new", "edit"}
  BY DEF TypeInv, TypeOK, CmdType, SaveWorkspace, Saving
<1>2. run[t].name \in Names
  BY <1>1 DEF TypeInv, CmdSound
<1>3. config' = [config EXCEPT ![run[t].name] = run[t].conf]
  BY DEF SaveWorkspace, SaveTo
<1>4. CASE run[t].step = "edit"
  <2>1. Done(t)
    BY <1>4 DEF SaveWorkspace, At
  <2> QED BY <1>1, <1>2, <1>3, <1>4, <2>1, DoneFacts DEF Ended
<1>5. CASE run[t].step # "edit"
  <2> DEFINE s == IF At(t, "save") THEN "persist" ELSE "select"
  <2>1. Go(t, [step |-> s])
    BY <1>5 DEF SaveWorkspace, At
  <2>2. s \in {"persist", "select"} /\ s \in Steps
    BY DEF Steps
  <2> HIDE DEF s
  <2> QED BY <1>1, <1>2, <1>3, <1>5, <2>1, <2>2, GoStep
<1> QED BY <1>4, <1>5

LEMMA SetCurrentDoes ==
  ASSUME TypeInv, NEW t \in Terminals, SetCurrent(t)
  PROVE  run[t].step = "select" /\ Ended(t) /\ current' \in Names \cup {None}
<1>1. TypeOK /\ run[t].step = "select" /\ run[t] \in CmdType
  BY DEF TypeInv, TypeOK, SetCurrent, At
<1>2. run[t].name \in Names \cup {None}
  BY <1>1 DEF CmdType
<1>3. current' \in Names \cup {None}
  BY <1>1, <1>2 DEF SetCurrent, TypeOK
<1> QED BY <1>1, <1>3, DoneFacts DEF SetCurrent, Ended

LEMMA DeleteWorkspaceDoes ==
  ASSUME TypeInv, NEW t \in Terminals, DeleteWorkspace(t)
  PROVE  /\ Keeps(t) /\ run[t].step = "delete" /\ run'[t].step = "forget"
         /\ run'[t].conf = run[t].conf /\ run[t].name \in Names
         /\ config' = [config EXCEPT ![run[t].name] = None]
         /\ sshdir' \in [Names -> [KeyNames -> Nat]]
         /\ \A k \in KeyNames : sshdir'[run[t].name][k] = 0
<1>1. TypeOK /\ run[t].step = "delete" /\ run[t].name \in Names
  BY DEF TypeInv, CmdSound, DeleteWorkspace, At
<1>2. Go(t, [step |-> "forget"]) /\ "forget" \in Steps
  BY DEF DeleteWorkspace, Steps
<1>3. /\ sshdir' \in [Names -> [KeyNames -> Nat]]
      /\ \A k \in KeyNames : sshdir'[run[t].name][k] = 0
  BY <1>1 DEF DeleteWorkspace, TypeOK
<1>4. config' = [config EXCEPT ![run[t].name] = None]
  BY DEF DeleteWorkspace, SaveTo
<1> QED BY <1>1, <1>2, <1>3, <1>4, GoStep

LEMMA ForgetKeyDoes ==
  ASSUME TypeInv, NEW t \in Terminals, ForgetKey(t)
  PROVE  /\ Keeps(t) /\ run[t].step = "forget" /\ run'[t].step = "unlink"
         /\ run'[t].conf = run[t].conf
         /\ \/ keychain' = keychain \ {run[t].name}
            \/ keychain' = keychain /\ run'[t].held
<1>1. TypeOK /\ run[t].step = "forget" /\ "unlink" \in Steps
  BY DEF TypeInv, ForgetKey, At, Steps
<1>2. CASE keychain' = keychain \ {run[t].name} /\ Go(t, [step |-> "unlink"])
  BY <1>1, <1>2, GoStep
<1>3. CASE UNCHANGED keychain /\ Go(t, [step |-> "unlink", held |-> TRUE])
  BY <1>1, <1>3, GoHeld
<1> QED BY <1>2, <1>3 DEF ForgetKey

LEMMA RemoveCopiesDoes ==
  ASSUME TypeInv, NEW t \in Terminals, RemoveCopies(t)
  PROVE  /\ Keeps(t) /\ run[t].step = "unlink" /\ run'[t].step = "repoint"
         /\ run'[t].conf = run[t].conf /\ run'[t].held = run[t].held
         /\ home' \in [KeyNames -> Names \cup {"user", None}]
         /\ \E gone \in SUBSET run[t].conf.copied :
              /\ \A k \in KeyNames : home'[k] = IF k \in gone THEN None ELSE home[k]
              /\ taken' = IF "copied" \in run[t].conf.given THEN taken \cup gone ELSE taken
              /\ \A k \in run[t].conf.copied : k \in gone \/ k \in run'[t].kept
<1> DEFINE copied == run[t].conf.copied
<1>1. TypeOK /\ run[t].step = "unlink" /\ "repoint" \in Steps /\ copied \subseteq KeyNames
  BY DEF TypeInv, TypeOK, CmdType, ConfType, RemoveCopies, At, Steps
<1>2. PICK kept \in SUBSET copied :
        /\ home' = [k \in KeyNames |-> IF k \in copied \ kept THEN None ELSE home[k]]
        /\ taken' = IF "copied" \in run[t].conf.given
                    THEN taken \cup (copied \ kept) ELSE taken
        /\ Go(t, [step |-> "repoint", kept |-> kept])
  BY DEF RemoveCopies
<1>3. /\ Keeps(t) /\ run'[t].step = "repoint" /\ run'[t].conf = run[t].conf
      /\ run'[t].held = run[t].held /\ run'[t].kept = kept
  BY <1>1, <1>2, GoKept
<1> DEFINE gone == copied \ kept
<1>4. gone \in SUBSET copied /\ \A k \in copied : k \in gone \/ k \in kept
  OBVIOUS
<1>5. /\ home' = [k \in KeyNames |-> IF k \in gone THEN None ELSE home[k]]
      /\ taken' = IF "copied" \in run[t].conf.given THEN taken \cup gone ELSE taken
  BY <1>2
<1> HIDE DEF gone
<1>6. home' \in [KeyNames -> Names \cup {"user", None}]
  BY <1>1, <1>5 DEF TypeOK
<1>7. \A k \in KeyNames : home'[k] = IF k \in gone THEN None ELSE home[k]
  BY <1>5
<1>8. \E g \in SUBSET copied :
        /\ \A k \in KeyNames : home'[k] = IF k \in g THEN None ELSE home[k]
        /\ taken' = IF "copied" \in run[t].conf.given THEN taken \cup g ELSE taken
        /\ \A k \in copied : k \in g \/ k \in run'[t].kept
  BY <1>3, <1>4, <1>5, <1>7
<1> QED BY <1>1, <1>3, <1>6, <1>8

LEMMA RepointDoes ==
  ASSUME TypeInv, NEW t \in Terminals, Repoint(t)
  PROVE  /\ run[t].step = "repoint" /\ Ended(t) /\ current' \in Names \cup {None}
         /\ run[t].name \in Names
         /\ run[t].was # run[t].name => current' = current
         /\ run[t].was = run[t].name => current' = None \/ config[current'] # None
<1>1. TypeOK /\ run[t].step = "repoint" /\ Done(t)
  BY DEF TypeInv, Repoint, At
<1>2. run[t].name \in Names
  BY <1>1 DEF TypeInv, CmdSound
<1>3. CASE run[t].was # run[t].name
  <2>1. current' = current
    BY <1>3 DEF Repoint
  <2> QED BY <1>1, <1>2, <1>3, <2>1, DoneFacts DEF Ended, TypeOK
<1>4. CASE run[t].was = run[t].name
  <2>1. current' = None \/ current' \in {n \in Names : config[n] # None}
    BY <1>4 DEF Repoint
  <2> QED BY <1>1, <1>2, <1>4, <2>1, DoneFacts DEF Ended
<1> QED BY <1>3, <1>4

LEMMA StopDoes ==
  ASSUME TypeInv, NEW t \in Terminals, Stop(t)
  PROVE  /\ Ended(t) /\ run[t].step # "idle" /\ run[t].name \in Names
         /\ config' = config \/ config' = [config EXCEPT ![run[t].name] = Zero]
<1>1. TypeOK /\ run[t].step # "idle" /\ Done(t)
  BY DEF TypeInv, Stop, At
<1>2. run[t].name \in Names
  BY <1>1 DEF TypeInv, CmdSound
<1> QED BY <1>1, <1>2, DoneFacts DEF Stop, Ended

LEMMA CosVerbTypes ==
  ASSUME TypeOK, CosVerb
  PROVE  instance' \in BOOLEAN /\ buckets' \in [Buckets -> Bucket \cup {None}]
<1>1. CASE CreateInstance
  BY <1>1 DEF CreateInstance, TypeOK
<1>2. CASE DeleteInstance
  BY <1>2 DEF DeleteInstance, TypeOK
<1>3. ASSUME NEW b \in Buckets, NEW new \in Bucket \cup {None}, instance' = instance,
             buckets' = [buckets EXCEPT ![b] = new]
      PROVE  instance' \in BOOLEAN /\ buckets' \in [Buckets -> Bucket \cup {None}]
  BY <1>3 DEF TypeOK
<1>4. ASSUME NEW b \in Buckets, NEW region \in CosRegions, CreateBucket(b, region)
      PROVE  instance' \in BOOLEAN /\ buckets' \in [Buckets -> Bucket \cup {None}]
  <2>1. [region |-> region, ours |-> TRUE, objects |-> {}] \in Bucket
    BY DEF Bucket
  <2> QED BY <1>3, <1>4, <2>1 DEF CreateBucket
<1>5. ASSUME NEW b \in Buckets, DeleteBucket(b)
      PROVE  instance' \in BOOLEAN /\ buckets' \in [Buckets -> Bucket \cup {None}]
  BY <1>3, <1>5 DEF DeleteBucket
<1>6. ASSUME NEW b \in Buckets, NEW os \in SUBSET Artefacts, Ours(b),
             buckets' = [buckets EXCEPT ![b].objects = os], instance' = instance
      PROVE  instance' \in BOOLEAN /\ buckets' \in [Buckets -> Bucket \cup {None}]
  <2>1. buckets[b] \in Bucket
    BY <1>6 DEF Ours, TypeOK
  <2>2. [buckets[b] EXCEPT !.objects = os] \in Bucket
    BY <2>1 DEF Bucket
  <2>3. buckets' = [buckets EXCEPT ![b] = [buckets[b] EXCEPT !.objects = os]]
    BY <1>6
  <2> QED BY <1>3, <1>6, <2>2, <2>3
<1>7. ASSUME NEW b \in Buckets, NEW o \in Artefacts, PutObject(b, o) \/ DeleteObject(b, o)
      PROVE  instance' \in BOOLEAN /\ buckets' \in [Buckets -> Bucket \cup {None}]
  <2>1. buckets[b].objects \subseteq Artefacts /\ Ours(b)
    BY <1>7 DEF PutObject, DeleteObject, Ours, TypeOK, Bucket
  <2>2. CASE PutObject(b, o)
    <3> DEFINE os == buckets[b].objects \cup {o}
    <3>1. os \in SUBSET Artefacts
      BY <2>1
    <3>2. buckets' = [buckets EXCEPT ![b].objects = os] /\ instance' = instance
      BY <2>2 DEF PutObject
    <3> HIDE DEF os
    <3> QED BY <1>6, <2>1, <3>1, <3>2
  <2>3. CASE DeleteObject(b, o)
    <3> DEFINE os == buckets[b].objects \ {o}
    <3>1. os \in SUBSET Artefacts
      BY <2>1
    <3>2. buckets' = [buckets EXCEPT ![b].objects = os] /\ instance' = instance
      BY <2>3 DEF DeleteObject
    <3> HIDE DEF os
    <3> QED BY <1>6, <2>1, <3>1, <3>2
  <2> QED BY <1>7, <2>2, <2>3
<1> QED BY <1>1, <1>2, <1>4, <1>5, <1>7 DEF CosVerb

-----------------------------------------------------------------------------
(* A key is in its region before a configuration names it.                 *)

\* What every step of a terminal keeps.
KeyStep(t) ==
  /\ TypeOK' /\ OthersStay(t) /\ CloudGrows
  /\ CmdSound(run'[t]) /\ CmdKeys(run[t])' /\ KeysInCloud'

LEMMA InitKeyInv == Init => KeyInv
<1> SUFFICES ASSUME Init PROVE KeyInv
  OBVIOUS
<1>1. PICK m \in Machines :
        /\ vault = m.vault /\ CosInit(m.foreign)
        /\ home = [k \in KeyNames |-> IF k \in m.mine THEN "user" ELSE None]
  BY DEF Init
<1>2. instance \in BOOLEAN /\ buckets \in [Buckets -> Bucket \cup {None}]
  <2> DEFINE theirs == [region |-> DefaultRegion, ours |-> FALSE, objects |-> {}]
  <2>1. theirs \in Bucket
    BY RegionAssumption DEF Bucket
  <2> QED BY <1>1, <2>1 DEF CosInit
<1>3. home \in [KeyNames -> Names \cup {"user", None}]
  BY <1>1
<1>4. /\ config \in [Names -> ConfType \cup {None}] /\ current \in Names \cup {None}
      /\ keychain \subseteq Names /\ sshdir \in [Names -> [KeyNames -> Nat]]
      /\ cloud \in [Regions -> [KeyNames -> Nat]] /\ pairs \in Nat
  BY DEF Init
<1>5. run \in [Terminals -> CmdType] /\ \A t \in Terminals : run[t] = Idle
  BY IdleTypes DEF Init
<1>6. TypeOK
  BY <1>2, <1>3, <1>4, <1>5 DEF TypeOK
<1>7. CmdSound(Idle) /\ CmdKeys(Idle)
  BY IdleTypes DEF CmdSound, CmdKeys, KeySteps
<1>8. KeysInCloud
  BY DEF Init, KeysInCloud
<1> QED BY <1>5, <1>6, <1>7, <1>8 DEF KeyInv, TypeInv

LEMMA KeysStay ==
  ASSUME TypeOK, KeysInCloud, CloudGrows, SameAsks
  PROVE  KeysInCloud'
<1> SUFFICES ASSUME NEW n \in Names, config'[n] # None, "keys" \notin config'[n].given,
                    NEW key \in config'[n].keys
             PROVE  cloud'[key[1]][key[2]] # 0
  BY DEF KeysInCloud
<1>1. config[n] # None /\ "keys" \notin config[n].given /\ key \in config[n].keys
  BY DEF SameAsks
<1>2. key \in Regions \X KeyNames
  BY <1>1 DEF TypeOK, ConfType
<1>3. cloud[key[1]][key[2]] # 0
  BY <1>1 DEF KeysInCloud
<1> QED BY <1>2, <1>3 DEF CloudGrows

LEMMA Unchanged ==
  ASSUME TypeOK, UNCHANGED config
  PROVE  SameAsks /\ config' \in [Names -> ConfType \cup {None}]
BY DEF TypeOK, SameAsks

\* A configuration is saved when its keys are where they belong.
LEMMA KeysSaved ==
  ASSUME TypeOK, KeysInCloud, UNCHANGED cloud,
         NEW n \in Names, NEW conf \in ConfType \cup {None},
         config' = [config EXCEPT ![n] = conf],
         conf # None /\ "keys" \notin conf.given =>
           \A key \in conf.keys : cloud[key[1]][key[2]] # 0
  PROVE  config' \in [Names -> ConfType \cup {None}] /\ KeysInCloud'
<1>1. /\ config' \in [Names -> ConfType \cup {None}] /\ config'[n] = conf
      /\ \A m \in Names : m # n => config'[m] = config[m]
  BY DEF TypeOK
<1>2. KeysInCloud'
  BY <1>1 DEF KeysInCloud
<1> QED BY <1>1, <1>2

\* The keys of the command are the same, unless they are given now.
KeysKept(t) ==
  "keys" \notin run'[t].conf.given =>
    "keys" \notin run[t].conf.given /\ run'[t].conf.keys = run[t].conf.keys

\* A command that deals with no key has them all in place.
LEMMA CmdKeysStay ==
  ASSUME TypeOK, NEW t \in Terminals, CmdKeys(run[t]), CloudGrows,
         run[t].step \notin KeySteps, KeysKept(t)
  PROVE  CmdKeys(run[t])'
<1> SUFFICES ASSUME "keys" \notin run'[t].conf.given, NEW key \in run'[t].conf.keys
             PROVE  cloud'[key[1]][key[2]] # 0
  BY DEF CmdKeys
<1>1. "keys" \notin run[t].conf.given /\ key \in run[t].conf.keys
  BY DEF KeysKept
<1>2. key \in Regions \X KeyNames
  BY <1>1 DEF TypeOK, CmdType, ConfType
<1>3. cloud[key[1]][key[2]] # 0
  BY <1>1 DEF CmdKeys
<1> QED BY <1>2, <1>3 DEF CloudGrows

LEMMA StartKeys ==
  ASSUME KeyInv, NEW t \in Terminals, NEW n \in Names, NEW s \in Steps \ {"idle"},
         s \notin KeySteps \cup {"copy"}, Began(t, n, s),
         "keys" \notin run'[t].conf.given => \A key \in run'[t].conf.keys :
           config[n] # None /\ "keys" \notin config[n].given /\ key \in config[n].keys
  PROVE  KeyStep(t)
<1>1. TypeOK /\ KeysInCloud
  BY DEF KeyInv, TypeInv
<1>2. TypeOK'
  BY <1>1 DEF Began, TypeOK
<1>3. CloudGrows /\ KeysInCloud'
  BY <1>1, CloudSame, Unchanged, KeysStay DEF Began
<1>4. CmdSound(run'[t])
  BY DEF Began, CmdSound, KeySteps
<1>5. CmdKeys(run[t])'
  BY <1>1 DEF CmdKeys, KeysInCloud, Began
<1> QED BY <1>2, <1>3, <1>4, <1>5 DEF KeyStep, Began

LEMMA BeginKeys ==
  ASSUME KeyInv, NEW t \in Terminals, NEW n \in Names,
         \/ StartInit(t, n) \/ StartSeed(t, n) \/ StartNew(t, n)
         \/ StartEdit(t, n) \/ StartUse(t, n) \/ StartDelete(t, n)
  PROVE  KeyStep(t)
<1>1. TypeOK
  BY DEF KeyInv, TypeInv
<1>2. \A s \in {"resolve", "seed", "new", "edit", "select", "delete"} :
        s \in Steps \ {"idle"} /\ s \notin KeySteps \cup {"copy"}
  BY DEF Steps, KeySteps
<1>3. CASE StartInit(t, n)
  BY <1>1, <1>2, <1>3, StartInitDoes, IdleTypes, StartKeys
<1>4. CASE StartSeed(t, n)
  BY <1>1, <1>2, <1>4, StartSeedDoes, StartKeys
<1>5. CASE StartNew(t, n)
  BY <1>1, <1>2, <1>5, StartNewDoes, IdleTypes, StartKeys
<1>6. CASE StartEdit(t, n)
  BY <1>1, <1>2, <1>6, StartEditDoes, StartKeys
<1>7. CASE StartUse(t, n)
  BY <1>1, <1>2, <1>7, StartUseDoes, IdleTypes, StartKeys
<1>8. CASE StartDelete(t, n)
  <2>1. Began(t, n, "delete") /\ run'[t].conf = IF config[n] = None THEN Zero ELSE config[n]
    BY <1>1, <1>8, StartDeleteDoes
  <2>2. "keys" \notin run'[t].conf.given => \A key \in run'[t].conf.keys :
          config[n] # None /\ "keys" \notin config[n].given /\ key \in config[n].keys
    BY <2>1, IdleTypes
  <2> QED BY <1>2, <2>1, <2>2, StartKeys
<1> QED BY <1>3, <1>4, <1>5, <1>6, <1>7, <1>8

\* A step of a command that deals with no key, and leaves the clouds' alone.
LEMMA QuietKeys ==
  ASSUME KeyInv, NEW t \in Terminals, Keeps(t), UNCHANGED <<cloud, current>>,
         run[t].step \notin KeySteps \cup {"idle"},
         run'[t].step \notin KeySteps \cup {"copy"},
         KeysKept(t),
         config' \in [Names -> ConfType \cup {None}], KeysInCloud',
         keychain' \subseteq Names, sshdir' \in [Names -> [KeyNames -> Nat]],
         home' \in [KeyNames -> Names \cup {"user", None}],
         pairs' \in Nat, instance' \in BOOLEAN,
         buckets' \in [Buckets -> Bucket \cup {None}]
  PROVE  KeyStep(t)
<1>1. TypeOK /\ CmdSound(run[t]) /\ CmdKeys(run[t])
  BY DEF KeyInv, TypeInv
<1>2. TypeOK'
  BY <1>1 DEF TypeOK, Keeps
<1>3. CloudGrows
  BY <1>1, CloudSame
<1>4. CmdSound(run'[t])
  BY <1>1 DEF CmdSound, Keeps, SameName, KeySteps
<1>5. CmdKeys(run[t])'
  BY <1>1, <1>3, CmdKeysStay
<1> QED BY <1>2, <1>3, <1>4, <1>5 DEF KeyStep, Keeps

\* The same, for the steps that write no configuration.
LEMMA SameConfigKeys ==
  ASSUME KeyInv, UNCHANGED <<config, cloud>>
  PROVE  config' \in [Names -> ConfType \cup {None}] /\ KeysInCloud'
BY CloudSame, Unchanged, KeysStay DEF KeyInv, TypeInv

LEMMA ResolveKeyKeys ==
  ASSUME KeyInv, NEW t \in Terminals, ResolveKey(t) PROVE KeyStep(t)
<1>1. TypeInv /\ TypeOK /\ KeysInCloud /\ run[t].name \in Names \cup {None}
  BY DEF KeyInv, TypeInv, TypeOK, CmdType
<1>2. /\ Keeps(t) /\ run[t].step = "resolve" /\ run'[t].step = "verify"
      /\ run'[t].conf = run[t].conf
      /\ config' \in [Names -> ConfType \cup {None}] /\ SameAsks
      /\ keychain' \subseteq keychain \cup {run[t].name}
  BY <1>1, ResolveKeyDoes
<1>3. run[t].name \in Names
  BY <1>1, <1>2 DEF TypeInv, CmdSound
<1>4. /\ UNCHANGED <<current, cloud>>
      /\ sshdir' \in [Names -> [KeyNames -> Nat]] /\ pairs' \in Nat
      /\ home' \in [KeyNames -> Names \cup {"user", None}] /\ instance' \in BOOLEAN
      /\ buckets' \in [Buckets -> Bucket \cup {None}] /\ keychain' \subseteq Names
  BY <1>1, <1>2, <1>3 DEF ResolveKey, TypeOK, cosVars
<1>5. KeysInCloud'
  BY <1>1, <1>2, <1>4, CloudSame, KeysStay
<1> QED BY <1>2, <1>4, <1>5, QuietKeys DEF KeySteps, KeysKept

LEMMA PersistKeyKeys ==
  ASSUME KeyInv, NEW t \in Terminals, PersistKey(t) PROVE KeyStep(t)
<1>1. TypeInv /\ TypeOK /\ KeysInCloud
  BY DEF KeyInv, TypeInv
<1>2. /\ Keeps(t) /\ run[t].step \in {"partial key", "persist"}
      /\ run'[t].step \in {"interview", "select"}
      /\ run'[t].conf = run[t].conf
      /\ config' \in [Names -> ConfType \cup {None}] /\ SameAsks
      /\ keychain' \subseteq keychain \cup {run[t].name}
  BY <1>1, PersistKeyDoes
<1>3. run[t].name \in Names
  BY <1>1, <1>2 DEF TypeInv, CmdSound
<1>4. /\ UNCHANGED <<current, cloud>>
      /\ sshdir' \in [Names -> [KeyNames -> Nat]] /\ pairs' \in Nat
      /\ home' \in [KeyNames -> Names \cup {"user", None}] /\ instance' \in BOOLEAN
      /\ buckets' \in [Buckets -> Bucket \cup {None}] /\ keychain' \subseteq Names
  BY <1>1, <1>2, <1>3 DEF PersistKey, TypeOK, cosVars
<1>5. KeysInCloud'
  BY <1>1, <1>2, <1>4, CloudSame, KeysStay
<1> QED BY <1>2, <1>4, <1>5, QuietKeys DEF KeySteps, KeysKept

LEMMA VerifyKeys ==
  ASSUME KeyInv, NEW t \in Terminals, Verify(t) PROVE KeyStep(t)
<1>1. TypeInv /\ TypeOK
  BY DEF KeyInv, TypeInv
<1>2. /\ Keeps(t) /\ run[t].step = "verify" /\ run'[t].step \in {"partial", "interview"}
      /\ run'[t].conf = run[t].conf
  BY <1>1, VerifyDoes
<1>3. UNCHANGED <<filesVars, cosVars>>
  BY DEF Verify
<1> QED BY <1>1, <1>2, <1>3, SameConfigKeys, QuietKeys
        DEF KeySteps, KeysKept, filesVars, cosVars, TypeOK

LEMMA SavePartialKeys ==
  ASSUME KeyInv, NEW t \in Terminals, SavePartial(t) PROVE KeyStep(t)
<1>1. TypeInv /\ TypeOK /\ KeysInCloud
  BY DEF KeyInv, TypeInv
<1>2. /\ Keeps(t) /\ run[t].step = "partial" /\ run'[t].step = "partial key"
      /\ run'[t].conf = run[t].conf
  BY <1>1, SavePartialDoes
<1>3. PICK conf \in ConfType :
        conf.keys = {} /\ config' = [config EXCEPT ![run[t].name] = conf]
  BY <1>1, SavePartialDoes
<1>4. run[t].name \in Names
  BY <1>1, <1>2 DEF TypeInv, CmdSound
<1>5. UNCHANGED <<current, vault, keychain, sshdir, home, taken, cloud, pairs, cosVars>>
  BY DEF SavePartial
<1>6. config' \in [Names -> ConfType \cup {None}] /\ KeysInCloud'
  BY <1>1, <1>3, <1>4, <1>5, KeysSaved
<1> QED BY <1>1, <1>2, <1>5, <1>6, QuietKeys DEF KeySteps, KeysKept, cosVars, TypeOK

LEMMA InterviewKeys ==
  ASSUME KeyInv, NEW t \in Terminals, Interview(t) PROVE KeyStep(t)
<1>1. TypeInv /\ TypeOK /\ CmdSound(run[t])
  BY DEF KeyInv, TypeInv
<1>2. /\ Keeps(t) /\ run[t].step = "interview"
      /\ \/ run'[t].step \in {"supply", "overlay"} /\ run'[t].conf.keys = {}
         \/ /\ run'[t].step = "check" /\ run'[t].key \in KeyNames
            /\ run'[t].conf.keys = run'[t].todo \X {run'[t].key}
  BY <1>1, InterviewDoes
<1>3. UNCHANGED <<filesVars, cosVars>>
  BY DEF Interview
<1>4. TypeOK' /\ CloudGrows /\ KeysInCloud'
  BY <1>1, <1>2, <1>3, CloudSame, SameConfigKeys
     DEF Keeps, TypeOK, filesVars, cosVars
<1>5. CmdSound(run'[t])
  BY <1>1, <1>2 DEF CmdSound, Keeps, SameName, KeySteps
<1>6. CmdKeys(run[t])'
  BY <1>2 DEF CmdKeys, KeySteps
<1> QED BY <1>2, <1>4, <1>5, <1>6 DEF KeyStep, Keeps

LEMMA CheckKeyKeys ==
  ASSUME KeyInv, NEW t \in Terminals, CheckKey(t) PROVE KeyStep(t)
<1>1. TypeInv /\ TypeOK /\ CmdSound(run[t]) /\ CmdKeys(run[t])
  BY DEF KeyInv, TypeInv
<1>2. /\ Keeps(t) /\ SameKey(t) /\ run'[t].conf = run[t].conf
      /\ run[t].step = "check" /\ run[t].key \in KeyNames
      /\ \/ run'[t].step = "generate" /\ run'[t].todo = run[t].todo
         \/ /\ run'[t].step \in AfterKey \cup {"replicate"}
            /\ run'[t].step = "replicate" => run'[t].pair # 0
            /\ \A r \in run[t].todo :
                 \/ cloud[r][run[t].key] # 0
                 \/ run'[t].step = "replicate" /\ r \in run'[t].todo
  BY <1>1, CheckKeyDoes
<1>3. UNCHANGED <<filesVars, cosVars>>
  BY DEF CheckKey
<1>4. TypeOK' /\ CloudGrows /\ KeysInCloud'
  BY <1>1, <1>2, <1>3, CloudSame, SameConfigKeys
     DEF Keeps, TypeOK, filesVars, cosVars
<1>5. CmdSound(run'[t])
  BY <1>1, <1>2 DEF CmdSound, Keeps, SameName, SameKey, KeySteps, AfterKey
<1>6. CmdKeys(run[t])'
  <2> SUFFICES ASSUME "keys" \notin run[t].conf.given, NEW key \in run[t].conf.keys,
                       cloud[key[1]][key[2]] = 0
               PROVE  /\ run'[t].step \in KeySteps
                      /\ key[1] \in run'[t].todo /\ key[2] = run'[t].key
    BY <1>2, <1>3 DEF CmdKeys, filesVars
  <2>1. key[1] \in run[t].todo /\ key[2] = run[t].key
    BY <1>1 DEF CmdKeys
  <2> QED BY <1>2, <2>1 DEF SameKey, KeySteps
<1> QED BY <1>2, <1>4, <1>5, <1>6 DEF KeyStep, Keeps

LEMMA GenerateKeyKeys ==
  ASSUME KeyInv, NEW t \in Terminals, GenerateKey(t) PROVE KeyStep(t)
<1>1. TypeInv /\ TypeOK /\ CmdSound(run[t]) /\ CmdKeys(run[t])
  BY DEF KeyInv, TypeInv
<1>2. /\ Keeps(t) /\ SameKey(t) /\ run'[t].conf = run[t].conf
      /\ run[t].step = "generate" /\ run[t].key \in KeyNames
      /\ run'[t].step = "upload" /\ run'[t].todo = run[t].todo
      /\ run'[t].pair # 0 /\ pairs' \in Nat
      /\ sshdir' \in [Names -> [KeyNames -> Nat]]
  BY <1>1, GenerateKeyDoes
<1>3. UNCHANGED <<config, current, vault, keychain, home, taken, cloud, cosVars>>
  BY DEF GenerateKey
<1>4. TypeOK' /\ CloudGrows /\ KeysInCloud'
  BY <1>1, <1>2, <1>3, CloudSame, SameConfigKeys DEF Keeps, TypeOK, cosVars
<1>5. CmdSound(run'[t])
  BY <1>1, <1>2 DEF CmdSound, Keeps, SameName, SameKey, KeySteps
<1>6. CmdKeys(run[t])'
  BY <1>1, <1>2, <1>3 DEF CmdKeys, SameKey, KeySteps
<1> QED BY <1>2, <1>4, <1>5, <1>6 DEF KeyStep, Keeps

LEMMA UploadKeyKeys ==
  ASSUME KeyInv, NEW t \in Terminals, UploadKey(t) PROVE KeyStep(t)
<1>1. TypeInv /\ TypeOK /\ CmdSound(run[t]) /\ CmdKeys(run[t]) /\ KeysInCloud
  BY DEF KeyInv, TypeInv
<1>2. /\ Keeps(t) /\ SameKey(t) /\ run'[t].conf = run[t].conf
      /\ run[t].step \in {"replicate", "upload"} /\ run[t].key \in KeyNames
      /\ run'[t].step \in AfterKey \cup {"replicate", "upload", "copy"}
      /\ run'[t].pair = run[t].pair /\ CloudGrows
      /\ \A r \in run[t].todo :
           \/ cloud'[r][run[t].key] # 0
           \/ run'[t].step \in {"replicate", "upload"} /\ r \in run'[t].todo
  BY <1>1, UploadKeyDoes
<1>3. UNCHANGED <<config, current, vault, keychain, sshdir, home, taken, pairs, cosVars>>
  BY DEF UploadKey
<1>4. TypeOK' /\ KeysInCloud'
  <2>1. KeysInCloud'
    BY <1>1, <1>2, <1>3, Unchanged, KeysStay
  <2>2. TypeOK'
    BY <1>1, <1>2, <1>3 DEF Keeps, TypeOK, cosVars, CloudGrows
  <2> QED BY <2>1, <2>2
<1>5. CmdSound(run'[t])
  BY <1>1, <1>2 DEF CmdSound, Keeps, SameName, SameKey, KeySteps, AfterKey
<1>6. CmdKeys(run[t])'
  <2> SUFFICES ASSUME "keys" \notin run[t].conf.given, NEW key \in run[t].conf.keys,
                       cloud'[key[1]][key[2]] = 0
               PROVE  /\ run'[t].step \in KeySteps
                      /\ key[1] \in run'[t].todo /\ key[2] = run'[t].key
    BY <1>2 DEF CmdKeys
  <2>1. key \in Regions \X KeyNames
    BY <1>1 DEF TypeOK, CmdType, ConfType
  <2>2. cloud[key[1]][key[2]] = 0
    BY <1>2, <2>1 DEF CloudGrows
  <2>3. key[1] \in run[t].todo /\ key[2] = run[t].key
    BY <1>1, <2>2 DEF CmdKeys
  <2> QED BY <1>2, <2>3 DEF SameKey, KeySteps
<1> QED BY <1>2, <1>4, <1>5, <1>6 DEF KeyStep, Keeps

LEMMA CopyKeyKeys ==
  ASSUME KeyInv, NEW t \in Terminals, CopyKey(t) PROVE KeyStep(t)
<1>1. TypeInv /\ TypeOK
  BY DEF KeyInv, TypeInv
<1>2. /\ Keeps(t) /\ run[t].step = "copy" /\ run[t].key \in KeyNames
      /\ run'[t].step \in AfterKey /\ run'[t].conf.keys = run[t].conf.keys
      /\ run'[t].conf.given = run[t].conf.given
      /\ home' = [home EXCEPT ![run[t].key] = run[t].name] \/ home' = home
  BY <1>1, CopyKeyDoes
<1>3. UNCHANGED <<config, current, vault, keychain, sshdir, taken, cloud, pairs, cosVars>>
  BY DEF CopyKey
<1>4. run[t].name \in Names
  BY <1>1, <1>2 DEF TypeInv, CmdSound
<1>5. home' \in [KeyNames -> Names \cup {"user", None}]
  BY <1>1, <1>2, <1>4 DEF TypeOK
<1> QED BY <1>1, <1>2, <1>3, <1>5, SameConfigKeys, QuietKeys
        DEF KeySteps, KeysKept, AfterKey, cosVars, TypeOK

LEMMA EnsureSupplyChainKeys ==
  ASSUME KeyInv, NEW t \in Terminals, EnsureSupplyChain(t) PROVE KeyStep(t)
<1>1. TypeInv /\ TypeOK
  BY DEF KeyInv, TypeInv
<1>2. /\ Keeps(t) /\ run[t].step = "supply"
      /\ run'[t].step \in AfterChain \cup {"instance", "bucket", "far"}
      /\ run'[t].conf.keys = run[t].conf.keys
      /\ run'[t].conf.given = run[t].conf.given
  BY <1>1, EnsureSupplyChainDoes
<1>3. UNCHANGED <<filesVars, cosVars>>
  BY DEF EnsureSupplyChain
<1> QED BY <1>1, <1>2, <1>3, SameConfigKeys, QuietKeys
        DEF KeySteps, KeysKept, AfterChain, filesVars, cosVars, TypeOK

LEMMA ProvisionKeys ==
  ASSUME KeyInv, NEW t \in Terminals, Provision(t) PROVE KeyStep(t)
<1>1. TypeInv /\ TypeOK
  BY DEF KeyInv, TypeInv
<1>2. /\ Keeps(t) /\ run[t].step \in {"instance", "bucket", "far", "jwt"}
      /\ run'[t].step \in AfterChain \cup {"bucket", "far", "jwt"}
      /\ run'[t].conf.keys = run[t].conf.keys
      /\ run'[t].conf.given = run[t].conf.given
      /\ instance' \in BOOLEAN /\ buckets' \in [Buckets -> Bucket \cup {None}]
  BY <1>1, ProvisionDoes
<1>3. UNCHANGED filesVars
  BY DEF Provision
<1> QED BY <1>1, <1>2, <1>3, SameConfigKeys, QuietKeys
        DEF KeySteps, KeysKept, AfterChain, filesVars, TypeOK

LEMMA ProxyKeyKeys ==
  ASSUME KeyInv, NEW t \in Terminals, ProxyKey(t) PROVE KeyStep(t)
<1>1. TypeInv /\ TypeOK /\ CmdSound(run[t]) /\ CmdKeys(run[t]) /\ KeysInCloud
  BY DEF KeyInv, TypeInv
<1>2. /\ Keeps(t) /\ run[t].step = "proxy" /\ run'[t].step = "overlay"
      /\ CloudGrows /\ HomeGrows(run[t].name)
      /\ run'[t].conf.given = run[t].conf.given
      /\ \A key \in run'[t].conf.keys :
           key \in run[t].conf.keys \/ cloud'[key[1]][key[2]] # 0
      /\ sshdir' \in [Names -> [KeyNames -> Nat]] /\ pairs' \in Nat
  BY <1>1, ProxyKeyDoes
<1>3. UNCHANGED <<config, current, vault, keychain, cosVars>>
  BY DEF ProxyKey
<1>4. TypeOK'
  BY <1>1, <1>2, <1>3 DEF Keeps, TypeOK, cosVars, CloudGrows, HomeGrows
<1>5. KeysInCloud'
  BY <1>1, <1>2, <1>3, Unchanged, KeysStay
<1>6. CmdSound(run'[t])
  BY <1>1, <1>2 DEF CmdSound, Keeps, SameName, KeySteps
<1>7. CmdKeys(run[t])'
  <2> SUFFICES ASSUME "keys" \notin run[t].conf.given, NEW key \in run[t].conf.keys
               PROVE  cloud'[key[1]][key[2]] # 0
    BY <1>2 DEF CmdKeys
  <2>1. key \in Regions \X KeyNames
    BY <1>1 DEF TypeOK, CmdType, ConfType
  <2>2. cloud[key[1]][key[2]] # 0
    BY <1>1, <1>2 DEF CmdKeys, KeySteps
  <2> QED BY <1>2, <2>1, <2>2 DEF CloudGrows
<1> QED BY <1>2, <1>4, <1>5, <1>6, <1>7 DEF KeyStep, Keeps

LEMMA OverlayKeys ==
  ASSUME KeyInv, NEW t \in Terminals, Overlay(t) PROVE KeyStep(t)
<1>1. TypeInv /\ TypeOK
  BY DEF KeyInv, TypeInv
<1>2. /\ Keeps(t) /\ run[t].step = "overlay" /\ run'[t].step = "save"
      /\ Overlaid(run[t].conf, run'[t].conf)
  BY <1>1, OverlayDoes
<1>3. KeysKept(t)
  BY <1>2 DEF KeysKept, Overlaid
<1>4. UNCHANGED <<filesVars, cosVars>>
  BY DEF Overlay
<1> QED BY <1>1, <1>2, <1>3, <1>4, SameConfigKeys, QuietKeys
        DEF KeySteps, filesVars, cosVars, TypeOK

\* A command that ends has no key left to put anywhere.
LEMMA EndKeys ==
  ASSUME KeyInv, NEW t \in Terminals, Ended(t), KeysInCloud',
         UNCHANGED <<keychain, sshdir, home, taken, cloud, pairs, cosVars>>,
         config' \in [Names -> ConfType \cup {None}],
         current' \in Names \cup {None}
  PROVE  KeyStep(t)
<1>1. TypeOK
  BY DEF KeyInv, TypeInv
<1>2. TypeOK' /\ CloudGrows
  BY <1>1, CloudSame DEF TypeOK, Ended, cosVars
<1>3. CmdSound(run'[t]) /\ CmdKeys(run[t])'
  BY IdleTypes DEF Ended, CmdSound, CmdKeys, KeySteps
<1> QED BY <1>2, <1>3 DEF KeyStep, Ended

LEMMA SaveWorkspaceKeys ==
  ASSUME KeyInv, NEW t \in Terminals, SaveWorkspace(t) PROVE KeyStep(t)
<1>1. TypeInv /\ TypeOK /\ KeysInCloud /\ CmdKeys(run[t])
  BY DEF KeyInv, TypeInv
<1>2. /\ run[t].name \in Names /\ run[t].conf \in ConfType
      /\ config' = [config EXCEPT ![run[t].name] = run[t].conf]
      /\ \/ run[t].step = "edit" /\ Ended(t)
         \/ /\ run[t].step \in {"save", "seed", "new"} /\ Keeps(t)
            /\ run'[t].step \in {"persist", "select"}
            /\ run'[t].conf = run[t].conf
  BY <1>1, SaveWorkspaceDoes
<1>3. UNCHANGED <<current, vault, keychain, sshdir, home, taken, cloud, pairs, cosVars>>
  BY DEF SaveWorkspace
<1>4. "keys" \notin run[t].conf.given => \A key \in run[t].conf.keys : cloud[key[1]][key[2]] # 0
  BY <1>1, <1>2 DEF CmdKeys, KeySteps
<1>5. config' \in [Names -> ConfType \cup {None}] /\ KeysInCloud'
  BY <1>1, <1>2, <1>3, <1>4, KeysSaved
<1>6. CASE run[t].step = "edit" /\ Ended(t)
  BY <1>1, <1>3, <1>5, <1>6, EndKeys DEF TypeOK
<1>7. CASE /\ run[t].step \in {"save", "seed", "new"} /\ Keeps(t)
           /\ run'[t].step \in {"persist", "select"}
           /\ run'[t].conf = run[t].conf
  BY <1>1, <1>3, <1>5, <1>7, QuietKeys DEF KeySteps, KeysKept, cosVars, TypeOK
<1> QED BY <1>2, <1>6, <1>7

LEMMA SetCurrentKeys ==
  ASSUME KeyInv, NEW t \in Terminals, SetCurrent(t) PROVE KeyStep(t)
<1>1. Ended(t) /\ current' \in Names \cup {None}
  BY SetCurrentDoes DEF KeyInv
<1>2. UNCHANGED <<config, vault, keychain, sshdir, home, taken, cloud, pairs, cosVars>>
  BY DEF SetCurrent
<1> QED BY <1>1, <1>2, SameConfigKeys, EndKeys

LEMMA DeleteWorkspaceKeys ==
  ASSUME KeyInv, NEW t \in Terminals, DeleteWorkspace(t) PROVE KeyStep(t)
<1>1. TypeInv /\ TypeOK /\ KeysInCloud
  BY DEF KeyInv, TypeInv
<1>2. /\ Keeps(t) /\ run[t].step = "delete" /\ run'[t].step = "forget"
      /\ run'[t].conf = run[t].conf /\ run[t].name \in Names
      /\ config' = [config EXCEPT ![run[t].name] = None]
      /\ sshdir' \in [Names -> [KeyNames -> Nat]]
  BY <1>1, DeleteWorkspaceDoes
<1>3. UNCHANGED <<current, vault, keychain, home, taken, cloud, pairs, cosVars>>
  BY DEF DeleteWorkspace
<1>4. config' \in [Names -> ConfType \cup {None}] /\ KeysInCloud'
  BY <1>1, <1>2, <1>3, KeysSaved
<1> QED BY <1>1, <1>2, <1>3, <1>4, QuietKeys DEF KeySteps, KeysKept, cosVars, TypeOK

LEMMA ForgetKeyKeys ==
  ASSUME KeyInv, NEW t \in Terminals, ForgetKey(t) PROVE KeyStep(t)
<1>1. TypeInv /\ TypeOK
  BY DEF KeyInv, TypeInv
<1>2. /\ Keeps(t) /\ run[t].step = "forget" /\ run'[t].step = "unlink"
      /\ run'[t].conf = run[t].conf /\ keychain' \subseteq keychain
  BY <1>1, ForgetKeyDoes
<1>3. UNCHANGED <<config, current, vault, sshdir, home, taken, cloud, pairs, cosVars>>
  BY DEF ForgetKey
<1> QED BY <1>1, <1>2, <1>3, SameConfigKeys, QuietKeys DEF KeySteps, KeysKept, cosVars, TypeOK

LEMMA RemoveCopiesKeys ==
  ASSUME KeyInv, NEW t \in Terminals, RemoveCopies(t) PROVE KeyStep(t)
<1>1. TypeInv /\ TypeOK
  BY DEF KeyInv, TypeInv
<1>2. /\ Keeps(t) /\ run[t].step = "unlink" /\ run'[t].step = "repoint"
      /\ run'[t].conf = run[t].conf
      /\ home' \in [KeyNames -> Names \cup {"user", None}]
  BY <1>1, RemoveCopiesDoes
<1>3. UNCHANGED <<config, current, vault, keychain, sshdir, cloud, pairs, cosVars>>
  BY DEF RemoveCopies
<1> QED BY <1>1, <1>2, <1>3, SameConfigKeys, QuietKeys DEF KeySteps, KeysKept, cosVars, TypeOK

LEMMA RepointKeys ==
  ASSUME KeyInv, NEW t \in Terminals, Repoint(t) PROVE KeyStep(t)
<1>1. Ended(t) /\ current' \in Names \cup {None}
  BY RepointDoes DEF KeyInv
<1>2. UNCHANGED <<config, vault, keychain, sshdir, home, taken, cloud, pairs, cosVars>>
  BY DEF Repoint
<1> QED BY <1>1, <1>2, SameConfigKeys, EndKeys

LEMMA StopKeys ==
  ASSUME KeyInv, NEW t \in Terminals, Stop(t) PROVE KeyStep(t)
<1>1. TypeOK /\ KeysInCloud
  BY DEF KeyInv, TypeInv
<1>2. /\ Ended(t) /\ run[t].name \in Names
      /\ config' = config \/ config' = [config EXCEPT ![run[t].name] = Zero]
  BY StopDoes DEF KeyInv
<1>3. UNCHANGED <<current, vault, keychain, sshdir, home, taken, cloud, pairs, cosVars>>
  BY DEF Stop
<1>4. config' \in [Names -> ConfType \cup {None}] /\ KeysInCloud'
  BY <1>1, <1>2, <1>3, SameConfigKeys, IdleTypes, KeysSaved
<1> QED BY <1>1, <1>2, <1>3, <1>4, EndKeys DEF TypeOK

LEMMA StartCosKeys ==
  ASSUME KeyInv, NEW t \in Terminals, StartCos(t) PROVE KeyStep(t)
<1>1. TypeOK /\ CmdSound(run[t]) /\ CmdKeys(run[t])
  BY DEF KeyInv, TypeInv
<1>2. UNCHANGED <<filesVars, run>> /\ CosVerb
  BY DEF StartCos
<1>3. TypeOK' /\ KeysInCloud' /\ CloudGrows
  BY <1>1, <1>2, CosVerbTypes, CloudSame, SameConfigKeys DEF TypeOK, filesVars
<1> QED BY <1>1, <1>2, <1>3 DEF KeyStep, OthersStay, CmdKeys, filesVars

\* One step of one terminal, and what the other terminals have left to do.
LEMMA NextKeyInv == KeyInv /\ [Next]_initVars => KeyInv'
<1> SUFFICES ASSUME KeyInv, [Next]_initVars PROVE KeyInv'
  OBVIOUS
<1>1. CASE UNCHANGED initVars
  BY <1>1 DEF initVars, filesVars, cosVars, KeyInv, TypeInv, TypeOK, KeysInCloud, CmdKeys
<1>2. ASSUME NEW t \in Terminals, KeyStep(t) PROVE KeyInv'
  <2>1. TypeOK' /\ KeysInCloud'
    BY <1>2 DEF KeyStep
  <2>2. ASSUME NEW u \in Terminals PROVE CmdSound(run'[u]) /\ CmdKeys(run[u])'
    <3>1. CASE u = t
      BY <1>2, <3>1 DEF KeyStep
    <3>2. CASE u # t
      <4>1. run'[u] = run[u] /\ CmdSound(run[u]) /\ CmdKeys(run[u])
        BY <1>2, <3>2 DEF KeyStep, OthersStay, KeyInv, TypeInv
      <4>2. run[u].conf.keys \subseteq Regions \X KeyNames
        BY DEF KeyInv, TypeInv, TypeOK, CmdType, ConfType
      <4>3. CmdKeys(run[u])'
        BY <1>2, <4>1, <4>2 DEF CmdKeys, KeyStep, CloudGrows
      <4> QED BY <4>1, <4>3
    <3> QED BY <3>1, <3>2
  <2> QED BY <2>1, <2>2 DEF KeyInv, TypeInv
<1>3. ASSUME NEW t \in Terminals, NEW n \in Names,
             \/ StartInit(t, n) \/ StartSeed(t, n) \/ StartNew(t, n)
             \/ StartEdit(t, n) \/ StartUse(t, n) \/ StartDelete(t, n)
      PROVE  KeyInv'
  BY <1>2, <1>3, BeginKeys
<1>4. ASSUME NEW t \in Terminals, StartCos(t) PROVE KeyInv'
  BY <1>2, <1>4, StartCosKeys
<1>5. ASSUME NEW t \in Terminals,
             \/ ResolveKey(t) \/ Verify(t) \/ SavePartial(t) \/ PersistKey(t)
             \/ Interview(t) \/ CheckKey(t) \/ GenerateKey(t) \/ UploadKey(t)
             \/ CopyKey(t)
      PROVE  KeyInv'
  BY <1>2, <1>5, ResolveKeyKeys, VerifyKeys, SavePartialKeys, PersistKeyKeys,
     InterviewKeys, CheckKeyKeys, GenerateKeyKeys, UploadKeyKeys, CopyKeyKeys
<1>6. ASSUME NEW t \in Terminals,
             \/ EnsureSupplyChain(t) \/ Provision(t) \/ SaveWorkspace(t)
             \/ SetCurrent(t) \/ ProxyKey(t) \/ Overlay(t)
      PROVE  KeyInv'
  BY <1>2, <1>6, EnsureSupplyChainKeys, ProvisionKeys, SaveWorkspaceKeys,
     SetCurrentKeys, ProxyKeyKeys, OverlayKeys
<1>7. ASSUME NEW t \in Terminals,
             \/ DeleteWorkspace(t) \/ ForgetKey(t) \/ RemoveCopies(t)
             \/ Repoint(t) \/ Stop(t)
      PROVE  KeyInv'
  BY <1>2, <1>7, DeleteWorkspaceKeys, ForgetKeyKeys, RemoveCopiesKeys, RepointKeys,
     StopKeys
<1> QED BY <1>1, <1>3, <1>4, <1>5, <1>6, <1>7 DEF Next

LEMMA KeyInvHolds == Spec => []KeyInv
BY InitKeyInv, NextKeyInv, PTL DEF Spec

\* Whatever several terminals do at once, and wherever one of them is stopped, an
\* SSH key that the interview wrote into a config.yaml is in the region terraform
\* looks it up in: resolveTestingSSHKey and resolveFLPVSISSHKey found it there, or
\* CreateSSHKey put it there, before SaveWorkspace wrote the name down, whatever was
\* in between.  Nothing is said of a name that --config-file or the environment gave.
THEOREM KeysUploaded == Spec => []KeysInCloud
<1>1. KeyInv => KeysInCloud
  BY DEF KeyInv
<1> QED BY <1>1, KeyInvHolds, PTL

-----------------------------------------------------------------------------
(* What a command takes for its own, and what it is.                       *)

WorkStep(t) ==
  CopiesOurs' /\ CmdCopies(run[t])' /\ CmdDeletes(run[t])' /\ CmdCoords(run[t])'

LEMMA CopiesStay ==
  ASSUME CopiesOurs, UNCHANGED <<home, taken>>, SameAsks
  PROVE  CopiesOurs'
BY DEF CopiesOurs, SameAsks

LEMMA CopiesSaved ==
  ASSUME TypeOK, CopiesOurs, UNCHANGED <<home, taken>>, NEW n \in Names, NEW conf,
         config' = [config EXCEPT ![n] = conf],
         conf # None /\ "copied" \notin conf.given =>
           \A k \in conf.copied \ taken : home[k] = n
  PROVE  CopiesOurs'
<1>1. config'[n] = conf /\ \A m \in Names : m # n => config'[m] = config[m]
  BY DEF TypeOK
<1> QED BY <1>1 DEF CopiesOurs

\* The copies of the command are the same, unless they are given now.
CopiesKept(t) ==
  "copied" \notin run'[t].conf.given =>
    "copied" \notin run[t].conf.given /\ run'[t].conf.copied = run[t].conf.copied

LEMMA CmdCopiesStay ==
  ASSUME NEW t \in Terminals, CmdCopies(run[t]), run[t].step # "repoint",
         UNCHANGED <<home, taken>>, SameName(t), CopiesKept(t)
  PROVE  CmdCopies(run[t])'
BY DEF CmdCopies, SameName, CopiesKept

LEMMA NotDeleting ==
  ASSUME NEW t \in Terminals, run'[t].step \notin Deleting
  PROVE  CmdDeletes(run[t])'
BY DEF CmdDeletes, Deleting

LEMMA NoCoords ==
  ASSUME NEW t \in Terminals, run'[t].conf.far = NoSource,
         run'[t].step \notin {"edit", "jwt"}
  PROVE  CmdCoords(run[t])'
<1>1. run'[t].conf.far.bucket \notin Buckets
  BY BucketsAssumption DEF NoSource
<1> QED BY <1>1 DEF CmdCoords

LEMMA CoordsStay ==
  ASSUME NEW t \in Terminals, CmdCoords(run[t]), UNCHANGED buckets,
         run[t].step \notin Deleting \cup {"edit"},
         run'[t].step \notin {"edit", "jwt"},
         run'[t].step \in Unsupplied => run[t].step \in Unsupplied,
         "far" \notin run'[t].conf.given =>
           "far" \notin run[t].conf.given /\ run'[t].conf.far = run[t].conf.far,
         run'[t].step \in Unsupplied => run'[t].conf.far = run[t].conf.far
  PROVE  CmdCoords(run[t])'
BY DEF CmdCoords, Deleting

LEMMA GivenCoords ==
  ASSUME NEW t \in Terminals, run'[t].step \notin Deleting \cup Unsupplied \cup {"edit"},
         "far" \notin run'[t].conf.given => run'[t].conf.far = NoSource
  PROVE  CmdCoords(run[t])'
<1>1. NoSource.bucket \notin Buckets
  BY BucketsAssumption DEF NoSource
<1> QED BY <1>1 DEF CmdCoords, Unsupplied

LEMMA DeletingCoords ==
  ASSUME NEW t \in Terminals, run'[t].step \in Deleting
  PROVE  CmdCoords(run[t])'
BY DEF CmdCoords, Deleting, Unsupplied

\* A step that leaves the copies, the configuration and the buckets as they are.
LEMMA QuietWork ==
  ASSUME WorkInv, NEW t \in Terminals, UNCHANGED <<home, taken, buckets>>, SameAsks,
         SameName(t), run'[t].conf = run[t].conf,
         run[t].step \notin Deleting \cup {"edit"},
         run'[t].step \notin Deleting \cup {"edit", "jwt"},
         run'[t].step \in Unsupplied => run[t].step \in Unsupplied
  PROVE  WorkStep(t)
<1>1. /\ CopiesOurs /\ CmdCopies(run[t]) /\ CmdCoords(run[t])
      /\ run[t].step # "repoint"
  BY DEF WorkInv, Deleting
<1>2. CopiesOurs'
  BY <1>1, CopiesStay
<1>3. CmdCopies(run[t])'
  BY <1>1, CmdCopiesStay DEF CopiesKept
<1>4. CmdDeletes(run[t])'
  BY NotDeleting
<1>5. CmdCoords(run[t])'
  BY <1>1, CoordsStay
<1> QED BY <1>2, <1>3, <1>4, <1>5 DEF WorkStep

LEMMA EndWork ==
  ASSUME NEW t \in Terminals, Ended(t), CopiesOurs'
  PROVE  WorkStep(t)
<1>1. run'[t].step = "idle" /\ run'[t].conf.copied = {} /\ run'[t].conf.far = NoSource
  BY IdleTypes DEF Ended
<1>2. CmdCopies(run[t])'
  BY <1>1 DEF CmdCopies
<1>3. CmdDeletes(run[t])'
  BY <1>1, NotDeleting DEF Deleting
<1>4. CmdCoords(run[t])'
  BY <1>1, NoCoords
<1> QED BY <1>2, <1>3, <1>4 DEF WorkStep

\* A command begins with what the configuration says, or with nothing.
LEMMA StartWork ==
  ASSUME KeyInv, WorkInv, NEW t \in Terminals, NEW n \in Names,
         \/ StartInit(t, n) \/ StartSeed(t, n) \/ StartNew(t, n)
         \/ StartEdit(t, n) \/ StartUse(t, n) \/ StartDelete(t, n)
  PROVE  WorkStep(t)
<1>1. TypeOK /\ CopiesOurs
  BY DEF KeyInv, TypeInv, WorkInv
<1>2. ASSUME NEW s \in {"resolve", "seed", "new", "select"}, Began(t, n, s),
             run'[t].conf.copied = {}, run'[t].conf.far = NoSource
      PROVE  WorkStep(t)
  <2>1. CopiesOurs'
    BY <1>1, <1>2, Unchanged, CopiesStay DEF Began
  <2>2. CmdCopies(run[t])'
    BY <1>2 DEF CmdCopies
  <2>3. CmdDeletes(run[t])'
    BY <1>2, NotDeleting DEF Began, Deleting
  <2>4. CmdCoords(run[t])'
    BY <1>2, NoCoords DEF Began
  <2> QED BY <2>1, <2>2, <2>3, <2>4 DEF WorkStep
<1>3. CASE StartInit(t, n)
  BY <1>1, <1>2, <1>3, StartInitDoes, IdleTypes
<1>4. CASE StartSeed(t, n)
  <2>1. /\ Began(t, n, "seed")
        /\ "copied" \notin run'[t].conf.given => run'[t].conf.copied = {}
        /\ "far" \notin run'[t].conf.given => run'[t].conf.far = NoSource
    BY <1>1, <1>4, StartSeedDoes
  <2>2. CopiesOurs'
    BY <1>1, <2>1, Unchanged, CopiesStay DEF Began
  <2>3. CmdCopies(run[t])'
    BY <2>1 DEF CmdCopies
  <2>4. CmdDeletes(run[t])'
    BY <2>1, NotDeleting DEF Began, Deleting
  <2>5. CmdCoords(run[t])'
    BY <2>1, GivenCoords DEF Began, Deleting, Unsupplied
  <2> QED BY <2>2, <2>3, <2>4, <2>5 DEF WorkStep
<1>5. CASE StartNew(t, n)
  BY <1>1, <1>2, <1>5, StartNewDoes, IdleTypes
<1>6. CASE StartUse(t, n)
  BY <1>1, <1>2, <1>6, StartUseDoes, IdleTypes
<1>7. CASE StartEdit(t, n)
  <2>1. Began(t, n, "edit") /\ config[n] # None /\ run'[t].conf = config[n]
    BY <1>1, <1>7, StartEditDoes
  <2>2. CopiesOurs'
    BY <1>1, <2>1, Unchanged, CopiesStay DEF Began
  <2>3. CmdCopies(run[t])'
    BY <1>1, <2>1 DEF CmdCopies, CopiesOurs, Began
  <2>4. CmdDeletes(run[t])'
    BY <2>1, NotDeleting DEF Began, Deleting
  <2>5. CmdCoords(run[t])'
    BY <2>1 DEF CmdCoords, Began, Unsupplied
  <2> QED BY <2>2, <2>3, <2>4, <2>5 DEF WorkStep
<1>8. CASE StartDelete(t, n)
  <2>1. /\ Began(t, n, "delete")
        /\ run'[t].conf = IF config[n] = None THEN Zero ELSE config[n]
    BY <1>1, <1>8, StartDeleteDoes
  <2>2. CopiesOurs'
    BY <1>1, <2>1, Unchanged, CopiesStay DEF Began
  <2>3. CmdCopies(run[t])'
    BY <1>1, <2>1, IdleTypes DEF CmdCopies, CopiesOurs, Began
  <2>4. CmdDeletes(run[t])'
    BY <2>1 DEF CmdDeletes, Began
  <2>5. CmdCoords(run[t])'
    BY <2>1, DeletingCoords DEF Began, Deleting
  <2> QED BY <2>2, <2>3, <2>4, <2>5 DEF WorkStep
<1> QED BY <1>3, <1>4, <1>5, <1>6, <1>7, <1>8

LEMMA SameConfigAsks == ASSUME UNCHANGED config PROVE SameAsks
BY DEF SameAsks

\* The steps of init that only deal with the keychain and with the SSH keys.
LEMMA KeyStepsWork ==
  ASSUME KeyInv, WorkInv, NEW t \in Terminals,
         \/ ResolveKey(t) \/ Verify(t) \/ PersistKey(t)
         \/ CheckKey(t) \/ GenerateKey(t) \/ UploadKey(t)
  PROVE  WorkStep(t)
<1>1. TypeInv
  BY DEF KeyInv
<1>2. CASE ResolveKey(t)
  <2>1. UNCHANGED <<home, taken, buckets>>
    BY <1>2 DEF ResolveKey, cosVars
  <2> QED BY <1>1, <1>2, <2>1, ResolveKeyDoes, QuietWork
          DEF Keeps, Deleting, Unsupplied
<1>3. CASE Verify(t)
  <2>1. UNCHANGED <<home, taken, buckets, config>>
    BY <1>3 DEF Verify, filesVars, cosVars
  <2> QED BY <1>1, <1>3, <2>1, VerifyDoes, QuietWork, SameConfigAsks
          DEF Keeps, Deleting, Unsupplied
<1>4. CASE PersistKey(t)
  <2>1. UNCHANGED <<home, taken, buckets>>
    BY <1>4 DEF PersistKey, cosVars
  <2> QED BY <1>1, <1>4, <2>1, PersistKeyDoes, QuietWork
          DEF Keeps, Deleting, Unsupplied
<1>5. CASE CheckKey(t)
  <2>1. UNCHANGED <<home, taken, buckets, config>>
    BY <1>5 DEF CheckKey, filesVars, cosVars
  <2> QED BY <1>1, <1>5, <2>1, CheckKeyDoes, QuietWork, SameConfigAsks
          DEF Keeps, Deleting, Unsupplied, AfterKey
<1>6. CASE GenerateKey(t)
  <2>1. UNCHANGED <<home, taken, buckets, config>>
    BY <1>6 DEF GenerateKey, cosVars
  <2> QED BY <1>1, <1>6, <2>1, GenerateKeyDoes, QuietWork, SameConfigAsks
          DEF Keeps, Deleting, Unsupplied
<1>7. CASE UploadKey(t)
  <2>1. UNCHANGED <<home, taken, buckets, config>>
    BY <1>7 DEF UploadKey, cosVars
  <2> QED BY <1>1, <1>7, <2>1, UploadKeyDoes, QuietWork, SameConfigAsks
          DEF Keeps, Deleting, Unsupplied, AfterKey
<1> QED BY <1>2, <1>3, <1>4, <1>5, <1>6, <1>7

LEMMA SavePartialWork ==
  ASSUME KeyInv, WorkInv, NEW t \in Terminals, SavePartial(t)
  PROVE  WorkStep(t)
<1>1. TypeInv /\ TypeOK /\ CopiesOurs /\ CmdCopies(run[t]) /\ CmdCoords(run[t])
  BY DEF KeyInv, TypeInv, WorkInv
<1>2. /\ Keeps(t) /\ run[t].step = "partial" /\ run'[t].step = "partial key"
      /\ run'[t].conf = run[t].conf
  BY <1>1, SavePartialDoes
<1>3. PICK conf \in ConfType :
        conf.copied = {} /\ config' = [config EXCEPT ![run[t].name] = conf]
  BY <1>1, SavePartialDoes
<1>4. run[t].name \in Names
  BY <1>1, <1>2 DEF TypeInv, CmdSound
<1>5. UNCHANGED <<home, taken, buckets>>
  BY DEF SavePartial, cosVars
<1>6. CopiesOurs'
  BY <1>1, <1>3, <1>4, <1>5, CopiesSaved
<1>7. CmdCopies(run[t])'
  BY <1>1, <1>2, <1>5, CmdCopiesStay DEF Keeps, CopiesKept
<1>8. CmdDeletes(run[t])'
  BY <1>2, NotDeleting DEF Deleting
<1>9. CmdCoords(run[t])'
  BY <1>1, <1>2, <1>5, CoordsStay DEF Deleting, Unsupplied
<1> QED BY <1>6, <1>7, <1>8, <1>9 DEF WorkStep

LEMMA InterviewWork ==
  ASSUME KeyInv, WorkInv, NEW t \in Terminals, Interview(t)
  PROVE  WorkStep(t)
<1>1. /\ run'[t].conf.copied = {} /\ run'[t].conf.far = NoSource
      /\ run'[t].step \in {"supply", "overlay", "check"}
  BY InterviewDoes DEF KeyInv
<1>2. CopiesOurs'
  BY SameConfigAsks, CopiesStay DEF WorkInv, Interview, filesVars
<1>3. CmdCopies(run[t])'
  BY <1>1 DEF CmdCopies
<1>4. CmdDeletes(run[t])'
  BY <1>1, NotDeleting DEF Deleting
<1>5. CmdCoords(run[t])'
  BY <1>1, NoCoords
<1> QED BY <1>2, <1>3, <1>4, <1>5 DEF WorkStep

\* A file goes to a free name only, so what is recorded elsewhere stays.
LEMMA HomeGrew ==
  ASSUME TypeOK, CopiesOurs, NEW n \in Names, UNCHANGED <<config, taken>>, HomeGrows(n)
  PROVE  CopiesOurs'
<1> SUFFICES ASSUME NEW m \in Names, config[m] # None, "copied" \notin config[m].given,
                    NEW k \in config[m].copied \ taken
             PROVE  home'[k] = m
  BY DEF CopiesOurs
<1>1. k \in KeyNames
  BY DEF TypeOK, ConfType
<1>2. home[k] = m /\ home[k] # None
  BY NamesAssumption DEF CopiesOurs
<1> QED BY <1>1, <1>2 DEF HomeGrows

LEMMA CmdHomeGrew ==
  ASSUME TypeOK, NEW t \in Terminals, run[t].name \in Names, CmdCopies(run[t]),
         run[t].step # "repoint", UNCHANGED taken, HomeGrows(run[t].name), SameName(t),
         CopiesKept(t)
  PROVE  CmdCopies(run[t])'
<1> SUFFICES ASSUME "copied" \notin run'[t].conf.given,
                    NEW k \in run'[t].conf.copied \ taken
             PROVE  home'[k] = run[t].name
  BY DEF CmdCopies, SameName
<1>1. "copied" \notin run[t].conf.given /\ k \in run[t].conf.copied \ taken
  BY DEF CopiesKept
<1>2. k \in KeyNames
  BY <1>1 DEF TypeOK, CmdType, ConfType
<1>3. home[k] = run[t].name /\ home[k] # None
  BY <1>1, NamesAssumption DEF CmdCopies
<1> QED BY <1>2, <1>3 DEF HomeGrows

LEMMA CopyKeyWork ==
  ASSUME KeyInv, WorkInv, NEW t \in Terminals, CopyKey(t)
  PROVE  WorkStep(t)
<1> DEFINE n == run[t].name  k == run[t].key
<1>1. TypeInv /\ TypeOK /\ CopiesOurs /\ CmdCopies(run[t]) /\ CmdCoords(run[t])
  BY DEF KeyInv, TypeInv, WorkInv
<1>2. /\ Keeps(t) /\ run[t].step = "copy" /\ k \in KeyNames
      /\ run'[t].step \in AfterKey /\ run'[t].conf.far = run[t].conf.far
      /\ run'[t].conf.given = run[t].conf.given
      /\ \/ /\ home[k] = None /\ home' = [home EXCEPT ![k] = n]
            /\ run'[t].conf.copied = {k}
         \/ home' = home /\ run'[t].conf = run[t].conf
  BY <1>1, CopyKeyDoes
<1>3. n \in Names
  BY <1>1, <1>2 DEF TypeInv, CmdSound
<1>4. UNCHANGED <<config, taken, buckets>>
  BY DEF CopyKey, cosVars
<1>5. CmdDeletes(run[t])'
  BY <1>2, NotDeleting DEF Deleting, AfterKey
<1>6. CmdCoords(run[t])'
  BY <1>1, <1>2, <1>4, CoordsStay DEF Deleting, Unsupplied, AfterKey
<1>7. CASE /\ home[k] = None /\ home' = [home EXCEPT ![k] = n]
           /\ run'[t].conf.copied = {k}
  <2>1. HomeGrows(n) /\ home'[k] = n
    BY <1>1, <1>2, <1>3, <1>7 DEF TypeOK, HomeGrows
  <2>2. CopiesOurs'
    BY <1>1, <1>3, <1>4, <2>1, HomeGrew
  <2>3. CmdCopies(run[t])'
    BY <1>2, <1>7, <2>1 DEF CmdCopies, Keeps, SameName
  <2> QED BY <1>5, <1>6, <2>2, <2>3 DEF WorkStep
<1>8. CASE home' = home /\ run'[t].conf = run[t].conf
  <2>1. CopiesOurs'
    BY <1>1, <1>4, <1>8, SameConfigAsks, CopiesStay
  <2>2. CmdCopies(run[t])'
    BY <1>1, <1>2, <1>4, <1>8, CmdCopiesStay DEF Keeps, CopiesKept
  <2> QED BY <1>5, <1>6, <2>1, <2>2 DEF WorkStep
<1> QED BY <1>2, <1>7, <1>8

LEMMA ProxyKeyWork ==
  ASSUME KeyInv, WorkInv, NEW t \in Terminals, ProxyKey(t)
  PROVE  WorkStep(t)
<1>1. TypeInv /\ TypeOK /\ CopiesOurs /\ CmdCopies(run[t]) /\ CmdCoords(run[t])
  BY DEF KeyInv, TypeInv, WorkInv
<1>2. /\ Keeps(t) /\ run[t].step = "proxy" /\ run'[t].step = "overlay"
      /\ run'[t].conf.copied = run[t].conf.copied
      /\ run'[t].conf.far = run[t].conf.far /\ HomeGrows(run[t].name)
      /\ run'[t].conf.given = run[t].conf.given
  BY <1>1, ProxyKeyDoes
<1>3. run[t].name \in Names
  BY <1>1, <1>2 DEF TypeInv, CmdSound
<1>4. UNCHANGED <<config, taken, buckets>>
  BY DEF ProxyKey, cosVars
<1>5. CopiesOurs' /\ CmdCopies(run[t])'
  BY <1>1, <1>2, <1>3, <1>4, HomeGrew, CmdHomeGrew DEF Keeps, CopiesKept
<1>6. CmdDeletes(run[t])'
  BY <1>2, NotDeleting DEF Deleting
<1>7. CmdCoords(run[t])'
  BY <1>1, <1>2, <1>4, CoordsStay DEF Deleting, Unsupplied
<1> QED BY <1>5, <1>6, <1>7 DEF WorkStep

LEMMA EnsureSupplyChainWork ==
  ASSUME KeyInv, WorkInv, NEW t \in Terminals, EnsureSupplyChain(t)
  PROVE  WorkStep(t)
<1>1. TypeInv /\ CopiesOurs /\ CmdCopies(run[t]) /\ CmdCoords(run[t])
  BY DEF KeyInv, WorkInv
<1>2. /\ Keeps(t) /\ run[t].step = "supply"
      /\ run'[t].step \in AfterChain \cup {"instance", "bucket", "far"}
      /\ run'[t].conf.copied = run[t].conf.copied
      /\ run'[t].conf.given = run[t].conf.given
      /\ \/ run'[t].conf.far = run[t].conf.far
         \/ run'[t].step \in AfterChain /\ run'[t].conf.far.bucket = "local files"
         \/ run'[t].step \in AfterChain /\ Complete
              /\ run'[t].conf.far.bucket = Found
  BY <1>1, EnsureSupplyChainDoes
<1>3. UNCHANGED <<config, home, taken, buckets>>
  BY DEF EnsureSupplyChain, filesVars, cosVars
<1>4. CopiesOurs' /\ CmdCopies(run[t])'
  BY <1>1, <1>2, <1>3, SameConfigAsks, CopiesStay, CmdCopiesStay
     DEF Keeps, CopiesKept
<1>5. CmdDeletes(run[t])'
  BY <1>2, NotDeleting DEF Deleting, AfterChain
<1>6. CmdCoords(run[t])'
  <2>1. CASE run'[t].conf.far = run[t].conf.far
    BY <1>1, <1>2, <1>3, <2>1, CoordsStay DEF Deleting, Unsupplied, AfterChain
  <2>2. CASE run'[t].step \in AfterChain /\ run'[t].conf.far.bucket = "local files"
    <3>1. "local files" \notin Buckets
      BY DEF Buckets
    <3> QED BY <2>2, <3>1 DEF CmdCoords, AfterChain, Unsupplied
  <2>3. CASE /\ run'[t].step \in AfterChain /\ Complete
             /\ run'[t].conf.far.bucket = Found
    <3>1. buckets[Found] # None /\ buckets[Found].objects = Artefacts
      BY <2>3, FoundNow DEF Complete, FoundIs, Ours
    <3> QED BY <1>3, <2>3, <3>1 DEF CmdCoords, AfterChain, Unsupplied
  <2> QED BY <1>2, <2>1, <2>2, <2>3
<1> QED BY <1>4, <1>5, <1>6 DEF WorkStep

LEMMA ProvisionWork ==
  ASSUME KeyInv, WorkInv, NEW t \in Terminals, Provision(t)
  PROVE  WorkStep(t)
<1>1. /\ TypeInv /\ TypeOK /\ CopiesOurs /\ CmdCopies(run[t]) /\ CmdCoords(run[t])
  BY DEF KeyInv, TypeInv, WorkInv
<1>2. /\ Keeps(t) /\ run'[t].conf.copied = run[t].conf.copied
      /\ run'[t].conf.given = run[t].conf.given
      /\ \/ /\ run[t].step \in {"instance", "bucket"}
            /\ run'[t].step \in {"bucket", "far"} /\ run'[t].conf = run[t].conf
         \/ /\ run[t].step = "far" /\ PutObject(Provisioned, "far")
            /\ run'[t].step = "jwt" /\ run'[t].conf = run[t].conf
         \/ /\ run[t].step = "jwt" /\ PutObject(Provisioned, "jwt")
            /\ run'[t].step \in AfterChain /\ run'[t].conf.far.bucket = Provisioned
  BY <1>1, ProvisionDoes
<1>3. UNCHANGED <<config, home, taken>>
  BY DEF Provision, filesVars
<1>4. run[t].step \in {"instance", "bucket", "far", "jwt"} /\ run[t].conf.far = NoSource
  BY <1>1, <1>2 DEF CmdCoords, Unsupplied
<1>5. CopiesOurs' /\ CmdCopies(run[t])'
  BY <1>1, <1>2, <1>3, <1>4, SameConfigAsks, CopiesStay, CmdCopiesStay
     DEF Keeps, CopiesKept
<1>6. CmdDeletes(run[t])'
  BY <1>2, NotDeleting DEF Deleting, AfterChain
<1>7. CmdCoords(run[t])'
  <2>1. CASE /\ run[t].step \in {"instance", "bucket"}
             /\ run'[t].step \in {"bucket", "far"} /\ run'[t].conf = run[t].conf
    BY <1>4, <2>1, NoCoords
  <2>2. CASE /\ run[t].step = "far" /\ PutObject(Provisioned, "far")
             /\ run'[t].step = "jwt" /\ run'[t].conf = run[t].conf
    <3>1. NoSource.bucket \notin Buckets
      BY BucketsAssumption DEF NoSource
    <3>2. /\ Found' = Found /\ Found # None
          /\ buckets'[Found].objects = buckets[Found].objects \cup {"far"}
      BY <1>1, <2>2, PutDoes DEF Artefacts
    <3> QED BY <1>4, <2>2, <3>1, <3>2 DEF CmdCoords
  <2>3. CASE /\ run[t].step = "jwt" /\ PutObject(Provisioned, "jwt")
             /\ run'[t].step \in AfterChain /\ run'[t].conf.far.bucket = Provisioned
    <3>1. /\ Provisioned = Found /\ Found \in Buckets /\ buckets'[Found] # None
          /\ buckets'[Found].objects = buckets[Found].objects \cup {"jwt"}
          /\ buckets'[Found] \in Bucket \cup {None}
      BY <1>1, <2>3, PutDoes DEF Artefacts
    <3>2. "far" \in buckets[Found].objects
      BY <1>1, <2>3 DEF CmdCoords
    <3>3. buckets'[Found].objects = Artefacts
      BY <3>1, <3>2 DEF Artefacts, Bucket
    <3> QED BY <2>3, <3>1, <3>3 DEF CmdCoords, AfterChain, Unsupplied
  <2> QED BY <1>2, <2>1, <2>2, <2>3
<1> QED BY <1>5, <1>6, <1>7 DEF WorkStep

LEMMA OverlayWork ==
  ASSUME KeyInv, WorkInv, NEW t \in Terminals, Overlay(t)
  PROVE  WorkStep(t)
<1>1. TypeInv /\ CopiesOurs /\ CmdCopies(run[t]) /\ CmdCoords(run[t])
  BY DEF KeyInv, WorkInv
<1>2. /\ Keeps(t) /\ run[t].step = "overlay" /\ run'[t].step = "save"
      /\ Overlaid(run[t].conf, run'[t].conf)
  BY <1>1, OverlayDoes
<1>3. UNCHANGED <<config, home, taken, buckets>>
  BY DEF Overlay, filesVars, cosVars
<1>4. CopiesOurs' /\ CmdCopies(run[t])'
  BY <1>1, <1>2, <1>3, SameConfigAsks, CopiesStay, CmdCopiesStay
     DEF Keeps, CopiesKept, Overlaid
<1>5. CmdDeletes(run[t])'
  BY <1>2, NotDeleting DEF Deleting
<1>6. CmdCoords(run[t])'
  BY <1>1, <1>2, <1>3, CoordsStay DEF Deleting, Unsupplied, Overlaid
<1> QED BY <1>4, <1>5, <1>6 DEF WorkStep

LEMMA SaveWorkspaceWork ==
  ASSUME KeyInv, WorkInv, NEW t \in Terminals, SaveWorkspace(t)
  PROVE  WorkStep(t)
<1>1. TypeInv /\ TypeOK /\ CopiesOurs /\ CmdCopies(run[t]) /\ CmdCoords(run[t])
  BY DEF KeyInv, TypeInv, WorkInv
<1>2. /\ run[t].name \in Names /\ run[t].conf \in ConfType
      /\ config' = [config EXCEPT ![run[t].name] = run[t].conf]
      /\ \/ run[t].step = "edit" /\ Ended(t)
         \/ /\ run[t].step \in {"save", "seed", "new"} /\ Keeps(t)
            /\ run'[t].step \in {"persist", "select"}
            /\ run'[t].conf = run[t].conf
  BY <1>1, SaveWorkspaceDoes
<1>3. UNCHANGED <<home, taken, buckets>>
  BY DEF SaveWorkspace, cosVars
<1>4. "copied" \notin run[t].conf.given =>
        \A k \in run[t].conf.copied \ taken : home[k] = run[t].name
  BY <1>1, <1>2 DEF CmdCopies
<1>5. CopiesOurs'
  BY <1>1, <1>2, <1>3, <1>4, CopiesSaved
<1>6. CASE run[t].step = "edit" /\ Ended(t)
  BY <1>5, <1>6, EndWork
<1>7. CASE /\ run[t].step \in {"save", "seed", "new"} /\ Keeps(t)
           /\ run'[t].step \in {"persist", "select"}
           /\ run'[t].conf = run[t].conf
  <2>1. CmdCopies(run[t])'
    BY <1>1, <1>3, <1>7, CmdCopiesStay DEF Keeps, CopiesKept
  <2>2. CmdDeletes(run[t])'
    BY <1>7, NotDeleting DEF Deleting
  <2>3. CmdCoords(run[t])'
    BY <1>1, <1>3, <1>7, CoordsStay DEF Deleting, Unsupplied
  <2> QED BY <1>5, <2>1, <2>2, <2>3 DEF WorkStep
<1> QED BY <1>2, <1>6, <1>7

LEMMA EndingsWork ==
  ASSUME KeyInv, WorkInv, NEW t \in Terminals, SetCurrent(t) \/ Repoint(t) \/ Stop(t)
  PROVE  WorkStep(t)
<1>1. TypeInv /\ TypeOK /\ CopiesOurs
  BY DEF KeyInv, TypeInv, WorkInv
<1>2. UNCHANGED <<home, taken>>
  BY DEF SetCurrent, Repoint, Stop
<1>3. CASE SetCurrent(t)
  <2>1. Ended(t) /\ UNCHANGED config
    BY <1>1, <1>3, SetCurrentDoes DEF SetCurrent
  <2> QED BY <1>1, <1>2, <2>1, SameConfigAsks, CopiesStay, EndWork
<1>4. CASE Repoint(t)
  <2>1. Ended(t) /\ UNCHANGED config
    BY <1>1, <1>4, RepointDoes DEF Repoint
  <2> QED BY <1>1, <1>2, <2>1, SameConfigAsks, CopiesStay, EndWork
<1>5. CASE Stop(t)
  <2>1. /\ Ended(t) /\ run[t].name \in Names
        /\ config' = config \/ config' = [config EXCEPT ![run[t].name] = Zero]
    BY <1>1, <1>5, StopDoes
  <2>2. CASE config' = config
    BY <1>1, <1>2, <2>1, <2>2, SameConfigAsks, CopiesStay, EndWork
  <2>3. CASE config' = [config EXCEPT ![run[t].name] = Zero]
    <3>1. CopiesOurs'
      BY <1>1, <1>2, <2>1, <2>3, IdleTypes, CopiesSaved
    <3> QED BY <2>1, <3>1, EndWork
  <2> QED BY <2>1, <2>2, <2>3
<1> QED BY <1>3, <1>4, <1>5

LEMMA DeleteWorkspaceWork ==
  ASSUME KeyInv, WorkInv, NEW t \in Terminals, DeleteWorkspace(t)
  PROVE  WorkStep(t)
<1>1. TypeInv /\ TypeOK /\ CopiesOurs /\ CmdCopies(run[t]) /\ CmdDeletes(run[t])
  BY DEF KeyInv, TypeInv, WorkInv
<1>2. /\ Keeps(t) /\ run[t].step = "delete" /\ run'[t].step = "forget"
      /\ run'[t].conf = run[t].conf /\ run[t].name \in Names
      /\ config' = [config EXCEPT ![run[t].name] = None]
      /\ \A k \in KeyNames : sshdir'[run[t].name][k] = 0
  BY <1>1, DeleteWorkspaceDoes
<1>3. UNCHANGED <<current, home, taken>>
  BY DEF DeleteWorkspace
<1>4. CopiesOurs'
  BY <1>1, <1>2, <1>3, CopiesSaved
<1>5. CmdCopies(run[t])'
  BY <1>1, <1>2, <1>3, CmdCopiesStay DEF Keeps, CopiesKept
<1>6. config'[run[t].name] = None
  BY <1>1, <1>2 DEF TypeOK
<1>7. CmdDeletes(run[t])'
  BY <1>1, <1>2, <1>3, <1>6 DEF CmdDeletes, Deleting, Keeps, SameName
<1>8. CmdCoords(run[t])'
  BY <1>2, DeletingCoords DEF Deleting
<1> QED BY <1>4, <1>5, <1>7, <1>8 DEF WorkStep

LEMMA ForgetKeyWork ==
  ASSUME KeyInv, WorkInv, NEW t \in Terminals, ForgetKey(t)
  PROVE  WorkStep(t)
<1>1. TypeInv /\ CopiesOurs /\ CmdCopies(run[t]) /\ CmdDeletes(run[t])
  BY DEF KeyInv, WorkInv
<1>2. /\ Keeps(t) /\ run[t].step = "forget" /\ run'[t].step = "unlink"
      /\ run'[t].conf = run[t].conf
      /\ \/ keychain' = keychain \ {run[t].name}
         \/ keychain' = keychain /\ run'[t].held
  BY <1>1, ForgetKeyDoes
<1>3. UNCHANGED <<config, current, sshdir, home, taken>>
  BY DEF ForgetKey
<1>4. CopiesOurs' /\ CmdCopies(run[t])'
  BY <1>1, <1>2, <1>3, SameConfigAsks, CopiesStay, CmdCopiesStay
     DEF Keeps, CopiesKept
<1>5. CmdDeletes(run[t])'
  BY <1>1, <1>2, <1>3 DEF CmdDeletes, Deleting, Keeps, SameName
<1>6. CmdCoords(run[t])'
  BY <1>2, DeletingCoords DEF Deleting
<1> QED BY <1>4, <1>5, <1>6 DEF WorkStep

\* What is removed is of the workspace that is deleted, which has no configuration
\* any more, so no configuration that is left names it; or the list was given, and
\* its names are noted.
LEMMA RemoveCopiesWork ==
  ASSUME KeyInv, WorkInv, NEW t \in Terminals, RemoveCopies(t)
  PROVE  WorkStep(t)
<1>1. /\ TypeInv /\ TypeOK /\ CopiesOurs /\ CmdCopies(run[t]) /\ CmdDeletes(run[t])
  BY DEF KeyInv, TypeInv, WorkInv
<1>2. /\ Keeps(t) /\ run[t].step = "unlink" /\ run'[t].step = "repoint"
      /\ run'[t].conf = run[t].conf /\ run'[t].held = run[t].held
  BY <1>1, RemoveCopiesDoes
<1>3. PICK gone \in SUBSET run[t].conf.copied :
        /\ \A k \in KeyNames : home'[k] = IF k \in gone THEN None ELSE home[k]
        /\ taken' = IF "copied" \in run[t].conf.given THEN taken \cup gone ELSE taken
        /\ \A k \in run[t].conf.copied : k \in gone \/ k \in run'[t].kept
  BY <1>1, RemoveCopiesDoes
<1>4. UNCHANGED <<config, current, sshdir, keychain>>
  BY DEF RemoveCopies
<1>5. run[t].conf.copied \subseteq KeyNames
  BY <1>1 DEF TypeOK, CmdType, ConfType
<1>6. CopiesOurs'
  <2> SUFFICES ASSUME NEW n \in Names, config[n] # None, "copied" \notin config[n].given,
                      NEW k \in config[n].copied, k \notin taken'
               PROVE  home'[k] = n
    BY <1>4 DEF CopiesOurs
  <2>1. k \in KeyNames /\ k \notin taken
    BY <1>1, <1>3 DEF TypeOK, ConfType
  <2>2. home[k] = n
    BY <1>1, <2>1 DEF CopiesOurs
  <2>3. config[run[t].name] = None
    BY <1>1, <1>2 DEF CmdDeletes, Deleting
  <2>4. k \notin gone
    <3>1. CASE "copied" \in run[t].conf.given
      BY <1>3, <3>1
    <3>2. CASE "copied" \notin run[t].conf.given
      BY <1>1, <1>2, <2>1, <2>2, <2>3, <3>2 DEF CmdCopies
    <3> QED BY <3>1, <3>2
  <2> QED BY <1>3, <2>1, <2>2, <2>4
<1>7. CmdCopies(run[t])'
  BY <1>2 DEF CmdCopies
<1>8. \A k \in run'[t].conf.copied : home'[k] = None \/ k \in run'[t].kept
  BY <1>2, <1>3, <1>5
<1>9. CmdDeletes(run[t])'
  BY <1>1, <1>2, <1>4, <1>8 DEF CmdDeletes, Deleting, Keeps, SameName
<1>10. CmdCoords(run[t])'
  BY <1>2, DeletingCoords DEF Deleting
<1> QED BY <1>6, <1>7, <1>9, <1>10 DEF WorkStep

\* The verbs of cos change the buckets, when the terminal runs nothing else.
LEMMA StartCosWork ==
  ASSUME KeyInv, WorkInv, NEW t \in Terminals, StartCos(t)
  PROVE  WorkStep(t)
<1>1. CopiesOurs /\ CmdCopies(run[t]) /\ CmdDeletes(run[t]) /\ CmdCoords(run[t])
  BY DEF WorkInv
<1>2. run[t].step = "idle" /\ UNCHANGED <<config, current, sshdir, home, taken, keychain,
                                              run>>
  BY DEF StartCos, At, filesVars
<1>3. CopiesOurs' /\ CmdCopies(run[t])' /\ CmdDeletes(run[t])'
  BY <1>1, <1>2 DEF CopiesOurs, CmdCopies, CmdDeletes
<1>4. CmdCoords(run[t])'
  BY <1>1, <1>2, NoCoords DEF CmdCoords, Unsupplied
<1> QED BY <1>3, <1>4 DEF WorkStep

LEMMA InitWorkInv == Init => WorkInv
<1> SUFFICES ASSUME Init PROVE WorkInv
  OBVIOUS
<1>1. CopiesOurs
  BY DEF Init, CopiesOurs
<1>2. ASSUME NEW t \in Terminals
      PROVE  CmdCopies(run[t]) /\ CmdDeletes(run[t]) /\ CmdCoords(run[t])
  <2>1. run[t] = Idle
    BY DEF Init
  <2>2. /\ run[t].step = "idle" /\ run[t].conf.copied = {}
        /\ run[t].conf.far = NoSource /\ NoSource.bucket \notin Buckets
    BY <2>1, IdleTypes, BucketsAssumption DEF NoSource
  <2> QED BY <2>2 DEF CmdCopies, CmdDeletes, CmdCoords, Deleting
<1> QED BY <1>1, <1>2 DEF WorkInv

LEMMA NextWorkInv ==
  ASSUME SoleTerminal, KeyInv, WorkInv, [Next]_initVars
  PROVE  WorkInv'
<1>1. CASE UNCHANGED initVars
  <2>1. CopiesOurs'
    BY <1>1, SameConfigAsks, CopiesStay DEF WorkInv, initVars, filesVars
  <2>2. ASSUME NEW t \in Terminals
        PROVE  CmdCopies(run[t])' /\ CmdDeletes(run[t])' /\ CmdCoords(run[t])'
    BY <1>1 DEF WorkInv, CmdCopies, CmdDeletes, CmdCoords, Found, Ours,
               initVars, filesVars, cosVars
  <2> QED BY <2>1, <2>2 DEF WorkInv
<1>2. ASSUME NEW t \in Terminals, WorkStep(t) PROVE WorkInv'
  BY <1>2 DEF WorkStep, WorkInv, SoleTerminal
<1>3. ASSUME NEW t \in Terminals, NEW n \in Names,
             \/ StartInit(t, n) \/ StartSeed(t, n) \/ StartNew(t, n)
             \/ StartEdit(t, n) \/ StartUse(t, n) \/ StartDelete(t, n)
      PROVE  WorkInv'
  BY <1>2, <1>3, StartWork
<1>4. ASSUME NEW t \in Terminals,
             \/ ResolveKey(t) \/ Verify(t) \/ PersistKey(t)
             \/ CheckKey(t) \/ GenerateKey(t) \/ UploadKey(t)
      PROVE  WorkInv'
  BY <1>2, <1>4, KeyStepsWork
<1>5. ASSUME NEW t \in Terminals,
             \/ StartCos(t) \/ SavePartial(t) \/ Interview(t) \/ CopyKey(t)
             \/ EnsureSupplyChain(t) \/ Provision(t) \/ ProxyKey(t) \/ Overlay(t)
      PROVE  WorkInv'
  BY <1>2, <1>5, StartCosWork, SavePartialWork, InterviewWork, CopyKeyWork,
     EnsureSupplyChainWork, ProvisionWork, ProxyKeyWork, OverlayWork
<1>6. ASSUME NEW t \in Terminals,
             \/ SaveWorkspace(t) \/ SetCurrent(t) \/ Repoint(t) \/ Stop(t)
             \/ DeleteWorkspace(t) \/ ForgetKey(t) \/ RemoveCopies(t)
      PROVE  WorkInv'
  BY <1>2, <1>6, SaveWorkspaceWork, EndingsWork, DeleteWorkspaceWork, ForgetKeyWork,
     RemoveCopiesWork
<1> QED BY <1>1, <1>3, <1>4, <1>5, <1>6 DEF Next

LEMMA WorkInvHolds == ASSUME SoleTerminal PROVE Spec => []WorkInv
<1>1. KeyInv /\ WorkInv /\ [Next]_initVars => WorkInv'
  BY NextWorkInv
<1> QED BY <1>1, InitWorkInv, KeyInvHolds, PTL DEF Spec

-----------------------------------------------------------------------------
(* What the steps of init and of ws delete may touch.                      *)

\* The files in ~/.ssh: which change, and whose they are.
OwnChange(t) ==
  \A k \in KeyNames : home'[k] # home[k] =>
    \/ run[t].name = IF home[k] = None THEN home'[k] ELSE home[k]
    \/ home'[k] = None /\ k \in taken'

LEMMA GrowsOwn ==
  ASSUME NEW t \in Terminals, HomeGrows(run[t].name)
  PROVE  OwnChange(t)
BY DEF HomeGrows, OwnChange

LEMMA HomeChanges ==
  ASSUME KeyInv, WorkInv, Next, home' # home
  PROVE  \E t \in Terminals : OwnChange(t)
<1>1. TypeOK /\ TypeInv
  BY DEF KeyInv, TypeInv
<1>2. PICK t \in Terminals : CopyKey(t) \/ ProxyKey(t) \/ RemoveCopies(t)
  BY ZenonT(40) DEF Next, StartInit, StartSeed, StartNew, StartEdit, StartUse, StartDelete,
         StartCos, ResolveKey, Verify, SavePartial, PersistKey, Interview, CheckKey,
         GenerateKey, UploadKey, EnsureSupplyChain, Provision, Overlay, SaveWorkspace,
         SetCurrent, DeleteWorkspace, ForgetKey, Repoint, Stop, filesVars
<1>3. CASE CopyKey(t)
  <2>1. /\ run[t].step = "copy" /\ run[t].key \in KeyNames /\ home[run[t].key] = None
        /\ home' = [home EXCEPT ![run[t].key] = run[t].name]
    BY <1>1, <1>3, CopyKeyDoes
  <2>2. OwnChange(t)
    BY <1>1, <2>1 DEF OwnChange, TypeOK
  <2> QED BY <2>2
<1>4. CASE ProxyKey(t)
  BY <1>1, <1>4, ProxyKeyDoes, GrowsOwn
<1>5. CASE RemoveCopies(t)
  <2>1. run[t].step = "unlink" /\ CmdCopies(run[t])
    BY <1>1, <1>5, RemoveCopiesDoes DEF WorkInv
  <2>2. PICK gone \in SUBSET run[t].conf.copied :
          /\ \A k \in KeyNames : home'[k] = IF k \in gone THEN None ELSE home[k]
          /\ taken' = IF "copied" \in run[t].conf.given THEN taken \cup gone ELSE taken
    BY <1>1, <1>5, RemoveCopiesDoes
  <2>3. ASSUME NEW k \in KeyNames, home'[k] # home[k]
        PROVE  home'[k] = None /\ (home[k] = run[t].name \/ k \in taken')
    <3>1. k \in gone /\ home'[k] = None
      BY <2>2, <2>3
    <3>2. CASE "copied" \in run[t].conf.given
      BY <2>2, <3>1, <3>2
    <3>3. CASE "copied" \notin run[t].conf.given
      BY <2>1, <2>2, <3>1, <3>3 DEF CmdCopies
    <3> QED BY <3>1, <3>2, <3>3
  <2>4. OwnChange(t)
    BY <2>3 DEF OwnChange
  <2> QED BY <2>4
<1> QED BY <1>2, <1>3, <1>4, <1>5

\* A command changes in ~/.ssh only files of its own workspace.  copyKeyToUserSSH
\* leaves a file that is there alone, and removeCopiedSSHKeys, in ws delete, goes by
\* the names config.yaml records: though the user and the other workspaces keep
\* files of the same names, each name that init recorded stands for a file it made.
\* The exception is a list that init did not record but was given, and what has
\* become of a name since ws delete went by one.
THEOREM OthersKeepTheirKeys ==
  ASSUME SoleTerminal PROVE Spec => OnlyOwnCopiesGo
<1>1. KeyInv /\ WorkInv /\ [Next]_initVars =>
        [\A k \in KeyNames : home'[k] # home[k] =>
           \/ \E t \in Terminals :
                run[t].name = IF home[k] = None THEN home'[k] ELSE home[k]
           \/ home'[k] = None /\ k \in taken']_initVars
  <2> SUFFICES ASSUME KeyInv, WorkInv, Next, NEW k \in KeyNames, home'[k] # home[k]
               PROVE  \/ \E t \in Terminals :
                           run[t].name = IF home[k] = None THEN home'[k] ELSE home[k]
                      \/ home'[k] = None /\ k \in taken'
    OBVIOUS
  <2>1. PICK t \in Terminals : OwnChange(t)
    BY HomeChanges
  <2> QED BY <2>1 DEF OwnChange
<1> QED BY <1>1, KeyInvHolds, WorkInvHolds, PTL DEF Spec, OnlyOwnCopiesGo

\* Coordinates that are new in a configuration stand for a bucket that is complete.
CoordsTold ==
  \A n \in Names :
    (config'[n] # None /\ config'[n].far.bucket \in Buckets
       /\ "far" \notin config'[n].given
       /\ (config[n] = None \/ config[n].far # config'[n].far))
    => buckets[config'[n].far.bucket].objects = Artefacts

LEMMA AsksTell == ASSUME SameAsks PROVE CoordsTold
BY DEF SameAsks, CoordsTold

LEMMA SavedTells ==
  ASSUME TypeOK, NEW n \in Names, NEW conf,
         config' = [config EXCEPT ![n] = conf],
         \/ conf = None \/ conf.far = NoSource
         \/ config[n] # None /\ conf.far = config[n].far
         \/ conf.far.bucket \in Buckets /\ "far" \notin conf.given =>
              buckets[conf.far.bucket].objects = Artefacts
  PROVE  CoordsTold
<1>1. config'[n] = conf /\ \A m \in Names : m # n => config'[m] = config[m]
  BY DEF TypeOK
<1>2. NoSource.bucket \notin Buckets
  BY BucketsAssumption DEF NoSource
<1> QED BY <1>1, <1>2 DEF CoordsTold

LEMMA NextTells ==
  ASSUME KeyInv, WorkInv, Next
  PROVE  CoordsTold
<1>1. TypeOK /\ TypeInv
  BY DEF KeyInv, TypeInv
<1>2. CASE UNCHANGED config
  BY <1>2, SameConfigAsks, AsksTell
<1>3. ASSUME NEW t \in Terminals,
             \/ ResolveKey(t) \/ PersistKey(t) \/ SavePartial(t) \/ SaveWorkspace(t)
             \/ DeleteWorkspace(t) \/ Stop(t)
      PROVE  CoordsTold
  <2>1. CASE ResolveKey(t)
    BY <1>1, <2>1, ResolveKeyDoes, AsksTell
  <2>2. CASE PersistKey(t)
    BY <1>1, <2>2, PersistKeyDoes, AsksTell
  <2>3. CASE SavePartial(t)
    <3>1. PICK conf \in ConfType :
            conf.far = NoSource /\ config' = [config EXCEPT ![run[t].name] = conf]
      BY <1>1, <2>3, SavePartialDoes
    <3>2. run[t].name \in Names
      BY <1>1, <2>3, SavePartialDoes DEF TypeInv, CmdSound
    <3> QED BY <1>1, <3>1, <3>2, SavedTells
  <2>4. CASE SaveWorkspace(t)
    <3>1. /\ run[t].name \in Names
          /\ config' = [config EXCEPT ![run[t].name] = run[t].conf]
          /\ run[t].step \in {"edit", "save", "seed", "new"}
      BY <1>1, <2>4, SaveWorkspaceDoes
    <3>2. CmdCoords(run[t])
      BY DEF WorkInv
    <3>3. CASE run[t].step = "edit"
      BY <1>1, <3>1, <3>2, <3>3, SavedTells DEF CmdCoords
    <3>4. CASE run[t].step \in {"save", "seed", "new"}
      BY <1>1, <3>1, <3>2, <3>4, SavedTells DEF CmdCoords, Deleting
    <3> QED BY <3>1, <3>3, <3>4
  <2>5. CASE DeleteWorkspace(t)
    BY ZenonT(40), <1>1, <2>5, DeleteWorkspaceDoes, SavedTells
  <2>6. CASE Stop(t)
    <3>1. /\ run[t].name \in Names
          /\ config' = config \/ config' = [config EXCEPT ![run[t].name] = Zero]
      BY <1>1, <2>6, StopDoes
    <3> QED BY <1>1, <1>2, <3>1, IdleTypes, SavedTells
  <2> QED BY <1>3, <2>1, <2>2, <2>3, <2>4, <2>5, <2>6
<1>4. \/ UNCHANGED config
      \/ \E t \in Terminals :
           \/ ResolveKey(t) \/ PersistKey(t) \/ SavePartial(t) \/ SaveWorkspace(t)
           \/ DeleteWorkspace(t) \/ Stop(t)
  BY ZenonT(40) DEF Next, StartInit, StartSeed, StartNew, StartEdit, StartUse, StartDelete,
         StartCos, Verify, Interview, CheckKey, GenerateKey, UploadKey, CopyKey,
         EnsureSupplyChain, Provision, ProxyKey, Overlay, SetCurrent, ForgetKey, RemoveCopies,
         Repoint, filesVars
<1> QED BY <1>2, <1>3, <1>4

\* The coordinates of the FAR credential and of the JWT go into config.yaml when
\* both objects are in the bucket, and not before, wherever the provisioning of
\* init stops: the question finds them complete, or both uploads have returned.
\* Nothing is said of coordinates that --config-file or the environment gave.
THEOREM CoordsWhenComplete ==
  ASSUME SoleTerminal PROVE Spec => CoordsComplete
<1>1. KeyInv /\ WorkInv /\ [Next]_initVars =>
        [\A n \in Names :
           (config'[n] # None /\ config'[n].far.bucket \in Buckets
              /\ "far" \notin config'[n].given
              /\ (config[n] = None \/ config[n].far # config'[n].far))
           => buckets[config'[n].far.bucket].objects = Artefacts]_initVars
  BY NextTells DEF CoordsTold
<1> QED BY <1>1, KeyInvHolds, WorkInvHolds, PTL DEF Spec, CoordsComplete

\* When a ws delete comes to its end the workspace has left no configuration, no
\* private key of its own and no pointer, and of its entry in the keychain and its
\* copies in ~/.ssh what it has warned of: runWorkspaceDelete goes on when one of them
\* cannot be removed, and it moves the pointer last, to a workspace that is there.
THEOREM NothingIsLeft ==
  ASSUME SoleTerminal PROVE Spec => DeletedIsGone
<1>1. KeyInv /\ WorkInv /\ [Next]_initVars =>
        [\A t \in Terminals :
           Repoint(t) =>
             LET n == run[t].name IN
             /\ config[n] = None /\ current' # n
             /\ \A k \in KeyNames : sshdir[n][k] = 0
             /\ n \in keychain => run[t].held
             /\ \A k \in run[t].conf.copied : home[k] = None \/ k \in run[t].kept]_initVars
  <2> SUFFICES ASSUME KeyInv, WorkInv, NEW t \in Terminals, Repoint(t)
               PROVE  /\ config[run[t].name] = None /\ current' # run[t].name
                      /\ \A k \in KeyNames : sshdir[run[t].name][k] = 0
                      /\ run[t].name \in keychain => run[t].held
                      /\ \A k \in run[t].conf.copied :
                           home[k] = None \/ k \in run[t].kept
    OBVIOUS
  <2>1. /\ run[t].step = "repoint" /\ run[t].name \in Names
        /\ run[t].was # run[t].name => current' = current
        /\ run[t].was = run[t].name => current' = None \/ config[current'] # None
    BY RepointDoes DEF KeyInv
  <2>2. /\ run[t].was = current /\ config[run[t].name] = None
        /\ run[t].name \in keychain => run[t].held
        /\ \A k \in KeyNames : sshdir[run[t].name][k] = 0
        /\ \A k \in run[t].conf.copied : home[k] = None \/ k \in run[t].kept
    BY <2>1 DEF WorkInv, CmdDeletes, Deleting
  <2>3. current' # run[t].name
    BY <2>1, <2>2, NamesAssumption
  <2> QED BY <2>2, <2>3
<1> QED BY <1>1, KeyInvHolds, WorkInvHolds, PTL DEF Spec, DeletedIsGone
=============================================================================
