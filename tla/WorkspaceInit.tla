--------------------------- MODULE WorkspaceInit ---------------------------
(***************************************************************************)
(* What a workspace is set up with, and what is left of it: `init` in its  *)
(* three forms (the interview, --config-file, --non-interactive), the      *)
(* commands that edit config.yaml, and `ws new`, `ws use`, `ws delete`.    *)
(*                                                                         *)
(* A workspace is spread over many places, no two of which are written     *)
(* together: config.yaml, the pointer to the workspace in use, the OS      *)
(* keychain, the workspace's ssh directory, ~/.ssh, the SSH keys of the    *)
(* VPC service in every region, and the object storage (SupplyChain).  The *)
(* interview writes most of them long before it saves the configuration,   *)
(* and it may fail, be interrupted or be killed at every step.  A file or  *)
(* the environment may fill the same fields with whatever they hold, and   *)
(* nothing is looked up, uploaded or copied for those.                     *)
(***************************************************************************)
EXTENDS SupplyChain, Naturals

CONSTANTS
  Names,      \* workspaces
  Terminals,
  KeyNames,   \* names of SSH keys
  Regions,    \* the regions jumphosts are put in
  Machines,   \* where it runs: a keychain that works, key files of the user's in
              \* ~/.ssh, the default bucket name taken by another account
  Answers,    \* what an interview may be asked to set up, of Topics
  Seeds,      \* what a file or the environment may hold beyond what is required
  MaxPairs,   \* bound: key pairs generated
  MaxRuns     \* bound: commands started

ASSUME NamesAssumption == None \notin Names \cup KeyNames \cup Regions
\* BNK brings the supply chain, and a proxy appliance only comes with BNK.
Topics == {"jumphosts", "bnk", "proxy"}
ASSUME AnswersAssumption ==
  Answers \subseteq {a \in SUBSET Topics : "proxy" \in a => "bnk" \in a}
ASSUME MachinesAssumption ==
  Machines \subseteq [vault : BOOLEAN, mine : SUBSET KeyNames, foreign : BOOLEAN]
Sources == [bucket : Buckets \cup {None, "local files"}, region : CosRegions \cup {None}]
ASSUME SeedsAssumption ==
  Seeds \subseteq [b64 : BOOLEAN, keys : SUBSET (Regions \X KeyNames),
                  copied : SUBSET KeyNames, far : Sources]
ASSUME BoundAssumption == MaxPairs \in Nat /\ MaxRuns \in Nat

VARIABLES
  config,    \* workspace -> its config.yaml, or None
  current,   \* current_workspace of the global config.yaml, or None
  vault,     \* the machine has a keychain that works
  keychain,  \* the workspaces whose API key is in it
  sshdir,    \* workspace -> key name -> the pair whose private half is there
  home,      \* ~/.ssh: key name -> whose file it is
  taken,     \* the names that ws delete went by because a file or the environment
             \* had listed them as copies (history)
  cloud,     \* region -> key name -> the pair whose public half is there
  run,       \* terminal -> the command it runs
  pairs,     \* how many pairs were generated
  runs       \* how many commands were started

filesVars == <<config, current, vault, keychain, sshdir, home, taken, cloud, pairs>>
initVars  == <<filesVars, cosVars, run, runs>>

Required == {"region", "resource_group", "prefix", "tf_source"}

NoSource == [bucket |-> None, region |-> None]

\* What the commands tell apart in a config.yaml: what is set, an API key, the keys
\* jumphosts look up and in which region, the files copied to ~/.ssh, and the cos:
\* block or local files.  Which of these a file or the environment filled is not in
\* the file: it marks what init saved as it was given.
Zero == [set |-> {}, b64 |-> FALSE, keys |-> {}, copied |-> {},
         far |-> NoSource, given |-> {}]

\* A ws delete notes what it has warned of: the keychain held on to the key, or a
\* file was kept in ~/.ssh.
Idle == [step |-> "idle", name |-> None, env |-> FALSE, conf |-> Zero, fresh |-> FALSE,
         asked |-> {}, key |-> None, todo |-> {}, pair |-> 0, was |-> None,
         held |-> FALSE, kept |-> {}]

Init ==
  /\ \E m \in Machines :
       /\ vault = m.vault /\ CosInit(m.foreign)
       /\ home = [k \in KeyNames |-> IF k \in m.mine THEN "user" ELSE None] /\ taken = {}
  /\ config = [n \in Names |-> None] /\ current = None /\ keychain = {}
  /\ sshdir = [n \in Names |-> [k \in KeyNames |-> 0]]
  /\ cloud = [r \in Regions |-> [k \in KeyNames |-> 0]]
  /\ run = [t \in Terminals |-> Idle] /\ pairs = 0 /\ runs = 0

At(t, step) == run[t].step = step
\* The fields that differ replace those of the command of t.
With(cmd, fields) ==
  [f \in DOMAIN cmd |-> IF f \in DOMAIN fields THEN fields[f] ELSE cmd[f]]
Go(t, fields) == run' = [run EXCEPT ![t] = With(@, fields)] /\ UNCHANGED runs
Done(t) == run' = [run EXCEPT ![t] = Idle] /\ UNCHANGED runs
Begin(t, fields) ==
  /\ At(t, "idle") /\ runs < MaxRuns
  /\ run' = [run EXCEPT ![t] = [fields EXCEPT !.was = current]] /\ runs' = runs + 1

\* An error returned, ^C, kill -9: what was written stays.  os.WriteFile empties
\* the file before it fills it, and an empty file is a configuration.
Saving == {"partial", "save", "seed", "new", "edit"}
Stop(t) ==
  /\ ~At(t, "idle") /\ Done(t)
  /\ \/ UNCHANGED config
     \/ run[t].step \in Saving /\ config' = [config EXCEPT ![run[t].name] = Zero]
  /\ UNCHANGED <<current, vault, keychain, sshdir, home, taken, cloud, pairs, cosVars>>

SaveTo(n, conf) == config' = [config EXCEPT ![n] = conf]

-----------------------------------------------------------------------------
(* The interview.                                                          *)

StartInit(t, n) ==
  /\ \E env \in BOOLEAN :
       Begin(t, [Idle EXCEPT !.step = "resolve", !.name = n, !.env = env, !.fresh = config[n] = None])
  /\ UNCHANGED <<filesVars, cosVars>>

Resolvable(n, env) == env \/ n \in keychain \/ (config[n] # None /\ config[n].b64)

\* The keychain, or config.yaml when there is one to write.
StoreKey(n) ==
  IF vault THEN keychain' = keychain \cup {n} /\ UNCHANGED config
  ELSE /\ UNCHANGED keychain
       /\ IF config[n] = None THEN UNCHANGED config
          ELSE SaveTo(n, [config[n] EXCEPT !.b64 = TRUE])

\* Environment, keychain, config.yaml, prompt; the prompt offers to save.
ResolveKey(t) ==
  LET n == run[t].name IN
  /\ At(t, "resolve") /\ Go(t, [step |-> "verify"])
  /\ \/ UNCHANGED <<config, keychain>>
     \/ ~Resolvable(n, run[t].env) /\ StoreKey(n)
  /\ UNCHANGED <<current, vault, sshdir, home, taken, cloud, pairs, cosVars>>

Verify(t) ==
  /\ At(t, "verify")
  /\ Go(t, [step |-> IF run[t].fresh THEN "partial" ELSE "interview"])
  /\ UNCHANGED <<filesVars, cosVars>>

SavePartial(t) ==
  /\ At(t, "partial") /\ Go(t, [step |-> "partial key"])
  /\ SaveTo(run[t].name, [Zero EXCEPT !.set = {"region"}])
  /\ UNCHANGED <<current, vault, keychain, sshdir, home, taken, cloud, pairs, cosVars>>

\* persistAPIKey, after the partial save and after the last one.
PersistKey(t) ==
  LET n == run[t].name IN
  /\ \/ At(t, "partial key") /\ Go(t, [step |-> "interview"])
     \/ At(t, "persist") /\ Go(t, [step |-> "select"])
  /\ IF run[t].env \/ n \in keychain THEN UNCHANGED <<config, keychain>> ELSE StoreKey(n)
  /\ UNCHANGED <<current, vault, sshdir, home, taken, cloud, pairs, cosVars>>

\* The step after the jumphosts' key, and after the supply chain.
Storage(t) == IF "bnk" \in run[t].asked THEN "supply" ELSE "overlay"
Proxy(t) == IF "proxy" \in run[t].asked THEN "proxy" ELSE "overlay"

\* The answers: the new configuration is built from nothing.
Interview(t) ==
  /\ At(t, "interview")
  /\ \E asked \in Answers :
       IF "jumphosts" \notin asked
       THEN Go(t, [step |-> IF "bnk" \in asked THEN "supply" ELSE "overlay",
                   asked |-> asked, conf |-> [Zero EXCEPT !.set = Required]])
       ELSE \E k \in KeyNames, rs \in SUBSET Regions \ {{}} :
              Go(t, [step |-> "check", asked |-> asked, key |-> k, todo |-> rs,
                     conf |-> [Zero EXCEPT !.set = Required, !.keys = rs \X {k}]])
  /\ UNCHANGED <<filesVars, cosVars>>

\* Mutation: a key found in one region is taken to be in all of them.
CheckKeyMutated(t) ==
  LET k == run[t].key
      have == {r \in run[t].todo : cloud[r][k] # 0} IN
  /\ At(t, "check")
  /\ Go(t, [step |-> IF have = {} THEN "generate" ELSE Storage(t)])
  /\ UNCHANGED <<filesVars, cosVars>>

\* One question per region; the last key found is the one to replicate.
CheckKey(t) ==
  LET k == run[t].key
      have == {r \in run[t].todo : cloud[r][k] # 0}
      lacking == run[t].todo \ have IN
  /\ At(t, "check")
  /\ IF have = {} THEN Go(t, [step |-> "generate"])
     ELSE \E r \in have :
            Go(t, [step |-> IF lacking = {} THEN Storage(t) ELSE "replicate",
                   todo |-> lacking, pair |-> cloud[r][k]])
  /\ UNCHANGED <<filesVars, cosVars>>

\* The private half replaces one of that name in the workspace's directory.
GenerateKey(t) ==
  /\ At(t, "generate") /\ pairs < MaxPairs
  /\ pairs' = pairs + 1
  /\ sshdir' = [sshdir EXCEPT ![run[t].name][run[t].key] = pairs']
  /\ Go(t, [step |-> "upload", pair |-> pairs'])
  /\ UNCHANGED <<config, current, vault, keychain, home, taken, cloud, cosVars>>

\* Region by region; the service refuses a name it has.
UploadKey(t) ==
  LET k == run[t].key IN
  /\ At(t, "replicate") \/ At(t, "upload")
  /\ \E r \in run[t].todo :
       /\ cloud[r][k] = 0
       /\ cloud' = [cloud EXCEPT ![r][k] = run[t].pair]
       /\ Go(t, [todo |-> run[t].todo \ {r},
                 step |-> IF run[t].todo # {r} THEN run[t].step
                          ELSE IF At(t, "upload") THEN "copy" ELSE Storage(t)])
  /\ UNCHANGED <<config, current, vault, keychain, sshdir, home, taken, pairs, cosVars>>

\* Mutation: recorded whether it was written or was there.
CopyKeyMutated(t) ==
  LET k == run[t].key IN
  /\ At(t, "copy")
  /\ home' \in {home, [home EXCEPT ![k] = IF @ = None THEN run[t].name ELSE @]}
  /\ Go(t, [step |-> Storage(t), conf |-> [run[t].conf EXCEPT !.copied = {k}]])
  /\ UNCHANGED <<config, current, vault, keychain, sshdir, taken, cloud, pairs, cosVars>>

\* Offered; a file that is there is left alone, and only a new one is recorded.
CopyKey(t) ==
  LET k == run[t].key IN
  /\ At(t, "copy")
  /\ \/ home[k] = None /\ home' = [home EXCEPT ![k] = run[t].name]
        /\ Go(t, [step |-> Storage(t), conf |-> [run[t].conf EXCEPT !.copied = {k}]])
     \/ UNCHANGED home /\ Go(t, [step |-> Storage(t)])
  /\ UNCHANGED <<config, current, vault, keychain, sshdir, taken, cloud, pairs, cosVars>>

-----------------------------------------------------------------------------
(* The FAR supply chain, and the key of a proxy appliance.                 *)

Recorded(t, b) == [run[t].conf EXCEPT !.far = [bucket |-> b, region |-> DefaultRegion]]

\* Complete, or not: an error of the storage falls back to local files, and so
\* may what is missing, which may also be provisioned or left.
EnsureSupplyChain(t) ==
  /\ At(t, "supply")
  /\ \/ Complete /\ Go(t, [step |-> Proxy(t), conf |-> Recorded(t, Found)])
     \/ Go(t, [step |-> Proxy(t), conf |-> [run[t].conf EXCEPT !.far.bucket = "local files"]])
     \/ Go(t, [step |-> Proxy(t)])
     \/ ~Complete /\ Go(t, [step |-> IF ~instance THEN "instance"
                                     ELSE IF Found = None THEN "bucket" ELSE "far"])
  /\ UNCHANGED <<filesVars, cosVars>>

\* Mutation: the coordinates are recorded before the second upload.
ProvisionMutated(t) ==
  LET b == Provisioned IN
  /\ \/ At(t, "instance") /\ CreateInstance /\ Go(t, [step |-> "bucket"])
     \/ At(t, "bucket") /\ Go(t, [step |-> "far"])
        /\ IF Ours(b) THEN UNCHANGED cosVars ELSE CreateBucket(b, DefaultRegion)
     \/ At(t, "far") /\ PutObject(b, "far") /\ Go(t, [step |-> "jwt", conf |-> Recorded(t, b)])
     \/ At(t, "jwt") /\ Go(t, [step |-> Proxy(t)])
        /\ (PutObject(b, "jwt") \/ UNCHANGED cosVars)
  /\ UNCHANGED filesVars

Provision(t) ==
  LET b == Provisioned IN
  /\ \/ At(t, "instance") /\ CreateInstance /\ Go(t, [step |-> "bucket"])
     \/ At(t, "bucket") /\ Go(t, [step |-> "far"])
        /\ IF Ours(b) THEN UNCHANGED cosVars ELSE CreateBucket(b, DefaultRegion)
     \/ At(t, "far") /\ PutObject(b, "far") /\ Go(t, [step |-> "jwt"])
     \/ At(t, "jwt") /\ PutObject(b, "jwt") /\ Go(t, [step |-> Proxy(t), conf |-> Recorded(t, b)])
  /\ UNCHANGED filesVars

\* A key that is there is used; a new one goes where the jumphosts' key went.  An
\* error leaves the appliance without, and a copy in ~/.ssh is not recorded.
ProxyKey(t) ==
  LET n == run[t].name IN
  /\ At(t, "proxy")
  /\ UNCHANGED <<config, current, vault, keychain, taken, cosVars>>
  /\ \/ Go(t, [step |-> "overlay"]) /\ UNCHANGED <<sshdir, home, cloud, pairs>>
     \/ \E k \in KeyNames, r \in Regions :
          LET with == Go(t, [step |-> "overlay", conf |-> [run[t].conf EXCEPT !.keys = @ \cup {<<r, k>>}]]) IN
          \/ cloud[r][k] # 0 /\ with /\ UNCHANGED <<sshdir, home, cloud, pairs>>
          \/ /\ cloud[r][k] = 0 /\ pairs < MaxPairs
             /\ pairs' = pairs + 1 /\ sshdir' = [sshdir EXCEPT ![n][k] = pairs']
             /\ \/ Go(t, [step |-> "overlay"]) /\ UNCHANGED <<home, cloud>>
                \/ with /\ cloud' = [cloud EXCEPT ![r][k] = pairs']
                   /\ home' \in {home, [home EXCEPT ![k] = IF @ = None THEN n ELSE @]}

-----------------------------------------------------------------------------
(* The other ways to a configuration, and the last steps of all.           *)

\* What a file or the environment holds goes over what is there, a list over a list.
Given(conf, seed) ==
  LET full == {f \in DOMAIN seed : seed[f] # Zero[f]} IN
  [f \in DOMAIN conf |-> IF f \in full THEN seed[f]
                        ELSE IF f = "given" THEN conf.given \cup full ELSE conf[f]]

\* A file or the environment: complete, or refused before anything is written.
StartSeed(t, n) ==
  /\ \E seed \in Seeds :
       Begin(t, [Idle EXCEPT !.step = "seed", !.name = n,
                             !.conf = Given([Zero EXCEPT !.set = Required], seed)])
  /\ UNCHANGED <<filesVars, cosVars>>

\* --override-from-env, when the interview has looked everything up: the API key of
\* the environment goes into the file with the rest.
Overlay(t) ==
  /\ At(t, "overlay")
  /\ \/ Go(t, [step |-> "save"])
     \/ \E seed \in Seeds :
          /\ seed.b64 = run[t].env
          /\ Go(t, [step |-> "save", conf |-> Given(run[t].conf, seed)])
  /\ UNCHANGED <<filesVars, cosVars>>

StartNew(t, n) ==
  /\ config[n] = None
  /\ Begin(t, [Idle EXCEPT !.step = "new", !.name = n])
  /\ UNCHANGED <<filesVars, cosVars>>

\* state, backend, bnkforge, registry target, targets, hosts, tgw, flp, upgrade-tf:
\* load, change one block, which is none of those above, save.
StartEdit(t, n) ==
  /\ config[n] # None
  /\ Begin(t, [Idle EXCEPT !.step = "edit", !.name = n, !.conf = config[n]])
  /\ UNCHANGED <<filesVars, cosVars>>

SaveWorkspace(t) ==
  /\ run[t].step \in Saving \ {"partial"}
  /\ SaveTo(run[t].name, run[t].conf)
  /\ IF At(t, "edit") THEN Done(t)
     ELSE Go(t, [step |-> IF At(t, "save") THEN "persist" ELSE "select"])
  /\ UNCHANGED <<current, vault, keychain, sshdir, home, taken, cloud, pairs, cosVars>>

\* SetCurrent refuses a workspace that is not there.
SetCurrent(t) ==
  /\ At(t, "select") /\ Done(t)
  /\ current' = IF config[run[t].name] # None THEN run[t].name ELSE current
  /\ UNCHANGED <<config, vault, keychain, sshdir, home, taken, cloud, pairs, cosVars>>

StartUse(t, n) ==
  /\ Begin(t, [Idle EXCEPT !.step = "select", !.name = n])
  /\ UNCHANGED <<filesVars, cosVars>>

StartCos(t) ==
  /\ At(t, "idle") /\ runs < MaxRuns /\ runs' = runs + 1
  /\ \E n \in Names : config[n] # None
  /\ CosVerb
  /\ UNCHANGED <<filesVars, run>>

-----------------------------------------------------------------------------
(* ws delete: what it removes is read before the directory goes.           *)

StartDelete(t, n) ==
  /\ Begin(t, [Idle EXCEPT !.step = "delete", !.name = n,
               !.conf = IF config[n] = None THEN Zero ELSE config[n]])
  /\ UNCHANGED <<filesVars, cosVars>>

DeleteWorkspace(t) ==
  LET n == run[t].name IN
  /\ At(t, "delete") /\ Go(t, [step |-> "forget"])
  /\ SaveTo(n, None)
  /\ sshdir' = [sshdir EXCEPT ![n] = [k \in KeyNames |-> 0]]
  /\ UNCHANGED <<current, vault, keychain, home, taken, cloud, pairs, cosVars>>

\* Mutation: the keychain entry is looked for under the workspace in use.
ForgetKeyMutated(t) ==
  /\ At(t, "forget") /\ Go(t, [step |-> "unlink"])
  /\ keychain' = keychain \ {run[t].was}
  /\ UNCHANGED <<config, current, vault, sshdir, home, taken, cloud, pairs, cosVars>>

\* A keychain that refuses is a warning.
ForgetKey(t) ==
  /\ At(t, "forget")
  /\ \/ keychain' = keychain \ {run[t].name} /\ Go(t, [step |-> "unlink"])
     \/ UNCHANGED keychain /\ Go(t, [step |-> "unlink", held |-> TRUE])
  /\ UNCHANGED <<config, current, vault, sshdir, home, taken, cloud, pairs, cosVars>>

\* By name, each as it can: one that stays is a warning.
RemoveCopies(t) ==
  LET conf == run[t].conf IN
  /\ At(t, "unlink")
  /\ \E kept \in SUBSET conf.copied :
       LET gone == conf.copied \ kept IN
       /\ home' = [k \in KeyNames |-> IF k \in gone THEN None ELSE home[k]]
       /\ taken' = IF "copied" \in conf.given THEN taken \cup gone ELSE taken
       /\ Go(t, [step |-> "repoint", kept |-> kept])
  /\ UNCHANGED <<config, current, vault, keychain, sshdir, cloud, pairs, cosVars>>

\* To a workspace that is left (the first ReadDir lists), if the pointer was on the
\* deleted one.
Repoint(t) ==
  LET left == {n \in Names : config[n] # None} IN
  /\ At(t, "repoint") /\ Done(t)
  /\ IF run[t].was # run[t].name THEN UNCHANGED current
     ELSE current' \in IF left = {} THEN {None} ELSE left
  /\ UNCHANGED <<config, vault, keychain, sshdir, home, taken, cloud, pairs, cosVars>>

-----------------------------------------------------------------------------
Next == \E t \in Terminals :
  \/ \E n \in Names : StartInit(t, n) \/ StartSeed(t, n) \/ StartNew(t, n)
                      \/ StartEdit(t, n) \/ StartUse(t, n) \/ StartDelete(t, n)
  \/ StartCos(t) \/ ResolveKey(t) \/ Verify(t) \/ SavePartial(t) \/ PersistKey(t)
  \/ Interview(t) \/ CheckKey(t) \/ GenerateKey(t) \/ UploadKey(t) \/ CopyKey(t)
  \/ EnsureSupplyChain(t) \/ Provision(t) \/ SaveWorkspace(t) \/ SetCurrent(t)
  \/ ProxyKey(t) \/ Overlay(t)
  \/ DeleteWorkspace(t) \/ ForgetKey(t) \/ RemoveCopies(t) \/ Repoint(t)
  \/ Stop(t)

Spec == Init /\ [][Next]_initVars

-----------------------------------------------------------------------------
(* Properties.                                                             *)

\* No command touches a file of ~/.ssh that is the user's or another workspace's,
\* whatever names they share: ws delete removes what an init of that workspace put
\* there.  Except by a name that ws delete was once given by a file or by the
\* environment, copied_ssh_key_files of another workspace's config.yaml, say: that
\* file is lost to the workspace that made it, and so is the next of that name.
OnlyOwnCopiesGo == [][\A k \in KeyNames : home'[k] # home[k] =>
  \/ \E t \in Terminals : run[t].name = IF home[k] = None THEN home'[k] ELSE home[k]
  \/ home'[k] = None /\ k \in taken']_initVars

\* Every SSH key a configuration names is in the region terraform looks it up in:
\* it was uploaded, or replicated, before the configuration was saved.  A name from
\* a file or the environment is saved without a look.
KeysInCloud == \A n \in Names : config[n] # None /\ "keys" \notin config[n].given =>
  \A key \in config[n].keys : cloud[key[1]][key[2]] # 0

\* Storage coordinates that init finds or makes are written down only when the
\* bucket holds both artefacts; given ones are not looked at.
CoordsComplete == [][\A n \in Names :
  (config'[n] # None /\ config'[n].far.bucket \in Buckets /\ "far" \notin config'[n].given
     /\ (config[n] = None \/ config[n].far # config'[n].far))
  => buckets[config'[n].far.bucket].objects = Artefacts]_initVars

\* A ws delete that runs to its end leaves no configuration, no private key in the
\* workspace directory, and the pointer elsewhere; and no key in the keychain and
\* no recorded file in ~/.ssh but those it has warned of.
DeletedIsGone == [][\A t \in Terminals :
  Repoint(t) =>
    LET n == run[t].name IN
    /\ config[n] = None /\ current' # n
    /\ \A k \in KeyNames : sshdir[n][k] = 0
    /\ n \in keychain => run[t].held
    /\ \A k \in run[t].conf.copied : home[k] = None \/ k \in run[t].kept]_initVars
=============================================================================
