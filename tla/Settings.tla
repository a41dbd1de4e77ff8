------------------------------ MODULE Settings ------------------------------
(***************************************************************************)
(* What a workspace is told, in its two forms: a config.yaml, and the      *)
(* ROKSBNKCTL_* variables that override it.  `config yaml` and `config     *)
(* env` turn one into the other, `init` makes a workspace of either.       *)
(*                                                                         *)
(* The override table has two hundred rows of a few shapes; here it has a  *)
(* row or two of every shape that is treated in a way of its own.  A value *)
(* is what the YAML of it reads, so "false" and what is not there differ.  *)
(***************************************************************************)
EXTENDS SequencesExt

CONSTANTS
  None,      \* what is not there
  Inputs,    \* config.yaml files, each with an environment `init` may find
  MaxHops    \* bound: conversions before the init

VARIABLES
  doc,     \* the document at hand: its form, and a tree or the variables; or Served
  overlay, \* the ROKSBNKCTL_* variables of the operator's shell
  hops,    \* conversions made
  wanted,  \* what the file first written and the environment ask for
  saved    \* the config.yaml of the workspace, or None

settingsVars == <<doc, overlay, hops, wanted, saved>>

-----------------------------------------------------------------------------
(* Trees and environments.                                                 *)

Toggles == {"transit_gateway", "registry_cos", "cluster_vpc", "client_vpc", "tgw_jumphost"}

\* In the order OverrideFromEnv goes through them; of the two API keys the encoded
\* one wins.  "top" is the top level of the file; the name of a client VPC is kept
\* beside its toggle, as resources.testing_client_vpc_name.
Row(env, block, field, shape) == [env |-> env, path |-> <<block, field>>, shape |-> shape]
Overrides == <<
  Row("IBMCLOUD_API_KEY", "ibmcloud", "api_key_b64", "text"),
  Row("API_KEY_B64", "ibmcloud", "api_key_b64", "text"),
  Row("PREFIX", "top", "prefix", "text"),
  Row("CLUSTER_NAME", "cluster", "name", "text"),
  Row("REGISTRY_COS_EXISTING", "registry_cos", "existing", "text"),
  Row("CLUSTER_CREATE", "cluster", "create", "bool"),
  Row("REGISTRY_COS_CREATE", "registry_cos", "create", "bool"),
  Row("CLUSTER_PUBLIC_GATEWAY", "cluster", "public_gateway", "bool"),
  Row("EXISTING_SUBNET_IDS", "cluster", "existing_subnet_ids", "list"),
  Row("TRANSIT_GATEWAY_NAME", "transit_gateway", "existing", "adopt"),
  Row("CLUSTER_VPC_ID", "cluster_vpc", "existing", "adopt"),
  Row("TGW_JUMPHOST_CREATE", "tgw_jumphost", "create", "bool"),
  Row("CLIENT_VPC_CREATE", "client_vpc", "create", "bool"),
  Row("CLIENT_VPC_NAME", "client_vpc", "existing", "text"),
  Row("TESTING_VPC_NAME", "client_vpc", "name", "text"),
  Row("LICENSE_MODE", "bnk", "license_mode", "text"),
  Row("CLUSTER_VPC_CREATE", "cluster_vpc", "create", "bool"),
  Row("TRANSIT_GATEWAY_CREATE", "transit_gateway", "create", "bool"),
  Row("GATEWAY_BACKEND_PORT", "gateway", "backend_port", "int"),
  Row("REACHABILITY_RETRY_SECONDS", "bnk", "reachability_retry_seconds", "pointer"),
  Row("FLP_NAMESPACE", "flp", "namespace", "text"),
  Row("FLP_VSI_VPC", "flp", "vsi_vpc", "text"),
  Row("FLP_VSI_CREATE_VPC", "flp", "vsi_create_vpc", "flag"),
  Row("COS_BUCKET", "cos", "bucket", "text") >>

Rows  == ToSet(Overrides)
Names == {r.env : r \in Rows}
Proxy == <<"bnk", "flp">>             \* a block, present or not
State == <<"state", "backend">>       \* no variable sets it
Leaves == {r.path : r \in Rows} \cup {<<t, "create">> : t \in Toggles} \cup {State}
Paths == Leaves \cup {Proxy}

Zones  == 1..2                        \* the code has three, of six fields
Fields == {"external", "internal"}

Tree(at, zones) == [at |-> [p \in Paths |-> IF p \in DOMAIN at THEN at[p] ELSE None],
                    zones |-> zones]
NoEnv == [vars |-> [n \in Names |-> None],
          zones |-> [z \in Zones |-> [f \in Fields |-> None]]]

\* The zero Workspace: the one field that is written though nobody set it.
Empty == Tree([p \in {<<"cluster", "create">>} |-> "false"], <<>>)

HasResources(ws) == \E t \in Toggles : ws.at[<<t, "create">>] # None
Created == {<<t, "create">> : t \in Toggles}
Default(p) == IF p[1] \in {"tgw_jumphost", "client_vpc"} THEN "false" ELSE "true"

\* Mutation: a new block starts from nothing.
ResourcesMutated(ws) ==
  IF HasResources(ws) THEN ws
  ELSE [ws EXCEPT !.at = [p \in Paths |-> IF p \in Created THEN "false" ELSE @[p]]]

\* resourcesCfg: a new block starts from the defaults.
Resources(ws) ==
  IF HasResources(ws) THEN ws
  ELSE [ws EXCEPT !.at = [p \in Paths |-> IF p \in Created THEN Default(p) ELSE @[p]]]

-----------------------------------------------------------------------------
(* The overrides.                                                          *)

Numerals == {"0", "97", "98"}
\* A value the parser of its row rejects is ignored, not stored as a zero.
Accepts(shape, v) ==
  CASE shape \in {"bool", "flag"} -> v \in {"true", "false"}
    [] shape \in {"int", "pointer"} -> v \in Numerals
    [] OTHER -> v # ","

\* An int of 0 and a flag of false are not written, a pointer to one is.
Stored(row, v) == IF <<row.shape, v>> \in {<<"int", "0">>, <<"flag", "false">>} THEN None ELSE v

\* The license proxy's mode, and every setting of the proxy, open its block.
OpensProxy(row, v) == row.path[1] = "flp" \/ (row.env = "LICENSE_MODE" /\ v = "f5licenseproxy")

Put(ws, row, v) ==
  LET base == IF row.path[1] \in Toggles THEN Resources(ws) ELSE ws
      set  == [base EXCEPT !.at[row.path] = Stored(row, v)] IN
  CASE row.shape = "adopt" -> [set EXCEPT !.at[<<row.path[1], "create">>] = "false"]
    [] OpensProxy(row, v) -> [set EXCEPT !.at[Proxy] = "present"]
    [] OTHER -> set

Given(env, row) == env.vars[row.env] # None /\ Accepts(row.shape, env.vars[row.env])

\* A zone with a field missing is skipped, and the next one takes its place.
WholeZones(env) == {z \in Zones : \A f \in Fields : env.zones[z][f] # None}
Whole(env) == [i \in 1..Cardinality(WholeZones(env)) |->
  env.zones[CHOOSE z \in WholeZones(env) : Cardinality(WholeZones(env) \cap 1..z) = i]]

\* Row after row, each over what the rows before it have left.
Overridden(ws, env) ==
  LET over[i \in 0..Len(Overrides)] ==
        IF i = 0 THEN ws
        ELSE IF Given(env, Overrides[i])
        THEN Put(over[i - 1], Overrides[i], env.vars[Overrides[i].env])
        ELSE over[i - 1]
  IN over

OverrideFromEnv(ws, env) ==
  LET done == Overridden(ws, env)[Len(Overrides)] IN
  IF Whole(env) = <<>> THEN done ELSE [done EXCEPT !.zones = Whole(env)]

-----------------------------------------------------------------------------
(* Which path a variable writes is found out by trying it on an empty      *)
(* workspace, twice: what moves with the value is the path.                *)

Pairs == <<<<"a", "b">>, <<"true", "false">>, <<"97", "98">>>>
Try(n, v) == OverrideFromEnv(Empty, [NoEnv EXCEPT !.vars[n] = v]).at

\* What either value sets, and what the two set to different values.
Moved(n, pair)   == {p \in Leaves : \E i \in 1..2 : Try(n, pair[i])[p] # Empty.at[p]}
Differs(n, pair) == {p \in Leaves : Try(n, pair[1])[p] # Try(n, pair[2])[p]}

\* Mutation: one try, and the paths that read as the value do.
PathOfMutated(n) ==
  LET changed(pair) == {p \in Leaves : Try(n, pair[1])[p] # Empty.at[p] /\ Try(n, pair[1])[p] = pair[1]}
      tries == SelectSeq(Pairs, LAMBDA pair : changed(pair) # {}) IN
  IF tries = <<>> THEN {} ELSE changed(tries[1])

\* probePath: the paths, and only a single one is of use.
PathOf(n) ==
  LET hits == {k \in DOMAIN Pairs : Moved(n, Pairs[k]) # {}}
      pair == Pairs[Min(hits)] IN
  IF hits = {} THEN {}
  ELSE IF Cardinality(Differs(n, pair)) = 1 THEN Differs(n, pair) ELSE Moved(n, pair)

OverridePaths == [n \in Names |-> PathOf(n)]

\* zoneFamilyPaths: all zones are tried at once, each with values of its own.
ZonePaths ==
  LET mark == <<"a", "b">>
      got  == OverrideFromEnv(Empty, [NoEnv EXCEPT !.zones =
                [z \in Zones |-> [f \in Fields |-> mark[z]]]]).zones IN
  [z \in Zones |-> CHOOSE i \in DOMAIN got : got[i]["external"] = mark[z]]

-----------------------------------------------------------------------------
(* Conversion.                                                             *)

Secret(p) == p[2] = "api_key_b64"

\* What YAML reads into: a block that is mentioned exists, its other fields as they
\* were, or zero when it is new.
Decode(base, file) ==
  LET block == IF HasResources(file) /\ ~HasResources(base)
               THEN [base EXCEPT !.at = [p \in Paths |-> IF p \in Created THEN "false" ELSE @[p]]]
               ELSE base IN
  [at |-> [p \in Paths |-> IF file.at[p] # None THEN file.at[p] ELSE block.at[p]],
   zones |-> IF file.zones # <<>> THEN file.zones ELSE block.zones]

\* envLinesFor: nothing that an empty workspace has too, and no secret.
EnvLines(ws) ==
  [vars |-> [n \in Names |->
     LET ps == OverridePaths[n]
         p  == CHOOSE q \in ps : TRUE IN
     IF Cardinality(ps) # 1 THEN None
     ELSE IF Secret(p) \/ ws.at[p] = Empty.at[p] THEN None ELSE ws.at[p]],
   zones |-> [z \in Zones |-> [f \in Fields |->
     IF ZonePaths[z] \in DOMAIN ws.zones THEN ws.zones[ZonePaths[z]][f] ELSE None]]]

LoadConfigSource == IF doc.form = "yaml" THEN Decode(Empty, doc.tree) ELSE OverrideFromEnv(Empty, doc.env)

Yaml(ws)   == [form |-> "yaml", tree |-> ws]
DotEnv(env) == [form |-> "env", env |-> env]
Served      == [form |-> "served"]

-----------------------------------------------------------------------------
(* What is asked for, path by path: the last variable that says so, the    *)
(* file, the default.                                                      *)

Says(env, p) == {i \in DOMAIN Overrides : Overrides[i].path = p /\ Given(env, Overrides[i])}
Adopts(env, p) == p[2] = "create" /\ \E row \in Rows :
  row.shape = "adopt" /\ row.path[1] = p[1] /\ Given(env, row)

Asked(file, env) ==
  [at |-> [p \in Paths |->
     CASE Says(env, p) # {} ->
            LET row == Overrides[Max(Says(env, p))] IN
            IF row.shape \in {"int", "flag"} /\ env.vars[row.env] \in {"0", "false"} THEN None
            ELSE env.vars[row.env]
       [] Says(env, p) = {} /\ Adopts(env, p) -> "false"
       [] p = Proxy /\ (\/ env.vars["LICENSE_MODE"] = "f5licenseproxy"
                        \/ \E row \in Rows : row.path[1] = "flp" /\ Given(env, row)) -> "present"
       [] OTHER -> IF file.at[p] # None THEN file.at[p]
                   ELSE IF p \in Created THEN Default(p) ELSE Empty.at[p]],
   zones |-> IF Whole(env) # <<>> THEN Whole(env) ELSE file.zones]

-----------------------------------------------------------------------------
(* The commands.                                                           *)

\* A config.yaml as the tool writes one: the toggles are all there or none is, with
\* what they adopt; a setting of the license proxy is in its block; a value is one
\* that its row stores; a zone has all its fields.
TogglesTogether(file) == HasResources(file) => \A p \in Created : file.at[p] # None
InBlocks(file) == \A row \in Rows : file.at[row.path] # None =>
  /\ row.shape = "adopt" => HasResources(file)
  /\ row.path[1] = "flp" => file.at[Proxy] # None
Storable(file) == \A row \in Rows : file.at[row.path] # None /\ ~Secret(row.path) =>
  Accepts(row.shape, file.at[row.path]) /\ Stored(row, file.at[row.path]) = file.at[row.path]
AllFields(zones) ==
  /\ \E n \in 0..Cardinality(Zones) : zones = [z \in 1..n |-> [f \in Fields |-> zones[z][f]]]
  /\ \A z \in DOMAIN zones, f \in Fields : zones[z][f] # None
WellWritten(file) ==
  TogglesTogether(file) /\ InBlocks(file) /\ Storable(file) /\ AllFields(file.zones)

ASSUME InputsAssumption == \A input \in Inputs : WellWritten(input.file)
\* What is absent is none of the values the code tells apart.
ASSUME AbsentAssumption ==
  None \notin {"a", "b", "true", "false", "present", "f5licenseproxy"} \cup Numerals

SettingsInit ==
  /\ \E input \in Inputs :
       doc = Yaml(input.file) /\ overlay = input.env /\ wanted = Asked(input.file, NoEnv)
  /\ hops = 0 /\ saved = None

\* `config yaml` and `config env`, from a file of either form.
Convert ==
  /\ doc # Served /\ hops < MaxHops /\ hops' = hops + 1
  /\ doc' \in {Yaml(LoadConfigSource), DotEnv(EnvLines(LoadConfigSource))}
  /\ UNCHANGED <<overlay, wanted, saved>>

\* The prefix stands for the fields without which there is no workspace; a jumphost
\* needs a client VPC to live in.
Usable(ws) ==
  /\ ws.at[<<"top", "prefix">>] # None
  /\ ws.at[<<"tgw_jumphost", "create">>] = "true" =>
       (ws.at[<<"client_vpc", "create">>] = "true" \/ ws.at[<<"client_vpc", "existing">>] # None)

\* The file has served then, nothing reads it again.
Save(ws) == Usable(ws) /\ saved' = ws /\ doc' = Served /\ UNCHANGED <<overlay, hops>>

\* --config-file, with --override-from-env or without: the defaults come first.
InitFromConfigFile ==
  /\ doc.form = "yaml"
  /\ \E env \in {overlay, NoEnv} :
       /\ Save(OverrideFromEnv(Decode(Resources(Empty), doc.tree), env))
       /\ wanted' = Asked(wanted, env)

\* --non-interactive.
InitFromEnv ==
  /\ doc.form = "env"
  /\ Save(OverrideFromEnv(Resources(Empty), doc.env))
  /\ UNCHANGED wanted

SettingsNext == Convert \/ InitFromConfigFile \/ InitFromEnv

-----------------------------------------------------------------------------
(* Properties.                                                             *)

\* A path with a variable that is not a secret comes through every conversion.
Carried == {r.path : r \in Rows} \ {p \in Paths : Secret(p)}

\* However a configuration came to be a workspace, as the file, through the variables
\* and back, with variables on top, the workspace says what was asked for: an
\* override lands on its own path and moves no other, an adopted resource stays
\* adopted, no zone is dropped or moved.
SavedAsAsked == saved # None =>
  /\ \A p \in IF hops = 0 THEN Paths ELSE Carried : saved.at[p] = wanted.at[p]
  /\ saved.zones = wanted.zones
=============================================================================
