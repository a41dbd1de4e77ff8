----------------------------- MODULE Rendering -----------------------------
(***************************************************************************)
(* What a workspace tells terraform: the variables that WriteTFVars        *)
(* renders from the config.yaml of Settings.  Most are left out when they  *)
(* are not set, and terraform's own default stands for them then; so what  *)
(* is asked for comes about only if what is left out and what is the       *)
(* default agree.                                                          *)
(*                                                                         *)
(* A name is a tuple: <<prefix, suffix>> of what the workspace makes, <<x>>*)
(* of what was there before.                                               *)
(***************************************************************************)
EXTENDS Settings

Get(ws, block, field) == ws.at[<<block, field>>]
Is(ws, block, field)  == Get(ws, block, field) = "true"

\* The first part that says a variable is the one that counts.
Merge(parts) ==
  [name \in UNION {DOMAIN parts[i] : i \in DOMAIN parts} |->
     parts[Min({i \in DOMAIN parts : name \in DOMAIN parts[i]})][name]]
Assign(name, v) == [n \in {name} |-> v]

\* Emitted only when set.
Emit(name, v)     == IF v = None THEN <<>> ELSE Assign(name, v)
EmitName(name, v) == IF v = None THEN <<>> ELSE Assign(name, <<v>>)

\* naming.Derive
Derive(prefix) == [
  cluster |-> <<prefix, "">>, cluster_vpc |-> <<prefix, "-cluster-vpc">>,
  registry_cos |-> <<prefix, "-registry-cos">>, transit_gateway |-> <<prefix, "-tgw">>,
  client_vpc |-> <<prefix, "-client-vpc">>, tgw_jumphost |-> <<prefix, "-jh-tgw">>]

\* Two contradictions are refused before a byte is written.
Refused(ws) ==
  \/ Is(ws, "flp", "vsi_create_vpc") /\ Get(ws, "flp", "vsi_vpc") # None
  \/ Get(ws, "cluster", "existing_subnet_ids") # None
     /\ (Get(ws, "cluster_vpc", "create") # "false" \/ Get(ws, "cluster_vpc", "existing") = None)

-----------------------------------------------------------------------------
(* renderFullBody.                                                         *)

\* renderClusterSizing is called for a cluster that is made.
ToldSizing(ws) == Emit("cluster_public_gateway", Get(ws, "cluster", "public_gateway"))

ToldCluster(ws, plan) == Merge(<<
  Emit("create_roks_cluster", Get(ws, "cluster", "create")),
  IF Is(ws, "cluster", "create")
  THEN Merge(<<Assign("openshift_cluster_name", plan.cluster), ToldSizing(ws)>>)
  ELSE EmitName("roks_cluster_id_or_name", Get(ws, "cluster", "name"))>>)

\* The VPC has no toggle for terraform: it is there unless another is adopted.
ToldNetwork(ws, plan) == Merge(<<
  Assign("roks_cluster_vpc_name", plan.cluster_vpc),
  IF Get(ws, "cluster_vpc", "create") = "false" /\ Get(ws, "cluster_vpc", "existing") # None
  THEN Merge(<<Assign("use_existing_cluster_vpc", "true"),
               Assign("existing_cluster_vpc_id", <<Get(ws, "cluster_vpc", "existing")>>)>>)
  ELSE <<>>,
  IF Get(ws, "cluster", "existing_subnet_ids") # None
  THEN Merge(<<Assign("use_existing_cluster_subnets", "true"),
               Assign("existing_cluster_subnet_ids", Get(ws, "cluster", "existing_subnet_ids"))>>)
  ELSE <<>>>>)

Variables == [registry_cos    |-> <<"create_roks_registry_cos_instance", "roks_cos_instance_name">>,
              transit_gateway |-> <<"create_roks_transit_gateway", "roks_transit_gateway_name">>,
              client_vpc      |-> <<"testing_create_client_vpc", "testing_client_vpc_name">>]

\* A client VPC may be given a name, which wins over the one of the prefix.
NameFor(ws, plan, kind) ==
  IF kind = "client_vpc" /\ Get(ws, kind, "name") # None THEN <<Get(ws, kind, "name")>> ELSE plan[kind]

\* Mutation: the name of an adopted resource is not rendered.
ToldResourceMutated(ws, plan, kind) == Merge(<<
  Emit(Variables[kind][1], Get(ws, kind, "create")),
  IF Is(ws, kind, "create") THEN Assign(Variables[kind][2], NameFor(ws, plan, kind)) ELSE <<>>>>)

\* One name carries what is made, or what is looked up.
ToldResource(ws, plan, kind) == Merge(<<
  Emit(Variables[kind][1], Get(ws, kind, "create")),
  IF Is(ws, kind, "create") THEN Assign(Variables[kind][2], NameFor(ws, plan, kind))
  ELSE EmitName(Variables[kind][2], Get(ws, kind, "existing"))>>)

ToldJumphost(ws, plan) == Merge(<<
  Emit("testing_create_tgw_jumphost", Get(ws, "tgw_jumphost", "create")),
  IF Is(ws, "tgw_jumphost", "create")
  THEN Assign("testing_tgw_jumphost_name", plan.tgw_jumphost) ELSE <<>>>>)

-----------------------------------------------------------------------------
(* renderBNKFields and renderGatewayFields.                                *)

ToldGateway(ws) == Emit("gateway_backend_port", Get(ws, "gateway", "backend_port"))
ToldCOS(ws)     == Emit("ibmcloud_resources_cos_bucket", Get(ws, "cos", "bucket"))
ToldLicense(ws) == Emit("license_mode", Get(ws, "bnk", "license_mode"))

\* Nothing of the proxy without its block, and no VPC of its own unless asked for.
ToldProxy(ws) ==
  IF Get(ws, "bnk", "flp") = None THEN <<>>
  ELSE Merge(<<
    Emit("flp_namespace", Get(ws, "flp", "namespace")),
    IF Is(ws, "flp", "vsi_create_vpc") THEN Assign("flp_vsi_create_vpc", "true") ELSE <<>>>>)

ToldZones(ws) == IF ws.zones = <<>> THEN <<>> ELSE Assign("cneinstance_network_zones", ws.zones)

\* The parts of the file, in their order.
Parts(ws, plan) == <<
  ToldCluster(ws, plan), ToldNetwork(ws, plan), ToldResource(ws, plan, "registry_cos"),
  ToldResource(ws, plan, "transit_gateway"), ToldResource(ws, plan, "client_vpc"),
  ToldJumphost(ws, plan), ToldCOS(ws), ToldLicense(ws), ToldProxy(ws), ToldZones(ws),
  ToldGateway(ws) >>

RenderTFVars(ws) == Merge(Parts(Resources(ws), Derive(Get(ws, "top", "prefix"))))

-----------------------------------------------------------------------------
(* What terraform makes of it.                                             *)

\* The defaults of the root module.
RootDefaults == [
  cluster_absent |-> "false",
  create_roks_cluster |-> "true", openshift_cluster_name |-> <<"tf-openshift-cluster">>,
  roks_cluster_id_or_name |-> None, cluster_public_gateway |-> "true",
  use_existing_cluster_vpc |-> "false", existing_cluster_vpc_id |-> None,
  use_existing_cluster_subnets |-> "false", existing_cluster_subnet_ids |-> None,
  create_roks_registry_cos_instance |-> "true", roks_cos_instance_name |-> <<"tf-openshift-cos-instance">>,
  create_roks_transit_gateway |-> "true", roks_transit_gateway_name |-> <<"tf-tgw">>,
  testing_create_client_vpc |-> "false", testing_client_vpc_name |-> <<"tf-testing-vpc">>,
  testing_create_tgw_jumphost |-> "true", flp_vsi_create_vpc |-> "false"]

\* A variable that is not told is at its default.
Planned(told) == Merge(<<told, RootDefaults>>)

\* A toggle is not all of it: a registry's instance is made, and looked up, for a
\* cluster that is made, a client VPC for a jumphost; and the jumphost is what a
\* gateway that is not made is looked up for.
MadeFor(v, kind) ==
  /\ kind = "registry_cos" => v.create_roks_cluster = "true"
  /\ kind = "client_vpc"   => v.testing_create_tgw_jumphost = "true"
LookedUpFor(v, kind) ==
  MadeFor(v, kind) /\ (kind = "transit_gateway" => v.testing_create_tgw_jumphost = "true")

\* The names of what a plan of these variables makes, kind by kind, and of what it
\* only looks up.
Makes(told) ==
  LET v == Planned(told) IN
  Merge(<<
    [cluster |-> IF v.create_roks_cluster = "true" THEN v.openshift_cluster_name ELSE None,
     cluster_vpc |-> IF v.use_existing_cluster_vpc = "true" \/ v.cluster_absent = "true" THEN None
                     ELSE v.roks_cluster_vpc_name],
    [kind \in DOMAIN Variables |-> IF v[Variables[kind][1]] = "true" /\ MadeFor(v, kind)
                                  THEN v[Variables[kind][2]] ELSE None]>>)

LooksUp(told) ==
  LET v == Planned(told) IN
  Merge(<<
    [cluster |-> IF v.create_roks_cluster = "true" \/ v.cluster_absent = "true" THEN None
                 ELSE v.roks_cluster_id_or_name,
     cluster_vpc |-> IF v.use_existing_cluster_vpc = "true" THEN v.existing_cluster_vpc_id ELSE None],
    [kind \in DOMAIN Variables |-> IF v[Variables[kind][1]] # "true" /\ LookedUpFor(v, kind)
                                  THEN v[Variables[kind][2]] ELSE None]>>)

Made == {"cluster", "cluster_vpc"} \cup DOMAIN Variables
Existing(kind) == IF kind = "cluster" THEN <<kind, "name">> ELSE <<kind, "existing">>

\* From the command line to the plan: what was asked for is made under a name of the
\* workspace's prefix, or the one that was given, but for a registry beside a cluster
\* that is not made and a client VPC without a jumphost, which are left out; what was
\* asked to be adopted is looked up under its own name by what is made to use it, and
\* is not made; and nothing else is made but the VPC, which has no toggle.  A private
\* cluster, adopted subnets, zones and the settings of the pods arrive as they were
\* asked for.  (The two contradictions are refused.)
ToldAsAsked ==
  /\ SavedAsAsked
  /\ saved # None /\ ~Refused(saved) =>
     LET told  == RenderTFVars(saved)
         makes == Makes(told)
         looks == LooksUp(told)
         want(kind) == wanted.at[<<kind, "create">>]
         theirs(kind) == wanted.at[Existing(kind)]
         named == wanted.at[<<"client_vpc", "name">>]
         name(kind) == IF kind = "client_vpc" /\ named # None THEN <<named>>
                       ELSE Derive(wanted.at[<<"top", "prefix">>])[kind]
         home(kind) == /\ kind = "registry_cos" => want("cluster") = "true"
                       /\ kind = "client_vpc"   => want("tgw_jumphost") = "true"
         used(kind) == home(kind) /\ (kind = "transit_gateway" => want("tgw_jumphost") = "true") IN
     /\ \A kind \in Made :
          /\ want(kind) = "true" /\ home(kind) => makes[kind] = name(kind)
          /\ want(kind) = "false" /\ theirs(kind) # None /\ used(kind) => looks[kind] = <<theirs(kind)>>
          /\ \/ want(kind) = "false" /\ (kind # "cluster_vpc" \/ theirs(kind) # None)
             \/ ~home(kind)
             => makes[kind] = None
     /\ makes["cluster"] # None /\ wanted.at[<<"cluster", "public_gateway">>] = "false"
          => Planned(told).cluster_public_gateway = "false"
     /\ wanted.at[<<"cluster", "existing_subnet_ids">>] # None
          => looks["cluster_vpc"] = <<theirs("cluster_vpc")>>
             /\ Planned(told).use_existing_cluster_subnets = "true"
     /\ wanted.at[<<"flp", "vsi_vpc">>] # None => Planned(told).flp_vsi_create_vpc = "false"
     /\ wanted.zones # <<>> => told["cneinstance_network_zones"] = wanted.zones
     /\ \A row \in {<<"gateway", "backend_port", "gateway_backend_port">>,
                    <<"bnk", "license_mode", "license_mode">>,
                    <<"cos", "bucket", "ibmcloud_resources_cos_bucket">>,
                    <<"flp", "namespace", "flp_namespace">>} :
          wanted.at[<<row[1], row[2]>>] # None => told[row[3]] = wanted.at[<<row[1], row[2]>>]
=============================================================================
