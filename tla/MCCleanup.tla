----------------------------- MODULE MCCleanup -----------------------------
(* Two families of inputs: files with every kind of setting and one or two   *)
(* variables over them, for the conversions; and files that adopt something, *)
(* of the workspace whose account is swept.                                  *)
EXTENDS Cleanup, Rendering

\* The block of resources as the tool writes it: all toggles, or none.
Block(tgw, cos, vpc) ==
  LET create(name) == IF name = None THEN "true" ELSE "false" IN
  [p \in Created |->
     CASE p[1] = "transit_gateway" -> create(tgw)
       [] p[1] = "registry_cos" -> create(cos)
       [] p[1] = "cluster_vpc" -> create(vpc)
       [] OTHER -> "false"]
  @@ (<<"transit_gateway", "existing">> :> tgw)
  @@ (<<"registry_cos", "existing">> :> cos)
  @@ (<<"cluster_vpc", "existing">> :> vpc)

Rest == {<<>>,
  (<<"cluster", "public_gateway">> :> "false")
    @@ (<<"bnk", "reachability_retry_seconds">> :> "0")
    @@ (<<"ibmcloud", "api_key_b64">> :> "a"),
  (<<"cluster", "create">> :> "true") @@ (<<"cluster", "name">> :> "a")
    @@ (<<"gateway", "backend_port">> :> "97")
    @@ (<<"bnk", "license_mode">> :> "f5licenseproxy") @@ (State :> "s3")
    @@ (Proxy :> "present") @@ (<<"flp", "vsi_vpc">> :> "a") @@ (<<"cos", "bucket">> :> "a")}
Zone(x) == [f \in Fields |-> x]
TwoZones == <<Zone("a"), Zone("b")>>
Written(prefix, rest, block, zones) == Tree((<<"top", "prefix">> :> prefix) @@ rest @@ block, zones)

\* A jumphost in a client VPC that is made, under a name of its own.
Testing == (<<"tgw_jumphost", "create">> :> "true") @@ (<<"client_vpc", "create">> :> "true")
           @@ (<<"client_vpc", "name">> :> "b")

Settable == {Written("a", rest, block, zones) :
  rest \in Rest, zones \in {<<>>, TwoZones},
  block \in {<<>>, Block(None, None, None), Testing @@ Block("a", None, None), Block("a", "a", "a")}}
Set(n, v) == [NoEnv EXCEPT !.vars[n] = v]
CreateNames == {row.env : row \in {r \in Rows : r.path[2] = "create"}}
Environments ==
  {Set(n, v) : n \in Names, v \in {"a", "true", "false", "0", "97", ","}}
  \cup {[Set(n, "a") EXCEPT !.vars[m] = "true"] : n \in Names, m \in CreateNames}
  \cup {[Set("TESTING_VPC_NAME", v) EXCEPT !.vars["TGW_JUMPHOST_CREATE"] = "true",
                                            !.vars["CLIENT_VPC_CREATE"] = "true"] : v \in {None, "a"}}
  \cup {Set("LICENSE_MODE", "f5licenseproxy"), [NoEnv EXCEPT !.zones[2] = Zone("a")],
        [NoEnv EXCEPT !.zones[1] = Zone("a"), !.zones[2]["external"] = "b"]}

Name == [k \in Kinds |-> IF k = "cluster" THEN "p" ELSE k]
OwnCluster == (<<"cluster", "create">> :> "true") @@ (<<"cluster", "name">> :> "p")
TheirCluster == (<<"cluster", "create">> :> "false") @@ (<<"cluster", "name">> :> "p")
Adopting == {
  [file |-> Written("p", OwnCluster, <<>>, <<>>), env |-> Set("TRANSIT_GATEWAY_NAME", "transit_gateway")],
  [file |-> Written("p", OwnCluster, Block(None, "cos_instance", None), <<>>), env |-> NoEnv],
  [file |-> Written("p", TheirCluster, Block(None, None, "vpc"), <<>>), env |-> Set("REGISTRY_COS_CREATE", "false")]}

AllInputs == [file : Settable, env : Environments] \cup Adopting
=============================================================================
