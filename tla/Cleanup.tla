------------------------------ MODULE Cleanup ------------------------------
(***************************************************************************)
(* `cleanup`: the sweep of the account for what is named from the          *)
(* workspace's prefix, after a `down` that failed.  It goes by names, not  *)
(* by terraform state, so what it spares is what the config.yaml of        *)
(* Settings says is adopted; and it deletes a Transit Gateway, which has   *)
(* to be emptied first of connections that others make and IBM Cloud       *)
(* completes in its own time.                                              *)
(***************************************************************************)
EXTENDS Settings

CONSTANTS
  Prefix,     \* what the resources in the account are named from
  Resource,   \* kind -> the name or id a config.yaml may adopt it by
  MaxSweeps   \* bound: sweeps

ASSUME NoneAssumption ==
  None \notin {"pending", "attached", "failed", "detaching", "deleting"}

VARIABLES
  cloud,   \* kind -> "there", "going" (a delete that takes its time), "gone"
  conns,   \* network -> the status of its connection to the gateway, or None
  sweep    \* the sweep that runs, or what the last one came to

cleanupVars == <<cloud, conns, sweep>>
vars == <<settingsVars, cleanupVars>>

\* One of each kind that is treated in a way of its own; the other kinds are deleted
\* as the COS instance is.
Kinds == {"cluster", "transit_gateway", "vpc", "cos_instance"}
\* "own" connects the VPC above, "foreign" a network that is not of this prefix.
Nets  == {"own", "foreign"}

-----------------------------------------------------------------------------
(* What is spared.                                                         *)

AdoptKeys(kind) ==
  CASE kind = "cluster"         -> [create |-> <<"cluster", "create">>, value |-> <<"cluster", "name">>]
    [] kind = "transit_gateway" -> [create |-> <<"transit_gateway", "create">>, value |-> <<"transit_gateway", "existing">>]
    [] kind = "cos_instance"    -> [create |-> <<"registry_cos", "create">>, value |-> <<"registry_cos", "existing">>]
    [] kind = "vpc"             -> [create |-> <<"cluster_vpc", "create">>, value |-> <<"cluster_vpc", "existing">>]

Spared(ws, kind) == LET key == AdoptKeys(kind) IN
  ws.at[key.create] = "false" /\ ws.at[key.value] = Resource[kind]

\* Mutation: the toggles of the resources only, the cluster has none.
AdoptedMutated(ws, kinds) == {k \in kinds \ {"cluster"} : Spared(ws, k)}

\* adoptedRefs
Adopted(ws, kinds) == {k \in kinds : Spared(ws, k)}

Active == sweep.found \ Adopted(saved, sweep.found)

-----------------------------------------------------------------------------
(* Connections.                                                            *)

Arriving(status)  == status = "pending"
Departing(status) == status \in {"deleting", "detaching"}
Listed(list)      == {n \in Nets : list[n] # None}
InFlight(list)    == {n \in Listed(list) : Arriving(list[n]) \/ Departing(list[n])}

\* Mutation: a VPC that was found is taken for one that will be deleted.
OursMutated(n) == n = "own" /\ "vpc" \in sweep.found

\* sweptVPCCRNs
Ours(n) == n = "own" /\ "vpc" \in Active

\* partitionTGWConnections
Foreign(list)  == {n \in Listed(list) : ~Departing(list[n]) /\ ~Ours(n)}
Settling(list) == InFlight(list) \ Foreign(list)
Detach(list)   == Listed(list) \ (Foreign(list) \cup Settling(list))

-----------------------------------------------------------------------------
(* The sweep.                                                              *)

Order == <<"cluster", "transit_gateway", "vpc", "cos_instance">>
\* The gateway at hand: its connections as listed, those to remove, and whether a
\* listing failed.
NoGateway == [list |-> [n \in Nets |-> None], detach |-> {}, blind |-> FALSE]
NoSweep   == [pc |-> "idle", runs |-> 0, found |-> {}, at |-> 1, failed |-> FALSE,
              gateway |-> NoGateway]

CleanupInit ==
  /\ cloud = [k \in Kinds |-> "gone"]
  /\ conns = [n \in Nets |-> None]
  /\ sweep = NoSweep

\* What the commands of WorkspacePhases, a `down` that failed and earlier sweeps leave
\* behind, and what was there before them.
Strand ==
  /\ saved # None /\ saved.at[<<"top", "prefix">>] = Prefix
  /\ sweep.runs = 0 /\ \A k \in Kinds : cloud[k] = "gone"
  /\ cloud' \in [Kinds -> {"there", "going", "gone"}]
  /\ \A k \in Kinds : cloud'[k] = "going" => k = "cluster"
  /\ conns' \in [Nets -> {None, "pending", "attached", "failed", "detaching"}]
  /\ Listed(conns') # {} => cloud'["transit_gateway"] = "there"
  /\ conns'["own"] # None => cloud'["vpc"] = "there"
  /\ UNCHANGED sweep

Go(pc)  == sweep' = [sweep EXCEPT !.pc = pc]
Blindly == sweep' = [sweep EXCEPT !.pc = "gateway", !.gateway.blind = TRUE]
After   == [sweep EXCEPT !.pc = "next", !.at = @ + 1, !.gateway = NoGateway]

Fail == sweep' = [After EXCEPT !.failed = TRUE]
Done == sweep' = After

\* A listing that fails, or a region that is not scanned, hides what is there; the
\* prompt may be answered long after the listing.
Scan ==
  /\ sweep.pc = "idle" /\ sweep.runs < MaxSweeps
  /\ saved # None
  /\ saved.at[<<"top", "prefix">>] = Prefix
  /\ \E missed \in SUBSET Kinds :
       LET found == {k \in Kinds : cloud[k] # "gone"} \ missed IN
       /\ found \ Adopted(saved, found) # {}
       /\ sweep' = [NoSweep EXCEPT !.pc = "next", !.runs = sweep.runs + 1, !.found = found]
  /\ UNCHANGED <<cloud, conns>>

\* deleteOrphans: the next of the list, or the end of it.
Skip ==
  /\ sweep.pc = "next" /\ sweep.at <= Len(Order) /\ Order[sweep.at] \notin Active
  /\ Done /\ UNCHANGED <<cloud, conns>>

Return ==
  /\ sweep.pc = "next" /\ sweep.at > Len(Order)
  /\ Go("idle") /\ UNCHANGED <<cloud, conns>>

\* A VPC the cluster is in cannot be deleted, and no delete need succeed.
Delete ==
  /\ sweep.pc = "next" /\ sweep.at <= Len(Order)
  /\ LET k == Order[sweep.at] IN
     /\ k \in Active \ {"transit_gateway"}
     /\ \/ cloud[k] = "gone" /\ Done /\ UNCHANGED cloud
        \/ /\ cloud[k] # "gone"
           /\ k = "vpc" => cloud["cluster"] = "gone"
           /\ Done
           /\ cloud' = [cloud EXCEPT ![k] = IF k = "cluster" THEN "going" ELSE "gone"]
        \/ Fail /\ UNCHANGED cloud
  /\ UNCHANGED conns

\* deleteTransitGateway: without a listing the gateway is tried all the same.
List ==
  /\ sweep.pc = "next" /\ sweep.at <= Len(Order)
  /\ Order[sweep.at] = "transit_gateway" /\ "transit_gateway" \in Active
  /\ \/ Blindly
     \/ IF Foreign(conns) # {} THEN Fail
        ELSE sweep' = [sweep EXCEPT !.pc = "settle", !.gateway.list = conns]
  /\ UNCHANGED <<cloud, conns>>

\* waitTGWConnectionsSettled
Settle ==
  /\ sweep.pc = "settle" /\ InFlight(sweep.gateway.list) # {}
  /\ sweep' = [sweep EXCEPT !.gateway.list = conns]
  /\ UNCHANGED <<cloud, conns>>

\* Nothing is in flight, or the time is over, or a listing failed; then the last
\* listing is what counts.
Partition ==
  LET list == sweep.gateway.list IN
  /\ sweep.pc = "settle"
  /\ IF \/ Foreign(list) # {}
        \/ Detach(list) = {} /\ \E n \in Settling(list) : Arriving(list[n])
     THEN Fail
     ELSE sweep' = [sweep EXCEPT
            !.pc = IF Detach(list) # {} THEN "detach"
                   ELSE IF Settling(list) # {} THEN "clear" ELSE "gateway",
            !.gateway = [NoGateway EXCEPT !.detach = Detach(list)]]
  /\ UNCHANGED <<cloud, conns>>

\* Mutation: the gateway is deleted right after its connections.
DetachedMutated == Go("gateway")

\* What was detached takes its time to go.
Detached == Go("clear")

\* A connection that is attaching, or leaves already, cannot be deleted.
Disconnect ==
  /\ sweep.pc = "detach"
  /\ LET held == {n \in sweep.gateway.detach : conns[n] # None} IN
     \/ /\ \A n \in held : conns[n] \in {"attached", "failed"}
        /\ conns' = [n \in Nets |-> IF n \in held THEN "deleting" ELSE conns[n]]
        /\ Detached
     \/ Fail /\ UNCHANGED conns
  /\ UNCHANGED cloud

\* waitTGWConnectionsCleared: none left, or a listing failed; or the time is over.
Clear ==
  /\ sweep.pc = "clear"
  /\ \/ Listed(conns) = {} /\ Go("gateway")
     \/ Blindly
     \/ Listed(conns) # {} /\ Fail
  /\ UNCHANGED <<cloud, conns>>

\* IBM Cloud keeps a gateway with a connection.
DeleteGateway ==
  /\ sweep.pc = "gateway"
  /\ \/ cloud["transit_gateway"] = "gone" /\ Done /\ UNCHANGED cloud
     \/ /\ cloud["transit_gateway"] = "there" /\ Listed(conns) = {}
        /\ Done /\ cloud' = [cloud EXCEPT !["transit_gateway"] = "gone"]
     \/ Fail /\ UNCHANGED cloud
  /\ UNCHANGED conns

Sweep == \/ Skip \/ Return \/ Delete \/ List \/ Settle \/ Partition \/ Disconnect
         \/ Clear \/ DeleteGateway

\* ^C, at the prompt or later.
Stop == /\ sweep.pc # "idle"
        /\ sweep' = [NoSweep EXCEPT !.runs = sweep.runs]
        /\ UNCHANGED <<cloud, conns>>

-----------------------------------------------------------------------------
(* IBM Cloud, and the owners of the other networks.                        *)

Settled == \E n \in Nets : \E to \in {"attached", "failed"} :
  /\ conns[n] = "pending" /\ conns' = [conns EXCEPT ![n] = to]
  /\ UNCHANGED <<cloud, sweep>>

Cleared == \E n \in Nets :
  /\ Departing(conns[n]) /\ conns' = [conns EXCEPT ![n] = None]
  /\ UNCHANGED <<cloud, sweep>>

Vanish ==
  /\ cloud["cluster"] = "going" /\ cloud' = [cloud EXCEPT !["cluster"] = "gone"]
  /\ UNCHANGED <<conns, sweep>>

Others ==
  /\ \/ /\ conns["foreign"] = None /\ cloud["transit_gateway"] = "there"
        /\ conns' = [conns EXCEPT !["foreign"] = "pending"]
     \/ conns["foreign"] = "attached" /\ conns' = [conns EXCEPT !["foreign"] = "detaching"]
  /\ UNCHANGED <<cloud, sweep>>

CleanupNext == Strand \/ Scan \/ Sweep \/ Stop \/ Settled \/ Cleared \/ Vanish \/ Others

Init == SettingsInit /\ CleanupInit
Next == \/ SettingsNext /\ UNCHANGED cleanupVars
        \/ CleanupNext /\ UNCHANGED settingsVars
Spec == Init /\ [][Next]_vars

-----------------------------------------------------------------------------
(* Properties.                                                             *)

\* What the operator said is adopted, in a file or a variable, before any conversion
\* and however the workspace was made of it, is never deleted: the way from what was
\* written to what the sweep spares is a long one.
AdoptedKept == [][\A k \in Kinds :
  (Spared(wanted, k) /\ cloud[k] = "there") => cloud'[k] = "there"]_vars

\* A sweep takes from the gateway only the connection of a VPC it deletes as well:
\* not one of another network, attached before the listing or after it, nor one of
\* the workspace's own VPC that was adopted or was not found.
DetachIsOurs == [][\A n \in Nets :
  (conns[n] # "deleting" /\ conns'[n] = "deleting") => (n = "own" /\ "vpc" \in Active)]_vars

\* The gateway is not deleted under the workspace's own connection, whatever that was
\* doing when the sweep began; it is tried only when a listing failed.
OwnConnectionFirst == sweep.pc = "gateway" => (sweep.gateway.blind \/ conns["own"] = None)
=============================================================================
