------------------------- MODULE MCWorkspacePhases -------------------------
(* Instances of WorkspacePhases for TLC.                                   *)
EXTENDS WorkspacePhases

Plain == [create |-> TRUE, existingTGW |-> FALSE, vpcAttached |-> FALSE,
          flpLicense |-> FALSE, flpStandalone |-> FALSE, s3 |-> FALSE]

\* A cluster of its own, attached to a gateway it did not create.
SharedGateway == [Plain EXCEPT !.existingTGW = TRUE]
\* Licensing through a proxy deployed by `flp up`.
Proxy == [Plain EXCEPT !.flpLicense = TRUE]
\* The proxy is an appliance that needs no cluster.
Appliance == [Plain EXCEPT !.flpLicense = TRUE, !.flpStandalone = TRUE]
\* cluster.create = false: the workspace adopts the cluster it names.
Adopted == [Plain EXCEPT !.create = FALSE, !.existingTGW = TRUE]
\* ... whose VPC somebody has attached to a gateway before.
SharedVPC == [Adopted EXCEPT !.vpcAttached = TRUE]
\* state.backend = s3.
Remote == [Plain EXCEPT !.s3 = TRUE]

ProxyConfigs   == {Proxy}
SafetyConfigs  == {SharedGateway, Adopted, SharedVPC, Appliance}
RemoteConfigs  == {Remote}

\* The commands around the license proxy.
ProxyCommands == {"up", "down", "cluster up", "cluster register", "cluster down",
                  "bnk up", "bnk down", "gateway up", "gateway down",
                  "flp up", "flp down"}

\* The commands of the run with the remote state.
UpDownCommands == {"up", "down"}
=============================================================================
