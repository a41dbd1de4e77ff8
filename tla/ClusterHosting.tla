--------------------------- MODULE ClusterHosting ---------------------------
(***************************************************************************)
(* What the phases of a workspace promise together, whatever commands are  *)
(* typed and however they fail: layers are deployed only where a cluster   *)
(* stands, and no cluster is given up while it is the last one a deployed  *)
(* layer can stand on; the workspace's own cluster not before all of them  *)
(* are withdrawn.                                                          *)
(*                                                                         *)
(* One cluster is outside the promise.  The trial may own a cluster, and   *)
(* its record may be written for the other phases to deploy on, but the    *)
(* trial does not look at them when it goes and takes its cluster along.   *)
(***************************************************************************)
CONSTANT Layers   \* the layers that run on a cluster

Clusters == {"own", "trial", "adopted"}

VARIABLES
  stands,    \* the clusters the workspace can deploy on
  deployed,  \* the layers that are deployed
  record     \* the trial's cluster is on record, was when it went, or neither

TypeOK == /\ stands \subseteq Clusters
          /\ deployed \subseteq Layers
          /\ record \in {"other", "trial", "lost"}

Init == stands \subseteq {"adopted"} /\ deployed = {} /\ record = "other"

\* A cluster is created, or adopted, which puts another one on record.
Gain(c) ==
  /\ stands' = stands \cup {c}
  /\ record' \in {record, "other"}
  /\ UNCHANGED deployed

Lose(c) ==
  /\ deployed # {} => c # "own" /\ stands # {c}
  /\ c # "trial" \/ record # "trial"
  /\ stands' = stands \ {c}
  /\ UNCHANGED <<deployed, record>>

\* The trial's cluster goes on record, in the place of an adopted one maybe.
HandOver ==
  /\ "trial" \in stands
  /\ stands' \in {stands, stands \ {"adopted"}}
  /\ record' = "trial"
  /\ UNCHANGED deployed

\* ... and is destroyed, whatever is deployed on it.
Forsake ==
  /\ record = "trial"
  /\ stands' = stands \ {"trial"}
  /\ record' = "lost"
  /\ UNCHANGED deployed

\* Another record is written, or the record deleted: not with the last word
\* on where the deployed layers were.
Rename ==
  /\ deployed # {} => stands # {}
  /\ record' = "other"
  /\ UNCHANGED <<stands, deployed>>

Deploy(l) ==
  /\ stands # {} \/ record = "lost"
  /\ deployed' = deployed \cup {l}
  /\ UNCHANGED <<stands, record>>

Withdraw(l) ==
  /\ deployed' = deployed \ {l}
  /\ UNCHANGED <<stands, record>>

Next == \/ \E c \in Clusters : Gain(c) \/ Lose(c)
        \/ HandOver \/ Forsake \/ Rename
        \/ \E l \in Layers : Deploy(l) \/ Withdraw(l)

Spec == Init /\ [][Next]_<<stands, deployed, record>>

\* A deployed layer has a cluster under it, or had the trial's.
Hosted == deployed # {} => stands # {} \/ record = "lost"
=============================================================================
