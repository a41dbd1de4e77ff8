---------------------------- MODULE SupplyChain ----------------------------
(* The object storage the FAR pull credential and the subscription JWT are *)
(* kept in: one instance of the account, its buckets, the `cos` verbs that *)
(* change them, and what `init` finds there, makes there and writes down.  *)
EXTENDS FiniteSets
CONSTANTS
  None,           \* what stands for a file or a name that is not there
  CosRegions,     \* the regions a bucket may be in
  DefaultRegion   \* config.DefaultCOSRegion

ASSUME RegionAssumption == DefaultRegion \in CosRegions /\ None \notin CosRegions

VARIABLES
  instance,   \* the instance the default name stands for exists
  buckets     \* by name: the bucket, or None; its region, its objects, and whether it
              \* is of this account, for names are global

cosVars == <<instance, buckets>>

\* The default bucket name, and the one with the account's suffix.
Buckets == {"plain", "suffixed"}
Artefacts == {"far", "jwt"}
Bucket == [region : CosRegions, ours : BOOLEAN, objects : SUBSET Artefacts]
ASSUME BucketsAssumption == None \notin Buckets \cup Bucket

\* Another account may have taken the default name.
CosInit(foreign) ==
  /\ instance = FALSE
  /\ buckets = [b \in Buckets |->
        IF foreign /\ b = "plain"
        THEN [region |-> DefaultRegion, ours |-> FALSE, objects |-> {}] ELSE None]

Ours(b) == instance /\ buckets[b] # None /\ buckets[b].ours

\* The plain name before the suffixed one, and None when neither is listed.
Found == IF Ours("plain") THEN "plain" ELSE IF Ours("suffixed") THEN "suffixed" ELSE None

\* The client of the check probes every region for the bucket.
Complete == Found # None /\ buckets[Found].objects = Artefacts

-----------------------------------------------------------------------------
(* What the provisioning of init does, one call at a time.                 *)

CreateInstance == instance' = TRUE /\ UNCHANGED buckets

\* The bucket that is there is used; else the suffixed one, which a run that was
\* interrupted may have made already.
Provisioned == IF Found # None THEN Found ELSE "suffixed"

CreateBucket(b, region) ==
  /\ instance /\ buckets[b] = None
  /\ buckets' = [buckets EXCEPT ![b] = [region |-> region, ours |-> TRUE, objects |-> {}]]
  /\ UNCHANGED instance

PutObject(b, o) ==
  /\ Ours(b)
  /\ buckets' = [buckets EXCEPT ![b].objects = @ \cup {o}]
  /\ UNCHANGED instance

-----------------------------------------------------------------------------
(* The verbs. `cos bucket create` puts the bucket in the region of the     *)
(* workspace that is in use, whatever --region says.                       *)

DeleteInstance ==
  /\ instance
  /\ instance' = FALSE
  /\ buckets' = [b \in Buckets |-> IF Ours(b) THEN None ELSE buckets[b]]

DeleteBucket(b) ==
  /\ Ours(b) /\ buckets[b].objects = {}
  /\ buckets' = [buckets EXCEPT ![b] = None]
  /\ UNCHANGED instance

DeleteObject(b, o) ==
  /\ Ours(b)
  /\ buckets' = [buckets EXCEPT ![b].objects = @ \ {o}]
  /\ UNCHANGED instance

CosVerb ==
  \/ ~instance /\ CreateInstance
  \/ DeleteInstance
  \/ \E b \in Buckets :
       \/ \E region \in CosRegions : CreateBucket(b, region)
       \/ DeleteBucket(b)
       \/ \E o \in Artefacts : PutObject(b, o) \/ DeleteObject(b, o)
=============================================================================
