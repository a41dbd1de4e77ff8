-------------------------- MODULE MCWorkspaceInit --------------------------
(* Instances of WorkspaceInit for TLC.                                     *)
EXTENDS WorkspaceInit, TLC

Hosts == {[vault |-> TRUE, mine |-> {}, foreign |-> TRUE],
          [vault |-> FALSE, mine |-> KeyNames, foreign |-> FALSE]}
Interviews == {{}, {"jumphosts"}, {"bnk", "proxy"}}
\* Nothing beyond what is required, or everything, wherever it comes from.
Files == {[b64 |-> FALSE, keys |-> {}, copied |-> {}, far |-> NoSource],
          [b64 |-> TRUE, keys |-> Regions \X KeyNames, copied |-> KeyNames,
           far |-> [bucket |-> "plain", region |-> DefaultRegion]]}
Twins == Permutations(Names) \cup Permutations(Regions)
=============================================================================
