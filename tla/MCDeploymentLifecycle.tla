------------------------ MODULE MCDeploymentLifecycle ------------------------
(***************************************************************************)
(* Instances of DeploymentLifecycle for TLC.                               *)
(***************************************************************************)
EXTENDS DeploymentLifecycle, TLC

(* Every record in the one scope: the scope's lease is what they share.    *)
OneScope == CHOOSE s \in Scopes : TRUE
AllInOneScope == [r \in Records |-> OneScope]

(* Sound for the runs without liveness: no definition tells two workers,   *)
(* two watchers or two records apart.                                      *)
Symmetric ==
  Permutations(Workers) \cup Permutations(Watchers) \cup Permutations(Records)
=============================================================================
