------------------------------ MODULE MCCluster ------------------------------
(***************************************************************************)
(* An instance of Cluster: two nodes of different size, the larger one     *)
(* with tokens and a quota.                                                *)
(***************************************************************************)
EXTENDS Cluster, TLC

Sizes == 1 :> 2 @@ 2 :> 3
=============================================================================
