------------------------------ MODULE MCCluster ------------------------------
(* Three subgames on two nodes: node 0 has two of them. *)
EXTENDS Cluster

MCQuit == -1
=============================================================================
