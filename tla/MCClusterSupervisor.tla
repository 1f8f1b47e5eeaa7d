------------------------ MODULE MCClusterSupervisor ------------------------
(* Model-checking instance of ClusterSupervisor. *)
EXTENDS ClusterSupervisor
=============================================================================
