---------------------------- MODULE MCK8sMaster ----------------------------
(* K8sMaster for TLC. *)
EXTENDS K8sMaster
=============================================================================
