---------------------------- MODULE MCJujuScaler ----------------------------
(* JujuScaler for TLC. *)
EXTENDS JujuScaler
=============================================================================
