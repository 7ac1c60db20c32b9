----------------------------- MODULE MCAppCharm -----------------------------
(* AppCharm for TLC. *)
EXTENDS AppCharm

\* Deployed with one of the configurations: the others are like it.
Deployed == Init /\ model.conf = CHOOSE c \in Confs : TRUE

DeployedSpec == Deployed /\ [][Next]_vars /\ Fairness
=============================================================================
