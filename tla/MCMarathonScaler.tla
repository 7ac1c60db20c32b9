-------------------------- MODULE MCMarathonScaler --------------------------
(* Small instances of MarathonScaler for TLC. *)
EXTENDS MarathonScaler, TLC

CONSTANTS mesos, restcomm, app1, app2, s1, s2

\* The two handlers behave alike, and so do the slots of a key.
HandlerSymmetry == Permutations(Handlers)
SlotSymmetry == Permutations(Slots)
==============================================================================
