----------------------------- MODULE MCUnitData -----------------------------
(* Instances of UnitData for TLC.                                          *)
EXTENDS UnitData, TLC

CONSTANTS k1, k2, v1, v2

Symmetry == Permutations({v1, v2})
=============================================================================
