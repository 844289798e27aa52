------------------------ MODULE MCOcppSmartCharging ------------------------
(* Instances of OcppSmartCharging for TLC.                                 *)
EXTENDS OcppSmartCharging, TLC

Symmetry == Permutations(Writers)
=============================================================================
