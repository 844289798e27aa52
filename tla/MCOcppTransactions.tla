------------------------- MODULE MCOcppTransactions -------------------------
(* Instances of OcppTransactions for TLC.                                  *)
EXTENDS OcppTransactions, TLC

Symmetry == Permutations(ChargePoints)
=============================================================================
