---------------------------- MODULE MCAlarmStore ----------------------------
(* Instances of AlarmStore for TLC.                                        *)
EXTENDS AlarmStore, TLC

Symmetry == Permutations(Originators) \cup Permutations(OriginTypes)
              \cup Permutations(Severities)
=============================================================================
