--------------------------- MODULE MCControlEngine ---------------------------
(* Instances of ControlEngine for TLC: a rule that synchronises two targets *)
(* and an edge-triggered one, on two sources; the bus of the third target   *)
(* has no driver that writes.                                               *)
EXTENDS ControlEngine

SourceOf     == [sync |-> "s1", edge |-> "s2"]
TriggerOf    == [sync |-> {"low", "high"}, edge |-> {"high", "text"}]
ActionsOf    == [sync |-> <<"t1", "t3">>, edge |-> <<"t2">>]
ConnectionOf == [t1 |-> "bus", t2 |-> "bus", t3 |-> "other"]
=============================================================================
