--------------------------- MODULE MCEmsDispatch ----------------------------
(* Instances of EmsDispatch for TLC.                                       *)
EXTENDS EmsDispatch

\* A wallbox with a guaranteed minimum and a heat pump without, which is
\* first in the list and has the lower priority.
BaseOf    == [c \in Consumers |-> IF c = "pump" THEN 1 ELSE 0]
MinimumOf == [c \in Consumers |-> IF c = "box" THEN 2 ELSE 0]
CeilingOf == [c \in Consumers |-> IF c = "box" THEN 4 ELSE 2]
RampOf    == [c \in Consumers |-> 1]
FloorOf   == [c \in Consumers |-> IF c = "box" THEN 2 ELSE 1]
PlaceOf   == [c \in Consumers |-> IF c = "box" THEN 2 ELSE 1]
RankOf    == [c \in Consumers |-> IF c = "box" THEN 1 ELSE 2]
Lowest    == -2
=============================================================================
