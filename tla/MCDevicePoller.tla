--------------------------- MODULE MCDevicePoller ---------------------------
(* Instances of DevicePoller for TLC.                                      *)
EXTENDS DevicePoller, TLC

CONSTANTS p, q, c

\* Every device has a connection of its own.
OwnConnection == [d \in Devices |-> d]

\* What the environment does at most, in the runs.
Everything == [flap |-> 2, fault |-> 1, clear |-> 1, restart |-> 1]
Restarts   == [flap |-> 3, fault |-> 0, clear |-> 0, restart |-> 1]
=============================================================================
