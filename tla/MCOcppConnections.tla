-------------------------- MODULE MCOcppConnections --------------------------
(* Instances of OcppConnections for TLC.                                   *)
EXTENDS OcppConnections, TLC

\* Sockets, senders, semaphores and chains are interchangeable.
Symmetry == Permutations(Sockets) \cup Permutations(Senders)
              \cup Permutations(Locks) \cup Permutations(Chains)
=============================================================================
