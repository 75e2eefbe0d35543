--------------------------- MODULE MCNetworkClient ---------------------------
(* Small instances of NetworkClient for TLC. *)
EXTENDS NetworkClient, TLC

CONSTANTS r1, r2, r3, address, name

AllFaults == FaultKinds
\* Nothing tells the requests apart.
Symmetric == Permutations(Requests)
=============================================================================
