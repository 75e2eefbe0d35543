------------------------------ MODULE MCProcess ------------------------------
(* Small instances of Process for TLC. *)
EXTENDS Process

CONSTANTS standard, pro, local, other

AllFaults == ProcessFaults
AllWindowFaults == WindowFaultKinds
=============================================================================
