----------------------------- MODULE MCChatShell -----------------------------
(* Small instances of ChatShell for TLC. *)
EXTENDS ChatShell

CONSTANTS c1, c2, m1, k1, k2
=============================================================================
