---------------------------- MODULE MCAuthScreens ----------------------------
(* Small instances of AuthScreens for TLC. *)
EXTENDS AuthScreens

CONSTANTS alice, bob
=============================================================================
