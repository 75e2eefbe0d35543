----------------------------- MODULE MCBridgeJs -----------------------------
(* Small instances of BridgeJs for TLC. *)
EXTENDS BridgeJs
=============================================================================
