------------------------------ MODULE MCPolling ------------------------------
(* The instances of MCMessaging, with the page that polls. *)
EXTENDS MCMessaging, Polling
=============================================================================
