----------------------------- MODULE MCCanBridge -----------------------------
(* Small instances of the CAN bridge for TLC. *)
EXTENDS CanBridge
==============================================================================
