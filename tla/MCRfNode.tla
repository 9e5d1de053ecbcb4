------------------------------ MODULE MCRfNode --------------------------------
(* A small instance of the subscriptions of an end device.                 *)
EXTENDS RfNode
=============================================================================
