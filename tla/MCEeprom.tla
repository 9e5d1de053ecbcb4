------------------------------ MODULE MCEeprom --------------------------------
(* A chip of three pages of two bytes; two buffers, no byte twice.       *)
EXTENDS Eeprom

MCBuffers == {[k \in 0 .. 5 |-> k], [k \in 0 .. 5 |-> 10 + k]}
=============================================================================
