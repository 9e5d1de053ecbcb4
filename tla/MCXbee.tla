------------------------------- MODULE MCXbee --------------------------------
(***************************************************************************)
(* A small instance of the radio receiver: bytes 0 .. 3, the delimiter is  *)
(* 3 and occurs in the frames as well; a modem status of two bytes and a   *)
(* frame that is one delimiter.                                            *)
(***************************************************************************)
EXTENDS XbeeReceiver

MCPayloads == {<<1, 2>>, <<3>>}
==============================================================================
