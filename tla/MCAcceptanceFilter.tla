------------------------- MODULE MCAcceptanceFilter --------------------------
(***************************************************************************)
(* A small instance of the acceptance filter's table for TLC: two entries  *)
(* per section, for the two controllers in either order of identifiers;    *)
(* groups that touch, that overlap and that are empty; every word behind   *)
(* the RAM holds a value of its own.                                       *)
(***************************************************************************)
EXTENDS AcceptanceFilter

MCBeyond == [w \in RamSize .. MemSize - 1 |-> w]

MCStdLoads  == {<<0, 3>>, <<1, 0>>}
MCFullLoads == {<<0, 1>>, <<1, 1>>}
MCExtLoads  == {<<0, 5>>, <<1, 2>>}
MCStdGroups == {<<1, 0, 2>>, <<0, 2, 3>>, <<0, 1, 0>>}
MCExtGroups == {<<0, 1, 3>>, <<1, 3, 4>>, <<1, 4, 1>>}
==============================================================================
