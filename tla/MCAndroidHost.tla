---------------------------- MODULE MCAndroidHost ----------------------------
(* A small instance of the Android accessory host for TLC. *)
EXTENDS AndroidHost
==============================================================================
