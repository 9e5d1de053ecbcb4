--------------------------- MODULE MCRfCoordinator ----------------------------
(* A small instance of the radio coordinator, with the smallest periods     *)
(* that relate to each other as the code's do (AliveAssumption).  An        *)
(* exchange takes up to one tick, so that an answer may arrive after the    *)
(* clock has wrapped.  The clock wraps after 13 ticks, and a behaviour goes *)
(* on until the node heard at the wrap should long be gone.  The end        *)
(* devices are interchangeable.                                             *)
EXTENDS RfCoordinator, TLC

DeviceSymmetry == Permutations(EndDevices)
=============================================================================
