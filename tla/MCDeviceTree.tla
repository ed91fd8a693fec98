---------------------------- MODULE MCDeviceTree ----------------------------
(* DeviceTree with the sizes of the program (LP64), counters wrapping at   *)
(* values far beyond the arena, as there.                                  *)
EXTENDS DeviceTree
=============================================================================
