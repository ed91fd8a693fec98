----------------------------- MODULE DeviceList -----------------------------
(***************************************************************************)
(* The promise both parsers of chapter 17 make: the list is built device   *)
(* by device and property by property, newest first, and given up only     *)
(* when it is complete or was cut off for want of memory.                  *)
(***************************************************************************)
EXTENDS Integers, Sequences

CONSTANT MaxProps

VARIABLES
  limit,   \* how many devices there are
  list,    \* the devices, newest first: numbers and properties
  cut      \* no more memory for this list

listVars == <<limit, list, cut>>

Init == limit \in Nat /\ list = <<>> /\ cut = FALSE

Full(device) == Len(device.props) = MaxProps

AddDevice ==
  /\ ~ cut /\ Len(list) < limit /\ (list # <<>> => Full(list[1]))
  /\ list' = <<[name |-> Len(list), props |-> <<>>]>> \o list
  /\ UNCHANGED <<limit, cut>>

AddProperty ==
  /\ ~ cut /\ list # <<>> /\ ~ Full(list[1])
  /\ list' = [list EXCEPT ![1].props = <<Len(@)>> \o @]
  /\ UNCHANGED <<limit, cut>>

CutOff == cut' = TRUE /\ UNCHANGED <<limit, list>>

Complete == Len(list) = limit /\ (limit > 0 => Full(list[1]))

Discard ==
  /\ Complete \/ cut
  /\ list' = <<>> /\ cut' = FALSE
  /\ UNCHANGED limit

Next == AddDevice \/ AddProperty \/ CutOff \/ Discard

Spec == Init /\ [][Next]_listVars
=============================================================================
