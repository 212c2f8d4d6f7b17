--------------------------- MODULE MCProcessData ---------------------------
(* Instances of ProcessData for TLC: the objects the host writes. *)
EXTENDS ProcessData

Json(command, gateNo, gatePo) ==
  [command |-> command, gateNo |-> gateNo, gatePo |-> gatePo]

(* Complete (with a string for a number that is not looked at, and a gate  *)
(* number that does not fit a byte), and with each of the other ways a     *)
(* command can be wrong: no such command, none at all, or a string, which  *)
(* counts as the first command of the table, whose handler then misses a   *)
(* member.                                                                 *)
Assorted ==
  {Json(Number(3), Number(257), Text), Json(Number(7), Number(0), Number(0)),
   Json(Missing, Number(0), Number(0)), Json(Text, Number(0), Missing)}
=============================================================================
