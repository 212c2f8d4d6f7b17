------------------------------ MODULE MCBoard ------------------------------
(* An instance of Board for TLC: two commands that start a motor. *)
EXTENDS Board

Starts ==
  {[gate_no |-> 0, position |-> 0, command_name |-> GATE_OPEN_COMMAND],
   [gate_no |-> 0, position |-> PORT_NUM - 1,
    command_name |-> GATE_TRIGGER_COMMAND]}
=============================================================================
