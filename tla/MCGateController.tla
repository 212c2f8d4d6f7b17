-------------------------- MODULE MCGateController --------------------------
(* Instances of GateController for TLC: the gate commands that are sent. *)
EXTENDS GateController

Command(name, position, no) ==
  [gate_no |-> no, position |-> position, command_name |-> name]

(* The right and the left gate 0, opened and stopped. *)
OpenAndStop ==
  {Command(GATE_OPEN_COMMAND, 0, 0), Command(GATE_STOP_COMMAND, 0, 0),
   Command(GATE_OPEN_COMMAND, 1, 0)}

(* With a gate that the right row does not have, which is the left gate 0, *)
(* and a position that does not fit a byte, which is the right one.        *)
AnyInImage ==
  {Command(GATE_OPEN_COMMAND, 0, PIN_NUM), Command(GATE_STOP_COMMAND, BYTE, 0),
   Command(GATE_OPEN_COMMAND, 1, 0)}

(* Nothing but commands that switch a motor on. *)
OpenOnly ==
  {Command(GATE_OPEN_COMMAND, 0, 0), Command(GATE_TRIGGER_COMMAND, 1, 0)}

(* What the expanders drive decides no step while sensors change freely,   *)
(* and the properties of that run are not about it.                        *)
LatchlessView ==
  <<state, input, output, command_queue, queue_created, installed, taskVars,
    sensor, gateVars>>
=============================================================================
