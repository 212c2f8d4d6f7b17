------------------------------- MODULE IoData -------------------------------
(***************************************************************************)
(* io_data_t of main/io_driver.h: the image of the ports in RAM, and the   *)
(* output commands that stay inside it.                                    *)
(*                                                                         *)
(* Nobody checks the port and the pin of a command: they come from the     *)
(* host, cut to a byte each, and index io_data.output, an array of         *)
(* PORT_NUM rows of PIN_NUM bytes.  A pin past the end of its row is the   *)
(* cell of another row.  A command whose cell is past the end of the table *)
(* writes to other variables of the program, which no model here has.      *)
(***************************************************************************)
EXTENDS Integers

CONSTANTS
  PORT_NUM,   \* IN_PORT_NUM and OUT_PORT_NUM, both 2 in io_driver.h
  PIN_NUM     \* pins of a PCF8574, 8 on the board

Ports == 0 .. PORT_NUM - 1
Pins  == 0 .. PIN_NUM - 1
Cells == 0 .. PORT_NUM * PIN_NUM - 1

PortValue == [Pins -> BOOLEAN]

AllOff == [n \in Pins |-> FALSE]   \* 0xff on the wire

(* Where io_data.output[c.port][c.pin] and io_data.input[c.port][c.pin] are *)
Row(c) == c.port + c.pin \div PIN_NUM
Col(c) == c.pin % PIN_NUM

(* The output commands whose cell is in the table. *)
OutputCommand ==
  {c \in [port : Ports, pin : Cells, state : BOOLEAN] : Row(c) \in Ports}
=============================================================================
