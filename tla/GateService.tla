----------------------------- MODULE GateService -----------------------------
(***************************************************************************)
(* What the board promises to whoever sends it gate commands, with no      *)
(* mention of the two queues and the two tasks they go through: a command  *)
(* that was accepted is performed, once, in the order of acceptance, and   *)
(* only a restart of the chip loses it.  GateController implements this.   *)
(* What a command is performed on is its cell of the output image.         *)
(***************************************************************************)
EXTENDS IoData, Sequences

CONSTANT CAPACITY   \* commands that may be on their way at one time

VARIABLES
  pending,   \* accepted and not performed yet, oldest first
  outputs    \* what the board means each output to be

vars == <<pending, outputs>>

AllOutputsOff == [p \in Ports |-> AllOff]

Init ==
  /\ pending = <<>>
  /\ outputs = AllOutputsOff

(* A command that is refused (a queue is full) leaves no trace. *)
Accept(c) ==
  /\ Len(pending) < CAPACITY
  /\ pending' = Append(pending, c)
  /\ UNCHANGED outputs

Perform ==
  /\ pending # <<>>
  /\ LET c == Head(pending)
     IN outputs' = [outputs EXCEPT ![Row(c)][Col(c)] = c.state]
  /\ pending' = Tail(pending)

Crash ==
  /\ pending' = <<>>
  /\ outputs' = AllOutputsOff

Next ==
  \/ \E c \in OutputCommand : Accept(c)
  \/ Perform
  \/ Crash

Spec == Init /\ [][Next]_vars
=============================================================================
