--------------------------- MODULE GateController ---------------------------
(***************************************************************************)
(* main/gate_driver.c on top of main/io_driver.c: gate_controller_task     *)
(* takes one gate command at a time, asks the I/O driver to drive the      *)
(* gate's motor output, and then spins on the gate's sensor until it has   *)
(* changed twice.  The two tasks share io_data.input, with no lock, and    *)
(* the I/O driver's command_queue.                                         *)
(*                                                                         *)
(* gate_queue is the command_queue of gate_driver.c, a different variable  *)
(* from the command_queue of io_driver.c.                                  *)
(***************************************************************************)
EXTENDS IoDriver

CONSTANTS
  GATE_QUEUE_LEN,   \* length of the gate command queue, 10 on the board
  Commands,         \* the gate commands the rest of the program sends
  Plant             \* "free": sensors change at any time.  "driven": only
                    \* while the motor is on, and slower than the polling.
                    \* "still": no sensor ever changes

GATE_STOP_COMMAND    == 0
GATE_TRIGGER_COMMAND == 1
GATE_CLOSE_COMMAND   == 2
GATE_OPEN_COMMAND    == 3

BYTE == 256   \* what a uint8_t holds: gate_no, and a position once cut

(* Slip: only GATE_OPEN_COMMAND switches the motor on. *)
OutputOfOpenOnly(g) ==
  [port |-> g.position % BYTE, pin |-> g.gate_no,
   state |-> g.command_name = GATE_OPEN_COMMAND]

(* The output command of a gate command.  The uint8_t field takes the low  *)
(* byte of the position, which is an int.  The bool field takes the enum,  *)
(* so whatever is not GATE_STOP_COMMAND switches the output on.            *)
OutputOf(g) ==
  [port |-> g.position % BYTE, pin |-> g.gate_no,
   state |-> g.command_name # GATE_STOP_COMMAND]

(* The gate commands that stay inside the image of the ports.  The gate    *)
(* may be one the board does not have: nothing is compared with PIN_NUM.   *)
GateCommand ==
  {g \in [gate_no : 0 .. BYTE - 1, position : Int,
          command_name : GATE_STOP_COMMAND .. GATE_OPEN_COMMAND] :
     OutputOf(g) \in OutputCommand}

ASSUME GateAssumption ==
  /\ GATE_QUEUE_LEN \in Nat \ {0}
  /\ Commands \subseteq GateCommand
  /\ Plant \in {"free", "driven", "still"}

VARIABLES
  gate_queue,        \* the FreeRTOS queue of gate commands
  gate_created,      \* its handle is not NULL
  gate_pc,           \* where gate_controller_task is
  gate_command,      \* the command it is carrying out
  old_sensor_value,  \* its copy of the sensor
  moved              \* history: that sensor moved since the command was taken

gateVars == <<gate_queue, gate_created, gate_pc, gate_command,
              old_sensor_value, moved>>
vars == <<ioVars, gateVars>>

GatePcs == {"receive", "read_old", "enqueue", "wait_change", "wait_trigger"}

(* memset(&gate_command, 0, ...) *)
NoGateCommand ==
  [gate_no |-> 0, position |-> 0, command_name |-> GATE_STOP_COMMAND]

GateTypeOK ==
  /\ gate_queue \in Seq(GateCommand)
  /\ Len(gate_queue) <= GATE_QUEUE_LEN
  /\ gate_created \in BOOLEAN
  /\ gate_pc \in GatePcs
  /\ gate_command \in GateCommand
  /\ old_sensor_value \in BOOLEAN
  /\ moved \in BOOLEAN

TypeOK == IoTypeOK /\ GateTypeOK

(* gate_drv_queue_init: a failed xQueueCreate is printed, and the task is  *)
(* created all the same.                                                   *)
QueueHandles == IF "heap" \in Faults THEN BOOLEAN ELSE {TRUE}

(* gate_driver_start_task has created the queue, then the task. *)
Init ==
  /\ IoInit
  /\ gate_queue = <<>>
  /\ gate_created \in QueueHandles
  /\ gate_pc = "receive"
  /\ gate_command = NoGateCommand
  /\ old_sensor_value = FALSE
  /\ moved = FALSE

(* The chip restarts: both tasks begin again. *)
GateRestart ==
  /\ gate_queue' = <<>>
  /\ gate_created' \in QueueHandles
  /\ gate_pc' = "receive"
  /\ gate_command' = NoGateCommand
  /\ old_sensor_value' = FALSE
  /\ moved' = FALSE

-----------------------------------------------------------------------------
(* The cell of a gate in the image, of its output and its sensor alike *)
RowOf(g) == Row(OutputOf(g))
ColOf(g) == Col(OutputOf(g))

(* io_read_pin_value of the gate's sensor *)
SensorOf(g) == input[RowOf(g)][ColOf(g)]

(* Slip: the error of xQueueSend is taken for a queue without a limit. *)
send_gate_command_unbounded(g) ==
  /\ gate_created
  /\ gate_queue' = Append(gate_queue, g)
  /\ UNCHANGED <<ioVars, gate_created, gate_pc, gate_command,
                 old_sensor_value, moved>>

(* send_gate_command, called by another task: no wait, dropped when full. *)
send_gate_command(g) ==
  /\ gate_created
  /\ gate_queue' = IF Len(gate_queue) < GATE_QUEUE_LEN
                     THEN Append(gate_queue, g)
                     ELSE gate_queue
  /\ UNCHANGED <<ioVars, gate_created, gate_pc, gate_command,
                 old_sensor_value, moved>>

(* Slip: xQueuePeek in place of xQueueReceive. *)
gate_peek ==
  /\ gate_pc = "receive"
  /\ gate_created
  /\ gate_queue # <<>>
  /\ gate_command' = Head(gate_queue)
  /\ gate_pc' = "read_old"
  /\ moved' = FALSE
  /\ UNCHANGED <<ioVars, gate_queue, gate_created, old_sensor_value>>

gate_receive ==
  /\ gate_pc = "receive"
  /\ gate_created
  /\ gate_queue # <<>>
  /\ gate_command' = Head(gate_queue)
  /\ gate_queue' = Tail(gate_queue)
  /\ gate_pc' = "read_old"
  /\ moved' = FALSE
  /\ UNCHANGED <<ioVars, gate_created, old_sensor_value>>

(* xQueueReceive, or another task's xQueueSend, on a NULL handle. *)
gate_queue_panic ==
  /\ ~gate_created
  /\ OtherTaskPanic
  /\ GateRestart

gate_read_old ==
  /\ gate_pc = "read_old"
  /\ old_sensor_value' = SensorOf(gate_command)
  /\ gate_pc' = "enqueue"
  /\ UNCHANGED <<ioVars, gate_queue, gate_created, gate_command, moved>>

(* Slip: the output is switched here, not by the I/O task. *)
gate_enqueue_bypassed ==
  /\ gate_pc = "enqueue"
  /\ LET c == OutputOf(gate_command)
     IN output' = [output EXCEPT ![Row(c)][Col(c)] = c.state]
  /\ gate_pc' = "wait_change"
  /\ UNCHANGED <<state, input, command_queue, queue_created, installed,
                 taskVars, latch, sensor, in_step, gate_queue, gate_created,
                 gate_command, old_sensor_value, moved>>

(* command_enqueue of the I/O driver.  A command that finds its queue full *)
(* is lost and the task waits for the sensor all the same; if io_scan_task *)
(* has not created the queue yet the chip restarts.                        *)
gate_enqueue ==
  /\ gate_pc = "enqueue"
  /\ command_enqueue(OutputOf(gate_command))
  /\ IF queue_created
       THEN gate_pc' = "wait_change"
            /\ UNCHANGED <<gate_queue, gate_created, gate_command,
                           old_sensor_value, moved>>
       ELSE GateRestart

(* Slip: the comparison of gate_driver.c:156 and 167 is left out. *)
SensorPolledOnce ==
  old_sensor_value' = SensorOf(gate_command)

(* One turn of a wait loop that finds the sensor different; the turns that *)
(* find it equal change nothing.                                           *)
SensorChanged ==
  /\ SensorOf(gate_command) # old_sensor_value
  /\ old_sensor_value' = SensorOf(gate_command)

(* Slip: old_sensor_value keeps the level of before the motor ran. *)
gate_wait_change_forgets ==
  /\ gate_pc = "wait_change"
  /\ SensorOf(gate_command) # old_sensor_value
  /\ gate_pc' = "wait_trigger"
  /\ UNCHANGED <<ioVars, gate_queue, gate_created, gate_command,
                 old_sensor_value, moved>>

gate_wait_change ==
  /\ gate_pc = "wait_change"
  /\ SensorChanged
  /\ gate_pc' = "wait_trigger"
  /\ UNCHANGED <<ioVars, gate_queue, gate_created, gate_command, moved>>

(* The second change ends the command; the loop body begins with a memset. *)
gate_wait_trigger ==
  /\ gate_pc = "wait_trigger"
  /\ SensorChanged
  /\ gate_pc' = "receive"
  /\ gate_command' = NoGateCommand
  /\ UNCHANGED <<ioVars, gate_queue, gate_created, moved>>

gate_controller_task ==
  \/ gate_receive
  \/ gate_read_old
  \/ gate_enqueue
  \/ gate_wait_change
  \/ gate_wait_trigger

-----------------------------------------------------------------------------
(* The I/O driver's task and the sensors, seen from here *)

ScanTask == io_scan_task /\ UNCHANGED gateVars

ScanPanic == scan_receive_panic /\ GateRestart

AnyTaskPanic == OtherTaskPanic /\ GateRestart

(* The command waits for the sensor at that pin. *)
IsAt(g, p, n) == RowOf(g) = p /\ ColOf(g) = n

(* A sensor level lasts until the scan has published it and the task that  *)
(* spins on it has polled it.                                              *)
LevelSeen(p, n) ==
  /\ input[p][n] = sensor[p][n]
  /\ gate_pc \in {"wait_change", "wait_trigger"} /\ IsAt(gate_command, p, n)
       => old_sensor_value = input[p][n]

SensorMoves(p, n) ==
  /\ Plant # "still"
  /\ Plant = "driven" => latch[p][n] /\ LevelSeen(p, n)
  /\ SensorToggle(p, n)
  /\ moved' = (moved \/ IsAt(gate_command, p, n))
  /\ UNCHANGED <<gate_queue, gate_created, gate_pc, gate_command,
                 old_sensor_value>>

Next ==
  \/ \E g \in Commands : send_gate_command(g)
  \/ gate_controller_task
  \/ gate_queue_panic
  \/ ScanTask
  \/ ScanPanic
  \/ AnyTaskPanic
  \/ \E p \in Ports, n \in Pins : SensorMoves(p, n)

Spec == Init /\ [][Next]_vars

(* Both tasks are ready whenever they are not asleep for a tick, at the    *)
(* same priority, on cores that share time slices between equals (in       *)
(* Board, they are not stated to be fair but shown to be).  A              *)
(* motor that is driven moves its gate past the sensor again and again.    *)
FairSpec ==
  /\ Spec
  /\ WF_vars(ScanTask \/ ScanPanic)
  /\ WF_vars(gate_controller_task)
  /\ \A p \in Ports, n \in Pins : WF_vars(SensorMoves(p, n))

-----------------------------------------------------------------------------
(* The implementation of GateService *)

(* The commands on their way, oldest first: the one io_scan_task holds,    *)
(* those on its queue, the one the gate task has not passed on yet, and    *)
(* those on the gate queue.                                                *)
Scanned == IF scan_pc = "write" THEN <<command>> ELSE <<>>
Taken   == IF gate_pc \in {"read_old", "enqueue"}
             THEN <<OutputOf(gate_command)>> ELSE <<>>
OutputsOf(q) == [i \in 1 .. Len(q) |-> OutputOf(q[i])]

Pipeline == Scanned \o (command_queue \o (Taken \o OutputsOf(gate_queue)))

Service == INSTANCE GateService WITH
  pending  <- Pipeline,
  outputs  <- output,
  CAPACITY <- GATE_QUEUE_LEN + 3

(* A gate command that send_gate_command put on the gate queue is written  *)
(* to its output exactly once and in the order of sending; the two queues, *)
(* the two tasks and the wait loops between them lose, repeat and reorder  *)
(* nothing, whatever the bus and the sensors do, unless the chip restarts. *)
ImplementsService == Service!Spec

(* Seen from the I/O driver, the gate task is one of the producers it      *)
(* allows for: the properties of IoDriver hold of the composition.         *)
ImplementsIoDriver == IoSpec

-----------------------------------------------------------------------------
(* Properties *)

(* The scan will take a command from its queue before it next publishes    *)
(* port p.                                                                 *)
TakesBeforePublishing(p) ==
  \/ scan_pc \notin LoopPcs
  \/ scan_pc = "receive"
  \/ scan_pc \in {"sample", "publish"} /\ port > p

(* Why two entries are the most command_queue ever holds.  A gate command  *)
(* takes two changes of its sensor's byte, so two publications of its      *)
(* port, and between two publications of a port the scan always takes a    *)
(* command.                                                                *)
HandshakeInv ==
  LET n == Len(command_queue)
      changed == SensorOf(gate_command) # old_sensor_value
      takes == TakesBeforePublishing(RowOf(gate_command))
  IN /\ ~queue_created => n = 0
     /\ scan_pc \in BootPcs => ~queue_created
     /\ gate_pc \in {"receive", "read_old"} => n <= 1
     /\ gate_pc = "enqueue" => n <= 1 /\ (changed => takes \/ n = 0)
     /\ gate_pc = "wait_change" => n <= 2 /\ (changed => takes \/ n <= 1)
     /\ gate_pc = "wait_trigger" =>
          n <= 2 /\ (n = 2 => takes /\ ~changed)

(* The gate task never finds the I/O driver's queue full, so it never      *)
(* waits for the sensor of a motor that nobody was asked to start: the     *)
(* "Failed to send command to queue" of io_driver.c cannot happen as long  *)
(* as the gate task is the only producer.                                  *)
OutputQueueNeverFull ==
  gate_pc = "enqueue" => Len(command_queue) < QUEUE_LEN

(* The task goes from its second wait loop to the next command (a restart, *)
(* which leaves no queue, is not that).                                    *)
CommandEnds ==
  /\ gate_pc = "wait_trigger"
  /\ gate_pc' = "receive"
  /\ queue_created'

(* A gate command does not end unless its sensor moved after the task took *)
(* it.  The task compares with an image that may be older than the         *)
(* command: one change it sees may have happened before, or be the zeros   *)
(* of .bss giving way to the first sample.  The second is always new, if   *)
(* the bus works and a sensor level lasts until it has been seen.          *)
DoneOnlyIfMoved == [][CommandEnds => moved]_vars

-----------------------------------------------------------------------------
(* What a comment of the code says, and the code does not always do *)

(* gate_driver.c:27 "send gate command to hardware": the command at the    *)
(* head of the gate queue is eventually taken and handed to the I/O driver *)
(* (or the chip restarts).  It holds as long as every command starts a     *)
(* motor that moves; it does not once GATE_STOP_COMMAND is sent, whose     *)
(* sensor never moves again: the task spins for good and the commands      *)
(* behind it stay where they are.                                          *)
SentToHardware ==
  \A g \in Commands :
    (gate_queue # <<>> /\ Head(gate_queue) = g)
      ~> (gate_pc = "enqueue" /\ gate_command = g) \/ ~queue_created

(* gate_driver.c:146 "start motor util receive sensor signal": when the    *)
(* sensor has changed twice and the command ends, its motor is off or a    *)
(* command that switches it off is on its way.  The task sends none.       *)
MotorUntilSignal ==
  [][CommandEnds =>
       LET c == OutputOf(gate_command) IN
       \/ ~latch'[RowOf(gate_command)][ColOf(gate_command)]
       \/ \E i \in DOMAIN command_queue' :
            command_queue'[i] = [c EXCEPT !.state = FALSE]]_vars
=============================================================================
