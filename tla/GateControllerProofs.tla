------------------------ MODULE GateControllerProofs ------------------------
(***************************************************************************)
(* Proofs about the gate controller on top of the I/O driver, for any      *)
(* number of ports and pins, any lengths of the two queues (the output     *)
(* queue has room for two), any set of gate commands inside the image, any *)
(* combination of faults and any behaviour of the sensors; only when a     *)
(* command may end depends on the bus and on how slowly the sensors        *)
(* change.                                                                 *)
(***************************************************************************)
EXTENDS GateController, IoDriverProofs, SequenceTheorems

(* What a gate command asks of the I/O driver is an output command, whose  *)
(* cell, and that of its sensor, is in the image.                          *)
LEMMA OutputOfType ==
  ASSUME NEW g \in GateCommand
  PROVE  /\ OutputOf(g) \in OutputCommand
         /\ RowOf(g) \in Ports /\ ColOf(g) \in Pins
<1>1. OutputOf(g) \in OutputCommand
  BY DEF GateCommand
<1>2. QED
  BY <1>1, CommandCell DEF RowOf, ColOf

(* The zeroed gate command is one.                                         *)
LEMMA NoGateCommandType == NoGateCommand \in GateCommand
<1>1. 0 \in Ports /\ 0 \in Pins
  BY IoAssumption DEF Ports, Pins
<1>2. [port |-> 0, pin |-> 0, state |-> FALSE] \in OutputCommand
  BY <1>1, PinCommand
<1>3. OutputOf(NoGateCommand) = [port |-> 0, pin |-> 0, state |-> FALSE]
  <2>1. 0 % 256 = 0
    OBVIOUS
  <2>2. NoGateCommand.position = 0 /\ NoGateCommand.gate_no = 0
          /\ (NoGateCommand.command_name # GATE_STOP_COMMAND) = FALSE
    BY DEF NoGateCommand
  <2>3. QED
    BY <2>1, <2>2, Zenon DEF OutputOf, BYTE
<1>4. QED
  BY <1>2, <1>3 DEF NoGateCommand, GateCommand, BYTE, GATE_STOP_COMMAND,
                    GATE_OPEN_COMMAND

(* The initial values of the gate task are well typed.                     *)
LEMMA GateRestartTypes ==
  ASSUME GateRestart
  PROVE  GateTypeOK'
<1>1. gate_queue' \in Seq(GateCommand) /\ Len(gate_queue') <= GATE_QUEUE_LEN
  BY GateAssumption DEF GateRestart
<1>2. gate_created' \in BOOLEAN
  BY DEF GateRestart, QueueHandles
<1>3. QED
  BY <1>1, <1>2, NoGateCommandType DEF GateRestart, GateTypeOK, GatePcs

(* Every step of the composition is a step, or a stutter, of the I/O       *)
(* driver among arbitrary producers.                                       *)
LEMMA StepIsIoStep ==
  ASSUME GateTypeOK, [Next]_vars
  PROVE  [IoNext]_ioVars
<1>1. ASSUME gate_enqueue
      PROVE  [IoNext]_ioVars
  <2>1. OutputOf(gate_command) \in OutputCommand
    BY OutputOfType DEF GateTypeOK
  <2>2. QED
    BY <1>1, <2>1 DEF gate_enqueue, IoNext
<1>2. ASSUME NEW p \in Ports, NEW n \in Pins, SensorMoves(p, n)
      PROVE  [IoNext]_ioVars
  BY <1>2 DEF SensorMoves, IoNext
<1>3. ASSUME ScanTask \/ ScanPanic \/ AnyTaskPanic \/ gate_queue_panic
      PROVE  [IoNext]_ioVars
  BY <1>3 DEF ScanTask, ScanPanic, AnyTaskPanic, gate_queue_panic, IoNext
<1>4. QED
  BY <1>1, <1>2, <1>3
     DEF Next, vars, gate_controller_task, send_gate_command, gate_receive,
         gate_read_old, gate_wait_change, gate_wait_trigger

(* The gate task's own state stays well typed.                             *)
LEMMA GateTypeStep ==
  ASSUME TypeOK, [Next]_vars
  PROVE  GateTypeOK'
<1> USE DEF GatePcs
<1>1. ASSUME NEW g \in Commands, send_gate_command(g)
      PROVE  GateTypeOK'
  <2>1. g \in GateCommand
    BY GateAssumption
  <2>2. gate_queue' \in Seq(GateCommand) /\ Len(gate_queue') <= GATE_QUEUE_LEN
    <3>1. CASE Len(gate_queue) < GATE_QUEUE_LEN
      BY <1>1, <2>1, <3>1, AppendProperties, GateAssumption
         DEF send_gate_command, TypeOK, GateTypeOK
    <3>2. CASE ~(Len(gate_queue) < GATE_QUEUE_LEN)
      BY <1>1, <3>2 DEF send_gate_command, TypeOK, GateTypeOK
    <3>3. QED
      BY <3>1, <3>2
  <2>3. QED
    BY <1>1, <2>2 DEF send_gate_command, TypeOK, GateTypeOK
<1>2. CASE gate_receive
  <2>1. /\ Head(gate_queue) \in GateCommand
        /\ Tail(gate_queue) \in Seq(GateCommand)
        /\ Len(Tail(gate_queue)) = Len(gate_queue) - 1
        /\ Len(gate_queue) \in Nat
    BY <1>2, HeadTailProperties DEF gate_receive, TypeOK, GateTypeOK
  <2>2. gate_queue' \in Seq(GateCommand) /\ Len(gate_queue') <= GATE_QUEUE_LEN
    <3>1. Len(gate_queue) <= GATE_QUEUE_LEN /\ GATE_QUEUE_LEN \in Nat
      BY GateAssumption DEF TypeOK, GateTypeOK
    <3>2. gate_queue' = Tail(gate_queue)
      BY <1>2 DEF gate_receive
    <3>3. QED
      BY <2>1, <3>1, <3>2
  <2>3. QED
    BY <1>2, <2>1, <2>2 DEF gate_receive, TypeOK, GateTypeOK
<1>3. ASSUME NEW g \in GateCommand
      PROVE  SensorOf(g) \in BOOLEAN
  BY <1>3, OutputOfType DEF SensorOf, TypeOK, IoTypeOK, PortValue
<1>4. CASE gate_read_old
  BY <1>3, <1>4 DEF gate_read_old, TypeOK, GateTypeOK
<1>5. CASE gate_enqueue
  BY <1>5, GateRestartTypes DEF gate_enqueue, TypeOK, GateTypeOK
<1>6. CASE gate_wait_change
  BY <1>3, <1>6 DEF gate_wait_change, SensorChanged, TypeOK, GateTypeOK
<1>7. CASE gate_wait_trigger
  BY <1>3, <1>7, NoGateCommandType
     DEF gate_wait_trigger, SensorChanged, TypeOK, GateTypeOK
<1>8. CASE ScanPanic \/ AnyTaskPanic \/ gate_queue_panic
  BY <1>8, GateRestartTypes DEF ScanPanic, AnyTaskPanic, gate_queue_panic
<1>9. CASE UNCHANGED gateVars
  BY <1>9 DEF gateVars, TypeOK, GateTypeOK
<1>10. ASSUME NEW p \in Ports, NEW n \in Pins, SensorMoves(p, n)
       PROVE  GateTypeOK'
  BY <1>10 DEF SensorMoves, TypeOK, GateTypeOK
<1>11. QED
  BY <1>1, <1>2, <1>4, <1>5, <1>6, <1>7, <1>8, <1>9, <1>10
     DEF Next, vars, gate_controller_task, ScanTask

(* The composition stays well typed; in particular the gate queue never    *)
(* holds more than GATE_QUEUE_LEN commands.                                *)
THEOREM GateTypeCorrect == Spec => []TypeOK
<1>1. Init => TypeOK
  <2>1. Init => IoTypeOK
    BY IoInitTypes DEF Init
  <2>2. Init => GateTypeOK
    <3>1. Init => gate_created \in BOOLEAN
      BY DEF Init, QueueHandles
    <3>2. Init => /\ gate_queue \in Seq(GateCommand)
                  /\ Len(gate_queue) <= GATE_QUEUE_LEN
      BY GateAssumption DEF Init
    <3>3. QED
      BY <3>1, <3>2, NoGateCommandType DEF Init, GateTypeOK, GatePcs
  <2>3. QED
    BY <2>1, <2>2 DEF TypeOK
<1>2. TypeOK /\ [Next]_vars => TypeOK'
  <2> SUFFICES ASSUME TypeOK, [Next]_vars
               PROVE  TypeOK'
    OBVIOUS
  <2>1. IoTypeOK'
    BY StepIsIoStep, IoTypeStep DEF TypeOK
  <2>2. QED
    BY <2>1, GateTypeStep DEF TypeOK
<1>3. QED
  BY <1>1, <1>2, PTL DEF Spec

(* Seen from the I/O driver the gate task is one more producer, so every   *)
(* safety theorem of IoDriverProofs holds of the board as a whole.         *)
THEOREM RefinesIoDriver == Spec => ImplementsIoDriver
<1>1. Init => IoInit
  BY DEF Init
<1>2. TypeOK /\ [Next]_vars => [IoNext]_ioVars
  BY StepIsIoStep DEF TypeOK
<1>3. QED
  BY <1>1, <1>2, GateTypeCorrect, PTL DEF Spec, ImplementsIoDriver, IoSpec

-----------------------------------------------------------------------------
(* HandshakeInv looks only at these variables.                             *)
handshakeVars ==
  <<input, command_queue, queue_created, scan_pc, port, gate_pc,
    gate_command, old_sensor_value>>

(* An empty queue satisfies the handshake, whatever the two tasks do.      *)
LEMMA EmptyHandshake ==
  ASSUME command_queue' = <<>>, scan_pc' \in BootPcs => ~queue_created'
  PROVE  HandshakeInv'
<1>1. Len(command_queue') = 0
  OBVIOUS
<1>2. QED
  BY <1>1 DEF HandshakeInv

(* Until queue_init is done there is no queue to put a command on.         *)
LEMMA BootHandshake ==
  ASSUME TypeOK, HandshakeInv,
         init_i2c \/ reset_write \/ reset_sample \/ reset_publish
           \/ queue_init,
         UNCHANGED gateVars
  PROVE  HandshakeInv'
<1>1. Len(command_queue) = 0 /\ ~queue_created
  BY DEF HandshakeInv, init_i2c, reset_write, reset_sample, reset_publish,
         queue_init, BootPcs
<1>2. command_queue' = <<>>
  BY <1>1, EmptySeq
     DEF TypeOK, IoTypeOK, init_i2c, reset_write, reset_sample,
         reset_publish, queue_init, ramVars
<1>3. scan_pc' \in BootPcs => ~queue_created'
  BY <1>1 DEF init_i2c, reset_write, reset_sample, reset_publish,
              queue_init, ramVars, BootPcs
<1>4. QED
  BY <1>2, <1>3, EmptyHandshake

(* The loop of io_scan_task: a command is taken between two publications   *)
(* of the same port.                                                       *)
LEMMA ScanHandshake ==
  ASSUME TypeOK, HandshakeInv,
         scan_receive \/ scan_write \/ scan_sample \/ scan_publish,
         UNCHANGED gateVars
  PROVE  HandshakeInv'
<1> USE DEF HandshakeInv, TakesBeforePublishing, gateVars, LoopPcs, BootPcs
<1>0. Len(command_queue) \in Nat
  BY LenProperties DEF TypeOK, IoTypeOK
<1>1. CASE scan_receive
  <2>1. CASE command_queue = <<>>
    BY <1>1, <2>1, EmptyHandshake DEF scan_receive
  <2>2. CASE command_queue # <<>>
    <3>1. Len(command_queue') = Len(command_queue) - 1
      BY <1>1, <2>2, HeadTailProperties DEF scan_receive, TypeOK, IoTypeOK
    <3>2. Len(command_queue) > 0
      BY <2>2, EmptySeq DEF TypeOK, IoTypeOK
    <3>3. SensorOf(gate_command)' = SensorOf(gate_command)
      BY <1>1 DEF scan_receive, SensorOf
    <3>4. UNCHANGED <<port, queue_created, gateVars>>
            /\ scan_pc = "receive" /\ scan_pc' = "write"
      BY <1>1, <2>2 DEF scan_receive
    <3>5. QED
      BY <1>0, <3>1, <3>2, <3>3, <3>4, SMTT(30)
  <2>3. QED
    BY <2>1, <2>2
<1>2. CASE scan_write
  BY <1>0, <1>2 DEF scan_write, SensorOf
<1>3. CASE scan_sample
  BY <1>0, <1>3 DEF scan_sample, ramVars, SensorOf
<1>4. CASE scan_publish
  <2>1. /\ port \in Nat
        /\ RowOf(gate_command) \in 0 .. PORT_NUM - 1
    BY OutputOfType DEF TypeOK, IoTypeOK, GateTypeOK, Ports
  <2>2. CASE port < RowOf(gate_command)
    <3>1. SensorOf(gate_command)' = SensorOf(gate_command)
      BY <1>4, <2>1, <2>2
         DEF scan_publish, PublishPort, SensorOf, TypeOK, IoTypeOK
    <3>2. QED
      BY <1>0, <1>4, <2>1, <2>2, <3>1 DEF scan_publish
  <2>3. CASE port = RowOf(gate_command)
    <3>1. TakesBeforePublishing(RowOf(gate_command))'
      BY <1>4, <2>1, <2>3 DEF scan_publish
    <3>2. ~TakesBeforePublishing(RowOf(gate_command))
      BY <1>4, <2>1, <2>3 DEF scan_publish
    <3>3. QED
      BY <1>0, <1>4, <3>1, <3>2 DEF scan_publish
  <2>4. CASE port > RowOf(gate_command)
    <3>1. SensorOf(gate_command)' = SensorOf(gate_command)
      BY <1>4, <2>1, <2>4
         DEF scan_publish, PublishPort, SensorOf, TypeOK, IoTypeOK
    <3>2. TakesBeforePublishing(RowOf(gate_command))'
      BY <1>4, <2>1, <2>4 DEF scan_publish
    <3>3. QED
      BY <1>0, <1>4, <3>1, <3>2 DEF scan_publish
  <2>5. QED
    BY <2>1, <2>2, <2>3, <2>4
<1>5. QED
  BY <1>1, <1>2, <1>3, <1>4

(* Of two at most, and not two, one at most is left.                       *)
LEMMA AtMostOne ==
  ASSUME NEW n \in Nat, n <= 2, n # 2
  PROVE  n <= 1
OBVIOUS

(* The steps of the gate task: it adds one command, and then wants two     *)
(* changes of its sensor.                                                  *)
LEMMA GateHandshake ==
  ASSUME TypeOK, HandshakeInv, gate_controller_task
  PROVE  HandshakeInv'
<1> USE DEF HandshakeInv, ioVars, ramVars, taskVars
<1>0. Len(command_queue) \in Nat
  BY LenProperties DEF TypeOK, IoTypeOK
<1>t. \A p : UNCHANGED <<scan_pc, port>> =>
        TakesBeforePublishing(p)' = TakesBeforePublishing(p)
  BY DEF TakesBeforePublishing
<1>1. CASE gate_receive
  BY <1>0, <1>1 DEF gate_receive
<1>2. CASE gate_read_old
  BY <1>0, <1>2 DEF gate_read_old, SensorOf
<1>3. CASE gate_enqueue
  <2>1. CASE queue_created /\ ~Restart
    <3>1. /\ Len(command_queue') \in Nat
          /\ Len(command_queue') <= Len(command_queue) + 1
      <4>1. OutputOf(gate_command) \in OutputCommand
        BY OutputOfType DEF TypeOK, GateTypeOK
      <4>2. QED
        BY <1>0, <1>3, <2>1, <4>1, AppendProperties
           DEF gate_enqueue, command_enqueue, TypeOK, IoTypeOK
    <3>2. SensorOf(gate_command)' = SensorOf(gate_command)
      BY <1>3, <2>1 DEF gate_enqueue, command_enqueue, SensorOf
    <3>3. QED
      BY <1>0, <1>t, <1>3, <2>1, <3>1, <3>2
         DEF gate_enqueue, command_enqueue
  <2>2. CASE Restart
    BY <2>2, EmptyHandshake DEF Restart
  <2>3. QED
    BY <1>3, <2>1, <2>2 DEF gate_enqueue, command_enqueue
<1>4. CASE gate_wait_change
  <2>1. SensorOf(gate_command)' = old_sensor_value'
    BY <1>4 DEF gate_wait_change, SensorChanged, SensorOf
  <2>2. QED
    BY <1>0, <1>t, <1>4, <2>1 DEF gate_wait_change, SensorChanged
<1>5. CASE gate_wait_trigger
  <2>1. Len(command_queue) <= 1
    <3>1. SensorOf(gate_command) # old_sensor_value
      BY <1>5 DEF gate_wait_trigger, SensorChanged
    <3>2. gate_pc = "wait_trigger"
      BY <1>5 DEF gate_wait_trigger
    <3>3. Len(command_queue) <= 2 /\ Len(command_queue) # 2
      BY <3>1, <3>2, Zenon
    <3>4. QED
      BY <1>0, <3>3, AtMostOne
  <2>2. command_queue' = command_queue /\ gate_pc' = "receive"
          /\ UNCHANGED <<scan_pc, queue_created>>
    BY <1>5 DEF gate_wait_trigger
  <2>3. QED
    BY <1>0, <2>1, <2>2
<1>6. QED
  BY <1>1, <1>2, <1>3, <1>4, <1>5 DEF gate_controller_task

(* The handshake through io_data.input holds whatever the bus, the sensors *)
(* and the other tasks do.                                                 *)
THEOREM HandshakeHolds == Spec => []HandshakeInv
<1>1. Init => HandshakeInv
  BY DEF Init, IoInit, HandshakeInv, BootPcs
<1>2. TypeOK /\ HandshakeInv /\ [Next]_vars => HandshakeInv'
  <2> SUFFICES ASSUME TypeOK, HandshakeInv, [Next]_vars
               PROVE  HandshakeInv'
    OBVIOUS
  <2>1. CASE gate_controller_task
    BY <2>1, GateHandshake
  <2>2. CASE ScanTask
    BY <2>2, BootHandshake, ScanHandshake DEF ScanTask, io_scan_task
  <2>3. CASE Restart
    BY <2>3, EmptyHandshake DEF Restart
  <2>4. CASE UNCHANGED handshakeVars
    BY <2>4 DEF handshakeVars, HandshakeInv, TakesBeforePublishing, SensorOf
  <2>5. QED
    BY <2>1, <2>2, <2>3, <2>4
       DEF Next, vars, gateVars, handshakeVars, send_gate_command, ScanPanic,
           scan_receive_panic, AnyTaskPanic, OtherTaskPanic,
           gate_queue_panic, SensorMoves, SensorToggle, ioVars, ramVars,
           taskVars
<1>3. QED
  BY <1>1, <1>2, GateTypeCorrect, PTL DEF Spec

(* With room for two commands the I/O driver's queue is never full when    *)
(* the gate task calls command_enqueue, so no command of the gate task is  *)
(* ever dropped there.                                                     *)
THEOREM NoOutputCommandDropped ==
  ASSUME QUEUE_LEN >= 2
  PROVE  Spec => []OutputQueueNeverFull
<1>1. TypeOK /\ HandshakeInv => OutputQueueNeverFull
  BY IoAssumption, LenProperties
     DEF HandshakeInv, OutputQueueNeverFull, TypeOK, IoTypeOK
<1>2. QED
  BY <1>1, GateTypeCorrect, HandshakeHolds, PTL

-----------------------------------------------------------------------------
(* When a command may end *)

(* No transaction of the bus fails, and its driver can be installed. *)
BusWorks == Faults \cap {"bus", "i2c"} = {}

(* The byte io_scan_task holds shows, of every pin, what the sensor shows  *)
(* now or what has been published already: a level is not passed over.     *)
LevelsRead ==
  /\ scan_pc # "init_i2c" => installed
  /\ scan_pc \in {"reset_publish", "publish"} =>
       \A n \in Pins : read_value[n] \in {input[port][n], sensor[port][n]}

(* While the gate stands still there is one change at most for the task to *)
(* see, the one that its image was behind; after it there is none.         *)
OneChangeAtMost ==
  LET g     == gate_command
      level == sensor[RowOf(g)][ColOf(g)]
  IN ~moved =>
       /\ gate_pc \in {"enqueue", "wait_change"} =>
            SensorOf(g) \in {old_sensor_value, level}
       /\ gate_pc = "wait_trigger" =>
            SensorOf(g) = old_sensor_value /\ SensorOf(g) = level

(* A byte is read as the sensors show it, is published, and a sensor that  *)
(* moves in between is one whose level had been published.                 *)
LEMMA LevelsReadStep ==
  ASSUME BusWorks, Plant # "free", TypeOK, LevelsRead, [Next]_vars
  PROVE  LevelsRead'
<1> USE DEF LevelsRead
<1>1. CASE Restart
  BY <1>1 DEF Restart
<1>2. CASE ScanTask
  <2>1. CASE init_i2c
    BY <2>1 DEF init_i2c, BusWorks
  <2>2. CASE reset_sample \/ scan_sample
    BY <2>2 DEF reset_sample, scan_sample, SamplePort, BusMayFail, BusWorks,
                ramVars
  <2>3. CASE reset_write \/ reset_publish \/ queue_init \/ scan_receive
               \/ scan_write \/ scan_publish
    BY <2>3 DEF reset_write, reset_publish, queue_init, scan_receive,
                scan_write, scan_publish
  <2>4. QED
    BY <1>2, <2>1, <2>2, <2>3 DEF ScanTask, io_scan_task
<1>3. ASSUME NEW p \in Ports, NEW n \in Pins, SensorMoves(p, n)
      PROVE  LevelsRead'
  <2>1. /\ input[p][n] = sensor[p][n]
        /\ sensor' = [sensor EXCEPT ![p][n] = ~@]
        /\ UNCHANGED <<installed, scan_pc, port, read_value, input>>
    BY <1>3, GateAssumption
       DEF SensorMoves, LevelSeen, SensorToggle, ramVars, taskVars
  <2>2. /\ sensor \in [Ports -> [Pins -> BOOLEAN]]
        /\ input \in [Ports -> [Pins -> BOOLEAN]]
        /\ read_value \in [Pins -> BOOLEAN]
        /\ port \in Ports
    BY DEF TypeOK, IoTypeOK, PortValue
  <2>3. \A q \in Ports, m \in Pins :
          sensor'[q][m] = IF q = p /\ m = n THEN ~sensor[q][m]
                                            ELSE sensor[q][m]
    BY <2>1, <2>2
  <2>4. QED
    BY <2>1, <2>2, <2>3
<1>4. CASE UNCHANGED <<installed, scan_pc, port, read_value, input, sensor>>
  BY <1>4
<1>5. QED
  BY <1>1, <1>2, <1>3, <1>4
     DEF Next, vars, gate_controller_task, gate_receive, gate_read_old,
         gate_enqueue, gate_wait_change, gate_wait_trigger, command_enqueue,
         send_gate_command, ScanPanic, scan_receive_panic, AnyTaskPanic,
         OtherTaskPanic, gate_queue_panic, ioVars, ramVars, taskVars

(* The image of the gate's sensor only changes to the level it has.        *)
LEMMA OneChangeStep ==
  ASSUME Plant # "free", TypeOK, LevelsRead, OneChangeAtMost, [Next]_vars
  PROVE  OneChangeAtMost'
<1> USE DEF OneChangeAtMost
<1>0. /\ RowOf(gate_command) \in Ports /\ ColOf(gate_command) \in Pins
      /\ port \in Ports
      /\ input \in [Ports -> [Pins -> BOOLEAN]]
      /\ sensor \in [Ports -> [Pins -> BOOLEAN]]
  BY OutputOfType DEF TypeOK, GateTypeOK, IoTypeOK, PortValue
<1>1. CASE GateRestart
  BY <1>1 DEF GateRestart
<1>2. CASE gate_receive
  BY <1>2 DEF gate_receive
<1>3. CASE gate_read_old
  BY <1>3 DEF gate_read_old, SensorOf, ioVars, ramVars
<1>4. CASE gate_enqueue /\ ~GateRestart
  BY <1>4 DEF gate_enqueue, command_enqueue, SensorOf, Restart
<1>5. CASE gate_wait_change
  BY <1>5 DEF gate_wait_change, SensorChanged, SensorOf, ioVars, ramVars
<1>6. CASE gate_wait_trigger
  BY <1>6 DEF gate_wait_trigger
<1>7. CASE ScanTask /\ (reset_publish \/ scan_publish)
  <2>1. /\ input' = [input EXCEPT ![port] = read_value]
        /\ UNCHANGED <<sensor, gate_pc, gate_command, old_sensor_value, moved>>
        /\ \A n \in Pins : read_value[n] \in {input[port][n], sensor[port][n]}
    BY <1>7 DEF reset_publish, scan_publish, PublishPort, ScanTask, gateVars,
                LevelsRead
  <2>2. SensorOf(gate_command)' \in
          {SensorOf(gate_command),
           sensor[RowOf(gate_command)][ColOf(gate_command)]}
    BY <1>0, <2>1 DEF SensorOf
  <2>3. QED
    BY <2>1, <2>2
<1>8. ASSUME NEW p \in Ports, NEW n \in Pins, SensorMoves(p, n)
      PROVE  OneChangeAtMost'
  <2>1. CASE IsAt(gate_command, p, n)
    BY <1>8, <2>1 DEF SensorMoves
  <2>2. CASE ~IsAt(gate_command, p, n)
    <3>1. /\ sensor' = [sensor EXCEPT ![p][n] = ~@]
          /\ UNCHANGED <<input, gate_pc, gate_command, old_sensor_value>>
          /\ moved' = moved
      BY <1>8, <2>2, <1>0
         DEF SensorMoves, SensorToggle, ramVars, TypeOK, GateTypeOK
    <3>2. sensor'[RowOf(gate_command)][ColOf(gate_command)]
            = sensor[RowOf(gate_command)][ColOf(gate_command)]
      BY <1>0, <2>2, <3>1 DEF IsAt
    <3>3. QED
      BY <3>1, <3>2 DEF SensorOf
  <2>3. QED
    BY <2>1, <2>2
<1>9. CASE UNCHANGED <<input, sensor, gate_pc, gate_command, old_sensor_value,
                       moved>>
  BY <1>9 DEF SensorOf
<1>10. QED
  BY <1>1, <1>2, <1>3, <1>4, <1>5, <1>6, <1>7, <1>8, <1>9
     DEF Next, vars, gateVars, gate_controller_task, send_gate_command,
         ScanTask, io_scan_task, init_i2c, reset_write, reset_sample,
         queue_init, scan_receive, scan_write, scan_sample, ScanPanic,
         AnyTaskPanic, gate_queue_panic, ioVars, ramVars

(* A command does not end before its gate has moved, if the bus works and  *)
(* a sensor's level lasts until it has been seen: of the two changes the   *)
(* task waits for, the image can have been behind by one.                  *)
THEOREM CommandMovesGate ==
  ASSUME BusWorks, Plant # "free"
  PROVE  Spec => DoneOnlyIfMoved
<1>1. Init => LevelsRead /\ OneChangeAtMost
  BY DEF Init, IoInit, LevelsRead, OneChangeAtMost
<1>2. TypeOK /\ LevelsRead /\ OneChangeAtMost /\ [Next]_vars
        => LevelsRead' /\ OneChangeAtMost'
  BY LevelsReadStep, OneChangeStep
<1>3. OneChangeAtMost /\ [Next]_vars => [CommandEnds => moved]_vars
  <2> SUFFICES ASSUME OneChangeAtMost, Next, CommandEnds
               PROVE  moved
    OBVIOUS
  <2>1. gate_wait_trigger
    BY DEF CommandEnds, Next, gate_controller_task, gate_receive,
           gate_read_old, gate_enqueue, gate_wait_change, send_gate_command,
           gate_queue_panic, ScanTask, ScanPanic, AnyTaskPanic, SensorMoves,
           scan_receive_panic, OtherTaskPanic, Restart, gateVars
  <2>2. QED
    BY <2>1 DEF gate_wait_trigger, SensorChanged, OneChangeAtMost
<1>4. QED
  BY <1>1, <1>2, <1>3, GateTypeCorrect, PTL DEF Spec, DoneOnlyIfMoved

-----------------------------------------------------------------------------
(* The gate controller implements GateService, for every value of the      *)
(* constants with room for two commands on the I/O driver's queue.         *)

(* The outputs of a queue of gate commands are a sequence of output        *)
(* commands, of the same length.                                           *)
LEMMA OutputsOfType ==
  ASSUME NEW q \in Seq(GateCommand)
  PROVE  /\ OutputsOf(q) \in Seq(OutputCommand)
         /\ Len(OutputsOf(q)) = Len(q)
         /\ \A i \in 1 .. Len(q) : OutputsOf(q)[i] = OutputOf(q[i])
<1>1. Len(q) \in Nat
  BY LenProperties
<1>2. \A i \in 1 .. Len(q) : OutputOf(q[i]) \in OutputCommand
  BY OutputOfType, ElementOfSeq
<1>3. OutputsOf(q) \in [1 .. Len(q) -> OutputCommand]
  BY <1>2 DEF OutputsOf
<1>4. OutputsOf(q) \in Seq(OutputCommand)
  BY <1>1, <1>3, SeqDef
<1>5. DOMAIN OutputsOf(q) = 1 .. Len(q)
  BY DEF OutputsOf
<1>6. Len(OutputsOf(q)) = Len(q)
  BY <1>1, <1>4, <1>5, LenProperties
<1>7. QED
  BY <1>4, <1>6 DEF OutputsOf

(* Sending a gate command appends its output.                              *)
LEMMA OutputsOfAppend ==
  ASSUME NEW q \in Seq(GateCommand), NEW g \in GateCommand
  PROVE  OutputsOf(Append(q, g)) = OutputsOf(q) \o <<OutputOf(g)>>
<1> DEFINE a == Append(q, g)
           s == OutputsOf(a)
           t == OutputsOf(q) \o <<OutputOf(g)>>
<1>1. /\ a \in Seq(GateCommand)
      /\ Len(a) = Len(q) + 1
      /\ \A i \in 1 .. Len(q) : a[i] = q[i]
      /\ a[Len(q) + 1] = g
      /\ Len(q) \in Nat
  BY AppendProperties, LenProperties
<1>2. OutputOf(g) \in OutputCommand
  BY OutputOfType
<1>3. <<OutputOf(g)>> \in Seq(OutputCommand) /\ Len(<<OutputOf(g)>>) = 1
        /\ <<OutputOf(g)>>[1] = OutputOf(g)
  BY <1>2
<1>4. /\ OutputsOf(q) \in Seq(OutputCommand)
      /\ Len(OutputsOf(q)) = Len(q)
      /\ \A i \in 1 .. Len(q) : OutputsOf(q)[i] = OutputOf(q[i])
  BY OutputsOfType
<1>5. /\ s \in Seq(OutputCommand)
      /\ Len(s) = Len(q) + 1
      /\ \A i \in 1 .. Len(q) + 1 : s[i] = OutputOf(a[i])
  <2> HIDE DEF a
  <2>1. QED
    BY <1>1, OutputsOfType
<1>6. /\ t \in Seq(OutputCommand)
      /\ Len(t) = Len(q) + 1
      /\ \A i \in 1 .. Len(q) + 1 :
           t[i] = IF i <= Len(q) THEN OutputsOf(q)[i]
                                 ELSE <<OutputOf(g)>>[i - Len(q)]
  BY <1>3, <1>4, ConcatProperties
<1>7. ASSUME NEW i \in 1 .. Len(q) + 1
      PROVE  s[i] = t[i]
  <2> HIDE DEF a, s, t
  <2>1. CASE i <= Len(q)
    BY <1>1, <1>4, <1>5, <1>6, <2>1
  <2>2. CASE i = Len(q) + 1
    BY <1>1, <1>3, <1>5, <1>6, <2>2
  <2>3. QED
    BY <1>1, <2>1, <2>2
<1>8. QED
  <2> HIDE DEF s, t
  <2>1. s = t
    BY <1>5, <1>6, <1>7, SeqEqual
  <2>2. QED
    BY <2>1 DEF s, t

(* A nonempty sequence is its head before its tail.                        *)
LEMMA HeadThenTail ==
  ASSUME NEW S, NEW s \in Seq(S), s # <<>>
  PROVE  s = <<Head(s)>> \o Tail(s)
<1> DEFINE t == <<Head(s)>> \o Tail(s)
<1>1. /\ Head(s) \in S
      /\ Tail(s) \in Seq(S)
      /\ Len(Tail(s)) = Len(s) - 1
      /\ \A i \in 1 .. Len(Tail(s)) : Tail(s)[i] = s[i + 1]
      /\ Head(s) = s[1]
  BY HeadTailProperties
<1>2. Len(s) \in Nat \ {0}
  BY EmptySeq
<1>3. <<Head(s)>> \in Seq(S) /\ Len(<<Head(s)>>) = 1
        /\ <<Head(s)>>[1] = s[1]
  BY <1>1
<1>4. /\ t \in Seq(S)
      /\ Len(t) = Len(s)
      /\ \A i \in 1 .. Len(s) :
           t[i] = IF i <= 1 THEN <<Head(s)>>[i] ELSE Tail(s)[i - 1]
  BY <1>1, <1>2, <1>3, ConcatProperties
<1>5. ASSUME NEW i \in 1 .. Len(s)
      PROVE  s[i] = t[i]
  <2> HIDE DEF t
  <2>1. CASE i = 1
    BY <1>2, <1>3, <1>4, <2>1
  <2>2. CASE i > 1
    <3>1. i - 1 \in 1 .. Len(Tail(s))
      BY <1>1, <1>2, <2>2
    <3>2. Tail(s)[i - 1] = s[i]
      BY <1>1, <1>2, <2>2, <3>1
    <3>3. QED
      BY <1>2, <1>4, <2>2, <3>2
  <2>3. QED
    BY <1>2, <2>1, <2>2
<1>6. QED
  <2> HIDE DEF t
  <2>1. s = t
    BY <1>4, <1>5, SeqEqual
  <2>2. QED
    BY <2>1 DEF t

(* The head and the tail of a sequence put together from them.             *)
LEMMA HeadTailOfCons ==
  ASSUME NEW S, NEW e \in S, NEW s \in Seq(S)
  PROVE  /\ <<e>> \o s # <<>>
         /\ Head(<<e>> \o s) = e
         /\ Tail(<<e>> \o s) = s
<1> DEFINE t == <<e>> \o s
<1>1. Len(s) \in Nat
  BY LenProperties
<1>2. <<e>> \in Seq(S) /\ Len(<<e>>) = 1 /\ <<e>>[1] = e
  OBVIOUS
<1>3. /\ t \in Seq(S)
      /\ Len(t) = Len(s) + 1
      /\ \A i \in 1 .. Len(s) + 1 :
           t[i] = IF i <= 1 THEN <<e>>[i] ELSE s[i - 1]
  BY <1>1, <1>2, ConcatProperties
<1> HIDE DEF t
<1>4. t # <<>> /\ Head(t) = e
  BY <1>1, <1>2, <1>3
<1>5. /\ Tail(t) \in Seq(S)
      /\ Len(Tail(t)) = Len(s)
      /\ \A i \in 1 .. Len(Tail(t)) : Tail(t)[i] = t[i + 1]
  BY <1>1, <1>3, <1>4, HeadTailProperties
<1>6. \A i \in 1 .. Len(s) : Tail(t)[i] = s[i]
  BY <1>1, <1>3, <1>5
<1>7. Tail(t) = s
  BY <1>5, <1>6, SeqEqual
<1>8. QED
  BY <1>4, <1>7 DEF t

(* Taking a gate command takes the first output.                           *)
LEMMA OutputsOfTail ==
  ASSUME NEW q \in Seq(GateCommand), q # <<>>
  PROVE  OutputsOf(q) = <<OutputOf(Head(q))>> \o OutputsOf(Tail(q))
<1> DEFINE s == OutputsOf(q)
<1>1. /\ s \in Seq(OutputCommand)
      /\ Len(s) = Len(q)
      /\ \A i \in 1 .. Len(q) : s[i] = OutputOf(q[i])
  BY OutputsOfType
<1>2. Len(q) \in Nat \ {0}
  BY EmptySeq
<1>3. /\ Head(q) \in GateCommand
      /\ Head(q) = q[1]
      /\ Tail(q) \in Seq(GateCommand)
      /\ Len(Tail(q)) = Len(q) - 1
      /\ \A i \in 1 .. Len(Tail(q)) : Tail(q)[i] = q[i + 1]
  BY HeadTailProperties
<1>4. /\ OutputsOf(Tail(q)) \in Seq(OutputCommand)
      /\ Len(OutputsOf(Tail(q))) = Len(q) - 1
      /\ \A i \in 1 .. Len(q) - 1 :
           OutputsOf(Tail(q))[i] = OutputOf(q[i + 1])
  <2> DEFINE u == Tail(q)
  <2>1. /\ u \in Seq(GateCommand)
        /\ Len(u) = Len(q) - 1
        /\ \A i \in 1 .. Len(u) : u[i] = q[i + 1]
    BY <1>3
  <2> HIDE DEF u
  <2>2. /\ OutputsOf(u) \in Seq(OutputCommand)
        /\ Len(OutputsOf(u)) = Len(u)
        /\ \A i \in 1 .. Len(u) : OutputsOf(u)[i] = OutputOf(u[i])
    BY <2>1, OutputsOfType
  <2>3. \A i \in 1 .. Len(q) - 1 : OutputsOf(u)[i] = OutputOf(q[i + 1])
    BY <2>1, <2>2
  <2>4. QED
    BY <2>1, <2>2, <2>3 DEF u
<1>5. s # <<>> /\ Head(s) = OutputOf(Head(q))
  <2> HIDE DEF s
  <2>1. QED
    BY <1>1, <1>2, <1>3
<1>6. /\ Tail(s) \in Seq(OutputCommand)
      /\ Len(Tail(s)) = Len(q) - 1
      /\ \A i \in 1 .. Len(q) - 1 : Tail(s)[i] = s[i + 1]
  <2> HIDE DEF s
  <2>1. QED
    BY <1>1, <1>5, HeadTailProperties
<1>7. Tail(s) = OutputsOf(Tail(q))
  <2> HIDE DEF s
  <2>1. \A i \in 1 .. Len(q) - 1 : Tail(s)[i] = OutputsOf(Tail(q))[i]
    BY <1>1, <1>2, <1>4, <1>6
  <2>2. QED
    BY <1>4, <1>6, <2>1, SeqEqual
<1>8. QED
  <2> HIDE DEF s
  <2>1. s = <<Head(s)>> \o Tail(s)
    BY <1>1, <1>5, HeadThenTail
  <2>2. QED
    BY <1>5, <1>7, <2>1 DEF s

-----------------------------------------------------------------------------
(* The parts of the pipeline are sequences of output commands.             *)
LEMMA PartTypes ==
  ASSUME TypeOK
  PROVE  /\ Scanned \in Seq(OutputCommand) /\ Len(Scanned) <= 1
         /\ command_queue \in Seq(OutputCommand)
         /\ Taken \in Seq(OutputCommand) /\ Len(Taken) <= 1
         /\ OutputsOf(gate_queue) \in Seq(OutputCommand)
         /\ Len(OutputsOf(gate_queue)) = Len(gate_queue)
<1>1. Scanned \in Seq(OutputCommand) /\ Len(Scanned) <= 1
  BY DEF Scanned, TypeOK, IoTypeOK
<1>2. OutputOf(gate_command) \in OutputCommand
  BY OutputOfType DEF TypeOK, GateTypeOK
<1>3. Taken \in Seq(OutputCommand) /\ Len(Taken) <= 1
  BY <1>2 DEF Taken
<1>4. gate_queue \in Seq(GateCommand) /\ command_queue \in Seq(OutputCommand)
  BY DEF TypeOK, GateTypeOK, IoTypeOK
<1>5. QED
  BY <1>1, <1>3, <1>4, OutputsOfType

(* The service has the board's image of the outputs.                       *)
LEMMA ServiceImage ==
  /\ Service!OutputCommand = OutputCommand
  /\ Service!AllOutputsOff = [p \in Ports |-> AllOff]
  /\ \A c : Service!Row(c) = Row(c) /\ Service!Col(c) = Col(c)
BY DEF Service!OutputCommand, Service!AllOutputsOff, Service!AllOff,
       Service!Row, Service!Col, Service!Ports, Service!Pins, Service!Cells,
       OutputCommand, AllOff, Row, Col, Ports, Pins, Cells

(* An accepted gate command enters at the end of the pipeline, which has   *)
(* room for it.                                                            *)
LEMMA SendAccepts ==
  ASSUME TypeOK, HandshakeInv, NEW g \in Commands, send_gate_command(g)
  PROVE  [Service!Next]_(Service!vars)
<1>1. g \in GateCommand /\ OutputOf(g) \in OutputCommand
  BY GateAssumption, OutputOfType
<1>2. /\ UNCHANGED <<Scanned, Taken, command_queue, output>>
  BY DEF send_gate_command, ioVars, ramVars, taskVars, Scanned, Taken
<1>3. CASE Len(gate_queue) < GATE_QUEUE_LEN
  <2> DEFINE A == Scanned
             B == command_queue
             C == Taken
             D == OutputsOf(gate_queue)
             e == OutputOf(g)
  <2>1. OutputsOf(gate_queue)' = D \o <<e>>
    <3>1. gate_queue' = Append(gate_queue, g)
      BY <1>3 DEF send_gate_command
    <3>2. OutputsOf(gate_queue)' = OutputsOf(Append(gate_queue, g))
      BY <3>1 DEF OutputsOf
    <3>3. QED
      BY <1>1, <3>2, OutputsOfAppend DEF TypeOK, GateTypeOK
  <2>2. Pipeline' = A \o (B \o (C \o (D \o <<e>>)))
    BY <1>2, <2>1 DEF Pipeline
  <2>3. Pipeline = A \o (B \o (C \o D))
    BY DEF Pipeline
  <2>4. /\ A \in Seq(OutputCommand) /\ Len(A) <= 1
        /\ B \in Seq(OutputCommand)
        /\ C \in Seq(OutputCommand) /\ Len(C) <= 1
        /\ D \in Seq(OutputCommand) /\ Len(D) = Len(gate_queue)
        /\ e \in OutputCommand
    BY <1>1, PartTypes
  <2>5. /\ Len(B) <= 2
        /\ C # <<>> => Len(B) <= 1
    BY DEF HandshakeInv, Taken, GatePcs, TypeOK, GateTypeOK
  <2> HIDE DEF A, B, C, D, e
  <2>7. /\ C \o D \in Seq(OutputCommand)
        /\ B \o (C \o D) \in Seq(OutputCommand)
        /\ A \o (B \o (C \o D)) \in Seq(OutputCommand)
        /\ Len(A \o (B \o (C \o D))) = Len(A) + (Len(B) + (Len(C) + Len(D)))
    <3>1. C \o D \in Seq(OutputCommand) /\ Len(C \o D) = Len(C) + Len(D)
      BY <2>4, ConcatProperties
    <3>2. /\ B \o (C \o D) \in Seq(OutputCommand)
          /\ Len(B \o (C \o D)) = Len(B) + Len(C \o D)
      BY <2>4, <3>1, ConcatProperties
    <3>3. /\ A \o (B \o (C \o D)) \in Seq(OutputCommand)
          /\ Len(A \o (B \o (C \o D))) = Len(A) + Len(B \o (C \o D))
      BY <2>4, <3>2, ConcatProperties
    <3>4. QED
      BY <3>1, <3>2, <3>3
  <2>8. Pipeline' = Append(Pipeline, e)
    <3> DEFINE E == <<e>>
               X == C \o D
               Y == B \o X
               Z == A \o Y
    <3>1. E \in Seq(OutputCommand)
      BY <2>4
    <3>2. /\ X \in Seq(OutputCommand)
          /\ Y \in Seq(OutputCommand)
          /\ Z \in Seq(OutputCommand)
      BY <2>7
    <3>3. X \o E = C \o (D \o E)
      <4>1. C \in Seq(OutputCommand) /\ D \in Seq(OutputCommand)
        BY <2>4
      <4>2. QED
        BY <3>1, <4>1, ConcatAssociative
    <3> HIDE DEF E, X
    <3>4. Y \o E = B \o (X \o E)
      <4>1. B \in Seq(OutputCommand) /\ X \in Seq(OutputCommand)
        BY <2>4, <3>2
      <4>2. QED
        BY <3>1, <4>1, ConcatAssociative
    <3> HIDE DEF Y
    <3>5. Z \o E = A \o (Y \o E)
      <4>1. A \in Seq(OutputCommand) /\ Y \in Seq(OutputCommand)
        BY <2>4, <3>2
      <4>2. QED
        BY <3>1, <4>1, ConcatAssociative
    <3> HIDE DEF Z
    <3>6. Z \o <<e>> = Append(Z, e)
      BY <2>4, <3>2, AppendIsConcat
    <3>7. Pipeline = Z
      BY <2>3 DEF X, Y, Z
    <3>8. Pipeline' = Z \o <<e>>
      BY <2>2, <3>3, <3>4, <3>5 DEF E
    <3>9. QED
      BY <3>6, <3>7, <3>8
  <2>9. Len(Pipeline) < GATE_QUEUE_LEN + 3
    <3>1. Len(A) \in Nat /\ Len(B) \in Nat /\ Len(C) \in Nat
            /\ Len(D) \in Nat
      BY <2>4, LenProperties
    <3>2. Len(B) + Len(C) <= 2
      BY <2>4, <2>5, <3>1, EmptySeq
    <3>3. QED
      BY <1>3, <2>3, <2>4, <2>7, <3>1, <3>2, GateAssumption
  <2>10. e \in Service!OutputCommand
    BY <2>4, ServiceImage
  <2>11. Service!Accept(e)
    BY <1>2, <2>8, <2>9 DEF Service!Accept
  <2>12. QED
    BY <2>10, <2>11 DEF Service!Next
<1>4. CASE ~(Len(gate_queue) < GATE_QUEUE_LEN)
  BY <1>2, <1>4 DEF send_gate_command, Pipeline, OutputsOf, Service!vars
<1>5. QED
  BY <1>3, <1>4

(* io_scan_task takes a command from its queue: it stays first.            *)
LEMMA ScanReceiveStutters ==
  ASSUME TypeOK, scan_receive, UNCHANGED gateVars
  PROVE  UNCHANGED Service!vars
<1>1. UNCHANGED <<Taken, OutputsOf(gate_queue), output>>
  BY DEF scan_receive, gateVars, Taken, OutputsOf
<1>2. CASE command_queue = <<>>
  <2>1. UNCHANGED <<Scanned, command_queue>>
    BY <1>2 DEF scan_receive, Scanned
  <2>2. QED
    BY <1>1, <2>1 DEF Pipeline, Service!vars
<1>3. CASE command_queue # <<>>
  <2> DEFINE B == command_queue
             R == Taken \o OutputsOf(gate_queue)
             h == <<Head(B)>>
             t == Tail(B)
  <2>1. Pipeline = <<>> \o (B \o R)
    BY DEF Pipeline, Scanned, scan_receive
  <2>2. Pipeline' = h \o (t \o R)
    BY <1>1, <1>3 DEF Pipeline, Scanned, scan_receive
  <2>3. /\ B \in Seq(OutputCommand) /\ R \in Seq(OutputCommand)
        /\ B # <<>>
    BY <1>3, PartTypes, ConcatProperties
  <2> HIDE DEF B, R
  <2>4. h \in Seq(OutputCommand) /\ t \in Seq(OutputCommand) /\ B = h \o t
    BY <2>3, HeadTailProperties, HeadThenTail
  <2>5. B \o R \in Seq(OutputCommand)
    BY <2>3, ConcatProperties
  <2> HIDE DEF h, t
  <2>6. h \o (t \o R) = B \o R
    BY <2>3, <2>4, ConcatAssociative
  <2>7. <<>> \o (B \o R) = B \o R
    BY <2>5, ConcatEmptySeq
  <2>8. QED
    BY <1>1, <2>1, <2>2, <2>6, <2>7 DEF Service!vars
<1>4. QED
  BY <1>2, <1>3

(* The write of io_scan_task performs the first command of the pipeline.   *)
LEMMA ScanWritePerforms ==
  ASSUME TypeOK, scan_write, UNCHANGED gateVars
  PROVE  Service!Perform
<1> DEFINE R == command_queue \o (Taken \o OutputsOf(gate_queue))
<1>1. Pipeline = <<command>> \o R
  BY DEF scan_write, Pipeline, Scanned
<1>2. Pipeline' = <<>> \o R
  BY DEF scan_write, gateVars, Pipeline, Scanned, Taken, OutputsOf
<1>3. R \in Seq(OutputCommand) /\ command \in OutputCommand
  BY PartTypes, ConcatProperties DEF TypeOK, IoTypeOK
<1>4. output' = [output EXCEPT ![Service!Row(command)][Service!Col(command)]
                   = command.state]
  BY ServiceImage DEF scan_write, pcf8574_write_output
<1> HIDE DEF R
<1>5. <<>> \o R = R
  BY <1>3, ConcatEmptySeq
<1>6. /\ <<command>> \o R # <<>>
      /\ Head(<<command>> \o R) = command
      /\ Tail(<<command>> \o R) = R
  BY <1>3, HeadTailOfCons
<1>7. QED
  BY <1>1, <1>2, <1>4, <1>5, <1>6 DEF Service!Perform

(* The gate task passes its command on, to a queue that is not full.       *)
LEMMA EnqueuePasses ==
  ASSUME TypeOK, OutputQueueNeverFull, gate_enqueue, queue_created, ~Restart
  PROVE  UNCHANGED Service!vars
<1> DEFINE A == Scanned
           B == command_queue
           c == OutputOf(gate_command)
           D == OutputsOf(gate_queue)
<1>1. UNCHANGED <<Scanned, OutputsOf(gate_queue), output>>
  BY DEF gate_enqueue, command_enqueue, taskVars, Scanned, OutputsOf
<1>2. command_queue' = Append(B, c)
  BY DEF gate_enqueue, command_enqueue, OutputQueueNeverFull
<1>3. Taken = <<c>> /\ Taken' = <<>>
  BY DEF gate_enqueue, Taken
<1>4. Pipeline = A \o (B \o (<<c>> \o D))
  BY <1>3 DEF Pipeline
<1>5. Pipeline' = A \o (Append(B, c) \o (<<>> \o D))
  BY <1>1, <1>2, <1>3 DEF Pipeline
<1>6. /\ B \in Seq(OutputCommand) /\ D \in Seq(OutputCommand)
      /\ c \in OutputCommand
  BY PartTypes, OutputOfType DEF TypeOK, GateTypeOK
<1> HIDE DEF A, B, c, D
<1>7. <<>> \o D = D
  BY <1>6, ConcatEmptySeq
<1>8. Append(B, c) = B \o <<c>> /\ <<c>> \in Seq(OutputCommand)
  BY <1>6, AppendIsConcat
<1>9. (B \o <<c>>) \o D = B \o (<<c>> \o D)
  BY <1>6, <1>8, ConcatAssociative
<1>10. QED
  BY <1>1, <1>4, <1>5, <1>7, <1>8, <1>9 DEF Service!vars

(* The gate task takes a command from its queue: it stays where it was in  *)
(* the pipeline.                                                           *)
LEMMA GateReceiveStutters ==
  ASSUME TypeOK, gate_receive
  PROVE  UNCHANGED Service!vars
<1>1. UNCHANGED <<Scanned, command_queue, output>>
  BY DEF gate_receive, ioVars, ramVars, taskVars, Scanned
<1>2. Taken = <<>> /\ Taken' = <<OutputOf(Head(gate_queue))>>
  BY DEF gate_receive, Taken
<1>3. OutputsOf(gate_queue)' = OutputsOf(Tail(gate_queue))
  BY DEF gate_receive, OutputsOf
<1>4. gate_queue \in Seq(GateCommand) /\ gate_queue # <<>>
  BY DEF gate_receive, TypeOK, GateTypeOK
<1>5. OutputsOf(gate_queue)
        = <<OutputOf(Head(gate_queue))>> \o OutputsOf(Tail(gate_queue))
  BY <1>4, OutputsOfTail
<1>6. <<>> \o OutputsOf(gate_queue) = OutputsOf(gate_queue)
  BY PartTypes, ConcatEmptySeq
<1>7. QED
  BY <1>1, <1>2, <1>3, <1>5, <1>6 DEF Pipeline, Service!vars

(* A restart loses the whole pipeline.                                     *)
LEMMA RestartCrashes ==
  ASSUME Restart, GateRestart
  PROVE  Service!Crash
<1>1. Scanned' = <<>> /\ Taken' = <<>> /\ command_queue' = <<>>
  BY DEF Restart, GateRestart, Scanned, Taken
<1>2. OutputsOf(gate_queue)' = <<>>
  BY DEF GateRestart, OutputsOf
<1>3. Pipeline' = <<>>
  BY <1>1, <1>2 DEF Pipeline
<1>4. output' = Service!AllOutputsOff
  BY ServiceImage DEF Restart
<1>5. QED
  BY <1>3, <1>4 DEF Service!Crash

-----------------------------------------------------------------------------
(* Each step of the two tasks, of their callers and of the world is a step *)
(* of the service or changes nothing it knows of.                          *)
LEMMA StepIsServiceStep ==
  ASSUME TypeOK, HandshakeInv, OutputQueueNeverFull, BootShadowOff,
         [Next]_vars
  PROVE  [Service!Next]_(Service!vars)
<1> USE DEF Service!Next
<1>1. ASSUME NEW g \in Commands, send_gate_command(g)
      PROVE  [Service!Next]_(Service!vars)
  BY <1>1, SendAccepts
<1>2. CASE gate_receive
  BY <1>2, GateReceiveStutters
<1>3. CASE gate_enqueue
  <2>1. CASE queue_created /\ ~Restart
    BY <1>3, <2>1, EnqueuePasses
  <2>2. CASE ~queue_created
    BY <1>3, <2>2, RestartCrashes DEF gate_enqueue, command_enqueue
  <2>3. CASE queue_created /\ Restart
    <3>1. queue_created' = TRUE
      BY <1>3, <2>3 DEF gate_enqueue, command_enqueue
    <3>2. QED
      BY <2>3, <3>1 DEF Restart
  <2>4. QED
    BY <2>1, <2>2, <2>3
<1>4. CASE gate_read_old \/ gate_wait_change \/ gate_wait_trigger
  <2>1. UNCHANGED <<Scanned, command_queue, output, OutputsOf(gate_queue)>>
    BY <1>4 DEF gate_read_old, gate_wait_change, gate_wait_trigger, ioVars,
                ramVars, taskVars, Scanned, OutputsOf
  <2>2. UNCHANGED Taken
    BY <1>4 DEF gate_read_old, gate_wait_change, gate_wait_trigger, Taken
  <2>3. QED
    BY <2>1, <2>2 DEF Pipeline, Service!vars
<1>5. CASE ScanTask
  <2>1. CASE scan_receive
    BY <1>5, <2>1, ScanReceiveStutters DEF ScanTask
  <2>2. CASE scan_write
    BY <1>5, <2>2, ScanWritePerforms DEF ScanTask
  <2>3. CASE UNCHANGED <<Scanned, command_queue, output>>
    BY <1>5, <2>3 DEF ScanTask, gateVars, Taken, OutputsOf, Pipeline,
                      Service!vars
  <2>4. CASE reset_write
    <3>1. output = [p \in Ports |-> AllOff]
      BY <2>4 DEF reset_write, BootShadowOff, BootPcs
    <3>2. output' = [output EXCEPT ![port][pin] = FALSE]
      BY <2>4, ResetWriteShadow DEF TypeOK
    <3>3. output' = output
      BY <3>1, <3>2 DEF AllOff, TypeOK, IoTypeOK
    <3>4. UNCHANGED <<Scanned, command_queue>>
      BY <2>4 DEF reset_write, Scanned
    <3>5. QED
      BY <2>3, <3>3, <3>4
  <2>5. CASE init_i2c \/ reset_sample \/ reset_publish \/ queue_init
             \/ scan_sample \/ scan_publish
    <3>1. UNCHANGED <<Scanned, command_queue, output>>
      BY <2>5 DEF init_i2c, reset_sample, reset_publish, queue_init,
                  scan_sample, scan_publish, ramVars, Scanned
    <3>2. QED
      BY <2>3, <3>1
  <2>6. QED
    BY <1>5, <2>1, <2>2, <2>4, <2>5 DEF ScanTask, io_scan_task
<1>6. CASE ScanPanic \/ AnyTaskPanic \/ gate_queue_panic
  BY <1>6, RestartCrashes
     DEF ScanPanic, scan_receive_panic, AnyTaskPanic, OtherTaskPanic,
         gate_queue_panic
<1>7. ASSUME NEW p \in Ports, NEW n \in Pins, SensorMoves(p, n)
      PROVE  [Service!Next]_(Service!vars)
  BY <1>7 DEF SensorMoves, SensorToggle, ramVars, taskVars, gateVars,
              Scanned, Taken, OutputsOf, Pipeline, Service!vars
<1>8. CASE UNCHANGED vars
  BY <1>8 DEF vars, ioVars, ramVars, taskVars, gateVars, Scanned, Taken,
              OutputsOf, Pipeline, Service!vars
<1>9. QED
  BY <1>1, <1>2, <1>3, <1>4, <1>5, <1>6, <1>7, <1>8
     DEF Next, gate_controller_task

(* The board performs every gate command it accepted, once and in order,   *)
(* however the two tasks interleave and whatever the bus and the sensors   *)
(* do; only a restart loses commands, and it loses them all.               *)
THEOREM BoardImplementsService ==
  ASSUME QUEUE_LEN >= 2
  PROVE  Spec => ImplementsService
<1>1. Init => Service!Init
  <2> SUFFICES ASSUME Init
               PROVE  Service!Init
    OBVIOUS
  <2>1. Scanned = <<>> /\ Taken = <<>> /\ OutputsOf(gate_queue) = <<>>
    BY DEF Init, IoInit, Scanned, Taken, OutputsOf
  <2>2. Pipeline = <<>>
    BY <2>1 DEF Pipeline, Init, IoInit
  <2>3. output = Service!AllOutputsOff
    BY ServiceImage DEF Init, IoInit
  <2>4. QED
    BY <2>2, <2>3 DEF Service!Init
<1>2. TypeOK /\ HandshakeInv /\ OutputQueueNeverFull /\ BootShadowOff
        /\ [Next]_vars => [Service!Next]_(Service!vars)
  BY StepIsServiceStep
<1>3. Spec => []BootShadowOff
  BY RefinesIoDriver, BootShadow, PTL DEF ImplementsIoDriver
<1>4. Spec => []OutputQueueNeverFull
  BY NoOutputCommandDropped
<1>5. QED
  BY <1>1, <1>2, <1>3, <1>4, GateTypeCorrect, HandshakeHolds, PTL
     DEF Spec, ImplementsService, Service!Spec
=============================================================================
