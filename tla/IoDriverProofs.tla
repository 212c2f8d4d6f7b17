--------------------------- MODULE IoDriverProofs ---------------------------
(***************************************************************************)
(* Proofs about the I/O driver, for any number of ports and pins, any      *)
(* queue length and any combination of faults.                             *)
(***************************************************************************)
EXTENDS IoDriver, TLAPS

(* The cell of a command, and when it is in the row of the command's port. *)
LEMMA CommandCell ==
  ASSUME NEW c \in OutputCommand
  PROVE  /\ c.port \in Ports /\ c.pin \in Nat /\ c.state \in BOOLEAN
         /\ Row(c) \in Ports /\ Col(c) \in Pins
         /\ Row(c) = c.port <=> c.pin \in Pins
         /\ c.pin \in Pins => Col(c) = c.pin
<1>1. c.port \in Ports /\ c.pin \in Nat /\ c.state \in BOOLEAN
  BY IoAssumption DEF OutputCommand, Cells
<1>2. Row(c) \in Ports
  BY DEF OutputCommand
<1>3. Col(c) \in Pins
  BY <1>1, IoAssumption DEF Col, Pins
<1>4. Row(c) = c.port <=> c.pin \in Pins
  BY <1>1, IoAssumption DEF Row, Pins, Ports
<1>5. c.pin \in Pins => Col(c) = c.pin
  BY IoAssumption DEF Col, Pins
<1>6. QED
  BY <1>1, <1>2, <1>3, <1>4, <1>5

(* The pins there are have their commands.                                 *)
LEMMA PinCommand ==
  ASSUME NEW p \in Ports, NEW n \in Pins, NEW s \in BOOLEAN
  PROVE  [port |-> p, pin |-> n, state |-> s] \in OutputCommand
<1>1. PIN_NUM <= PORT_NUM * PIN_NUM
  BY IoAssumption
<1>2. n \in Cells
  BY <1>1, IoAssumption DEF Pins, Cells
<1>3. n \div PIN_NUM = 0
  BY IoAssumption DEF Pins
<1>4. QED
  BY <1>2, <1>3 DEF OutputCommand, Row, Ports

(* The restart action re-establishes the types.                            *)
LEMMA RestartTypes ==
  ASSUME IoTypeOK, Restart
  PROVE  IoTypeOK'
<1>1. 0 \in Ports /\ 0 \in Pins
  BY IoAssumption DEF Ports, Pins
<1>2. AllOff \in PortValue
  BY DEF AllOff, PortValue
<1>3. NoCommand \in OutputCommand
  BY <1>1, PinCommand DEF NoCommand
<1>4. QED
  BY <1>1, <1>2, <1>3 DEF IoTypeOK, Restart, BootPcs

(* A write leaves the shadow, the latches and the history well typed.      *)
LEMMA WriteTypes ==
  ASSUME IoTypeOK, NEW c \in OutputCommand, pcf8574_write_output(c)
  PROVE  /\ output' \in [Ports -> PortValue]
         /\ latch' \in [Ports -> PortValue]
         /\ in_step' \in [Ports -> BOOLEAN]
<1>1. /\ c.port \in Ports /\ c.state \in BOOLEAN
      /\ Row(c) \in Ports /\ Col(c) \in Pins
  BY CommandCell
<1>2. PortData(c) \in PortValue
  BY <1>1 DEF PortData, IoTypeOK, PortValue
<1>3. output' \in [Ports -> PortValue]
  BY <1>1 DEF pcf8574_write_output, IoTypeOK, PortValue
<1>4. latch' \in [Ports -> PortValue]
  BY <1>1, <1>2 DEF pcf8574_write_output, IoTypeOK
<1>5. in_step' \in [Ports -> BOOLEAN]
  BY DEF pcf8574_write_output, StepKept, IoTypeOK
<1>6. QED
  BY <1>3, <1>4, <1>5

(* A bus read leaves a port value in read_value.                           *)
LEMMA SampleTypes ==
  ASSUME IoTypeOK, SamplePort(port)
  PROVE  read_value' \in PortValue
<1>1. AllOff \in PortValue
  BY DEF AllOff, PortValue
<1>2. QED
  BY <1>1 DEF SamplePort, IoTypeOK

(* Every step of the scan task preserves the types.                        *)
LEMMA ScanTypes ==
  ASSUME IoTypeOK, io_scan_task
  PROVE  IoTypeOK'
<1> USE IoAssumption DEF BootPcs, LoopPcs
<1>0. 0 \in Ports /\ 0 \in Pins
  BY DEF Ports, Pins
<1>1. CASE init_i2c
  BY <1>1 DEF init_i2c, IoTypeOK
<1>2. CASE reset_write
  <2>1. [port |-> port, pin |-> pin, state |-> FALSE] \in OutputCommand
    BY PinCommand DEF IoTypeOK
  <2>2. /\ output' \in [Ports -> PortValue]
        /\ latch' \in [Ports -> PortValue]
        /\ in_step' \in [Ports -> BOOLEAN]
    BY <1>2, <2>1, WriteTypes DEF reset_write
  <2>3. pin' \in Pins /\ scan_pc' \in BootPcs \cup LoopPcs
    BY <1>2 DEF reset_write, IoTypeOK, Pins
  <2>4. QED
    BY <1>2, <2>2, <2>3 DEF reset_write, IoTypeOK
<1>3. CASE reset_sample
  BY <1>3, SampleTypes DEF reset_sample, ramVars, IoTypeOK
<1>4. CASE reset_publish
  <2>1. input' \in [Ports -> PortValue]
    BY <1>4 DEF reset_publish, PublishPort, IoTypeOK
  <2>2. port' \in Ports /\ scan_pc' \in BootPcs \cup LoopPcs
    BY <1>4 DEF reset_publish, IoTypeOK, Ports
  <2>3. QED
    BY <1>4, <2>1, <2>2 DEF reset_publish, IoTypeOK
<1>5. CASE queue_init
  BY <1>5 DEF queue_init, IoTypeOK
<1>6. CASE scan_receive
  <2>1. CASE command_queue = <<>>
    BY <1>6, <2>1 DEF scan_receive, IoTypeOK
  <2>2. CASE command_queue # <<>>
    <3>1. /\ Head(command_queue) \in OutputCommand
          /\ Tail(command_queue) \in Seq(OutputCommand)
      BY <2>2 DEF IoTypeOK
    <3>2. QED
      BY <1>6, <2>2, <3>1 DEF scan_receive, IoTypeOK
  <2>3. QED
    BY <2>1, <2>2
<1>7. CASE scan_write
  <2>1. /\ output' \in [Ports -> PortValue]
        /\ latch' \in [Ports -> PortValue]
        /\ in_step' \in [Ports -> BOOLEAN]
    BY <1>7, WriteTypes DEF scan_write, IoTypeOK
  <2>2. QED
    BY <1>7, <2>1 DEF scan_write, IoTypeOK
<1>8. CASE scan_sample
  BY <1>8, SampleTypes DEF scan_sample, ramVars, IoTypeOK
<1>9. CASE scan_publish
  <2>1. input' \in [Ports -> PortValue]
    BY <1>9 DEF scan_publish, PublishPort, IoTypeOK
  <2>2. port' \in Ports /\ scan_pc' \in BootPcs \cup LoopPcs
    BY <1>9 DEF scan_publish, IoTypeOK, Ports
  <2>3. QED
    BY <1>9, <2>1, <2>2 DEF scan_publish, IoTypeOK
<1>10. QED
  BY <1>1, <1>2, <1>3, <1>4, <1>5, <1>6, <1>7, <1>8, <1>9 DEF io_scan_task

(* A producer's call preserves the types.                                  *)
LEMMA EnqueueTypes ==
  ASSUME IoTypeOK, NEW c \in OutputCommand, command_enqueue(c)
  PROVE  IoTypeOK'
<1>1. CASE ~queue_created /\ Restart
  BY <1>1, RestartTypes
<1>2. CASE queue_created /\ ~Restart
  <2>1. command_queue' \in Seq(OutputCommand)
    BY <1>2 DEF command_enqueue, IoTypeOK
  <2>2. QED
    BY <1>2, <2>1 DEF command_enqueue, taskVars, IoTypeOK
<1>3. QED
  BY <1>1, <1>2, RestartTypes DEF command_enqueue

(* A sensor that changes preserves the types.                              *)
LEMMA ToggleTypes ==
  ASSUME IoTypeOK, NEW p \in Ports, NEW n \in Pins, SensorToggle(p, n)
  PROVE  IoTypeOK'
BY DEF SensorToggle, ramVars, taskVars, IoTypeOK, PortValue

(* Every step of the driver, and of the world around it, preserves types. *)
LEMMA IoTypeStep ==
  ASSUME IoTypeOK, [IoNext]_ioVars
  PROVE  IoTypeOK'
<1>1. CASE io_scan_task
  BY <1>1, ScanTypes
<1>2. CASE scan_receive_panic \/ OtherTaskPanic
  BY <1>2, RestartTypes DEF scan_receive_panic, OtherTaskPanic
<1>3. ASSUME NEW c \in OutputCommand, command_enqueue(c)
      PROVE  IoTypeOK'
  BY <1>3, EnqueueTypes
<1>4. ASSUME NEW p \in Ports, NEW n \in Pins, SensorToggle(p, n)
      PROVE  IoTypeOK'
  BY <1>4, ToggleTypes
<1>5. CASE UNCHANGED ioVars
  BY <1>5 DEF ioVars, ramVars, taskVars, IoTypeOK
<1>6. QED
  BY <1>1, <1>2, <1>3, <1>4, <1>5 DEF IoNext

(* The state at power-up is well typed.                                    *)
LEMMA IoInitTypes == IoInit => IoTypeOK
<1>1. 0 \in Ports /\ 0 \in Pins
  BY IoAssumption DEF Ports, Pins
<1>2. AllOff \in PortValue
  BY DEF AllOff, PortValue
<1>3. NoCommand \in OutputCommand
  BY <1>1, PinCommand DEF NoCommand
<1>4. QED
  BY <1>1, <1>2, <1>3 DEF IoInit, IoTypeOK, BootPcs

(* The driver's state stays well typed, whatever fails: in particular the  *)
(* loop counters of reset_port and of the scan stay within the ports and   *)
(* pins there are.                                                         *)
THEOREM IoTypeCorrect == IoSpec => []IoTypeOK
<1>1. IoInit => IoTypeOK
  BY IoInitTypes
<1>2. IoTypeOK /\ [IoNext]_ioVars => IoTypeOK'
  BY IoTypeStep
<1>3. QED
  BY <1>1, <1>2, PTL DEF IoSpec

-----------------------------------------------------------------------------
(* A write that works leaves its port's latch equal to the new shadow: the *)
(* byte sent is the shadow with the same pin replaced, or with none if the *)
(* pin is past the end of the row.                                         *)
LEMMA WriteKeepsLatch ==
  ASSUME IoTypeOK, LatchFollowsShadow, NEW c \in OutputCommand,
         pcf8574_write_output(c)
  PROVE  LatchFollowsShadow'
<1>1. c.port \in Ports /\ Row(c) \in Ports /\ Col(c) \in Pins
  BY CommandCell
<1>2. SUFFICES ASSUME NEW p \in Ports, in_step'[p]
               PROVE  latch'[p] = output'[p]
  BY DEF LatchFollowsShadow
<1>3. output' = [output EXCEPT ![Row(c)][Col(c)] = c.state]
  BY DEF pcf8574_write_output
<1>4. CASE p = c.port
  <2>1. latch' = [latch EXCEPT ![c.port] = PortData(c)]
    BY <1>2, <1>4 DEF pcf8574_write_output, StepKept
  <2>2. latch'[p] = PortData(c)
    BY <1>1, <1>4, <2>1 DEF IoTypeOK
  <2>3. output[p] \in PortValue /\ output'[p] \in PortValue
    BY <1>1, <1>3, WriteTypes DEF IoTypeOK
  <2>4. CASE c.pin \in Pins
    <3>1. output'[p] = [output[p] EXCEPT ![c.pin] = c.state]
      BY <1>1, <1>3, <1>4, <2>4, CommandCell DEF IoTypeOK
    <3>2. QED
      BY <1>4, <2>2, <2>3, <3>1 DEF PortData, PortValue
  <2>5. CASE c.pin \notin Pins
    <3>1. output'[p] = output[p]
      BY <1>1, <1>3, <1>4, <2>5, CommandCell DEF IoTypeOK
    <3>2. QED
      BY <1>4, <2>2, <2>3, <2>5, <3>1 DEF PortData, PortValue
  <2>6. QED
    BY <2>4, <2>5
<1>5. CASE p # c.port
  <2>1. p # Row(c) /\ in_step[p]
    BY <1>2, <1>5 DEF pcf8574_write_output, StepKept
  <2>2. latch'[p] = latch[p] /\ output'[p] = output[p]
    BY <1>1, <1>3, <1>5, <2>1 DEF pcf8574_write_output, IoTypeOK
  <2>3. QED
    BY <2>1, <2>2 DEF LatchFollowsShadow
<1>6. QED
  BY <1>4, <1>5

(* The only steps that touch a latch or the history are writes and the     *)
(* restart.                                                                *)
LEMMA OnlyWritesDrive ==
  ASSUME IoTypeOK, [IoNext]_ioVars
  PROVE  \/ scan_pc = "reset_write"
            /\ pcf8574_write_output(
                 [port |-> port, pin |-> pin, state |-> FALSE])
         \/ scan_pc = "write" /\ pcf8574_write_output(command)
         \/ Restart
         \/ UNCHANGED <<output, latch, in_step>>
BY DEF IoNext, io_scan_task, init_i2c, reset_write, reset_sample,
       reset_publish, queue_init, scan_receive, scan_write, scan_sample,
       scan_publish, scan_receive_panic, OtherTaskPanic, command_enqueue,
       SensorToggle, ioVars, ramVars

(* pcf8574_write_output never loses a pin: after a write that worked the   *)
(* expander drives exactly the shadow of its port, after any history of    *)
(* failed writes and restarts, until a command to another port, with a pin *)
(* past the end of its row, writes into that shadow.                       *)
THEOREM LatchCoherent == IoSpec => []LatchFollowsShadow
<1>1. IoInit => LatchFollowsShadow
  BY DEF IoInit, LatchFollowsShadow
<1>2. IoTypeOK /\ LatchFollowsShadow /\ [IoNext]_ioVars
        => LatchFollowsShadow'
  <2> SUFFICES ASSUME IoTypeOK, LatchFollowsShadow, [IoNext]_ioVars
               PROVE  LatchFollowsShadow'
    OBVIOUS
  <2>1. CASE scan_pc = "reset_write"
             /\ pcf8574_write_output(
                  [port |-> port, pin |-> pin, state |-> FALSE])
    <3>1. [port |-> port, pin |-> pin, state |-> FALSE] \in OutputCommand
      BY PinCommand DEF IoTypeOK
    <3>2. QED
      BY <2>1, <3>1, WriteKeepsLatch
  <2>2. CASE scan_pc = "write" /\ pcf8574_write_output(command)
    BY <2>2, WriteKeepsLatch DEF IoTypeOK
  <2>3. CASE Restart
    BY <2>3 DEF Restart, LatchFollowsShadow
  <2>4. CASE UNCHANGED <<output, latch, in_step>>
    BY <2>4 DEF LatchFollowsShadow
  <2>5. QED
    BY <2>1, <2>2, <2>3, <2>4, OnlyWritesDrive
<1>3. QED
  BY <1>1, <1>2, IoTypeCorrect, PTL DEF IoSpec

(* A write can switch on the commanded pin, or one that the shadow of its  *)
(* port already has on while the latch has not: then the port was out of   *)
(* step.                                                                   *)
LEMMA WriteStarts ==
  ASSUME IoTypeOK, LatchFollowsShadow, NEW c \in OutputCommand,
         pcf8574_write_output(c),
         NEW p \in Ports, NEW n \in Pins, ~latch[p][n], latch'[p][n]
  PROVE  /\ c.port = p
         /\ \/ c.pin = n /\ c.state
            \/ ~in_step[p] /\ output[p][n]
<1>1. c.port \in Ports
  BY CommandCell
<1>2. latch' = [latch EXCEPT ![c.port] = PortData(c)]
  BY DEF pcf8574_write_output
<1>3. c.port = p
  BY <1>1, <1>2 DEF IoTypeOK
<1>4. PortData(c)[n]
  BY <1>1, <1>2, <1>3 DEF IoTypeOK
<1>5. CASE c.pin = n
  BY <1>1, <1>3, <1>4, <1>5 DEF PortData, IoTypeOK, PortValue
<1>6. CASE c.pin # n
  <2>1. output[p][n]
    BY <1>1, <1>3, <1>4, <1>6 DEF PortData, IoTypeOK, PortValue
  <2>2. ~in_step[p]
    BY <2>1 DEF LatchFollowsShadow
  <2>3. QED
    BY <1>3, <2>1, <2>2
<1>7. QED
  BY <1>5, <1>6

(* What reset_port does to the shadow: it stays in the row of its port.    *)
LEMMA ResetWriteShadow ==
  ASSUME IoTypeOK, reset_write
  PROVE  output' = [output EXCEPT ![port][pin] = FALSE]
<1> DEFINE c == [port |-> port, pin |-> pin, state |-> FALSE]
<1>1. c \in OutputCommand /\ c.pin \in Pins
  BY PinCommand DEF IoTypeOK
<1>2. Row(c) = port /\ Col(c) = pin
  BY <1>1, CommandCell
<1>3. pcf8574_write_output(c)
  BY DEF reset_write
<1>4. output' = [output EXCEPT ![Row(c)][Col(c)] = FALSE]
  BY <1>3 DEF pcf8574_write_output
<1>5. QED
  BY <1>2, <1>4

(* reset_port writes a shadow that is off everywhere.                      *)
BootShadowOff ==
  scan_pc \in BootPcs => output = [p \in Ports |-> AllOff]

(* While reset_port runs, the shadow has every output off: whatever the    *)
(* chip was doing before it restarted, it begins with a zero .bss, and a   *)
(* producer cannot slip a command in before queue_init.                    *)
LEMMA BootShadow == IoSpec => []BootShadowOff
<1> USE DEF BootPcs
<1>1. IoInit => BootShadowOff
  BY DEF IoInit, BootShadowOff
<1>2. IoTypeOK /\ BootShadowOff /\ [IoNext]_ioVars => BootShadowOff'
  <2> SUFFICES ASSUME IoTypeOK, BootShadowOff, [IoNext]_ioVars,
                      scan_pc' \in BootPcs
               PROVE  output' = [p \in Ports |-> AllOff]
    BY DEF BootShadowOff
  <2>1. CASE reset_write
    <3>1. output' = [output EXCEPT ![port][pin] = FALSE]
      BY <2>1, ResetWriteShadow
    <3>2. output = [p \in Ports |-> AllOff]
      BY <2>1 DEF reset_write, BootShadowOff
    <3>3. QED
      BY <3>1, <3>2 DEF AllOff, IoTypeOK
  <2>2. CASE Restart
    BY <2>2 DEF Restart
  <2>3. CASE scan_pc \in BootPcs /\ output' = output
    BY <2>3 DEF BootShadowOff
  <2>4. CASE scan_receive \/ scan_write \/ scan_sample \/ scan_publish
    BY <2>4 DEF scan_receive, scan_write, scan_sample, scan_publish
  <2>5. QED
    BY <2>1, <2>2, <2>3, <2>4
       DEF IoNext, io_scan_task, init_i2c, reset_sample, reset_publish,
           queue_init, scan_receive_panic, OtherTaskPanic, command_enqueue,
           SensorToggle, ioVars, ramVars, taskVars
<1>3. QED
  BY <1>1, <1>2, IoTypeCorrect, PTL DEF IoSpec

(* No motor starts but by the write of a command to its port, and only the *)
(* motor commanded or one that the shadow of a port out of step has on,    *)
(* after any history of failed transactions, refused commands, commands    *)
(* past the end of their row, and restarts; in particular the reset of the *)
(* ports starts nothing.                                                   *)
THEOREM NothingStarts == IoSpec => NothingStartsUncommanded
<1>1. ASSUME IoTypeOK, LatchFollowsShadow, BootShadowOff,
             [IoNext]_ioVars,
             NEW p \in Ports, NEW n \in Pins, ~latch[p][n], latch'[p][n]
      PROVE  /\ scan_pc = "write"
             /\ command.port = p
             /\ \/ command.pin = n /\ command.state
                \/ ~in_step[p] /\ output[p][n]
  <2>1. CASE scan_pc = "reset_write"
             /\ pcf8574_write_output(
                  [port |-> port, pin |-> pin, state |-> FALSE])
    <3>1. [port |-> port, pin |-> pin, state |-> FALSE] \in OutputCommand
      BY <1>1, PinCommand DEF IoTypeOK
    <3>2. output[p][n]
      BY <1>1, <2>1, <3>1, WriteStarts
    <3>3. ~output[p][n]
      BY <1>1, <2>1 DEF BootShadowOff, BootPcs, AllOff
    <3>4. QED
      BY <3>2, <3>3
  <2>2. CASE scan_pc = "write" /\ pcf8574_write_output(command)
    <3>1. command \in OutputCommand
      BY <1>1 DEF IoTypeOK
    <3>2. QED
      BY <1>1, <2>2, <3>1, WriteStarts
  <2>3. CASE Restart
    BY <1>1, <2>3 DEF Restart
  <2>4. CASE UNCHANGED <<output, latch, in_step>>
    BY <1>1, <2>4
  <2>5. QED
    BY <1>1, <2>1, <2>2, <2>3, <2>4, OnlyWritesDrive
<1>2. IoTypeOK /\ LatchFollowsShadow /\ BootShadowOff /\ [IoNext]_ioVars
        => [\A p \in Ports, n \in Pins :
              ~latch[p][n] /\ latch'[p][n] =>
                /\ scan_pc = "write"
                /\ command.port = p
                /\ \/ command.pin = n /\ command.state
                   \/ ~in_step[p] /\ output[p][n]]_ioVars
  BY <1>1
<1>3. QED
  BY <1>2, IoTypeCorrect, LatchCoherent, BootShadow, PTL
     DEF IoSpec, NothingStartsUncommanded

-----------------------------------------------------------------------------
(* How far reset_port has got: every port before its loop counter, and the *)
(* port itself once its pins are done, has had a write that worked.        *)
ResetProgress ==
  "bus" \notin Faults /\ installed =>
    /\ scan_pc \in {"reset_write", "reset_sample", "reset_publish"} =>
         \A p \in Ports : p < port => in_step[p]
    /\ scan_pc \in {"reset_sample", "reset_publish"} => in_step[port]
    /\ scan_pc = "queue_init" => \A p \in Ports : in_step[p]

(* Before init_i2c nothing is installed, and the counters are at their     *)
(* start when the reset begins.                                            *)
ResetStart ==
  scan_pc = "init_i2c" => ~installed /\ port = 0

(* reset_port never skips a port.                                          *)
LEMMA ResetProgresses == IoSpec => [](ResetProgress /\ ResetStart)
<1>1. IoInit => ResetProgress /\ ResetStart
  BY DEF IoInit, ResetProgress, ResetStart
<1>2. IoTypeOK /\ ResetProgress /\ ResetStart /\ [IoNext]_ioVars
        => ResetProgress' /\ ResetStart'
  <2> SUFFICES ASSUME IoTypeOK, ResetProgress, ResetStart, [IoNext]_ioVars
               PROVE  ResetProgress' /\ ResetStart'
    OBVIOUS
  <2>1. CASE init_i2c
    BY <2>1 DEF init_i2c, ResetProgress, ResetStart, Ports
  <2>2. CASE reset_write
    <3>1. "bus" \notin Faults /\ installed =>
            in_step' = [in_step EXCEPT ![port] = TRUE]
      <4> DEFINE c == [port |-> port, pin |-> pin, state |-> FALSE]
      <4>1. c \in OutputCommand /\ c.port = port /\ c.pin \in Pins
        BY PinCommand DEF IoTypeOK
      <4>2. Row(c) = port
        BY <4>1, CommandCell
      <4>3. pcf8574_write_output(c)
        BY <2>2 DEF reset_write
      <4> HIDE DEF c
      <4>4. "bus" \notin Faults /\ installed =>
              StepKept(c.port, Row(c), TRUE)
        BY <4>3 DEF pcf8574_write_output, BusMayFail
      <4>5. QED
        BY <4>1, <4>2, <4>4 DEF StepKept, IoTypeOK
    <3>2. port \in Ports /\ in_step \in [Ports -> BOOLEAN]
      BY DEF IoTypeOK
    <3>3. port' = port /\ installed' = installed
            /\ scan_pc' \in {"reset_write", "reset_sample"}
      BY <2>2 DEF reset_write
    <3>4. "bus" \notin Faults /\ installed =>
            \A p \in Ports : p <= port => in_step'[p]
      BY <2>2, <3>1, <3>2 DEF reset_write, ResetProgress, Ports
    <3>5. QED
      BY <2>2, <3>2, <3>3, <3>4 DEF ResetProgress, ResetStart, Ports
  <2>3. CASE reset_sample
    BY <2>3 DEF reset_sample, ramVars, ResetProgress, ResetStart
  <2>4. CASE reset_publish
    <3>1. port \in Ports
      BY DEF IoTypeOK
    <3>2. QED
      BY <2>4, <3>1, IoAssumption
         DEF reset_publish, ResetProgress, ResetStart, Ports
  <2>5. CASE queue_init \/ scan_receive \/ scan_write \/ scan_sample
             \/ scan_publish
    BY <2>5 DEF queue_init, scan_receive, scan_write, scan_sample,
                scan_publish, ResetProgress, ResetStart
  <2>6. CASE Restart
    BY <2>6 DEF Restart, ResetProgress, ResetStart
  <2>7. CASE UNCHANGED <<installed, scan_pc, port, in_step>>
    BY <2>7 DEF ResetProgress, ResetStart
  <2>8. QED
    BY <2>1, <2>2, <2>3, <2>4, <2>5, <2>6, <2>7
       DEF IoNext, io_scan_task, scan_receive_panic, OtherTaskPanic,
           command_enqueue, SensorToggle, ioVars, ramVars, taskVars
<1>3. QED
  BY <1>1, <1>2, IoTypeCorrect, PTL DEF IoSpec

(* reset_port leaves every output off of every port whose last write       *)
(* worked, so all of them on a bus that works, whatever was driven before  *)
(* the restart: reset_port reaches every port, each write sends the whole  *)
(* shadow, and the shadow is off.                                          *)
THEOREM ResetTurnsOff == IoSpec => []AllOffAfterReset
<1>1. IoTypeOK /\ LatchFollowsShadow /\ BootShadowOff /\ ResetProgress
        => AllOffAfterReset
  BY DEF IoTypeOK, LatchFollowsShadow, BootShadowOff, BootPcs,
         ResetProgress, AllOffAfterReset
<1>2. QED
  BY <1>1, IoTypeCorrect, LatchCoherent, BootShadow, ResetProgresses, PTL
=============================================================================
