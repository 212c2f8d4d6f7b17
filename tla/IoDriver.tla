------------------------------ MODULE IoDriver ------------------------------
(***************************************************************************)
(* main/io_driver.c: the I/O driver of the conveyor board.                 *)
(*                                                                         *)
(* One FreeRTOS task, io_scan_task, owns the I2C bus to four PCF8574       *)
(* expanders (two of outputs, two of inputs).  It resets every output,     *)
(* creates the queue other tasks put output commands on, and then loops:   *)
(* take at most one command and write it, read every input port, sleep.    *)
(*                                                                         *)
(* The RAM image io_data (here input and output) is read by other tasks    *)
(* with no lock.  The bytes on the bus are active low; here a port is a    *)
(* function from pins to BOOLEAN, TRUE where the bit is 0.                 *)
(***************************************************************************)
EXTENDS IoData, Sequences

CONSTANTS
  QUEUE_LEN,  \* length of command_queue, 10 in queue_init
  Faults      \* what may fail: "bus" (an I2C transaction), "i2c" (its
              \* driver's configuration), "heap" (xQueueCreate here, or
              \* anything in another task, which then aborts)

ASSUME IoAssumption ==
  /\ PORT_NUM \in Nat \ {0}
  /\ PIN_NUM \in Nat \ {0}
  /\ QUEUE_LEN \in Nat \ {0}
  /\ Faults \subseteq {"bus", "i2c", "heap"}

VARIABLES
  state,          \* driver_state_t of the driver
  input,          \* io_data.input: what other tasks see of the sensors
  output,         \* io_data.output: the shadow of the output expanders
  command_queue,  \* the FreeRTOS queue of output commands
  queue_created,  \* the handle of command_queue is not NULL
  installed,      \* i2c_driver_install succeeded
  scan_pc,        \* where io_scan_task is
  port, pin,      \* its loop counters
  command,        \* the output command it took
  read_value,     \* the byte it read off the bus and has not published yet
  latch,          \* hardware: what each output expander drives
  sensor,         \* hardware: the level at each input pin
  in_step         \* history: the last write to the port since power-up
                  \* worked, and no command to another port has changed its
                  \* shadow since

ramVars == <<state, input, output, command_queue, queue_created, installed>>
taskVars == <<scan_pc, port, pin, command, read_value>>
ioVars == <<ramVars, taskVars, latch, sensor, in_step>>

BootPcs == {"init_i2c", "reset_write", "reset_sample", "reset_publish",
            "queue_init"}
LoopPcs == {"receive", "write", "sample", "publish"}

NoCommand == [port |-> 0, pin |-> 0, state |-> FALSE]

IoTypeOK ==
  /\ state \in {"BOOT_UP", "INIT", "READY"}
  /\ input \in [Ports -> PortValue]
  /\ output \in [Ports -> PortValue]
  /\ command_queue \in Seq(OutputCommand)
  /\ queue_created \in BOOLEAN
  /\ installed \in BOOLEAN
  /\ scan_pc \in BootPcs \cup LoopPcs
  /\ port \in Ports
  /\ pin \in Pins
  /\ command \in OutputCommand
  /\ read_value \in PortValue
  /\ latch \in [Ports -> PortValue]
  /\ sensor \in [Ports -> PortValue]
  /\ in_step \in [Ports -> BOOLEAN]

(***************************************************************************)
(* Power-up: .bss is zero and the task is created.  The expanders have     *)
(* their own supply, so after a warm start they may drive anything.        *)
(***************************************************************************)
IoInit ==
  /\ state = "BOOT_UP"
  /\ input = [p \in Ports |-> AllOff]
  /\ output = [p \in Ports |-> AllOff]
  /\ command_queue = <<>>
  /\ queue_created = FALSE
  /\ installed = FALSE
  /\ scan_pc = "init_i2c"
  /\ port = 0
  /\ pin = 0
  /\ command = NoCommand
  /\ read_value = AllOff
  /\ latch \in [Ports -> PortValue]
  /\ sensor \in [Ports -> PortValue]
  /\ in_step = [p \in Ports |-> FALSE]

(***************************************************************************)
(* A failed configASSERT: FreeRTOS aborts, the panic handler prints and    *)
(* restarts the chip (CONFIG_ESP_SYSTEM_PANIC_PRINT_REBOOT).  The RAM is   *)
(* lost, what the expanders drive is not.                                  *)
(***************************************************************************)
Restart ==
  /\ state' = "BOOT_UP"
  /\ input' = [p \in Ports |-> AllOff]
  /\ output' = [p \in Ports |-> AllOff]
  /\ command_queue' = <<>>
  /\ queue_created' = FALSE
  /\ installed' = FALSE
  /\ scan_pc' = "init_i2c"
  /\ port' = 0
  /\ pin' = 0
  /\ command' = NoCommand
  /\ read_value' = AllOff
  /\ in_step' = [p \in Ports |-> FALSE]
  /\ UNCHANGED <<latch, sensor>>

-----------------------------------------------------------------------------
(* The two bus transactions *)

BusMayFail == "bus" \in Faults \/ ~installed

(* Slip: the byte is built from 0xff instead of the shadow. *)
PortDataForgetsShadow(c) ==
  [n \in Pins |-> n = c.pin /\ c.state]

(* Slip: the state is shifted in without the negation of io_driver.c:60. *)
PortDataNotNegated(c) ==
  [n \in Pins |-> IF n = c.pin THEN ~c.state ELSE output[c.port][n]]

(* The byte a write puts on the bus: the shadow of the whole port with the *)
(* commanded pin replaced.  The bit of a pin past the end of the row is    *)
(* shifted out of the uint8_t, and the byte is the shadow as it was.       *)
PortData(c) ==
  [n \in Pins |-> IF n = c.pin THEN c.state ELSE output[c.port][n]]

(* The write to port p worked, or not; the shadow has changed in row r.    *)
StepKept(p, r, worked) ==
  in_step' = [q \in Ports |-> CASE q = p -> worked
                                [] q # p /\ q = r -> FALSE
                                [] OTHER -> in_step[q]]

(* pcf8574_write_output: the shadow is updated whatever the bus answers,   *)
(* and in the row the pin is found in, be it another port's.  A            *)
(* transaction that fails may have failed before or after the expander     *)
(* latched the byte.                                                       *)
pcf8574_write_output(c) ==
  /\ output' = [output EXCEPT ![Row(c)][Col(c)] = c.state]
  /\ \/ /\ installed
        /\ latch' = [latch EXCEPT ![c.port] = PortData(c)]
        /\ StepKept(c.port, Row(c), TRUE)
     \/ /\ BusMayFail
        /\ latch' = latch
        /\ StepKept(c.port, Row(c), FALSE)
     \/ /\ installed /\ "bus" \in Faults
        /\ latch' = [latch EXCEPT ![c.port] = PortData(c)]
        /\ StepKept(c.port, Row(c), FALSE)

(* pcf8574_read_port, the transaction: a failed one leaves read_value at   *)
(* its initial 0xff, which is published like any other value.              *)
SamplePort(p) ==
  \/ installed /\ read_value' = sensor[p]
  \/ BusMayFail /\ read_value' = AllOff

(* pcf8574_read_port, the copy into io_data. *)
PublishPort(p) == input' = [input EXCEPT ![p] = read_value]

-----------------------------------------------------------------------------
(* io_scan_task up to its loop *)

(* init_i2c: an install error is printed and the driver is READY all the   *)
(* same; a configuration error returns early and leaves it in INIT.        *)
init_i2c ==
  /\ scan_pc = "init_i2c"
  /\ \/ state' = "READY" /\ installed' = TRUE
     \/ "i2c" \in Faults /\ state' = "READY" /\ installed' = FALSE
     \/ "i2c" \in Faults /\ state' = "INIT" /\ installed' = FALSE
  /\ scan_pc' = "reset_write"
  /\ UNCHANGED <<input, output, command_queue, queue_created, port, pin,
                 command, read_value, latch, sensor, in_step>>

(* reset_port, one pin: switch it off. *)
reset_write ==
  /\ scan_pc = "reset_write"
  /\ pcf8574_write_output([port |-> port, pin |-> pin, state |-> FALSE])
  /\ IF pin < PIN_NUM - 1
       THEN pin' = pin + 1 /\ scan_pc' = scan_pc
       ELSE pin' = 0 /\ scan_pc' = "reset_sample"
  /\ UNCHANGED <<state, input, command_queue, queue_created, installed, port,
                 command, read_value, sensor>>

(* reset_port, after the last pin of a port: read the input port. *)
reset_sample ==
  /\ scan_pc = "reset_sample"
  /\ SamplePort(port)
  /\ scan_pc' = "reset_publish"
  /\ UNCHANGED <<ramVars, port, pin, command, latch, sensor, in_step>>

(* Slip: the loop of reset_port runs while port <= IN_PORT_NUM. *)
reset_publish_off_by_one ==
  /\ scan_pc = "reset_publish"
  /\ PublishPort(port)
  /\ IF port < PORT_NUM
       THEN port' = port + 1 /\ scan_pc' = "reset_write"
       ELSE port' = 0 /\ scan_pc' = "queue_init"
  /\ UNCHANGED <<state, output, command_queue, queue_created, installed, pin,
                 command, read_value, latch, sensor, in_step>>

reset_publish ==
  /\ scan_pc = "reset_publish"
  /\ PublishPort(port)
  /\ IF port < PORT_NUM - 1
       THEN port' = port + 1 /\ scan_pc' = "reset_write"
       ELSE port' = 0 /\ scan_pc' = "queue_init"
  /\ UNCHANGED <<state, output, command_queue, queue_created, installed, pin,
                 command, read_value, latch, sensor, in_step>>

(* queue_init: a failed xQueueCreate is printed and the task goes on. *)
queue_init ==
  /\ scan_pc = "queue_init"
  /\ \/ queue_created' = TRUE
     \/ "heap" \in Faults /\ queue_created' = FALSE
  /\ scan_pc' = "receive"
  /\ UNCHANGED <<state, input, output, command_queue, installed, port, pin,
                 command, read_value, latch, sensor, in_step>>

-----------------------------------------------------------------------------
(* io_scan_task, the loop *)

(* Slip: the newest command first. *)
scan_receive_newest ==
  /\ scan_pc = "receive"
  /\ queue_created
  /\ LET n == Len(command_queue) IN
     IF n = 0
       THEN /\ scan_pc' = "sample"
            /\ UNCHANGED <<command, command_queue>>
       ELSE /\ scan_pc' = "write"
            /\ command' = command_queue[n]
            /\ command_queue' = SubSeq(command_queue, 1, n - 1)
  /\ UNCHANGED <<state, input, output, queue_created, installed, port, pin,
                 read_value, latch, sensor, in_step>>

(* xQueueReceive with no wait, on a queue that exists. *)
scan_receive ==
  /\ scan_pc = "receive"
  /\ queue_created
  /\ IF command_queue = <<>>
       THEN /\ scan_pc' = "sample"
            /\ UNCHANGED <<command, command_queue>>
       ELSE /\ scan_pc' = "write"
            /\ command' = Head(command_queue)
            /\ command_queue' = Tail(command_queue)
  /\ UNCHANGED <<state, input, output, queue_created, installed, port, pin,
                 read_value, latch, sensor, in_step>>

(* xQueueReceive on the NULL handle a failed queue_init left. *)
scan_receive_panic ==
  /\ scan_pc = "receive"
  /\ ~queue_created
  /\ Restart

scan_write ==
  /\ scan_pc = "write"
  /\ pcf8574_write_output(command)
  /\ scan_pc' = "sample"
  /\ UNCHANGED <<state, input, command_queue, queue_created, installed, port,
                 pin, command, read_value, sensor>>

scan_sample ==
  /\ scan_pc = "sample"
  /\ SamplePort(port)
  /\ scan_pc' = "publish"
  /\ UNCHANGED <<ramVars, port, pin, command, latch, sensor, in_step>>

(* After the last port the task sleeps a tick and starts over. *)
scan_publish ==
  /\ scan_pc = "publish"
  /\ PublishPort(port)
  /\ IF port < PORT_NUM - 1
       THEN port' = port + 1 /\ scan_pc' = "sample"
       ELSE port' = 0 /\ scan_pc' = "receive"
  /\ UNCHANGED <<state, output, command_queue, queue_created, installed, pin,
                 command, read_value, latch, sensor, in_step>>

io_scan_task ==
  \/ init_i2c
  \/ reset_write
  \/ reset_sample
  \/ reset_publish
  \/ queue_init
  \/ scan_receive
  \/ scan_write
  \/ scan_sample
  \/ scan_publish

-----------------------------------------------------------------------------
(* What other tasks and the world do *)

(* command_enqueue with no wait: dropped (with a line on the console) when *)
(* the queue is full; xQueueSend on a NULL handle fails its configASSERT.  *)
command_enqueue(c) ==
  \/ /\ queue_created
     /\ command_queue' = IF Len(command_queue) < QUEUE_LEN
                           THEN Append(command_queue, c)
                           ELSE command_queue
     /\ UNCHANGED <<state, input, output, queue_created, installed, taskVars,
                    latch, sensor, in_step>>
  \/ ~queue_created /\ Restart

(* An abort in another task, which a full heap can cause at any time,      *)
(* restarts the chip at any point of this one.                             *)
OtherTaskPanic ==
  /\ "heap" \in Faults
  /\ Restart

(* The level at an input pin changes. *)
SensorToggle(p, n) ==
  /\ sensor' = [sensor EXCEPT ![p][n] = ~@]
  /\ UNCHANGED <<ramVars, taskVars, latch, in_step>>

IoNext ==
  \/ io_scan_task
  \/ scan_receive_panic
  \/ OtherTaskPanic
  \/ \E c \in OutputCommand : command_enqueue(c)
  \/ \E p \in Ports, n \in Pins : SensorToggle(p, n)

IoSpec == IoInit /\ [][IoNext]_ioVars

(* The task is created at priority 5 with no affinity; tasks of that       *)
(* priority share the two cores by time slices, so it keeps running.       *)
IoFairSpec == IoSpec /\ WF_ioVars(io_scan_task \/ scan_receive_panic)

-----------------------------------------------------------------------------
(* Properties *)

(* After a write that worked, the expander drives what the shadow says of  *)
(* every pin of its port: the read-modify-write of pcf8574_write_output    *)
(* loses no other pin, whatever failed before it, also when the commanded  *)
(* pin is past the end of the row and only the shadow is written.  It      *)
(* lasts until such a command to another port writes into this shadow.     *)
LatchFollowsShadow ==
  \A p \in Ports : in_step[p] => latch[p] = output[p]

(* No output is switched on but by the write of a command to its port, and *)
(* that switches on the pin commanded, and others only on a port that is   *)
(* not in step: those the shadow has on, because an earlier write of the   *)
(* port failed or because a command to another port, with a pin past the   *)
(* end of its row, wrote there.  reset_port never switches anything on.    *)
NothingStartsUncommanded ==
  [][\A p \in Ports, n \in Pins :
       ~latch[p][n] /\ latch'[p][n] =>
         /\ scan_pc = "write"
         /\ command.port = p
         /\ \/ command.pin = n /\ command.state
            \/ ~in_step[p] /\ output[p][n]]_ioVars

(* When reset_port is done no output is on, whatever the expanders were    *)
(* driving when the chip restarted, except on a port whose last write      *)
(* failed.  The bus being good, no port is excepted.                       *)
AllOffAfterReset ==
  scan_pc = "queue_init" =>
    \A p \in Ports :
      in_step[p] \/ (installed /\ "bus" \notin Faults) => latch[p] = AllOff

(* Every command on the queue is eventually taken to be written, unless    *)
(* the chip restarts: one per scan is enough, however busy the producers   *)
(* are, because a producer that finds the queue full gives up instead of   *)
(* overtaking.                                                             *)
QueuedIsServed ==
  \A i \in 1 .. QUEUE_LEN, c \in OutputCommand :
    (i \in DOMAIN command_queue /\ command_queue[i] = c)
      ~> (scan_pc = "write" /\ command = c) \/ ~queue_created

(* A view for TLC.  What it leaves out, the sensors and what was read of   *)
(* them, decides no step, and no property of this module but the types     *)
(* says anything of it.                                                    *)
BlindView ==
  <<state, output, command_queue, queue_created, installed, scan_pc, port,
    pin, command, latch, in_step>>
=============================================================================
