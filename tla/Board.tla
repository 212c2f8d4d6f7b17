-------------------------------- MODULE Board --------------------------------
(***************************************************************************)
(* The tasks of the board on its two cores.  GateController lets any task  *)
(* take its next step at any time; here a task takes one only while the    *)
(* FreeRTOS scheduler has put it on a core.                                *)
(*                                                                         *)
(* The I/O task, the gate task and the TCP tasks are created with          *)
(* xTaskCreate, at priority 5 and for either core.  app_main, at priority  *)
(* 1, is pinned to core 0 (CONFIG_ESP_MAIN_TASK_AFFINITY_CPU0), so it runs *)
(* while it is awake and no other task is on core 0.  A tick is 10 ms      *)
(* (CONFIG_FREERTOS_HZ), and every vTaskDelay(10 / portTICK_PERIOD_MS)     *)
(* sleeps until the next one.                                              *)
(*                                                                         *)
(* A message of the host is the gate command in it; what becomes of other  *)
(* messages is in ProcessData.  Of the TCP tasks only the rx task is here: *)
(* the tx task wakes at every tick, finds its queue empty, since nothing   *)
(* calls tcp_send_data, and sleeps again.                                  *)
(***************************************************************************)
EXTENDS GateController

CONSTANT RX_QUEUE_LEN   \* length of tcp_rx_queue, 10 on the board

(* Nothing aborts here: GateController has the restarts. *)
ASSUME BoardAssumption ==
  /\ RX_QUEUE_LEN \in Nat \ {0}
  /\ "heap" \notin Faults

Cores   == {0, 1}
Drivers == {"io_scan", "gate_controller", "tcp_rx"}   \* priority 5
Tasks   == Drivers \cup {"app_main"}

VARIABLES
  on,        \* the task of priority 5 on each core, or "none"
  ready,     \* those that wait for a core, the first in line first
  asleep,    \* tasks that sleep until the next tick
  due,       \* tasks the tick, or the end of a transaction, will wake
  rx_queue   \* tcp_rx_queue

schedVars == <<on, ready, asleep, due>>
boardVars == <<vars, schedVars, rx_queue>>

(* Slip: the I/O task could not be created, and nobody looked. *)
BoardInitWithoutScan ==
  /\ Init
  /\ on = [c \in Cores |-> "none"]
  /\ ready = <<>>
  /\ asleep = {}
  /\ due = Tasks \ {"io_scan"}
  /\ rx_queue = <<>>

(* Every task has been created and waits for its first time on a core. *)
BoardInit ==
  /\ Init
  /\ on = [c \in Cores |-> "none"]
  /\ ready = <<>>
  /\ asleep = {}
  /\ due = Tasks
  /\ rx_queue = <<>>

-----------------------------------------------------------------------------
(* The scheduler *)

Runs(t) ==
  IF t = "app_main"
    THEN t \notin asleep \cup due /\ on[0] = "none"
    ELSE \E c \in Cores : on[c] = t

(* Task t gives up its core, which goes to the first in line. *)
LeavesCore(t) ==
  IF t = "app_main" THEN UNCHANGED <<on, ready>>
  ELSE /\ on' = [c \in Cores |->
                   IF on[c] # t THEN on[c]
                   ELSE IF ready = <<>> THEN "none"
                   ELSE Head(ready)]
       /\ ready' = IF ready = <<>> THEN <<>> ELSE Tail(ready)

(* vTaskDelay of one tick *)
Sleeps(t) ==
  /\ LeavesCore(t)
  /\ asleep' = asleep \cup {t}
  /\ UNCHANGED due

(* i2c_master_cmd_begin: the task waits for the interrupt of the I2C       *)
(* controller.                                                             *)
AwaitsBus(t) ==
  /\ LeavesCore(t)
  /\ due' = due \cup {t}
  /\ UNCHANGED asleep

StaysOn == UNCHANGED schedVars

(* A free core takes the task, at once if app_main is on it; if there is   *)
(* none the task gets in line.                                             *)
Wakes(t) ==
  /\ t \in due
  /\ due' = due \ {t}
  /\ \/ t = "app_main" /\ UNCHANGED <<on, ready>>
     \/ /\ t # "app_main"
        /\ \E c \in Cores :
             on[c] = "none" /\ on' = [on EXCEPT ![c] = t]
        /\ UNCHANGED ready
     \/ /\ t # "app_main"
        /\ \A c \in Cores : on[c] # "none"
        /\ ready' = Append(ready, t)
        /\ UNCHANGED on
  /\ UNCHANGED <<asleep, vars, rx_queue>>

AtWork(t) ==
  Runs(t) \/ t \in due \/ \E i \in DOMAIN ready : ready[i] = t

(* What the I/O task and the rx task do between two ticks takes less than  *)
(* a tick, so the next one finds them asleep.  It may find the gate task   *)
(* in a wait loop, and app_main, which prints, anywhere: there are never   *)
(* two tasks of one priority to share a core by time slices.  The rx task  *)
(* stays in recv when the host has sent nothing.                           *)
Tick ==
  /\ ~AtWork("io_scan") /\ ~AtWork("tcp_rx")
  /\ \E woken \in {asleep, asleep \ {"tcp_rx"}} :
       /\ due' = due \cup woken
       /\ asleep' = asleep \ woken
  /\ UNCHANGED <<on, ready, vars, rx_queue>>

-----------------------------------------------------------------------------
(* The tasks, on their cores *)

(* Every transaction on the bus suspends the I/O task, and so does the end *)
(* of its loop.  (reset_port's vTaskDelay of 5 ms is one of no ticks.)     *)
ScanRuns ==
  /\ Runs("io_scan")
  /\ ScanTask
  /\ CASE scan_pc \in {"reset_write", "reset_sample", "write", "sample"} ->
            AwaitsBus("io_scan")
       [] scan_pc = "publish" /\ scan_pc' = "receive" -> Sleeps("io_scan")
       [] OTHER -> StaysOn
  /\ UNCHANGED rx_queue

(* Slip: vTaskDelay(5 / portTICK_PERIOD_MS), which is vTaskDelay(0). *)
gate_delay_of_5_ms == StaysOn

(* The end of gate_controller_task's loop *)
gate_delay == Sleeps("gate_controller")

(* The wait loops have no vTaskDelay: while the sensor has not changed the *)
(* task stays on its core without doing anything.                          *)
GateRuns ==
  /\ Runs("gate_controller")
  /\ gate_controller_task
  /\ IF gate_pc' = "receive" THEN gate_delay ELSE StaysOn
  /\ UNCHANGED rx_queue

GateFindsNothing ==
  /\ Runs("gate_controller")
  /\ gate_pc = "receive"
  /\ gate_created /\ gate_queue = <<>>
  /\ gate_delay
  /\ UNCHANGED <<vars, rx_queue>>

(* tcp_client_rx_task: a message, dropped when the queue is full.  The     *)
(* host is not reached before the I/O task is done with its reset, which   *)
(* takes milliseconds and the WiFi station seconds.                        *)
RxReceives(g) ==
  /\ Runs("tcp_rx")
  /\ queue_created
  /\ rx_queue' = IF Len(rx_queue) < RX_QUEUE_LEN
                   THEN Append(rx_queue, g) ELSE rx_queue
  /\ Sleeps("tcp_rx")
  /\ UNCHANGED vars

(* recv has nothing, or no connection. *)
RxFindsNothing ==
  /\ Runs("tcp_rx")
  /\ Sleeps("tcp_rx")
  /\ UNCHANGED <<vars, rx_queue>>

(* A turn of app_main's loop: at most one message. *)
AppMainRuns ==
  /\ Runs("app_main")
  /\ IF rx_queue = <<>> THEN UNCHANGED <<vars, rx_queue>>
     ELSE /\ send_gate_command(Head(rx_queue))
          /\ rx_queue' = Tail(rx_queue)
  /\ Sleeps("app_main")

GateMoves(p, n) ==
  SensorMoves(p, n) /\ UNCHANGED <<schedVars, rx_queue>>

BoardNext ==
  \/ ScanRuns
  \/ GateRuns
  \/ GateFindsNothing
  \/ \E g \in Commands : RxReceives(g)
  \/ RxFindsNothing
  \/ AppMainRuns
  \/ Tick
  \/ \E t \in Tasks : Wakes(t)
  \/ \E p \in Ports, n \in Pins : GateMoves(p, n)

(* A task on a core executes; ticks and interrupts come; a motor that is   *)
(* driven moves its gate.  app_main may be taken off its core again and    *)
(* again before its turn is done, and goes on each time: what it needs is  *)
(* that core 0 is free again and again, hence its strong fairness.         *)
BoardSpec ==
  /\ BoardInit /\ [][BoardNext]_boardVars
  /\ WF_boardVars(ScanRuns)
  /\ WF_boardVars(GateRuns \/ GateFindsNothing)
  /\ WF_boardVars(RxFindsNothing \/ \E g \in Commands : RxReceives(g))
  /\ SF_boardVars(AppMainRuns)
  /\ WF_boardVars(Tick)
  /\ \A t \in Tasks : WF_boardVars(Wakes(t))
  /\ \A p \in Ports, n \in Pins : WF_boardVars(GateMoves(p, n))

-----------------------------------------------------------------------------
(* Properties *)

(* The scheduler is as fair as GateController assumes: whatever the tasks  *)
(* do on the two cores, the gate task's spinning included, the I/O task    *)
(* and the gate task always take their next step.                          *)
ImplementsFairGates == FairSpec

(* app_main's messages are taken again and again, so the queue of them     *)
(* does not stay full: a spinning gate task that keeps app_main off core 0 *)
(* has gone off it before long, provided each command starts a motor that  *)
(* moves its gate.                                                         *)
MessagesTaken == []<>(Len(rx_queue) < RX_QUEUE_LEN)
=============================================================================
