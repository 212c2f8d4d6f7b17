----------------------------- MODULE BoardProofs -----------------------------
(***************************************************************************)
(* Proofs about the tasks on their cores: a schedule of FreeRTOS is one of *)
(* those GateController allows, whatever the lengths of the queues, the    *)
(* numbers of ports and pins and the commands are.  So everything proved   *)
(* there holds here too.                                                   *)
(***************************************************************************)
EXTENDS Board, GateControllerProofs

(* tcp_rx_queue holds commands of the host. *)
RxQueueOK == rx_queue \in Seq(Commands)

(* The rx task appends a command, app_main takes the first.                *)
LEMMA RxQueueStep ==
  ASSUME RxQueueOK, [BoardNext]_boardVars
  PROVE  RxQueueOK'
<1>1. ASSUME NEW g \in Commands, RxReceives(g)
      PROVE  RxQueueOK'
  BY <1>1, AppendProperties DEF RxReceives, RxQueueOK
<1>2. CASE AppMainRuns
  BY <1>2, HeadTailProperties DEF AppMainRuns, RxQueueOK
<1>3. CASE UNCHANGED rx_queue
  BY <1>3 DEF RxQueueOK
<1>4. QED
  BY <1>1, <1>2, <1>3
     DEF BoardNext, boardVars, ScanRuns, GateRuns, GateFindsNothing,
         RxFindsNothing, Tick, Wakes, GateMoves

(* What a task does while it is on a core is a step of GateController; the *)
(* scheduler's own steps change nothing there.                             *)
LEMMA BoardStepIsStep ==
  ASSUME RxQueueOK, [BoardNext]_boardVars
  PROVE  [Next]_vars
<1>1. CASE ScanRuns
  BY <1>1 DEF ScanRuns, Next
<1>2. CASE GateRuns
  BY <1>2 DEF GateRuns, Next
<1>3. CASE AppMainRuns
  <2>1. CASE rx_queue = <<>>
    BY <1>3, <2>1 DEF AppMainRuns
  <2>2. CASE rx_queue # <<>>
    <3>1. Head(rx_queue) \in Commands
      BY <2>2, HeadTailProperties DEF RxQueueOK
    <3>2. send_gate_command(Head(rx_queue))
      BY <1>3, <2>2 DEF AppMainRuns
    <3>3. QED
      BY <3>1, <3>2 DEF Next
  <2>3. QED
    BY <2>1, <2>2
<1>4. ASSUME NEW p \in Ports, NEW n \in Pins, GateMoves(p, n)
      PROVE  [Next]_vars
  BY <1>4 DEF GateMoves, Next
<1>5. CASE UNCHANGED vars
  BY <1>5
<1>6. QED
  BY <1>1, <1>2, <1>3, <1>4, <1>5
     DEF BoardNext, boardVars, GateFindsNothing, RxReceives, RxFindsNothing,
         Tick, Wakes

(* A behaviour of the scheduled tasks is a behaviour of GateController:    *)
(* its safety properties need no scheduler.                                *)
THEOREM BoardImplementsGates == BoardSpec => Spec
<1>1. BoardInit => Init /\ RxQueueOK
  BY DEF BoardInit, RxQueueOK
<1>2. QED
  BY <1>1, RxQueueStep, BoardStepIsStep, PTL DEF BoardSpec, Spec

(* On its cores, too, the gate task never finds the output queue full, if  *)
(* that has room for two.                                                  *)
THEOREM BoardDropsNoOutputCommand ==
  ASSUME QUEUE_LEN >= 2
  PROVE  BoardSpec => []OutputQueueNeverFull
<1>1. Spec => []OutputQueueNeverFull
  BY NoOutputCommandDropped
<1>2. QED
  BY <1>1, BoardImplementsGates, PTL

(* On its cores, too, every command that send_gate_command accepts is      *)
(* performed once and in order.                                            *)
THEOREM ScheduledBoardImplementsService ==
  ASSUME QUEUE_LEN >= 2
  PROVE  BoardSpec => ImplementsService
<1>1. Spec => ImplementsService
  BY BoardImplementsService
<1>2. QED
  BY <1>1, BoardImplementsGates, PTL

(* On its cores, too, no command ends before its gate has moved.           *)
THEOREM ScheduledCommandMovesGate ==
  ASSUME BusWorks, Plant # "free"
  PROVE  BoardSpec => DoneOnlyIfMoved
<1>1. Spec => DoneOnlyIfMoved
  BY CommandMovesGate
<1>2. QED
  BY <1>1, BoardImplementsGates, PTL
=============================================================================
