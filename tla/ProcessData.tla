---------------------------- MODULE ProcessData ----------------------------
(***************************************************************************)
(* main/process_data.c on top of main/tcp_client.c: app_main calls         *)
(* app_process_data_loop every tick.  It takes one message off             *)
(* tcp_rx_queue, parses the first JSON value in it into a cJSON tree on    *)
(* the heap, and hands the tree to the handler of the command, which sends *)
(* a gate command.  Who deletes the tree, the handler or its caller, is    *)
(* what goes wrong here.                                                   *)
(*                                                                         *)
(* A JSON object is a record of its three members; the order of the        *)
(* members does not matter.                                                *)
(***************************************************************************)
EXTENDS TcpClient

(* A member, as cJSON_GetObjectItem finds it: what it is and its valueint, *)
(* which is 0 unless it is a number.                                       *)
Item == {i \in [is : {"number", "string", "missing"}, int : Int] :
           i.is # "number" => i.int = 0}

Number(v) == [is |-> "number", int |-> v]
Text      == [is |-> "string", int |-> 0]
Missing   == [is |-> "missing", int |-> 0]

(* The members the loop and app_control_gate look for. *)
ASSUME PdAssumption ==
  Objects \subseteq [command : Item, gateNo : Item, gatePo : Item]

(* Slip: the last entry is left out. *)
array_handler_without_open == <<0, 1, 2>>

(* array_handler: the same handler for GATE_STOP_COMMAND, 0, to            *)
(* GATE_OPEN_COMMAND, 3.                                                   *)
array_handler == <<0, 1, 2, 3>>

VARIABLES
  main_pc,      \* "idle", or in the handler loop of app_process_data_loop
  tree,         \* the tree at jsRoot
  current,      \* which of the host's commands it was parsed from
  handler,      \* the loop's index into array_handler
  deletes,      \* history: cJSON_Delete calls on the tree
  gate_sent     \* history: the gate commands sent, and from which command

mainVars == <<main_pc, tree, current, handler, deletes, gate_sent>>
pdVars == <<tcpVars, mainVars>>

(* gate_command_t: gate_no is a uint8_t, the other two are ints. *)
GateCommandSent ==
  [of : 1 .. SENT_MAX, command_name : Int, gate_no : 0 .. 255,
   position : Int]

PdTypeOK ==
  /\ TcpTypeOK
  /\ main_pc \in {"idle", "dispatch"}
  /\ tree \in {"none", "live", "freed"}
  /\ current \in 0 .. SENT_MAX
  /\ handler \in 1 .. Len(array_handler) + 1
  /\ deletes \in 0 .. 3
  /\ gate_sent \in Seq(GateCommandSent)

MainInit ==
  /\ main_pc = "idle"
  /\ tree = "none"
  /\ current = 0
  /\ handler = 1
  /\ deletes = 0
  /\ gate_sent = <<>>

MainRestart ==
  /\ main_pc' = "idle"
  /\ tree' = "none"
  /\ current' = 0
  /\ handler' = 1
  /\ deletes' = 0
  /\ gate_sent' = gate_sent

PdInit == TcpInit /\ MainInit

-----------------------------------------------------------------------------
(* cJSON *)

(* cJSON_Parse of a message: it wants a whole value at the start, and does *)
(* not look at what follows.                                               *)
Parses(m) == m.from % 2 = 1 /\ m.to > m.from

CommandOf(m) == (m.from + 1) \div 2

Object == sent[current]

-----------------------------------------------------------------------------
(* app_process_data_loop *)

(* Slip: the message stays on the queue until its command is done. *)
main_receive_peeking ==
  /\ main_pc = "idle"
  /\ tcp_rx_queue # <<>>
  /\ LET m == Head(tcp_rx_queue) IN
       /\ Parses(m) /\ sent[CommandOf(m)].command # Missing
       /\ current' = CommandOf(m)
  /\ tree' = "live"
  /\ deletes' = 0
  /\ handler' = 1
  /\ main_pc' = "dispatch"
  /\ UNCHANGED <<gate_sent, tcpVars>>

(* Take a message.  No JSON value, or no memory for its tree: nothing is   *)
(* done and nothing said.  No "command": the tree is deleted here.         *)
(* Otherwise look for the handler.                                         *)
main_receive ==
  /\ main_pc = "idle"
  /\ TakeRx
  /\ LET m == Head(tcp_rx_queue)
         o == sent[CommandOf(m)]
     IN \/ /\ ~Parses(m)
           /\ UNCHANGED <<main_pc, tree, current, handler, deletes>>
        \/ /\ "heap" \in NetFaults /\ Parses(m)
           /\ current' = CommandOf(m)
           /\ tree' = "none"
           /\ deletes' = 0
           /\ UNCHANGED <<main_pc, handler>>
        \/ /\ Parses(m) /\ o.command = Missing
           /\ current' = CommandOf(m)
           /\ tree' = "none"
           /\ deletes' = 1
           /\ UNCHANGED <<main_pc, handler>>
        \/ /\ Parses(m) /\ o.command # Missing
           /\ current' = CommandOf(m)
           /\ tree' = "live"
           /\ deletes' = 0
           /\ handler' = 1
           /\ main_pc' = "dispatch"
  /\ UNCHANGED <<gate_sent, netVars, tx_pc, rx_running, rx_len, tcp_tx_queue>>

(* app_control_gate, all members there: send the gate command. *)
SendGateCommand ==
  /\ Missing \notin {Object.gateNo, Object.gatePo}
  /\ gate_sent' = Append(gate_sent,
       [of           |-> current,
        command_name |-> Object.command.int,
        gate_no      |-> Object.gateNo.int % 256,
        position     |-> Object.gatePo.int])
  /\ UNCHANGED <<tree, deletes>>

(* app_control_gate, a member missing: delete the tree and return.         *)
GiveUp ==
  /\ Missing \in {Object.gateNo, Object.gatePo}
  /\ tree' = "freed"
  /\ deletes' = deletes + 1
  /\ UNCHANGED gate_sent

(* Slip: the handler loop breaks out before it deletes. *)
main_dispatch_returns ==
  /\ main_pc = "dispatch"
  /\ handler <= Len(array_handler)
  /\ tree = "live"
  /\ IF array_handler[handler] = Object.command.int
       THEN (SendGateCommand \/ GiveUp) /\ main_pc' = "idle"
       ELSE UNCHANGED <<tree, deletes, gate_sent, main_pc>>
  /\ handler' = handler + 1
  /\ UNCHANGED <<current, tcpVars>>

(* One turn of the handler loop on a tree that is there. *)
main_dispatch ==
  /\ main_pc = "dispatch"
  /\ handler <= Len(array_handler)
  /\ tree = "live"
  /\ IF array_handler[handler] = Object.command.int
       THEN SendGateCommand \/ GiveUp
       ELSE UNCHANGED <<tree, deletes, gate_sent>>
  /\ handler' = handler + 1
  /\ UNCHANGED <<main_pc, current, tcpVars>>

(* After the handler gave up, the rest of the loop compares with a         *)
(* valueint read from freed memory.  It may match one more entry; the      *)
(* same handler then walks the freed tree, and crashes or misses a member  *)
(* and deletes the tree again.                                             *)
main_dispatch_freed ==
  /\ main_pc = "dispatch"
  /\ handler <= Len(array_handler)
  /\ tree = "freed"
  /\ \/ /\ deletes' \in deletes .. 2
        /\ handler' = handler + 1
        /\ UNCHANGED <<main_pc, tree, current, gate_sent, tcpVars>>
     \/ TcpRestart /\ MainRestart

(* The loop is over: delete the tree. *)
main_delete ==
  /\ main_pc = "dispatch"
  /\ handler = Len(array_handler) + 1
  /\ tree = "live"
  /\ tree' = "none"
  /\ deletes' = deletes + 1
  /\ main_pc' = "idle"
  /\ UNCHANGED <<current, handler, gate_sent, tcpVars>>

(* The handler has deleted it already.  The heap finds the block free and  *)
(* aborts, or (the block having been merged or handed out again) does not  *)
(* notice.                                                                 *)
main_delete_again ==
  /\ main_pc = "dispatch"
  /\ handler = Len(array_handler) + 1
  /\ tree = "freed"
  /\ \/ /\ tree' = "none"
        /\ deletes' = deletes + 1
        /\ main_pc' = "idle"
        /\ UNCHANGED <<current, handler, gate_sent, tcpVars>>
     \/ TcpRestart /\ MainRestart

app_process_data_loop ==
  \/ main_receive
  \/ main_dispatch
  \/ main_dispatch_freed
  \/ main_delete
  \/ main_delete_again

(* The tasks of the TCP client and the host, seen from here. *)
TcpStep ==
  /\ tcp_client_tx_task \/ tcp_client_rx_task \/ TcpWorld
  /\ UNCHANGED mainVars

PdReboot == Reboot /\ MainRestart

PdNext == app_process_data_loop \/ TcpStep \/ PdReboot

PdSpec == PdInit /\ [][PdNext]_pdVars

(* app_main never blocks in app_process_data_loop: its receive does not    *)
(* wait, and it sleeps a tick between calls.                               *)
PdFairSpec == PdSpec /\ WF_pdVars(app_process_data_loop) /\ TcpFairness

-----------------------------------------------------------------------------
(* Properties *)

(* When app_process_data_loop returns, the tree it parsed is gone: no path *)
(* through the loop and the handler leaks it.                              *)
NoTreeLeaked == main_pc = "idle" => tree # "live"

(* A command the handlers know, with all its members. *)
Complete(o) ==
  /\ Missing \notin {o.command, o.gateNo, o.gatePo}
  /\ o.command.int \in 0 .. 3

(* Every gate command comes from a complete command of the host with the   *)
(* same number, in the order the host wrote them, and none twice, however  *)
(* recv cuts and glues the stream, whatever is dropped when a queue is     *)
(* full, and across restarts.  It is for the position the host named and   *)
(* for its gate, or one 256 gates away.                                    *)
GateCommandsFromHost ==
  /\ \A i \in DOMAIN gate_sent :
       LET g == gate_sent[i]
           o == sent[g.of]
       IN /\ Complete(o)
          /\ g.command_name = o.command.int
          /\ g.position = o.gatePo.int
          /\ g.gate_no \in 0 .. 255
          /\ (o.gateNo.int - g.gate_no) % 256 = 0
  /\ \A i, j \in DOMAIN gate_sent :
       i < j => gate_sent[i].of < gate_sent[j].of

(* There was no memory for the tree of command k: nothing was parsed and   *)
(* so nothing deleted.                                                     *)
OutOfMemory(k) == current = k /\ tree = "none" /\ deletes = 0

(* A complete command that is first in its message is performed once the   *)
(* message is on the queue, unless the chip restarts or has no memory for  *)
(* the tree at that moment.  (One that is not first, or is cut by the end  *)
(* of a message, never is.)                                                *)
FirstIsPerformed ==
  \A k \in 1 .. SENT_MAX :
    (\E i \in DOMAIN tcp_rx_queue :
        LET m == tcp_rx_queue[i] IN
        Parses(m) /\ CommandOf(m) = k /\ Complete(sent[k]))
      ~> \/ \E i \in DOMAIN gate_sent : gate_sent[i].of = k
         \/ OutOfMemory(k)
         \/ tx_pc = "socket"

(* cJSON.h: the caller of cJSON_Parse is the one who deletes the result,   *)
(* and so deletes it once.                                                 *)
DeletedOnce == deletes <= 1
=============================================================================
