----------------------------- MODULE TcpClient -----------------------------
(***************************************************************************)
(* main/tcp_client.c: the connection to the host that sends commands.      *)
(*                                                                         *)
(* tcp_client_tx_task opens a socket and tries to connect until it can;    *)
(* then it creates tcp_client_rx_task and goes on to send what is on       *)
(* tcp_tx_queue.  The rx task polls recv on the global sock_fd and puts    *)
(* whatever one call returns on tcp_rx_queue as one message.               *)
(*                                                                         *)
(* TCP is a stream of bytes.  The host writes commands; here a command is  *)
(* two units of the stream, its first half and its second, so that a recv  *)
(* can return part of one, one, or several.  The units are numbered from 1 *)
(* and a message is an interval of them: command k is the units 2k-1, 2k.  *)
(***************************************************************************)
EXTENDS Integers, Sequences, FiniteSets

CONSTANTS
  RX_QUEUE_LEN,     \* tcp_rx_queue, 10 on the board
  TX_QUEUE_LEN,     \* tcp_tx_queue, 10 on the board
  TCP_MSG_MAX_LEN,  \* size of a message buffer, in units; 256 bytes
  WORD,             \* 2^32, where uint32_t wraps
  Objects,          \* the commands the host writes, as JSON objects
  SENT_MAX,         \* bound on the commands the host writes
  NetFaults         \* "socket", "connect", "close", "reset", "heap",
                    \* "reboot": what may go wrong

ASSUME TcpAssumption ==
  /\ RX_QUEUE_LEN \in Nat \ {0}
  /\ TX_QUEUE_LEN \in Nat \ {0}
  /\ TCP_MSG_MAX_LEN \in Nat \ {0, 1}
  /\ WORD \in Nat /\ WORD > TCP_MSG_MAX_LEN
  /\ SENT_MAX \in Nat
  /\ NetFaults \subseteq
       {"socket", "connect", "close", "reset", "heap", "reboot"}

VARIABLES
  sent,          \* the commands the host has written, oldest first
  received,      \* the units before this one are no longer on the wire
  peer,          \* the connection as lwip has it; "reset": recv fails
  sock_fd,       \* the global descriptor, -1 when socket() failed
  open_fds,      \* the descriptors lwip has open
  tx_pc,         \* where tcp_client_tx_task is
  rx_running,    \* tcp_client_rx_task exists
  rx_len,        \* rx_msg.len after the last recv
  tcp_rx_queue,  \* messages from the host
  tcp_tx_queue   \* how many messages to the host are waiting

netVars == <<sent, received, peer, sock_fd, open_fds>>
tcpVars == <<netVars, tx_pc, rx_running, rx_len, tcp_rx_queue, tcp_tx_queue>>

Units == 2 * SENT_MAX
Message == [from : 1 .. Units + 1, to : 0 .. Units]

(* What a recv that failed leaves in the zeroed buffer: the empty string.  *)
EmptyMessage == [from |-> 1, to |-> 0]

LastUnit == 2 * Len(sent)

TcpTypeOK ==
  /\ sent \in Seq(Objects) /\ Len(sent) <= SENT_MAX
  /\ received \in 0 .. LastUnit
  /\ peer \in {"none", "open", "closed", "reset"}
  /\ sock_fd \in Int
  /\ open_fds \subseteq Nat
  /\ tx_pc \in {"socket", "connect", "send"}
  /\ rx_running \in BOOLEAN
  /\ rx_len \in 0 .. WORD - 1
  /\ tcp_rx_queue \in Seq(Message) /\ Len(tcp_rx_queue) <= RX_QUEUE_LEN
  /\ tcp_tx_queue \in 0 .. TX_QUEUE_LEN

TcpInit ==
  /\ sent = <<>>
  /\ received = 0
  /\ peer = "none"
  /\ sock_fd = 0
  /\ open_fds = {}
  /\ tx_pc = "socket"
  /\ rx_running = FALSE
  /\ rx_len = 0
  /\ tcp_rx_queue = <<>>
  /\ tcp_tx_queue = 0

(* The chip restarts: what is on the wire belongs to a dead connection. *)
TcpRestart ==
  /\ sent' = sent
  /\ received' = LastUnit
  /\ peer' = "none"
  /\ sock_fd' = 0
  /\ open_fds' = {}
  /\ tx_pc' = "socket"
  /\ rx_running' = FALSE
  /\ rx_len' = 0
  /\ tcp_rx_queue' = <<>>
  /\ tcp_tx_queue' = 0

-----------------------------------------------------------------------------
(* lwip and the host *)

(* The host writes a command. *)
HostSends(o) ==
  /\ peer = "open"
  /\ Len(sent) < SENT_MAX
  /\ sent' = Append(sent, o)
  /\ UNCHANGED <<received, peer, sock_fd, open_fds, tx_pc, rx_running, rx_len,
                 tcp_rx_queue, tcp_tx_queue>>

(* The host closes the connection, and what it wrote still arrives; or the *)
(* connection breaks, and what is on the wire is lost.                     *)
PeerGoes ==
  /\ peer = "open"
  /\ \/ /\ "close" \in NetFaults
        /\ peer' = "closed"
        /\ UNCHANGED received
     \/ /\ "reset" \in NetFaults
        /\ peer' = "reset"
        /\ received' = LastUnit
  /\ UNCHANGED <<sent, sock_fd, open_fds, tx_pc, rx_running, rx_len,
                 tcp_rx_queue, tcp_tx_queue>>

-----------------------------------------------------------------------------
(* tcp_client_tx_task *)

tx_socket ==
  /\ tx_pc = "socket"
  /\ sock_fd' = Cardinality(open_fds)
  /\ open_fds' = open_fds \cup {sock_fd'}
  /\ tx_pc' = "connect"
  /\ UNCHANGED <<sent, received, peer, rx_running, rx_len, tcp_rx_queue,
                 tcp_tx_queue>>

(* A failed socket() is printed and connect is called with -1. *)
tx_socket_fails ==
  /\ "socket" \in NetFaults
  /\ tx_pc = "socket"
  /\ sock_fd' = -1
  /\ tx_pc' = "connect"
  /\ UNCHANGED <<sent, received, peer, open_fds, rx_running, rx_len,
                 tcp_rx_queue, tcp_tx_queue>>

(* Slip: the socket that could not connect stays open. *)
tx_connect_fails_leaking ==
  /\ tx_pc = "connect"
  /\ sock_fd = -1 \/ "connect" \in NetFaults
  /\ tx_pc' = "socket"
  /\ UNCHANGED <<netVars, rx_running, rx_len, tcp_rx_queue, tcp_tx_queue>>

(* Slip: the break is after the if, not inside it. *)
tx_connect_fails_and_breaks ==
  /\ tx_pc = "connect"
  /\ sock_fd = -1 \/ "connect" \in NetFaults
  /\ open_fds' = open_fds \ {sock_fd}
  /\ tx_pc' = "send"
  /\ UNCHANGED <<sent, received, peer, sock_fd, rx_running, rx_len,
                 tcp_rx_queue, tcp_tx_queue>>

(* A connect that fails: the socket is closed and the loop starts over. *)
tx_connect_fails ==
  /\ tx_pc = "connect"
  /\ sock_fd = -1 \/ "connect" \in NetFaults
  /\ open_fds' = open_fds \ {sock_fd}
  /\ tx_pc' = "socket"
  /\ UNCHANGED <<sent, received, peer, sock_fd, rx_running, rx_len,
                 tcp_rx_queue, tcp_tx_queue>>

(* Slip: no break after the connection. *)
tx_connect_stays ==
  /\ tx_pc = "connect"
  /\ sock_fd # -1
  /\ peer' = "open"
  /\ rx_running' = TRUE
  /\ tx_pc' = "socket"
  /\ UNCHANGED <<sent, received, sock_fd, open_fds, rx_len, tcp_rx_queue,
                 tcp_tx_queue>>

(* A connect that works: greet the host, create the rx task (the result of *)
(* xTaskCreate is not looked at) and leave the loop.                       *)
tx_connect ==
  /\ tx_pc = "connect"
  /\ sock_fd # -1
  /\ peer' = "open"
  /\ \/ rx_running' = TRUE
     \/ "heap" \in NetFaults /\ rx_running' = FALSE
  /\ tx_pc' = "send"
  /\ UNCHANGED <<sent, received, sock_fd, open_fds, rx_len, tcp_rx_queue,
                 tcp_tx_queue>>

(* A message to the host leaves the queue, sent or not. *)
tx_send ==
  /\ tx_pc = "send"
  /\ tcp_tx_queue > 0
  /\ tcp_tx_queue' = tcp_tx_queue - 1
  /\ UNCHANGED <<netVars, tx_pc, rx_running, rx_len, tcp_rx_queue>>

tcp_client_tx_task ==
  \/ tx_socket
  \/ tx_socket_fails
  \/ tx_connect_fails
  \/ tx_connect
  \/ tx_send

(* tcp_send_data: too long a message is refused, and one that finds the    *)
(* queue full is dropped.                                                  *)
tcp_send_data(len) ==
  /\ len < TCP_MSG_MAX_LEN /\ tcp_tx_queue < TX_QUEUE_LEN
  /\ tcp_tx_queue' = tcp_tx_queue + 1
  /\ UNCHANGED <<netVars, tx_pc, rx_running, rx_len, tcp_rx_queue>>

-----------------------------------------------------------------------------
(* tcp_client_rx_task *)

(* xQueueSend to tcp_rx_queue: dropped when full. *)
EnqueueRx(m) ==
  tcp_rx_queue' = IF Len(tcp_rx_queue) < RX_QUEUE_LEN
                    THEN Append(tcp_rx_queue, m)
                    ELSE tcp_rx_queue

(* Slip: recv with MSG_PEEK. *)
rx_data_peeking ==
  /\ rx_running
  /\ peer \in {"open", "closed"}
  /\ \E n \in 1 .. TCP_MSG_MAX_LEN - 1 :
       /\ received + n <= LastUnit
       /\ rx_len' = n
       /\ EnqueueRx([from |-> received + 1, to |-> received + n])
  /\ UNCHANGED <<netVars, tx_pc, rx_running, tcp_tx_queue>>

(* recv returns data: any number of units that are on the wire and fit in  *)
(* the buffer, which keeps room for the terminator.                        *)
rx_data ==
  /\ rx_running
  /\ peer \in {"open", "closed"}
  /\ \E n \in 1 .. TCP_MSG_MAX_LEN - 1 :
       /\ received + n <= LastUnit
       /\ received' = received + n
       /\ rx_len' = n
       /\ EnqueueRx([from |-> received + 1, to |-> received + n])
  /\ UNCHANGED <<sent, peer, sock_fd, open_fds, tx_pc, rx_running,
                 tcp_tx_queue>>

(* recv returns 0, the host having closed: nothing.  lwip says so once; a  *)
(* tick later recv fails.                                                  *)
rx_closed ==
  /\ rx_running
  /\ peer = "closed"
  /\ received = LastUnit
  /\ rx_len' = 0
  /\ peer' = "reset"
  /\ UNCHANGED <<sent, received, sock_fd, open_fds, tx_pc, rx_running,
                 tcp_rx_queue, tcp_tx_queue>>

(* recv returns -1.  len is unsigned: it is 2^32 - 1, greater than 0, and  *)
(* the zeroed buffer goes on the queue as a message.                       *)
rx_error ==
  /\ rx_running
  /\ peer = "reset"
  /\ rx_len' = (-1) % WORD
  /\ EnqueueRx(EmptyMessage)
  /\ UNCHANGED <<netVars, tx_pc, rx_running, tcp_tx_queue>>

tcp_client_rx_task == rx_data \/ rx_closed \/ rx_error

-----------------------------------------------------------------------------
(* Who takes from tcp_rx_queue is main; on its own the client only has     *)
(* something take the oldest message.                                      *)
TakeRx ==
  /\ tcp_rx_queue # <<>>
  /\ tcp_rx_queue' = Tail(tcp_rx_queue)

AppTakes ==
  /\ TakeRx
  /\ UNCHANGED <<netVars, tx_pc, rx_running, rx_len, tcp_tx_queue>>

Reboot ==
  /\ "reboot" \in NetFaults
  /\ TcpRestart

TcpWorld ==
  \/ \E o \in Objects : HostSends(o)
  \/ PeerGoes
  \/ \E len \in {1, TCP_MSG_MAX_LEN - 1, TCP_MSG_MAX_LEN} : tcp_send_data(len)

TcpNext ==
  \/ tcp_client_tx_task
  \/ tcp_client_rx_task
  \/ TcpWorld
  \/ AppTakes
  \/ Reboot

TcpSpec == TcpInit /\ [][TcpNext]_tcpVars

(* The tx task is never blocked for good (lwip gives up a connect after a  *)
(* while); a socket can be had, and the host reached, again and again.     *)
TcpFairness ==
  /\ WF_tcpVars(tcp_client_tx_task)
  /\ SF_tcpVars(tx_socket)
  /\ SF_tcpVars(tx_connect)

-----------------------------------------------------------------------------
(* Properties *)

(* However many attempts it takes to connect, no more than one socket is   *)
(* open: lwip has ten (CONFIG_LWIP_MAX_SOCKETS), and the loop makes a new  *)
(* one every attempt.                                                      *)
OneSocket == Cardinality(open_fds) <= 1

(* The rx task starts after sock_fd holds the connected descriptor, and    *)
(* the tx task never changes or closes it from then on: the global the two *)
(* tasks share needs no lock.                                              *)
RxReadsTheConnection ==
  rx_running => /\ tx_pc = "send"
                /\ sock_fd \in open_fds
                /\ peer # "none"

(* The messages on the queue hold units in the order of the stream, none   *)
(* twice and none that was not received.                                   *)
QueueInStreamOrder ==
  \A i, j \in DOMAIN tcp_rx_queue :
    /\ tcp_rx_queue[i].to <= received
    /\ i < j /\ tcp_rx_queue[j] # EmptyMessage =>
         tcp_rx_queue[i].to < tcp_rx_queue[j].from

(* If sockets can be had and the host can be reached, again and again, the *)
(* client gets to it, whatever failed before, and again after a restart.   *)
(* (Without a restart it never connects a second time.)                    *)
Connects == []<>(tx_pc = "send" /\ peer # "none")

(* tcp_client.c:68 "Null-terminate whatever we received and treat like a   *)
(* string": the terminator goes inside the buffer.                         *)
TerminatorInBuffer == rx_len > 0 => rx_len < TCP_MSG_MAX_LEN
=============================================================================
