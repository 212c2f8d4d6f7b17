----------------------------- MODULE DataProofs -----------------------------
(***************************************************************************)
(* Theorems about the TCP client and the processing of what it receives,   *)
(* for every length of the queues and of a message, every set of objects   *)
(* the host may write, any number of them, and every set of faults.        *)
(*                                                                         *)
(* Three invariants, each inductive with the ones before it: TcpTypeOK     *)
(* with TcpConnected (the descriptors), QueueInStreamOrder (the messages)  *)
(* and Performed (how far the main loop is in the stream of commands).     *)
(***************************************************************************)
EXTENDS ProcessData, TLAPS, SequenceTheorems, FiniteSetTheorems

-----------------------------------------------------------------------------
(* The TCP client *)

(* A step of the client in its surroundings: one of its own, or a restart  *)
(* of the chip, of which main has causes of its own.                       *)
TcpActs == TcpNext \/ TcpRestart

(* Which descriptor is open at each place of tcp_client_tx_task, and that  *)
(* its loop has been left when the rx task runs.                           *)
TcpConnected ==
  /\ tx_pc = "socket"  => open_fds = {}
  /\ tx_pc = "connect" => \/ sock_fd = -1 /\ open_fds = {}
                          \/ sock_fd \in Nat /\ open_fds = {sock_fd}
  /\ tx_pc = "send"    => /\ sock_fd \in Nat
                          /\ open_fds = {sock_fd}
                          /\ peer # "none"
  /\ rx_running => tx_pc = "send"

TcpInv == TcpTypeOK /\ TcpConnected /\ QueueInStreamOrder

(* The number of units is a natural number and no more than Units.         *)
LEMMA UnitsNat ==
  ASSUME TcpTypeOK
  PROVE  /\ Len(sent) \in Nat
         /\ LastUnit \in Nat /\ Units \in Nat /\ LastUnit <= Units
         /\ received \in Nat /\ received <= LastUnit
<1>1. Len(sent) \in Nat /\ Len(sent) <= SENT_MAX /\ SENT_MAX \in Nat
  BY TcpAssumption, LenProperties DEF TcpTypeOK
<1>2. LastUnit \in Nat /\ Units \in Nat /\ LastUnit <= Units
  BY <1>1 DEF LastUnit, Units
<1>3. received \in Nat /\ received <= LastUnit
  BY <1>2 DEF TcpTypeOK
<1>4. QED
  BY <1>1, <1>2, <1>3

(* What xQueueSend does to the queue of messages: it keeps it or appends.  *)
LEMMA EnqueueRxType ==
  ASSUME TcpTypeOK, NEW m \in Message, EnqueueRx(m)
  PROVE  /\ tcp_rx_queue' \in Seq(Message)
         /\ Len(tcp_rx_queue') <= RX_QUEUE_LEN
<1>1. tcp_rx_queue \in Seq(Message) /\ Len(tcp_rx_queue) \in Nat
        /\ Len(tcp_rx_queue) <= RX_QUEUE_LEN /\ RX_QUEUE_LEN \in Nat
  BY TcpAssumption, LenProperties DEF TcpTypeOK
<1>2. CASE Len(tcp_rx_queue) < RX_QUEUE_LEN
  <2>1. tcp_rx_queue' = Append(tcp_rx_queue, m)
    BY <1>2 DEF EnqueueRx
  <2>2. QED
    BY <1>1, <1>2, <2>1, AppendProperties
<1>3. CASE ~(Len(tcp_rx_queue) < RX_QUEUE_LEN)
  BY <1>1, <1>3 DEF EnqueueRx
<1>4. QED
  BY <1>2, <1>3

(* A message that begins after what was received, or is the empty one,     *)
(* keeps the queue in the order of the stream.                             *)
LEMMA EnqueueRxInOrder ==
  ASSUME TcpTypeOK, QueueInStreamOrder, NEW m \in Message, EnqueueRx(m),
         received' \in Nat, received <= received', m.to <= received',
         m # EmptyMessage => received < m.from
  PROVE  QueueInStreamOrder'
<1> DEFINE q == tcp_rx_queue
           r == tcp_rx_queue'
<1>1. q \in Seq(Message) /\ Len(q) \in Nat /\ received \in Nat
        /\ DOMAIN q = 1 .. Len(q)
  BY UnitsNat, LenProperties DEF TcpTypeOK
<1>2. \A i \in DOMAIN q : q[i] \in Message /\ q[i].to \in Int
                            /\ q[i].from \in Int /\ q[i].to <= received
  <2>1. \A i \in DOMAIN q : q[i] \in Message
    BY <1>1, ElementOfSeq
  <2>2. \A x \in Message : x.to \in Int /\ x.from \in Int
    BY UnitsNat DEF Message
  <2>3. QED
    BY <2>1, <2>2 DEF QueueInStreamOrder
<1>3. m.to \in Int /\ m.from \in Int
  BY UnitsNat DEF Message
<1>4. CASE r = q
  BY <1>1, <1>2, <1>4 DEF QueueInStreamOrder
<1>5. CASE r = Append(q, m)
  <2>1. /\ Len(r) = Len(q) + 1
        /\ \A i \in 1 .. Len(q) : r[i] = q[i]
        /\ r[Len(q) + 1] = m
        /\ DOMAIN r = 1 .. Len(q) + 1
    BY <1>1, <1>5, AppendProperties, LenProperties
  <2>2. SUFFICES ASSUME NEW i \in DOMAIN r, NEW j \in DOMAIN r
                 PROVE  /\ r[i].to <= received'
                        /\ i < j /\ r[j] # EmptyMessage =>
                             r[i].to < r[j].from
    BY DEF QueueInStreamOrder, EmptyMessage
  <2>3. r[i].to <= received'
    <3>1. CASE i = Len(q) + 1
      BY <2>1, <3>1
    <3>2. CASE i \in 1 .. Len(q)
      BY <1>1, <1>2, <2>1, <3>2
    <3>3. QED
      BY <1>1, <2>1, <3>1, <3>2
  <2>4. ASSUME i < j, r[j] # EmptyMessage
        PROVE  r[i].to < r[j].from
    <3>1. i \in 1 .. Len(q) /\ r[i] = q[i]
      BY <1>1, <2>1, <2>4
    <3>2. CASE j = Len(q) + 1
      BY <1>1, <1>2, <1>3, <2>1, <2>4, <3>1, <3>2
    <3>3. CASE j \in 1 .. Len(q)
      BY <1>1, <2>1, <2>4, <3>1, <3>3 DEF QueueInStreamOrder
    <3>4. QED
      BY <1>1, <2>1, <3>2, <3>3
  <2>5. QED
    BY <2>3, <2>4
<1>6. QED
  BY <1>4, <1>5 DEF EnqueueRx

(* A message taken from the front leaves a queue in the same order.        *)
LEMMA TakeRxInOrder ==
  ASSUME TcpTypeOK, QueueInStreamOrder, TakeRx, received' = received
  PROVE  /\ tcp_rx_queue' \in Seq(Message)
         /\ Len(tcp_rx_queue') <= RX_QUEUE_LEN
         /\ QueueInStreamOrder'
         /\ Head(tcp_rx_queue) \in Message
         /\ Head(tcp_rx_queue).to <= received
         /\ \A j \in DOMAIN tcp_rx_queue' :
              /\ tcp_rx_queue'[j] = tcp_rx_queue[j + 1]
              /\ j + 1 \in DOMAIN tcp_rx_queue
              /\ tcp_rx_queue'[j] # EmptyMessage =>
                   Head(tcp_rx_queue).to < tcp_rx_queue'[j].from
<1> DEFINE q == tcp_rx_queue
           r == tcp_rx_queue'
<1>1. q \in Seq(Message) /\ Len(q) \in Nat /\ q # <<>>
        /\ Len(q) <= RX_QUEUE_LEN /\ RX_QUEUE_LEN \in Nat
  BY TcpAssumption, LenProperties DEF TcpTypeOK, TakeRx
<1>2. /\ Head(q) \in Message
      /\ Tail(q) \in Seq(Message)
      /\ Len(Tail(q)) = Len(q) - 1
      /\ \A i \in 1 .. Len(Tail(q)) : Tail(q)[i] = q[i + 1]
      /\ Head(q) = q[1]
      /\ Len(q) >= 1
  <2>1. Len(q) # 0
    BY <1>1, EmptySeq
  <2>2. QED
    BY <1>1, <2>1, HeadTailProperties
<1>3. r = Tail(q)
  BY DEF TakeRx
<1>4. /\ r \in Seq(Message) /\ Len(r) = Len(q) - 1
      /\ DOMAIN r = 1 .. Len(q) - 1 /\ DOMAIN q = 1 .. Len(q)
  BY <1>1, <1>2, <1>3, LenProperties
<1>5. \A j \in DOMAIN r : r[j] = q[j + 1] /\ j + 1 \in DOMAIN q /\ 1 < j + 1
  BY <1>1, <1>2, <1>3, <1>4
<1>6. 1 \in DOMAIN q /\ Head(q).to <= received
  BY <1>1, <1>2, <1>4 DEF QueueInStreamOrder
<1>7. \A j \in DOMAIN r : r[j] # EmptyMessage => Head(q).to < r[j].from
  BY <1>2, <1>5, <1>6 DEF QueueInStreamOrder
<1>8. QueueInStreamOrder'
  <2>1. SUFFICES ASSUME NEW i \in DOMAIN r, NEW j \in DOMAIN r
                 PROVE  /\ r[i].to <= received
                        /\ i < j /\ r[j] # EmptyMessage =>
                             r[i].to < r[j].from
    BY DEF QueueInStreamOrder, EmptyMessage
  <2>2. i \in Int /\ j \in Int
    BY <1>4
  <2>3. i < j => i + 1 < j + 1
    BY <2>2
  <2>4. QED
    BY <1>5, <2>3 DEF QueueInStreamOrder
<1>9. QED
  BY <1>1, <1>2, <1>4, <1>5, <1>6, <1>7, <1>8

(* The queue is as ordered as it was when neither it nor what was received *)
(* changes, and also when the wire is emptied.                             *)
LEMMA SameQueueInOrder ==
  ASSUME TcpTypeOK, QueueInStreamOrder, tcp_rx_queue' = tcp_rx_queue,
         received' \in Nat, received <= received'
  PROVE  QueueInStreamOrder'
<1>1. tcp_rx_queue \in Seq(Message) /\ received \in Nat
  BY UnitsNat DEF TcpTypeOK
<1>2. \A i \in DOMAIN tcp_rx_queue : tcp_rx_queue[i] \in Message
  BY <1>1, ElementOfSeq, LenProperties
<1>3. \A m \in Message : m.to \in Int
  BY UnitsNat DEF Message
<1>4. QED
  BY <1>1, <1>2, <1>3 DEF QueueInStreamOrder, EmptyMessage

(* The client starts with no socket and no message.                        *)
LEMMA TcpInitInv == TcpInit => TcpInv
<1> SUFFICES ASSUME TcpInit
             PROVE  TcpInv
  OBVIOUS
<1>1. <<>> \in Seq(Objects) /\ <<>> \in Seq(Message)
        /\ Len(<<>>) = 0 /\ DOMAIN <<>> = {}
  OBVIOUS
<1>2. LastUnit = 0 /\ 0 \in 0 .. WORD - 1 /\ 0 \in 0 .. TX_QUEUE_LEN
        /\ 0 <= SENT_MAX /\ 0 <= RX_QUEUE_LEN /\ 0 \in 0 .. 0
  BY <1>1, TcpAssumption DEF TcpInit, LastUnit
<1>3. TcpTypeOK
  <2>1. /\ sent \in Seq(Objects) /\ Len(sent) <= SENT_MAX
        /\ tcp_rx_queue \in Seq(Message)
        /\ Len(tcp_rx_queue) <= RX_QUEUE_LEN
    BY <1>1, <1>2 DEF TcpInit
  <2>2. /\ received \in 0 .. LastUnit /\ sock_fd \in Int
        /\ rx_len \in 0 .. WORD - 1 /\ tcp_tx_queue \in 0 .. TX_QUEUE_LEN
    BY <1>2 DEF TcpInit
  <2>3. /\ peer \in {"none", "open", "closed", "reset"}
        /\ open_fds \subseteq Nat
        /\ tx_pc \in {"socket", "connect", "send"}
        /\ rx_running \in BOOLEAN
    BY DEF TcpInit
  <2>4. QED
    BY <2>1, <2>2, <2>3 DEF TcpTypeOK
<1>4. TcpConnected
  BY DEF TcpInit, TcpConnected
<1>5. QueueInStreamOrder
  BY <1>1 DEF TcpInit, QueueInStreamOrder
<1>6. QED
  BY <1>3, <1>4, <1>5 DEF TcpInv

(* Every step of the client, of the host and of who takes the messages     *)
(* keeps the invariant.                                                    *)
LEMMA TcpStepInv ==
  ASSUME TcpInv, TcpActs \/ UNCHANGED tcpVars
  PROVE  TcpInv'
<1> USE DEF TcpInv
<1>1. /\ Len(sent) \in Nat /\ LastUnit \in Nat
      /\ Units \in Nat /\ LastUnit <= Units
      /\ received \in Nat /\ received <= LastUnit
  BY UnitsNat
<1>2. /\ RX_QUEUE_LEN \in Nat /\ TX_QUEUE_LEN \in Nat
      /\ TCP_MSG_MAX_LEN \in Nat /\ WORD \in Nat /\ SENT_MAX \in Nat
      /\ WORD > TCP_MSG_MAX_LEN
  BY TcpAssumption
<1>3. ASSUME NEW o \in Objects, HostSends(o)
      PROVE  TcpInv'
  <2>1. /\ sent' \in Seq(Objects) /\ Len(sent') = Len(sent) + 1
        /\ Len(sent') <= SENT_MAX
    BY <1>1, <1>2, <1>3, AppendProperties DEF HostSends, TcpTypeOK
  <2>2. LastUnit' = LastUnit + 2
    BY <1>1, <2>1 DEF LastUnit
  <2>3. TcpTypeOK'
    BY <1>1, <1>3, <2>1, <2>2 DEF HostSends, TcpTypeOK
  <2>4. TcpConnected'
    BY <1>3 DEF HostSends, TcpConnected
  <2>5. QueueInStreamOrder'
    BY <1>1, <1>3, SameQueueInOrder DEF HostSends
  <2>6. QED
    BY <2>3, <2>4, <2>5
<1>4. CASE PeerGoes
  <2>1. LastUnit' = LastUnit
    BY <1>4 DEF PeerGoes, LastUnit
  <2>2. received' \in Nat /\ received <= received' /\ received' <= LastUnit
    BY <1>1, <1>4 DEF PeerGoes
  <2>3. peer' \in {"closed", "reset"}
    BY <1>4 DEF PeerGoes
  <2>4. TcpTypeOK'
    BY <1>1, <1>4, <2>1, <2>2, <2>3 DEF PeerGoes, TcpTypeOK
  <2>5. TcpConnected'
    BY <1>4, <2>3 DEF PeerGoes, TcpConnected
  <2>6. QueueInStreamOrder'
    BY <1>4, <2>2, SameQueueInOrder DEF PeerGoes
  <2>7. QED
    BY <2>4, <2>5, <2>6
<1>5. ASSUME NEW len, tcp_send_data(len)
      PROVE  TcpInv'
  <2>1. LastUnit' = LastUnit
    BY <1>5 DEF tcp_send_data, netVars, LastUnit
  <2>2. TcpTypeOK'
    BY <1>2, <1>5, <2>1 DEF tcp_send_data, netVars, TcpTypeOK
  <2>3. TcpConnected'
    BY <1>5 DEF tcp_send_data, netVars, TcpConnected
  <2>4. QueueInStreamOrder'
    BY <1>1, <1>5, SameQueueInOrder DEF tcp_send_data, netVars
  <2>5. QED
    BY <2>2, <2>3, <2>4
<1>6. CASE tx_socket
  <2>1. LastUnit' = LastUnit
    BY <1>6 DEF tx_socket, LastUnit
  <2>2. open_fds = {} /\ sock_fd' = 0 /\ open_fds' = {sock_fd'}
    BY <1>6, FS_EmptySet DEF tx_socket, TcpConnected
  <2>3. TcpTypeOK'
    BY <1>6, <2>1, <2>2 DEF tx_socket, TcpTypeOK
  <2>4. TcpConnected'
    BY <1>6, <2>2 DEF tx_socket, TcpConnected
  <2>5. QueueInStreamOrder'
    BY <1>1, <1>6, SameQueueInOrder DEF tx_socket
  <2>6. QED
    BY <2>3, <2>4, <2>5
<1>7. CASE tx_socket_fails
  <2>1. LastUnit' = LastUnit
    BY <1>7 DEF tx_socket_fails, LastUnit
  <2>2. TcpTypeOK'
    BY <1>7, <2>1 DEF tx_socket_fails, TcpTypeOK
  <2>3. TcpConnected'
    BY <1>7 DEF tx_socket_fails, TcpConnected
  <2>4. QueueInStreamOrder'
    BY <1>1, <1>7, SameQueueInOrder DEF tx_socket_fails
  <2>5. QED
    BY <2>2, <2>3, <2>4
<1>8. CASE tx_connect_fails
  <2>1. LastUnit' = LastUnit
    BY <1>8 DEF tx_connect_fails, LastUnit
  <2>2. TcpTypeOK'
    BY <1>8, <2>1 DEF tx_connect_fails, TcpTypeOK
  <2>3. TcpConnected'
    BY <1>8 DEF tx_connect_fails, TcpConnected
  <2>4. QueueInStreamOrder'
    BY <1>1, <1>8, SameQueueInOrder DEF tx_connect_fails
  <2>5. QED
    BY <2>2, <2>3, <2>4
<1>9. CASE tx_connect
  <2>1. LastUnit' = LastUnit
    BY <1>9 DEF tx_connect, LastUnit
  <2>2. TcpTypeOK'
    BY <1>9, <2>1 DEF tx_connect, TcpTypeOK
  <2>3. TcpConnected'
    BY <1>9 DEF tx_connect, TcpConnected
  <2>4. QueueInStreamOrder'
    BY <1>1, <1>9, SameQueueInOrder DEF tx_connect
  <2>5. QED
    BY <2>2, <2>3, <2>4
<1>10. CASE tx_send
  <2>1. LastUnit' = LastUnit
    BY <1>10 DEF tx_send, netVars, LastUnit
  <2>2. TcpTypeOK'
    BY <1>2, <1>10, <2>1 DEF tx_send, netVars, TcpTypeOK
  <2>3. TcpConnected'
    BY <1>10 DEF tx_send, netVars, TcpConnected
  <2>4. QueueInStreamOrder'
    BY <1>1, <1>10, SameQueueInOrder DEF tx_send, netVars
  <2>5. QED
    BY <2>2, <2>3, <2>4
<1>11. CASE rx_data
  <2>1. PICK n \in 1 .. TCP_MSG_MAX_LEN - 1 :
          /\ received + n <= LastUnit
          /\ received' = received + n
          /\ rx_len' = n
          /\ EnqueueRx([from |-> received + 1, to |-> received + n])
    BY <1>11 DEF rx_data
  <2> DEFINE m == [from |-> received + 1, to |-> received + n]
  <2>2. n \in Nat /\ n >= 1 /\ n <= WORD - 1
    BY <1>2
  <2>3. m \in Message /\ m.from = received + 1 /\ m.to = received + n
    BY <1>1, <2>1, <2>2 DEF Message
  <2>4. tcp_rx_queue' \in Seq(Message)
          /\ Len(tcp_rx_queue') <= RX_QUEUE_LEN
    BY <2>1, <2>3, EnqueueRxType
  <2>5. LastUnit' = LastUnit
    BY <1>11 DEF rx_data, LastUnit
  <2>6. TcpTypeOK'
    BY <1>1, <1>2, <1>11, <2>1, <2>2, <2>4, <2>5 DEF rx_data, TcpTypeOK
  <2>7. TcpConnected'
    BY <1>11 DEF rx_data, TcpConnected
  <2>8. QueueInStreamOrder'
    BY <1>1, <2>1, <2>2, <2>3, EnqueueRxInOrder
  <2>9. QED
    BY <2>6, <2>7, <2>8
<1>12. CASE rx_closed
  <2>1. LastUnit' = LastUnit
    BY <1>12 DEF rx_closed, LastUnit
  <2>2. TcpTypeOK'
    BY <1>2, <1>12, <2>1 DEF rx_closed, TcpTypeOK
  <2>3. TcpConnected'
    BY <1>12 DEF rx_closed, TcpConnected
  <2>4. QueueInStreamOrder'
    BY <1>1, <1>12, SameQueueInOrder DEF rx_closed
  <2>5. QED
    BY <2>2, <2>3, <2>4
<1>13. CASE rx_error
  <2>1. LastUnit' = LastUnit
    BY <1>13 DEF rx_error, netVars, LastUnit
  <2>2. EmptyMessage \in Message /\ EmptyMessage.to = 0
    BY <1>1 DEF EmptyMessage, Message
  <2>3. (-1) % WORD \in 0 .. WORD - 1
    BY <1>2
  <2>4. tcp_rx_queue' \in Seq(Message)
          /\ Len(tcp_rx_queue') <= RX_QUEUE_LEN
    BY <1>13, <2>2, EnqueueRxType DEF rx_error
  <2>5. TcpTypeOK'
    BY <1>13, <2>1, <2>3, <2>4 DEF rx_error, netVars, TcpTypeOK
  <2>6. TcpConnected'
    BY <1>13 DEF rx_error, netVars, TcpConnected
  <2>7. QueueInStreamOrder'
    BY <1>1, <1>13, <2>2, EnqueueRxInOrder DEF rx_error, netVars
  <2>8. QED
    BY <2>5, <2>6, <2>7
<1>14. CASE AppTakes
  <2>1. LastUnit' = LastUnit
    BY <1>14 DEF AppTakes, netVars, LastUnit
  <2>2. /\ tcp_rx_queue' \in Seq(Message)
        /\ Len(tcp_rx_queue') <= RX_QUEUE_LEN
        /\ QueueInStreamOrder'
    BY <1>14, TakeRxInOrder DEF AppTakes, netVars
  <2>3. TcpTypeOK'
    BY <1>14, <2>1, <2>2 DEF AppTakes, netVars, TcpTypeOK
  <2>4. TcpConnected'
    BY <1>14 DEF AppTakes, netVars, TcpConnected
  <2>5. QED
    BY <2>2, <2>3, <2>4
<1>15. CASE TcpRestart
  <2>1. LastUnit' = LastUnit
    BY <1>15 DEF TcpRestart, LastUnit
  <2>2. tcp_rx_queue' = <<>> /\ <<>> \in Seq(Message)
          /\ Len(<<>>) = 0 /\ DOMAIN <<>> = {}
    BY <1>15 DEF TcpRestart
  <2>3. /\ received' \in 0 .. LastUnit /\ 0 \in 0 .. WORD - 1
        /\ 0 \in 0 .. TX_QUEUE_LEN /\ 0 <= RX_QUEUE_LEN
    BY <1>1, <1>2, <1>15 DEF TcpRestart
  <2>4. TcpTypeOK'
    <3>1. /\ sent' \in Seq(Objects) /\ Len(sent') <= SENT_MAX
          /\ tcp_rx_queue' \in Seq(Message)
          /\ Len(tcp_rx_queue') <= RX_QUEUE_LEN
      BY <1>15, <2>2, <2>3 DEF TcpRestart, TcpTypeOK
    <3>2. /\ received' \in 0 .. LastUnit' /\ sock_fd' \in Int
          /\ rx_len' \in 0 .. WORD - 1
          /\ tcp_tx_queue' \in 0 .. TX_QUEUE_LEN
      BY <1>15, <2>1, <2>3 DEF TcpRestart
    <3>3. /\ peer' \in {"none", "open", "closed", "reset"}
          /\ open_fds' \subseteq Nat
          /\ tx_pc' \in {"socket", "connect", "send"}
          /\ rx_running' \in BOOLEAN
      BY <1>15 DEF TcpRestart
    <3>4. QED
      BY <3>1, <3>2, <3>3 DEF TcpTypeOK
  <2>5. TcpConnected'
    BY <1>15 DEF TcpRestart, TcpConnected
  <2>6. QueueInStreamOrder'
    BY <2>2 DEF QueueInStreamOrder
  <2>7. QED
    BY <2>4, <2>5, <2>6
<1>16. CASE UNCHANGED tcpVars
  BY <1>16 DEF tcpVars, netVars, TcpTypeOK, TcpConnected,
       QueueInStreamOrder, LastUnit
<1>17. QED
  BY <1>3, <1>4, <1>5, <1>6, <1>7, <1>8, <1>9, <1>10, <1>11, <1>12, <1>13,
     <1>14, <1>15, <1>16
     DEF TcpActs, TcpNext, tcp_client_tx_task, tcp_client_rx_task, TcpWorld,
         Reboot

(* The client is what its type says, of the socket it has open its rx task *)
(* reads, and its messages are in the order of the stream.                 *)
THEOREM TcpInvariant == TcpSpec => []TcpInv
<1>1. TcpInit => TcpInv
  BY TcpInitInv
<1>2. TcpInv /\ [TcpNext]_tcpVars => TcpInv'
  BY TcpStepInv DEF TcpActs
<1>3. QED
  BY <1>1, <1>2, PTL DEF TcpSpec

(* What the invariant says of the descriptors, in the words of the two     *)
(* properties.                                                             *)
LEMMA ConnectedMeans ==
  ASSUME TcpInv
  PROVE  OneSocket /\ RxReadsTheConnection
<1>1. open_fds = {} \/ \E fd : open_fds = {fd}
  BY DEF TcpInv, TcpTypeOK, TcpConnected
<1>2. Cardinality(open_fds) \in {0, 1}
  BY <1>1, FS_EmptySet, FS_Singleton
<1>3. OneSocket
  BY <1>2 DEF OneSocket
<1>4. RxReadsTheConnection
  BY DEF TcpInv, TcpConnected, RxReadsTheConnection
<1>5. QED
  BY <1>3, <1>4

-----------------------------------------------------------------------------
(* The main loop *)

(* What app_process_data_loop knows of the tree and of the command it was  *)
(* parsed from.                                                            *)
TreeFollowed ==
  /\ main_pc = "idle" => tree = "none"
  /\ main_pc = "dispatch" => /\ tree \in {"live", "freed"}
                             /\ current \in 1 .. Len(sent)
                             /\ Object.command # Missing
  /\ tree = "live"  => deletes = 0
  /\ tree = "freed" => deletes \in 1 .. 2

(* Command k has been received, and no message on the queue has a part of  *)
(* it or of one before it.                                                 *)
Behind(k) ==
  /\ 2 * k <= received
  /\ \A j \in DOMAIN tcp_rx_queue :
       tcp_rx_queue[j] # EmptyMessage => 2 * k < tcp_rx_queue[j].from

(* The command in the handlers' hands is behind, and every command that    *)
(* was sent to the gates; none sent is later than the one in hand, and     *)
(* that one has not been sent while the loop has not passed its handler.   *)
Performed ==
  /\ Behind(current)
  /\ \A i \in DOMAIN gate_sent :
       /\ Behind(gate_sent[i].of)
       /\ main_pc = "dispatch" =>
            /\ gate_sent[i].of <= current
            /\ gate_sent[i].of = current /\ tree = "live" =>
                 handler > Object.command.int + 1

PdInv ==
  /\ TcpInv
  /\ PdTypeOK
  /\ TreeFollowed
  /\ Performed
  /\ GateCommandsFromHost

(* Arithmetic of a message that parses: it holds the whole of its command. *)
LEMMA CommandOfMessage ==
  ASSUME TcpTypeOK, NEW m \in Message, Parses(m), m.to <= received
  PROVE  /\ CommandOf(m) \in 1 .. Len(sent)
         /\ CommandOf(m) \in 1 .. SENT_MAX
         /\ 2 * CommandOf(m) = m.from + 1
         /\ 2 * CommandOf(m) <= m.to
<1>1. m.from \in Nat /\ m.from >= 1 /\ m.to \in Nat
  BY UnitsNat DEF Message
<1>2. m.from % 2 = 1 /\ m.to > m.from
  BY DEF Parses
<1>3. (m.from + 1) \div 2 \in Nat /\ 2 * ((m.from + 1) \div 2) = m.from + 1
  BY <1>1, <1>2
<1>4. m.to <= 2 * Len(sent) /\ Len(sent) \in Nat /\ Len(sent) <= SENT_MAX
        /\ SENT_MAX \in Nat
  BY <1>1, UnitsNat, TcpAssumption DEF TcpTypeOK, LastUnit
<1>5. QED
  BY <1>1, <1>2, <1>3, <1>4 DEF CommandOf

(* What any step of the client does to the stream: what was received and   *)
(* what was sent only grows, and a message on the queue was there before   *)
(* or begins after what had been received.                                 *)
LEMMA StreamGoesOn ==
  ASSUME TcpInv, TcpActs \/ UNCHANGED tcpVars
  PROVE  /\ received' \in Nat /\ received <= received'
         /\ Len(sent) <= Len(sent')
         /\ \A k \in DOMAIN sent : sent'[k] = sent[k]
         /\ \A j \in DOMAIN tcp_rx_queue' :
              \/ tcp_rx_queue'[j] = EmptyMessage
              \/ tcp_rx_queue'[j].from > received
              \/ \E i \in DOMAIN tcp_rx_queue :
                   tcp_rx_queue'[j] = tcp_rx_queue[i]
<1> USE DEF TcpInv
<1>1. /\ Len(sent) \in Nat /\ LastUnit \in Nat
      /\ received \in Nat /\ received <= LastUnit
  BY UnitsNat
<1>2. sent \in Seq(Objects) /\ DOMAIN sent = 1 .. Len(sent)
        /\ tcp_rx_queue \in Seq(Message)
  BY LenProperties DEF TcpTypeOK
<1>3. received' \in Nat /\ received <= received'
  <2>1. \/ received' = received
        \/ received' = LastUnit
        \/ \E n \in 1 .. TCP_MSG_MAX_LEN - 1 : received' = received + n
    BY DEF TcpActs, TcpNext, tcp_client_tx_task, tcp_client_rx_task,
           TcpWorld, Reboot, HostSends, PeerGoes, tcp_send_data, tx_socket,
           tx_socket_fails, tx_connect_fails, tx_connect, tx_send, rx_data,
           rx_closed, rx_error, AppTakes, TcpRestart, tcpVars, netVars
  <2>2. QED
    BY <1>1, <2>1, TcpAssumption
<1>4. Len(sent) <= Len(sent') /\ \A k \in DOMAIN sent : sent'[k] = sent[k]
  <2>1. sent' = sent \/ \E o \in Objects : sent' = Append(sent, o)
    BY DEF TcpActs, TcpNext, tcp_client_tx_task, tcp_client_rx_task,
           TcpWorld, Reboot, HostSends, PeerGoes, tcp_send_data, tx_socket,
           tx_socket_fails, tx_connect_fails, tx_connect, tx_send, rx_data,
           rx_closed, rx_error, AppTakes, TcpRestart, tcpVars, netVars
  <2>2. QED
    BY <1>1, <1>2, <2>1, AppendProperties
<1>5. ASSUME NEW m, EnqueueRx(m), NEW j \in DOMAIN tcp_rx_queue'
      PROVE  \/ tcp_rx_queue'[j] = m
             \/ \E i \in DOMAIN tcp_rx_queue :
                  tcp_rx_queue'[j] = tcp_rx_queue[i]
  <2>1. CASE tcp_rx_queue' = tcp_rx_queue
    BY <2>1, <1>5
  <2>2. CASE tcp_rx_queue' = Append(tcp_rx_queue, m)
    <3>1. tcp_rx_queue \in Seq(Message \cup {m})
      BY <1>2, SeqDef
    <3>2. /\ Len(tcp_rx_queue) \in Nat
          /\ DOMAIN tcp_rx_queue = 1 .. Len(tcp_rx_queue)
          /\ DOMAIN tcp_rx_queue' = 1 .. Len(tcp_rx_queue) + 1
          /\ \A i \in 1 .. Len(tcp_rx_queue) :
               tcp_rx_queue'[i] = tcp_rx_queue[i]
          /\ tcp_rx_queue'[Len(tcp_rx_queue) + 1] = m
      BY <2>2, <3>1, AppendProperties, LenProperties
    <3>3. QED
      BY <1>5, <3>2
  <2>3. QED
    BY <1>5, <2>1, <2>2 DEF EnqueueRx
<1>6. ASSUME NEW j \in DOMAIN tcp_rx_queue'
      PROVE  \/ tcp_rx_queue'[j] = EmptyMessage
             \/ tcp_rx_queue'[j].from > received
             \/ \E i \in DOMAIN tcp_rx_queue :
                  tcp_rx_queue'[j] = tcp_rx_queue[i]
  <2>1. CASE tcp_rx_queue' = tcp_rx_queue
    BY <1>6, <2>1
  <2>2. CASE tcp_rx_queue' = <<>>
    BY <1>6, <2>2
  <2>3. CASE rx_data
    <3>1. PICK n : EnqueueRx([from |-> received + 1, to |-> received + n])
      BY <2>3 DEF rx_data
    <3>2. received + 1 > received
      BY <1>1
    <3>3. QED
      BY <1>5, <1>6, <3>1, <3>2
  <2>4. CASE rx_error
    BY <1>5, <1>6, <2>4 DEF rx_error
  <2>5. CASE AppTakes
    <3>1. TakeRx /\ received' = received
      BY <2>5 DEF AppTakes, netVars
    <3>2. QED
      BY <1>6, <3>1, TakeRxInOrder
  <2>6. QED
    BY <2>1, <2>2, <2>3, <2>4, <2>5
       DEF TcpActs, TcpNext, tcp_client_tx_task, tcp_client_rx_task,
           TcpWorld, Reboot, HostSends, PeerGoes, tcp_send_data, tx_socket,
           tx_socket_fails, tx_connect_fails, tx_connect, tx_send,
           rx_closed, TcpRestart, tcpVars, netVars
<1>7. QED
  BY <1>3, <1>4, <1>6

(* Behind is behind: no step of the client brings a command back.          *)
LEMMA BehindStays ==
  ASSUME TcpInv, TcpActs \/ UNCHANGED tcpVars, NEW k \in Int, Behind(k)
  PROVE  2 * k <= received' /\
         \A j \in DOMAIN tcp_rx_queue' :
           tcp_rx_queue'[j] # EmptyMessage => 2 * k < tcp_rx_queue'[j].from
<1>1. received \in Nat /\ 2 * k \in Int /\ 2 * k <= received
  BY UnitsNat DEF TcpInv, Behind
<1>2. /\ received' \in Nat /\ received <= received'
      /\ \A j \in DOMAIN tcp_rx_queue' :
              \/ tcp_rx_queue'[j] = EmptyMessage
              \/ tcp_rx_queue'[j].from > received
              \/ \E i \in DOMAIN tcp_rx_queue :
                   tcp_rx_queue'[j] = tcp_rx_queue[i]
  BY StreamGoesOn
<1>3. TcpInv'
  BY TcpStepInv
<1>4. \A j \in DOMAIN tcp_rx_queue' : tcp_rx_queue'[j].from \in Int
  <2>1. tcp_rx_queue' \in Seq(Message) /\ Units \in Nat
    BY <1>3, UnitsNat DEF TcpInv, TcpTypeOK
  <2>2. \A j \in DOMAIN tcp_rx_queue' : tcp_rx_queue'[j] \in Message
    BY <2>1, ElementOfSeq, LenProperties
  <2>3. \A m \in Message : m.from \in Int
    BY <2>1 DEF Message
  <2>4. QED
    BY <2>2, <2>3
<1>5. QED
  BY <1>1, <1>2, <1>4 DEF Behind

(* What the invariant says of the commands sent and of the one in hand:    *)
(* they are objects of the host.                                           *)
LEMMA CommandsAreObjects ==
  ASSUME PdInv
  PROVE  /\ Len(sent) \in Nat /\ DOMAIN sent = 1 .. Len(sent)
         /\ current \in Int
         /\ gate_sent \in Seq(GateCommandSent)
         /\ Len(gate_sent) \in Nat
         /\ DOMAIN gate_sent = 1 .. Len(gate_sent)
         /\ \A i \in DOMAIN gate_sent :
              gate_sent[i].of \in Int /\ gate_sent[i].of \in DOMAIN sent
         /\ \A k \in DOMAIN sent :
              /\ sent[k].command.int \in Int
              /\ sent[k].gateNo.int \in Int
              /\ sent[k].gatePo.int \in Int
<1>1. /\ Len(sent) \in Nat /\ received \in Nat /\ received <= 2 * Len(sent)
      /\ SENT_MAX \in Nat
  BY UnitsNat, TcpAssumption DEF PdInv, TcpInv, LastUnit
<1>2. sent \in Seq(Objects) /\ DOMAIN sent = 1 .. Len(sent)
  BY LenProperties DEF PdInv, TcpInv, TcpTypeOK
<1>3. \A k \in DOMAIN sent : sent[k] \in Objects
  BY <1>2, ElementOfSeq
<1>4. \A o \in Objects : o.command.int \in Int /\ o.gateNo.int \in Int
                           /\ o.gatePo.int \in Int
  BY PdAssumption DEF Item
<1>5. gate_sent \in Seq(GateCommandSent) /\ Len(gate_sent) \in Nat
        /\ DOMAIN gate_sent = 1 .. Len(gate_sent)
  BY LenProperties DEF PdInv, PdTypeOK
<1>6. \A i \in DOMAIN gate_sent : gate_sent[i] \in GateCommandSent
  BY <1>5, ElementOfSeq
<1>7. \A g \in GateCommandSent : g.of \in 1 .. SENT_MAX
  BY DEF GateCommandSent
<1>8. \A i \in DOMAIN gate_sent : 2 * gate_sent[i].of <= received
  BY DEF PdInv, Performed, Behind
<1>9. \A i \in DOMAIN gate_sent :
        gate_sent[i].of \in Int /\ gate_sent[i].of \in DOMAIN sent
  BY <1>1, <1>2, <1>6, <1>7, <1>8
<1>10. current \in Int
  BY <1>1 DEF PdInv, PdTypeOK
<1>11. QED
  BY <1>1, <1>2, <1>3, <1>4, <1>5, <1>9, <1>10

(* What was sent to the gates stays a faithful account when the host       *)
(* writes more and nothing more is sent.                                   *)
LEMMA SameCommandsFromHost ==
  ASSUME PdInv, gate_sent' = gate_sent,
         \A k \in DOMAIN sent : sent'[k] = sent[k]
  PROVE  GateCommandsFromHost'
<1>1. \A i \in DOMAIN gate_sent : gate_sent[i].of \in DOMAIN sent
  BY CommandsAreObjects
<1>2. \A i \in DOMAIN gate_sent :
        sent'[gate_sent[i].of] = sent[gate_sent[i].of]
  BY <1>1
<1>3. QED
  BY <1>2 DEF PdInv, GateCommandsFromHost

(* A restart leaves the invariant: what is on the wire is gone, and main   *)
(* has nothing in hand.                                                    *)
LEMMA PdRestartInv ==
  ASSUME PdInv, TcpRestart, MainRestart
  PROVE  PdInv'
<1>1. TcpInv'
  BY TcpStepInv DEF PdInv, TcpActs
<1>2. PdTypeOK'
  BY <1>1, TcpAssumption
     DEF PdInv, TcpInv, PdTypeOK, MainRestart, array_handler
<1>3. TreeFollowed'
  BY DEF MainRestart, TreeFollowed
<1>4. Performed'
  <2>1. /\ tcp_rx_queue' = <<>>
        /\ gate_sent' = gate_sent /\ current' = 0 /\ main_pc' = "idle"
    BY DEF TcpRestart, MainRestart
  <2>2. received \in Nat /\ received' \in Nat /\ received <= received'
    BY StreamGoesOn, UnitsNat DEF PdInv, TcpInv, TcpActs
  <2>3. \A i \in DOMAIN gate_sent : /\ gate_sent[i].of \in Int
                                    /\ 2 * gate_sent[i].of <= received
    BY CommandsAreObjects DEF PdInv, Performed, Behind
  <2>4. \A i \in DOMAIN gate_sent : 2 * gate_sent[i].of <= received'
    BY <2>2, <2>3
  <2>5. QED
    BY <2>1, <2>2, <2>4 DEF Performed, Behind
<1>5. GateCommandsFromHost'
  BY SameCommandsFromHost DEF TcpRestart, MainRestart
<1>6. QED
  BY <1>1, <1>2, <1>3, <1>4, <1>5 DEF PdInv

(* A step of the client's tasks, the host or the wire, main doing nothing. *)
LEMMA PdTcpInv ==
  ASSUME PdInv, TcpActs \/ UNCHANGED tcpVars, UNCHANGED mainVars
  PROVE  PdInv'
<1>1. TcpInv'
  BY TcpStepInv DEF PdInv
<1>2. /\ Len(sent) <= Len(sent')
      /\ \A k \in DOMAIN sent : sent'[k] = sent[k]
  BY StreamGoesOn DEF PdInv
<1>3. /\ Len(sent) \in Nat /\ Len(sent') \in Nat
      /\ DOMAIN sent = 1 .. Len(sent)
  BY <1>1, CommandsAreObjects, UnitsNat DEF TcpInv
<1>4. PdTypeOK'
  BY <1>1 DEF PdInv, TcpInv, PdTypeOK, mainVars
<1>5. main_pc = "dispatch" => Object' = Object
  BY <1>2, <1>3 DEF PdInv, TreeFollowed, Object, mainVars
<1>6. TreeFollowed'
  BY <1>2, <1>3, <1>5 DEF PdInv, TreeFollowed, mainVars
<1>7. Performed'
  <2>1. /\ 2 * current <= received'
        /\ \A j \in DOMAIN tcp_rx_queue' :
             tcp_rx_queue'[j] # EmptyMessage =>
               2 * current < tcp_rx_queue'[j].from
    BY BehindStays, CommandsAreObjects DEF PdInv, Performed
  <2>2. \A i \in DOMAIN gate_sent :
          /\ 2 * gate_sent[i].of <= received'
          /\ \A j \in DOMAIN tcp_rx_queue' :
               tcp_rx_queue'[j] # EmptyMessage =>
                 2 * gate_sent[i].of < tcp_rx_queue'[j].from
    BY BehindStays, CommandsAreObjects DEF PdInv, Performed
  <2>3. QED
    BY <1>5, <2>1, <2>2
       DEF PdInv, Performed, Behind, EmptyMessage, mainVars
<1>8. GateCommandsFromHost'
  BY <1>2, SameCommandsFromHost DEF mainVars
<1>9. QED
  BY <1>1, <1>4, <1>6, <1>7, <1>8 DEF PdInv

(* A message taken and parsed is of a later command than any performed.    *)
LEMMA ReceiveInv ==
  ASSUME PdInv, main_receive
  PROVE  PdInv'
<1> DEFINE m == Head(tcp_rx_queue)
<1>1. /\ AppTakes /\ TakeRx /\ received' = received /\ sent' = sent
      /\ gate_sent' = gate_sent /\ main_pc = "idle"
  BY DEF main_receive, AppTakes, netVars
<1>2. TcpActs
  BY <1>1 DEF TcpActs, TcpNext
<1>3. TcpInv'
  BY <1>2, TcpStepInv DEF PdInv
<1>4. /\ m \in Message /\ m.to <= received
      /\ tcp_rx_queue # <<>>
      /\ \A j \in DOMAIN tcp_rx_queue' :
           tcp_rx_queue'[j] # EmptyMessage => m.to < tcp_rx_queue'[j].from
  BY <1>1, TakeRxInOrder DEF PdInv, TcpInv, TakeRx
<1>5. CASE ~Parses(m) /\ UNCHANGED <<main_pc, tree, current, handler, deletes>>
  <2>1. UNCHANGED mainVars
    BY <1>1, <1>5 DEF mainVars
  <2>2. QED
    BY <1>2, <2>1, PdTcpInv
<1>6. ASSUME Parses(m), current' = CommandOf(m),
             \/ /\ tree' = "none" /\ deletes' \in 0 .. 1
                /\ UNCHANGED <<main_pc, handler>>
             \/ /\ sent[CommandOf(m)].command # Missing
                /\ tree' = "live" /\ deletes' = 0
                /\ handler' = 1 /\ main_pc' = "dispatch"
      PROVE  PdInv'
  <2>1. /\ current' \in 1 .. Len(sent) /\ current' \in 1 .. SENT_MAX
        /\ 2 * current' = m.from + 1 /\ 2 * current' <= m.to
    BY <1>4, <1>6, CommandOfMessage DEF PdInv, TcpInv
  <2>2. m.from \in Int /\ m.to \in Int /\ received \in Nat
          /\ Len(sent) \in Nat /\ SENT_MAX \in Nat
    BY <1>4, UnitsNat, TcpAssumption DEF PdInv, TcpInv, Message
  <2>3. current' \in Int
    BY <2>1, <2>2
  <2>4. m # EmptyMessage
    BY <1>6 DEF Parses, EmptyMessage
  <2>5. \A i \in DOMAIN gate_sent :
          gate_sent[i].of \in Int /\ gate_sent[i].of < current'
    <3>1. m = tcp_rx_queue[1] /\ 1 \in DOMAIN tcp_rx_queue
      <4>1. tcp_rx_queue \in Seq(Message) /\ Len(tcp_rx_queue) \in Nat
        BY LenProperties DEF PdInv, TcpInv, TcpTypeOK
      <4>2. Len(tcp_rx_queue) # 0
        BY <1>4, <4>1, EmptySeq
      <4>3. QED
        BY <1>4, <4>1, <4>2, HeadTailProperties, LenProperties
    <3>2. \A i \in DOMAIN gate_sent : /\ gate_sent[i].of \in Int
                                      /\ 2 * gate_sent[i].of < m.from
      BY <2>4, <3>1, CommandsAreObjects DEF PdInv, Performed, Behind
    <3>3. QED
      BY <2>1, <2>2, <2>3, <3>2
  <2>6. PdTypeOK'
    BY <1>1, <1>3, <1>6, <2>1
       DEF PdInv, TcpInv, PdTypeOK, array_handler
  <2>7. TreeFollowed'
    <3>1. Object' = sent[CommandOf(m)]
      BY <1>1, <1>6 DEF Object
    <3>2. current' \in 1 .. Len(sent')
      BY <1>1, <2>1
    <3>3. QED
      BY <1>1, <1>6, <3>1, <3>2 DEF TreeFollowed
  <2>8. Performed'
    <3>1. Behind(current)'
      <4>1. 2 * current' <= received'
        <5>1. m.to <= received
          BY <1>4
        <5>2. 2 * current' <= m.to
          BY <2>1
        <5>3. 2 * current' <= received
          <6>1. \A a, b, c \in Int : 2 * a <= b /\ b <= c => 2 * a <= c
            OBVIOUS
          <6>2. received \in Int
            BY <2>2
          <6>3. QED
            BY <2>2, <2>3, <5>1, <5>2, <6>1, <6>2
        <5>4. QED
          BY <1>1, <5>3
      <4>2. \A j \in DOMAIN tcp_rx_queue' : tcp_rx_queue'[j].from \in Int
        <5>1. \A j \in DOMAIN tcp_rx_queue' : tcp_rx_queue'[j] \in Message
          BY <1>3, ElementOfSeq, LenProperties DEF TcpInv, TcpTypeOK
        <5>2. \A x \in Message : x.from \in Int
          BY UnitsNat DEF PdInv, TcpInv, Message
        <5>3. QED
          BY <5>1, <5>2
      <4>3. \A j \in DOMAIN tcp_rx_queue' :
              tcp_rx_queue'[j] # EmptyMessage =>
                2 * current' < tcp_rx_queue'[j].from
        BY <1>4, <2>1, <2>2, <2>3, <4>2
      <4>4. QED
        BY <4>1, <4>3 DEF Behind, EmptyMessage
    <3>2. \A i \in DOMAIN gate_sent :
            /\ 2 * gate_sent[i].of <= received'
            /\ \A j \in DOMAIN tcp_rx_queue' :
                 tcp_rx_queue'[j] # EmptyMessage =>
                   2 * gate_sent[i].of < tcp_rx_queue'[j].from
      BY <1>2, BehindStays, CommandsAreObjects DEF PdInv, Performed
    <3>3. \A i \in DOMAIN gate_sent' : Behind(gate_sent[i].of)'
      BY <1>1, <3>2 DEF Behind, EmptyMessage
    <3>4. \A i \in DOMAIN gate_sent' :
            /\ gate_sent'[i].of <= current'
            /\ gate_sent'[i].of # current'
      BY <1>1, <2>3, <2>5
    <3>5. QED
      BY <3>1, <3>3, <3>4 DEF Performed
  <2>9. GateCommandsFromHost'
    BY <1>1, SameCommandsFromHost
  <2>10. QED
    BY <1>3, <2>6, <2>7, <2>8, <2>9 DEF PdInv
<1>7. QED
  BY <1>5, <1>6 DEF main_receive

(* The handler found for the command: what it sends is what the host       *)
(* wrote, once.                                                            *)
LEMMA DispatchInv ==
  ASSUME PdInv, main_dispatch
  PROVE  PdInv'
<1> DEFINE V == Object.command.int
<1>1. /\ UNCHANGED tcpVars /\ current' = current /\ main_pc' = main_pc
      /\ main_pc = "dispatch" /\ tree = "live" /\ deletes = 0
      /\ handler' = handler + 1
      /\ sent' = sent /\ tcp_rx_queue' = tcp_rx_queue
      /\ received' = received
  BY DEF main_dispatch, tcpVars, netVars, PdInv, TreeFollowed
<1>2. /\ handler \in 1 .. 4
      /\ array_handler[handler] = handler - 1
      /\ Len(array_handler) = 4
  BY DEF main_dispatch, array_handler, PdInv, PdTypeOK
<1>3. /\ current \in DOMAIN sent
      /\ Object' = Object
      /\ Object.command.int \in Int /\ Object.gateNo.int \in Int
      /\ Object.gatePo.int \in Int /\ Object.command # Missing
  BY <1>1, CommandsAreObjects DEF PdInv, TreeFollowed, Object
<1>4. V \in Int
  BY <1>3
<1>5. TcpInv'
  BY <1>1, TcpStepInv DEF PdInv
<1>6. /\ Behind(current)'
      /\ \A i \in DOMAIN gate_sent :
           /\ 2 * gate_sent[i].of <= received'
           /\ \A j \in DOMAIN tcp_rx_queue' :
                tcp_rx_queue'[j] # EmptyMessage =>
                  2 * gate_sent[i].of < tcp_rx_queue'[j].from
           /\ gate_sent[i].of \in Int
           /\ gate_sent[i].of <= current
           /\ gate_sent[i].of = current => handler > V + 1
  BY <1>1, CommandsAreObjects
     DEF PdInv, Performed, Behind, EmptyMessage
<1>7. CASE /\ gate_sent' = gate_sent
           /\ \/ tree' = "live" /\ deletes' = 0
              \/ tree' = "freed" /\ deletes' = 1
  <2>1. PdTypeOK'
    BY <1>1, <1>2, <1>5, <1>7 DEF PdInv, TcpInv, PdTypeOK
  <2>2. TreeFollowed'
    BY <1>1, <1>3, <1>7 DEF PdInv, TreeFollowed
  <2>3. Performed'
    <3>1. \A i \in DOMAIN gate_sent : Behind(gate_sent[i].of)'
      BY <1>6, <1>7 DEF Behind, EmptyMessage
    <3>2. \A i \in DOMAIN gate_sent :
            gate_sent[i].of = current => handler + 1 > V + 1
      BY <1>2, <1>4, <1>6
    <3>3. QED
      BY <1>1, <1>3, <1>6, <1>7, <3>1, <3>2 DEF Performed
  <2>4. GateCommandsFromHost'
    BY <1>1, <1>7, SameCommandsFromHost
  <2>5. QED
    BY <1>5, <2>1, <2>2, <2>3, <2>4 DEF PdInv
<1>8. ASSUME V = handler - 1, SendGateCommand
      PROVE  PdInv'
  <2> DEFINE g == [of           |-> current,
                   command_name |-> V,
                   gate_no      |-> Object.gateNo.int % 256,
                   position     |-> Object.gatePo.int]
  <2>1. /\ gate_sent' = Append(gate_sent, g)
        /\ tree' = tree /\ deletes' = deletes
        /\ Object.gateNo # Missing /\ Object.gatePo # Missing
    BY <1>8 DEF SendGateCommand
  <2>2. /\ Object.gateNo.int \in Int /\ Object.gatePo.int \in Int
    BY <1>3
  <2>3. /\ Object.gateNo.int % 256 \in 0 .. 255
        /\ (Object.gateNo.int - (Object.gateNo.int % 256)) % 256
             = 0
    BY <2>2
  <2>4. current \in 1 .. SENT_MAX /\ current \in Int
    <3>1. Len(sent) \in Nat /\ Len(sent) <= SENT_MAX /\ SENT_MAX \in Nat
            /\ DOMAIN sent = 1 .. Len(sent)
      BY UnitsNat, CommandsAreObjects, TcpAssumption
         DEF PdInv, TcpInv, TcpTypeOK
    <3>2. QED
      BY <1>3, <3>1
  <2>5. g \in GateCommandSent
    BY <1>4, <2>2, <2>3, <2>4 DEF GateCommandSent
  <2>6. /\ gate_sent' \in Seq(GateCommandSent)
        /\ Len(gate_sent) \in Nat
        /\ DOMAIN gate_sent = 1 .. Len(gate_sent)
        /\ DOMAIN gate_sent' = 1 .. Len(gate_sent) + 1
        /\ \A i \in 1 .. Len(gate_sent) : gate_sent'[i] = gate_sent[i]
        /\ gate_sent'[Len(gate_sent) + 1] = g
    <3>1. gate_sent \in Seq(GateCommandSent)
      BY CommandsAreObjects
    <3>2. QED
      BY <2>1, <2>5, <3>1, AppendProperties, LenProperties
  <2>7. \A i \in DOMAIN gate_sent' :
          \/ i \in DOMAIN gate_sent /\ gate_sent'[i] = gate_sent[i]
          \/ i = Len(gate_sent) + 1 /\ gate_sent'[i] = g
    BY <2>6
  <2>8. \A i \in DOMAIN gate_sent : gate_sent[i].of < current
    BY <1>2, <1>4, <1>6, <1>8, <2>4
  <2>9. PdTypeOK'
    BY <1>1, <1>2, <1>5, <2>1, <2>6 DEF PdInv, TcpInv, PdTypeOK
  <2>10. TreeFollowed'
    BY <1>1, <1>3, <2>1 DEF PdInv, TreeFollowed
  <2>11. Performed'
    <3>1. g.of = current
      OBVIOUS
    <3>2. \A i \in DOMAIN gate_sent' : Behind(gate_sent[i].of)'
      BY <1>1, <1>6, <2>7, <3>1 DEF Behind, EmptyMessage
    <3>3. \A i \in DOMAIN gate_sent' : gate_sent'[i].of <= current
      BY <2>4, <2>7, <1>6, <3>1
    <3>4. handler + 1 > V + 1
      BY <1>2, <1>8
    <3>5. QED
      BY <1>1, <1>3, <1>6, <3>2, <3>3, <3>4 DEF Performed
  <2>12. GateCommandsFromHost'
    <3> DEFINE Told(x) ==
          /\ Complete(sent[x.of])
          /\ x.command_name = sent[x.of].command.int
          /\ x.position = sent[x.of].gatePo.int
          /\ x.gate_no \in 0 .. 255
          /\ (sent[x.of].gateNo.int - x.gate_no) % 256 = 0
    <3>1. V \in 0 .. 3
      BY <1>2, <1>8
    <3>2. Complete(Object)
      BY <1>3, <2>1, <3>1 DEF Complete
    <3>3. Told(g)
      BY <2>3, <3>2 DEF Object
    <3>4. \A i \in DOMAIN gate_sent : Told(gate_sent[i])
      BY DEF PdInv, GateCommandsFromHost
    <3>5. \A i \in DOMAIN gate_sent' : Told(gate_sent'[i])
      <4> HIDE DEF Told, g
      <4>1. QED
        BY <2>7, <3>3, <3>4
    <3>6. ASSUME NEW i \in DOMAIN gate_sent', NEW j \in DOMAIN gate_sent',
                 i < j
          PROVE  gate_sent'[i].of < gate_sent'[j].of
      <4>1. i \in DOMAIN gate_sent /\ gate_sent'[i] = gate_sent[i]
        BY <2>6, <3>6
      <4>2. CASE j = Len(gate_sent) + 1
        BY <2>6, <2>8, <4>1, <4>2
      <4>3. CASE j \in DOMAIN gate_sent
        BY <2>6, <3>6, <4>1, <4>3 DEF PdInv, GateCommandsFromHost
      <4>4. QED
        BY <2>7, <4>2, <4>3
    <3>7. QED
      BY <1>1, <3>5, <3>6 DEF GateCommandsFromHost
  <2>13. QED
    BY <1>5, <2>9, <2>10, <2>11, <2>12 DEF PdInv
<1>9. QED
  BY <1>1, <1>2, <1>7, <1>8 DEF main_dispatch, GiveUp

(* The loop over a tree that is gone, and its end: nothing is sent.        *)
LEMMA LoopEndsInv ==
  ASSUME PdInv, main_dispatch_freed \/ main_delete \/ main_delete_again
  PROVE  PdInv'
<1>1. CASE TcpRestart /\ MainRestart
  BY <1>1, PdRestartInv
<1>2. CASE /\ main_pc = "dispatch" /\ tree = "freed"
           /\ handler <= Len(array_handler)
           /\ deletes' \in deletes .. 2
           /\ handler' = handler + 1
           /\ UNCHANGED <<main_pc, tree, current, gate_sent, tcpVars>>
  <2>1. TcpInv'
    BY <1>2, TcpStepInv DEF PdInv
  <2>2. deletes \in 1 .. 2 /\ deletes' \in 1 .. 2
    BY <1>2 DEF PdInv, TreeFollowed
  <2>3. PdTypeOK'
    BY <1>2, <2>1, <2>2 DEF PdInv, TcpInv, PdTypeOK, array_handler
  <2>4. TreeFollowed'
    BY <1>2, <2>2 DEF PdInv, TreeFollowed, Object, tcpVars, netVars
  <2>5. Performed'
    BY <1>2
       DEF PdInv, Performed, Behind, EmptyMessage, tcpVars, netVars
  <2>6. GateCommandsFromHost'
    BY <1>2, SameCommandsFromHost DEF tcpVars, netVars
  <2>7. QED
    BY <2>1, <2>3, <2>4, <2>5, <2>6 DEF PdInv
<1>3. CASE /\ main_pc = "dispatch" /\ tree \in {"live", "freed"}
           /\ tree' = "none"
           /\ deletes' = deletes + 1
           /\ main_pc' = "idle"
           /\ UNCHANGED <<current, handler, gate_sent, tcpVars>>
  <2>1. TcpInv'
    BY <1>3, TcpStepInv DEF PdInv
  <2>2. deletes' \in 0 .. 3
    BY <1>3 DEF PdInv, TreeFollowed
  <2>3. PdTypeOK'
    BY <1>3, <2>1, <2>2 DEF PdInv, TcpInv, PdTypeOK
  <2>4. TreeFollowed'
    BY <1>3 DEF TreeFollowed
  <2>5. Performed'
    BY <1>3
       DEF PdInv, Performed, Behind, EmptyMessage, tcpVars, netVars
  <2>6. GateCommandsFromHost'
    BY <1>3, SameCommandsFromHost DEF tcpVars, netVars
  <2>7. QED
    BY <2>1, <2>3, <2>4, <2>5, <2>6 DEF PdInv
<1>4. QED
  BY <1>1, <1>2, <1>3 DEF main_dispatch_freed, main_delete, main_delete_again

(* At the start nothing is received and nothing is in hand.                *)
LEMMA PdInitInv == PdInit => PdInv
<1> SUFFICES ASSUME PdInit
             PROVE  PdInv
  OBVIOUS
<1>1. TcpInv /\ received = 0 /\ tcp_rx_queue = <<>>
  BY TcpInitInv DEF PdInit, TcpInit
<1>2. gate_sent = <<>> /\ gate_sent \in Seq(GateCommandSent)
        /\ DOMAIN gate_sent = {} /\ DOMAIN tcp_rx_queue = {}
  BY <1>1 DEF PdInit, MainInit
<1>3. PdTypeOK
  BY <1>1, <1>2, TcpAssumption
     DEF TcpInv, PdInit, MainInit, PdTypeOK, array_handler
<1>4. TreeFollowed
  BY DEF PdInit, MainInit, TreeFollowed
<1>5. Performed
  BY <1>1, <1>2 DEF PdInit, MainInit, Performed, Behind
<1>6. GateCommandsFromHost
  BY <1>2 DEF GateCommandsFromHost
<1>7. QED
  BY <1>1, <1>3, <1>4, <1>5, <1>6 DEF PdInv

(* Every step of main, of the client and of the host keeps the invariant.  *)
LEMMA PdStepInv == PdInv /\ [PdNext]_pdVars => PdInv'
<1> SUFFICES ASSUME PdInv, [PdNext]_pdVars
             PROVE  PdInv'
  OBVIOUS
<1>1. CASE main_receive
  BY <1>1, ReceiveInv
<1>2. CASE main_dispatch
  BY <1>2, DispatchInv
<1>3. CASE main_dispatch_freed \/ main_delete \/ main_delete_again
  BY <1>3, LoopEndsInv
<1>4. CASE TcpStep
  BY <1>4, PdTcpInv DEF TcpStep, TcpActs, TcpNext
<1>5. CASE PdReboot
  BY <1>5, PdRestartInv DEF PdReboot, Reboot
<1>6. CASE UNCHANGED pdVars
  BY <1>6, PdTcpInv DEF pdVars
<1>7. QED
  BY <1>1, <1>2, <1>3, <1>4, <1>5, <1>6 DEF PdNext, app_process_data_loop

(* The inductive invariant of the client and the main loop together.       *)
THEOREM PdInvariant == PdSpec => []PdInv
<1>1. QED
  BY PdInitInv, PdStepInv, PTL DEF PdSpec

-----------------------------------------------------------------------------
(* The properties the runs check *)

(* The client on its own, whoever takes its messages: its types, one       *)
(* socket whatever fails, an rx task that reads the connection, and        *)
(* messages in the order of the stream.                                    *)
THEOREM TcpSafety ==
  TcpSpec => [](/\ TcpTypeOK
                /\ OneSocket
                /\ RxReadsTheConnection
                /\ QueueInStreamOrder)
<1>1. TcpInv => /\ TcpTypeOK
                /\ OneSocket
                /\ RxReadsTheConnection
                /\ QueueInStreamOrder
  BY ConnectedMeans DEF TcpInv
<1>2. QED
  BY <1>1, TcpInvariant, PTL

(* The whole keeps its types.                                              *)
THEOREM PdTypesCorrect == PdSpec => []PdTypeOK
<1>1. PdInv => PdTypeOK
  BY DEF PdInv
<1>2. QED
  BY <1>1, PdInvariant, PTL

(* With main taking the messages and restarts of its making, the client    *)
(* still has no more than one socket open.                                 *)
THEOREM NoSocketLeaked == PdSpec => []OneSocket
<1>1. PdInv => OneSocket
  BY ConnectedMeans DEF PdInv
<1>2. QED
  BY <1>1, PdInvariant, PTL

(* The two tasks of the client share sock_fd without a lock, and the rx    *)
(* task never reads it before or after it is the connection.               *)
THEOREM SharedDescriptorSafe == PdSpec => []RxReadsTheConnection
<1>1. PdInv => RxReadsTheConnection
  BY ConnectedMeans DEF PdInv
<1>2. QED
  BY <1>1, PdInvariant, PTL

(* What main finds on the queue is in the order of the stream, no unit of  *)
(* it twice.                                                               *)
THEOREM StreamInOrder == PdSpec => []QueueInStreamOrder
<1>1. PdInv => QueueInStreamOrder
  BY DEF PdInv, TcpInv
<1>2. QED
  BY <1>1, PdInvariant, PTL

(* Every path through the loop and the handler lets go of the tree.        *)
THEOREM TreesDeleted == PdSpec => []NoTreeLeaked
<1>1. PdInv => NoTreeLeaked
  BY DEF PdInv, TreeFollowed, NoTreeLeaked
<1>2. QED
  BY <1>1, PdInvariant, PTL

(* The gates are told what the host wrote, in its order, nothing twice.    *)
THEOREM HostCommandsPerformed == PdSpec => []GateCommandsFromHost
<1>1. PdInv => GateCommandsFromHost
  BY DEF PdInv
<1>2. QED
  BY <1>1, PdInvariant, PTL
=============================================================================
