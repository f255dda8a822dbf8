---------------------------- MODULE UdpReceiver ----------------------------
(***************************************************************************)
(* opio::net::udp::udp_message_receiver_t                                  *)
(* (net/include/opio/net/udp/udp_message_receiver.hpp): another thread     *)
(* starts and stops it by posting; the receive loop itself never looks at  *)
(* m_receiving.  Module Endpoints runs it.                                 *)
(***************************************************************************)
EXTENDS Integers, Sequences

CONSTANTS
  MaxSwitches,  \* bound: calls of start_listening() and stop_listening()
  MaxDatagrams  \* bound: receive operations that complete

ASSUME UdpAssumption == MaxSwitches \in Nat /\ MaxDatagrams \in Nat

VARIABLES
  receiving,  \* m_receiving
  receives,   \* receive operations that wait for a datagram
  udpQ,       \* what is queued for the receiver
  switches,   \* calls so far
  datagrams   \* completed receive operations so far

udpVars == <<receiving, receives, udpQ, switches, datagrams>>

UdpInit ==
  /\ receiving = FALSE
  /\ receives = 0
  /\ udpQ = <<>>
  /\ switches = 0
  /\ datagrams = 0

(* A duplicate start or an unexpected stop is ignored. *)
StartListening ==
  /\ switches < MaxSwitches
  /\ ~receiving
  /\ udpQ' = Append(udpQ, "receive")
  /\ receiving' = TRUE
  /\ switches' = switches + 1
  /\ UNCHANGED <<receives, datagrams>>

StopListening ==
  /\ switches < MaxSwitches
  /\ receiving
  /\ receiving' = FALSE
  /\ udpQ' = Append(udpQ, "cancel")
  /\ switches' = switches + 1
  /\ UNCHANGED <<receives, datagrams>>

(* The system completes a receive. *)
ReceiveCompletes(kind) ==
  /\ receives > 0
  /\ datagrams < MaxDatagrams
  /\ datagrams' = datagrams + 1
  /\ receives' = receives - 1
  /\ udpQ' = Append(udpQ, kind)
  /\ UNCHANGED <<receiving, switches>>

-----------------------------------------------------------------------------
(* The handlers                                                              *)

AsyncReceive ==
  /\ udpQ # <<>> /\ Head(udpQ) = "receive"
  /\ udpQ' = Tail(udpQ)
  /\ receives' = receives + 1
  /\ UNCHANGED <<receiving, switches, datagrams>>

(* m_socket.cancel() *)
Cancel ==
  /\ udpQ # <<>> /\ Head(udpQ) = "cancel"
  /\ udpQ' = Tail(udpQ) \o [i \in 1..receives |-> "aborted"]
  /\ receives' = 0
  /\ UNCHANGED <<receiving, switches, datagrams>>

(* mutant: an error leaves the loop for good *)
HandleReceived_ErrorEnds ==
  /\ udpQ # <<>> /\ Head(udpQ) \in {"data", "error"}
  /\ udpQ' = Tail(udpQ)
  /\ receives' = IF Head(udpQ) = "data" THEN receives + 1 ELSE receives
  /\ UNCHANGED <<receiving, switches, datagrams>>

(* handle_received: messages are taken until there are none, or an error is *)
(* reported; either way the next receive is started.                        *)
HandleReceived ==
  /\ udpQ # <<>> /\ Head(udpQ) \in {"data", "error"}
  /\ udpQ' = Tail(udpQ)
  /\ receives' = receives + 1
  /\ UNCHANGED <<receiving, switches, datagrams>>

HandleAborted ==
  /\ udpQ # <<>> /\ Head(udpQ) = "aborted"
  /\ udpQ' = Tail(udpQ)
  /\ UNCHANGED <<receiving, receives, switches, datagrams>>

UdpUser == StartListening \/ StopListening
UdpIo == \E kind \in {"data", "error"} : ReceiveCompletes(kind)
UdpHandler == AsyncReceive \/ Cancel \/ HandleReceived \/ HandleAborted
=============================================================================
