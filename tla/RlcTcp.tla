------------------------------- MODULE RlcTcp -------------------------------
(***************************************************************************)
(* The TCP tunnel of lib/src/upper/rlc.cc (rlc::tcp_process) that feeds   *)
(* the sidelink MAC with SDUs.                                             *)
(*                                                                         *)
(* run_thread polls a non-blocking socket every 900 us.  Under             *)
(* tcp_process::mutex it reads one packet into recv_buffer when            *)
(* recv_len <= 0, and only makes a dummy read otherwise.  The MAC takes    *)
(* the packet through rlc::read_pdu_sl -> get_packet, in a PHY worker's    *)
(* thread and without the mutex: when recv_len > 0 it copies the buffer    *)
(* and sets recv_len = 0.  recv_len is the only hand-off flag, so the      *)
(* order of those two steps on each side is what keeps a packet from being *)
(* overwritten.                                                            *)
(*                                                                         *)
(* A packet is a model value; its bytes are not modelled.  recv_len is     *)
(* abstracted to 0 (empty) and 1 (a packet of b > 0 bytes).  stop() is     *)
(* never called in this repository, so run_thread loops for ever.          *)
(***************************************************************************)
EXTENDS Integers, Sequences

CONSTANTS
  Stream        \* the packets the TCP peer sends, in order

NoPacket == "none"   \* get_packet returned 0 bytes

VARIABLES
  recvLen,   \* tcp_process::recv_len
  recvBuf,   \* tcp_process::recv_buffer
  netPos,    \* packets of Stream read from the socket so far
  taken      \* history: packets get_packet returned, in order

rlcVars == <<recvLen, recvBuf, netPos, taken>>

(* tcp_process::init creates the mutex and starts the thread; recv_len is *)
(* set nowhere before the first read, so it holds what the allocation     *)
(* left: zero for the zero-filled pages a large object is placed in.      *)
Init ==
  /\ recvLen = 0
  /\ recvBuf = NoPacket
  /\ netPos = 0
  /\ taken = <<>>

(* Mutant: the read into recv_buffer made whatever recv_len says (the     *)
(* version the commented-out "Packet overwritten" block belonged to).     *)
RunThreadOverwrite ==
  /\ netPos < Len(Stream)
  /\ recvBuf' = Stream[netPos + 1]
  /\ recvLen' = 1
  /\ netPos' = netPos + 1
  /\ UNCHANGED taken

(* One iteration of run_thread's loop that reads a packet: the buffer is  *)
(* empty and the peer's next packet has arrived.  The other iterations    *)
(* (no data: b <= 0; a full buffer: the dummy read) change nothing.        *)
RunThread ==
  /\ recvLen <= 0
  /\ netPos < Len(Stream)
  /\ recvBuf' = Stream[netPos + 1]
  /\ recvLen' = 1
  /\ netPos' = netPos + 1
  /\ UNCHANGED taken

(* What get_packet hands the MAC (rlc::read_pdu_sl returns it as is).      *)
GetPacket == IF recvLen > 0 THEN recvBuf ELSE NoPacket

(* get_packet's effect: memcpy then recv_len = 0 when a packet is there.  *)
(* The copy precedes the store, so run_thread, which writes the buffer    *)
(* only after seeing recv_len <= 0, cannot change it in between; the two  *)
(* steps are therefore one action.                                         *)
TakePacket ==
  /\ IF recvLen > 0
     THEN /\ recvLen' = 0
          /\ taken' = Append(taken, recvBuf)
     ELSE UNCHANGED <<recvLen, taken>>
  /\ UNCHANGED <<recvBuf, netPos>>

-----------------------------------------------------------------------------
(* Properties                                                              *)

TypeOK ==
  /\ recvLen \in {0, 1}
  /\ recvBuf \in {NoPacket} \cup {Stream[i] : i \in 1 .. Len(Stream)}
  /\ netPos \in 0 .. Len(Stream)
  /\ taken \in Seq({Stream[i] : i \in 1 .. Len(Stream)})

(* Hand-off without loss: what the MAC has taken, followed by the packet  *)
(* still in recv_buffer, is exactly what run_thread has read from the     *)
(* socket, in order.  It rests on run_thread reading only when recv_len   *)
(* <= 0 and on get_packet clearing recv_len only after its copy, with no  *)
(* lock between the PHY worker and run_thread.                            *)
NoPacketLost ==
  taken \o (IF recvLen > 0 THEN <<recvBuf>> ELSE <<>>) = SubSeq(Stream, 1, netPos)
=============================================================================
