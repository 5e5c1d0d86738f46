--------------------------- MODULE SerialPackets ----------------------------
(***************************************************************************)
(* The three packets of the serial protocol (src/transport/serial/         *)
(* packets.rs) over the framing of Hdlc: how they are built, and what      *)
(* SerialWorker::handle_data (mod.rs) makes of each frame the decoder      *)
(* returns.  The checksum is any function of the bytes; what a weak one    *)
(* lets through is part of the model.                                      *)
(***************************************************************************)
EXTENDS Hdlc

CONSTANTS
  Packets,      (* packets the sender means, each a record of its fields   *)
  CrcLow(_),    (* calculate_crc, the lower byte                           *)
  CrcHigh(_)    (* and the higher                                          *)

ACK == 67
ACKPACKET == 68
NOACKPACKET == 69

(* From<AckPacket>, From<Ack>, From<NoAckPacket>: the checksum goes last,  *)
(* little-endian.                                                          *)
Seal(bytes) == bytes \o <<CrcLow(bytes), CrcHigh(bytes)>>

Packet(p) ==
  Seal(CASE p.kind = "AckPacket" -> <<ACKPACKET, p.seq_num>> \o p.data
         [] p.kind = "Ack" -> <<ACK, p.seq_num>>
         [] p.kind = "NoAckPacket" -> <<NOACKPACKET>> \o p.data)

ASSUME PacketsAssumption ==
  /\ Packets \subseteq [kind : {"AckPacket"}, seq_num : Bytes, data : Seq(Bytes)]
                        \cup [kind : {"Ack"}, seq_num : Bytes]
                        \cup [kind : {"NoAckPacket"}, data : Seq(Bytes)]
  /\ Frames = {Packet(p) : p \in Packets}

(* TryFrom<Bytes>: split_off takes the checksum away.                      *)
Body(f) == SubSeq(f, 1, Len(f) - 2)
ChecksumOk(f) == f = Seal(Body(f))

Malformed == [kind |-> "malformed"]

(* Mutant: the header and the checksum are enough. *)
AckPacketFromHeader(f) ==
  IF Len(f) >= 4 /\ ChecksumOk(f)
    THEN [kind |-> "AckPacket", seq_num |-> f[2], data |-> SubSeq(f, 3, Len(f) - 2)]
    ELSE Malformed

AckPacketFrom(f) ==
  IF Len(f) >= 5 /\ ChecksumOk(f)
    THEN [kind |-> "AckPacket", seq_num |-> f[2], data |-> SubSeq(f, 3, Len(f) - 2)]
    ELSE Malformed

AckFrom(f) ==
  IF Len(f) = 4 /\ ChecksumOk(f)
    THEN [kind |-> "Ack", seq_num |-> f[2]]
    ELSE Malformed

(* Mutant: the length is looked at as in an AckPacket. *)
NoAckPacketFromFive(f) ==
  IF Len(f) >= 5 /\ ChecksumOk(f)
    THEN [kind |-> "NoAckPacket", data |-> SubSeq(f, 2, Len(f) - 2)]
    ELSE Malformed

NoAckPacketFrom(f) ==
  IF Len(f) >= 4 /\ ChecksumOk(f)
    THEN [kind |-> "NoAckPacket", data |-> SubSeq(f, 2, Len(f) - 2)]
    ELSE Malformed

(* handle_data: what a frame is taken for.                                 *)
Handled(f) ==
  IF f[1] = ACKPACKET THEN AckPacketFrom(f)
  ELSE IF f[1] = ACK THEN AckFrom(f)
  ELSE IF f[1] = NOACKPACKET THEN NoAckPacketFrom(f)
  ELSE [kind |-> "panic"]

(* A frame of an unknown type panics the reader's thread: whatever the     *)
(* decoder would return after it is not handled any more.                  *)
PanickedBefore(n) == \E i \in 1 .. n - 1 : Handled(out[i]).kind = "panic"

Outcome(n) ==
  IF PanickedBefore(n) THEN [kind |-> "not handled"] ELSE Handled(out[n])

-----------------------------------------------------------------------------
(* TransportWorker::send (connection.rs) takes the first byte of all data  *)
(* it gets: whatever the line does to the frames, and however weak the     *)
(* checksum, the reader hands on no empty data.                            *)
DataNeverEmpty ==
  \A i \in 1 .. Len(out) :
    LET p == Outcome(i)
    IN  p.kind \in {"AckPacket", "NoAckPacket"} => p.data # <<>>

(* From end to end: as long as no frame before it has panicked the reader, *)
(* a packet of which no byte is lost or changed is handled as what it was  *)
(* built from, as soon as its last byte is there - a packet without data   *)
(* excepted, which the receiver refuses - whatever else the line did.      *)
PacketArrives ==
  [][\A p \in Packets :
       /\ pc # "idle" /\ pc' = "idle" /\ ~hit' /\ cur = Packet(p)
       /\ ~PanickedBefore(Len(out) + 1)
       => Outcome(Len(out))'
            = IF p.kind # "Ack" /\ p.data = <<>> THEN Malformed ELSE p]_vars
=============================================================================
