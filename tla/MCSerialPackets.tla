-------------------------- MODULE MCSerialPackets ---------------------------
(* Packets of every kind, short and with bytes that have to be escaped, and*)
(* a checksum so weak that it misses most damage.                          *)
EXTENDS SerialPackets, FiniteSets
MCOthers == {ACK, ACKPACKET, NOACKPACKET, 0}
MCCrcLow(bytes) == IF Len(bytes) % 2 = 0 THEN 0 ELSE FRAME
MCCrcHigh(bytes) == IF FRAME \in {bytes[i] : i \in 1 .. Len(bytes)} THEN ESCAPE ELSE 0
MCData == {<<>>, <<0>>, <<ESCAPE, ESCAPED_FRAME>>}
MCPackets ==
  [kind : {"AckPacket"}, seq_num : {0, FRAME}, data : MCData]
    \cup [kind : {"Ack"}, seq_num : {0, FRAME}]
    \cup [kind : {"NoAckPacket"}, data : MCData]
MCFrames == {Packet(p) : p \in MCPackets}
=============================================================================
