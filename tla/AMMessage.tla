------------------------------ MODULE AMMessage ------------------------------
(***************************************************************************)
(* An ActiveMessage as bytes (src/dispatcher/am/mod.rs): Message::try_from *)
(* and the way back.  AMDispatcher uses what the two lengths decide;       *)
(* AMDispatcherProofs has the round trip.                                  *)
(***************************************************************************)
EXTENDS Integers, Sequences

Byte == 0 .. 255
Word == 0 .. 65535
MINIMUM_LENGTH == 7

Message ==
  [dest : Word, src : Word, length : Byte, group : Byte, id : Byte,
   payload : Seq(Byte), metadata : Seq(Byte)]

(* What the length of the bytes and the length they state decide, in the   *)
(* order of the code's checks.  The stated length is added to in a u8: a   *)
(* debug build panics when that overflows; a release build wraps, accepts  *)
(* the message and panics when it cuts data[7..end] with end below 7.      *)
Outcome(length, stated) ==
  IF length > 255 \/ length < MINIMUM_LENGTH THEN "error"
  ELSE IF stated + MINIMUM_LENGTH > 255 THEN "panic"
  ELSE IF length < stated + MINIMUM_LENGTH THEN "error" ELSE "ok"

(* The message in bytes whose outcome is "ok"; positions count from 1.     *)
FromBytes(data) ==
  LET end == data[5] + MINIMUM_LENGTH
  IN  [dest |-> data[1] * 256 + data[2],
       src |-> data[3] * 256 + data[4],
       length |-> data[5], group |-> data[6], id |-> data[7],
       payload |-> SubSeq(data, MINIMUM_LENGTH + 1, end),
       metadata |-> SubSeq(data, end + 1, Len(data))]

Header(m) ==
  <<m.dest \div 256, m.dest % 256, m.src \div 256, m.src % 256,
    m.length, m.group, m.id>>

ToBytes(m) == Header(m) \o m.payload \o m.metadata

(* A message that states the length of its payload and fits in a u8.       *)
Fits(m) ==
  /\ m.length = Len(m.payload)
  /\ MINIMUM_LENGTH + Len(m.payload) + Len(m.metadata) <= 255
=============================================================================
