-------------------------------- MODULE Hdlc --------------------------------
(***************************************************************************)
(* The HDLC framing of the serial line (src/transport/serial/hdlc.rs): a   *)
(* sender that puts the bytes of HdlcCodec::encode on the line, and a      *)
(* receiver that runs the loop body of HdlcCodec::decode for each byte.    *)
(*                                                                         *)
(* The decoder keeps all its state in the codec from one byte to the next, *)
(* and the line keeps the order of bytes, so neither the cuts between two  *)
(* reads nor the delay of the line are visible here: a byte arrives in the *)
(* step that sends it.  The line may lose a byte, change it, or deliver    *)
(* noise between two frames, and the port may be opened in mid-frame.      *)
(***************************************************************************)
EXTENDS Integers, Sequences

CONSTANTS
  Others,     (* bytes without a meaning in the framing                    *)
  Frames,     (* what the sender may send                                  *)
  MaxFrames,  (* bound: frames sent                                        *)
  MaxFaults   (* bound: bytes lost, changed or made up by the line         *)

FRAME == 126
ESCAPE == 125
ESCAPED_FRAME == 94
ESCAPED_ESCAPE == 93

Bytes == {FRAME, ESCAPE, ESCAPED_FRAME, ESCAPED_ESCAPE} \cup Others

ASSUME OthersAssumption ==
  Others \cap {FRAME, ESCAPE, ESCAPED_FRAME, ESCAPED_ESCAPE} = {}
ASSUME FramesAssumption == \A f \in Frames : f \in Seq(Bytes) /\ f # <<>>
ASSUME BoundsAssumption == MaxFrames \in Nat /\ MaxFaults \in Nat

VARIABLES
  pc,       (* the sender: idle, body, or escaped: ESCAPE is out           *)
  cur,      (* the frame it sends                                          *)
  pos,      (* bytes of it that are encoded                                *)
  open,     (* HdlcCodec.decoded is Some                                   *)
  buf,      (* its value                                                   *)
  escaped,  (* HdlcCodec.escaped                                           *)
  out,      (* frames decode has returned                                  *)
  hit,      (* history: the line has damaged the frame being sent          *)
  intact,   (* history: frames sent without damage                         *)
  sent,     (* history: number of frames begun                             *)
  faults    (* history: number of faults                                   *)

sender == <<pc, cur, pos, sent>>
codec == <<open, buf, escaped, out>>
vars == <<sender, codec, hit, intact, faults>>

TypeOK ==
  /\ pc \in {"idle", "body", "escaped"}
  /\ cur \in Frames \/ (pc = "idle" /\ cur = <<>>)
  /\ pos \in 0 .. Len(cur)
  /\ pc = "escaped" => pos < Len(cur) /\ cur[pos + 1] \in {FRAME, ESCAPE}
  /\ open \in BOOLEAN /\ escaped \in BOOLEAN
  /\ buf \in Seq(Bytes) /\ (~open => buf = <<>>)
  /\ out \in Seq(Seq(Bytes) \ {<<>>})
  /\ hit \in BOOLEAN /\ intact \in Seq(Frames)
  /\ sent \in 0 .. MaxFrames /\ faults \in 0 .. MaxFaults

(* The reader starts between two frames or in the middle of one.           *)
Init ==
  /\ \/ pc = "idle" /\ cur = <<>> /\ pos = 0 /\ sent = 0 /\ hit = FALSE
     \/ /\ pc \in {"body", "escaped"} /\ cur \in Frames /\ pos \in 0 .. Len(cur)
        /\ pc = "escaped" => pos < Len(cur) /\ cur[pos + 1] \in {FRAME, ESCAPE}
        /\ hit = TRUE /\ sent = 0
  /\ open = FALSE /\ buf = <<>> /\ escaped = FALSE /\ out = <<>>
  /\ intact = <<>> /\ faults = 0

-----------------------------------------------------------------------------
(* HdlcCodec::decode, the body of its loop. *)

(* decoded.take().map(push) *)
Push(b) ==
  /\ buf' = IF open THEN Append(buf, b) ELSE buf
  /\ UNCHANGED <<open, out>>

Restart == open' = TRUE /\ buf' = <<>>

(* Mutant: an unexpected byte after ESCAPE, FRAME too, discards the frame. *)
DecodeEscapedStrict(b) ==
  /\ escaped /\ escaped' = FALSE
  /\ \/ b = ESCAPED_FRAME /\ Push(FRAME)
     \/ b = ESCAPED_ESCAPE /\ Push(ESCAPE)
     \/ /\ b \notin {ESCAPED_FRAME, ESCAPED_ESCAPE}
        /\ open' = FALSE /\ buf' = <<>> /\ UNCHANGED out

DecodeEscaped(b) ==
  /\ escaped /\ escaped' = FALSE
  /\ \/ b = ESCAPED_FRAME /\ Push(FRAME)
     \/ b = ESCAPED_ESCAPE /\ Push(ESCAPE)
     \/ b = FRAME /\ Restart /\ UNCHANGED out
     \/ /\ b \notin {ESCAPED_FRAME, ESCAPED_ESCAPE, FRAME}
        /\ open' = FALSE /\ buf' = <<>> /\ UNCHANGED out

(* Mutant: a frame ends the buffer, the next FRAME has to begin it anew. *)
DecodePlainPaired(b) ==
  /\ ~escaped /\ escaped' = (b = ESCAPE)
  /\ \/ /\ b = FRAME /\ open' = ~open /\ buf' = <<>>
        /\ out' = IF open /\ buf # <<>> THEN Append(out, buf) ELSE out
     \/ b = ESCAPE /\ UNCHANGED <<open, buf, out>>
     \/ b \notin {FRAME, ESCAPE} /\ Push(b)

DecodePlain(b) ==
  /\ ~escaped /\ escaped' = (b = ESCAPE)
  /\ \/ /\ b = FRAME /\ Restart
        /\ out' = IF open /\ buf # <<>> THEN Append(out, buf) ELSE out
     \/ b = ESCAPE /\ UNCHANGED <<open, buf, out>>
     \/ b \notin {FRAME, ESCAPE} /\ Push(b)

Decode(b) == DecodeEscaped(b) \/ DecodePlain(b)

-----------------------------------------------------------------------------
(* The line takes byte b of a frame that was damaged before if h.          *)
Line(b, h) ==
  \/ Decode(b) /\ hit' = h /\ UNCHANGED faults
  \/ /\ faults < MaxFaults /\ faults' = faults + 1 /\ hit' = TRUE
     /\ \/ UNCHANGED codec
        \/ \E c \in Bytes \ {b} : Decode(c)

Noise ==
  /\ pc = "idle" /\ faults < MaxFaults
  /\ faults' = faults + 1
  /\ \E c \in Bytes : Decode(c)
  /\ UNCHANGED <<sender, hit, intact>>

(* HdlcCodec::encode, byte for byte. *)
Begin(f) ==
  /\ pc = "idle" /\ sent < MaxFrames
  /\ pc' = "body" /\ cur' = f /\ pos' = 0 /\ sent' = sent + 1
  /\ Line(FRAME, FALSE)
  /\ UNCHANGED intact

(* byte ^ MASK, for the two bytes that are escaped. *)
Masked(b) == IF b = FRAME THEN ESCAPED_FRAME ELSE ESCAPED_ESCAPE

PutByte ==
  /\ pc = "body" /\ pos < Len(cur) /\ cur[pos + 1] \notin {FRAME, ESCAPE}
  /\ pos' = pos + 1
  /\ Line(cur[pos + 1], hit)
  /\ UNCHANGED <<pc, cur, sent, intact>>

PutEscape ==
  /\ pc = "body" /\ pos < Len(cur) /\ cur[pos + 1] \in {FRAME, ESCAPE}
  /\ pc' = "escaped"
  /\ Line(ESCAPE, hit)
  /\ UNCHANGED <<cur, pos, sent, intact>>

PutMasked ==
  /\ pc = "escaped"
  /\ pc' = "body" /\ pos' = pos + 1
  /\ Line(Masked(cur[pos + 1]), hit)
  /\ UNCHANGED <<cur, sent, intact>>

End ==
  /\ pc = "body" /\ pos = Len(cur)
  /\ pc' = "idle"
  /\ Line(FRAME, hit)
  /\ intact' = IF hit' THEN intact ELSE Append(intact, cur)
  /\ UNCHANGED <<cur, pos, sent>>

Next ==
  \/ Noise \/ (\E f \in Frames : Begin(f))
  \/ PutByte \/ PutEscape \/ PutMasked \/ End

Spec == Init /\ [][Next]_vars

-----------------------------------------------------------------------------
(* A frame arrives, whole and with its last byte, unless a byte of its own *)
(* is lost or changed: no damage to the frames before it, no noise and no  *)
(* beginning in mid-frame reaches beyond the next FRAME.                   *)
FrameArrives ==
  [][pc # "idle" /\ pc' = "idle" /\ ~hit' => out' = Append(out, cur)]_vars

(* On a line without faults nothing else arrives, however the frames follow*)
(* each other and wherever the reader has come in.                         *)
NothingInvented == faults = 0 => out = intact

(* The decoder is where the sender is.                                     *)
InStep ==
  /\ ~hit /\ pc # "idle" =>
       /\ open /\ (escaped <=> pc = "escaped")
       /\ Len(buf) = pos /\ \A i \in 1 .. pos : buf[i] = cur[i]
  /\ faults = 0 /\ hit /\ pc # "idle" => ~open
  /\ faults = 0 /\ pc = "idle" => buf = <<>> /\ ~escaped

IInv == TypeOK /\ InStep /\ NothingInvented
=============================================================================
