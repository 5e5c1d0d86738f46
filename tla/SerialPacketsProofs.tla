------------------------ MODULE SerialPacketsProofs -------------------------
(***************************************************************************)
(* Theorems about Hdlc and the packets over it (SerialPackets), for every  *)
(* set of bytes, any packets and checksum, any number of frames and any    *)
(* number of faults of the line.  The part on Hdlc uses none of the        *)
(* assumptions of SerialPackets: its frames are any frames.                *)
(*                                                                         *)
(* NothingInvented alone is not inductive: InStep adds that the decoder is *)
(* where the sender is, as long as no byte of the current frame is hit.    *)
(***************************************************************************)
EXTENDS SerialPackets, SequenceTheorems, TLAPS

(* The bytes that escaping uses are four different ones, and the two that  *)
(* stand for escaped ones are not escaped themselves.                      *)
LEMMA ByteFacts ==
  /\ FRAME \in Bytes /\ ESCAPE \in Bytes
  /\ \A b \in {FRAME, ESCAPE} : Masked(b) \in {ESCAPED_FRAME, ESCAPED_ESCAPE}
  /\ ESCAPED_FRAME \notin {FRAME, ESCAPE} /\ ESCAPED_ESCAPE \notin {FRAME, ESCAPE}
  /\ FRAME # ESCAPE /\ ESCAPED_FRAME # ESCAPED_ESCAPE
BY DEF FRAME, ESCAPE, ESCAPED_FRAME, ESCAPED_ESCAPE, Bytes, Masked

(* A byte of a frame is one the line can carry. *)
LEMMA FrameBytes ==
  ASSUME TypeOK
  PROVE  cur \in Seq(Bytes) /\ \A i \in 1 .. Len(cur) : cur[i] \in Bytes
<1>1. CASE cur \in Frames
  BY <1>1, FramesAssumption, ElementOfSeq
<1>2. CASE cur = <<>>
  BY <1>2
<1> QED
  BY <1>1, <1>2 DEF TypeOK

CodecType ==
  /\ open \in BOOLEAN /\ escaped \in BOOLEAN
  /\ buf \in Seq(Bytes) /\ (~open => buf = <<>>)
  /\ out \in Seq(Seq(Bytes) \ {<<>>})

(* Decoding keeps the types of the codec, whatever the byte. *)
LEMMA DecodeType ==
  ASSUME CodecType, NEW b \in Bytes, Decode(b)
  PROVE  CodecType'
<1> DEFINE F == Seq(Bytes) \ {<<>>}
<1>0. out \in Seq(F) /\ buf \in Seq(Bytes) /\ open \in BOOLEAN
  BY DEF CodecType
<1>1. ASSUME NEW c \in Bytes, Push(c), escaped' \in BOOLEAN
      PROVE  CodecType'
  <2>1. buf' \in Seq(Bytes) /\ (~open' => buf' = <<>>)
    BY <1>0, <1>1, AppendProperties DEF CodecType, Push
  <2> QED
    BY <1>0, <1>1, <2>1 DEF CodecType, Push
<1>2. ASSUME buf' = <<>>, open' \in BOOLEAN, escaped' \in BOOLEAN, out' \in Seq(F)
      PROVE  CodecType'
  BY <1>2 DEF CodecType
<1>3. CASE DecodeEscaped(b)
  BY <1>0, <1>1, <1>2, <1>3, ByteFacts DEF DecodeEscaped, Restart
<1>4. CASE DecodePlain(b)
  <2>1. CASE b = FRAME
    <3>1. open /\ buf # <<>> => Append(out, buf) \in Seq(F)
      BY <1>0, AppendProperties
    <3> HIDE DEF F
    <3>2. out' \in Seq(F)
      BY <1>0, <1>4, <2>1, <3>1, ByteFacts DEF DecodePlain
    <3> QED
      BY <1>2, <1>4, <2>1, <3>2, ByteFacts DEF DecodePlain, Restart
  <2>2. CASE b = ESCAPE
    BY <1>0, <1>4, <2>2, ByteFacts DEF DecodePlain, CodecType
  <2>3. CASE b \notin {FRAME, ESCAPE}
    BY <1>1, <1>4, <2>3 DEF DecodePlain
  <2> QED
    BY <2>1, <2>2, <2>3
<1> QED
  BY <1>3, <1>4 DEF Decode

(* What the line leaves of the types: a fault is counted. *)
LEMMA LineType ==
  ASSUME TypeOK, NEW b \in Bytes, NEW h \in BOOLEAN, Line(b, h)
  PROVE  /\ CodecType'
         /\ hit' \in BOOLEAN /\ faults' \in 0 .. MaxFaults
         /\ ~hit' => ~h /\ Decode(b)
         /\ faults' = 0 => faults = 0 /\ hit' = h /\ Decode(b)
<1>0. CodecType /\ faults \in 0 .. MaxFaults
  BY DEF TypeOK, CodecType
<1>1. CASE Decode(b) /\ hit' = h /\ UNCHANGED faults
  BY <1>0, <1>1, DecodeType
<1>2. CASE faults < MaxFaults /\ faults' = faults + 1 /\ hit' = TRUE
  <2>1. CodecType'
    <3>1. CASE UNCHANGED codec
      BY <1>0, <3>1 DEF CodecType, codec
    <3>2. CASE \E c \in Bytes \ {b} : Decode(c)
      BY <1>0, <3>2, DecodeType
    <3>3. CASE Decode(b)
      BY <1>0, <3>3, DecodeType
    <3> QED
      BY <3>1, <3>2, <3>3 DEF Line
  <2>2. faults' \in 0 .. MaxFaults /\ faults' # 0
    BY <1>0, <1>2, BoundsAssumption
  <2> QED
    BY <1>2, <2>1, <2>2, Zenon
<1> QED
  BY <1>1, <1>2 DEF Line

(* A byte of the frame reaches a decoder that is in step with the sender.  *)
LEMMA PushInStep ==
  ASSUME NEW n \in Nat, NEW s \in Seq(Bytes), n < Len(s),
         buf \in Seq(Bytes), open, Len(buf) = n,
         \A i \in 1 .. n : buf[i] = s[i], Push(s[n + 1])
  PROVE  /\ open' /\ Len(buf') = n + 1
         /\ \A i \in 1 .. n + 1 : buf'[i] = s[i]
         /\ out' = out
<1>1. s[n + 1] \in Bytes
  BY ElementOfSeq
<1>2. buf' = Append(buf, s[n + 1])
  BY DEF Push
<1> QED
  BY <1>1, <1>2, AppendProperties DEF Push

(* A decoder that waits for a FRAME waits on. *)
LEMMA ClosedStaysClosed ==
  ASSUME ~open, NEW b, b # FRAME, Decode(b)
  PROVE  ~open' /\ out' = out
BY ByteFacts DEF Decode, DecodeEscaped, DecodePlain, Push

(* FRAME ends whatever was there. *)
LEMMA FrameRestarts ==
  ASSUME CodecType, Decode(FRAME)
  PROVE  /\ open' /\ buf' = <<>> /\ escaped' = FALSE
         /\ out' = IF ~escaped /\ open /\ buf # <<>> THEN Append(out, buf) ELSE out
BY ByteFacts DEF CodecType, Decode, DecodeEscaped, DecodePlain, Restart

-----------------------------------------------------------------------------
LEMMA InitIInv == Init => IInv
<1> SUFFICES ASSUME Init PROVE IInv
  OBVIOUS
<1>1. TypeOK
  <2>1. /\ pc \in {"idle", "body", "escaped"} /\ hit \in BOOLEAN
        /\ cur \in Frames \/ (pc = "idle" /\ cur = <<>>)
        /\ pc = "escaped" => pos < Len(cur) /\ cur[pos + 1] \in {FRAME, ESCAPE}
        /\ sent = 0 /\ faults = 0
    BY DEF Init
  <2>2. pos \in 0 .. Len(cur)
    BY DEF Init
  <2>3. CodecType /\ intact \in Seq(Frames)
    BY EmptySeq DEF Init, CodecType
  <2> QED
    BY <2>1, <2>2, <2>3, BoundsAssumption DEF TypeOK, CodecType
<1>2. InStep /\ NothingInvented
  BY DEF Init, InStep, NothingInvented
<1> QED
  BY <1>1, <1>2 DEF IInv

LEMMA NoiseStep ==
  ASSUME IInv, Noise
  PROVE  IInv'
<1>1. CodecType' /\ faults' # 0 /\ faults' \in 0 .. MaxFaults
  BY DecodeType, BoundsAssumption DEF IInv, TypeOK, CodecType, Noise
<1>2. TypeOK'
  BY <1>1 DEF IInv, TypeOK, CodecType, Noise, sender
<1> QED
  BY <1>1, <1>2 DEF IInv, InStep, NothingInvented, Noise, sender

LEMMA BeginStep ==
  ASSUME IInv, NEW f \in Frames, Begin(f)
  PROVE  IInv'
<1>1. TypeOK /\ InStep /\ NothingInvented /\ CodecType
  BY DEF IInv, TypeOK, CodecType
<1>2. /\ CodecType' /\ hit' \in BOOLEAN /\ faults' \in 0 .. MaxFaults
      /\ ~hit' => Decode(FRAME)
      /\ faults' = 0 => faults = 0 /\ ~hit' /\ Decode(FRAME)
  BY <1>1, LineType, ByteFacts DEF Begin
<1>3. TypeOK'
  <2>1. f \in Seq(Bytes)
    BY FramesAssumption
  <2> QED
    BY <1>1, <1>2, <2>1, LenProperties, BoundsAssumption DEF TypeOK, CodecType, Begin
<1>4. InStep'
  <2>1. pc' = "body" /\ pos' = 0
    BY DEF Begin
  <2>2. ~hit' => open' /\ buf' = <<>> /\ escaped' = FALSE
    BY <1>1, <1>2, FrameRestarts
  <2>3. ~(faults' = 0 /\ hit')
    BY <1>2
  <2>4. ~hit' => /\ open' /\ ~escaped' /\ Len(buf') = 0
                 /\ \A i \in 1 .. 0 : buf'[i] = cur'[i]
    BY <2>2
  <2> QED
    BY <2>1, <2>3, <2>4, Zenon DEF InStep
<1>5. NothingInvented'
  BY <1>1, <1>2, FrameRestarts DEF InStep, NothingInvented, Begin
<1> QED
  BY <1>3, <1>4, <1>5 DEF IInv

LEMMA PutByteStep ==
  ASSUME IInv, PutByte
  PROVE  IInv'
<1> DEFINE b == cur[pos + 1]
<1>1. TypeOK /\ InStep /\ NothingInvented /\ CodecType
  BY DEF IInv, TypeOK, CodecType
<1>2. /\ cur \in Seq(Bytes) /\ Len(cur) \in Nat /\ pos \in Nat /\ pos < Len(cur)
      /\ b \in Bytes /\ b # FRAME /\ b # ESCAPE
  BY <1>1, FrameBytes, LenProperties DEF TypeOK, PutByte
<1>3. /\ CodecType' /\ hit' \in BOOLEAN /\ faults' \in 0 .. MaxFaults
      /\ ~hit' => ~hit /\ Decode(b)
      /\ faults' = 0 => faults = 0 /\ hit' = hit /\ Decode(b)
  <2>1. hit \in BOOLEAN /\ Line(b, hit)
    BY <1>1 DEF TypeOK, PutByte
  <2> HIDE DEF b
  <2> QED
    BY <1>1, <1>2, <2>1, LineType
<1>4. TypeOK'
  BY <1>1, <1>2, <1>3 DEF TypeOK, CodecType, PutByte
<1>5. ~hit /\ Decode(b) =>
        /\ open' /\ escaped' = FALSE /\ out' = out
        /\ Len(buf') = pos + 1 /\ \A i \in 1 .. pos + 1 : buf'[i] = cur[i]
  <2> SUFFICES ASSUME ~hit, Decode(b)
               PROVE  /\ open' /\ escaped' = FALSE /\ out' = out
                      /\ Len(buf') = pos + 1
                      /\ \A i \in 1 .. pos + 1 : buf'[i] = cur[i]
    OBVIOUS
  <2>1. open /\ ~escaped /\ Len(buf) = pos /\ \A i \in 1 .. pos : buf[i] = cur[i]
    BY <1>1 DEF InStep, PutByte, TypeOK
  <2>2. Push(b) /\ escaped' = FALSE
    BY <1>2, <2>1 DEF Decode, DecodeEscaped, DecodePlain
  <2> QED
    BY <1>1, <1>2, <2>1, <2>2, PushInStep DEF CodecType
<1>6. faults' = 0 /\ hit => ~open' /\ out' = out
  BY <1>1, <1>2, <1>3, ClosedStaysClosed DEF InStep, PutByte
<1>7. InStep'
  BY <1>1, <1>3, <1>5, <1>6 DEF InStep, PutByte
<1>8. NothingInvented'
  BY <1>1, <1>3, <1>5, <1>6 DEF NothingInvented, PutByte
<1> QED
  BY <1>4, <1>7, <1>8 DEF IInv

LEMMA PutEscapeStep ==
  ASSUME IInv, PutEscape
  PROVE  IInv'
<1>1. TypeOK /\ InStep /\ NothingInvented /\ CodecType
  BY DEF IInv, TypeOK, CodecType
<1>2. /\ CodecType' /\ hit' \in BOOLEAN /\ faults' \in 0 .. MaxFaults
      /\ ~hit' => ~hit /\ Decode(ESCAPE)
      /\ faults' = 0 => faults = 0 /\ hit' = hit /\ Decode(ESCAPE)
  <2>1. hit \in BOOLEAN /\ Line(ESCAPE, hit)
    BY <1>1 DEF TypeOK, PutEscape
  <2> QED
    BY <1>1, <2>1, LineType, ByteFacts
<1>3. TypeOK'
  BY <1>1, <1>2 DEF TypeOK, CodecType, PutEscape
<1>4. ~hit /\ Decode(ESCAPE) =>
        /\ open' /\ escaped' = TRUE /\ out' = out /\ buf' = buf
        /\ Len(buf) = pos /\ \A i \in 1 .. pos : buf[i] = cur[i]
  <2> SUFFICES ASSUME ~hit, Decode(ESCAPE)
               PROVE  /\ open' /\ escaped' = TRUE /\ out' = out /\ buf' = buf
                      /\ Len(buf) = pos /\ \A i \in 1 .. pos : buf[i] = cur[i]
    OBVIOUS
  <2>1. open /\ ~escaped /\ Len(buf) = pos /\ \A i \in 1 .. pos : buf[i] = cur[i]
    BY <1>1 DEF InStep, PutEscape, TypeOK
  <2>2. open' = open /\ escaped' = TRUE /\ out' = out /\ buf' = buf
    BY <2>1, ByteFacts DEF Decode, DecodeEscaped, DecodePlain
  <2> QED
    BY <2>1, <2>2
<1>5. faults' = 0 /\ hit => ~open' /\ out' = out
  BY <1>1, <1>2, ByteFacts, ClosedStaysClosed DEF InStep, PutEscape
<1>6. InStep'
  BY <1>1, <1>2, <1>4, <1>5 DEF InStep, PutEscape
<1>7. NothingInvented'
  BY <1>1, <1>2, <1>4, <1>5 DEF NothingInvented, PutEscape
<1> QED
  BY <1>3, <1>6, <1>7 DEF IInv

LEMMA PutMaskedStep ==
  ASSUME IInv, PutMasked
  PROVE  IInv'
<1> DEFINE c == cur[pos + 1]
           b == Masked(c)
<1>1. TypeOK /\ InStep /\ NothingInvented /\ CodecType
  BY DEF IInv, TypeOK, CodecType
<1>2. /\ cur \in Seq(Bytes) /\ Len(cur) \in Nat /\ pos \in Nat /\ pos < Len(cur)
      /\ c \in {FRAME, ESCAPE} /\ b \in Bytes /\ b # FRAME
  BY <1>1, FrameBytes, LenProperties, ByteFacts DEF TypeOK, PutMasked, Bytes
<1>3. /\ CodecType' /\ hit' \in BOOLEAN /\ faults' \in 0 .. MaxFaults
      /\ ~hit' => ~hit /\ Decode(b)
      /\ faults' = 0 => faults = 0 /\ hit' = hit /\ Decode(b)
  <2>1. hit \in BOOLEAN /\ Line(b, hit)
    BY <1>1 DEF TypeOK, PutMasked
  <2> HIDE DEF b
  <2> QED
    BY <1>1, <1>2, <2>1, LineType
<1>4. TypeOK'
  BY <1>1, <1>2, <1>3 DEF TypeOK, CodecType, PutMasked
<1>5. ~hit /\ Decode(b) =>
        /\ open' /\ escaped' = FALSE /\ out' = out
        /\ Len(buf') = pos + 1 /\ \A i \in 1 .. pos + 1 : buf'[i] = cur[i]
  <2> SUFFICES ASSUME ~hit, Decode(b)
               PROVE  /\ open' /\ escaped' = FALSE /\ out' = out
                      /\ Len(buf') = pos + 1
                      /\ \A i \in 1 .. pos + 1 : buf'[i] = cur[i]
    OBVIOUS
  <2>1. open /\ escaped /\ Len(buf) = pos /\ \A i \in 1 .. pos : buf[i] = cur[i]
    BY <1>1 DEF InStep, PutMasked, TypeOK
  <2>2. Push(c) /\ escaped' = FALSE
    BY <1>2, <2>1, ByteFacts DEF Decode, DecodeEscaped, DecodePlain, Masked
  <2> QED
    BY <1>1, <1>2, <2>1, <2>2, PushInStep DEF CodecType
<1>6. faults' = 0 /\ hit => ~open' /\ out' = out
  BY <1>1, <1>2, <1>3, ClosedStaysClosed DEF InStep, PutMasked
<1>7. InStep'
  BY <1>1, <1>3, <1>5, <1>6 DEF InStep, PutMasked
<1>8. NothingInvented'
  BY <1>1, <1>3, <1>5, <1>6 DEF NothingInvented, PutMasked
<1> QED
  BY <1>4, <1>7, <1>8 DEF IInv

(* The last byte of a frame that was not hit completes it. *)
LEMMA EndArrives ==
  ASSUME IInv, End, ~hit'
  PROVE  out' = Append(out, cur)
<1>1. TypeOK /\ InStep /\ CodecType
  BY DEF IInv, TypeOK, CodecType
<1>2. ~hit /\ Decode(FRAME)
  <2>1. hit \in BOOLEAN /\ Line(FRAME, hit)
    BY <1>1 DEF TypeOK, End
  <2> QED
    BY <1>1, <2>1, LineType, ByteFacts
<1>3. open /\ ~escaped /\ Len(buf) = Len(cur) /\ \A i \in 1 .. Len(cur) : buf[i] = cur[i]
  BY <1>1, <1>2 DEF InStep, End
<1>4. cur \in Seq(Bytes) /\ buf \in Seq(Bytes) /\ cur # <<>>
  BY <1>1, FrameBytes, FramesAssumption DEF TypeOK, CodecType, End
<1>5. buf = cur
  BY <1>3, <1>4, SeqEqual
<1> QED
  BY <1>1, <1>2, <1>3, <1>4, <1>5, FrameRestarts

LEMMA EndStep ==
  ASSUME IInv, End
  PROVE  IInv'
<1>1. TypeOK /\ InStep /\ NothingInvented /\ CodecType
  BY DEF IInv, TypeOK, CodecType
<1>2. /\ CodecType' /\ hit' \in BOOLEAN /\ faults' \in 0 .. MaxFaults
      /\ ~hit' => ~hit /\ Decode(FRAME)
      /\ faults' = 0 => faults = 0 /\ hit' = hit /\ Decode(FRAME)
  <2>1. hit \in BOOLEAN /\ Line(FRAME, hit)
    BY <1>1 DEF TypeOK, End
  <2> QED
    BY <1>1, <2>1, LineType, ByteFacts
<1>3. TypeOK'
  <2>1. intact' \in Seq(Frames)
    BY <1>1, AppendProperties DEF TypeOK, End
  <2> QED
    BY <1>1, <1>2, <2>1 DEF TypeOK, CodecType, End
<1>4. InStep'
  <2>1. faults' = 0 => buf' = <<>> /\ ~escaped'
    BY <1>1, <1>2, FrameRestarts
  <2> QED
    BY <2>1 DEF InStep, End
<1>5. NothingInvented'
  <2>1. CASE hit'
    BY <1>1, <1>2, <2>1, FrameRestarts DEF InStep, NothingInvented, End
  <2>2. CASE ~hit'
    BY <1>1, <1>2, <2>2, EndArrives DEF NothingInvented, End
  <2> QED
    BY <2>1, <2>2
<1> QED
  BY <1>3, <1>4, <1>5 DEF IInv

-----------------------------------------------------------------------------
(* The decoder stays in step with the sender. *)
THEOREM Invariance == Spec => []IInv
<1>1. ASSUME IInv, [Next]_vars PROVE IInv'
  <2>1. CASE Noise
    BY <1>1, <2>1, NoiseStep
  <2>2. CASE \E f \in Frames : Begin(f)
    BY <1>1, <2>2, BeginStep
  <2>3. CASE PutByte \/ PutEscape \/ PutMasked \/ End
    BY <1>1, <2>3, PutByteStep, PutEscapeStep, PutMaskedStep, EndStep
  <2>4. CASE UNCHANGED vars
    BY <1>1, <2>4 DEF IInv, TypeOK, InStep, NothingInvented, vars, sender, codec
  <2> QED
    BY <1>1, <2>1, <2>2, <2>3, <2>4 DEF Next
<1> QED
  BY <1>1, InitIInv, PTL DEF Spec

(* On a clean line decode returns exactly the frames that were encoded,    *)
(* in order, wherever the reader has come in.                              *)
THEOREM CleanLine == Spec => []NothingInvented
<1>1. IInv => NothingInvented
  BY DEF IInv
<1> QED
  BY <1>1, Invariance, PTL

(* A frame of which no byte is hit is returned with its last byte.         *)
THEOREM UnhitFrameArrives == Spec => FrameArrives
<1>1. IInv /\ [Next]_vars
        => [pc # "idle" /\ pc' = "idle" /\ ~hit' => out' = Append(out, cur)]_vars
  <2> SUFFICES ASSUME IInv, [Next]_vars, pc # "idle", pc' = "idle", ~hit'
               PROVE  out' = Append(out, cur)
    OBVIOUS
  <2>1. End
    BY DEF Next, Noise, Begin, PutByte, PutEscape, PutMasked, vars, sender, TypeOK, IInv
  <2> QED
    BY <2>1, EndArrives
<1> QED
  BY <1>1, Invariance, PTL DEF Spec, FrameArrives

-----------------------------------------------------------------------------
(* The packets. *)

LEMMA Joined ==
  ASSUME NEW S, NEW s \in Seq(S), NEW t \in Seq(S)
  PROVE  /\ s \o t \in Seq(S) /\ Len(s \o t) = Len(s) + Len(t)
         /\ \A i \in 1 .. Len(s) : (s \o t)[i] = s[i]
         /\ \A i \in 1 .. Len(t) : (s \o t)[Len(s) + i] = t[i]
<1> DEFINE u == s \o t
           n == Len(s)
           k == Len(t)
<1>1. n \in Nat /\ k \in Nat
  OBVIOUS
<1>2. /\ u \in Seq(S) /\ Len(u) = n + k
      /\ \A i \in 1 .. n + k : u[i] = IF i <= n THEN s[i] ELSE t[i - n]
  BY ConcatProperties, ZenonT(30)
<1> HIDE DEF u, n, k
<1>3. \A i \in 1 .. n : u[i] = s[i]
  BY <1>1, <1>2
<1>4. \A i \in 1 .. k : u[n + i] = t[i]
  <2> TAKE i \in 1 .. k
  <2>1. n + i \in 1 .. n + k /\ ~(n + i <= n) /\ (n + i) - n = i
    BY <1>1
  <2> QED
    BY <1>2, <2>1
<1> QED
  BY <1>2, <1>3, <1>4 DEF u, n, k

LEMMA CutOut ==
  ASSUME NEW S, NEW s \in Seq(S), NEW t \in Seq(S), NEW a \in Nat,
         a + Len(t) <= Len(s), \A i \in 1 .. Len(t) : s[a + i] = t[i]
  PROVE  SubSeq(s, a + 1, a + Len(t)) = t
<1> DEFINE n == Len(t)
           u == SubSeq(s, a + 1, a + n)
<1>1. n \in Nat /\ Len(s) \in Nat /\ \A i \in 1 .. Len(s) : s[i] \in S
  OBVIOUS
<1>2. \A i \in a + 1 .. a + n : s[i] \in S
  BY <1>1
<1>3. /\ u \in Seq(S)
      /\ Len(u) = IF a + 1 <= a + n THEN (a + n) - (a + 1) + 1 ELSE 0
      /\ \A i \in 1 .. (a + n) - (a + 1) + 1 : u[i] = s[a + 1 + i - 1]
  BY <1>1, <1>2, SubSeqProperties, SMT
<1> HIDE DEF n, u
<1>4. (a + n) - (a + 1) + 1 = n /\ \A i \in 1 .. n : a + 1 + i - 1 = a + i
  BY <1>1
<1>5. Len(u) = n
  BY <1>1, <1>3
<1>6. \A i \in 1 .. n : u[i] = t[i]
  <2> TAKE i \in 1 .. n
  <2>1. u[i] = s[a + 1 + i - 1] /\ a + 1 + i - 1 = a + i
    BY <1>3, <1>4
  <2> QED
    BY <2>1 DEF n
<1> QED
  BY <1>3, <1>5, <1>6, SeqEqual DEF n, u

(* What can stand in a packet. *)
Values(b) == Bytes \cup {ACK, ACKPACKET, NOACKPACKET, CrcLow(b), CrcHigh(b)}

(* The checksum is found again, and is the one of the bytes before it.     *)
LEMMA SealOpens ==
  ASSUME NEW b, b \in Seq(Values(b))
  PROVE  /\ Seal(b) \in Seq(Values(b)) /\ Len(Seal(b)) = Len(b) + 2
         /\ \A i \in 1 .. Len(b) : Seal(b)[i] = b[i]
         /\ ChecksumOk(Seal(b))
<1> DEFINE f == Seal(b)
           t == <<CrcLow(b), CrcHigh(b)>>
<1>1. t \in Seq(Values(b)) /\ Len(t) = 2
  BY DEF Values
<1>2. f = b \o t
  BY DEF Seal
<1> HIDE DEF f, t
<1>3. /\ f \in Seq(Values(b)) /\ Len(f) = Len(b) + 2 /\ Len(b) \in Nat
      /\ \A i \in 1 .. Len(b) : f[i] = b[i]
  <2>1. /\ b \o t \in Seq(Values(b)) /\ Len(b \o t) = Len(b) + Len(t)
        /\ \A i \in 1 .. Len(b) : (b \o t)[i] = b[i]
    BY <1>1, Joined, ZenonT(30)
  <2> QED
    BY <1>1, <1>2, <2>1
<1>4. SubSeq(f, 0 + 1, 0 + Len(b)) = b
  <2>1. /\ 0 \in Nat /\ 0 + Len(b) <= Len(f)
        /\ \A i \in 1 .. Len(b) : f[0 + i] = b[i]
    BY <1>3
  <2> QED
    BY <1>3, <2>1, CutOut, ZenonT(30)
<1>5. Body(f) = b
  BY <1>3, <1>4 DEF Body
<1> QED
  BY <1>3, <1>5 DEF ChecksumOk, f

LEMMA AckPacketArrives ==
  ASSUME NEW n \in Bytes, NEW d \in Seq(Bytes),
         NEW f, f = Seal(<<ACKPACKET, n>> \o d)
  PROVE  Handled(f) = IF d = <<>> THEN Malformed
                      ELSE [kind |-> "AckPacket", seq_num |-> n, data |-> d]
<1> DEFINE h == <<ACKPACKET, n>>
           b == h \o d
           S == Values(b)
<1>1. h \in Seq(S) /\ Len(h) = 2 /\ h[1] = ACKPACKET /\ h[2] = n
  BY DEF Values
<1>2. d \in Seq(S)
  <2>1. Bytes \subseteq S
    BY DEF Values
  <2> HIDE DEF S
  <2> QED
    BY <2>1
<1> HIDE DEF h
<1>3. /\ b \in Seq(S) /\ Len(b) = 2 + Len(d)
      /\ b[1] = ACKPACKET /\ b[2] = n
      /\ \A i \in 1 .. Len(d) : b[2 + i] = d[i]
  <2> HIDE DEF S
  <2>1. h \in Seq(S)
    BY <1>1
  <2>2. /\ b \in Seq(S) /\ Len(b) = Len(h) + Len(d)
        /\ \A i \in 1 .. Len(h) : b[i] = h[i]
        /\ \A i \in 1 .. Len(d) : b[Len(h) + i] = d[i]
    BY <1>2, <2>1, Joined
  <2> HIDE DEF b
  <2> QED
    BY <1>1, <2>2
<1>4. f = Seal(b)
  BY DEF h
<1> HIDE DEF b
<1>5. /\ f \in Seq(S) /\ Len(f) = Len(b) + 2
      /\ \A i \in 1 .. Len(b) : f[i] = b[i]
      /\ ChecksumOk(f)
  BY <1>3, <1>4, SealOpens
<1> HIDE DEF S
<1>6. Len(d) \in Nat
  OBVIOUS
<1>7. /\ Len(f) = Len(d) + 4 /\ f[1] = ACKPACKET /\ f[2] = n
      /\ \A i \in 1 .. Len(d) : f[2 + i] = d[i]
  <2>1. Len(f) = Len(d) + 4 /\ 1 \in 1 .. Len(b) /\ 2 \in 1 .. Len(b)
    BY <1>3, <1>5, <1>6
  <2>2. \A i \in 1 .. Len(d) : 2 + i \in 1 .. Len(b)
    BY <1>3, <1>6
  <2> QED
    BY <1>3, <1>5, <2>1, <2>2
<1>8. SubSeq(f, 2 + 1, 2 + Len(d)) = d
  <2>1. 2 \in Nat /\ 2 + Len(d) <= Len(f)
    BY <1>6, <1>7
  <2> QED
    BY <1>2, <1>5, <1>7, <2>1, CutOut, ZenonT(30)
<1>9. SubSeq(f, 3, Len(f) - 2) = d
  BY <1>6, <1>7, <1>8
<1>10. Handled(f) = AckPacketFrom(f)
  BY <1>7 DEF Handled
<1>11. d = <<>> <=> ~(Len(f) >= 5)
  BY <1>6, <1>7, EmptySeq
<1> QED
  BY <1>5, <1>7, <1>9, <1>10, <1>11 DEF AckPacketFrom

LEMMA AckArrives ==
  ASSUME NEW n \in Bytes, NEW f, f = Seal(<<ACK, n>>)
  PROVE  Handled(f) = [kind |-> "Ack", seq_num |-> n]
<1> DEFINE b == <<ACK, n>>
<1>1. b \in Seq(Values(b)) /\ Len(b) = 2 /\ b[1] = ACK /\ b[2] = n
  BY DEF Values
<1>2. f = Seal(b)
  OBVIOUS
<1> HIDE DEF b
<1>3. Len(f) = 4 /\ f[1] = ACK /\ f[2] = n /\ ChecksumOk(f)
  <2>1. /\ Len(Seal(b)) = Len(b) + 2 /\ ChecksumOk(Seal(b))
        /\ \A i \in 1 .. Len(b) : Seal(b)[i] = b[i]
    BY <1>1, SealOpens
  <2> QED
    BY <1>1, <1>2, <2>1
<1>4. Handled(f) = AckFrom(f)
  BY <1>3 DEF Handled, ACK, ACKPACKET
<1> QED
  BY <1>3, <1>4 DEF AckFrom

LEMMA NoAckPacketArrives ==
  ASSUME NEW d \in Seq(Bytes), NEW f, f = Seal(<<NOACKPACKET>> \o d)
  PROVE  Handled(f) = IF d = <<>> THEN Malformed
                      ELSE [kind |-> "NoAckPacket", data |-> d]
<1> DEFINE h == <<NOACKPACKET>>
           b == h \o d
           S == Values(b)
<1>1. h \in Seq(S) /\ Len(h) = 1 /\ h[1] = NOACKPACKET
  BY DEF Values
<1>2. d \in Seq(S)
  <2>1. Bytes \subseteq S
    BY DEF Values
  <2> HIDE DEF S
  <2> QED
    BY <2>1
<1> HIDE DEF h
<1>3. /\ b \in Seq(S) /\ Len(b) = 1 + Len(d) /\ b[1] = NOACKPACKET
      /\ \A i \in 1 .. Len(d) : b[1 + i] = d[i]
  <2> HIDE DEF S
  <2>1. h \in Seq(S)
    BY <1>1
  <2>2. /\ b \in Seq(S) /\ Len(b) = Len(h) + Len(d)
        /\ \A i \in 1 .. Len(h) : b[i] = h[i]
        /\ \A i \in 1 .. Len(d) : b[Len(h) + i] = d[i]
    BY <1>2, <2>1, Joined
  <2> HIDE DEF b
  <2> QED
    BY <1>1, <2>2
<1>4. f = Seal(b)
  BY DEF h
<1> HIDE DEF b
<1>5. /\ f \in Seq(S) /\ Len(f) = Len(b) + 2
      /\ \A i \in 1 .. Len(b) : f[i] = b[i]
      /\ ChecksumOk(f)
  BY <1>3, <1>4, SealOpens
<1> HIDE DEF S
<1>6. Len(d) \in Nat
  OBVIOUS
<1>7. /\ Len(f) = Len(d) + 3 /\ f[1] = NOACKPACKET
      /\ \A i \in 1 .. Len(d) : f[1 + i] = d[i]
  <2>1. Len(f) = Len(d) + 3 /\ 1 \in 1 .. Len(b)
    BY <1>3, <1>5, <1>6
  <2>2. \A i \in 1 .. Len(d) : 1 + i \in 1 .. Len(b)
    BY <1>3, <1>6
  <2> QED
    BY <1>3, <1>5, <2>1, <2>2
<1>8. SubSeq(f, 1 + 1, 1 + Len(d)) = d
  <2>1. 1 \in Nat /\ 1 + Len(d) <= Len(f)
    BY <1>6, <1>7
  <2> QED
    BY <1>2, <1>5, <1>7, <2>1, CutOut, ZenonT(30)
<1>9. SubSeq(f, 2, Len(f) - 2) = d
  BY <1>6, <1>7, <1>8
<1>10. Handled(f) = NoAckPacketFrom(f)
  BY <1>7 DEF Handled, ACK, ACKPACKET, NOACKPACKET
<1>11. d = <<>> <=> ~(Len(f) >= 4)
  BY <1>6, <1>7, EmptySeq
<1> QED
  BY <1>5, <1>9, <1>10, <1>11 DEF NoAckPacketFrom

(* What is handed on of any frame has data: each parser refuses what has   *)
(* none, whatever the bytes.                                               *)
LEMMA HandledData ==
  ASSUME NEW f \in Seq(Bytes)
  PROVE  LET p == Handled(f)
         IN  p.kind \in {"AckPacket", "NoAckPacket"} => p.data # <<>>
<1>1. Len(f) \in Nat /\ \A i \in 1 .. Len(f) : f[i] \in Bytes
  OBVIOUS
<1>2. ASSUME NEW a \in {2, 3}, Len(f) - 2 >= a
      PROVE  SubSeq(f, a, Len(f) - 2) # <<>>
  <2>1. /\ a \in Int /\ Len(f) - 2 \in Int /\ a <= Len(f) - 2
        /\ \A i \in a .. Len(f) - 2 : f[i] \in Bytes
    BY <1>1, <1>2
  <2>2. Len(SubSeq(f, a, Len(f) - 2)) = Len(f) - 2 - a + 1
    BY <1>1, <2>1, SubSeqProperties, SMT
  <2>3. Len(f) - 2 - a + 1 # 0
    BY <1>1, <2>1
  <2>4. Len(<<>>) = 0
    OBVIOUS
  <2> QED
    BY <2>2, <2>3, <2>4, Zenon
<1>3. CASE f[1] = ACKPACKET
  <2>1. Handled(f) = AckPacketFrom(f)
    BY <1>3 DEF Handled
  <2>2. Len(f) >= 5 => SubSeq(f, 3, Len(f) - 2) # <<>>
    BY <1>1, <1>2
  <2> QED
    BY <2>1, <2>2 DEF AckPacketFrom, Malformed
<1>4. CASE f[1] = ACK
  <2>1. Handled(f) = AckFrom(f)
    BY <1>4 DEF Handled, ACK, ACKPACKET
  <2> QED
    BY <2>1 DEF AckFrom, Malformed
<1>5. CASE f[1] = NOACKPACKET
  <2>1. Handled(f) = NoAckPacketFrom(f)
    BY <1>5 DEF Handled, ACK, ACKPACKET, NOACKPACKET
  <2>2. Len(f) >= 4 => SubSeq(f, 2, Len(f) - 2) # <<>>
    BY <1>1, <1>2
  <2> QED
    BY <2>1, <2>2 DEF NoAckPacketFrom, Malformed
<1>6. CASE f[1] \notin {ACK, ACKPACKET, NOACKPACKET}
  <2>1. Handled(f) = [kind |-> "panic"]
    BY <1>6 DEF Handled
  <2> QED
    BY <2>1
<1> QED
  BY <1>3, <1>4, <1>5, <1>6

(* message[0] of TransportWorker::send finds a byte: the reader never      *)
(* hands on empty data.                                                    *)
THEOREM NoEmptyData == Spec => []DataNeverEmpty
<1>1. ASSUME IInv
      PROVE  DataNeverEmpty
  <2>1. \A i \in 1 .. Len(out) : out[i] \in Seq(Bytes)
    BY <1>1, ElementOfSeq DEF IInv, TypeOK
  <2> SUFFICES ASSUME NEW i \in 1 .. Len(out),
                      Outcome(i).kind \in {"AckPacket", "NoAckPacket"}
               PROVE  Outcome(i).data # <<>>
    BY DEF DataNeverEmpty
  <2>2. Outcome(i) = Handled(out[i])
    BY DEF Outcome
  <2> QED
    BY <2>1, <2>2, HandledData
<1>2. IInv => DataNeverEmpty
  BY <1>1
<1> QED
  BY <1>2, Invariance, PTL

(* Every packet with data, and every Ack, is parsed to what it was built   *)
(* from, whatever the checksum.                                            *)
LEMMA HandledPacket ==
  ASSUME NEW p \in Packets
  PROVE  Handled(Packet(p)) = IF p.kind # "Ack" /\ p.data = <<>> THEN Malformed ELSE p
<1>1. CASE p \in [kind : {"AckPacket"}, seq_num : Bytes, data : Seq(Bytes)]
  <2>1. /\ p.kind = "AckPacket" /\ p.seq_num \in Bytes /\ p.data \in Seq(Bytes)
        /\ p = [kind |-> "AckPacket", seq_num |-> p.seq_num, data |-> p.data]
    BY <1>1
  <2>2. Packet(p) = Seal(<<ACKPACKET, p.seq_num>> \o p.data)
    BY <2>1 DEF Packet
  <2> QED
    BY <2>1, <2>2, AckPacketArrives
<1>2. CASE p \in [kind : {"Ack"}, seq_num : Bytes]
  <2>1. /\ p.kind = "Ack" /\ p.seq_num \in Bytes
        /\ p = [kind |-> "Ack", seq_num |-> p.seq_num]
    BY <1>2
  <2>2. Packet(p) = Seal(<<ACK, p.seq_num>>)
    BY <2>1 DEF Packet
  <2> QED
    BY <2>1, <2>2, AckArrives
<1>3. CASE p \in [kind : {"NoAckPacket"}, data : Seq(Bytes)]
  <2>1. /\ p.kind = "NoAckPacket" /\ p.data \in Seq(Bytes)
        /\ p = [kind |-> "NoAckPacket", data |-> p.data]
    BY <1>3
  <2>2. Packet(p) = Seal(<<NOACKPACKET>> \o p.data)
    BY <2>1 DEF Packet
  <2> QED
    BY <2>1, <2>2, NoAckPacketArrives
<1> QED
  BY <1>1, <1>2, <1>3, PacketsAssumption

(* From end to end: a packet of which no byte is hit is handled, with its  *)
(* last byte, as what it was built from, unless a frame before it was of   *)
(* an unknown type and has panicked the reader.                            *)
THEOREM UnhitPacketArrives == Spec => PacketArrives
<1> DEFINE A == \A p \in Packets :
                  /\ pc # "idle" /\ pc' = "idle" /\ ~hit' /\ cur = Packet(p)
                  /\ ~PanickedBefore(Len(out) + 1)
                  => Outcome(Len(out))'
                       = IF p.kind # "Ack" /\ p.data = <<>> THEN Malformed ELSE p
           B == pc # "idle" /\ pc' = "idle" /\ ~hit' => out' = Append(out, cur)
<1>1. ASSUME IInv, [B]_vars
      PROVE  [A]_vars
  <2> SUFFICES ASSUME ~UNCHANGED vars, NEW p \in Packets,
                      pc # "idle", pc' = "idle", ~hit', cur = Packet(p),
                      ~PanickedBefore(Len(out) + 1)
               PROVE  Outcome(Len(out))'
                        = IF p.kind # "Ack" /\ p.data = <<>> THEN Malformed ELSE p
    OBVIOUS
  <2>1. out' = Append(out, cur)
    BY <1>1
  <2>2. out \in Seq(Seq(Bytes) \ {<<>>})
    BY <1>1 DEF IInv, TypeOK
  <2>3. /\ Len(out) \in Nat /\ Len(out') = Len(out) + 1
        /\ out'[Len(out')] = cur
        /\ \A i \in 1 .. Len(out) : out'[i] = out[i]
    BY <2>1, <2>2
  <2>4. ~PanickedBefore(Len(out))'
    BY <2>3 DEF PanickedBefore
  <2>5. Outcome(Len(out))' = Handled(cur)
    BY <2>3, <2>4 DEF Outcome
  <2> QED
    BY <2>5, HandledPacket
<1>2. IInv /\ [B]_vars => [A]_vars
  BY <1>1
<1>3. Spec => [][B]_vars
  BY UnhitFrameArrives DEF FrameArrives
<1> QED
  BY <1>2, <1>3, Invariance, PTL DEF PacketArrives
=============================================================================
