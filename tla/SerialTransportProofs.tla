------------------------ MODULE SerialTransportProofs -----------------------
(***************************************************************************)
(* The serial transport's threads, for any bounds on data, frames and      *)
(* batches, with and without a port that stalls or goes away and frames of *)
(* unknown type: IInv is inductive, and the events follow the protocol of          *)
(* TransportEvents.                                                        *)
(***************************************************************************)
EXTENDS SerialTransport, TLAPS

USE BoundsAssumption, FaultsAssumption

Event == [ev : {"Connected", "Disconnected", "Data"}, session : 0 .. 1]

LEMMA EmitFacts ==
  ASSUME TypeOK, NEW ev \in {"Connected", "Disconnected", "Data"}, NEW k \in 0 .. 1,
         log' = Append(log, [ev |-> ev, session |-> k])
  PROVE  /\ log' \in Seq(Event) /\ log' # <<>>
         /\ Len(log) \in Nat /\ Len(log') = Len(log) + 1
         /\ \A i \in 1 .. Len(log) : log'[i] = log[i]
         /\ log'[Len(log) + 1] = [ev |-> ev, session |-> k]
<1>1. log \in Seq(Event) /\ [ev |-> ev, session |-> k] \in Event
  BY DEF TypeOK, Event
<1> QED
  BY <1>1

(* Only Disconnected reports. *)
LEMMA ReportFacts ==
  ASSUME TypeOK, NEW ev \in {"Connected", "Disconnected", "Data"}, NEW k \in 0 .. 1,
         log' = Append(log, [ev |-> ev, session |-> k]), NEW j \in 0 .. 1
  PROVE  (\E i \in 1 .. Len(log') : log'[i] = [ev |-> "Disconnected", session |-> j])
         <=> Reported(j) \/ (ev = "Disconnected" /\ j = k)
<1> DEFINE L == Len(log)
           d == [ev |-> "Disconnected", session |-> j]
           e == [ev |-> ev, session |-> k]
<1>1. /\ L \in Nat /\ Len(log') = L + 1 /\ log'[L + 1] = e
      /\ \A i \in 1 .. L : log'[i] = log[i]
  BY EmitFacts
<1>2. Reported(j) <=> \E i \in 1 .. L : log[i] = d
  BY DEF Reported
<1>3. e = d <=> ev = "Disconnected" /\ j = k
  OBVIOUS
<1> HIDE DEF L, d, e
<1>4. (\E i \in 1 .. Len(log') : log'[i] = d) <=> (\E i \in 1 .. L : log[i] = d) \/ e = d
  <2>1. ASSUME NEW i \in 1 .. Len(log'), log'[i] = d
        PROVE  (\E h \in 1 .. L : log[h] = d) \/ e = d
    BY <1>1, <2>1
  <2>2. ASSUME NEW i \in 1 .. L, log[i] = d
        PROVE  \E h \in 1 .. Len(log') : log'[h] = d
    BY <1>1, <2>2
  <2>3. e = d => \E h \in 1 .. Len(log') : log'[h] = d
    BY <1>1
  <2> QED
    BY <2>1, <2>2, <2>3
<1> QED
  BY <1>2, <1>3, <1>4 DEF d

LEMMA ReportFrame ==
  ASSUME UNCHANGED <<log, opened>>
  PROVE  Reported(opened)' <=> Reported(opened)
BY DEF Reported

-----------------------------------------------------------------------------
(* Types. *)

(* TypeOK by its parts: the scalars and each of the three sequences.       *)
ScalarsOK ==
  /\ wpc \in {"open", "run", "unacked", "halt", "notify", "join", "drain",
              "done", "panicked"}
  /\ zero \in BOOLEAN /\ opened \in 0 .. 1
  /\ port \in {"ok", "lost"}
  /\ unacked \in BOOLEAN
  /\ reader \in {"none", "reading", "handling", "check", "exited", "panicked"}
  /\ readStop \in BOOLEAN
  /\ stopCall \in {"no", "sent", "ok", "err"}
  /\ offered \in 0 .. MaxData /\ frames \in 0 .. MaxFrames
  /\ timedOut \in BOOLEAN
RxOK == rx \in Seq({"Data", "Stop"})
BatchOK == batch \in Seq(FrameKinds) /\ Len(batch) <= MaxBatch
LogOK == log \in Seq(Event)

LEMMA TypeParts == TypeOK <=> ScalarsOK /\ RxOK /\ BatchOK /\ LogOK
BY DEF TypeOK, ScalarsOK, RxOK, BatchOK, LogOK, Event

LEMMA TypePartsNext == ScalarsOK' /\ RxOK' /\ BatchOK' /\ LogOK' => TypeOK'
BY DEF TypeOK, ScalarsOK, RxOK, BatchOK, LogOK, Event

LEMMA RxStep ==
  ASSUME TypeOK, OneSession, [Next]_vars
  PROVE  RxOK'
<1>0. rx \in Seq({"Data", "Stop"})
  BY DEF TypeOK
<1>1. rx' = rx \/ rx' = Append(rx, "Data") \/ rx' = Append(rx, "Stop")
      \/ (rx # <<>> /\ rx' = Tail(rx))
  BY DEF Next, Writer, OpenOk, OpenFails, RunData, RunTimeout, HandleUnacked, RunStop,
         Halt, Notify, Join, DrainStop, DrainData, DrainTimeout, Reader, ReadBatch,
         ReadNothing, ReadFails, HandleFresh, HandleNoAck, HandleQuiet, HandleUnknown,
         CheckStop, StopSend, StopJoin, OfferData, PortLost, vars
<1> QED
  BY <1>0, <1>1 DEF RxOK

LEMMA BatchStep ==
  ASSUME TypeOK, EndsHaveReasons, [Next]_vars
  PROVE  BatchOK'
<1>0. batch \in Seq(FrameKinds) /\ Len(batch) <= MaxBatch
  BY DEF TypeOK
<1>1. \/ batch' = batch \/ batch' = <<>>
      \/ batch # <<>> /\ batch' = Tail(batch)
      \/ \E n \in 1 .. MaxBatch : batch' \in [1 .. n -> FrameKinds]
  BY DEF Next, Writer, OpenOk, OpenFails, RunData, RunTimeout, HandleUnacked, RunStop,
         Halt, Notify, Join, DrainStop, DrainData, DrainTimeout, Reader, ReadBatch,
         ReadNothing, ReadFails, HandleFresh, HandleNoAck, HandleQuiet, HandleUnknown,
         CheckStop, StopSend, StopJoin, OfferData, PortLost, vars, reading,
         EndsHaveReasons
<1>2. ASSUME NEW n \in 1 .. MaxBatch, batch' \in [1 .. n -> FrameKinds]
      PROVE  BatchOK'
  BY <1>2 DEF BatchOK
<1>3. CASE batch' = batch
  BY <1>0, <1>3 DEF BatchOK
<1>5. CASE batch' = <<>>
  <2>1. batch' \in Seq(FrameKinds) /\ Len(batch') = 0
    BY <1>5
  <2> QED
    BY <2>1 DEF BatchOK
<1>4. CASE batch # <<>> /\ batch' = Tail(batch)
  BY <1>0, <1>4 DEF BatchOK
<1> QED
  BY <1>1, <1>2, <1>3, <1>4, <1>5

LEMMA LogStep ==
  ASSUME TypeOK, OneSession, [Next]_vars
  PROVE  LogOK'
<1>0. log \in Seq(Event) /\ opened \in 0 .. 1
  BY DEF TypeOK, Event
<1>1. wpc = "open" => opened = 0
  BY DEF OneSession
<1>2. ASSUME NEW ev \in {"Connected", "Disconnected", "Data"}, NEW k \in 0 .. 1,
             log' = Append(log, [ev |-> ev, session |-> k])
      PROVE  LogOK'
  BY <1>2, EmitFacts DEF LogOK
<1>3. CASE OpenOk
  BY <1>1, <1>2, <1>3 DEF OpenOk
<1>4. CASE Notify \/ HandleFresh \/ HandleNoAck
  BY <1>0, <1>2, <1>4 DEF Notify, HandleFresh, HandleNoAck, Emit, LogOK
<1>5. CASE log' = log
  BY <1>0, <1>5 DEF LogOK
<1> QED
  BY <1>3, <1>4, <1>5 DEF Next, Writer, OpenFails, RunData, RunTimeout, HandleUnacked,
     RunStop, Halt, Join, DrainStop, DrainData, DrainTimeout, Reader, ReadBatch,
     ReadNothing, ReadFails, HandleQuiet, HandleUnknown, CheckStop, StopSend, StopJoin,
     OfferData, PortLost, vars

LEMMA TypeStep ==
  ASSUME TypeOK, OneSession, EndsHaveReasons, [Next]_vars
  PROVE  TypeOK'
<1>0. ScalarsOK /\ Len(batch) \in Nat /\ (wpc = "open" => opened = 0)
  BY TypeParts DEF TypeOK, OneSession
<1> USE DEF device, reading, user, history
<1>1. ASSUME ScalarsOK'
      PROVE  TypeOK'
  BY <1>1, RxStep, BatchStep, LogStep, TypePartsNext
<1>2. CASE Writer
  <2>1. ScalarsOK'
    <3>1. CASE HandleUnacked
      <4>1. unacked' \in BOOLEAN /\ timedOut' \in BOOLEAN
        BY <1>0, <3>1 DEF ScalarsOK, HandleUnacked, WriteFails
      <4>2. wpc' \in {"panicked", "run"} /\ UNCHANGED <<zero, opened, port, reading, user, frames>>
        BY <3>1 DEF HandleUnacked, WriteFails
      <4> QED
        BY <1>0, <4>1, <4>2 DEF ScalarsOK
    <3>2. CASE OpenOk
      <4>1. /\ opened' = 1 /\ port' = "ok" /\ unacked' = FALSE /\ reader' = "reading"
            /\ readStop' = FALSE /\ wpc' = "run" /\ UNCHANGED <<zero, user, history>>
        BY <1>0, <3>2 DEF OpenOk
      <4>2. unacked' \in BOOLEAN /\ readStop' \in BOOLEAN /\ zero' \in BOOLEAN
        BY <1>0, <4>1 DEF ScalarsOK
      <4> QED
        BY <1>0, <4>1, <4>2 DEF ScalarsOK
    <3>3. CASE OpenFails \/ RunTimeout \/ RunStop
      BY <1>0, <3>3 DEF ScalarsOK, OpenFails, RunTimeout, RunStop
    <3>5. CASE RunData
      <4>1. unacked' \in BOOLEAN /\ timedOut' \in BOOLEAN
        BY <1>0, <3>5 DEF ScalarsOK, RunData, WriteFails
      <4>2. wpc' \in {"panicked", "unacked"} /\ UNCHANGED <<zero, opened, port, reading, user, frames>>
        BY <3>5 DEF RunData, WriteFails
      <4> QED
        BY <1>0, <4>1, <4>2 DEF ScalarsOK
    <3>4. CASE Notify \/ Join \/ DrainStop \/ DrainData \/ DrainTimeout
      BY <1>0, <3>4 DEF ScalarsOK, Notify, Join, DrainStop, DrainData, DrainTimeout
    <3>6. CASE Halt
      <4>1. readStop' \in BOOLEAN /\ wpc' \in {"panicked", "notify"}
        BY <1>0, <3>6 DEF Halt, ScalarsOK
      <4>2. UNCHANGED <<device, reader, user, history>>
        BY <3>6 DEF Halt
      <4> QED
        BY <1>0, <4>1, <4>2 DEF ScalarsOK
    <3> QED
      BY <1>2, <3>1, <3>2, <3>3, <3>4, <3>5, <3>6 DEF Writer
  <2> QED
    BY <1>1, <2>1
<1>3. CASE Reader
  <2>1. ScalarsOK'
    <3>1. CASE HandleQuiet
      <4>1. unacked' \in BOOLEAN
        BY <1>0, <3>1 DEF HandleQuiet, ScalarsOK
      <4>2. /\ UNCHANGED <<wpc, zero, opened, port, readStop, user, history>>
            /\ reader' \in {"check", "handling"}
        BY <3>1 DEF HandleQuiet, NextFrame
      <4> QED
        BY <1>0, <4>1, <4>2 DEF ScalarsOK
    <3>2. CASE Reader /\ ~HandleQuiet
      BY <1>0, <3>2 DEF ScalarsOK, Reader, ReadBatch, ReadNothing, ReadFails, HandleFresh,
         HandleNoAck, HandleUnknown, CheckStop, NextFrame
    <3> QED
      BY <1>3, <3>1, <3>2
  <2> QED
    BY <1>1, <2>1
<1>4. CASE StopSend \/ StopJoin \/ OfferData \/ PortLost \/ UNCHANGED vars
  <2>1. ScalarsOK'
    BY <1>0, <1>4 DEF ScalarsOK, StopSend, StopJoin, OfferData, PortLost, vars
  <2> QED
    BY <1>1, <2>1
<1> QED
  BY <1>2, <1>3, <1>4 DEF Next

-----------------------------------------------------------------------------
(* The session. *)

LEMMA OneSessionStep ==
  ASSUME TypeOK, OneSession, EndsHaveReasons, [Next]_vars
  PROVE  OneSession'
<1>0. /\ opened \in 0 .. 1
      /\ reader \in {"none", "reading", "handling", "check", "exited", "panicked"}
      /\ wpc \in {"open", "run", "unacked", "halt", "notify", "join", "drain",
                  "done", "panicked"}
  BY DEF TypeOK
<1> USE DEF device, reading, user, history
<1>1. CASE OpenOk
  <2>1. /\ log = <<>> /\ opened = 0 /\ opened' = 1 /\ reader' = "reading" /\ wpc' = "run"
        /\ log' = Append(log, [ev |-> "Connected", session |-> 1])
    BY <1>0, <1>1 DEF OpenOk, OneSession
  <2>2. ~Reported(1)
    BY <2>1 DEF Reported
  <2>3. ~Reported(opened)'
    BY <2>1, <2>2, ReportFacts DEF Reported
  <2> QED
    BY <2>1, <2>3 DEF OneSession
<1>2. CASE HandleFresh \/ HandleNoAck
  <2>1. /\ reader = "handling" /\ UNCHANGED <<wpc, opened>>
        /\ reader' \in {"handling", "check", "panicked"}
        /\ UNCHANGED log \/ log' = Append(log, [ev |-> "Data", session |-> opened])
    BY <1>2 DEF HandleFresh, HandleNoAck, Emit, NextFrame
  <2>2. Reported(opened)' <=> Reported(opened)
    <3>1. CASE UNCHANGED log
      BY <2>1, <3>1 DEF Reported
    <3>2. CASE log' = Append(log, [ev |-> "Data", session |-> opened])
      BY <1>0, <2>1, <3>2, ReportFacts DEF Reported
    <3> QED
      BY <2>1, <3>1, <3>2
  <2> QED
    BY <1>0, <2>1, <2>2 DEF OneSession
<1>3. CASE Notify
  <2>1. /\ wpc = "notify" /\ wpc' = "join" /\ UNCHANGED <<reader, opened>>
        /\ log' = Append(log, [ev |-> "Disconnected", session |-> opened])
    BY <1>3 DEF Notify, Emit
  <2>2. Reported(opened)'
    BY <1>0, <2>1, ReportFacts DEF Reported
  <2> QED
    BY <2>1, <2>2 DEF OneSession
<1>4. ASSUME UNCHANGED <<log, opened>>,
             \/ wpc' = wpc /\ reader # "none" /\ reader' # "none" /\ wpc # "done"
             \/ wpc' = wpc /\ reader' = reader
             \/ reader' = reader /\ wpc \in {"run", "unacked", "halt"}
                /\ wpc' \in {"run", "unacked", "halt", "notify", "panicked"}
             \/ reader' = reader /\ wpc \in {"open", "drain"}
                /\ wpc' \in {"open", "drain", "done"}
             \/ reader' = reader /\ wpc = "join"
                /\ wpc' = IF reader = "exited" THEN "done" ELSE "panicked"
      PROVE  OneSession'
  <2>1. Reported(opened)' <=> Reported(opened)
    BY <1>4, ReportFrame
  <2> QED
    BY <1>0, <1>4, <2>1 DEF OneSession
<1>5. CASE Writer /\ ~OpenOk /\ ~Notify
  BY <1>4, <1>5 DEF Writer, OpenFails, RunData, WriteFails, RunTimeout, HandleUnacked,
     RunStop, Halt, Join, DrainStop, DrainData, DrainTimeout
<1>6. CASE Reader /\ ~HandleFresh /\ ~HandleNoAck
  BY <1>4, <1>6 DEF Reader, ReadBatch, ReadNothing, ReadFails, HandleQuiet,
     HandleUnknown, CheckStop, NextFrame, OneSession
<1>7. CASE StopSend \/ StopJoin \/ OfferData \/ PortLost \/ UNCHANGED vars
  BY <1>4, <1>7 DEF StopSend, StopJoin, OfferData, PortLost, vars
<1> QED
  BY <1>1, <1>2, <1>3, <1>5, <1>6, <1>7 DEF Next, Reader, Writer

(* Why threads end. *)
LEMMA ReasonsStep ==
  ASSUME TypeOK, OneSession, EndsHaveReasons, [Next]_vars
  PROVE  EndsHaveReasons'
<1>0. /\ ScalarsOK /\ batch \in Seq(FrameKinds)
  BY TypeParts DEF BatchOK
<1> USE DEF device, reading, user, history
<1>1. CASE Writer
  <2>1. UNCHANGED stopCall
    BY <1>1 DEF Writer, OpenOk, OpenFails, RunData, RunTimeout, HandleUnacked, RunStop,
       Halt, Notify, Join, DrainStop, DrainData, DrainTimeout
  <2>2. CASE OpenOk
    BY <2>1, <2>2 DEF OpenOk, EndsHaveReasons
  <2>3. CASE Halt
    BY <1>0, <2>3 DEF Halt, EndsHaveReasons, ScalarsOK
  <2>4. CASE Notify \/ Join
    BY <2>4 DEF Notify, Join, EndsHaveReasons
  <2>5. CASE RunData \/ RunTimeout \/ HandleUnacked \/ RunStop
    <3>1. /\ UNCHANGED <<port, reader, batch, readStop, stopCall>> /\ wpc \in {"run", "unacked"}
          /\ \/ wpc' \in {"run", "unacked", "halt"}
             \/ wpc' = "panicked" /\ (port = "lost" \/ timedOut')
          /\ timedOut => timedOut'
      BY <1>0, <2>5 DEF RunData, RunTimeout, HandleUnacked, RunStop, WriteFails, ScalarsOK
    <3> QED
      BY <3>1 DEF EndsHaveReasons
  <2>6. CASE OpenFails \/ DrainStop \/ DrainData \/ DrainTimeout
    BY <2>6 DEF OpenFails, DrainStop, DrainData, DrainTimeout, EndsHaveReasons
  <2> QED
    BY <1>1, <2>2, <2>3, <2>4, <2>5, <2>6 DEF Writer
<1>2. CASE Reader
  <2>1. CASE ReadBatch
    <3>1. PICK n \in 1 .. MaxBatch : batch' \in [1 .. n -> FrameKinds]
      BY <2>1 DEF ReadBatch
    <3>2. batch' # <<>>
      BY <3>1
    <3> QED
      BY <2>1, <3>2 DEF ReadBatch, EndsHaveReasons
  <2>2. CASE HandleFresh \/ HandleNoAck \/ HandleQuiet \/ HandleUnknown
    <3>1. /\ batch # <<>> /\ batch' = Tail(batch) /\ reader = "handling"
          /\ UNCHANGED <<wpc, port, readStop, stopCall, timedOut>>
          /\ NextFrame \/ reader' = "panicked"
      BY <2>2 DEF HandleFresh, HandleNoAck, HandleQuiet, HandleUnknown, EndsHaveReasons
    <3>2. Len(batch) \in Nat \ {0} /\ (Len(batch) # 1 => batch' # <<>>)
      <4>1. Len(batch) \in Nat \ {0} /\ Len(Tail(batch)) = Len(batch) - 1
        BY <1>0, <3>1
      <4> QED
        BY <3>1, <4>1
    <3>3. NextFrame => reader' # "exited" /\ (reader' = "handling" => batch' # <<>>)
      BY <3>2 DEF NextFrame
    <3> QED
      BY <3>1, <3>3 DEF EndsHaveReasons
  <2>3. CASE ReadNothing \/ ReadFails \/ CheckStop
    BY <2>3 DEF ReadNothing, ReadFails, CheckStop, EndsHaveReasons
  <2> QED
    BY <1>2, <2>1, <2>2, <2>3 DEF Reader
<1>3. CASE StopSend \/ StopJoin \/ OfferData
  BY <1>3 DEF StopSend, StopJoin, OfferData, EndsHaveReasons
<1>4. CASE PortLost \/ UNCHANGED vars
  BY <1>4 DEF PortLost, vars, EndsHaveReasons
<1> QED
  BY <1>1, <1>2, <1>3, <1>4 DEF Next

-----------------------------------------------------------------------------
(* Together. *)

LEMMA InitIInv == Init => IInv
<1> SUFFICES ASSUME Init
             PROVE  IInv
  OBVIOUS
<1>1. TypeOK
  <2>1. ScalarsOK
    <3>1. /\ wpc = "open" /\ opened = 0 /\ port = "ok" /\ reader = "none"
          /\ stopCall = "no" /\ offered = 0 /\ frames = 0
      BY DEF Init
    <3>2. /\ zero \in BOOLEAN /\ unacked \in BOOLEAN /\ readStop \in BOOLEAN
          /\ timedOut \in BOOLEAN
      BY DEF Init
    <3> QED
      BY <3>1, <3>2 DEF ScalarsOK
  <2>2. RxOK /\ LogOK
    BY DEF Init, RxOK, LogOK
  <2>3. BatchOK
    <3>1. batch \in Seq(FrameKinds) /\ Len(batch) = 0
      BY DEF Init
    <3> QED
      BY <3>1 DEF BatchOK
  <2> QED
    BY <2>1, <2>2, <2>3, TypeParts
<1>2. OneSession /\ EndsHaveReasons
  BY DEF Init, OneSession, EndsHaveReasons
<1> QED
  BY <1>1, <1>2 DEF IInv

LEMMA StepIInv == IInv /\ [Next]_vars => IInv'
BY TypeStep, OneSessionStep, ReasonsStep DEF IInv

(* IInv holds in every state, for any bounds and any of the faults.        *)
THEOREM Invariance == Spec => []IInv
<1> QED
  BY InitIInv, StepIInv, PTL DEF Spec

(* Transport::stop fails only when the port is gone, a write to it timed   *)
(* out or the reader has panicked.                                         *)
THEOREM StopErrorIsFault == Spec => []StopFailsOnlyByFault
<1>1. IInv => StopFailsOnlyByFault
  BY DEF IInv, EndsHaveReasons, StopFailsOnlyByFault
<1> QED
  BY <1>1, Invariance, PTL

(* Once Transport::stop has returned Ok, neither thread takes another step,*)
(* no event comes and nothing is put on the writer's channel.              *)
THEOREM NothingAfterStop == Spec => StopIsFinal
<1> DEFINE A == stopCall = "ok" => UNCHANGED <<log, rx, reader>>
<1>1. ASSUME IInv, [Next]_vars
      PROVE  [A]_vars
  <2> SUFFICES ASSUME stopCall = "ok"
               PROVE  UNCHANGED <<log, rx, reader>>
    OBVIOUS
  <2>1. wpc = "done" /\ reader \in {"none", "exited"}
    BY <1>1 DEF IInv, OneSession, EndsHaveReasons
  <2>2. ~Writer
    BY <2>1 DEF Writer, OpenOk, OpenFails, RunData, RunTimeout, HandleUnacked, RunStop,
       Halt, Notify, Join, DrainStop, DrainData, DrainTimeout
  <2>3. ~Reader
    BY <2>1 DEF Reader, ReadBatch, ReadNothing, ReadFails, HandleFresh, HandleNoAck,
       HandleQuiet, HandleUnknown, CheckStop
  <2> QED
    BY <1>1, <2>1, <2>2, <2>3 DEF Next, StopSend, StopJoin, OfferData, PortLost, reading,
       vars
<1>2. IInv /\ [Next]_vars => [A]_vars
  BY <1>1
<1> QED
  BY <1>2, Invariance, PTL DEF Spec, StopIsFinal

-----------------------------------------------------------------------------
(* The events follow the protocol.                                         *)

LEMMA InitMaps == Init => Events!Init
BY DEF Init, Events!Init, Phase

LEMMA StepMaps == IInv /\ [Next]_vars => [Events!Next]_(Events!vars)
<1> SUFFICES ASSUME IInv, [Next]_vars
             PROVE  Events!Next \/ UNCHANGED <<Phase, opened, log>>
  BY DEF Events!vars
<1>0. /\ TypeOK /\ OneSession /\ EndsHaveReasons /\ OneSession' /\ opened \in 0 .. 1
      /\ wpc \in {"open", "run", "unacked", "halt", "notify", "join", "drain",
                  "done", "panicked"}
  BY StepIInv DEF IInv, TypeOK
<1> USE DEF device, reading, user, history
<1>1. CASE OpenOk
  <2>1. /\ reader = "none" /\ opened = 0 /\ opened' = 1 /\ reader' = "reading"
        /\ wpc' = "run" /\ log' = Append(log, [ev |-> "Connected", session |-> opened'])
    BY <1>0, <1>1 DEF OpenOk, OneSession
  <2>2. Phase = "down" /\ Phase' = "up"
    BY <1>0, <2>1 DEF Phase, OneSession
  <2>3. Events!Connect
    BY <2>1, <2>2 DEF Events!Connect, Events!Emit
  <2> QED
    BY <2>3 DEF Events!Next
<1>2. CASE HandleFresh \/ HandleNoAck
  <2>1. /\ reader = "handling" /\ UNCHANGED <<wpc, opened>> /\ reader' # "none"
        /\ UNCHANGED log \/ log' = Append(log, [ev |-> "Data", session |-> opened])
    BY <1>2 DEF HandleFresh, HandleNoAck, Emit, NextFrame
  <2>2. Reported(opened)' <=> Reported(opened)
    <3>1. CASE UNCHANGED log
      BY <2>1, <3>1 DEF Reported
    <3>2. CASE log' = Append(log, [ev |-> "Data", session |-> opened])
      BY <1>0, <2>1, <3>2, ReportFacts DEF Reported
    <3> QED
      BY <2>1, <3>1, <3>2
  <2>3. wpc # "done"
    BY <1>0, <2>1 DEF OneSession
  <2>4. Phase \in {"up", "closing"} /\ Phase' = Phase
    BY <2>1, <2>2, <2>3 DEF Phase
  <2> QED
    BY <2>1, <2>4 DEF Events!Next, Events!Deliver, Events!Emit
<1>3. CASE Notify
  <2>1. /\ wpc = "notify" /\ wpc' = "join" /\ UNCHANGED <<reader, opened>>
        /\ log' = Append(log, [ev |-> "Disconnected", session |-> opened])
    BY <1>3 DEF Notify, Emit
  <2>2. Phase = "up" /\ Phase' = "closing"
    BY <1>0, <2>1 DEF Phase, OneSession
  <2> QED
    BY <2>1, <2>2 DEF Events!Next, Events!Disconnect, Events!Emit
<1>4. CASE Join
  <2>1. /\ wpc = "join" /\ UNCHANGED <<reader, opened, log>> /\ reader # "none"
        /\ wpc' \in {"done", "panicked"} /\ Reported(opened)
    BY <1>0, <1>4 DEF Join, OneSession
  <2>2. Phase = "closing" /\ Phase' \in {"closing", "down"}
    BY <2>1, ReportFrame DEF Phase
  <2> QED
    BY <2>1, <2>2 DEF Events!Next, Events!Settle
<1>5. ASSUME UNCHANGED <<log, opened>>,
             \/ UNCHANGED reader /\ (reader = "none" \/ (wpc = "done" <=> wpc' = "done"))
             \/ UNCHANGED wpc /\ reader # "none" /\ reader' # "none"
      PROVE  UNCHANGED <<Phase, opened, log>>
  BY <1>5, ReportFrame DEF Phase
<1>6. CASE Writer /\ ~OpenOk /\ ~Notify /\ ~Join
  BY <1>0, <1>5, <1>6 DEF Writer, OpenFails, RunData, WriteFails, RunTimeout,
     HandleUnacked, RunStop, Halt, DrainStop, DrainData, DrainTimeout, OneSession
<1>7. CASE Reader /\ ~HandleFresh /\ ~HandleNoAck
  BY <1>5, <1>7 DEF Reader, ReadBatch, ReadNothing, ReadFails, HandleQuiet,
     HandleUnknown, CheckStop, NextFrame
<1>8. CASE StopSend \/ StopJoin \/ OfferData \/ PortLost \/ UNCHANGED vars
  BY <1>5, <1>8 DEF StopSend, StopJoin, OfferData, PortLost, vars
<1> QED
  BY <1>1, <1>2, <1>3, <1>4, <1>6, <1>7, <1>8 DEF Next, Reader, Writer

(* The serial transport implements the protocol of TransportEvents: all    *)
(* that is proved of its events there holds of this transport's.           *)
THEOREM EventsFollowProtocol == Spec => FollowsProtocol
<1> QED
  BY InitMaps, StepMaps, Invariance, PTL DEF Spec, FollowsProtocol, Events!Spec
=============================================================================
