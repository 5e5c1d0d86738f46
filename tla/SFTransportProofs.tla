-------------------------- MODULE SFTransportProofs -------------------------
(***************************************************************************)
(* The serial-forwarder transport for any number of sessions, data and     *)
(* packets and any of the faults: IInv is inductive, the writer panics     *)
(* only after a fault, and the events follow the protocol of               *)
(* TransportEvents.                                                        *)
(***************************************************************************)
EXTENDS SFTransport, TLAPS

USE BoundsAssumption, FaultsAssumption

Event == [ev : {"Connected", "Disconnected", "Data"}, session : 0 .. MaxSessions]

-----------------------------------------------------------------------------
(* Types. *)

(* TypeOK by its parts: the writer's locals and the user, the sockets with *)
(* their readers, the channel and the log.                                 *)
ScalarsOK ==
  /\ wpc \in {"connect", "handshake", "failed", "run", "blocked", "shutdown",
              "notify", "join", "drain", "done", "panicked"}
  /\ stop \in BOOLEAN
  /\ conn \in 0 .. MaxSessions
  /\ greeting \in {"none", "good", "bad"}
  /\ announced \in 0 .. conn
  /\ stopCall \in {"no", "sent", "ok", "err"}
  /\ panicAt \in {"nowhere", "shutdown", "drain"}
  /\ offered \in 0 .. MaxData
  /\ served \in 0 .. MaxPackets
  /\ failed \in BOOLEAN
SocketsOK ==
  /\ sock \in [Sessions -> {"up", "fin", "rst"}]
  /\ inbox \in [Sessions -> 0 .. MaxPackets]
  /\ shut \subseteq Sessions
  /\ reader \in [Sessions -> {"none", "reading", "holding", "exited"}]
RxOK == rx \in Seq(Messages)
LogOK == log \in Seq(Event)

LEMMA TypeParts == TypeOK <=> ScalarsOK /\ SocketsOK /\ RxOK /\ LogOK
BY DEF TypeOK, ScalarsOK, SocketsOK, RxOK, LogOK, Event

LEMMA TypePartsNext == ScalarsOK' /\ SocketsOK' /\ RxOK' /\ LogOK' => TypeOK'
BY DEF TypeOK, ScalarsOK, SocketsOK, RxOK, LogOK, Event

(* Who touches the channel and the log. *)
RxChanges ==
  \/ rx' = rx
  \/ rx # <<>> /\ rx' = Tail(rx)
  \/ \E ev \in {"Data", "Big", "Stop"} : rx' = Append(rx, ev)
  \/ \E k \in Sessions : ReadEnds(k)

LEMMA RxSteps ==
  ASSUME [Next]_vars
  PROVE  RxChanges
<1>1. CASE Writer
  BY <1>1 DEF RxChanges, Writer, ConnectOk, ConnectFails, HandshakeOk, HandshakeFails,
     EmitFailed, RunData, RunDataBlocks, BlockedFails, RunBig, RunDisconnected, RunStop, Shutdown, ShutdownPanics,
     Notify, Join, DrainStop, DrainData, DrainPanics, DrainTimeout
<1>2. ASSUME NEW k \in Sessions, Reader(k)
      PROVE  RxChanges
  BY <1>2 DEF RxChanges, Reader, ReadPacket, DeliverPacket, SkipEmpty
<1>3. CASE StopJoin \/ Environment
  BY <1>3 DEF RxChanges, StopJoin, Environment, OfferData, StopSend, PeerGreets,
     PeerSends, PeerCloses, PeerResets, PeerReads
<1>4. CASE UNCHANGED vars
  BY <1>4 DEF RxChanges, vars
<1> QED
  BY <1>1, <1>2, <1>3, <1>4 DEF Next

LEMMA RxTyped ==
  ASSUME TypeOK, [Next]_vars
  PROVE  RxOK'
<1>0. rx \in Seq(Messages)
  BY DEF TypeOK
<1>1. CASE rx' = rx \/ (rx # <<>> /\ rx' = Tail(rx))
  BY <1>0, <1>1 DEF RxOK
<1>2. ASSUME NEW ev \in {"Data", "Big", "Stop", "Disconnected"}, rx' = Append(rx, ev)
      PROVE  RxOK'
  BY <1>0, <1>2 DEF RxOK, Messages
<1> QED
  BY <1>1, <1>2, RxSteps DEF RxChanges, ReadEnds

LEMMA EmitTyped ==
  ASSUME LogOK, NEW ev \in {"Connected", "Disconnected", "Data"},
         NEW k \in 0 .. MaxSessions, Emit(ev, k)
  PROVE  LogOK'
<1>1. [ev |-> ev, session |-> k] \in Event
  BY DEF Event
<1> QED
  BY <1>1 DEF LogOK, Emit

LEMMA WriterTyped ==
  ASSUME TypeOK, OneReader, Writer
  PROVE  TypeOK'
<1>0. ScalarsOK /\ SocketsOK /\ RxOK' /\ LogOK
  BY TypeParts, RxTyped DEF Next
<1>c. /\ conn \in 0 .. MaxSessions /\ announced \in 0 .. MaxSessions
      /\ wpc \in {"handshake", "run", "shutdown"} => conn \in Sessions
  BY <1>0 DEF ScalarsOK, OneReader, Sessions, Open
<1> USE DEF link, peer, out, user
<1>1. CASE ConnectOk
  BY <1>0, <1>1, TypePartsNext DEF ConnectOk, ScalarsOK, SocketsOK, LogOK
<1>2. CASE HandshakeOk
  <2>1. LogOK'
    BY <1>0, <1>c, <1>2, EmitTyped DEF HandshakeOk
  <2>2. SocketsOK'
    BY <1>0, <1>c, <1>2 DEF HandshakeOk, SocketsOK
  <2>3. ScalarsOK'
    BY <1>0, <1>2 DEF HandshakeOk, ScalarsOK
  <2> QED
    BY <1>0, <2>1, <2>2, <2>3, TypePartsNext
<1>3. CASE EmitFailed \/ Notify
  <2>1. LogOK'
    BY <1>0, <1>c, <1>3, EmitTyped DEF EmitFailed, Notify
  <2>2. SocketsOK' /\ ScalarsOK'
    BY <1>0, <1>3 DEF EmitFailed, Notify, ScalarsOK, SocketsOK
  <2> QED
    BY <1>0, <2>1, <2>2, TypePartsNext
<1>4. CASE HandshakeFails \/ RunData
  <2>1. UNCHANGED <<stop, link, reader, out, panicAt, stopCall, offered, served>>
    BY <1>4 DEF HandshakeFails, RunData
  <2>2. failed' \in BOOLEAN /\ wpc' \in {"failed", "run", "shutdown"}
    BY <1>0, <1>4 DEF HandshakeFails, RunData, ScalarsOK
  <2> QED
    BY <1>0, <2>1, <2>2, TypePartsNext DEF ScalarsOK, SocketsOK, LogOK
<1>5. CASE Shutdown
  <2>1. SocketsOK'
    BY <1>0, <1>c, <1>5 DEF Shutdown, SocketsOK
  <2>2. ScalarsOK' /\ LogOK'
    BY <1>0, <1>5 DEF Shutdown, ScalarsOK, LogOK
  <2> QED
    BY <1>0, <2>1, <2>2, TypePartsNext
<1>6. CASE RunStop \/ DrainStop
  <2>1. ScalarsOK' /\ SocketsOK' /\ LogOK'
    BY <1>0, <1>6 DEF RunStop, DrainStop, ScalarsOK, SocketsOK, LogOK
  <2> QED
    BY <1>0, <2>1, TypePartsNext
<1>7. CASE ConnectFails \/ RunDataBlocks \/ BlockedFails \/ RunBig \/ RunDisconnected \/ ShutdownPanics \/ Join
           \/ DrainData \/ DrainPanics \/ DrainTimeout
  <2>1. UNCHANGED <<stop, link, reader, out, user>>
        /\ wpc' \in {"drain", "run", "blocked", "shutdown", "panicked", "done", "connect"}
        /\ (panicAt' = panicAt \/ panicAt' \in {"shutdown", "drain"})
    BY <1>7 DEF ConnectFails, RunDataBlocks, BlockedFails, RunBig, RunDisconnected, ShutdownPanics, Join, DrainData,
       DrainPanics, DrainTimeout
  <2> QED
    BY <1>0, <2>1, TypePartsNext DEF ScalarsOK, SocketsOK, LogOK
<1> QED
  BY <1>1, <1>2, <1>3, <1>4, <1>5, <1>6, <1>7 DEF Writer

LEMMA TypeStep ==
  ASSUME TypeOK, OneReader, [Next]_vars
  PROVE  TypeOK'
<1>0. ScalarsOK /\ SocketsOK /\ RxOK' /\ LogOK
  BY TypeParts, RxTyped
<1> USE DEF link, peer, out, user
<1>1. ASSUME NEW k \in Sessions, Reader(k)
      PROVE  TypeOK'
  <2>1. k \in 0 .. MaxSessions
    BY DEF Sessions
  <2>2. LogOK'
    BY <1>0, <1>1, <2>1, EmitTyped
       DEF Reader, ReadPacket, DeliverPacket, SkipEmpty, ReadEnds, LogOK
  <2>3. SocketsOK'
    <3>1. sock' = sock /\ shut' = shut
          /\ \/ inbox' = inbox
             \/ inbox[k] > 0 /\ inbox' = [inbox EXCEPT ![k] = inbox[k] - 1]
      BY <1>1 DEF Reader, ReadPacket, DeliverPacket, SkipEmpty, ReadEnds
    <3>2. inbox' \in [Sessions -> 0 .. MaxPackets]
      BY <1>0, <3>1 DEF SocketsOK
    <3>3. reader' \in [Sessions -> {"none", "reading", "holding", "exited"}]
      BY <1>0, <1>1 DEF Reader, ReadPacket, DeliverPacket, SkipEmpty, ReadEnds, SocketsOK
    <3> QED
      BY <1>0, <3>1, <3>2, <3>3 DEF SocketsOK
  <2>4. ScalarsOK'
    BY <1>0, <1>1 DEF Reader, ReadPacket, DeliverPacket, SkipEmpty, ReadEnds, ScalarsOK
  <2> QED
    BY <1>0, <2>2, <2>3, <2>4, TypePartsNext
<1>2. CASE StopJoin \/ OfferData \/ StopSend \/ PeerReads
  <2>1. ScalarsOK' /\ SocketsOK' /\ LogOK'
    BY <1>0, <1>2 DEF StopJoin, OfferData, StopSend, PeerReads, ScalarsOK, SocketsOK, LogOK
  <2> QED
    BY <1>0, <2>1, TypePartsNext
<1>3. CASE PeerGreets \/ PeerSends \/ PeerCloses \/ PeerResets
  <2>1. conn \in Sessions
    BY <1>0, <1>3 DEF PeerGreets, PeerSends, PeerCloses, PeerResets, Open, ScalarsOK,
       OneReader, Sessions
  <2>2. inbox[conn] <= served
    BY <2>1 DEF OneReader
  <2>3. ScalarsOK'
    BY <1>0, <1>3 DEF PeerGreets, PeerSends, PeerCloses, PeerResets, ScalarsOK
  <2>4. SocketsOK'
    <3>1. CASE PeerSends
      <4>1. inbox[conn] + 1 \in 0 .. MaxPackets
        BY <1>0, <2>1, <2>2, <3>1 DEF PeerSends, SocketsOK, ScalarsOK
      <4>2. inbox' = [inbox EXCEPT ![conn] = inbox[conn] + 1] /\ UNCHANGED <<sock, shut, reader>>
        BY <3>1 DEF PeerSends
      <4> QED
        BY <1>0, <4>1, <4>2 DEF SocketsOK
    <3>2. CASE PeerCloses \/ PeerResets
      BY <1>0, <2>1, <3>2 DEF PeerCloses, PeerResets, SocketsOK
    <3>3. CASE PeerGreets
      BY <1>0, <3>3 DEF PeerGreets, SocketsOK
    <3> QED
      BY <1>3, <3>1, <3>2, <3>3
  <2>5. LogOK'
    BY <1>0, <1>3 DEF PeerGreets, PeerSends, PeerCloses, PeerResets, LogOK
  <2> QED
    BY <1>0, <2>3, <2>4, <2>5, TypePartsNext
<1>4. CASE UNCHANGED vars
  BY <1>0, <1>4, TypePartsNext DEF vars, ScalarsOK, SocketsOK, LogOK
<1> QED
  BY <1>1, <1>2, <1>3, <1>4, WriterTyped DEF Next, Environment

-----------------------------------------------------------------------------
(* One reader at a time. *)

(* No step but ConnectOk and HandshakeOk starts anything: what OneReader   *)
(* says of the readers stays, as far as the writer does not move on.       *)
LEMMA ReadersKept ==
  ASSUME TypeOK, OneReader, UNCHANGED <<conn, announced, stop, panicAt>>,
         inbox' = inbox, served' = served, wpc' = wpc,
         stopCall' = "ok" => wpc = "done",
         \A k \in Sessions : reader'[k] = reader[k]
                             \/ (~Gone(k) /\ k = conn /\ reader'[k] # "none")
  PROVE  OneReader'
BY DEF OneReader, Gone, TypeOK, Sessions, Open

LEMMA WriterReaders ==
  ASSUME TypeOK, OneReader, Writer
  PROVE  OneReader'
<1>0. ScalarsOK /\ SocketsOK
  BY TypeParts
<1> USE DEF link, peer, out, user
<1>1. CASE ConnectOk
  <2>1. conn' = conn + 1 /\ conn + 1 \in Sessions
    BY <1>0, <1>1 DEF ConnectOk, ScalarsOK, Sessions
  <2>2. \A k \in Sessions : k < conn + 1 => k < conn \/ k = conn
    BY <1>0 DEF ScalarsOK, Sessions
  <2>3. \A k \in Sessions : k < conn + 1 => Gone(k)
    BY <1>0, <1>1, <2>2 DEF ConnectOk, OneReader, ScalarsOK, Sessions
  <2>4. reader[conn + 1] = "none" /\ announced # conn + 1
    BY <1>0, <2>1 DEF OneReader, ScalarsOK
  <2>5. \A k \in Sessions : (k > conn + 1 => reader[k] = "none") /\ inbox[k] <= served
    BY <1>0 DEF OneReader, ScalarsOK, Sessions
  <2>6. /\ wpc' = "handshake" /\ UNCHANGED <<reader, announced, stop, inbox, served, stopCall>>
        /\ ~stop /\ stopCall # "ok"
    BY <1>1 DEF ConnectOk, OneReader
  <2> QED
    BY <1>0, <2>1, <2>3, <2>4, <2>5, <2>6 DEF OneReader, Gone, ScalarsOK, Open
<1>2. CASE HandshakeOk
  <2>1. /\ conn \in Sessions /\ reader' = [reader EXCEPT ![conn] = "reading"]
        /\ announced' = conn /\ wpc = "handshake" /\ wpc' = "run"
        /\ UNCHANGED <<conn, stop, inbox, served, stopCall>>
    BY <1>0, <1>2 DEF HandshakeOk, OneReader, ScalarsOK, Sessions
  <2>2. /\ reader'[conn] = "reading"
        /\ \A k \in Sessions \ {conn} : reader'[k] = reader[k]
    BY <1>0, <2>1 DEF SocketsOK
  <2> QED
    BY <1>0, <2>1, <2>2 DEF OneReader, Gone, ScalarsOK, Sessions
<1>3. CASE ~ConnectOk /\ ~HandshakeOk
  <2>1. UNCHANGED <<conn, announced, reader, inbox, served, stopCall>>
    BY <1>3 DEF Writer, ConnectFails, HandshakeFails, EmitFailed, RunData, RunDataBlocks, BlockedFails, RunBig,
       RunDisconnected, RunStop, Shutdown, ShutdownPanics, Notify, Join, DrainStop,
       DrainData, DrainPanics, DrainTimeout
  <2>2. \A k \in Sessions : Gone(k)' <=> Gone(k)
    BY <2>1 DEF Gone
  <2>3. CASE HandshakeFails \/ EmitFailed
    BY <2>1, <2>2, <2>3 DEF HandshakeFails, EmitFailed, OneReader, Gone, Open
  <2>4. CASE RunData \/ RunDataBlocks \/ BlockedFails \/ RunBig \/ RunDisconnected
             \/ RunStop
    <3>1. /\ wpc \in {"run", "blocked"} /\ wpc' \in {"run", "blocked", "shutdown"}
          /\ panicAt' = panicAt /\ (stop' = stop \/ wpc' = "shutdown")
      BY <2>4 DEF RunData, RunDataBlocks, BlockedFails, RunBig, RunDisconnected, RunStop
    <3> QED
      BY <2>1, <2>2, <3>1 DEF OneReader, Gone, Open
  <2>5. CASE Shutdown \/ ShutdownPanics \/ Notify
    BY <2>1, <2>2, <2>5 DEF Shutdown, ShutdownPanics, Notify, OneReader, Gone, Open
  <2>6. CASE Join
    <3>1. wpc = "join" /\ Gone(conn) /\ stop' = stop /\ panicAt' = panicAt
          /\ wpc' = IF stop THEN "done" ELSE "drain"
      BY <2>6 DEF Join, Gone
    <3> QED
      BY <2>1, <2>2, <3>1 DEF OneReader, Gone, Open
  <2>7. CASE ConnectFails \/ DrainTimeout \/ DrainData \/ DrainStop
    BY <2>1, <2>2, <2>7 DEF ConnectFails, DrainTimeout, DrainData, DrainStop, OneReader, Gone, Open
  <2>8. CASE DrainPanics
    BY <2>1, <2>2, <2>8 DEF DrainPanics, OneReader, Gone, Open
  <2> QED
    BY <1>3, <2>3, <2>4, <2>5, <2>6, <2>7, <2>8 DEF Writer
<1> QED
  BY <1>1, <1>2, <1>3

LEMMA OneReaderStep ==
  ASSUME TypeOK, OneReader, [Next]_vars
  PROVE  OneReader'
<1>0. ScalarsOK /\ SocketsOK
  BY TypeParts
<1> USE DEF link, peer, out, user
<1>1. ASSUME NEW k \in Sessions, Reader(k)
      PROVE  OneReader'
  <2>1. ~Gone(k) /\ reader[k] # "none"
    BY <1>1 DEF Reader, ReadPacket, DeliverPacket, SkipEmpty, ReadEnds, Gone
  <2>2. k = conn
    BY <1>0, <2>1 DEF OneReader, ScalarsOK, Sessions
  <2>3. /\ \A j \in Sessions \ {k} : reader'[j] = reader[j]
        /\ reader'[k] # "none"
    BY <1>0, <1>1 DEF Reader, ReadPacket, DeliverPacket, SkipEmpty, ReadEnds, SocketsOK
  <2>4. /\ UNCHANGED <<conn, announced, stop, panicAt, served, wpc, stopCall>>
        /\ inbox' = inbox \/ (inbox[k] > 0 /\ inbox' = [inbox EXCEPT ![k] = inbox[k] - 1])
    BY <1>1 DEF Reader, ReadPacket, DeliverPacket, SkipEmpty, ReadEnds
  <2>5. \A j \in Sessions : inbox'[j] <= served
    BY <1>0, <2>4 DEF OneReader, SocketsOK, ScalarsOK
  <2>6. wpc \notin {"connect", "drain", "done"} /\ conn # 0
    BY <2>1, <2>2 DEF OneReader, Sessions
  <2> QED
    BY <1>0, <2>1, <2>2, <2>3, <2>4, <2>5, <2>6 DEF OneReader, Gone, ScalarsOK, Open
<1>2. CASE StopJoin \/ OfferData \/ StopSend \/ PeerGreets \/ PeerCloses \/ UNCHANGED vars
  <2>1. UNCHANGED <<conn, announced, stop, panicAt, inbox, served, wpc, reader>>
        /\ (stopCall' = "ok" => wpc = "done")
    BY <1>2 DEF StopJoin, OfferData, StopSend, PeerGreets, PeerCloses, vars, OneReader
  <2> QED
    BY <2>1, ReadersKept
<1>3. CASE PeerSends \/ PeerResets
  <2>1. /\ UNCHANGED <<conn, announced, stop, panicAt, wpc, reader, stopCall>>
        /\ served' \in {served, served + 1}
        /\ \/ inbox' = [inbox EXCEPT ![conn] = inbox[conn] + 1] /\ served' = served + 1
           \/ inbox' = [inbox EXCEPT ![conn] = 0]
    BY <1>3 DEF PeerSends, PeerResets
  <2>2. \A j \in Sessions : inbox'[j] <= served'
    BY <1>0, <2>1 DEF OneReader, SocketsOK, ScalarsOK
  <2> QED
    BY <2>1, <2>2 DEF OneReader, Gone, Open
<1>4. CASE PeerReads
  BY <1>4 DEF PeerReads, OneReader, Gone, Open
<1> QED
  BY <1>1, <1>2, <1>3, <1>4, WriterReaders DEF Next, Environment

-----------------------------------------------------------------------------
(* Without a fault, nothing is left over for the drain loop.               *)

LEMMA FaultyKept ==
  ASSUME TypeOK, [Next]_vars, Faulty
  PROVE  Faulty'
<1>0. SocketsOK /\ failed \in BOOLEAN
  BY TypeParts DEF ScalarsOK
<1> USE DEF link, peer, out, user
<1>1. failed => failed'
  <2>1. CASE Writer
    BY <1>0, <2>1 DEF Writer, ConnectOk, ConnectFails, HandshakeOk, HandshakeFails,
       EmitFailed, RunData, RunDataBlocks, BlockedFails, RunBig, RunDisconnected, RunStop, Shutdown, ShutdownPanics,
       Notify, Join, DrainStop, DrainData, DrainPanics, DrainTimeout
  <2>2. ASSUME NEW k \in Sessions, Reader(k)
        PROVE  failed' = failed
    BY <2>2 DEF Reader, ReadPacket, DeliverPacket, SkipEmpty, ReadEnds
  <2>3. CASE StopJoin \/ Environment \/ UNCHANGED vars
    BY <2>3 DEF StopJoin, Environment, OfferData, StopSend, PeerGreets, PeerSends,
       PeerCloses, PeerResets, PeerReads, vars
  <2> QED
    BY <2>1, <2>2, <2>3 DEF Next
<1>2. \A k \in Sessions : sock[k] = "rst" => sock'[k] = "rst"
  <2>1. CASE Writer
    BY <2>1 DEF Writer, ConnectOk, ConnectFails, HandshakeOk, HandshakeFails,
       EmitFailed, RunData, RunDataBlocks, BlockedFails, RunBig, RunDisconnected, RunStop, Shutdown, ShutdownPanics,
       Notify, Join, DrainStop, DrainData, DrainPanics, DrainTimeout
  <2>2. ASSUME NEW k \in Sessions, Reader(k)
        PROVE  sock' = sock
    BY <2>2 DEF Reader, ReadPacket, DeliverPacket, SkipEmpty, ReadEnds
  <2>3. CASE PeerCloses \/ PeerResets
    BY <1>0, <2>3 DEF PeerCloses, PeerResets, SocketsOK
  <2>4. CASE StopJoin \/ OfferData \/ StopSend \/ PeerGreets \/ PeerSends
             \/ PeerReads \/ UNCHANGED vars
    BY <2>4 DEF StopJoin, OfferData, StopSend, PeerGreets, PeerSends, PeerReads, vars
  <2> QED
    BY <2>1, <2>2, <2>3, <2>4 DEF Next, Environment
<1> QED
  BY <1>1, <1>2 DEF Faulty

(* The Disconnected on the channel, if the writer still reads it.          *)
AtMostOneNotice ==
  \A i \in 1 .. Len(rx) : rx[i] = "Disconnected"
    => \A j \in 1 .. Len(rx) : rx[j] = "Disconnected" => i = j
NoNotice == \A i \in 1 .. Len(rx) : rx[i] # "Disconnected"
InSession == wpc \in {"run", "blocked"}

LEMMA LeftOverParts ==
  NothingLeftOver <=>
    (~Faulty =>
       /\ wpc # "panicked"
       /\ wpc \in {"shutdown", "notify", "join"} /\ ~stop => Gone(conn)
       /\ ~stop => NoNotice \/ (InSession /\ reader[conn] = "exited" /\ AtMostOneNotice))
BY DEF NothingLeftOver, NoNotice, AtMostOneNotice, InSession

LEMMA LeftOverPartsNext ==
  (~Faulty' =>
     /\ wpc' # "panicked"
     /\ wpc' \in {"shutdown", "notify", "join"} /\ ~stop' => Gone(conn)'
     /\ ~stop' => NoNotice' \/ (InSession' /\ reader'[conn'] = "exited"
                                /\ AtMostOneNotice'))
  => NothingLeftOver'
BY DEF NothingLeftOver, NoNotice, AtMostOneNotice, InSession

LEMMA NoticeFrame ==
  ASSUME rx' = rx
  PROVE  (NoNotice' <=> NoNotice) /\ (AtMostOneNotice' <=> AtMostOneNotice)
BY DEF NoNotice, AtMostOneNotice

LEMMA NoticeTaken ==
  ASSUME TypeOK, rx # <<>>, rx' = Tail(rx)
  PROVE  /\ NoNotice => NoNotice'
         /\ AtMostOneNotice => AtMostOneNotice'
         /\ AtMostOneNotice /\ Head(rx) = "Disconnected" => NoNotice'
         /\ NoNotice => Head(rx) # "Disconnected"
<1>0. rx \in Seq(Messages) /\ Len(rx) \in Nat
  BY DEF TypeOK
<1>1. /\ Len(rx') = Len(rx) - 1 /\ Head(rx) = rx[1] /\ Len(rx) >= 1
      /\ \A i \in 1 .. Len(rx') : rx'[i] = rx[i + 1]
  BY <1>0
<1>2. 1 \in 1 .. Len(rx) /\ \A i \in 1 .. Len(rx') : i + 1 \in 1 .. Len(rx) /\ i + 1 # 1
  BY <1>0, <1>1
<1>3. NoNotice => NoNotice' /\ Head(rx) # "Disconnected"
  BY <1>1, <1>2 DEF NoNotice
<1>4. ASSUME AtMostOneNotice, NEW i \in 1 .. Len(rx'), NEW j \in 1 .. Len(rx'),
             rx'[i] = "Disconnected", rx'[j] = "Disconnected"
      PROVE  i = j
  <2>1. i + 1 = j + 1
    BY <1>1, <1>2, <1>4 DEF AtMostOneNotice
  <2> QED
    BY <2>1
<1>5. ASSUME AtMostOneNotice, Head(rx) = "Disconnected", NEW i \in 1 .. Len(rx'),
             rx'[i] = "Disconnected"
      PROVE  FALSE
  <2>1. i + 1 = 1
    BY <1>1, <1>2, <1>5 DEF AtMostOneNotice
  <2> QED
    BY <1>2, <2>1
<1>6. AtMostOneNotice => AtMostOneNotice'
  BY <1>4 DEF AtMostOneNotice
<1>7. AtMostOneNotice /\ Head(rx) = "Disconnected" => NoNotice'
  BY <1>5 DEF NoNotice
<1> QED
  BY <1>3, <1>6, <1>7

LEMMA NoticePut ==
  ASSUME TypeOK, NEW ev \in Messages, rx' = Append(rx, ev)
  PROVE  /\ ev # "Disconnected" => /\ NoNotice => NoNotice'
                                   /\ AtMostOneNotice => AtMostOneNotice'
         /\ NoNotice => AtMostOneNotice'
<1>0. rx \in Seq(Messages) /\ Len(rx) \in Nat
  BY DEF TypeOK
<1>1. /\ Len(rx') = Len(rx) + 1 /\ rx'[Len(rx) + 1] = ev
      /\ \A i \in 1 .. Len(rx) : rx'[i] = rx[i]
  BY <1>0
<1> QED
  BY <1>0, <1>1 DEF NoNotice, AtMostOneNotice

LEMMA WriterLeavesNothing ==
  ASSUME TypeOK, OneReader, NothingLeftOver, Writer, ~Faulty, ~Faulty'
  PROVE  /\ wpc' # "panicked"
         /\ wpc' \in {"shutdown", "notify", "join"} /\ ~stop' => Gone(conn)'
         /\ ~stop' => NoNotice' \/ (InSession' /\ reader'[conn'] = "exited"
                                    /\ AtMostOneNotice')
<1>0. /\ conn \in 0 .. MaxSessions /\ ~failed /\ ~failed'
      /\ \A k \in Sessions : sock[k] # "rst"
      /\ wpc \in {"handshake", "run", "shutdown"} => conn \in Sessions
  BY DEF TypeOK, Faulty, OneReader, Sessions, Open
<1>1. /\ wpc # "panicked"
      /\ wpc \in {"shutdown", "notify", "join"} /\ ~stop => Gone(conn)
      /\ ~stop => NoNotice \/ (InSession /\ reader[conn] = "exited" /\ AtMostOneNotice)
  BY LeftOverParts
<1> USE DEF link, peer, out, user, InSession, Open
<1>2. CASE ConnectOk \/ ConnectFails \/ DrainTimeout
  BY <1>1, <1>2, NoticeFrame DEF ConnectOk, ConnectFails, DrainTimeout
<1>3. CASE HandshakeOk \/ HandshakeFails
  BY <1>1, <1>3, NoticeFrame DEF HandshakeOk, HandshakeFails
<1>4. CASE EmitFailed
  <2>1. conn # 0 /\ reader[conn] = "none"
    BY <1>4 DEF EmitFailed, OneReader
  <2> QED
    BY <1>1, <1>4, <2>1, NoticeFrame DEF EmitFailed, Gone
<1>5. CASE RunData
  <2>1. sock[conn] # "rst" /\ wpc = "run" /\ rx # <<>> /\ rx' = Tail(rx)
    BY <1>0, <1>5 DEF RunData
  <2>2. UNCHANGED <<wpc, stop, reader, conn>>
    BY <1>0, <1>5, <2>1 DEF RunData
  <2> QED
    BY <1>1, <2>1, <2>2, NoticeTaken
<1>6. CASE RunBig \/ RunDataBlocks
  BY <1>1, <1>6, NoticeTaken DEF RunBig, RunDataBlocks
<1>7. CASE RunDisconnected
  <2>1. /\ wpc = "run" /\ wpc' = "shutdown" /\ UNCHANGED <<stop, reader, conn>>
        /\ Head(rx) = "Disconnected" /\ rx # <<>> /\ rx' = Tail(rx) /\ ~stop
    BY <1>7 DEF RunDisconnected, OneReader
  <2>2. reader[conn] = "exited" /\ AtMostOneNotice
    BY <1>1, <2>1, NoticeTaken
  <2> QED
    BY <2>1, <2>2, NoticeTaken DEF Gone
<1>8. CASE RunStop \/ DrainStop
  BY <1>8 DEF RunStop, DrainStop
<1>9. CASE Shutdown \/ Notify \/ Join
  BY <1>1, <1>9, NoticeFrame DEF Shutdown, Notify, Join, Gone
<1>10. CASE ShutdownPanics \/ BlockedFails
  <2>1. conn \in Sessions
    BY <1>0, <1>10 DEF ShutdownPanics, BlockedFails, OneReader, Sessions
  <2> QED
    BY <1>0, <1>10, <2>1 DEF ShutdownPanics, BlockedFails
<1>11. CASE DrainData
  BY <1>1, <1>11, NoticeTaken DEF DrainData
<1>12. CASE DrainPanics
  <2>1. ~stop /\ wpc = "drain" /\ rx # <<>> /\ rx' = Tail(rx) /\ Head(rx) = "Disconnected"
    BY <1>12 DEF DrainPanics, OneReader
  <2> QED
    BY <1>1, <2>1, NoticeTaken
<1> QED
  BY <1>2, <1>3, <1>4, <1>5, <1>6, <1>7, <1>8, <1>9, <1>10, <1>11, <1>12 DEF Writer

LEMMA LeftOverStep ==
  ASSUME TypeOK, OneReader, NothingLeftOver, [Next]_vars
  PROVE  NothingLeftOver'
<1> SUFFICES ASSUME ~Faulty'
             PROVE  /\ wpc' # "panicked"
                    /\ wpc' \in {"shutdown", "notify", "join"} /\ ~stop' => Gone(conn)'
                    /\ ~stop' => NoNotice' \/ (InSession' /\ reader'[conn'] = "exited"
                                               /\ AtMostOneNotice')
  BY LeftOverPartsNext
<1>0. ~Faulty /\ SocketsOK /\ conn \in 0 .. MaxSessions
  BY FaultyKept, TypeParts DEF ScalarsOK
<1>1. /\ wpc # "panicked"
      /\ wpc \in {"shutdown", "notify", "join"} /\ ~stop => Gone(conn)
      /\ ~stop => NoNotice \/ (InSession /\ reader[conn] = "exited" /\ AtMostOneNotice)
  BY <1>0, LeftOverParts
<1> USE DEF link, peer, out, user, InSession, Open
<1>2. ASSUME NEW k \in Sessions, Reader(k)
      PROVE  /\ wpc' # "panicked"
             /\ wpc' \in {"shutdown", "notify", "join"} /\ ~stop' => Gone(conn)'
             /\ ~stop' => NoNotice' \/ (InSession' /\ reader'[conn'] = "exited"
                                        /\ AtMostOneNotice')
  <2>1. /\ UNCHANGED <<wpc, stop, conn>> /\ reader[k] \notin {"none", "exited"}
    BY <1>2 DEF Reader, ReadPacket, DeliverPacket, SkipEmpty, ReadEnds
  <2>2. k = conn /\ wpc \notin {"connect", "drain", "done"}
    BY <1>0, <2>1 DEF OneReader, Gone, Sessions
  <2>3. wpc \notin {"handshake", "failed"}
    BY <2>1, <2>2 DEF OneReader, Sessions
  <2>4. ~stop => InSession /\ NoNotice
    BY <1>1, <2>1, <2>2, <2>3, TypeParts DEF ScalarsOK, Gone
  <2>5. CASE rx' = rx
    BY <1>1, <2>1, <2>4, <2>5, NoticeFrame
  <2>6. CASE ReadEnds(k)
    <3>1. rx' = Append(rx, "Disconnected") /\ reader'[conn] = "exited"
      BY <1>0, <2>2, <2>6 DEF ReadEnds, SocketsOK
    <3> QED
      BY <1>1, <2>1, <2>4, <3>1, NoticePut DEF Messages
  <2> QED
    BY <1>2, <2>5, <2>6 DEF Reader, ReadPacket, DeliverPacket, SkipEmpty
<1>3. CASE OfferData \/ StopSend
  <2>1. UNCHANGED <<wpc, stop, conn, reader>>
    BY <1>3 DEF OfferData, StopSend
  <2>2. rx' = rx \/ \E ev \in {"Data", "Big", "Stop"} : rx' = Append(rx, ev)
    BY <1>3 DEF OfferData, StopSend
  <2> QED
    BY <1>1, <2>1, <2>2, NoticeFrame, NoticePut DEF Messages, Gone
<1>5. CASE PeerReads
  BY <1>1, <1>5, NoticeFrame DEF PeerReads
<1>4. CASE StopJoin \/ PeerGreets \/ PeerSends \/ PeerCloses \/ PeerResets \/ UNCHANGED vars
  <2>1. UNCHANGED <<wpc, stop, conn, reader, rx>>
    BY <1>4 DEF StopJoin, PeerGreets, PeerSends, PeerCloses, PeerResets, PeerReads, vars
  <2> QED
    BY <1>1, <2>1, NoticeFrame DEF Gone
<1> QED
  BY <1>0, <1>2, <1>3, <1>4, <1>5, WriterLeavesNothing DEF Next, Environment

-----------------------------------------------------------------------------
(* Together. *)

LEMMA InitIInv == Init => IInv
<1> SUFFICES ASSUME Init
             PROVE  IInv
  OBVIOUS
<1>1. ScalarsOK
  <2>1. /\ wpc = "connect" /\ conn = 0 /\ greeting = "none" /\ announced = 0
        /\ stopCall = "no" /\ panicAt = "nowhere" /\ offered = 0 /\ served = 0
    BY DEF Init
  <2>2. stop \in BOOLEAN /\ failed \in BOOLEAN
    BY DEF Init
  <2> QED
    BY <2>1, <2>2 DEF ScalarsOK
<1>2. SocketsOK
  BY DEF Init, SocketsOK
<1>3. RxOK /\ LogOK
  BY DEF Init, RxOK, LogOK
<1>4. OneReader
  BY DEF Init, OneReader, Open
<1>5. NothingLeftOver
  <2>1. wpc = "connect" /\ Len(rx) = 0
    BY DEF Init
  <2> QED
    BY <2>1 DEF NothingLeftOver
<1> QED
  BY <1>1, <1>2, <1>3, <1>4, <1>5, TypeParts DEF IInv

LEMMA StepIInv == IInv /\ [Next]_vars => IInv'
BY TypeStep, OneReaderStep, LeftOverStep DEF IInv

(* IInv holds in every state, for any bounds and any of the faults.        *)
THEOREM Invariance == Spec => []IInv
<1> QED
  BY InitIInv, StepIInv, PTL DEF Spec

(* The writer thread panics only after a reset or a failed write: the      *)
(* reader's Disconnected never gets as far as the drain loop.              *)
THEOREM PanicIsFault == Spec => []PanicNeedsFault
<1>1. IInv => PanicNeedsFault
  BY DEF IInv, NothingLeftOver, Faulty, PanicNeedsFault
<1> QED
  BY <1>1, Invariance, PTL

(* Once Transport::stop has returned Ok, no thread takes another step and  *)
(* no event comes.                                                         *)
THEOREM NothingAfterStop == Spec => StopIsFinal
<1> DEFINE A == stopCall = "ok" => UNCHANGED <<log, rx, reader>>
<1>1. ASSUME IInv, [Next]_vars
      PROVE  [A]_vars
  <2> SUFFICES ASSUME stopCall = "ok"
               PROVE  UNCHANGED <<log, rx, reader>>
    OBVIOUS
  <2>1. wpc = "done" /\ conn \in 0 .. MaxSessions
    BY <1>1 DEF IInv, OneReader, TypeOK
  <2>2. ASSUME NEW k \in Sessions
        PROVE  Gone(k)
    <3>1. CASE k > conn
      BY <1>1, <2>1, <3>1 DEF IInv, OneReader, Gone, Open
    <3>2. CASE k < conn
      BY <1>1, <2>1, <3>2 DEF IInv, OneReader
    <3>3. CASE k = conn
      BY <1>1, <2>1, <3>3 DEF IInv, OneReader, Sessions
    <3> QED
      BY <2>1, <3>1, <3>2, <3>3 DEF Sessions
  <2>3. ~Writer
    BY <2>1 DEF Writer, ConnectOk, ConnectFails, HandshakeOk, HandshakeFails,
       EmitFailed, RunData, RunDataBlocks, BlockedFails, RunBig, RunDisconnected, RunStop, Shutdown, ShutdownPanics,
       Notify, Join, DrainStop, DrainData, DrainPanics, DrainTimeout
  <2>4. ASSUME NEW k \in Sessions
        PROVE  ~Reader(k)
    BY <2>2 DEF Reader, ReadPacket, DeliverPacket, SkipEmpty, ReadEnds, Gone
  <2> QED
    BY <1>1, <2>1, <2>3, <2>4 DEF Next, StopJoin, Environment, OfferData, StopSend,
       PeerGreets, PeerSends, PeerCloses, PeerResets, PeerReads, out, vars
<1>2. IInv /\ [Next]_vars => [A]_vars
  BY <1>1
<1> QED
  BY <1>2, Invariance, PTL DEF Spec, StopIsFinal

-----------------------------------------------------------------------------
(* The events follow the protocol.                                         *)

LEMMA PhaseFacts ==
  /\ conn = 0 \/ announced # conn => Phase = "down"
  /\ conn # 0 /\ announced = conn =>
       /\ wpc \in {"run", "blocked", "shutdown", "notify"} => Phase = "up"
       /\ wpc = "join" => Phase = "closing"
       /\ wpc = "panicked" /\ panicAt = "shutdown" => Phase = "up"
       /\ wpc = "panicked" /\ panicAt # "shutdown" => Phase = "down"
       /\ wpc \in {"connect", "handshake", "failed", "drain", "done"} => Phase = "down"
BY DEF Phase

LEMMA PhaseFactsNext ==
  /\ conn' = 0 \/ announced' # conn' => Phase' = "down"
  /\ conn' # 0 /\ announced' = conn' =>
       /\ wpc' \in {"run", "blocked", "shutdown", "notify"} => Phase' = "up"
       /\ wpc' = "join" => Phase' = "closing"
       /\ wpc' = "panicked" /\ panicAt' = "shutdown" => Phase' = "up"
       /\ wpc' = "panicked" /\ panicAt' # "shutdown" => Phase' = "down"
       /\ wpc' \in {"connect", "handshake", "failed", "drain", "done"} => Phase' = "down"
BY DEF Phase

LEMMA InitMaps == Init => Events!Init
BY DEF Init, Events!Init, Phase

LEMMA StepMaps == IInv /\ [Next]_vars => [Events!Next]_(Events!vars)
<1> SUFFICES ASSUME IInv, [Next]_vars
             PROVE  Events!Next \/ UNCHANGED <<Phase, announced, log>>
  BY DEF Events!vars
<1>0. /\ ScalarsOK /\ SocketsOK /\ OneReader
      /\ conn \in 0 .. MaxSessions /\ announced \in 0 .. conn
  BY TypeParts DEF IInv, ScalarsOK
<1> USE DEF link, peer, out, user, Open
<1>1. CASE ConnectOk
  <2>1. conn' = conn + 1 /\ UNCHANGED <<announced, log>> /\ wpc = "connect"
    BY <1>1 DEF ConnectOk
  <2>2. Phase = "down" /\ Phase' = "down"
    BY <1>0, <2>1, PhaseFacts, PhaseFactsNext
  <2> QED
    BY <2>1, <2>2
<1>2. CASE HandshakeOk
  <2>1. /\ wpc = "handshake" /\ announced # conn /\ conn # 0 /\ announced' = conn
        /\ conn' = conn /\ wpc' = "run"
        /\ log' = Append(log, [ev |-> "Connected", session |-> announced'])
    BY <1>0, <1>2 DEF HandshakeOk, OneReader, Emit
  <2>2. Phase = "down" /\ Phase' = "up" /\ announced' > announced /\ announced' \in Nat
    BY <1>0, <2>1, PhaseFacts, PhaseFactsNext
  <2> QED
    BY <2>1, <2>2 DEF Events!Next, Events!Connect, Events!Emit
<1>3. CASE EmitFailed \/ Notify
  <2>1. /\ UNCHANGED <<announced, conn>>
        /\ log' = Append(log, [ev |-> "Disconnected", session |-> announced])
        /\ conn # 0
    BY <1>0, <1>3 DEF EmitFailed, Notify, Emit, OneReader
  <2>2. CASE announced # conn
    <3>1. Phase = "down" /\ Phase' = "down"
      BY <2>1, <2>2, PhaseFacts, PhaseFactsNext
    <3> QED
      BY <2>1, <3>1 DEF Events!Next, Events!FailedAttempt, Events!Emit
  <2>3. CASE announced = conn
    <3>1. wpc = "notify" /\ wpc' = "join"
      BY <1>0, <1>3, <2>3 DEF EmitFailed, Notify, OneReader
    <3>2. Phase = "up" /\ Phase' = "closing"
      BY <2>1, <2>3, <3>1, PhaseFacts, PhaseFactsNext
    <3> QED
      BY <2>1, <3>2 DEF Events!Next, Events!Disconnect, Events!Emit
  <2> QED
    BY <2>2, <2>3
<1>4. CASE Join
  <2>1. /\ UNCHANGED <<announced, conn, log>> /\ conn # 0
        /\ wpc = "join" /\ wpc' \in {"done", "drain"}
    BY <1>0, <1>4 DEF Join, OneReader
  <2>2. \/ Phase = "down" /\ Phase' = "down"
        \/ Phase = "closing" /\ Phase' = "down"
    BY <2>1, PhaseFacts, PhaseFactsNext
  <2> QED
    BY <2>1, <2>2 DEF Events!Next, Events!Settle
<1>5. ASSUME NEW k \in Sessions, DeliverPacket(k)
      PROVE  Events!Next
  <2>1. /\ reader[k] = "holding" /\ UNCHANGED <<announced, conn, wpc, panicAt>>
        /\ log' = Append(log, [ev |-> "Data", session |-> k])
    BY <1>5 DEF DeliverPacket, Emit
  <2>2. k = conn /\ conn # 0 /\ announced = conn
    BY <1>0, <2>1 DEF OneReader, Gone, Sessions
  <2>3. wpc \in {"run", "blocked", "shutdown", "notify", "join"} \/ (wpc = "panicked" /\ panicAt = "shutdown")
    BY <1>0, <2>1, <2>2 DEF OneReader, Gone, ScalarsOK, Open
  <2>4. Phase \in {"up", "closing"} /\ Phase' = Phase
    BY <2>1, <2>2, <2>3, PhaseFacts, PhaseFactsNext
  <2> QED
    BY <2>1, <2>2, <2>4 DEF Events!Next, Events!Deliver, Events!Emit
<1>6. ASSUME UNCHANGED <<announced, conn, log>>,
             \/ wpc' = wpc /\ panicAt' = panicAt
             \/ /\ wpc \in {"run", "blocked", "shutdown"}
                /\ wpc' \in {"run", "blocked", "shutdown", "notify"}
             \/ wpc = "shutdown" /\ wpc' = "panicked" /\ panicAt' = "shutdown"
             \/ /\ wpc \in {"connect", "handshake", "failed", "drain"}
                /\ \/ wpc' \in {"connect", "handshake", "failed", "drain", "done"}
                   \/ wpc' = "panicked" /\ panicAt' = "drain"
      PROVE  UNCHANGED <<Phase, announced, log>>
  <2>1. CASE wpc' = wpc /\ panicAt' = panicAt
    BY <1>6, <2>1 DEF Phase
  <2>2. CASE ~(wpc' = wpc /\ panicAt' = panicAt)
    BY <1>6, <2>2, PhaseFacts, PhaseFactsNext
  <2> QED
    BY <2>1, <2>2
<1>7. CASE Writer /\ ~ConnectOk /\ ~HandshakeOk /\ ~EmitFailed /\ ~Notify /\ ~Join
  <2>1. CASE ConnectFails \/ HandshakeFails \/ DrainStop \/ DrainData \/ DrainPanics
             \/ DrainTimeout
    BY <1>6, <2>1 DEF ConnectFails, HandshakeFails, DrainStop, DrainData, DrainPanics,
       DrainTimeout
  <2>2. CASE RunData \/ RunDataBlocks \/ BlockedFails \/ RunBig \/ RunDisconnected
             \/ RunStop \/ Shutdown \/ ShutdownPanics
    BY <1>6, <2>2 DEF RunData, RunDataBlocks, BlockedFails, RunBig, RunDisconnected, RunStop, Shutdown, ShutdownPanics
  <2> QED
    BY <1>7, <2>1, <2>2 DEF Writer
<1>8. ASSUME NEW k \in Sessions, ReadPacket(k) \/ SkipEmpty(k) \/ ReadEnds(k)
      PROVE  UNCHANGED <<Phase, announced, log>>
  BY <1>6, <1>8 DEF ReadPacket, SkipEmpty, ReadEnds
<1>9. CASE StopJoin \/ Environment \/ UNCHANGED vars
  BY <1>6, <1>9 DEF StopJoin, Environment, OfferData, StopSend, PeerGreets, PeerSends,
     PeerCloses, PeerResets, PeerReads, vars
<1> QED
  BY <1>1, <1>2, <1>3, <1>4, <1>5, <1>7, <1>8, <1>9 DEF Next, Reader

(* The serial-forwarder transport implements the protocol of               *)
(* TransportEvents: all that is proved of its events there holds of this   *)
(* transport's.                                                            *)
THEOREM EventsFollowProtocol == Spec => FollowsProtocol
<1> QED
  BY InitMaps, StepMaps, Invariance, PTL DEF Spec, FollowsProtocol, Events!Spec
=============================================================================
