----------------------------- MODULE SFTransport ----------------------------
(***************************************************************************)
(* The serial-forwarder transport (src/transport/serialforwarder.rs), from *)
(* SFBuilder::start to the end of its threads:                             *)
(*                                                                         *)
(*  - the writer, thread "sf-write": connect, do_handshake, the session    *)
(*    (ConnectionWorker::start), shutdown, join of the reader, and the     *)
(*    drain loop until the next attempt;                                   *)
(*  - one reader per session, thread "sf-read" (TcpWorker::start), which   *)
(*    puts Disconnected on the writer's own channel when its stream ends;  *)
(*  - the stopper closure, which sends Stop and joins the writer;          *)
(*  - the environment: dispatchers that send data, and the peer, which may *)
(*    greet or not, send, close, reset the connection, or stop reading     *)
(*    (the stream has no write timeout: write_all then waits).             *)
(*                                                                         *)
(* Sessions are numbered by the sockets that connect returned.  `log` is   *)
(* the stream of events the transport emits (TransportEvents.log).         *)
(*                                                                         *)
(* Assumed: the owner of the transport keeps TransportHandle.rx, the       *)
(* receiver of these events, until the threads have ended.  The sends of   *)
(* lines 64, 68, 98 and 181 are unwrapped and would panic the thread that  *)
(* emits once that receiver is gone.                                       *)
(***************************************************************************)
EXTENDS Integers, Sequences

CONSTANTS
  MaxSessions,   (* bound: connections that succeed in a behaviour         *)
  MaxData,       (* bound: data events sent to the transport               *)
  MaxPackets,    (* bound: packets the peer sends in a behaviour           *)
  Faults         (* what may go wrong besides peers closing connections:   *)
                 (* "reset": the peer resets (RST); "write": a write fails *)
                 (* although the connection is not reset; "stall": the     *)
                 (* peer does not read, and a write does not end           *)

ASSUME BoundsAssumption ==
  MaxSessions \in Nat /\ MaxData \in Nat /\ MaxPackets \in Nat
ASSUME FaultsAssumption == Faults \subseteq {"reset", "write", "stall"}

Sessions == 1 .. MaxSessions

VARIABLES
  wpc,        (* where the writer is                                       *)
  stop,       (* its local `stop`                                          *)
  rx,         (* tcp_rx                                                    *)
  conn,       (* the current socket, 0 before the first                    *)
  sock,       (* what the peer did to each socket: up, fin, rst            *)
  greeting,   (* the peer's handshake bytes on the current socket          *)
  inbox,      (* packets in each socket's receive buffer                   *)
  shut,       (* sockets shut down by stream.shutdown                      *)
  reader,     (* state of each session's reader                            *)
  announced,  (* the last session for which Connected was emitted          *)
  log,        (* events emitted on tcp_tx                                  *)
  stopCall,   (* the caller of Transport::stop: no, sent, ok, err          *)
  panicAt,    (* where the writer panicked                                 *)
  offered,    (* history: data events sent to the transport                *)
  served,     (* history: packets sent by the peer                         *)
  failed      (* history: a write failed on a connection not reset         *)

peer == <<sock, greeting, inbox>>
link == <<conn, peer, shut>>
out == <<announced, log>>
user == <<stopCall, offered, served, failed>>
vars == <<wpc, stop, rx, link, reader, out, panicAt, user>>

Emit(ev, k) == log' = Append(log, [ev |-> ev, session |-> k])

(* What a user of the transport knows from its events.                     *)
Reported(k) ==
  \E i \in 1 .. Len(log) : log[i] = [ev |-> "Disconnected", session |-> k]

Messages == {"Data", "Big", "Stop", "Disconnected"}

TypeOK ==
  /\ wpc \in {"connect", "handshake", "failed", "run", "blocked", "shutdown",
              "notify", "join", "drain", "done", "panicked"}
  /\ stop \in BOOLEAN
  /\ rx \in Seq(Messages)
  /\ conn \in 0 .. MaxSessions
  /\ sock \in [Sessions -> {"up", "fin", "rst"}]
  /\ greeting \in {"none", "good", "bad"}
  /\ inbox \in [Sessions -> 0 .. MaxPackets]
  /\ shut \subseteq Sessions
  /\ reader \in [Sessions -> {"none", "reading", "holding", "exited"}]
  /\ announced \in 0 .. conn
  /\ log \in Seq([ev : {"Connected", "Disconnected", "Data"},
                  session : 0 .. MaxSessions])
  /\ stopCall \in {"no", "sent", "ok", "err"}
  /\ panicAt \in {"nowhere", "shutdown", "drain"}
  /\ offered \in 0 .. MaxData
  /\ served \in 0 .. MaxPackets
  /\ failed \in BOOLEAN

Init ==
  /\ wpc = "connect" /\ stop = FALSE /\ rx = <<>> /\ conn = 0
  /\ sock = [k \in Sessions |-> "up"]
  /\ greeting = "none"
  /\ inbox = [k \in Sessions |-> 0]
  /\ shut = {}
  /\ reader = [k \in Sessions |-> "none"]
  /\ announced = 0 /\ log = <<>>
  /\ stopCall = "no" /\ panicAt = "nowhere"
  /\ offered = 0 /\ served = 0 /\ failed = FALSE

-----------------------------------------------------------------------------
(* The writer. *)

(* TcpStream::connect *)
ConnectOk ==
  /\ wpc = "connect" /\ conn < MaxSessions
  /\ conn' = conn + 1
  /\ greeting' = "none"
  /\ wpc' = "handshake"
  /\ UNCHANGED <<stop, rx, sock, inbox, shut, reader, out, panicAt, user>>

ConnectFails ==
  /\ wpc = "connect"
  /\ wpc' = "drain"
  /\ UNCHANGED <<stop, rx, link, reader, out, panicAt, user>>

(* do_handshake reads the two bytes and answers; Connected is emitted and  *)
(* the reader spawned.                                                     *)
HandshakeOk ==
  /\ wpc = "handshake"
  /\ greeting = "good" /\ sock[conn] # "rst"
  /\ announced' = conn
  /\ Emit("Connected", conn)
  /\ reader' = [reader EXCEPT ![conn] = "reading"]
  /\ wpc' = "run"
  /\ UNCHANGED <<stop, rx, link, panicAt, user>>

(* Wrong or too few bytes, end of stream, an error, or an answer that does *)
(* not go out.  The read has no timeout: while the peer is silent neither  *)
(* action is enabled.                                                      *)
HandshakeFails ==
  /\ wpc = "handshake"
  /\ \/ /\ \/ greeting = "bad"
           \/ greeting = "none" /\ sock[conn] = "fin"
           \/ sock[conn] = "rst"
        /\ UNCHANGED failed
     \/ greeting = "good" /\ "write" \in Faults /\ failed' = TRUE
  /\ wpc' = "failed"
  /\ UNCHANGED <<stop, rx, link, reader, out, panicAt, stopCall, offered,
                 served>>

EmitFailed ==
  /\ wpc = "failed"
  /\ Emit("Disconnected", announced)
  /\ wpc' = "shutdown"
  /\ UNCHANGED <<stop, rx, link, reader, announced, panicAt, user>>

(* ConnectionWorker::start, one event.  write_all sends the data or fails, *)
RunData ==
  /\ wpc = "run" /\ rx # <<>> /\ Head(rx) = "Data"
  /\ rx' = Tail(rx)
  /\ \/ /\ sock[conn] # "rst"
        /\ UNCHANGED <<wpc, failed>>
     \/ /\ sock[conn] = "rst" \/ "write" \in Faults
        /\ wpc' = "shutdown"
        /\ failed' = (failed \/ sock[conn] # "rst")
  /\ UNCHANGED <<stop, link, reader, out, panicAt, stopCall, offered, served>>

(* or it waits: the buffers are full and the peer does not read. *)
RunDataBlocks ==
  /\ wpc = "run" /\ rx # <<>> /\ Head(rx) = "Data"
  /\ "stall" \in Faults /\ sock[conn] # "rst"
  /\ rx' = Tail(rx)
  /\ wpc' = "blocked"
  /\ UNCHANGED <<stop, link, reader, out, panicAt, user>>

(* A reset ends the wait, and the session with it. *)
BlockedFails ==
  /\ wpc = "blocked" /\ sock[conn] = "rst"
  /\ wpc' = "shutdown"
  /\ UNCHANGED <<stop, rx, link, reader, out, panicAt, user>>

(* Mutant: InvalidData ends the session like any other error. *)
RunBigEnds ==
  /\ wpc = "run" /\ rx # <<>> /\ Head(rx) = "Big"
  /\ rx' = Tail(rx)
  /\ wpc' = "shutdown"
  /\ UNCHANGED <<stop, link, reader, out, panicAt, user>>

(* More than 255 bytes: the packet is ignored. *)
RunBig ==
  /\ wpc = "run" /\ rx # <<>> /\ Head(rx) = "Big"
  /\ rx' = Tail(rx)
  /\ UNCHANGED <<wpc, stop, link, reader, out, panicAt, user>>

RunDisconnected ==
  /\ wpc = "run" /\ rx # <<>> /\ Head(rx) = "Disconnected"
  /\ rx' = Tail(rx)
  /\ wpc' = "shutdown"
  /\ UNCHANGED <<stop, link, reader, out, panicAt, user>>

RunStop ==
  /\ wpc = "run" /\ rx # <<>> /\ Head(rx) = "Stop"
  /\ rx' = Tail(rx)
  /\ stop' = TRUE
  /\ wpc' = "shutdown"
  /\ UNCHANGED <<link, reader, out, panicAt, user>>

(* stream.shutdown(Both).unwrap(): a connection the peer has reset is no   *)
(* longer connected, and shutdown answers ENOTCONN.                        *)
Shutdown ==
  /\ wpc = "shutdown" /\ sock[conn] # "rst"
  /\ shut' = shut \cup {conn}
  /\ wpc' = "notify"
  /\ UNCHANGED <<stop, rx, conn, peer, reader, out, panicAt, user>>

ShutdownPanics ==
  /\ wpc = "shutdown" /\ sock[conn] = "rst"
  /\ wpc' = "panicked" /\ panicAt' = "shutdown"
  /\ UNCHANGED <<stop, rx, link, reader, out, user>>

Notify ==
  /\ wpc = "notify"
  /\ Emit("Disconnected", announced)
  /\ wpc' = "join"
  /\ UNCHANGED <<stop, rx, link, reader, announced, panicAt, user>>

(* Mutant: the reader is left to itself. *)
JoinAtOnce ==
  /\ wpc = "join"
  /\ wpc' = IF stop THEN "done" ELSE "drain"
  /\ UNCHANGED <<stop, rx, link, reader, out, panicAt, user>>

Join ==
  /\ wpc = "join" /\ reader[conn] \in {"none", "exited"}
  /\ wpc' = IF stop THEN "done" ELSE "drain"
  /\ UNCHANGED <<stop, rx, link, reader, out, panicAt, user>>

(* Mutant: the drain loop drops Stop like data. *)
DrainStopDropped ==
  /\ wpc = "drain" /\ rx # <<>> /\ Head(rx) = "Stop"
  /\ rx' = Tail(rx)
  /\ UNCHANGED <<wpc, stop, link, reader, out, panicAt, user>>

(* The drain loop, one event. *)
DrainStop ==
  /\ wpc = "drain" /\ rx # <<>> /\ Head(rx) = "Stop"
  /\ rx' = Tail(rx)
  /\ stop' = TRUE /\ wpc' = "done"
  /\ UNCHANGED <<link, reader, out, panicAt, user>>

DrainData ==
  /\ wpc = "drain" /\ rx # <<>> /\ Head(rx) \in {"Data", "Big"}
  /\ rx' = Tail(rx)
  /\ UNCHANGED <<wpc, stop, link, reader, out, panicAt, user>>

DrainPanics ==
  /\ wpc = "drain" /\ rx # <<>> /\ Head(rx) = "Disconnected"
  /\ rx' = Tail(rx)
  /\ wpc' = "panicked" /\ panicAt' = "drain"
  /\ UNCHANGED <<stop, link, reader, out, user>>

(* now > end, checked before the channel is read. *)
DrainTimeout ==
  /\ wpc = "drain"
  /\ wpc' = "connect"
  /\ UNCHANGED <<stop, rx, link, reader, out, panicAt, user>>

Writer ==
  \/ ConnectOk \/ ConnectFails \/ HandshakeOk \/ HandshakeFails \/ EmitFailed
  \/ RunData \/ RunDataBlocks \/ BlockedFails \/ RunBig \/ RunDisconnected \/ RunStop
  \/ Shutdown \/ ShutdownPanics \/ Notify \/ Join
  \/ DrainStop \/ DrainData \/ DrainPanics \/ DrainTimeout

-----------------------------------------------------------------------------
(* The reader of session k. *)

(* read_from_stream returns a packet. *)
ReadPacket(k) ==
  /\ reader[k] = "reading" /\ inbox[k] > 0
  /\ inbox' = [inbox EXCEPT ![k] = @ - 1]
  /\ reader' = [reader EXCEPT ![k] = "holding"]
  /\ UNCHANGED <<wpc, stop, rx, conn, sock, greeting, shut, out, panicAt,
                 user>>

(* ... and hands it on, unless it is empty. *)
DeliverPacket(k) ==
  /\ reader[k] = "holding"
  /\ Emit("Data", k)
  /\ reader' = [reader EXCEPT ![k] = "reading"]
  /\ UNCHANGED <<wpc, stop, rx, link, announced, panicAt, user>>

SkipEmpty(k) ==
  /\ reader[k] = "holding"
  /\ reader' = [reader EXCEPT ![k] = "reading"]
  /\ UNCHANGED <<wpc, stop, rx, link, out, panicAt, user>>

(* Mutant: the reader ends without telling the writer. *)
ReadEndsSilently(k) ==
  /\ reader[k] = "reading" /\ inbox[k] = 0
  /\ sock[k] \in {"fin", "rst"} \/ k \in shut
  /\ reader' = [reader EXCEPT ![k] = "exited"]
  /\ UNCHANGED <<wpc, stop, rx, link, out, panicAt, user>>

(* The end of the stream or an error, also within a packet. *)
ReadEnds(k) ==
  /\ reader[k] = "reading" /\ inbox[k] = 0
  /\ sock[k] \in {"fin", "rst"} \/ k \in shut
  /\ rx' = Append(rx, "Disconnected")
  /\ reader' = [reader EXCEPT ![k] = "exited"]
  /\ UNCHANGED <<wpc, stop, link, out, panicAt, user>>

Reader(k) == ReadPacket(k) \/ DeliverPacket(k) \/ SkipEmpty(k) \/ ReadEnds(k)

-----------------------------------------------------------------------------
(* The stopper. *)

StopSend ==
  /\ stopCall = "no"
  /\ IF wpc = "panicked"
       THEN stopCall' = "err" /\ UNCHANGED rx
       ELSE stopCall' = "sent" /\ rx' = Append(rx, "Stop")
  /\ UNCHANGED <<wpc, stop, link, reader, out, panicAt, offered, served,
                 failed>>

StopJoin ==
  /\ stopCall = "sent" /\ wpc \in {"done", "panicked"}
  /\ stopCall' = IF wpc = "done" THEN "ok" ELSE "err"
  /\ UNCHANGED <<wpc, stop, rx, link, reader, out, panicAt, offered, served,
                 failed>>

-----------------------------------------------------------------------------
(* The environment. *)

OfferData ==
  /\ offered < MaxData /\ wpc \notin {"done", "panicked"}
  /\ offered' = offered + 1
  /\ \E ev \in {"Data", "Big"} : rx' = Append(rx, ev)
  /\ UNCHANGED <<wpc, stop, link, reader, out, panicAt, stopCall, served,
                 failed>>

(* The current socket is in use. *)
Open ==
  wpc \in {"handshake", "failed", "run", "blocked", "shutdown", "notify", "join"}

PeerGreets ==
  /\ wpc = "handshake" /\ greeting = "none" /\ sock[conn] = "up"
  /\ greeting' \in {"good", "bad"}
  /\ UNCHANGED <<wpc, stop, rx, conn, sock, inbox, shut, reader, out, panicAt,
                 user>>

PeerSends ==
  /\ Open /\ greeting = "good" /\ sock[conn] = "up"
  /\ served < MaxPackets
  /\ served' = served + 1
  /\ inbox' = [inbox EXCEPT ![conn] = @ + 1]
  /\ UNCHANGED <<wpc, stop, rx, conn, sock, greeting, shut, reader, out,
                 panicAt, stopCall, offered, failed>>

PeerCloses ==
  /\ Open /\ sock[conn] = "up"
  /\ sock' = [sock EXCEPT ![conn] = "fin"]
  /\ UNCHANGED <<wpc, stop, rx, conn, greeting, inbox, shut, reader, out,
                 panicAt, user>>

(* A reset discards what was not read yet. *)
PeerResets ==
  /\ "reset" \in Faults
  /\ Open /\ sock[conn] # "rst"
  /\ sock' = [sock EXCEPT ![conn] = "rst"]
  /\ inbox' = [inbox EXCEPT ![conn] = 0]
  /\ UNCHANGED <<wpc, stop, rx, conn, greeting, shut, reader, out, panicAt,
                 user>>

(* The peer reads again, and the write that waits goes out. *)
PeerReads ==
  /\ wpc = "blocked" /\ sock[conn] # "rst"
  /\ wpc' = "run"
  /\ UNCHANGED <<stop, rx, link, reader, out, panicAt, user>>

Environment ==
  \/ OfferData \/ StopSend
  \/ PeerGreets \/ PeerSends \/ PeerCloses \/ PeerResets \/ PeerReads

-----------------------------------------------------------------------------
Next == Writer \/ (\E k \in Sessions : Reader(k)) \/ StopJoin \/ Environment

Spec == Init /\ [][Next]_vars

(* The threads run, and a receive with time left takes a queued event      *)
(* before it times out: the drain loop does not time out for ever.         *)
(* Nothing is assumed of dispatchers, peers or the user: a peer need not   *)
(* greet, and one that has stopped reading need not read again.            *)
FairSpec ==
  /\ Spec
  /\ WF_vars(Writer) /\ SF_vars(DrainStop \/ DrainData \/ DrainPanics)
  /\ \A k \in Sessions : WF_vars(Reader(k))
  /\ WF_vars(StopJoin)

-----------------------------------------------------------------------------
(* What holds for every peer.                                              *)

Phase ==
  IF conn = 0 \/ announced # conn THEN "down"
  ELSE IF wpc \in {"run", "blocked", "shutdown", "notify"}
          \/ (wpc = "panicked" /\ panicAt = "shutdown") THEN "up"
  ELSE IF wpc = "join" THEN "closing" ELSE "down"

Events == INSTANCE TransportEvents WITH phase <- Phase, session <- announced

(* The events follow the protocol every Connection relies on: data never   *)
(* comes after the Connected of a later session, since the writer joins a  *)
(* session's reader before it connects again, and two Connected have a     *)
(* Disconnected between them (SessionsIsolated and SessionsAlternate of    *)
(* ConnectionProofs).                                                      *)
FollowsProtocol == Events!Spec

(* When the peer ends the connection, the user gets Disconnected, although *)
(* the writer waits on its channel without a timeout and only the reader   *)
(* sees the end of the stream - or the writer has panicked, or waits for   *)
(* ever in the write to a peer that ended its half of the stream and does  *)
(* not read.                                                               *)
LossIsReported ==
  \A k \in Sessions :
    wpc = "run" /\ conn = k /\ sock[k] # "up"
      ~> (Reported(k) \/ wpc = "panicked" \/ [](wpc = "blocked"))

(* Once Transport::stop has returned Ok, no event comes any more.          *)
StopIsFinal == [][stopCall = "ok" => UNCHANGED <<log, rx, reader>>]_vars

(* The two waits without a timeout: do_handshake waits for a peer that     *)
(* says nothing, write_all for one that does not read.                     *)
Hung ==
  \/ wpc = "handshake" /\ greeting = "none" /\ sock[conn] = "up"
  \/ wpc = "blocked" /\ sock[conn] # "rst"

(* Transport::stop returns, from wherever the writer is when Stop comes in,*)
(* unless a peer accepts the connection and stays silent for ever, or      *)
(* stops reading for ever while a write is due.                            *)
StopReturnsUnlessHung ==
  stopCall = "sent" ~> (stopCall \in {"ok", "err"} \/ []Hung)

(* A peer that closes, at any moment and with any timing of the two        *)
(* threads, is survived: the reader's Disconnected always reaches the      *)
(* session it is about and is never left for the drain loop, which panics  *)
(* on it.  Only a reset or a failed write can end the writer thread.       *)
PanicNeedsFault ==
  wpc = "panicked" => failed \/ \E k \in Sessions : sock[k] = "rst"

(* Why they hold.  Only the reader of the current socket can be alive, and *)
(* only after Connected and until the writer has joined it;                *)
Gone(k) == reader[k] \in {"none", "exited"}
OneReader ==
  /\ \A k \in Sessions :
       /\ k > conn => reader[k] = "none"
       /\ k < conn => Gone(k)
       /\ inbox[k] <= served
  /\ Open => conn # 0
  /\ conn # 0 => (reader[conn] = "none" <=> announced # conn)
  /\ wpc \in {"run", "blocked"} => announced = conn
  /\ wpc \in {"handshake", "failed"} => announced # conn
  /\ conn # 0 /\ wpc \in {"connect", "drain", "done"} => Gone(conn)
  /\ wpc = "panicked" /\ conn # 0 =>
       panicAt = "shutdown" \/ (panicAt = "drain" /\ Gone(conn))
  /\ stop => wpc \in {"shutdown", "notify", "join", "done", "panicked"}
  /\ stopCall = "ok" => wpc = "done"

(* and, as long as nothing fails, the Disconnected of a reader is on the   *)
(* channel only while its session runs, or when the writer reads no more.  *)
Faulty == failed \/ \E k \in Sessions : sock[k] = "rst"
NothingLeftOver ==
  ~Faulty =>
    /\ wpc # "panicked"
    /\ wpc \in {"shutdown", "notify", "join"} /\ ~stop => Gone(conn)
    /\ ~stop => \A i \in 1 .. Len(rx) :
         rx[i] = "Disconnected"
         => /\ wpc \in {"run", "blocked"} /\ reader[conn] = "exited"
            /\ \A j \in 1 .. Len(rx) : rx[j] = "Disconnected" => i = j

(* With the types, what every step keeps (SFTransportProofs).              *)
IInv == TypeOK /\ OneReader /\ NothingLeftOver

-----------------------------------------------------------------------------
(* What the repository says of the transport and the code does not do.     *)

(* connection.rs: "manages a persistent connection": the writer survives   *)
(* the loss of a connection.                                               *)
NoPanicOnShutdown == panicAt # "shutdown"
=============================================================================
