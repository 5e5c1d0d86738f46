--------------------------- MODULE SerialTransport --------------------------
(***************************************************************************)
(* The serial transport's threads (src/transport/serial/mod.rs), from      *)
(* SerialBuilder::start to their end:                                      *)
(*                                                                         *)
(*  - the writer, thread "serial-write": open the port, the session        *)
(*    (ConnectionWorker::start), stop and join the reader, and the drain   *)
(*    loop until the next attempt;                                         *)
(*  - the reader, thread "serial-read" (SerialWorker::start): read, decode *)
(*    and handle a batch of frames, look for the stop signal, repeat;      *)
(*  - the stopper closure, which sends Stop and joins the writer;          *)
(*  - the environment: dispatchers that send data, frames that come in,    *)
(*    and a port that may go away (a USB adapter pulled) or stall (the     *)
(*    100 ms of set_timeout are a limit for writes too).                   *)
(*                                                                         *)
(* Sequence numbers and retries are in SerialArq; here `unacked` says      *)
(* whether the map of unacknowledged packets holds anything.               *)
(*                                                                         *)
(* Assumed: the owner of the transport keeps TransportHandle.rx until the  *)
(* threads have ended (the sends of events are unwrapped), and a port that *)
(* has just opened can be cloned (so are set_timeout and try_clone).       *)
(***************************************************************************)
EXTENDS Integers, Sequences

CONSTANTS
  MaxData,       (* bound: data events sent to the transport               *)
  MaxFrames,     (* bound: frames that come in                             *)
  MaxBatch,      (* bound: frames decoded from one read                    *)
  Faults         (* "lost": the port goes away; "stall": a write takes     *)
                 (* more than 100 ms; "unknown": a frame of an unknown     *)
                 (* packet type comes in                                   *)

ASSUME BoundsAssumption ==
  MaxData \in Nat /\ MaxFrames \in Nat /\ MaxBatch \in Nat
ASSUME FaultsAssumption == Faults \subseteq {"lost", "stall", "unknown"}

VARIABLES
  wpc,        (* where the writer is                                       *)
  rx,         (* the writer's channel                                      *)
  zero,       (* reconnect_timeout is zero (set_reconnect_timeout)         *)
  opened,     (* sessions so far; ConnectionWorker returns only on Stop    *)
  port,       (* the open port: ok or lost                                 *)
  unacked,    (* waiting_for_ack is not empty                              *)
  reader,     (* where the reader of the session is                        *)
  batch,      (* decoded frames it has not handled yet                     *)
  readStop,   (* read_stop_tx was used                                     *)
  log,        (* events emitted on tx                                      *)
  stopCall,   (* the caller of Transport::stop: no, sent, ok, err          *)
  offered,    (* history: data events sent to the transport                *)
  frames,     (* history: frames that came in                              *)
  timedOut    (* history: a write to the open port timed out               *)

device == <<zero, opened, port, unacked>>
reading == <<reader, batch, readStop>>
user == <<stopCall, offered>>
history == <<frames, timedOut>>
vars == <<wpc, rx, device, reading, log, user, history>>

(* What handle_data tells apart.  "fresh" is an AckPacket whose sequence   *)
(* number is not on cooldown; "quiet" stands for frames that cause no      *)
(* event: acknowledgements, duplicates, malformed and empty frames.        *)
FrameKinds == {"fresh", "noack", "quiet"} \cup (Faults \cap {"unknown"})

Emit(ev) == log' = Append(log, [ev |-> ev, session |-> opened])

TypeOK ==
  /\ wpc \in {"open", "run", "unacked", "halt", "notify", "join", "drain",
              "done", "panicked"}
  /\ rx \in Seq({"Data", "Stop"})
  /\ zero \in BOOLEAN /\ opened \in 0 .. 1
  /\ port \in {"ok", "lost"}
  /\ unacked \in BOOLEAN
  /\ reader \in {"none", "reading", "handling", "check", "exited", "panicked"}
  /\ batch \in Seq(FrameKinds) /\ Len(batch) <= MaxBatch
  /\ readStop \in BOOLEAN
  /\ log \in Seq([ev : {"Connected", "Disconnected", "Data"}, session : 0 .. 1])
  /\ stopCall \in {"no", "sent", "ok", "err"}
  /\ offered \in 0 .. MaxData /\ frames \in 0 .. MaxFrames
  /\ timedOut \in BOOLEAN

Init ==
  /\ zero \in BOOLEAN
  /\ wpc = "open" /\ rx = <<>> /\ opened = 0
  /\ port = "ok" /\ unacked = FALSE
  /\ reader = "none" /\ batch = <<>> /\ readStop = FALSE
  /\ log = <<>> /\ stopCall = "no" /\ offered = 0 /\ frames = 0
  /\ timedOut = FALSE

-----------------------------------------------------------------------------
(* The writer. *)

(* The port opens: Connected is emitted, a fresh map and a fresh stop      *)
(* channel are made, and the reader is spawned.                            *)
OpenOk ==
  /\ wpc = "open"
  /\ opened' = opened + 1
  /\ log' = Append(log, [ev |-> "Connected", session |-> opened + 1])
  /\ port' = "ok" /\ unacked' = FALSE
  /\ reader' = "reading" /\ batch' = <<>> /\ readStop' = FALSE
  /\ wpc' = "run"
  /\ UNCHANGED <<zero, rx, user, history>>

OpenFails ==
  /\ wpc = "open"
  /\ wpc' = "drain"
  /\ UNCHANGED <<rx, device, reading, log, user, history>>

(* write_to_stream(..).unwrap(): the port is gone, or TimedOut. *)
WriteFails ==
  /\ port = "lost" \/ "stall" \in Faults
  /\ wpc' = "panicked"
  /\ timedOut' = (timedOut \/ port = "ok")
  /\ UNCHANGED unacked

(* ConnectionWorker::start: data is written and remembered; then, as after *)
(* a timeout, handle_unacked_data.                                         *)
RunData ==
  /\ wpc = "run" /\ rx # <<>> /\ Head(rx) = "Data"
  /\ rx' = Tail(rx)
  /\ \/ /\ port = "ok"
        /\ unacked' = TRUE /\ wpc' = "unacked"
        /\ UNCHANGED timedOut
     \/ WriteFails
  /\ UNCHANGED <<zero, opened, port, reading, log, user, frames>>

RunTimeout ==
  /\ wpc = "run" /\ rx = <<>>
  /\ wpc' = "unacked"
  /\ UNCHANGED <<rx, device, reading, log, user, history>>

(* handle_unacked_data writes what the map holds; entries go with their    *)
(* Ack or their last retry.                                                *)
HandleUnacked ==
  /\ wpc = "unacked"
  /\ \/ /\ unacked => port = "ok"
        /\ wpc' = "run" /\ unacked' \in {unacked, FALSE}
        /\ UNCHANGED timedOut
     \/ unacked /\ WriteFails
  /\ UNCHANGED <<rx, zero, opened, port, reading, log, user, frames>>

RunStop ==
  /\ wpc = "run" /\ rx # <<>> /\ Head(rx) = "Stop"
  /\ rx' = Tail(rx)
  /\ wpc' = "halt"
  /\ UNCHANGED <<device, reading, log, user, history>>

(* read_stop_tx.send(()).unwrap(): the receiver is gone with its thread.   *)
Halt ==
  /\ wpc = "halt"
  /\ IF reader \in {"exited", "panicked"}
       THEN wpc' = "panicked" /\ UNCHANGED readStop
       ELSE wpc' = "notify" /\ readStop' = TRUE
  /\ UNCHANGED <<rx, device, reader, batch, log, user, history>>

Notify ==
  /\ wpc = "notify"
  /\ Emit("Disconnected")
  /\ wpc' = "join"
  /\ UNCHANGED <<rx, device, reading, user, history>>

(* Mutant: the writer forgets that it was stopped. *)
JoinAndGoOn ==
  /\ wpc = "join" /\ reader \in {"exited", "panicked"}
  /\ wpc' = IF reader = "exited" THEN "drain" ELSE "panicked"
  /\ UNCHANGED <<rx, device, reading, log, user, history>>

(* Mutant: the reader is left to itself. *)
JoinAtOnce ==
  /\ wpc = "join"
  /\ wpc' = IF reader = "panicked" THEN "panicked" ELSE "done"
  /\ UNCHANGED <<rx, device, reading, log, user, history>>

(* read_handle.join().unwrap(); `stop` is true, so both loops end. *)
Join ==
  /\ wpc = "join" /\ reader \in {"exited", "panicked"}
  /\ wpc' = IF reader = "exited" THEN "done" ELSE "panicked"
  /\ UNCHANGED <<rx, device, reading, log, user, history>>

(* The drain loop.  `now >= end` ends it before the channel is read, so    *)
(* with a reconnect timeout of zero it reads nothing.                      *)
DrainStop ==
  /\ wpc = "drain" /\ ~zero /\ rx # <<>> /\ Head(rx) = "Stop"
  /\ rx' = Tail(rx)
  /\ wpc' = "done"
  /\ UNCHANGED <<device, reading, log, user, history>>

DrainData ==
  /\ wpc = "drain" /\ ~zero /\ rx # <<>> /\ Head(rx) = "Data"
  /\ rx' = Tail(rx)
  /\ UNCHANGED <<wpc, device, reading, log, user, history>>

DrainTimeout ==
  /\ wpc = "drain"
  /\ wpc' = "open"
  /\ UNCHANGED <<rx, device, reading, log, user, history>>

Writer ==
  \/ OpenOk \/ OpenFails
  \/ RunData \/ RunTimeout \/ HandleUnacked \/ RunStop
  \/ Halt \/ Notify \/ Join
  \/ DrainStop \/ DrainData \/ DrainTimeout

-----------------------------------------------------------------------------
(* The reader. *)

(* One read: a batch of frames (also none), a timeout, or an error.        *)
ReadBatch ==
  /\ reader = "reading" /\ port = "ok"
  /\ \E n \in 1 .. MaxBatch :
       /\ frames + n <= MaxFrames
       /\ frames' = frames + n
       /\ batch' \in [1 .. n -> FrameKinds]
  /\ reader' = "handling"
  /\ UNCHANGED <<wpc, rx, device, readStop, log, user, timedOut>>

(* Mutant: a read that times out is taken for an error. *)
ReadNothingEnds ==
  /\ reader = "reading" /\ port = "ok"
  /\ reader' = "exited"
  /\ UNCHANGED <<wpc, rx, device, batch, readStop, log, user, history>>

ReadNothing ==
  /\ reader = "reading" /\ port = "ok"
  /\ reader' = "check"
  /\ UNCHANGED <<wpc, rx, device, batch, readStop, log, user, history>>

(* The while loop of start ends on an error, without a word to anyone.     *)
ReadFails ==
  /\ reader = "reading" /\ port = "lost"
  /\ reader' = "exited"
  /\ UNCHANGED <<wpc, rx, device, batch, readStop, log, user, history>>

NextFrame == reader' = IF Len(batch) = 1 THEN "check" ELSE "handling"

(* handle_ack_packet: the Ack goes to the writer, then the data out.  The  *)
(* send to a writer that has panicked is unwrapped.                        *)
HandleFresh ==
  /\ reader = "handling" /\ Head(batch) = "fresh"
  /\ batch' = Tail(batch)
  /\ IF wpc = "panicked"
       THEN reader' = "panicked" /\ UNCHANGED <<rx, log>>
       ELSE /\ rx' = Append(rx, "Data")
            /\ Emit("Data")
            /\ NextFrame
  /\ UNCHANGED <<wpc, device, readStop, user, history>>

(* handle_no_ack_packet *)
HandleNoAck ==
  /\ reader = "handling" /\ Head(batch) = "noack"
  /\ batch' = Tail(batch)
  /\ Emit("Data")
  /\ NextFrame
  /\ UNCHANGED <<wpc, rx, device, readStop, user, history>>

(* An Ack may take the last entry of the map. *)
HandleQuiet ==
  /\ reader = "handling" /\ Head(batch) = "quiet"
  /\ batch' = Tail(batch)
  /\ NextFrame
  /\ unacked' \in {unacked, FALSE}
  /\ UNCHANGED <<wpc, rx, zero, opened, port, readStop, log, user, history>>

HandleUnknown ==
  /\ reader = "handling" /\ Head(batch) = "unknown"
  /\ batch' = Tail(batch)
  /\ reader' = "panicked"
  /\ UNCHANGED <<wpc, rx, device, readStop, log, user, history>>

(* Mutant: the reader does not look for the signal. *)
CheckStopNever ==
  /\ reader = "check"
  /\ reader' = "reading"
  /\ UNCHANGED <<wpc, rx, device, batch, readStop, log, user, history>>

(* stopper.try_recv: the signal, or an empty channel.  (When the writer    *)
(* panicked its end is gone, which is not the signal either.)              *)
CheckStop ==
  /\ reader = "check"
  /\ reader' = IF readStop THEN "exited" ELSE "reading"
  /\ UNCHANGED <<wpc, rx, device, batch, readStop, log, user, history>>

Reader ==
  \/ ReadBatch \/ ReadNothing \/ ReadFails
  \/ HandleFresh \/ HandleNoAck \/ HandleQuiet \/ HandleUnknown
  \/ CheckStop

-----------------------------------------------------------------------------
(* The stopper and the environment. *)

StopSend ==
  /\ stopCall = "no"
  /\ IF wpc = "panicked"
       THEN stopCall' = "err" /\ UNCHANGED rx
       ELSE stopCall' = "sent" /\ rx' = Append(rx, "Stop")
  /\ UNCHANGED <<wpc, device, reading, log, offered, history>>

StopJoin ==
  /\ stopCall = "sent" /\ wpc \in {"done", "panicked"}
  /\ stopCall' = IF wpc = "done" THEN "ok" ELSE "err"
  /\ UNCHANGED <<wpc, rx, device, reading, log, offered, history>>

OfferData ==
  /\ offered < MaxData /\ wpc \notin {"done", "panicked"}
  /\ offered' = offered + 1
  /\ rx' = Append(rx, "Data")
  /\ UNCHANGED <<wpc, device, reading, log, stopCall, history>>

PortLost ==
  /\ "lost" \in Faults
  /\ reader # "none" /\ wpc # "done" /\ port = "ok"
  /\ port' = "lost"
  /\ UNCHANGED <<wpc, rx, zero, opened, unacked, reading, log, user, history>>

Next == Writer \/ Reader \/ StopSend \/ StopJoin \/ OfferData \/ PortLost

Spec == Init /\ [][Next]_vars

(* The threads run, and a receive with time left takes a queued event      *)
(* before it times out.  Nothing is assumed of anyone outside.             *)
FairSpec ==
  /\ Spec
  /\ WF_vars(Writer) /\ SF_vars(DrainStop \/ DrainData)
  /\ WF_vars(Reader)
  /\ WF_vars(StopJoin)

-----------------------------------------------------------------------------
(* What holds whatever happens to the port.                                *)

Reported(k) ==
  \E i \in 1 .. Len(log) : log[i] = [ev |-> "Disconnected", session |-> k]

Phase ==
  IF reader = "none" \/ wpc = "done" THEN "down"
  ELSE IF Reported(opened) THEN "closing" ELSE "up"

Events == INSTANCE TransportEvents WITH phase <- Phase, session <- opened

(* The events follow the protocol every Connection relies on: a reader in  *)
(* the middle of a batch when the writer stops still hands its data out    *)
(* before the transport is done.                                           *)
FollowsProtocol == Events!Spec

(* Transport::stop returns, from wherever the two threads are when Stop    *)
(* comes in and whatever became of the port or the reader - unless the     *)
(* reconnect timeout is zero and the port never opens: then only a session *)
(* would read the channel.                                                 *)
StopReturns ==
  stopCall = "sent" ~> (stopCall \in {"ok", "err"} \/ [](zero /\ opened = 0))

(* Once Transport::stop has returned Ok, no event comes any more: both     *)
(* threads are gone.                                                       *)
StopIsFinal == [][stopCall = "ok" => UNCHANGED <<log, rx, reader>>]_vars

(* Transport::stop fails only when the port is gone, a write to it timed   *)
(* out or the reader has panicked: as long as none of these happens, no    *)
(* order of batches, retries and the stop signal leaves the writer with a  *)
(* reader that is already gone.                                            *)
StopFailsOnlyByFault ==
  stopCall = "err" => port = "lost" \/ timedOut \/ reader = "panicked"

(* Why they hold.  There is one session, and where the writer is says what *)
(* has been told of it;                                                    *)
OneSession ==
  /\ opened = 0 <=> reader = "none"
  /\ wpc \in {"open", "drain"} => reader = "none" /\ log = <<>>
  /\ wpc \notin {"open", "drain", "done"} => reader # "none"
  /\ wpc \in {"run", "unacked", "halt", "notify"} => ~Reported(opened)
  /\ wpc = "join" => Reported(opened)
  /\ wpc = "done" => reader \in {"none", "exited"}

(* and no thread ends but for Stop or a fault.                             *)
EndsHaveReasons ==
  /\ reader = "handling" => batch # <<>>
  /\ readStop => wpc \in {"notify", "join", "done", "panicked"}
  /\ reader = "exited" => port = "lost" \/ readStop
  /\ wpc = "panicked" => port = "lost" \/ timedOut \/ reader = "panicked"
  /\ stopCall = "ok" => wpc = "done"
  /\ stopCall = "err" => wpc = "panicked"

(* With the types, what every step keeps (SerialTransportProofs).          *)
IInv == TypeOK /\ OneSession /\ EndsHaveReasons

-----------------------------------------------------------------------------
(* What the repository says of the transport and the code does not do.     *)

(* lib.rs: Disconnected "signals that the underlying connection has        *)
(* disconnected": the loss of the port is reported (or kills the writer).  *)
LossIsReported ==
  port = "lost" ~> (Reported(opened) \/ wpc = "panicked")
=============================================================================
