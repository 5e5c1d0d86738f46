----------------------------- MODULE SerialArq ------------------------------
(***************************************************************************)
(* Acknowledged sending on one open serial port (src/transport/serial/     *)
(* mod.rs).  Two threads of one session share the map waiting_for_ack:     *)
(*                                                                         *)
(*  - the writer, ConnectionWorker::start on thread "serial-write", takes  *)
(*    events off its channel, writes an AckPacket, remembers it in the map *)
(*    with 3 retries, and after every event and every receive timeout      *)
(*    rewrites whatever the map still holds;                               *)
(*  - the reader, SerialWorker on thread "serial-read", removes an entry   *)
(*    when the Ack with its sequence number comes in (handle_ack).         *)
(*                                                                         *)
(* A packet is its ordinal 1, 2, ... in the order the writer took it off   *)
(* the channel; its bytes do not matter here.  The wire and the peer are   *)
(* the environment: an Ack for a packet may come at any time after a copy  *)
(* of the packet went out, never, or several times.                        *)
(***************************************************************************)
EXTENDS Integers, Sequences, FiniteSets

CONSTANTS
  SeqMod,    (* number of sequence numbers; seq_num is a u8, so 256        *)
  AckLag,    (* an Ack comes in before this many later packets were sent   *)
  MaxData,   (* bound: data events put on the channel in a behaviour       *)
  MaxQueue   (* bound: events on the channel at any time                   *)

ASSUME SeqModAssumption == SeqMod \in Nat /\ SeqMod >= 3
ASSUME AckLagAssumption == AckLag \in Nat /\ AckLag < SeqMod
ASSUME BoundsAssumption == MaxData \in Nat /\ MaxQueue \in Nat

VARIABLES
  rx,        (* channel to the writer: "Data" and "Stop" events            *)
  wpc,       (* where the writer is in its loop                            *)
  seqNum,    (* ConnectionWorker.seq_num                                   *)
  waiting,   (* waiting_for_ack: sequence number -> retries left, packet   *)
  resend,    (* handle_unacked_data's local `writes`                       *)
  offered,   (* history: data events put on the channel                    *)
  seqOf,     (* history: seqOf[p] is the sequence number of packet p       *)
  copies,    (* history: copies[p] is how often packet p was written       *)
  acked      (* history: packets for which the reader handled an Ack       *)

vars == <<rx, wpc, seqNum, waiting, resend, offered, seqOf, copies, acked>>

SeqNums == 0 .. SeqMod - 1
Retries == 3
Packets == 1 .. Len(seqOf)
Sent == Len(seqOf)

Inflight == {waiting[s].pkt : s \in DOMAIN waiting}

TypeOK ==
  /\ rx \in Seq({"Data", "Stop"})
  /\ wpc \in {"recv", "mark", "unacked", "resend", "stopped", "panicked"}
  /\ seqNum \in SeqNums
  /\ DOMAIN waiting \subseteq SeqNums
  /\ \A s \in DOMAIN waiting :
        waiting[s] \in [retries : 1 .. Retries, pkt : Packets]
  /\ resend \subseteq Packets
  /\ offered \in 0 .. MaxData
  /\ seqOf \in Seq(SeqNums)
  /\ copies \in Seq(1 .. Retries + 1)
  /\ Len(copies) = Sent
  /\ acked \subseteq Packets

(* ConnectionWorker::new: first sequence number 0, an empty map. *)
Init ==
  /\ rx = <<>>
  /\ wpc = "recv"
  /\ seqNum = 0
  /\ waiting = <<>>
  /\ resend = {}
  /\ offered = 0
  /\ seqOf = <<>>
  /\ copies = <<>>
  /\ acked = {}

-----------------------------------------------------------------------------
(* The channel's senders: dispatcher workers, the reader's loopback of     *)
(* acknowledgements, and the stopper closure of the transport.             *)

OfferData ==
  /\ offered < MaxData
  /\ Len(rx) < MaxQueue
  /\ rx' = Append(rx, "Data")
  /\ offered' = offered + 1
  /\ UNCHANGED <<wpc, seqNum, waiting, resend, seqOf, copies, acked>>

OfferStop ==
  /\ Len(rx) < MaxQueue
  /\ rx' = Append(rx, "Stop")
  /\ UNCHANGED <<wpc, seqNum, waiting, resend, offered, seqOf, copies, acked>>

-----------------------------------------------------------------------------
(* The writer thread. *)

(* recv_timeout yields data; handle_data builds the AckPacket and writes   *)
(* it, before the packet is in the map.                                    *)
RecvData ==
  /\ wpc = "recv"
  /\ rx # <<>> /\ Head(rx) = "Data"
  /\ rx' = Tail(rx)
  /\ seqOf' = Append(seqOf, seqNum)
  /\ copies' = Append(copies, 1)
  /\ wpc' = "mark"
  /\ UNCHANGED <<seqNum, waiting, resend, offered, acked>>

(* The same when write_all fails: handle_data unwraps the error. *)
RecvDataWriteFails ==
  /\ wpc = "recv"
  /\ rx # <<>> /\ Head(rx) = "Data"
  /\ rx' = Tail(rx)
  /\ wpc' = "panicked"
  /\ UNCHANGED <<seqNum, waiting, resend, offered, seqOf, copies, acked>>

(* Mutant: bump_seq_num that saturates instead of wrapping. *)
BumpSaturating(n) == IF n < SeqMod - 1 THEN n + 1 ELSE n

(* bump_seq_num *)
Bump(n) == IF n < SeqMod - 1 THEN n + 1 ELSE 0

(* mark_as_waiting_for_ack: HashMap::insert, under the lock. *)
Insert(m, s, p) ==
  [t \in DOMAIN m \cup {s} |->
     IF t = s THEN [retries |-> Retries, pkt |-> p] ELSE m[t]]

(* Mutant: handle_unacked_data runs on timeouts only. *)
MarkWaitingThenRecv ==
  /\ wpc = "mark"
  /\ waiting' = Insert(waiting, seqNum, Sent)
  /\ seqNum' = Bump(seqNum)
  /\ wpc' = "recv"
  /\ UNCHANGED <<rx, resend, offered, seqOf, copies, acked>>

MarkWaiting ==
  /\ wpc = "mark"
  /\ waiting' = Insert(waiting, seqNum, Sent)
  /\ seqNum' = Bump(seqNum)
  /\ wpc' = "unacked"
  /\ UNCHANGED <<rx, resend, offered, seqOf, copies, acked>>

(* Mutant: a timeout goes back to receiving at once. *)
RecvTimeoutIdle ==
  /\ wpc = "recv"
  /\ rx = <<>>
  /\ wpc' = "recv"
  /\ UNCHANGED <<rx, seqNum, waiting, resend, offered, seqOf, copies, acked>>

(* recv_timeout ran out of time on an empty channel. *)
RecvTimeout ==
  /\ wpc = "recv"
  /\ rx = <<>>
  /\ wpc' = "unacked"
  /\ UNCHANGED <<rx, seqNum, waiting, resend, offered, seqOf, copies, acked>>

(* Mutant: Stop is dropped. *)
RecvStopDropped ==
  /\ wpc = "recv"
  /\ rx # <<>> /\ Head(rx) = "Stop"
  /\ rx' = Tail(rx)
  /\ UNCHANGED <<wpc, seqNum, waiting, resend, offered, seqOf, copies, acked>>

RecvStop ==
  /\ wpc = "recv"
  /\ rx # <<>> /\ Head(rx) = "Stop"
  /\ rx' = Tail(rx)
  /\ wpc' = "stopped"
  /\ UNCHANGED <<seqNum, waiting, resend, offered, seqOf, copies, acked>>

(* Mutant: entries go one countdown early. *)
CountDownEarly(m) ==
  [s \in {t \in DOMAIN m : m[t].retries > 2} |->
     [m[s] EXCEPT !.retries = @ - 1]]

(* handle_unacked_data, the block that holds the lock: every entry loses a *)
(* retry and is copied into `writes`; entries that reach 0 are removed.    *)
CountDown(m) ==
  [s \in {t \in DOMAIN m : m[t].retries > 1} |->
     [m[s] EXCEPT !.retries = @ - 1]]

(* Mutant: acknowledged packets are not taken out of the retry round. *)
HandleUnackedOfAcked ==
  /\ wpc = "unacked"
  /\ resend' = Inflight \cup acked
  /\ waiting' = CountDown(waiting)
  /\ wpc' = IF Inflight \cup acked = {} THEN "recv" ELSE "resend"
  /\ UNCHANGED <<rx, seqNum, offered, seqOf, copies, acked>>

HandleUnacked ==
  /\ wpc = "unacked"
  /\ resend' = Inflight
  /\ waiting' = CountDown(waiting)
  /\ wpc' = IF Inflight = {} THEN "recv" ELSE "resend"
  /\ UNCHANGED <<rx, seqNum, offered, seqOf, copies, acked>>

(* handle_unacked_data, the writes after the lock is released, in the      *)
(* iteration order of the HashMap, which is arbitrary.                     *)
Resend(p) ==
  /\ wpc = "resend"
  /\ p \in resend
  /\ resend' = resend \ {p}
  /\ copies' = [copies EXCEPT ![p] = @ + 1]
  /\ wpc' = IF resend = {p} THEN "recv" ELSE "resend"
  /\ UNCHANGED <<rx, seqNum, waiting, offered, seqOf, acked>>

ResendWriteFails ==
  /\ wpc = "resend"
  /\ wpc' = "panicked"
  /\ UNCHANGED <<rx, seqNum, waiting, resend, offered, seqOf, copies, acked>>

Writer ==
  \/ RecvData \/ RecvDataWriteFails \/ MarkWaiting
  \/ RecvTimeout \/ RecvStop
  \/ HandleUnacked \/ (\E p \in resend : Resend(p)) \/ ResendWriteFails

-----------------------------------------------------------------------------
(* The reader thread: handle_ack for the Ack of packet p.  An Ack carries  *)
(* a sequence number only, and the entry under that number goes.           *)

(* Mutant: an acknowledgement that is taken as cumulative. *)
RemoveAll(m, s) == [t \in {} |-> m[t]]

Remove(m, s) == [t \in DOMAIN m \ {s} |-> m[t]]

HandleAck(p) ==
  /\ Sent - p < AckLag
  /\ waiting' = Remove(waiting, seqOf[p])
  /\ acked' = acked \cup {p}
  /\ UNCHANGED <<rx, wpc, seqNum, resend, offered, seqOf, copies>>

Reader == \E p \in Packets : HandleAck(p)

-----------------------------------------------------------------------------
Next == OfferData \/ OfferStop \/ Writer \/ Reader

Spec == Init /\ [][Next]_vars

(* The writer never blocks for longer than its receive timeout of 100 ms,  *)
(* and the operating system runs it.  Nothing is assumed of the senders,   *)
(* the peer or the reader.                                                 *)
FairSpec == Spec /\ WF_vars(Writer)

-----------------------------------------------------------------------------
(* Safety.                                                                 *)

(* A sequence number is reused only when its last packet has left the map: *)
(* mark_as_waiting_for_ack never overwrites the entry of another packet,   *)
(* which would then be lost without its retries.                           *)
NoOverwrite == wpc = "mark" => seqNum \notin DOMAIN waiting

(* However fast data comes in, at most Retries packets wait for their Ack: *)
(* a retry round runs after every event, not only after a timeout.         *)
AtMostThreeInflight == Cardinality(DOMAIN waiting) <= Retries

(* A packet goes out at most four times: the first write and 3 retries     *)
(* (the test test_no_ack_resend expects the four).                         *)
AtMostFourWrites == \A p \in Packets : copies[p] <= Retries + 1

(* The writer is done with packet p. *)
Settled(p) ==
  /\ p \in Packets \ (Inflight \cup resend)
  /\ ~(wpc = "mark" /\ p = Sent)

(* The writer gives up on a packet only when the reader has seen its Ack   *)
(* or after all four writes: neither the Ack of another packet, nor the    *)
(* reuse of a sequence number, nor a race of the reader with a retry round *)
(* costs a packet one of its retries.                                      *)
SettledIsAckedOrSpent ==
  \A p \in Packets : Settled(p) => p \in acked \/ copies[p] = Retries + 1

(* An Ack that comes in after the packet is in the map settles it, but for *)
(* the one copy a retry round may already have taken out: from then on the *)
(* packet is written at most once, and a settled packet never again.       *)
QuietAfterAck ==
  [][\A p \in Packets :
       /\ Settled(p) => copies'[p] = copies[p] /\ Settled(p)'
       /\ p \in acked /\ p \notin Inflight /\ ~(wpc = "mark" /\ p = Sent)
            => p \notin Inflight']_vars

(* Liveness.                                                               *)

(* A packet that waits for its Ack is settled in the end, acknowledged or  *)
(* not, unless the writer stops or panics.                                 *)
EventuallySettled ==
  \A p \in 1 .. MaxData :
    p \in Inflight ~> (p \notin Inflight \/ wpc \in {"stopped", "panicked"})

(* A Stop on the channel ends the writer, however much data is queued in   *)
(* front of it and whatever is still in flight.                            *)
StopEndsWriter ==
  (\E i \in 1 .. Len(rx) : rx[i] = "Stop") ~> wpc \in {"stopped", "panicked"}

-----------------------------------------------------------------------------
(* The inductive invariant behind the safety properties.                   *)

(* The ordinal of the packet that seqNum belongs to. *)
Current == IF wpc = "mark" THEN Sent ELSE Sent + 1

(* Packets less than SeqMod apart have the difference of their ordinals    *)
(* between their sequence numbers, modulo SeqMod.                          *)
SeqGaps ==
  \A p, q \in Packets :
    p < q /\ q - p < SeqMod => seqOf[q] - seqOf[p] \in {q - p, q - p - SeqMod}

SeqCursor ==
  /\ wpc = "mark" => Sent >= 1 /\ seqOf[Sent] = seqNum /\ copies[Sent] = 1
  /\ \A p \in Packets :
       p < Current /\ Current - p < SeqMod
         => seqNum - seqOf[p] \in {Current - p, Current - p - SeqMod}

(* An entry is filed under its packet's sequence number, and has lost a    *)
(* retry for every packet sent since.                                      *)
Entries ==
  \A s \in DOMAIN waiting :
    /\ seqOf[waiting[s].pkt] = s
    /\ wpc = "mark" => waiting[s].pkt # Sent
    /\ waiting[s].retries + (Sent - waiting[s].pkt)
         <= IF wpc \in {"mark", "unacked"} THEN Retries ELSE Retries - 1

(* Copies written, retries left and the copy being written add up. *)
Budget ==
  /\ wpc \notin {"resend", "panicked"} => resend = {}
  /\ \A s \in DOMAIN waiting :
       copies[waiting[s].pkt] + waiting[s].retries
         + (IF waiting[s].pkt \in resend THEN 1 ELSE 0) = Retries + 1
  /\ \A p \in resend :
       /\ copies[p] <= Retries
       /\ p \notin Inflight => p \in acked \/ copies[p] = Retries

IInv ==
  TypeOK /\ SeqGaps /\ SeqCursor /\ Entries /\ Budget
    /\ AtMostFourWrites /\ SettledIsAckedOrSpent
=============================================================================
