-------------------------- MODULE SerialArqProofs ---------------------------
(***************************************************************************)
(* The safety of SerialArq for every number of sequence numbers of at      *)
(* least 3, every AckLag below it and every bound.  IInv is inductive; one *)
(* lemma per group of actions shows that they preserve it.                 *)
(***************************************************************************)
EXTENDS SerialArq, TLAPS, FiniteSetTheorems, SequenceTheorems

USE SeqModAssumption, AckLagAssumption, BoundsAssumption
USE DEF SeqNums, Retries

(* What is left of a channel after a receive is still a channel. *)
LEMMA TailOfSeq ==
  ASSUME NEW S, NEW q \in Seq(S), q # <<>>
  PROVE  Tail(q) \in Seq(S)
BY HeadTailProperties

(* The types of what is indexed by packets and by the map's entries. *)
LEMMA Types ==
  ASSUME TypeOK
  PROVE  /\ Sent \in Nat /\ Packets = 1 .. Sent
         /\ \A p \in Packets : seqOf[p] \in SeqNums /\ copies[p] \in 1 .. 4
         /\ \A s \in DOMAIN waiting :
              /\ s \in SeqNums
              /\ waiting[s].retries \in 1 .. 3
              /\ waiting[s].pkt \in Packets
BY DEF TypeOK, Packets, Sent

(* ConnectionWorker::new establishes the invariant. *)
LEMMA InitIInv == Init => IInv
<1> SUFFICES ASSUME Init PROVE IInv
  OBVIOUS
<1> USE DEF Init, Packets, Sent
<1>1. TypeOK /\ Inflight = {}
  BY DEF TypeOK, Inflight
<1>2. SeqGaps /\ SeqCursor
  BY DEF SeqGaps, SeqCursor, Current
<1>3. Entries /\ Budget /\ AtMostFourWrites /\ SettledIsAckedOrSpent
  BY DEF Entries, Budget, AtMostFourWrites, SettledIsAckedOrSpent
<1> QED
  BY <1>1, <1>2, <1>3 DEF IInv

(* Steps that leave the map, the packets and the copies alone: the         *)
(* channel's senders, and the writer's moves between its loop's places.    *)
LEMMA QuietSteps ==
  ASSUME IInv,
         OfferData \/ OfferStop \/ RecvDataWriteFails \/ RecvTimeout
           \/ RecvStop \/ ResendWriteFails \/ UNCHANGED vars
  PROVE  IInv'
<1> USE DEF IInv
<1>1. /\ UNCHANGED <<seqNum, waiting, resend, seqOf, copies, acked>>
      /\ wpc # wpc' => wpc \in {"recv", "resend"}
      /\ wpc' # wpc => wpc' \in {"panicked", "unacked", "stopped"}
      /\ wpc = "resend" => wpc' \in {"resend", "panicked"}
  BY DEF OfferData, OfferStop, RecvDataWriteFails, RecvTimeout, RecvStop,
         ResendWriteFails, vars
<1>2. TypeOK' /\ Packets' = Packets /\ Sent' = Sent
  <2>1. rx' \in Seq({"Data", "Stop"}) /\ offered' \in 0 .. MaxData
    <3>1. CASE OfferData
      BY <3>1 DEF TypeOK, OfferData
    <3>2. CASE OfferStop
      BY <3>2 DEF TypeOK, OfferStop
    <3>3. CASE RecvDataWriteFails \/ RecvStop
      BY <3>3, TailOfSeq DEF TypeOK, RecvDataWriteFails, RecvStop
    <3>4. CASE RecvTimeout \/ ResendWriteFails \/ UNCHANGED vars
      BY <3>4 DEF TypeOK, RecvTimeout, ResendWriteFails, vars
    <3> QED
      BY <3>1, <3>2, <3>3, <3>4
  <2> QED
    BY <1>1, <2>1 DEF TypeOK, Packets, Sent
<1>3. Inflight' = Inflight
  BY <1>1 DEF Inflight
<1>4. SeqGaps' /\ SeqCursor'
  BY <1>1, <1>2 DEF SeqGaps, SeqCursor, Current
<1>5. Entries'
  <2> SUFFICES ASSUME NEW s \in DOMAIN waiting
               PROVE  /\ seqOf[waiting[s].pkt] = s
                      /\ wpc' = "mark" => waiting[s].pkt # Sent
                      /\ waiting[s].retries + (Sent - waiting[s].pkt)
                           <= IF wpc' \in {"mark", "unacked"} THEN 3 ELSE 2
    BY <1>1, <1>2 DEF Entries
  <2>1. waiting[s].retries \in 1 .. 3 /\ waiting[s].pkt \in Packets
    BY Types
  <2>2. Sent \in Nat /\ Packets = 1 .. Sent
    BY Types
  <2>3. wpc' \notin {"mark", "unacked"} => wpc \notin {"mark", "unacked"}
    BY <1>1
  <2> QED
    BY <1>1, <2>1, <2>2, <2>3 DEF Entries
<1>6. Budget'
  BY <1>1, <1>3, <1>2 DEF Budget
<1>7. AtMostFourWrites' /\ SettledIsAckedOrSpent'
  BY <1>1, <1>2, <1>3 DEF AtMostFourWrites, SettledIsAckedOrSpent, Settled
<1> QED
  BY <1>2, <1>4, <1>5, <1>6, <1>7
(* handle_data up to the write: the new packet gets the sequence number    *)
(* that SeqCursor keeps apart from those of the last SeqMod - 1 packets.   *)
LEMMA RecvDataStep == IInv /\ RecvData => IInv'
<1> SUFFICES ASSUME IInv, RecvData PROVE IInv'
  OBVIOUS
<1> USE DEF IInv
<1>1. /\ UNCHANGED <<seqNum, waiting, resend, offered, acked>>
      /\ wpc = "recv" /\ wpc' = "mark"
  BY DEF RecvData
<1>0. seqOf' \in Seq(SeqNums) /\ copies' \in Seq(1 .. 4) /\ Len(copies') = Sent'
  BY DEF TypeOK, RecvData, Sent
<1>2. /\ Sent \in Nat /\ Sent' = Sent + 1
      /\ \A p \in Packets : seqOf'[p] = seqOf[p] /\ copies'[p] = copies[p]
      /\ seqOf'[Sent + 1] = seqNum /\ copies'[Sent + 1] = 1
      /\ Packets = 1 .. Sent /\ Packets' = 1 .. Sent + 1
  BY DEF TypeOK, RecvData, Packets, Sent
<1>3. Inflight' = Inflight
  BY <1>1 DEF Inflight
<1>4. TypeOK'
  <2>1. rx' \in Seq({"Data", "Stop"})
    BY TailOfSeq DEF TypeOK, RecvData
  <2>2. \A s \in DOMAIN waiting : waiting[s] \in [retries : 1 .. 3, pkt : Packets']
    BY <1>2 DEF TypeOK
  <2> QED
    BY <1>1, <1>0, <1>2, <2>1, <2>2 DEF TypeOK
<1>5. SeqGaps'
  <2> SUFFICES ASSUME NEW p \in Packets', NEW q \in Packets',
                      p < q, q - p < SeqMod
               PROVE  seqOf'[q] - seqOf'[p] \in {q - p, q - p - SeqMod}
    BY DEF SeqGaps
  <2>1. CASE q \in Packets
    BY <1>2, <2>1 DEF SeqGaps
  <2>2. CASE q = Sent + 1
    <3>1. p \in Packets /\ Current = Sent + 1
      BY <1>1, <1>2, <2>2 DEF Current
    <3> QED
      BY <1>2, <2>2, <3>1 DEF SeqCursor
  <2> QED
    BY <1>2, <2>1, <2>2
<1>6. SeqCursor'
  <2>1. Current' = Sent + 1 /\ Current = Sent + 1
    BY <1>1, <1>2 DEF Current
  <2>2. ASSUME NEW p \in Packets', p < Current', Current' - p < SeqMod
        PROVE  seqNum' - seqOf'[p] \in {Current' - p, Current' - p - SeqMod}
    BY <1>1, <1>2, <2>1, <2>2 DEF SeqCursor
  <2> QED
    BY <1>1, <1>2, <2>2 DEF SeqCursor
<1>7. Entries'
  <2> SUFFICES ASSUME NEW s \in DOMAIN waiting
               PROVE  /\ seqOf'[waiting[s].pkt] = s
                      /\ waiting[s].pkt # Sent'
                      /\ waiting[s].retries + (Sent' - waiting[s].pkt) <= 3
    BY <1>1 DEF Entries
  <2>1. /\ waiting[s].retries \in 1 .. 3 /\ waiting[s].pkt \in Packets
        /\ waiting[s].pkt \in Int
    BY <1>2, Types
  <2>2. waiting[s].retries + (Sent - waiting[s].pkt) <= 2
        /\ seqOf[waiting[s].pkt] = s
    BY <1>1 DEF Entries
  <2> QED
    BY <1>2, <2>1, <2>2
<1>8. Budget'
  BY <1>1, <1>2, <1>3 DEF Budget, TypeOK
<1>9. AtMostFourWrites'
  <2> SUFFICES ASSUME NEW p \in Packets' PROVE copies'[p] <= 4
    BY DEF AtMostFourWrites
  <2>1. CASE p \in Packets
    BY <1>2, <2>1 DEF AtMostFourWrites
  <2>2. CASE p = Sent + 1
    BY <1>2, <2>2
  <2> QED
    BY <1>2, <2>1, <2>2
<1>10. SettledIsAckedOrSpent'
  <2> SUFFICES ASSUME NEW p \in Packets', Settled(p)'
               PROVE  p \in acked \/ copies'[p] = 4
    BY <1>1 DEF SettledIsAckedOrSpent
  <2>1. p \in Packets /\ Settled(p)
    BY <1>1, <1>2, <1>3 DEF Settled
  <2> QED
    BY <1>2, <2>1 DEF SettledIsAckedOrSpent
<1> QED
  BY <1>4, <1>5, <1>6, <1>7, <1>8, <1>9, <1>10

(* While a packet is written but not yet in the map, its sequence number   *)
(* is free: the entries left belong to the two packets before it.          *)
LEMMA CurrentIsFree == IInv => NoOverwrite
<1> SUFFICES ASSUME IInv, wpc = "mark", seqNum \in DOMAIN waiting PROVE FALSE
  BY DEF NoOverwrite
<1> USE DEF IInv
<1> DEFINE p == waiting[seqNum].pkt
<1>1. waiting[seqNum].retries \in 1 .. 3 /\ p \in Packets
      /\ Sent \in Nat /\ Packets = 1 .. Sent
  BY Types
<1>2. seqOf[p] = seqNum /\ p # Sent /\ waiting[seqNum].retries + (Sent - p) <= 3
  BY <1>1 DEF Entries
<1>3. p < Sent /\ Sent - p < 3
  BY <1>1, <1>2
<1>4. Current = Sent /\ seqNum \in Int
  BY DEF Current, TypeOK
<1>5. seqNum - seqOf[p] \in {Sent - p, Sent - p - SeqMod}
  BY <1>1, <1>3, <1>4 DEF SeqCursor
<1> QED
  BY <1>1, <1>2, <1>3, <1>4, <1>5

(* mark_as_waiting_for_ack and bump_seq_num. *)
LEMMA MarkWaitingStep == IInv /\ MarkWaiting => IInv'
<1> SUFFICES ASSUME IInv, MarkWaiting PROVE IInv'
  OBVIOUS
<1> USE DEF IInv
<1>1. /\ UNCHANGED <<rx, resend, offered, seqOf, copies, acked>>
      /\ wpc = "mark" /\ wpc' = "unacked" /\ seqNum' = Bump(seqNum)
  BY DEF MarkWaiting
<1>2. /\ Sent \in Nat /\ Sent >= 1 /\ Sent \in Packets
      /\ seqOf[Sent] = seqNum /\ copies[Sent] = 1
      /\ seqNum \in SeqNums /\ resend = {}
      /\ Packets = 1 .. Sent /\ Packets' = Packets /\ Sent' = Sent
  BY <1>1, Types DEF SeqCursor, TypeOK, Budget, Packets, Sent
<1>3. /\ DOMAIN waiting' = DOMAIN waiting \cup {seqNum}
      /\ waiting'[seqNum] = [retries |-> 3, pkt |-> Sent]
      /\ \A s \in DOMAIN waiting : s # seqNum /\ waiting'[s] = waiting[s]
  <2>1. seqNum \notin DOMAIN waiting
    BY <1>1, CurrentIsFree DEF NoOverwrite
  <2> QED
    BY <2>1 DEF MarkWaiting, Insert
<1>4. Inflight' = Inflight \cup {Sent}
  BY <1>3 DEF Inflight
<1>5. TypeOK'
  <2>1. seqNum' \in SeqNums
    BY <1>1, <1>2 DEF Bump
  <2>2. \A s \in DOMAIN waiting' :
          waiting'[s] \in [retries : 1 .. 3, pkt : Packets]
    BY <1>2, <1>3 DEF TypeOK
  <2>3. DOMAIN waiting' \subseteq SeqNums
    BY <1>2, <1>3 DEF TypeOK
  <2> QED
    BY <1>1, <1>2, <2>1, <2>2, <2>3 DEF TypeOK
<1>6. SeqGaps'
  BY <1>1, <1>2 DEF SeqGaps
<1>7. SeqCursor'
  <2>1. Current = Sent /\ Current' = Sent + 1
    BY <1>1, <1>2 DEF Current
  <2>2. ASSUME NEW p \in Packets, p < Sent + 1, Sent + 1 - p < SeqMod
        PROVE  seqNum' - seqOf[p] \in {Sent + 1 - p, Sent + 1 - p - SeqMod}
    <3>1. p \in Int /\ seqOf[p] \in SeqNums
      BY <1>2, Types
    <3>2. CASE p = Sent
      BY <1>1, <1>2, <3>2 DEF Bump
    <3>3. CASE p < Sent
      <4>1. seqNum - seqOf[p] \in {Sent - p, Sent - p - SeqMod}
        BY <1>2, <2>1, <2>2, <3>1, <3>3 DEF SeqCursor
      <4> QED
        BY <1>1, <1>2, <2>2, <3>1, <3>3, <4>1 DEF Bump
    <3> QED
      BY <1>2, <2>2, <3>1, <3>2, <3>3
  <2> QED
    BY <1>1, <1>2, <2>1, <2>2 DEF SeqCursor
<1>8. Entries'
  <2> SUFFICES ASSUME NEW s \in DOMAIN waiting'
               PROVE  /\ seqOf[waiting'[s].pkt] = s
                      /\ waiting'[s].retries + (Sent - waiting'[s].pkt) <= 3
    BY <1>1, <1>2 DEF Entries
  <2>1. CASE s = seqNum
    BY <1>2, <1>3, <2>1
  <2>2. CASE s \in DOMAIN waiting
    BY <1>1, <1>3, <2>2 DEF Entries
  <2> QED
    BY <1>3, <2>1, <2>2
<1>9. Budget'
  <2> SUFFICES ASSUME NEW s \in DOMAIN waiting'
               PROVE  copies[waiting'[s].pkt] + waiting'[s].retries = 4
    BY <1>1, <1>2 DEF Budget
  <2>1. CASE s = seqNum
    BY <1>2, <1>3, <2>1
  <2>2. CASE s \in DOMAIN waiting
    <3>1. /\ waiting[s].pkt \in Packets /\ waiting[s].retries \in 1 .. 3
          /\ copies[waiting[s].pkt] \in 1 .. 4
      BY <2>2, Types
    <3> QED
      BY <1>2, <1>3, <2>2, <3>1 DEF Budget
  <2> QED
    BY <1>3, <2>1, <2>2
<1>10. AtMostFourWrites' /\ SettledIsAckedOrSpent'
  BY <1>1, <1>2, <1>4 DEF AtMostFourWrites, SettledIsAckedOrSpent, Settled
<1> QED
  BY <1>5, <1>6, <1>7, <1>8, <1>9, <1>10

(* handle_unacked_data under the lock: retries left, a copy in `writes`    *)
(* and copies written still add up, also for the entries that go.          *)
LEMMA HandleUnackedStep == IInv /\ HandleUnacked => IInv'
<1> SUFFICES ASSUME IInv, HandleUnacked PROVE IInv'
  OBVIOUS
<1> USE DEF IInv
<1>1. /\ UNCHANGED <<rx, seqNum, offered, seqOf, copies, acked>>
      /\ wpc = "unacked" /\ wpc' \in {"recv", "resend"}
      /\ resend' = Inflight
      /\ wpc' = "recv" => Inflight = {}
  BY DEF HandleUnacked
<1>2. /\ Packets' = Packets /\ Sent' = Sent /\ Sent \in Nat
      /\ Packets = 1 .. Sent /\ resend = {}
  BY <1>1, Types DEF Packets, Sent, Budget
<1>3. /\ DOMAIN waiting' \subseteq DOMAIN waiting
      /\ \A s \in DOMAIN waiting :
           /\ s \in DOMAIN waiting' <=> waiting[s].retries > 1
           /\ s \in DOMAIN waiting' =>
                /\ waiting'[s].pkt = waiting[s].pkt
                /\ waiting'[s].retries = waiting[s].retries - 1
                /\ waiting'[s] \in [retries : 1 .. 3, pkt : Packets]
  <2>1. DOMAIN waiting' = {t \in DOMAIN waiting : waiting[t].retries > 1}
    BY DEF HandleUnacked, CountDown
  <2>2. ASSUME NEW s \in DOMAIN waiting'
        PROVE  /\ waiting'[s].pkt = waiting[s].pkt
               /\ waiting'[s].retries = waiting[s].retries - 1
               /\ waiting'[s] \in [retries : 1 .. 3, pkt : Packets]
    <3>1. /\ waiting[s] \in [retries : 1 .. 3, pkt : Packets]
          /\ waiting[s].retries > 1
      BY <2>1 DEF TypeOK
    <3>2. waiting'[s] = [waiting[s] EXCEPT !.retries = waiting[s].retries - 1]
      BY <2>1 DEF HandleUnacked, CountDown
    <3> QED
      BY <3>1, <3>2
  <2> QED
    BY <2>1, <2>2
<1>4. \A p \in Inflight : p \in Packets
  BY Types DEF Inflight
<1>5. TypeOK'
  BY <1>1, <1>2, <1>3, <1>4 DEF TypeOK
<1>6. SeqGaps' /\ SeqCursor'
  BY <1>1, <1>2 DEF SeqGaps, SeqCursor, Current
<1>7. Entries'
  <2> SUFFICES ASSUME NEW s \in DOMAIN waiting'
               PROVE  /\ seqOf[waiting'[s].pkt] = s
                      /\ waiting'[s].retries + (Sent - waiting'[s].pkt) <= 2
    BY <1>1, <1>2 DEF Entries
  <2>1. waiting[s].retries \in 1 .. 3 /\ waiting[s].pkt \in Packets
    BY <1>3, Types
  <2>2. /\ seqOf[waiting[s].pkt] = s
        /\ waiting[s].retries + (Sent - waiting[s].pkt) <= 3
    BY <1>1, <1>3 DEF Entries
  <2> QED
    BY <1>2, <1>3, <2>1, <2>2
<1>8. \A s \in DOMAIN waiting : copies[waiting[s].pkt] + waiting[s].retries = 4
  <2> TAKE s \in DOMAIN waiting
  <2>1. waiting[s].retries \in 1 .. 3 /\ copies[waiting[s].pkt] \in 1 .. 4
    BY Types
  <2> QED
    BY <1>2, <2>1 DEF Budget
<1>9. Budget'
  <2>1. wpc' \notin {"resend", "panicked"} => resend' = {}
    BY <1>1
  <2>2. ASSUME NEW s \in DOMAIN waiting'
        PROVE  /\ copies[waiting'[s].pkt] + waiting'[s].retries + 1 = 4
               /\ waiting'[s].pkt \in resend'
    <3>1. /\ waiting[s].retries \in 1 .. 3 /\ waiting[s].pkt \in Packets
          /\ copies[waiting[s].pkt] \in 1 .. 4
      BY <1>3, Types
    <3> QED
      BY <1>1, <1>3, <1>8, <3>1 DEF Inflight
  <2>3. ASSUME NEW p \in Inflight
        PROVE  /\ copies[p] <= 3
               /\ p \notin Inflight' => copies[p] = 3
    <3>1. PICK s \in DOMAIN waiting : p = waiting[s].pkt
      BY DEF Inflight
    <3>2. waiting[s].retries \in 1 .. 3 /\ copies[p] \in 1 .. 4
      BY <3>1, Types
    <3>3. copies[p] + waiting[s].retries = 4
      BY <1>8, <3>1
    <3>4. p \notin Inflight' => s \notin DOMAIN waiting'
      BY <1>3, <3>1 DEF Inflight
    <3> QED
      BY <1>3, <3>2, <3>3, <3>4
  <2> QED
    BY <1>1, <2>1, <2>2, <2>3 DEF Budget
<1>10. AtMostFourWrites'
  BY <1>1, <1>2 DEF AtMostFourWrites
<1>11. SettledIsAckedOrSpent'
  BY <1>1, <1>2 DEF SettledIsAckedOrSpent, Settled
<1> QED
  BY <1>5, <1>6, <1>7, <1>9, <1>10, <1>11

(* handle_unacked_data after the lock: one copy of a packet. *)
LEMMA ResendStep ==
  ASSUME IInv, NEW p \in resend, Resend(p)
  PROVE  IInv'
<1> USE DEF IInv
<1>1. /\ UNCHANGED <<rx, seqNum, waiting, offered, seqOf, acked>>
      /\ wpc = "resend" /\ wpc' \in {"recv", "resend"}
      /\ resend' = resend \ {p}
      /\ wpc' = "recv" => resend' = {}
  BY DEF Resend
<1>2. /\ Packets' = Packets /\ Sent' = Sent /\ Inflight' = Inflight
      /\ p \in Packets
  BY <1>1 DEF Packets, Sent, Inflight, TypeOK
<1>3. /\ copies[p] \in 1 .. 3 /\ copies'[p] = copies[p] + 1
      /\ \A q \in Packets : q # p => copies'[q] = copies[q]
      /\ copies' \in Seq(1 .. 4) /\ Len(copies') = Sent
  <2>1. copies[p] \in 1 .. 3
    BY <1>2, Types DEF Budget
  <2> QED
    BY <1>2, <2>1 DEF Resend, TypeOK, Packets, Sent
<1>4. TypeOK'
  BY <1>1, <1>2, <1>3 DEF TypeOK
<1>5. SeqGaps' /\ SeqCursor' /\ Entries'
  BY <1>1, <1>2 DEF SeqGaps, SeqCursor, Current, Entries
<1>6. Budget'
  <2>1. ASSUME NEW s \in DOMAIN waiting
        PROVE  copies'[waiting[s].pkt] + waiting[s].retries
                 + (IF waiting[s].pkt \in resend' THEN 1 ELSE 0) = 4
    <3>1. /\ waiting[s].retries \in 1 .. 3 /\ waiting[s].pkt \in Packets
          /\ copies[waiting[s].pkt] \in 1 .. 4
      BY Types
    <3>2. copies[waiting[s].pkt] + waiting[s].retries
            + (IF waiting[s].pkt \in resend THEN 1 ELSE 0) = 4
      BY DEF Budget
    <3> QED
      BY <1>1, <1>3, <3>1, <3>2
  <2>2. ASSUME NEW q \in resend'
        PROVE  /\ copies'[q] <= 3
               /\ q \notin Inflight => q \in acked \/ copies'[q] = 3
    BY <1>1, <1>3, Types DEF Budget, TypeOK
  <2> QED
    BY <1>1, <1>2, <2>1, <2>2 DEF Budget
<1>7. AtMostFourWrites'
  BY <1>2, <1>3 DEF AtMostFourWrites
<1>8. SettledIsAckedOrSpent'
  <2> SUFFICES ASSUME NEW q \in Packets, Settled(q)'
               PROVE  q \in acked \/ copies'[q] = 4
    BY <1>1, <1>2 DEF SettledIsAckedOrSpent
  <2>1. CASE q = p
    BY <1>1, <1>2, <1>3, <2>1 DEF Settled, Budget
  <2>2. CASE q # p
    BY <1>1, <1>2, <1>3, <2>2 DEF Settled, SettledIsAckedOrSpent
  <2> QED
    BY <2>1, <2>2
<1> QED
  BY <1>4, <1>5, <1>6, <1>7, <1>8

(* handle_ack: among packets less than SeqMod apart, a sequence number     *)
(* names its packet, so an Ack takes no other packet's entry.              *)
LEMMA HandleAckStep ==
  ASSUME IInv, NEW p \in Packets, HandleAck(p)
  PROVE  IInv'
<1> USE DEF IInv
<1>1. /\ UNCHANGED <<rx, wpc, seqNum, resend, offered, seqOf, copies>>
      /\ acked' = acked \cup {p} /\ Sent - p < AckLag
  BY DEF HandleAck
<1>2. /\ Packets' = Packets /\ Sent' = Sent
      /\ Sent \in Nat /\ Packets = 1 .. Sent
  BY <1>1, Types DEF Packets, Sent
<1>3. /\ DOMAIN waiting' = DOMAIN waiting \ {seqOf[p]}
      /\ \A s \in DOMAIN waiting' : waiting'[s] = waiting[s]
  BY DEF HandleAck, Remove
<1>4. ASSUME NEW s \in DOMAIN waiting, s = seqOf[p]
      PROVE  waiting[s].pkt = p
  <2> DEFINE q == waiting[s].pkt
  <2>1. /\ waiting[s].retries \in 1 .. 3 /\ q \in Packets
        /\ seqOf[p] \in Int /\ seqOf[q] \in Int
    BY Types
  <2>2. waiting[s].retries + (Sent - q) <= 3 /\ seqOf[q] = seqOf[p]
    BY <1>4, <2>1, <1>2 DEF Entries
  <2> HIDE DEF q
  <2>3. ~(q < p)
    BY <1>1, <1>2, <2>1, <2>2 DEF SeqGaps
  <2>4. ~(p < q)
    BY <1>1, <1>2, <2>1, <2>2 DEF SeqGaps
  <2>5. q = p
    BY <1>2, <2>1, <2>3, <2>4
  <2> QED
    BY <2>5 DEF q
<1>5. Inflight \subseteq Inflight' \cup {p} /\ Inflight' \subseteq Inflight
  BY <1>3, <1>4 DEF Inflight
<1>6. TypeOK'
  BY <1>1, <1>2, <1>3 DEF TypeOK
<1>7. SeqGaps' /\ SeqCursor'
  BY <1>1, <1>2 DEF SeqGaps, SeqCursor, Current
<1>8. Entries'
  BY <1>1, <1>2, <1>3 DEF Entries
<1>9. Budget'
  <2>1. \A s \in DOMAIN waiting' :
          copies[waiting'[s].pkt] + waiting'[s].retries
            + (IF waiting'[s].pkt \in resend THEN 1 ELSE 0) = 4
    BY <1>3 DEF Budget
  <2> QED
    BY <1>1, <1>5, <2>1 DEF Budget
<1>10. AtMostFourWrites'
  BY <1>1, <1>2 DEF AtMostFourWrites
<1>11. SettledIsAckedOrSpent'
  BY <1>1, <1>2, <1>5 DEF SettledIsAckedOrSpent, Settled
<1> QED
  BY <1>6, <1>7, <1>8, <1>9, <1>10, <1>11

(* Every step of the two threads and of their environment.                 *)
LEMMA InductiveStep == IInv /\ [Next]_vars => IInv'
<1> SUFFICES ASSUME IInv, [Next]_vars PROVE IInv'
  OBVIOUS
<1>1. CASE OfferData \/ OfferStop \/ UNCHANGED vars
  BY <1>1, QuietSteps
<1>2. CASE Writer
  <2>1. CASE \E p \in resend : Resend(p)
    BY <2>1, ResendStep
  <2> QED
    BY <1>2, <2>1, QuietSteps, RecvDataStep, MarkWaitingStep,
       HandleUnackedStep DEF Writer
<1>3. CASE Reader
  BY <1>3, HandleAckStep DEF Reader
<1> QED
  BY <1>1, <1>2, <1>3 DEF Next

(* At most the last three packets have an entry, since every packet sent   *)
(* later took a retry from it.                                             *)
LEMMA FewEntries == IInv => AtMostThreeInflight
<1> SUFFICES ASSUME IInv PROVE Cardinality(DOMAIN waiting) <= 3
  BY DEF AtMostThreeInflight
<1> USE DEF IInv
<1> DEFINE Last == (Sent - 2) .. Sent
           file == [s \in DOMAIN waiting |-> waiting[s].pkt]
<1>1. Sent \in Nat /\ Packets = 1 .. Sent
  BY Types
<1>2. IsFiniteSet(Last) /\ Cardinality(Last) = 3
  <2>1. Cardinality(Last) = Sent - (Sent - 2) + 1
    BY <1>1, FS_Interval
  <2> QED
    BY <1>1, <2>1, FS_Interval
<1>3. file \in [DOMAIN waiting -> Last]
  <2> SUFFICES ASSUME NEW s \in DOMAIN waiting PROVE waiting[s].pkt \in Last
    OBVIOUS
  <2>1. waiting[s].retries \in 1 .. 3 /\ waiting[s].pkt \in 1 .. Sent
    BY <1>1, Types
  <2>2. waiting[s].retries + (Sent - waiting[s].pkt) <= 3
    BY <1>1, <2>1 DEF Entries
  <2> QED
    BY <1>1, <2>1, <2>2
<1>4. \A s, t \in DOMAIN waiting : waiting[s].pkt = waiting[t].pkt => s = t
  BY DEF Entries
<1>5. file \in Injection(DOMAIN waiting, Last)
  BY <1>3, <1>4 DEF Injection, IsInjective
<1> QED
  BY <1>2, <1>5, FS_Injection

(* What any step does to a packet that is settled, or acknowledged and no  *)
(* longer in the map.                                                      *)
LEMMA QuietStep ==
  ASSUME IInv, Next, NEW p \in Packets
  PROVE  /\ Settled(p) => copies'[p] = copies[p] /\ Settled(p)'
         /\ p \in acked /\ p \notin Inflight /\ ~(wpc = "mark" /\ p = Sent)
              => p \notin Inflight'
<1> USE DEF IInv
<1>1. Sent \in Nat /\ Packets = 1 .. Sent
  BY Types
<1>2. CASE OfferData \/ OfferStop \/ RecvDataWriteFails \/ RecvTimeout
             \/ RecvStop \/ ResendWriteFails
  <2>1. /\ UNCHANGED <<waiting, resend, seqOf, copies>>
        /\ wpc' = "mark" => wpc = "mark"
    BY <1>2 DEF OfferData, OfferStop, RecvDataWriteFails, RecvTimeout,
                RecvStop, ResendWriteFails
  <2>2. Inflight' = Inflight /\ Packets' = Packets /\ Sent' = Sent
    BY <2>1 DEF Inflight, Packets, Sent
  <2> QED
    BY <2>1, <2>2 DEF Settled
<1>3. CASE RecvData
  <2>1. Inflight' = Inflight /\ resend' = resend
    BY <1>3 DEF RecvData, Inflight
  <2>2. /\ copies'[p] = copies[p] /\ Sent' = Sent + 1
        /\ Packets' = 1 .. Sent + 1
    BY <1>3 DEF RecvData, TypeOK, Packets, Sent
  <2> QED
    BY <1>1, <2>1, <2>2 DEF Settled
<1>4. CASE MarkWaiting
  <2>1. /\ UNCHANGED <<resend, seqOf, copies>>
        /\ wpc = "mark" /\ wpc' = "unacked"
    BY <1>4 DEF MarkWaiting
  <2>2. Inflight' \subseteq Inflight \cup {Sent}
    BY <1>4 DEF MarkWaiting, Insert, Inflight
  <2>3. Packets' = Packets
    BY <2>1 DEF Packets
  <2> QED
    BY <2>1, <2>2, <2>3 DEF Settled
<1>5. CASE HandleUnacked
  <2>1. /\ UNCHANGED <<seqOf, copies>> /\ resend' = Inflight
        /\ wpc' # "mark"
    BY <1>5 DEF HandleUnacked
  <2>2. Inflight' \subseteq Inflight
    <3>1. ASSUME NEW s \in DOMAIN waiting'
          PROVE  s \in DOMAIN waiting /\ waiting'[s].pkt = waiting[s].pkt
      <4>1. /\ s \in DOMAIN waiting
            /\ waiting'[s] = [waiting[s] EXCEPT !.retries = @ - 1]
        BY <1>5 DEF HandleUnacked, CountDown
      <4> QED
        BY <4>1 DEF TypeOK
    <3> QED
      BY <3>1 DEF Inflight
  <2>3. Packets' = Packets
    BY <2>1 DEF Packets
  <2> QED
    BY <2>1, <2>2, <2>3 DEF Settled
<1>6. ASSUME NEW q \in resend, Resend(q)
      PROVE  /\ Settled(p) => copies'[p] = copies[p] /\ Settled(p)'
             /\ p \notin Inflight => p \notin Inflight'
  <2>1. /\ UNCHANGED <<waiting, seqOf>> /\ resend' \subseteq resend
        /\ wpc' # "mark"
        /\ q # p => copies'[p] = copies[p]
    BY <1>6 DEF Resend, TypeOK, Packets, Sent
  <2>2. Inflight' = Inflight /\ Packets' = Packets
    BY <2>1 DEF Inflight, Packets
  <2> QED
    BY <2>1, <2>2 DEF Settled
<1>7. ASSUME NEW q \in Packets, HandleAck(q)
      PROVE  /\ Settled(p) => copies'[p] = copies[p] /\ Settled(p)'
             /\ p \notin Inflight => p \notin Inflight'
  <2>1. UNCHANGED <<wpc, resend, seqOf, copies>>
    BY <1>7 DEF HandleAck
  <2>2. Inflight' \subseteq Inflight
    BY <1>7 DEF HandleAck, Remove, Inflight
  <2>3. Packets' = Packets /\ Sent' = Sent
    BY <2>1 DEF Packets, Sent
  <2> QED
    BY <2>1, <2>2, <2>3 DEF Settled
<1> QED
  BY <1>2, <1>3, <1>4, <1>5, <1>6, <1>7 DEF Next, Writer, Reader

(* IInv holds in every reachable state. *)
THEOREM Invariance == Spec => []IInv
<1>1. Init => IInv
  BY InitIInv
<1>2. IInv /\ [Next]_vars => IInv'
  BY InductiveStep
<1> QED
  BY <1>1, <1>2, PTL DEF Spec

(* Every variable keeps its type, whatever the threads and the peer do.    *)
THEOREM TypeCorrect == Spec => []TypeOK
<1>1. IInv => TypeOK
  BY DEF IInv
<1> QED
  BY <1>1, Invariance, PTL

(* mark_as_waiting_for_ack never overwrites the entry of another packet.   *)
THEOREM NothingOverwritten == Spec => []NoOverwrite
BY CurrentIsFree, Invariance, PTL

(* At most three packets wait for their Ack, at any rate of data.          *)
THEOREM InflightBound == Spec => []AtMostThreeInflight
BY FewEntries, Invariance, PTL

(* No packet is written more than four times.                              *)
THEOREM WriteBound == Spec => []AtMostFourWrites
<1>1. IInv => AtMostFourWrites
  BY DEF IInv
<1> QED
  BY <1>1, Invariance, PTL

(* A packet is given up only acknowledged or after all four writes.        *)
THEOREM NoRetryLost == Spec => []SettledIsAckedOrSpent
<1>1. IInv => SettledIsAckedOrSpent
  BY DEF IInv
<1> QED
  BY <1>1, Invariance, PTL

(* After its Ack, and at the latest after its last copy, a packet is never *)
(* written again.                                                          *)
THEOREM QuietOnceAcked == Spec => QuietAfterAck
<1> DEFINE Quiet ==
      \A p \in Packets :
        /\ Settled(p) => copies'[p] = copies[p] /\ Settled(p)'
        /\ p \in acked /\ p \notin Inflight /\ ~(wpc = "mark" /\ p = Sent)
             => p \notin Inflight'
<1>1. IInv /\ [Next]_vars => [Quiet]_vars
  BY QuietStep
<1>2. QuietAfterAck <=> [][Quiet]_vars
  BY DEF QuietAfterAck
<1> QED
  BY <1>1, <1>2, Invariance, PTL DEF Spec
=============================================================================
