--------------------------- MODULE SerialLinkProofs --------------------------
(***************************************************************************)
(* The safety of SerialLink for every number of sequence numbers of at     *)
(* least 3, every Span within the Cooldown, and every bound on packets,    *)
(* losses and time, with both ends sending.  IInv is inductive; one lemma  *)
(* per action shows that it keeps it.                                      *)
(***************************************************************************)
EXTENDS SerialLink, TLAPS, SequenceTheorems

USE SeqModAssumption, TimeAssumption, SpanAssumption, BoundsAssumption

Written == [seq_num : SeqNums, data : Payloads, at : 0 .. now]
HandedOver(e) == [pkt : Packets(Other(e)), at : 0 .. now]

(* TypeOK by its parts: what it says of the state as a whole, of one end's *)
(* writer and of its reader.                                               *)
Whole ==
  /\ rx \in [Ends -> Seq(Payloads)]
  /\ DOMAIN sent = Ends /\ DOMAIN waiting = Ends /\ DOMAIN resend = Ends
  /\ DOMAIN cache = Ends /\ DOMAIN line = Ends /\ DOMAIN got = Ends
  /\ now \in 0 .. MaxTime /\ offered \in 0 .. MaxUser /\ losses \in 0 .. MaxLosses
WriterOK(e) ==
  /\ sent[e] \in Seq(Written)
  /\ DOMAIN waiting[e] \subseteq SeqNums
  /\ \A s \in DOMAIN waiting[e] :
       waiting[e][s] \in [retries : 1 .. Retries, pkt : Packets(e)]
  /\ resend[e] \subseteq Packets(e) /\ line[e] \in Seq(Packets(e))
ReaderOK(e) ==
  /\ DOMAIN cache[e] \subseteq SeqNums
  /\ \A s \in DOMAIN cache[e] : cache[e][s] \in 0 .. now
  /\ got[e] \in Seq(HandedOver(e))

LEMMA TypeParts ==
  TypeOK <=> Whole /\ \A e \in Ends : WriterOK(e) /\ ReaderOK(e)
BY DEF TypeOK, Whole, WriterOK, ReaderOK, Written, HandedOver

LEMMA TypePartsNext ==
  TypeOK' <=> Whole' /\ \A e \in Ends : WriterOK(e)' /\ ReaderOK(e)'
BY DEF TypeOK, Whole, WriterOK, ReaderOK, Written, HandedOver

(* A step that does not concern an end's writer keeps its types. *)
LEMMA WriterFrame ==
  ASSUME NEW e \in Ends, WriterOK(e), now' = now, sent'[e] = sent[e],
         waiting'[e] = waiting[e], resend'[e] = resend[e], line'[e] = line[e]
  PROVE  WriterOK(e)'
<1>1. Written' = Written /\ Packets(e)' = Packets(e)
  BY DEF Written, Packets
<1> QED
  BY <1>1 DEF WriterOK

(* What the writer makes is a sequence number. *)
LEMMA ModInRange ==
  ASSUME NEW n \in Nat
  PROVE  n % SeqMod \in SeqNums
BY DEF SeqNums

LEMMA OtherIsAnEnd ==
  ASSUME NEW e \in Ends
  PROVE  /\ Other(e) \in Ends /\ Other(e) # e /\ Other(Other(e)) = e
         /\ \A f \in Ends : f = e \/ f = Other(e)
BY DEF Ends, Other

(* The types of the packets of an end, and of those handed on to it. *)
LEMMA PacketTypes ==
  ASSUME TypeOK, NEW e \in Ends
  PROVE  /\ Len(sent[e]) \in Nat /\ now \in Nat
         /\ \A p \in Packets(e) :
              SeqOf(e, p) \in SeqNums /\ sent[e][p].at \in 0 .. now
         /\ Len(got[e]) \in Nat
         /\ \A i \in 1 .. Len(got[e]) :
              got[e][i].pkt \in Packets(Other(e)) /\ got[e][i].at \in 0 .. now
<1>1. sent[e] \in Seq(Written)
  BY TypeParts DEF WriterOK
<1>2. now \in Nat
  BY DEF TypeOK
<1>3. \A p \in 1 .. Len(sent[e]) : sent[e][p] \in Written
  BY <1>1, ElementOfSeq
<1>4. \A p \in Packets(e) : SeqOf(e, p) \in SeqNums /\ sent[e][p].at \in 0 .. now
  BY <1>3 DEF Packets, SeqOf, Written
<1>5. got[e] \in Seq(HandedOver(e))
  BY TypeParts DEF ReaderOK
<1>6. \A i \in 1 .. Len(got[e]) : got[e][i] \in HandedOver(e)
  BY <1>5, ElementOfSeq
<1>7. \A i \in 1 .. Len(got[e]) :
        got[e][i].pkt \in Packets(Other(e)) /\ got[e][i].at \in 0 .. now
  BY <1>6 DEF HandedOver
<1>8. Len(sent[e]) \in Nat /\ Len(got[e]) \in Nat
  BY <1>1, <1>5, LenProperties
<1> QED
  BY <1>2, <1>4, <1>7, <1>8

LEMMA PendingArePackets ==
  ASSUME TypeOK, NEW e \in Ends
  PROVE  Pending(e) \subseteq Packets(e)
<1>1. Inflight(e) \subseteq Packets(e) /\ resend[e] \subseteq Packets(e)
  BY DEF TypeOK, Inflight
<1>2. line[e] \in Seq(Packets(e))
  BY DEF TypeOK
<1>3. \A i \in 1 .. Len(line[e]) : line[e][i] \in Packets(e)
  BY <1>2, ElementOfSeq
<1> QED
  BY <1>1, <1>3 DEF Pending

LEMMA InitIInv == Init => IInv
<1> SUFFICES ASSUME Init PROVE IInv
  OBVIOUS
<1>1. \A e \in Ends : /\ rx[e] = <<>> /\ sent[e] = <<>> /\ got[e] = <<>>
                      /\ line[e] = <<>> /\ resend[e] = {}
                      /\ waiting[e] = <<>> /\ cache[e] = <<>>
  BY DEF Init
<1>2. TypeOK
  <2>1. rx \in [Ends -> Seq(Payloads)]
    BY DEF Init
  <2>2. DOMAIN sent = Ends /\ DOMAIN waiting = Ends /\ DOMAIN resend = Ends
        /\ DOMAIN cache = Ends /\ DOMAIN line = Ends /\ DOMAIN got = Ends
    BY DEF Init
  <2>3. now = 0 /\ offered = 0 /\ losses = 0
    BY DEF Init
  <2>4. DOMAIN <<>> = {}
    OBVIOUS
  <2> QED
    BY <1>1, <2>1, <2>2, <2>3, <2>4 DEF TypeOK
<1>3. \A e \in Ends : Pending(e) = {} /\ 1 .. Len(got[e]) = {} /\ DOMAIN cache[e] = {}
  BY <1>1 DEF Pending, Inflight
<1> QED
  BY <1>2, <1>3 DEF IInv, Timely, Remembered, Stamps, AtMostOnce

-----------------------------------------------------------------------------
(* The writer's steps. *)

(* No packet changes once it is made; an end that makes one may.           *)
SentKept ==
  \A f \in Ends : /\ Packets(f) \subseteq Packets(f)'
                  /\ \A p \in Packets(f) : sent'[f][p] = sent[f][p]

(* A step that is not a reader's leaves what was handed on in order.       *)
LEMMA ReadersKept ==
  ASSUME IInv, SentKept, cache' = cache, got' = got
  PROVE  Remembered' /\ Stamps' /\ AtMostOnce'
<1>1. \A e \in Ends : \A i \in 1 .. Len(got[e]) :
        /\ got[e][i].pkt \in Packets(Other(e))
        /\ sent'[Other(e)][got[e][i].pkt] = sent[Other(e)][got[e][i].pkt]
        /\ SeqOf(Other(e), got[e][i].pkt)' = SeqOf(Other(e), got[e][i].pkt)
  BY PacketTypes, OtherIsAnEnd DEF IInv, SentKept, SeqOf
<1>2. Remembered'
  BY <1>1 DEF IInv, Remembered
<1>3. Stamps'
  BY <1>1 DEF IInv, Stamps
<1>4. AtMostOnce'
  BY DEF IInv, AtMostOnce
<1> QED
  BY <1>2, <1>3, <1>4

(* ... and keeps the types of the reader's state. *)
LEMMA ReadersTyped ==
  ASSUME TypeOK, SentKept, cache' = cache, got' = got, now' = now
  PROVE  \A e \in Ends : ReaderOK(e)'
<1> SUFFICES ASSUME NEW e \in Ends
             PROVE  ReaderOK(e)'
  OBVIOUS
<1>1. ReaderOK(e) /\ Other(e) \in Ends
  BY TypeParts, OtherIsAnEnd
<1>2. HandedOver(e) \subseteq HandedOver(e)'
  BY <1>1 DEF SentKept, HandedOver
<1>3. got'[e] \in Seq(HandedOver(e)')
  BY <1>1, <1>2, SeqMonotonic DEF ReaderOK
<1> QED
  BY <1>1, <1>3 DEF ReaderOK

(* What no longer than before is on its way is still in time. *)
LEMMA TimelyKept ==
  ASSUME IInv, SentKept, now' = now,
         \A f \in Ends : \A p \in Pending(f)' :
           p \in Pending(f) \/ sent'[f][p].at = now
  PROVE  Timely'
<1> SUFFICES ASSUME NEW f \in Ends, NEW p \in Pending(f)'
             PROVE  now <= sent'[f][p].at + Span
  BY DEF Timely
<1>1. CASE p \in Pending(f)
  BY <1>1, PendingArePackets DEF IInv, Timely, SentKept
<1>2. CASE sent'[f][p].at = now
  BY <1>2, PacketTypes DEF IInv
<1> QED
  BY <1>1, <1>2

(* handle_unacked_data on a map m of packets of the end. *)
LEMMA RoundFacts ==
  ASSUME Whole, NEW e \in Ends, NEW m, Round(e, m),
         DOMAIN m \subseteq SeqNums,
         \A s \in DOMAIN m : m[s] \in [retries : 1 .. Retries, pkt : Packets(e)']
  PROVE  /\ DOMAIN waiting' = Ends /\ DOMAIN resend' = Ends
         /\ \A f \in Ends \ {e} :
              waiting'[f] = waiting[f] /\ resend'[f] = resend[f]
         /\ resend'[e] = {m[s].pkt : s \in DOMAIN m} /\ resend'[e] \subseteq Packets(e)'
         /\ DOMAIN waiting'[e] \subseteq SeqNums
         /\ \A s \in DOMAIN waiting'[e] :
              waiting'[e][s] \in [retries : 1 .. Retries, pkt : Packets(e)']
         /\ Inflight(e)' \subseteq resend'[e]
<1> DEFINE Left == {t \in DOMAIN m : m[t].retries > 1}
<1>1. /\ DOMAIN waiting' = Ends /\ DOMAIN resend' = Ends
      /\ \A f \in Ends \ {e} :
           waiting'[f] = waiting[f] /\ resend'[f] = resend[f]
      /\ resend'[e] = {m[s].pkt : s \in DOMAIN m}
      /\ waiting'[e] = [s \in Left |-> [m[s] EXCEPT !.retries = @ - 1]]
  BY DEF Round, Whole
<1>2. \A s \in Left : /\ [m[s] EXCEPT !.retries = @ - 1] \in [retries : 1 .. Retries, pkt : Packets(e)']
                      /\ [m[s] EXCEPT !.retries = @ - 1].pkt = m[s].pkt
  BY DEF Retries
<1>3. DOMAIN waiting'[e] = Left
  BY <1>1
<1>4. \A s \in Left : /\ waiting'[e][s] \in [retries : 1 .. Retries, pkt : Packets(e)']
                      /\ waiting'[e][s].pkt = m[s].pkt
  BY <1>1, <1>2
<1>5. Inflight(e)' \subseteq resend'[e]
  BY <1>1, <1>3, <1>4 DEF Inflight
<1>6. resend'[e] \subseteq Packets(e)'
  BY <1>1
<1> QED
  BY <1>1, <1>3, <1>4, <1>5, <1>6

(* write_to_stream: the line is as before, or has the frame at its end.    *)
LEMMA WriteFacts ==
  ASSUME Whole, NEW e \in Ends, NEW p \in Packets(e)', Write(e, p),
         line[e] \in Seq(Packets(e)')
  PROVE  /\ DOMAIN line' = Ends /\ losses' \in 0 .. MaxLosses
         /\ \A f \in Ends \ {e} : line'[f] = line[f]
         /\ line'[e] \in Seq(Packets(e)') /\ Len(line'[e]) >= Len(line[e])
         /\ \A i \in 1 .. Len(line'[e]) :
              line'[e][i] = p \/ \E j \in 1 .. Len(line[e]) : line'[e][i] = line[e][j]
<1>1. CASE line' = line /\ losses < MaxLosses /\ losses' = losses + 1
  BY <1>1, LenProperties DEF Whole
<1>2. CASE line' = [line EXCEPT ![e] = Append(@, p)] /\ losses' = losses
  <2>1. line'[e] = Append(line[e], p)
    BY <1>2 DEF Whole
  <2>2. Len(line[e]) \in Nat /\ Len(line'[e]) = Len(line[e]) + 1
    BY <2>1, AppendProperties, LenProperties
  <2>3. \A i \in 1 .. Len(line'[e]) :
          line'[e][i] = p \/ \E j \in 1 .. Len(line[e]) : line'[e][i] = line[e][j]
    BY <2>1, <2>2, AppendProperties
  <2> QED
    BY <1>2, <2>1, <2>2, <2>3, AppendProperties DEF Whole
<1> QED
  BY <1>1, <1>2 DEF Write

LEMMA OfferStep == IInv /\ Offer => IInv'
<1> SUFFICES ASSUME IInv, Offer PROVE IInv'
  OBVIOUS
<1>0. /\ UNCHANGED <<waiting, resend, sent, cache, got, line, now, losses>>
      /\ rx' = [rx EXCEPT !["a"] = Append(@, [kind |-> "user"])]
      /\ offered' = offered + 1 /\ offered < MaxUser
  BY DEF Offer, reader
<1>1. SentKept
  BY <1>0 DEF SentKept, Packets
<1>2. TypeOK'
  <2>1. Whole
    BY TypeParts DEF IInv
  <2>2. [kind |-> "user"] \in Payloads
    BY DEF Payloads
  <2>3. Append(rx["a"], [kind |-> "user"]) \in Seq(Payloads)
    BY <2>1, <2>2, AppendProperties DEF Whole, Ends
  <2>4. rx' \in [Ends -> Seq(Payloads)]
    BY <1>0, <2>1, <2>3 DEF Whole, Ends
  <2>5. Whole'
    BY <1>0, <2>1, <2>4 DEF Whole
  <2>6. \A e \in Ends : WriterOK(e)'
    BY <1>0, TypeParts, WriterFrame DEF IInv
  <2> QED
    BY <1>0, <1>1, <2>5, <2>6, TypePartsNext, ReadersTyped DEF IInv
<1>3. \A f \in Ends : Pending(f)' = Pending(f)
  BY <1>0 DEF Pending, Inflight
<1> QED
  BY <1>0, <1>1, <1>2, <1>3, ReadersKept, TimelyKept DEF IInv

LEMMA TimeoutStep ==
  ASSUME IInv, NEW e \in Ends, Timeout(e)
  PROVE  IInv'
<1>0. /\ UNCHANGED <<rx, sent, cache, got, line, now, offered, losses>>
      /\ Round(e, waiting[e])
  BY DEF Timeout, reader
<1>1. SentKept
  BY <1>0 DEF SentKept, Packets
<1>2. Whole /\ \A f \in Ends : WriterOK(f)
  BY TypeParts DEF IInv
<1>3. /\ DOMAIN waiting' = Ends /\ DOMAIN resend' = Ends
      /\ \A f \in Ends \ {e} :
           waiting'[f] = waiting[f] /\ resend'[f] = resend[f]
      /\ resend'[e] = {waiting[e][s].pkt : s \in DOMAIN waiting[e]}
      /\ resend'[e] \subseteq Packets(e)
      /\ DOMAIN waiting'[e] \subseteq SeqNums
      /\ \A s \in DOMAIN waiting'[e] :
           waiting'[e][s] \in [retries : 1 .. Retries, pkt : Packets(e)]
      /\ Inflight(e)' \subseteq resend'[e]
  <2>1. DOMAIN waiting[e] \subseteq SeqNums
    BY <1>2 DEF WriterOK
  <2>2. \A s \in DOMAIN waiting[e] :
          waiting[e][s] \in [retries : 1 .. Retries, pkt : Packets(e)]
    BY <1>2 DEF WriterOK
  <2>3. Packets(e)' = Packets(e)
    BY <1>0 DEF Packets
  <2> QED
    BY <1>0, <1>2, <2>1, <2>2, <2>3, RoundFacts
<1>4. TypeOK'
  <2>1. Whole'
    BY <1>0, <1>2, <1>3 DEF Whole
  <2>2. \A f \in Ends : Packets(f)' = Packets(f)
    BY <1>0 DEF Packets
  <2>3. \A f \in Ends \ {e} : WriterOK(f)'
    BY <1>0, <1>2, <1>3, WriterFrame
  <2>4. WriterOK(e)'
    <3>1. Written' = Written /\ sent'[e] \in Seq(Written) /\ line'[e] \in Seq(Packets(e))
      BY <1>0, <1>2 DEF WriterOK, Written
    <3> QED
      BY <1>3, <2>2, <3>1 DEF WriterOK
  <2> QED
    BY <1>0, <1>1, <2>1, <2>3, <2>4, TypePartsNext, ReadersTyped DEF IInv
<1>5. \A f \in Ends : Pending(f)' \subseteq Pending(f)
  <2> SUFFICES ASSUME NEW f \in Ends
               PROVE  Pending(f)' \subseteq Pending(f)
    OBVIOUS
  <2>1. CASE f = e
    BY <1>0, <1>3, <2>1 DEF Pending, Inflight
  <2>2. CASE f # e
    BY <1>0, <1>3, <2>2 DEF Pending, Inflight
  <2> QED
    BY <2>1, <2>2
<1> QED
  BY <1>0, <1>1, <1>4, <1>5, ReadersKept, TimelyKept DEF IInv

LEMMA ResendStep ==
  ASSUME IInv, NEW e \in Ends, NEW p \in resend[e], Resend(e, p)
  PROVE  IInv'
<1>0. /\ UNCHANGED <<rx, waiting, sent, cache, got, now, offered>>
      /\ resend' = [resend EXCEPT ![e] = @ \ {p}]
      /\ Write(e, p)
  BY DEF Resend, reader
<1>1. SentKept
  BY <1>0 DEF SentKept, Packets
<1>2. Whole /\ \A f \in Ends : WriterOK(f)
  BY TypeParts DEF IInv
<1>3. p \in Packets(e) /\ line[e] \in Seq(Packets(e)) /\ Packets(e)' = Packets(e)
  BY <1>0, <1>2 DEF WriterOK, Packets
<1>4. /\ DOMAIN line' = Ends /\ losses' \in 0 .. MaxLosses
      /\ \A f \in Ends \ {e} : line'[f] = line[f]
      /\ line'[e] \in Seq(Packets(e))
      /\ \A i \in 1 .. Len(line'[e]) :
           line'[e][i] = p \/ \E j \in 1 .. Len(line[e]) : line'[e][i] = line[e][j]
  BY <1>0, <1>2, <1>3, WriteFacts
<1>5. /\ DOMAIN resend' = Ends /\ resend'[e] = resend[e] \ {p}
      /\ \A f \in Ends \ {e} : resend'[f] = resend[f]
  BY <1>0, <1>2 DEF Whole
<1>6. TypeOK'
  <2>1. Whole'
    BY <1>0, <1>2, <1>4, <1>5 DEF Whole
  <2>2. \A f \in Ends : Packets(f)' = Packets(f)
    BY <1>0 DEF Packets
  <2>3. \A f \in Ends \ {e} : WriterOK(f)'
    BY <1>0, <1>2, <1>4, <1>5, WriterFrame
  <2>4. WriterOK(e)'
    <3>1. Written' = Written /\ sent'[e] \in Seq(Written)
      BY <1>0, <1>2 DEF WriterOK, Written
    <3>2. waiting'[e] = waiting[e] /\ resend'[e] \subseteq Packets(e)
      BY <1>0, <1>2, <1>5 DEF WriterOK
    <3> QED
      BY <1>2, <1>4, <2>2, <3>1, <3>2 DEF WriterOK
  <2> QED
    BY <1>0, <1>1, <2>1, <2>3, <2>4, TypePartsNext, ReadersTyped DEF IInv
<1>7. \A f \in Ends : Pending(f)' \subseteq Pending(f)
  <2> SUFFICES ASSUME NEW f \in Ends
               PROVE  Pending(f)' \subseteq Pending(f)
    OBVIOUS
  <2>1. CASE f = e
    BY <1>0, <1>4, <1>5, <2>1 DEF Pending, Inflight
  <2>2. CASE f # e
    BY <1>0, <1>4, <1>5, <2>2 DEF Pending, Inflight
  <2> QED
    BY <2>1, <2>2
<1> QED
  BY <1>0, <1>1, <1>6, <1>7, ReadersKept, TimelyKept DEF IInv

(* handle_data: one more packet, made now, and a retry round.              *)
LEMMA TakeStep ==
  ASSUME IInv, NEW e \in Ends, Take(e)
  PROVE  IInv'
<1> DEFINE p == Len(sent[e]) + 1
           s == (p - 1) % SeqMod
           new == [seq_num |-> s, data |-> Head(rx[e]), at |-> now]
           m == [t \in DOMAIN waiting[e] \cup {s} |->
                   IF t = s THEN [retries |-> Retries, pkt |-> p]
                            ELSE waiting[e][t]]
<1>0. /\ UNCHANGED <<cache, got, now, offered>>
      /\ rx[e] # <<>> /\ rx' = [rx EXCEPT ![e] = Tail(@)]
      /\ sent' = [sent EXCEPT ![e] = Append(@, new)]
      /\ Write(e, p) /\ Round(e, m)
  BY DEF Take, reader
<1>1. Whole /\ \A f \in Ends : WriterOK(f)
  BY TypeParts DEF IInv
<1>2. Len(sent[e]) \in Nat /\ s \in SeqNums
  <2>1. Len(sent[e]) \in Nat
    BY PacketTypes DEF IInv
  <2>2. p - 1 \in Nat
    BY <2>1
  <2> QED
    BY <2>1, <2>2, ModInRange
<1>3. new \in Written
  <2>1. rx[e] \in Seq(Payloads)
    BY <1>1 DEF Whole
  <2>2. Head(rx[e]) \in Payloads
    BY <1>0, <2>1, HeadTailProperties
  <2>3. now \in 0 .. now
    BY <1>1 DEF Whole
  <2> QED
    BY <1>2, <2>2, <2>3 DEF Written
<1>4. /\ DOMAIN sent' = Ends /\ \A f \in Ends \ {e} : sent'[f] = sent[f]
      /\ sent'[e] = Append(sent[e], new)
      /\ sent'[e] \in Seq(Written) /\ Len(sent'[e]) = p
      /\ \A q \in 1 .. Len(sent[e]) : sent'[e][q] = sent[e][q]
      /\ sent'[e][p] = new
  <2>1. /\ DOMAIN sent' = Ends /\ \A f \in Ends \ {e} : sent'[f] = sent[f]
        /\ sent'[e] = Append(sent[e], new)
    BY <1>0, <1>1 DEF Whole
  <2>2. sent[e] \in Seq(Written)
    BY <1>1 DEF WriterOK
  <2> QED
    BY <1>3, <2>1, <2>2, AppendProperties
<1>5. /\ Packets(e)' = 1 .. p /\ Packets(e) = 1 .. Len(sent[e])
      /\ \A f \in Ends \ {e} : Packets(f)' = Packets(f)
      /\ Packets(e) \subseteq Packets(e)' /\ p \in Packets(e)'
  BY <1>2, <1>4 DEF Packets
<1>6. SentKept
  BY <1>4, <1>5 DEF SentKept, Packets
<1>7. /\ DOMAIN waiting' = Ends /\ DOMAIN resend' = Ends
      /\ \A f \in Ends \ {e} :
           waiting'[f] = waiting[f] /\ resend'[f] = resend[f]
      /\ resend'[e] = {m[t].pkt : t \in DOMAIN m}
      /\ resend'[e] \subseteq Packets(e)'
      /\ DOMAIN waiting'[e] \subseteq SeqNums
      /\ \A t \in DOMAIN waiting'[e] :
           waiting'[e][t] \in [retries : 1 .. Retries, pkt : Packets(e)']
      /\ Inflight(e)' \subseteq resend'[e]
  <2>1. DOMAIN m \subseteq SeqNums
    BY <1>1, <1>2 DEF WriterOK
  <2>2. \A t \in DOMAIN m : m[t] \in [retries : 1 .. Retries, pkt : Packets(e)']
    <3>1. [retries |-> Retries, pkt |-> p] \in [retries : 1 .. Retries, pkt : Packets(e)']
      BY <1>5 DEF Retries
    <3>2. \A t \in DOMAIN waiting[e] :
            waiting[e][t] \in [retries : 1 .. Retries, pkt : Packets(e)']
      BY <1>1, <1>5 DEF WriterOK
    <3> QED
      BY <3>1, <3>2
  <2> HIDE DEF m
  <2> QED
    BY <1>0, <1>1, <2>1, <2>2, RoundFacts
<1>8. /\ DOMAIN line' = Ends /\ losses' \in 0 .. MaxLosses
      /\ \A f \in Ends \ {e} : line'[f] = line[f]
      /\ line'[e] \in Seq(Packets(e)')
      /\ \A i \in 1 .. Len(line'[e]) :
           line'[e][i] = p \/ \E j \in 1 .. Len(line[e]) : line'[e][i] = line[e][j]
  <2>1. line[e] \in Seq(Packets(e)')
    BY <1>1, <1>5, SeqMonotonic DEF WriterOK
  <2> QED
    BY <1>0, <1>1, <1>5, <2>1, WriteFacts
<1>9. TypeOK'
  <2>1. rx' \in [Ends -> Seq(Payloads)]
    <3>1. rx[e] \in Seq(Payloads) /\ Tail(rx[e]) \in Seq(Payloads)
      BY <1>0, <1>1, HeadTailProperties DEF Whole
    <3> QED
      BY <1>0, <1>1, <3>1 DEF Whole
  <2>2. Whole'
    BY <1>0, <1>1, <1>4, <1>7, <1>8, <2>1 DEF Whole
  <2>3. WriterOK(e)'
    BY <1>0, <1>4, <1>7, <1>8 DEF WriterOK, Written
  <2>4. \A f \in Ends \ {e} : WriterOK(f)'
    BY <1>0, <1>1, <1>4, <1>7, <1>8, WriterFrame
  <2> QED
    BY <1>0, <1>6, <2>2, <2>3, <2>4, TypePartsNext, ReadersTyped DEF IInv
<1>10. ASSUME NEW t \in DOMAIN m
       PROVE  m[t].pkt = p \/ (t \in DOMAIN waiting[e] /\ m[t].pkt = waiting[e][t].pkt)
  <2>1. CASE t = s
    <3>1. m[t] = [retries |-> Retries, pkt |-> p]
      BY <2>1
    <3> QED
      BY <3>1
  <2>2. CASE t # s
    <3>1. t \in DOMAIN waiting[e] /\ m[t] = waiting[e][t]
      BY <2>2
    <3> QED
      BY <3>1
  <2> QED
    BY <2>1, <2>2
<1>11. sent'[e][p].at = now
  BY <1>4
<1> HIDE DEF m, p, s, new
<1>12. \A f \in Ends : \A q \in Pending(f)' : q \in Pending(f) \/ sent'[f][q].at = now
  <2> SUFFICES ASSUME NEW f \in Ends, NEW q \in Pending(f)'
               PROVE  q \in Pending(f) \/ sent'[f][q].at = now
    OBVIOUS
  <2>1. CASE f = e
    <3>1. CASE q \in resend'[e]
      <4>1. PICK t \in DOMAIN m : q = m[t].pkt
        BY <1>7, <3>1
      <4> QED
        BY <1>10, <1>11, <2>1, <4>1 DEF Pending, Inflight
    <3>2. CASE \E i \in 1 .. Len(line'[e]) : q = line'[e][i]
      BY <1>8, <1>11, <2>1, <3>2 DEF Pending
    <3> QED
      BY <1>7, <2>1, <3>1, <3>2 DEF Pending
  <2>2. CASE f # e
    BY <1>7, <1>8, <2>2 DEF Pending, Inflight
  <2> QED
    BY <2>1, <2>2
<1> QED
  BY <1>0, <1>6, <1>9, <1>12, ReadersKept, TimelyKept DEF IInv

-----------------------------------------------------------------------------
(* The reader's steps. *)

(* The frame that a reader takes leaves the line. *)
LEMMA ReceiveFacts ==
  ASSUME IInv, NEW e \in Ends, line[Other(e)] # <<>>, Receive(e)
  PROVE  /\ DOMAIN line' = Ends /\ line'[e] = line[e]
         /\ Head(line[Other(e)]) \in Pending(Other(e))
         /\ line'[Other(e)] \in Seq(Packets(Other(e)))
         /\ \A i \in 1 .. Len(line'[Other(e)]) :
              \E j \in 1 .. Len(line[Other(e)]) :
                line'[Other(e)][i] = line[Other(e)][j]
<1> DEFINE o == Other(e)
<1>1. o \in Ends /\ o # e /\ Whole /\ WriterOK(o)
  BY OtherIsAnEnd, TypeParts DEF IInv
<1>2. line'[o] = Tail(line[o]) /\ line'[e] = line[e] /\ DOMAIN line' = Ends
  BY <1>1 DEF Receive, Whole
<1>3. line[o] \in Seq(Packets(o)) /\ line[o] # <<>>
  BY <1>1 DEF WriterOK
<1>4. /\ Tail(line[o]) \in Seq(Packets(o)) /\ Len(Tail(line[o])) = Len(line[o]) - 1
      /\ \A i \in 1 .. Len(Tail(line[o])) : Tail(line[o])[i] = line[o][i + 1]
      /\ Len(line[o]) \in Nat \ {0}
  BY <1>3, HeadTailProperties, EmptySeq
<1>5. \A i \in 1 .. Len(line'[o]) : i + 1 \in 1 .. Len(line[o]) /\ line'[o][i] = line[o][i + 1]
  BY <1>2, <1>4
<1>6. Head(line[o]) = line[o][1] /\ 1 \in 1 .. Len(line[o])
  BY <1>3, <1>4
<1>7. Head(line[o]) \in Pending(o)
  BY <1>6 DEF Pending
<1> QED
  BY <1>2, <1>4, <1>5, <1>7

(* What both readers' steps keep: the types of the writers and Timely.     *)
LEMMA ReceiveKeeps ==
  ASSUME IInv, NEW e \in Ends, line[Other(e)] # <<>>, Receive(e),
         UNCHANGED <<waiting, resend, sent, now>>
  PROVE  (\A f \in Ends : WriterOK(f)') /\ Timely'
<1>1. Other(e) \in Ends /\ Other(e) # e /\ \A f \in Ends : f = e \/ f = Other(e)
  BY OtherIsAnEnd
<1>2. \A f \in Ends : WriterOK(f) /\ Packets(f)' = Packets(f)
  BY TypeParts DEF IInv, Packets
<1>3. \A f \in Ends : WriterOK(f)'
  <2>1. WriterOK(e)'
    BY <1>2, ReceiveFacts DEF WriterOK, Written
  <2>2. WriterOK(Other(e))'
    BY <1>1, <1>2, ReceiveFacts DEF WriterOK, Written
  <2> QED
    BY <1>1, <2>1, <2>2
<1>4. Pending(e)' \subseteq Pending(e) /\ Pending(Other(e))' \subseteq Pending(Other(e))
  BY ReceiveFacts DEF Pending, Inflight
<1>5. SentKept
  BY DEF SentKept, Packets
<1> QED
  BY <1>1, <1>3, <1>4, <1>5, TimelyKept

LEMMA RefuseStep ==
  ASSUME IInv, NEW e \in Ends, Refuse(e)
  PROVE  IInv'
<1>0. /\ UNCHANGED <<rx, waiting, resend, sent, cache, got, now, offered, losses>>
      /\ line[Other(e)] # <<>> /\ Receive(e)
  BY DEF Refuse, writer, reader
<1>1. SentKept
  BY <1>0 DEF SentKept, Packets
<1>2. (\A f \in Ends : WriterOK(f)') /\ Timely'
  BY <1>0, ReceiveKeeps
<1>3. Whole'
  BY <1>0, TypeParts, ReceiveFacts DEF IInv, Whole
<1>4. TypeOK'
  BY <1>0, <1>1, <1>2, <1>3, TypePartsNext, ReadersTyped DEF IInv
<1> QED
  BY <1>0, <1>1, <1>2, <1>4, ReadersKept DEF IInv

(* SeqNumCache::insert accepts: the cooldown of the number has run out,    *)
(* and with it the time of all copies of packets handed on before.         *)
LEMMA AcceptStep ==
  ASSUME IInv, NEW e \in Ends, Accept(e)
  PROVE  IInv'
<1> DEFINE o == Other(e)
           p == Head(line[o])
           s == SeqOf(o, p)
           one == [pkt |-> p, at |-> now]
           L == Len(got[e])
<1>0. /\ UNCHANGED <<waiting, resend, sent, now, offered, losses>>
      /\ line[o] # <<>> /\ Receive(e) /\ Fresh(e, s)
      /\ cache' = Stamped(e, s)
      /\ rx' = [rx EXCEPT ![e] = Append(@, [kind |-> "Ack", seq_num |-> s])]
      /\ got' = [got EXCEPT ![e] = Append(@, one)]
  BY DEF Accept
<1>1. o \in Ends /\ o # e /\ Other(o) = e /\ Whole /\ \A f \in Ends : f = e \/ f = o
  BY OtherIsAnEnd, TypeParts DEF IInv
<1>2. p \in Pending(o) /\ p \in Packets(o) /\ s \in SeqNums /\ sent[o][p].at \in 0 .. now
  BY <1>0, <1>1, ReceiveFacts, PendingArePackets, PacketTypes DEF IInv
<1>3. now \in Nat /\ now <= sent[o][p].at + Span
  BY <1>1, <1>2 DEF IInv, Timely, Whole
<1>4. \A f \in Ends : ReaderOK(f) /\ Packets(f)' = Packets(f)
  BY <1>0, TypeParts DEF IInv, Packets
<1>5. one \in HandedOver(e)
  BY <1>2, <1>3 DEF HandedOver
<1>6. /\ L \in Nat /\ Len(got'[e]) = L + 1 /\ got'[e] \in Seq(HandedOver(e))
      /\ \A i \in 1 .. L : got'[e][i] = got[e][i]
      /\ got'[e][L + 1] = one
      /\ got'[o] = got[o] /\ DOMAIN got' = Ends
  <2>1. got[e] \in Seq(HandedOver(e)) /\ L \in Nat
    BY <1>4, LenProperties DEF ReaderOK
  <2>2. got'[e] = Append(got[e], one) /\ got'[o] = got[o] /\ DOMAIN got' = Ends
    BY <1>0, <1>1 DEF Whole
  <2> QED
    BY <1>5, <2>1, <2>2, AppendProperties
<1>7. /\ DOMAIN cache' = Ends /\ cache'[o] = cache[o]
      /\ DOMAIN cache'[e] = DOMAIN cache[e] \cup {s}
      /\ cache'[e][s] = now
      /\ \A t \in DOMAIN cache[e] \ {s} : cache'[e][t] = cache[e][t]
  <2>1. cache'[e] = [t \in DOMAIN cache[e] \cup {s} |->
                       IF t = s THEN now ELSE cache[e][t]]
    BY <1>0, <1>1 DEF Stamped, Whole
  <2>2. DOMAIN cache' = Ends /\ cache'[o] = cache[o]
    BY <1>0, <1>1 DEF Stamped, Whole
  <2> QED
    BY <2>1, <2>2
<1>8. (\A f \in Ends : WriterOK(f)') /\ Timely'
  BY <1>0, <1>1, ReceiveKeeps
<1>9. TypeOK'
  <2>1. rx' \in [Ends -> Seq(Payloads)]
    <3>1. [kind |-> "Ack", seq_num |-> s] \in Payloads
      BY <1>2 DEF Payloads
    <3>2. Append(rx[e], [kind |-> "Ack", seq_num |-> s]) \in Seq(Payloads)
      BY <1>1, <3>1, AppendProperties DEF Whole
    <3> QED
      BY <1>0, <1>1, <3>2 DEF Whole
  <2>2. Whole'
    BY <1>0, <1>1, <1>6, <1>7, <2>1, ReceiveFacts DEF Whole
  <2>3. ReaderOK(e)'
    <3>1. HandedOver(e)' = HandedOver(e)
      BY <1>0, <1>1, <1>4 DEF HandedOver
    <3>2. DOMAIN cache'[e] \subseteq SeqNums
      BY <1>2, <1>4, <1>7 DEF ReaderOK
    <3>3. \A t \in DOMAIN cache'[e] : cache'[e][t] \in 0 .. now
      <4>1. now \in 0 .. now
        BY <1>3
      <4>2. \A t \in DOMAIN cache[e] : cache[e][t] \in 0 .. now
        BY <1>4 DEF ReaderOK
      <4> QED
        BY <1>7, <4>1, <4>2
    <3> QED
      BY <1>0, <1>6, <3>1, <3>2, <3>3 DEF ReaderOK
  <2>4. ReaderOK(o)'
    BY <1>0, <1>1, <1>4, <1>6, <1>7 DEF ReaderOK, HandedOver
  <2> QED
    BY <1>1, <1>8, <2>2, <2>3, <2>4, TypePartsNext
<1>10. \A f \in Ends : \A q \in Packets(f) : SeqOf(f, q)' = SeqOf(f, q)
  BY <1>0 DEF SeqOf
<1>11. \A f \in Ends : \A i \in 1 .. Len(got[f]) :
         /\ got[f][i].pkt \in Packets(Other(f))
         /\ SeqOf(Other(f), got[f][i].pkt) \in SeqNums
         /\ got[f][i].at \in 0 .. now
  BY PacketTypes, OtherIsAnEnd DEF IInv
<1>12. Remembered'
  <2> SUFFICES ASSUME NEW f \in Ends, NEW i \in 1 .. Len(got'[f])
               PROVE  /\ sent'[Other(f)][got'[f][i].pkt].at <= got'[f][i].at
                      /\ SeqOf(Other(f), got'[f][i].pkt) \in DOMAIN cache'[f]
                      /\ got'[f][i].at <= cache'[f][SeqOf(Other(f), got'[f][i].pkt)]
    BY <1>0 DEF Remembered, SeqOf
  <2>1. CASE f = o
    BY <1>0, <1>1, <1>6, <1>7, <2>1 DEF IInv, Remembered, SeqOf
  <2>2. CASE f = e /\ i = L + 1
    <3>1. got'[f][i].pkt = p /\ got'[f][i].at = now
      BY <1>6, <2>2
    <3>2. SeqOf(Other(f), got'[f][i].pkt) = s
      BY <1>0, <2>2, <3>1 DEF SeqOf
    <3> QED
      BY <1>0, <1>2, <1>3, <1>7, <2>2, <3>1, <3>2
  <2>3. CASE f = e /\ i \in 1 .. L
    <3> DEFINE t == SeqOf(o, got[e][i].pkt)
    <3>1. got'[f][i] = got[e][i] /\ SeqOf(Other(f), got'[f][i].pkt) = t
      BY <1>0, <1>6, <2>3 DEF SeqOf
    <3>2. sent[o][got[e][i].pkt].at <= got[e][i].at /\ t \in DOMAIN cache[e]
          /\ got[e][i].at <= cache[e][t]
      BY <2>3 DEF IInv, Remembered
    <3>3. got[e][i].at <= now
      BY <1>3, <1>11, <2>3
    <3>4. CASE t = s
      BY <1>0, <1>7, <2>3, <3>1, <3>2, <3>3, <3>4
    <3>5. CASE t # s
      BY <1>0, <1>7, <2>3, <3>1, <3>2, <3>5
    <3> QED
      BY <3>4, <3>5
  <2> QED
    BY <1>1, <1>6, <2>1, <2>2, <2>3
<1>13. ASSUME NEW f \in Ends, NEW t \in DOMAIN cache'[f]
       PROVE  \E i \in 1 .. Len(got'[f]) :
                /\ sent'[Other(f)][got'[f][i].pkt].seq_num = t
                /\ got'[f][i].at = cache'[f][t]
  <2>1. CASE f = o
    <3>1. t \in DOMAIN cache[o] /\ cache'[f][t] = cache[o][t] /\ got'[f] = got[o]
      BY <1>6, <1>7, <2>1
    <3>2. PICK i \in 1 .. Len(got[o]) :
            SeqOf(Other(o), got[o][i].pkt) = t /\ got[o][i].at = cache[o][t]
      BY <1>1, <3>1 DEF IInv, Stamps
    <3> QED
      BY <1>0, <2>1, <3>1, <3>2 DEF SeqOf
  <2>2. CASE f = e /\ t = s
    <3>1. L + 1 \in 1 .. Len(got'[f]) /\ got'[f][L + 1] = one
      BY <1>6, <2>2
    <3>2. sent'[Other(f)][one.pkt].seq_num = s
      BY <1>0, <2>2 DEF SeqOf
    <3> QED
      BY <1>7, <2>2, <3>1, <3>2
  <2>3. CASE f = e /\ t # s
    <3>1. PICK i \in 1 .. L : SeqOf(o, got[e][i].pkt) = t /\ got[e][i].at = cache[e][t]
      BY <1>7, <2>3 DEF IInv, Stamps
    <3>2. i \in 1 .. Len(got'[f]) /\ got'[f][i] = got[e][i]
      BY <1>6, <2>3
    <3> QED
      BY <1>0, <1>7, <2>3, <3>1, <3>2 DEF SeqOf
  <2> QED
    BY <1>1, <2>1, <2>2, <2>3
<1>14. Stamps'
  BY <1>13 DEF Stamps, SeqOf
<1>15. \A i \in 1 .. L : got[e][i].pkt # p
  <2> SUFFICES ASSUME NEW i \in 1 .. L, got[e][i].pkt = p
               PROVE  FALSE
    OBVIOUS
  <2>1. /\ sent[o][p].at <= got[e][i].at
        /\ s \in DOMAIN cache[e] /\ got[e][i].at <= cache[e][s]
    BY DEF IInv, Remembered
  <2>2. cache[e][s] < now - Cooldown
    BY <1>0, <2>1 DEF Fresh
  <2>3. cache[e][s] \in Nat /\ got[e][i].at \in Nat /\ sent[o][p].at \in Nat
    BY <1>2, <1>4, <1>11, <2>1 DEF ReaderOK
  <2> HIDE DEF s, p, o
  <2> QED
    BY <1>3, <2>1, <2>2, <2>3
<1>16. AtMostOnce'
  <2> SUFFICES ASSUME NEW f \in Ends, NEW i \in 1 .. Len(got'[f]),
                      NEW j \in 1 .. Len(got'[f]), got'[f][i].pkt = got'[f][j].pkt
               PROVE  i = j
    BY DEF AtMostOnce
  <2>1. CASE f = o
    BY <1>1, <1>6, <2>1 DEF IInv, AtMostOnce
  <2>2. CASE f = e
    <3>1. got'[e][L + 1].pkt = p
      BY <1>6
    <3>2. \A k \in 1 .. L : got'[e][k].pkt = got[e][k].pkt /\ got'[e][k].pkt # p
      BY <1>6, <1>15
    <3>3. \A k \in 1 .. L + 1 : k \in 1 .. L \/ k = L + 1
      BY <1>6
    <3> QED
      BY <1>6, <2>2, <3>1, <3>2, <3>3 DEF IInv, AtMostOnce
  <2> QED
    BY <1>1, <2>1, <2>2
<1> QED
  BY <1>8, <1>9, <1>12, <1>14, <1>16 DEF IInv

-----------------------------------------------------------------------------
(* Time passes while every copy has time left. *)
LEMMA TickStep == IInv /\ Tick => IInv'
<1> SUFFICES ASSUME IInv, Tick PROVE IInv'
  OBVIOUS
<1>0. /\ UNCHANGED <<rx, waiting, resend, sent, cache, got, line, offered, losses>>
      /\ now < MaxTime /\ now' = now + 1
      /\ \A e \in Ends : \A p \in Pending(e) : now < sent[e][p].at + Span
  BY DEF Tick, writer, reader
<1>1. Whole /\ \A e \in Ends : WriterOK(e) /\ ReaderOK(e)
  BY TypeParts DEF IInv
<1>2. now \in Nat /\ 0 .. now \subseteq 0 .. now'
  BY <1>0, <1>1 DEF Whole
<1>3. TypeOK'
  <2>1. Whole'
    BY <1>0, <1>1 DEF Whole
  <2>2. \A e \in Ends : WriterOK(e)' /\ ReaderOK(e)'
    <3> SUFFICES ASSUME NEW e \in Ends
                 PROVE  WriterOK(e)' /\ ReaderOK(e)'
      OBVIOUS
    <3>1. Packets(e)' = Packets(e) /\ Packets(Other(e))' = Packets(Other(e))
      BY <1>0 DEF Packets
    <3>2. Written \subseteq Written'
      BY <1>2 DEF Written
    <3>3. HandedOver(e) \subseteq HandedOver(e)'
      BY <1>2, <3>1 DEF HandedOver
    <3>4. sent[e] \in Seq(Written') /\ got[e] \in Seq(HandedOver(e)')
      BY <1>1, <3>2, <3>3, SeqMonotonic DEF WriterOK, ReaderOK
    <3>5. WriterOK(e)'
      BY <1>0, <1>1, <3>1, <3>4 DEF WriterOK
    <3>6. ReaderOK(e)'
      BY <1>0, <1>1, <1>2, <3>4 DEF ReaderOK
    <3> QED
      BY <3>5, <3>6
  <2> QED
    BY <2>1, <2>2, TypePartsNext
<1>4. Timely'
  <2> SUFFICES ASSUME NEW e \in Ends, NEW p \in Pending(e)'
               PROVE  now' <= sent'[e][p].at + Span
    BY DEF Timely
  <2>1. p \in Pending(e) /\ p \in Packets(e)
    BY <1>0, PendingArePackets DEF IInv, Pending, Inflight
  <2>2. sent[e][p].at \in Nat
    BY <1>2, <2>1, PacketTypes DEF IInv
  <2> QED
    BY <1>0, <1>2, <2>1, <2>2
<1>5. SentKept
  BY <1>0 DEF SentKept, Packets
<1> QED
  BY <1>0, <1>3, <1>4, <1>5, ReadersKept DEF IInv

LEMMA StepIInv == IInv /\ [Next]_vars => IInv'
<1> SUFFICES ASSUME IInv, [Next]_vars PROVE IInv'
  OBVIOUS
<1>1. ASSUME NEW e \in Ends, Writer(e) PROVE IInv'
  BY <1>1, TakeStep, TimeoutStep, ResendStep DEF Writer
<1>2. ASSUME NEW e \in Ends, Reader(e) PROVE IInv'
  BY <1>2, AcceptStep, RefuseStep DEF Reader
<1>3. CASE UNCHANGED vars
  <2>0. UNCHANGED <<rx, waiting, resend, sent, cache, got, line, now, offered, losses>>
    BY <1>3 DEF vars, writer, reader
  <2>1. SentKept /\ \A f \in Ends : Pending(f)' = Pending(f)
    BY <2>0 DEF SentKept, Packets, Pending, Inflight
  <2>2. TypeOK'
    BY <2>0, <2>1, TypeParts, TypePartsNext, WriterFrame, ReadersTyped DEF IInv, Whole
  <2> QED
    BY <2>0, <2>1, <2>2, ReadersKept, TimelyKept DEF IInv
<1> QED
  BY <1>1, <1>2, <1>3, OfferStep, TickStep DEF Next

-----------------------------------------------------------------------------
(* The inductive invariant holds in every state of two linked ends.        *)
THEOREM Invariance == Spec => []IInv
<1>1. Init => IInv
  BY InitIInv
<1>2. IInv /\ [Next]_vars => IInv'
  BY StepIInv
<1> QED
  BY <1>1, <1>2, PTL DEF Spec

(* However often a packet is written, and whatever the line loses, its     *)
(* data is handed on at most once, at either end.                          *)
THEOREM HandedOnOnce == Spec => []AtMostOnce
<1>1. IInv => AtMostOnce
  BY DEF IInv
<1> QED
  BY <1>1, Invariance, PTL

(* A copy is dropped only if its packet was handed on, or another one with *)
(* its number was, at most Cooldown ago.                                   *)
THEOREM DropsAreRepeats == Spec => OnlyRepeatsDropped
<1> DEFINE Dropped(e) ==
      Len(line'[Other(e)]) < Len(line[Other(e)])
      => LET p == Head(line[Other(e)])
         IN  \/ p \in Handed(e)'
             \/ \E i \in 1 .. Len(got[e]) :
                  /\ SeqOf(Other(e), got[e][i].pkt) = SeqOf(Other(e), p)
                  /\ got[e][i].at >= now - Cooldown
<1>1. IInv /\ [Next]_vars => [\A e \in Ends : Dropped(e)]_vars
  <2> SUFFICES ASSUME IInv, Next, NEW e \in Ends,
                      Len(line'[Other(e)]) < Len(line[Other(e)])
               PROVE  LET p == Head(line[Other(e)])
                      IN  \/ p \in Handed(e)'
                          \/ \E i \in 1 .. Len(got[e]) :
                               /\ SeqOf(Other(e), got[e][i].pkt) = SeqOf(Other(e), p)
                               /\ got[e][i].at >= now - Cooldown
    OBVIOUS
  <2> DEFINE o == Other(e)
  <2>0. /\ o \in Ends /\ o # e /\ Other(o) = e /\ \A f \in Ends : f = e \/ f = o
        /\ Whole /\ WriterOK(o) /\ Len(line[o]) \in Nat
    BY OtherIsAnEnd, TypeParts, LenProperties DEF IInv, WriterOK
  <2>1. Accept(e) \/ Refuse(e)
    <3>1. line'[o] # line[o]
      BY <2>0
    <3>2. ASSUME NEW f \in Ends, Reader(f) PROVE f = e
      BY <2>0, <3>1, <3>2 DEF Reader, Accept, Refuse, Receive, Whole
    <3>3. ASSUME NEW f \in Ends, NEW p, Write(f, p) PROVE FALSE
      <4>1. line'[o] = Append(line[o], p)
        BY <2>0, <3>1, <3>3 DEF Write, Whole
      <4>2. line[o] \in Seq(Packets(o) \cup {p})
        BY <2>0, SeqMonotonic DEF WriterOK
      <4>3. Len(line'[o]) = Len(line[o]) + 1
        BY <4>1, <4>2, AppendProperties
      <4> QED
        BY <2>0, <4>3
    <3>4. ~ Offer /\ ~ Tick
      BY <3>1 DEF Offer, Tick
    <3>5. \A f \in Ends : ~ Writer(f)
      BY <3>1, <3>3 DEF Writer, Take, Timeout, Resend
    <3> QED
      BY <3>2, <3>4, <3>5 DEF Next, Reader
  <2>2. CASE Accept(e)
    <3>1. got'[e] = Append(got[e], [pkt |-> Head(line[o]), at |-> now])
      BY <2>0, <2>2 DEF Accept, Whole
    <3>2. got[e] \in Seq(HandedOver(e))
      BY TypeParts DEF IInv, ReaderOK
    <3>3. got[e] \in Seq(HandedOver(e) \cup {[pkt |-> Head(line[o]), at |-> now]})
      BY <3>2, SeqMonotonic
    <3>4. Len(got'[e]) = Len(got[e]) + 1 /\ Len(got[e]) \in Nat
          /\ got'[e][Len(got[e]) + 1] = [pkt |-> Head(line[o]), at |-> now]
      BY <3>1, <3>3, AppendProperties, LenProperties
    <3>5. Len(got[e]) + 1 \in 1 .. Len(got'[e])
          /\ got'[e][Len(got[e]) + 1].pkt = Head(line[o])
      BY <3>4
    <3> QED
      BY <3>5 DEF Handed
  <2>3. CASE Refuse(e)
    <3> DEFINE s == SeqOf(o, Head(line[o]))
    <3>1. s \in DOMAIN cache[e] /\ ~(cache[e][s] < now - Cooldown)
      BY <2>3 DEF Refuse, Fresh
    <3>2. PICK i \in 1 .. Len(got[e]) :
            SeqOf(o, got[e][i].pkt) = s /\ got[e][i].at = cache[e][s]
      BY <3>1 DEF IInv, Stamps
    <3>3. got[e][i].at \in Nat /\ now \in Nat
      BY PacketTypes DEF IInv
    <3>4. got[e][i].at >= now - Cooldown
      BY <3>1, <3>2, <3>3
    <3> QED
      BY <3>2, <3>4
  <2> QED
    BY <2>1, <2>2, <2>3
<1> QED
  BY <1>1, Invariance, PTL DEF Spec, OnlyRepeatsDropped
=============================================================================
