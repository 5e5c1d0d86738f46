----------------------------- MODULE SerialLink -----------------------------
(***************************************************************************)
(* Two ends of a serial line that both run the serial transport (src/      *)
(* transport/serial/mod.rs): the writer with its retries, and the reader,  *)
(* which hands on a packet unless its sequence number is on cooldown       *)
(* (SeqNumCache) and puts an Ack for it on the channel of its own writer.  *)
(*                                                                         *)
(* The writer wraps whatever is on its channel in an AckPacket, an Ack     *)
(* too.  No frame on this line is an Ack by itself, so no reader touches   *)
(* waiting_for_ack, and the writer's steps between two writes are one here *)
(* (SerialArq has them apart, with a reader that does).  A packet is its   *)
(* ordinal among those of its end.  The line keeps the order of frames and *)
(* may lose some.                                                          *)
(***************************************************************************)
EXTENDS Integers, Sequences

CONSTANTS
  SeqMod,      (* number of sequence numbers                               *)
  Cooldown,    (* SeqNumCache.timeout, 10 s                                *)
  Span,        (* longest time from the first write of a packet to the     *)
               (* arrival of its last copy                                 *)
  MaxUser,     (* bound: packets that the user of end "a" sends            *)
  MaxMade,     (* bound: packets that end "a" makes, Acks included          *)
  MaxReplies,  (* bound: packets that end "b" makes, all of them Acks       *)
  MaxLine,     (* bound: frames on the line, each way                      *)
  MaxLosses,   (* bound: frames that the line loses                        *)
  MaxTime      (* bound: the clock                                         *)

ASSUME SeqModAssumption == SeqMod \in Nat /\ SeqMod >= 3
ASSUME TimeAssumption == Cooldown \in Nat /\ Span \in Nat /\ MaxTime \in Nat
(* The three retries take 300 ms at most, the cooldown is 10 s.            *)
ASSUME SpanAssumption == Span <= Cooldown
ASSUME BoundsAssumption ==
  /\ MaxUser \in Nat /\ MaxMade \in Nat /\ MaxReplies \in Nat
  /\ MaxLine \in Nat \ {0} /\ MaxLosses \in Nat

Ends == {"a", "b"}
Other(e) == IF e = "a" THEN "b" ELSE "a"
Retries == 3
SeqNums == 0 .. SeqMod - 1

VARIABLES
  rx,       (* channel to each end's writer: "user" data and Acks          *)
  waiting,  (* waiting_for_ack: sequence number -> retries left, packet    *)
  resend,   (* the local `writes` of handle_unacked_data                   *)
  cache,    (* SeqNumCache.seq_nums: sequence number -> time accepted      *)
  line,     (* frames on their way from each end                           *)
  now,      (* the clock                                                   *)
  sent,     (* history: packets of each end, with their first write        *)
  got,      (* history: packets each end has handed on, with the time      *)
  offered,  (* history: packets of the user                                *)
  losses    (* history: frames lost                                        *)

writer == <<rx, waiting, resend, sent>>
reader == <<cache, got>>
vars == <<writer, reader, line, now, offered, losses>>

Payloads == [kind : {"user"}] \cup [kind : {"Ack"}, seq_num : SeqNums]
Packets(e) == 1 .. Len(sent[e])
Limit(e) == IF e = "a" THEN MaxMade ELSE MaxReplies
SeqOf(e, p) == sent[e][p].seq_num
Inflight(e) == {waiting[e][s].pkt : s \in DOMAIN waiting[e]}
Pending(e) ==
  Inflight(e) \cup resend[e] \cup {line[e][i] : i \in 1 .. Len(line[e])}
Handed(e) == {got[e][i].pkt : i \in 1 .. Len(got[e])}

TypeOK ==
  /\ rx \in [Ends -> Seq(Payloads)]
  /\ DOMAIN sent = Ends /\ DOMAIN waiting = Ends /\ DOMAIN resend = Ends
  /\ DOMAIN cache = Ends /\ DOMAIN line = Ends /\ DOMAIN got = Ends
  /\ \A e \in Ends :
       /\ sent[e] \in Seq([seq_num : SeqNums, data : Payloads, at : 0 .. now])
       /\ DOMAIN waiting[e] \subseteq SeqNums
       /\ \A s \in DOMAIN waiting[e] :
            waiting[e][s] \in [retries : 1 .. Retries, pkt : Packets(e)]
       /\ resend[e] \subseteq Packets(e) /\ line[e] \in Seq(Packets(e))
       /\ DOMAIN cache[e] \subseteq SeqNums
       /\ \A s \in DOMAIN cache[e] : cache[e][s] \in 0 .. now
       /\ got[e] \in Seq([pkt : Packets(Other(e)), at : 0 .. now])
  /\ now \in 0 .. MaxTime /\ offered \in 0 .. MaxUser /\ losses \in 0 .. MaxLosses

Init ==
  /\ rx = [e \in Ends |-> <<>>]
  /\ waiting = [e \in Ends |-> <<>>] /\ resend = [e \in Ends |-> {}]
  /\ cache = [e \in Ends |-> <<>>] /\ line = [e \in Ends |-> <<>>]
  /\ now = 0
  /\ sent = [e \in Ends |-> <<>>] /\ got = [e \in Ends |-> <<>>]
  /\ offered = 0 /\ losses = 0

Offer ==
  /\ offered < MaxUser
  /\ rx' = [rx EXCEPT !["a"] = Append(@, [kind |-> "user"])]
  /\ offered' = offered + 1
  /\ UNCHANGED <<waiting, resend, sent, reader, line, now, losses>>

-----------------------------------------------------------------------------
(* The writer. *)

(* write_to_stream: the line takes the frame, or loses it.                 *)
Write(e, p) ==
  \/ /\ Len(line[e]) < MaxLine
     /\ line' = [line EXCEPT ![e] = Append(@, p)]
     /\ UNCHANGED losses
  \/ /\ losses < MaxLosses
     /\ losses' = losses + 1
     /\ UNCHANGED line

(* Mutant: the last retry is counted but not written. *)
RoundWithoutLast(e, m) ==
  /\ resend' = [resend EXCEPT ![e] =
                  {m[s].pkt : s \in {t \in DOMAIN m : m[t].retries > 1}}]
  /\ waiting' = [waiting EXCEPT ![e] =
                   [s \in {t \in DOMAIN m : m[t].retries > 1} |->
                      [m[s] EXCEPT !.retries = @ - 1]]]

(* Mutant: an entry without a retry left stays in the map. *)
RoundKeepsSpent(e, m) ==
  /\ resend' = [resend EXCEPT ![e] = {m[s].pkt : s \in DOMAIN m}]
  /\ waiting' = [waiting EXCEPT ![e] =
                   [s \in DOMAIN m |-> [m[s] EXCEPT !.retries = @ - 1]]]

(* handle_unacked_data on the map m: every entry loses a retry and is to be*)
(* written once more; those without a retry left are removed.              *)
Round(e, m) ==
  /\ resend' = [resend EXCEPT ![e] = {m[s].pkt : s \in DOMAIN m}]
  /\ waiting' = [waiting EXCEPT ![e] =
                   [s \in {t \in DOMAIN m : m[t].retries > 1} |->
                      [m[s] EXCEPT !.retries = @ - 1]]]

(* Data from the channel: handle_data writes it as an AckPacket, under the *)
(* next sequence number, and marks it; a retry round follows.              *)
Take(e) ==
  /\ resend[e] = {} /\ rx[e] # <<>> /\ Len(sent[e]) < Limit(e)
  /\ LET p == Len(sent[e]) + 1
         s == (p - 1) % SeqMod
     IN  /\ sent' = [sent EXCEPT ![e] =
                       Append(@, [seq_num |-> s, data |-> Head(rx[e]), at |-> now])]
         /\ Write(e, p)
         /\ Round(e, [t \in DOMAIN waiting[e] \cup {s} |->
                        IF t = s THEN [retries |-> Retries, pkt |-> p]
                                 ELSE waiting[e][t]])
  /\ rx' = [rx EXCEPT ![e] = Tail(@)]
  /\ UNCHANGED <<reader, now, offered>>

(* Nothing comes within 100 ms. *)
Timeout(e) ==
  /\ resend[e] = {} /\ (rx[e] = <<>> \/ Len(sent[e]) = Limit(e))
  /\ DOMAIN waiting[e] # {}
  /\ Round(e, waiting[e])
  /\ UNCHANGED <<rx, sent, reader, line, now, offered, losses>>

Resend(e, p) ==
  /\ p \in resend[e]
  /\ resend' = [resend EXCEPT ![e] = @ \ {p}]
  /\ Write(e, p)
  /\ UNCHANGED <<rx, waiting, sent, reader, now, offered>>

Writer(e) == Take(e) \/ Timeout(e) \/ \E p \in resend[e] : Resend(e, p)

-----------------------------------------------------------------------------
(* The reader: handle_ack_packet for the next frame of the other end.      *)

(* Mutant: the cooldown ends with its last instant. *)
FreshEarly(e, s) == s \in DOMAIN cache[e] => cache[e][s] <= now - Cooldown

(* SeqNumCache::insert accepts s: the instant is before now - timeout.     *)
Fresh(e, s) == s \in DOMAIN cache[e] => cache[e][s] < now - Cooldown

Receive(e) == line' = [line EXCEPT ![Other(e)] = Tail(@)]
Stamped(e, s) ==
  [cache EXCEPT ![e] = [t \in DOMAIN @ \cup {s} |-> IF t = s THEN now ELSE @[t]]]

Accept(e) ==
  /\ line[Other(e)] # <<>>
  /\ LET p == Head(line[Other(e)])
         s == SeqOf(Other(e), p)
     IN  /\ Fresh(e, s)
         /\ cache' = Stamped(e, s)
         /\ rx' = [rx EXCEPT ![e] = Append(@, [kind |-> "Ack", seq_num |-> s])]
         /\ got' = [got EXCEPT ![e] = Append(@, [pkt |-> p, at |-> now])]
  /\ Receive(e)
  /\ UNCHANGED <<waiting, resend, sent, now, offered, losses>>

(* Mutant: a refused packet starts the cooldown anew. *)
RefuseRestamps(e) ==
  /\ line[Other(e)] # <<>>
  /\ LET s == SeqOf(Other(e), Head(line[Other(e)]))
     IN  ~Fresh(e, s) /\ cache' = Stamped(e, s)
  /\ Receive(e)
  /\ UNCHANGED <<writer, got, now, offered, losses>>

Refuse(e) ==
  /\ line[Other(e)] # <<>>
  /\ ~Fresh(e, SeqOf(Other(e), Head(line[Other(e)])))
  /\ Receive(e)
  /\ UNCHANGED <<writer, reader, now, offered, losses>>

Reader(e) == Accept(e) \/ Refuse(e)

(* Time passes, but no copy of a packet is later than Span.                *)
Tick ==
  /\ now < MaxTime
  /\ \A e \in Ends : \A p \in Pending(e) : now < sent[e][p].at + Span
  /\ now' = now + 1
  /\ UNCHANGED <<writer, reader, line, offered, losses>>

Next == Offer \/ Tick \/ \E e \in Ends : Writer(e) \/ Reader(e)

Spec == Init /\ [][Next]_vars

(* The threads run; recv_timeout returns, and so does a read that has      *)
(* something to read.  Nothing is assumed of the line.                     *)
FairSpec == Spec /\ \A e \in Ends : WF_vars(Writer(e)) /\ WF_vars(Reader(e))

-----------------------------------------------------------------------------
(* However often a packet is written, and whatever is lost, its data is    *)
(* handed on at most once: the cooldown outlasts the last of its copies.   *)
AtMostOnce ==
  \A e \in Ends : \A i, j \in 1 .. Len(got[e]) :
    got[e][i].pkt = got[e][j].pkt => i = j

(* Why: no copy of a packet is on its way longer than Span,                *)
Timely ==
  \A e \in Ends : \A p \in Pending(e) : now <= sent[e][p].at + Span

(* the cache knows of every packet handed on, no earlier than it was, and  *)
(* a packet is handed on after it was written;                             *)
Remembered ==
  \A e \in Ends : \A i \in 1 .. Len(got[e]) :
    LET s == SeqOf(Other(e), got[e][i].pkt)
    IN  /\ sent[Other(e)][got[e][i].pkt].at <= got[e][i].at
        /\ s \in DOMAIN cache[e] /\ got[e][i].at <= cache[e][s]

(* and what the cache says of a number was so: a packet with this number   *)
(* was handed on then.                                                     *)
Stamps ==
  \A e \in Ends : \A s \in DOMAIN cache[e] : \E i \in 1 .. Len(got[e]) :
    SeqOf(Other(e), got[e][i].pkt) = s /\ got[e][i].at = cache[e][s]

(* With the types, what every step keeps (SerialLinkProofs).               *)
IInv == TypeOK /\ Timely /\ Remembered /\ Stamps /\ AtMostOnce

(* A number that is on cooldown for its own packet only, or no more, costs *)
(* nothing: a copy is dropped only if its packet was handed on, or another *)
(* one with this number was at most Cooldown ago.                          *)
OnlyRepeatsDropped ==
  [][\A e \in Ends :
       Len(line'[Other(e)]) < Len(line[Other(e)])
       => LET p == Head(line[Other(e)])
          IN  \/ p \in Handed(e)'
              \/ \E i \in 1 .. Len(got[e]) :
                   /\ SeqOf(Other(e), got[e][i].pkt) = SeqOf(Other(e), p)
                   /\ got[e][i].at >= now - Cooldown]_vars

(* Three losses are made good: for every packet made, data under its number*)
(* is handed on in the end (its own, unless its number is on cooldown for  *)
(* another packet).                                                        *)
HandedOn ==
  \A e \in Ends : \A p \in 1 .. Limit(e) :
    p \in Packets(e) ~>
      \/ /\ p \in Packets(e)
         /\ \E q \in Handed(Other(e)) : SeqOf(e, q) = SeqOf(e, p)

-----------------------------------------------------------------------------
(* What the repository says of an Ack and the code does not do.            *)

(* The test test_ack_handling expects that the Ack with the sequence number*)
(* of a packet removes it from waiting_for_ack: with the Ack of a packet   *)
(* back at its end, no further retry of it is planned.                     *)
AckSettles ==
  \A e \in Ends : \A i \in 1 .. Len(got[e]) :
    LET d == sent[Other(e)][got[e][i].pkt].data
    IN  d.kind = "Ack" => ~ \E p \in Inflight(e) :
          SeqOf(e, p) = d.seq_num /\ sent[e][p].at < got[e][i].at
=============================================================================
