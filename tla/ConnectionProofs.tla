-------------------------- MODULE ConnectionProofs --------------------------
(***************************************************************************)
(* The safety of Connection for any dispatchers with and without a thread, *)
(* any bounds on events and data, whatever the user holds and drops and    *)
(* whether or not the transport may fail.  IInv is inductive; one lemma    *)
(* per part of it shows that every step keeps that part.                   *)
(***************************************************************************)
EXTENDS Connection, TLAPS

USE DispatchersAssumption, BoundsAssumption

Given == Seq(0 .. MaxEvents + 1)

-----------------------------------------------------------------------------
(* What the two appends to a dispatcher's channel do: HandOn, and the Stop *)
(* of StopDispatcher.                                                      *)

Puts(d, x) == given' = [given EXCEPT ![d] = Append(@, x)]

LEMMA PutFacts ==
  ASSUME TypeOK, NEW d \in Dispatchers, NEW x \in 0 .. MaxEvents + 1, Puts(d, x)
  PROVE  /\ given' \in [Dispatchers -> Given]
         /\ \A f \in Dispatchers \ {d} : given'[f] = given[f]
         /\ Len(given[d]) \in Nat /\ Len(given'[d]) = Len(given[d]) + 1
         /\ \A i \in 1 .. Len(given[d]) : given'[d][i] = given[d][i]
         /\ given'[d][Len(given[d]) + 1] = x
         /\ \A f \in Dispatchers : Len(given'[f]) >= Len(given[f])
         /\ \A i \in 1 .. Len(given'[d]) :
              i \in 1 .. Len(given[d]) \/ i = Len(given[d]) + 1
<1>1. given \in [Dispatchers -> Given] /\ given[d] \in Given
  BY DEF TypeOK, Given
<1>2. /\ given' = [given EXCEPT ![d] = Append(given[d], x)]
      /\ Append(given[d], x) \in Given
  BY <1>1 DEF Puts, Given
<1>3. /\ given' \in [Dispatchers -> Given]
      /\ \A f \in Dispatchers \ {d} : given'[f] = given[f]
      /\ given'[d] = Append(given[d], x)
  BY <1>1, <1>2
<1>4. \A f \in Dispatchers : Len(given[f]) \in Nat
  BY <1>1 DEF Given
<1>5. /\ Len(given'[d]) = Len(given[d]) + 1
      /\ \A i \in 1 .. Len(given[d]) : given'[d][i] = given[d][i]
      /\ given'[d][Len(given[d]) + 1] = x
  BY <1>1, <1>3 DEF Given
<1> QED
  BY <1>3, <1>4, <1>5

LEMMA PutHas ==
  ASSUME TypeOK, NEW d \in Dispatchers, NEW x \in 0 .. MaxEvents + 1, Puts(d, x),
         NEW f \in Dispatchers, NEW k
  PROVE  Has(f, k)' <=> Has(f, k) \/ (f = d /\ k = x)
<1>1. CASE f = d
  BY <1>1, PutFacts DEF Has
<1>2. CASE f # d
  BY <1>2, PutFacts DEF Has
<1> QED
  BY <1>1, <1>2

LEMMA HasFrame ==
  ASSUME given' = given, NEW f, NEW k
  PROVE  Has(f, k)' <=> Has(f, k)
BY DEF Has

(* What an event does to the log. *)
LEMMA EmitFacts ==
  ASSUME TypeOK, NEW s \in SUBSET Dispatchers, NEW ev, NEW k, T!Emit(ev, k),
         ev \in T!EventsOfKind, k \in Nat,
         to' = Append(to, s)
  PROVE  /\ log' \in Seq([ev : T!EventsOfKind, session : Nat])
         /\ to' \in Seq(SUBSET Dispatchers)
         /\ Len(log) \in Nat /\ Len(log') = Len(log) + 1 /\ Len(to') = Len(log')
         /\ \A i \in 1 .. Len(log) : to'[i] = to[i]
<1>1. /\ log \in Seq([ev : T!EventsOfKind, session : Nat])
      /\ [ev |-> ev, session |-> k] \in [ev : T!EventsOfKind, session : Nat]
      /\ log' = Append(log, [ev |-> ev, session |-> k])
  BY DEF TypeOK, T!TypeOK, T!Emit
<1>2. /\ log' \in Seq([ev : T!EventsOfKind, session : Nat])
      /\ Len(log) \in Nat /\ Len(log') = Len(log) + 1
  BY <1>1
<1>3. /\ to' \in Seq(SUBSET Dispatchers) /\ Len(to') = Len(to) + 1
      /\ \A i \in 1 .. Len(to) : to'[i] = to[i]
  BY DEF TypeOK
<1> QED
  BY <1>2, <1>3 DEF TypeOK

(* A step of the transport: the log only grows.                            *)
Grows ==
  /\ T!TypeOK' /\ to' \in Seq(SUBSET Dispatchers) /\ Len(to') = Len(log')
  /\ Len(log) \in Nat /\ Len(log') \in Nat
  /\ Len(log) <= Len(log') /\ Len(log') <= MaxEvents + 1
  /\ \A i \in 1 .. Len(log) : to'[i] = to[i]
  /\ oversized \subseteq 1 .. Len(log)
  /\ oversized' \subseteq 1 .. Len(log') /\ oversized \subseteq oversized'

LEMMA EventGrows ==
  ASSUME TypeOK, Len(log) <= MaxEvents,
         oversized' \in {oversized, oversized \cup {Len(log) + 1}}, NEW s \in SUBSET Dispatchers, to' = Append(to, s),
         NEW ev \in T!EventsOfKind, T!Emit(ev, session'), session' \in Nat,
         phase' \in {"down", "up", "closing"}
  PROVE  Grows
<1>1. /\ log' \in Seq([ev : T!EventsOfKind, session : Nat])
      /\ to' \in Seq(SUBSET Dispatchers)
      /\ Len(log) \in Nat /\ Len(log') = Len(log) + 1 /\ Len(to') = Len(log')
      /\ \A i \in 1 .. Len(log) : to'[i] = to[i]
  BY EmitFacts
<1>2. T!TypeOK'
  BY <1>1 DEF T!TypeOK
<1>3. oversized \subseteq 1 .. Len(log)
  BY DEF TypeOK
<1>4. oversized' \subseteq 1 .. Len(log') /\ oversized \subseteq oversized'
  <2>1. \A x \in oversized' : x \in oversized \/ x = Len(log) + 1
    OBVIOUS
  <2>2. \A x \in 1 .. Len(log) : x \in 1 .. Len(log')
    BY <1>1
  <2>3. Len(log) + 1 \in 1 .. Len(log')
    BY <1>1
  <2> QED
    BY <1>3, <2>1, <2>2, <2>3
<1> QED
  BY <1>1, <1>2, <1>3, <1>4 DEF Grows

LEMMA TransportGrows ==
  ASSUME TypeOK, Len(log) <= MaxEvents + 1, TransportStep
  PROVE  Grows
<1>0. Len(log) \in Nat /\ Len(to) = Len(log)
      /\ T!TypeOK /\ to \in Seq(SUBSET Dispatchers) /\ oversized \subseteq 1 .. Len(log)
  BY DEF TypeOK, T!TypeOK
<1>t. session \in Nat /\ phase \in {"down", "up", "closing"}
  BY <1>0 DEF T!TypeOK
<1>1. ASSUME NEW s \in SUBSET Dispatchers, to' = Append(to, s), Len(log) <= MaxEvents,
             oversized' \in {oversized, oversized \cup {Len(log) + 1}},
             (session' = session + 1 /\ T!Connect) \/ T!Disconnect \/ T!FailedAttempt
             \/ T!Deliver
      PROVE  Grows
  <2>2. CASE session' = session + 1 /\ T!Connect
    <3>1. T!Emit("Connected", session') /\ phase' = "up" /\ session' \in Nat
      BY <2>2 DEF T!Connect
    <3> QED
      BY <1>1, <3>1, EventGrows DEF T!EventsOfKind
  <2>3. CASE T!Disconnect
    <3>1. T!Emit("Disconnected", session') /\ phase' = "closing" /\ session' = session
      BY <2>3 DEF T!Disconnect
    <3> QED
      BY <1>1, <1>t, <3>1, EventGrows DEF T!EventsOfKind
  <2>4. CASE T!FailedAttempt
    <3>1. T!Emit("Disconnected", session') /\ phase' = "down" /\ session' = session
      BY <2>4 DEF T!FailedAttempt
    <3> QED
      BY <1>1, <1>t, <3>1, EventGrows DEF T!EventsOfKind
  <2>5. CASE T!Deliver
    <3>1. T!Emit("Data", session') /\ phase' = phase /\ session' = session
      BY <2>5 DEF T!Deliver
    <3> QED
      BY <1>1, <1>t, <3>1, EventGrows DEF T!EventsOfKind
  <2> QED
    BY <1>1, <2>2, <2>3, <2>4, <2>5
<1>2. CASE Emits
  <2>1. CASE T!Settle /\ UNCHANGED <<to, oversized>>
    BY <1>0, <2>1 DEF T!Settle, T!TypeOK, Grows
  <2>2. CASE ~(T!Settle /\ UNCHANGED <<to, oversized>>)
    <3>1. PICK s \in SUBSET Dispatchers : to' = Append(to, s)
      BY <1>2, <2>2 DEF Emits
    <3> QED
      BY <1>0, <1>1, <1>2, <2>2, <3>1 DEF Emits
  <2> QED
    BY <2>1, <2>2
<1>3. CASE LastDisconnect
  <2>1. Len(log) <= MaxEvents /\ oversized' = oversized
    BY <1>0, <1>3, BoundsAssumption DEF LastDisconnect
  <2> QED
    BY <1>1, <1>3, <2>1 DEF LastDisconnect
<1>4. CASE TransportStops \/ TransportPanics
  <2>1. UNCHANGED <<phase, session, log, to, oversized>>
    BY <1>4 DEF TransportStops, TransportPanics, events
  <2>2. T!TypeOK'
    BY <1>0, <2>1 DEF T!TypeOK
  <2> QED
    BY <1>0, <2>1, <2>2 DEF Grows
<1> QED
  BY <1>2, <1>3, <1>4 DEF TransportStep

-----------------------------------------------------------------------------
(* Types. *)

(* TypeOK by its parts: the log and who it concerns, the threads, what is  *)
(* on the channels to dispatchers and on those from the user.              *)
LogOK ==
  /\ T!TypeOK /\ to \in Seq(SUBSET Dispatchers) /\ Len(to) = Len(log)
  /\ oversized \subseteq 1 .. Len(log)
ThreadsOK ==
  /\ transport \in {"running", "stopping", "stopped", "panicked"}
  /\ taken \in 0 .. Len(log) /\ todo \subseteq Dispatchers
  /\ am \in [Dispatchers -> {"run", "done", "panicked"}]
  /\ worker \in [Workers -> {"loop", "send", "done", "panicked"}]
  /\ ctl \subseteq Workers
  /\ conn \in {"wait", "signal", "join", "done", "panicked"}
  /\ control \in {"open", "sent", "dropped"}
  /\ held \subseteq Held
  /\ caller \in {"no", "transport", "dispatchers", "joining", "join", "ok",
                 "err", "dropped"}
  /\ rest \subseteq Dispatchers /\ errors \in BOOLEAN
GivenOK ==
  /\ given \in [Dispatchers -> Given]
  /\ amTaken \in [Dispatchers -> Nat]
  /\ \A d \in Dispatchers : amTaken[d] <= Len(given[d])
SentOK ==
  /\ sent \in [Dispatchers -> 0 .. MaxSends]
  /\ sentOn \in [Dispatchers -> Nat]
  /\ \A d \in Dispatchers : sentOn[d] <= sent[d]

LEMMA TypeParts == TypeOK <=> LogOK /\ ThreadsOK /\ GivenOK /\ SentOK
BY DEF TypeOK, LogOK, ThreadsOK, GivenOK, SentOK, Given

LEMMA TypePartsNext == LogOK' /\ ThreadsOK' /\ GivenOK' /\ SentOK' => TypeOK'
BY DEF TypeOK, LogOK, ThreadsOK, GivenOK, SentOK, Given

LEMMA TypeFrame ==
  ASSUME LogOK, GivenOK, SentOK
  PROVE  /\ UNCHANGED events => LogOK'
         /\ UNCHANGED <<given, amTaken>> => GivenOK'
         /\ UNCHANGED <<sent, sentOn>> => SentOK'
BY DEF events, LogOK, T!TypeOK, GivenOK, SentOK

LEMMA PutTypes ==
  ASSUME TypeOK, NEW d \in Dispatchers, NEW x \in 0 .. MaxEvents + 1, Puts(d, x),
         UNCHANGED amTaken
  PROVE  GivenOK'
<1>1. /\ given' \in [Dispatchers -> Given]
      /\ \A f \in Dispatchers : Len(given'[f]) \in Nat /\ Len(given'[f]) >= Len(given[f])
  BY PutFacts DEF Given
<1>2. GivenOK /\ \A f \in Dispatchers : Len(given[f]) \in Nat
  BY TypeParts DEF GivenOK, Given
<1> QED
  BY <1>1, <1>2 DEF GivenOK

LEMMA TypeStep ==
  ASSUME TypeOK, HandedSoFar, [Next]_vars
  PROVE  TypeOK'
<1> USE DEF inward, amVars, outward, threads, stopper, Goto, Workers
<1>0. /\ Len(log) \in Nat /\ Len(log) <= MaxEvents + 1
      /\ LogOK /\ ThreadsOK /\ GivenOK /\ SentOK
  BY TypeParts DEF HandedSoFar, LogOK, T!TypeOK
<1>1. CASE TransportStep
  <2>1. Grows
    BY <1>0, <1>1, TransportGrows
  <2>2. /\ UNCHANGED <<inward, amVars, outward, threads, held, stopper>>
        /\ transport' \in {"running", "stopping", "stopped", "panicked"}
    BY <1>0, <1>1 DEF TransportStep, Emits, LastDisconnect, TransportStops,
                      TransportPanics, ThreadsOK
  <2>3. LogOK' /\ ThreadsOK'
    BY <1>0, <2>1, <2>2 DEF LogOK, ThreadsOK, Grows
  <2> QED
    BY <1>0, <2>2, <2>3, TypeFrame, TypePartsNext
<1>2. CASE ConnStep
  <2>1. UNCHANGED <<events, inward, amVars, outward>> /\ ThreadsOK'
    BY <1>0, <1>2 DEF ThreadsOK, events, ConnStep, Awake, Signal, AllSignalled,
                      JoinWorkers
  <2> QED
    BY <1>0, <2>1, TypeFrame, TypePartsNext
<1>3. CASE Stop \/ DropConnection
  <2>1. UNCHANGED <<events, inward, amVars, outward>> /\ ThreadsOK'
    BY <1>0, <1>3 DEF ThreadsOK, events, Stop, DropConnection
  <2> QED
    BY <1>0, <2>1, TypeFrame, TypePartsNext
<1>4. CASE CallerStep
  <2>1. UNCHANGED <<events, amVars, outward>> /\ ThreadsOK'
    BY <1>0, <1>4 DEF ThreadsOK, events, CallerStep, StopTransport, StopDispatcher,
                      JoinDispatcher, SendControl, JoinConnection
  <2>2. given' = given \/ \E d \in Dispatchers : Puts(d, 0)
    BY <1>4 DEF CallerStep, StopTransport, StopDispatcher,
                JoinDispatcher, SendControl, JoinConnection, Puts
  <2>3. GivenOK'
    BY <1>0, <2>1, <2>2, PutTypes, TypeFrame
  <2> QED
    BY <1>0, <2>1, <2>3, TypeFrame, TypePartsNext
<1>5. ASSUME NEW w \in Workers, WorkerStep(w)
      PROVE  TypeOK'
  <2>1. CASE TakeEvent
    <3>1. /\ UNCHANGED <<events, given, amVars, outward>>
          /\ UNCHANGED <<transport, ctl, conn, held, stopper>>
      BY <2>1 DEF TakeEvent
    <3>2. to[taken + 1] \subseteq Dispatchers /\ taken + 1 \in 0 .. Len(log)
      BY <1>0, <2>1 DEF LogOK, ThreadsOK, TakeEvent
    <3>3. /\ taken' \in 0 .. Len(log) /\ todo' \subseteq Dispatchers
          /\ worker' \in [Workers -> {"loop", "send", "done", "panicked"}]
      BY <1>0, <2>1, <3>2 DEF TakeEvent, ThreadsOK
    <3>4. ThreadsOK'
      BY <1>0, <3>1, <3>3 DEF ThreadsOK, events
    <3> QED
      BY <1>0, <3>1, <3>4, TypeFrame, TypePartsNext
  <2>2. ASSUME NEW d \in Dispatchers, HandOn(d)
        PROVE  TypeOK'
    <3>1. UNCHANGED <<events, amVars, outward>> /\ ThreadsOK'
      BY <1>0, <2>2 DEF HandOn, events, ThreadsOK
    <3>2. taken \in 0 .. MaxEvents + 1 /\ (given' = given \/ Puts(d, taken))
      BY <1>0, <2>2 DEF HandOn, Puts, ThreadsOK
    <3>3. GivenOK'
      BY <1>0, <3>1, <3>2, PutTypes, TypeFrame
    <3> QED
      BY <1>0, <3>1, <3>3, TypeFrame, TypePartsNext
  <2>3. CASE Quit(w) \/ NoMoreEvents \/ NoMoreSent(w)
    <3>1. UNCHANGED <<events, inward, amVars, outward>> /\ ThreadsOK'
      BY <1>0, <2>3 DEF ThreadsOK, events, Quit, NoMoreEvents, NoMoreSent
    <3> QED
      BY <1>0, <3>1, TypeFrame, TypePartsNext
  <2>4. CASE w \in Dispatchers /\ SendOn(w)
    <3>1. UNCHANGED <<events, inward, amVars>> /\ ThreadsOK'
      BY <1>0, <2>4 DEF ThreadsOK, events, SendOn
    <3>2. SentOK'
      BY <1>0, <2>4 DEF SentOK, SendOn
    <3> QED
      BY <1>0, <3>1, <3>2, TypeFrame, TypePartsNext
  <2> QED
    BY <1>5, <2>1, <2>2, <2>3, <2>4 DEF WorkerStep
<1>6. ASSUME NEW d \in AM, AMStep(d) \/ AMOrphaned(d)
      PROVE  TypeOK'
  <2>1. d \in Dispatchers
    BY DEF Dispatchers
  <2>2. UNCHANGED <<events, outward, given>> /\ ThreadsOK'
    BY <1>0, <1>6, <2>1 DEF ThreadsOK, events, AMStep, AMOrphaned
  <2>3. GivenOK'
    <3>1. \A f \in Dispatchers : Len(given[f]) \in Nat
      BY <1>0 DEF GivenOK, Given
    <3>2. \/ amTaken' = amTaken
          \/ /\ amTaken' = [amTaken EXCEPT ![d] = amTaken[d] + 1]
             /\ amTaken[d] < Len(given[d])
      BY <1>6 DEF AMStep, AMOrphaned
    <3> QED
      BY <1>0, <2>1, <2>2, <3>1, <3>2 DEF GivenOK
  <2> QED
    BY <1>0, <2>2, <2>3, TypeFrame, TypePartsNext
<1>7. ASSUME NEW d \in Dispatchers, UserSends(d) \/ UserDrops(d)
      PROVE  TypeOK'
  <2>1. UNCHANGED <<events, inward, amVars>> /\ ThreadsOK'
    BY <1>0, <1>7 DEF ThreadsOK, events, UserSends, UserDrops
  <2>2. SentOK'
    BY <1>0, <1>7 DEF SentOK, UserSends, UserDrops
  <2> QED
    BY <1>0, <2>1, <2>2, TypeFrame, TypePartsNext
<1>8. CASE UNCHANGED vars
  <2>1. UNCHANGED <<events, inward, amVars, outward>> /\ ThreadsOK'
    BY <1>0, <1>8 DEF ThreadsOK, events, vars
  <2> QED
    BY <1>0, <2>1, TypeFrame, TypePartsNext
<1> QED
  BY <1>1, <1>2, <1>3, <1>4, <1>5, <1>6, <1>7, <1>8 DEF Next

-----------------------------------------------------------------------------
(* What the dispatchers are handed.                                        *)

Delivery == InOrder /\ HandedSoFar

LEMMA Numbers ==
  ASSUME TypeOK
  PROVE  /\ taken \in Nat /\ Len(log) \in Nat /\ taken <= Len(log)
         /\ todo \subseteq Dispatchers
         /\ \A d \in Dispatchers : Len(given[d]) \in Nat
         /\ \A d \in Dispatchers : \A i \in 1 .. Len(given[d]) : given[d][i] \in Nat
BY TypeParts DEF ThreadsOK, LogOK, T!TypeOK, GivenOK, Given

(* An event on its place in what d has been handed.                        *)
Placed(d, i) ==
  /\ given[d][i] \in 1 .. Len(log) /\ d \in to[given[d][i]]
  /\ \A j \in 1 .. i - 1 : given[d][j] < given[d][i]
  /\ \A k \in 1 .. given[d][i] - 1 : d \in to[k] => \E j \in 1 .. i - 1 : given[d][j] = k

LEMMA PlacedInOrder ==
  InOrder <=> \A d \in Dispatchers : \A i \in 1 .. Len(given[d]) :
                given[d][i] # 0 => Placed(d, i)
BY DEF InOrder, Placed

LEMMA PlacedInOrderNext ==
  (\A d \in Dispatchers : \A i \in 1 .. Len(given'[d]) :
     given'[d][i] # 0 => Placed(d, i)') => InOrder'
BY DEF InOrder, Placed

(* It stays there as the log grows.                                        *)
LEMMA PlacedKept ==
  ASSUME TypeOK, NEW d \in Dispatchers, NEW i \in 1 .. Len(given[d]), Placed(d, i),
         Len(log') \in Nat, Len(log) <= Len(log'),
         \A k \in 1 .. Len(log) : to'[k] = to[k],
         \A j \in 1 .. i : given'[d][j] = given[d][j]
  PROVE  Placed(d, i)'
<1> DEFINE n == given[d][i]
<1>0. Len(log) \in Nat /\ i \in Nat
  BY Numbers
<1>1. /\ n \in 1 .. Len(log) /\ d \in to[n]
      /\ \A j \in 1 .. i - 1 : given[d][j] < n
      /\ \A k \in 1 .. n - 1 : d \in to[k] => \E j \in 1 .. i - 1 : given[d][j] = k
  BY DEF Placed
<1>2. given'[d][i] = n /\ \A j \in 1 .. i - 1 : given'[d][j] = given[d][j]
  BY <1>0
<1> HIDE DEF n
<1>3. n \in 1 .. Len(log') /\ d \in to'[n]
  BY <1>0, <1>1
<1>4. \A k \in 1 .. n - 1 : d \in to'[k] => \E j \in 1 .. i - 1 : given'[d][j] = k
  <2> SUFFICES ASSUME NEW k \in 1 .. n - 1, d \in to'[k]
               PROVE  \E j \in 1 .. i - 1 : given'[d][j] = k
    OBVIOUS
  <2>1. k \in 1 .. Len(log)
    BY <1>0, <1>1
  <2>2. PICK j \in 1 .. i - 1 : given[d][j] = k
    BY <1>1, <2>1
  <2> QED
    BY <1>2, <2>2
<1>5. \A j \in 1 .. i - 1 : given'[d][j] < n
  BY <1>1, <1>2
<1> QED
  BY <1>2, <1>3, <1>4, <1>5 DEF Placed

(* A step that hands nothing on, with or without a new event.              *)
LEMMA DeliveryFrame ==
  ASSUME TypeOK, Delivery, UNCHANGED inward,
         Len(log') \in Nat, Len(log) <= Len(log'), Len(log') <= MaxEvents + 1,
         \A i \in 1 .. Len(log) : to'[i] = to[i],
         worker'[TransportWorker] = "loop" => worker[TransportWorker] = "loop"
  PROVE  Delivery'
<1>0. UNCHANGED <<taken, todo, given>>
  BY DEF inward
<1>1. InOrder'
  BY <1>0, PlacedInOrder, PlacedInOrderNext, PlacedKept DEF Delivery
<1>2. \A d \in Dispatchers, k \in 1 .. taken : Has(d, k)' <=> Has(d, k)
  BY <1>0 DEF Has
<1>3. HandedSoFar'
  BY <1>0, <1>2, Numbers DEF Delivery, HandedSoFar
<1> QED
  BY <1>1, <1>3 DEF Delivery

LEMMA TakeDelivers ==
  ASSUME TypeOK, Delivery, TakeEvent
  PROVE  Delivery'
<1>0. /\ UNCHANGED <<log, to, given>> /\ todo = {} /\ taken' = taken + 1
      /\ todo' = to[taken + 1] /\ taken + 1 <= Len(log)
  BY Numbers DEF TakeEvent, events, Looping, Delivery, HandedSoFar
<1>1. InOrder'
  BY <1>0, Numbers, PlacedInOrder, PlacedInOrderNext, PlacedKept DEF Delivery
<1>2. worker'[TransportWorker] = "loop" => todo' = {}
  BY <1>0, TypeParts DEF TakeEvent, Goto, ThreadsOK, Workers
<1>3. \A d \in Dispatchers : \A k : Has(d, k)' <=> Has(d, k)
  BY <1>0 DEF Has
<1>4. HandedSoFar'
  BY <1>0, <1>2, <1>3, Numbers DEF Delivery, HandedSoFar
<1> QED
  BY <1>1, <1>4 DEF Delivery

(* 0, for Stop, changes nothing for the events.                            *)
LEMMA StopDelivers ==
  ASSUME TypeOK, Delivery, NEW d \in Dispatchers, Puts(d, 0),
         UNCHANGED <<events, taken, todo, worker>>
  PROVE  Delivery'
<1>0. UNCHANGED <<log, to, taken, todo, worker>> /\ 0 \in 0 .. MaxEvents + 1
  BY DEF events
<1> DEFINE L == Len(given[d])
<1>1. /\ L \in Nat /\ Len(given'[d]) = L + 1 /\ given'[d][L + 1] = 0
      /\ \A i \in 1 .. L : given'[d][i] = given[d][i]
      /\ \A f \in Dispatchers \ {d} : given'[f] = given[f]
  BY <1>0, PutFacts
<1> HIDE DEF L
<1>2. InOrder'
  <2> SUFFICES ASSUME NEW f \in Dispatchers, NEW i \in 1 .. Len(given'[f]),
                      given'[f][i] # 0
               PROVE  Placed(f, i)'
    BY PlacedInOrderNext
  <2>1. i \in 1 .. Len(given[f]) /\ \A j \in 1 .. i : given'[f][j] = given[f][j]
    BY <1>1 DEF L
  <2>2. Placed(f, i)
    BY <2>1, PlacedInOrder DEF Delivery
  <2> QED
    BY <1>0, <2>1, <2>2, Numbers, PlacedKept
<1>3. \A f \in Dispatchers, k \in 1 .. taken : Has(f, k) => Has(f, k)'
  BY <1>0, PutHas
<1>4. \A f \in Dispatchers : \A i \in 1 .. Len(given'[f]) :
        given'[f][i] <= taken /\ (f \in todo => given'[f][i] < taken)
  <2> SUFFICES ASSUME NEW f \in Dispatchers, NEW i \in 1 .. Len(given'[f])
               PROVE  given'[f][i] <= taken /\ (f \in todo => given'[f][i] < taken)
    OBVIOUS
  <2>0. taken \in Nat /\ (todo # {} => taken # 0)
    BY Numbers DEF Delivery, HandedSoFar
  <2>1. CASE f = d /\ i = L + 1
    BY <1>1, <2>0, <2>1
  <2>2. CASE f # d \/ i \in 1 .. L
    BY <1>1, <2>2 DEF Delivery, HandedSoFar, L
  <2> QED
    BY <1>1, <2>1, <2>2
<1>5. HandedSoFar'
  BY <1>0, <1>3, <1>4, Numbers DEF Delivery, HandedSoFar
<1> QED
  BY <1>2, <1>5 DEF Delivery

(* The event comes after all that d has, and d has all that come before.   *)
LEMMA HandOnDelivers ==
  ASSUME TypeOK, Delivery, NEW d \in Dispatchers, HandOn(d)
  PROVE  Delivery'
<1>0. UNCHANGED <<log, to, taken>> /\ d \in todo /\ worker[TransportWorker] = "send"
  BY DEF HandOn, events
<1>1. CASE ~Receives(d)
  <2>1. UNCHANGED <<given, todo>> /\ worker'[TransportWorker] = "panicked"
    BY <1>1, TypeParts DEF HandOn, Goto, ThreadsOK, Workers
  <2> QED
    BY <1>0, <2>1, Numbers, DeliveryFrame DEF inward, Delivery, HandedSoFar
<1>2. CASE Receives(d)
  <2> DEFINE L == Len(given[d])
  <2>0. /\ taken \in 1 .. Len(log) /\ taken \in 0 .. MaxEvents + 1
        /\ d \in to[taken] /\ todo \subseteq to[taken]
    BY <1>0, Numbers DEF Delivery, HandedSoFar
  <2>1. /\ Puts(d, taken) /\ todo' = todo \ {d}
        /\ worker'[TransportWorker] = "loop" => todo' = {}
    BY <1>2, TypeParts DEF HandOn, Puts, Goto, ThreadsOK, Workers
  <2>2. /\ L \in Nat /\ Len(given'[d]) = L + 1 /\ given'[d][L + 1] = taken
        /\ \A i \in 1 .. L : given'[d][i] = given[d][i]
        /\ \A f \in Dispatchers \ {d} : given'[f] = given[f]
    BY <2>0, <2>1, PutFacts
  <2>3. /\ \A i \in 1 .. L : given[d][i] < taken
        /\ \A k \in 1 .. taken - 1 : d \in to[k] => \E j \in 1 .. L : given[d][j] = k
    BY <1>0, Numbers DEF Delivery, HandedSoFar, Has
  <2> HIDE DEF L
  <2>4. InOrder'
    <3> SUFFICES ASSUME NEW f \in Dispatchers, NEW i \in 1 .. Len(given'[f]),
                        given'[f][i] # 0
                 PROVE  Placed(f, i)'
      BY PlacedInOrderNext
    <3>1. CASE f = d /\ i = L + 1
      <4>1. given'[d][i] = taken /\ i - 1 = L
        BY <2>2, <3>1
      <4>2. \A j \in 1 .. L : given'[d][j] < taken
        BY <2>2, <2>3
      <4>3. ASSUME NEW k \in 1 .. taken - 1, d \in to[k]
            PROVE  \E j \in 1 .. L : given'[d][j] = k
        <5>1. PICK j \in 1 .. L : given[d][j] = k
          BY <2>3, <4>3
        <5> QED
          BY <2>2, <5>1
      <4> QED
        BY <1>0, <2>0, <3>1, <4>1, <4>2, <4>3 DEF Placed
    <3>2. CASE f # d \/ i \in 1 .. L
      <4>1. i \in 1 .. Len(given[f]) /\ \A j \in 1 .. i : given'[f][j] = given[f][j]
        BY <2>2, <3>2 DEF L
      <4>2. Placed(f, i)
        BY <4>1, PlacedInOrder DEF Delivery
      <4> QED
        BY <1>0, <4>1, <4>2, Numbers, PlacedKept
    <3> QED
      BY <2>2, <3>1, <3>2
  <2>5. \A f \in Dispatchers, k \in 1 .. taken :
          Has(f, k)' <=> Has(f, k) \/ (f = d /\ k = taken)
    BY <2>0, <2>1, PutHas
  <2>6. HandedSoFar'
    <3>1. \A f \in Dispatchers : \A i \in 1 .. Len(given'[f]) :
            given'[f][i] <= taken /\ (f \in todo' => given'[f][i] < taken)
      <4> SUFFICES ASSUME NEW f \in Dispatchers, NEW i \in 1 .. Len(given'[f])
                   PROVE  given'[f][i] <= taken /\ (f \in todo' => given'[f][i] < taken)
        OBVIOUS
      <4>1. CASE f = d /\ i = L + 1
        BY <2>0, <2>1, <2>2, <4>1
      <4>2. CASE f # d \/ i \in 1 .. L
        BY <2>1, <2>2, <4>2 DEF Delivery, HandedSoFar, L
      <4> QED
        BY <2>2, <4>1, <4>2
    <3>2. \A f \in Dispatchers : \A k \in 1 .. taken :
            f \in to[k] => Has(f, k)' \/ (k = taken /\ f \in todo')
      BY <2>1, <2>5 DEF Delivery, HandedSoFar
    <3> QED
      BY <1>0, <2>0, <2>1, <3>1, <3>2 DEF Delivery, HandedSoFar
  <2> QED
    BY <2>4, <2>6 DEF Delivery
<1> QED
  BY <1>1, <1>2

LEMMA DeliveryStep ==
  ASSUME TypeOK, Delivery, [Next]_vars
  PROVE  Delivery'
<1>0. Len(log) \in Nat /\ Len(log) <= MaxEvents + 1
  BY Numbers DEF Delivery, HandedSoFar
<1>f. ASSUME UNCHANGED <<events, inward>>,
             worker'[TransportWorker] = "loop" => worker[TransportWorker] = "loop"
      PROVE  Delivery'
  BY <1>0, <1>f, DeliveryFrame DEF events
<1>1. CASE TransportStep
  <2>1. Grows /\ UNCHANGED <<inward, worker>>
    BY <1>0, <1>1, TransportGrows
       DEF TransportStep, Emits, LastDisconnect, TransportStops, TransportPanics,
           threads
  <2> QED
    BY <2>1, DeliveryFrame DEF Grows
<1>2. CASE ConnStep \/ Stop \/ DropConnection
  BY <1>2, <1>f DEF ConnStep, Awake, Signal, AllSignalled, JoinWorkers, Stop,
                    DropConnection, threads
<1>3. CASE CallerStep
  <2>1. ASSUME NEW d \in Dispatchers, StopDispatcher(d)
        PROVE  Delivery'
    <3>1. /\ UNCHANGED <<events, taken, todo, worker>>
          /\ given' = given \/ Puts(d, 0)
      BY <2>1 DEF StopDispatcher, Puts, threads
    <3> QED
      BY <1>f, <3>1, StopDelivers DEF inward
  <2> QED
    BY <1>3, <1>f, <2>1 DEF CallerStep, StopTransport, JoinDispatcher, SendControl,
                            JoinConnection, threads
<1>4. ASSUME NEW w \in Workers, WorkerStep(w)
      PROVE  Delivery'
  <2>1. CASE Quit(w) \/ NoMoreEvents \/ NoMoreSent(w)
    BY <1>f, <2>1, TypeParts DEF Quit, NoMoreEvents, NoMoreSent, Goto, ThreadsOK, Workers
  <2>2. CASE SendOn(w)
    BY <1>f, <2>2, TypeParts DEF SendOn, Goto, ThreadsOK, Workers
  <2> QED
    BY <1>4, <2>1, <2>2, TakeDelivers, HandOnDelivers DEF WorkerStep
<1>5. ASSUME NEW d \in AM, AMStep(d) \/ AMOrphaned(d)
      PROVE  Delivery'
  BY <1>5, <1>f DEF AMStep, AMOrphaned, threads
<1>6. ASSUME NEW d \in Dispatchers, UserSends(d) \/ UserDrops(d)
      PROVE  Delivery'
  BY <1>6, <1>f DEF UserSends, UserDrops, threads
<1>7. CASE UNCHANGED vars
  BY <1>7, <1>f DEF vars, threads
<1> QED
  BY <1>1, <1>2, <1>3, <1>4, <1>5, <1>6, <1>7 DEF Next

-----------------------------------------------------------------------------
(* While nothing disturbs the connection.                                  *)

Quiet == NobodyStopsYet /\ NobodyPanics

(* What disturbs it does so for good. *)
LEMMA UndisturbedBefore ==
  ASSUME TypeOK, Delivery, [Next]_vars, Undisturbed'
  PROVE  Undisturbed
<1> USE DEF Undisturbed, threads, stopper, events
<1>b. Len(log) <= MaxEvents + 1
  BY DEF Delivery, HandedSoFar
<1>1. CASE TransportStep
  <2>1. Grows
    BY <1>1, <1>b, TransportGrows
  <2>2. \A k \in oversized : k \in oversized' /\ to'[k] = to[k]
    BY <2>1 DEF Grows
  <2>3. caller = "no" /\ transport = "running" /\ \A d \in Dispatchers : <<d, "rx">> \in held
    BY <1>1 DEF TransportStep, Emits, LastDisconnect, TransportStops, TransportPanics
  <2> QED
    BY <2>2, <2>3
<1>2. CASE ConnStep \/ Stop \/ DropConnection
  BY <1>2 DEF ConnStep, Awake, Signal, AllSignalled, JoinWorkers, Stop, DropConnection
<1>3. CASE CallerStep
  BY <1>3 DEF CallerStep, StopTransport, StopDispatcher, JoinDispatcher, SendControl,
              JoinConnection
<1>4. ASSUME NEW w \in Workers, WorkerStep(w)
      PROVE  Undisturbed
  BY <1>4 DEF WorkerStep, Quit, TakeEvent, NoMoreEvents, HandOn, SendOn, NoMoreSent
<1>5. ASSUME NEW d \in AM, AMStep(d) \/ AMOrphaned(d)
      PROVE  Undisturbed
  BY <1>5 DEF AMStep, AMOrphaned
<1>6. ASSUME NEW d \in Dispatchers, UserSends(d) \/ UserDrops(d)
      PROVE  Undisturbed
  BY <1>6 DEF UserSends, UserDrops
<1>7. CASE UNCHANGED vars
  BY <1>7 DEF vars
<1> QED
  BY <1>1, <1>2, <1>3, <1>4, <1>5, <1>6, <1>7 DEF Next

LEMMA QuietStep ==
  ASSUME TypeOK, Delivery, Quiet, [Next]_vars
  PROVE  Quiet'
<1> SUFFICES ASSUME Undisturbed'
             PROVE  /\ ctl' = {} /\ conn' = "wait" /\ control' = "open"
                    /\ \A d \in AM : ~Has(d, 0)' /\ am'[d] = "run"
                    /\ \A w \in Workers : worker'[w] # "panicked"
  BY DEF Quiet, NobodyStopsYet, NobodyPanics
<1>0. /\ caller = "no" /\ transport = "running" /\ caller' = "no"
      /\ \A d \in Dispatchers : <<d, "rx">> \in held
      /\ \A k \in oversized : to[k] \cap AM = {}
  BY UndisturbedBefore DEF Undisturbed
<1>t. AM \subseteq Dispatchers /\ ThreadsOK
  BY TypeParts DEF Dispatchers
<1>q. /\ ctl = {} /\ conn = "wait" /\ control = "open"
      /\ \A d \in AM : ~Has(d, 0) /\ am[d] = "run"
      /\ \A w \in Workers : worker[w] # "panicked"
  BY UndisturbedBefore DEF Quiet, NobodyStopsYet, NobodyPanics
<1>f. UNCHANGED given => \A d \in AM : ~Has(d, 0)'
  BY <1>q DEF Has
<1> USE DEF inward, amVars, threads, stopper
<1>1. CASE TransportStep
  BY <1>1, <1>q, <1>f
     DEF TransportStep, Emits, LastDisconnect, TransportStops, TransportPanics
<1>2. CASE ConnStep
  BY <1>2, <1>q DEF ConnStep, Awake, Signal, AllSignalled, JoinWorkers
<1>3. CASE Stop \/ DropConnection \/ CallerStep
  BY <1>0, <1>3 DEF Stop, DropConnection, CallerStep, StopTransport, StopDispatcher,
                    JoinDispatcher, SendControl, JoinConnection
<1>4. ASSUME NEW w \in Workers, WorkerStep(w)
      PROVE  /\ UNCHANGED <<ctl, conn, control, am>>
             /\ \A d \in AM : ~Has(d, 0)'
             /\ \A v \in Workers : worker'[v] # "panicked"
  <2>1. CASE TakeEvent
    BY <1>f, <1>q, <1>t, <2>1 DEF TakeEvent, Goto, ThreadsOK
  <2>2. ASSUME NEW d \in Dispatchers, HandOn(d)
        PROVE  /\ UNCHANGED <<ctl, conn, control, am>>
               /\ \A f \in AM : ~Has(f, 0)'
               /\ \A v \in Workers : worker'[v] # "panicked"
    <3>1. Receives(d)
      BY <1>0, <1>q DEF Receives, Dispatchers
    <3>2. Puts(d, taken) /\ taken \in 0 .. MaxEvents + 1 /\ taken # 0
      BY <2>2, <3>1, Numbers DEF HandOn, Puts, Delivery, HandedSoFar
    <3>3. \A f \in AM : ~Has(f, 0)'
      BY <1>q, <1>t, <3>2, PutHas
    <3>4. \A v \in Workers : worker'[v] # "panicked"
      BY <1>q, <1>t, <2>2, <3>1 DEF HandOn, Goto, ThreadsOK
    <3> QED
      BY <2>2, <3>3, <3>4 DEF HandOn
  <2>3. CASE NoMoreEvents \/ Quit(w) \/ NoMoreSent(w)
    BY <1>f, <1>q, <1>t, <2>3 DEF Quit, NoMoreEvents, NoMoreSent, Goto, ThreadsOK
  <2>4. CASE SendOn(w)
    BY <1>0, <1>f, <1>q, <2>4 DEF SendOn, TransportAlive
  <2> QED
    BY <1>4, <2>1, <2>2, <2>3, <2>4 DEF WorkerStep
<1>5. ASSUME NEW d \in AM, AMStep(d) \/ AMOrphaned(d)
      PROVE  am' = am
  <2>1. CASE AMStep(d)
    <3>1. amTaken[d] + 1 \in 1 .. Len(given[d])
      BY <1>t, <2>1, TypeParts, Numbers DEF AMStep, GivenOK
    <3>2. given[d][amTaken[d] + 1] # 0
      BY <1>q, <3>1 DEF Has
    <3>3. given[d][amTaken[d] + 1] \notin oversized
      BY <1>0, <1>t, <3>1, <3>2, PlacedInOrder DEF Delivery, Placed
    <3>4. am' = [am EXCEPT ![d] = "run"]
      BY <1>0, <1>t, <2>1, <3>2, <3>3 DEF AMStep
    <3> QED
      BY <1>q, <1>t, <3>4 DEF ThreadsOK
  <2>2. CASE AMOrphaned(d)
    BY <1>0, <2>2 DEF AMOrphaned
  <2> QED
    BY <1>5, <2>1, <2>2
<1>6. ASSUME NEW d \in Dispatchers, UserSends(d) \/ UserDrops(d)
      PROVE  UNCHANGED <<given, am, ctl, conn, control, worker>>
  BY <1>6 DEF UserSends, UserDrops
<1>7. CASE UNCHANGED vars
  BY <1>7, <1>f, <1>q DEF vars
<1>8. ASSUME NEW d \in AM, AMStep(d) \/ AMOrphaned(d)
      PROVE  UNCHANGED <<given, ctl, conn, control, worker>>
  BY <1>8 DEF AMStep, AMOrphaned
<1> QED
  BY <1>1, <1>2, <1>3, <1>4, <1>5, <1>6, <1>7, <1>8, <1>f, <1>q DEF Next

-----------------------------------------------------------------------------
(* How an AMDispatcher ends, and what the caller of stop makes of it.      *)

AMEnd == AMEndsFor /\ ErrorsAreFaults

(* A fault stays one. *)
LEMMA FaultKept ==
  ASSUME TypeOK, Delivery, [Next]_vars, NEW d \in AM, AMFault(d)
  PROVE  AMFault(d)'
<1> USE DEF threads, stopper, inward
<1>0. d \in Dispatchers /\ Len(log) <= MaxEvents + 1 /\ taken \in 0 .. MaxEvents + 1
  BY Numbers DEF Dispatchers, Delivery, HandedSoFar
<1>1. CASE TransportStep
  <2>1. Grows
    BY <1>0, <1>1, TransportGrows
  <2>2. UNCHANGED <<given, held>>
    BY <1>1 DEF TransportStep, Emits, LastDisconnect, TransportStops, TransportPanics
  <2>3. \A k : Has(d, k)' <=> Has(d, k)
    BY <2>2 DEF Has
  <2> QED
    BY <2>1, <2>2, <2>3 DEF AMFault, Grows
<1>f. ASSUME UNCHANGED oversized, held' \subseteq held,
             given' = given \/ \E f \in Dispatchers, x \in 0 .. MaxEvents + 1 : Puts(f, x)
      PROVE  AMFault(d)'
  <2>1. \A k : Has(d, k) => Has(d, k)'
    <3>1. CASE given' = given
      BY <3>1 DEF Has
    <3>2. ASSUME NEW f \in Dispatchers, NEW x \in 0 .. MaxEvents + 1, Puts(f, x)
          PROVE  \A k : Has(d, k) => Has(d, k)'
      BY <1>0, <3>2, PutHas
    <3> QED
      BY <1>f, <3>1, <3>2
  <2> QED
    BY <1>f, <2>1 DEF AMFault
<1> USE DEF events
<1>2. CASE ConnStep \/ Stop \/ DropConnection
  BY <1>2, <1>f DEF ConnStep, Awake, Signal, AllSignalled, JoinWorkers, Stop,
                    DropConnection
<1>3. CASE CallerStep
  <2>1. UNCHANGED <<oversized, held>>
        /\ (given' = given \/ \E f \in Dispatchers : Puts(f, 0))
    BY <1>3 DEF CallerStep, StopTransport, StopDispatcher, JoinDispatcher, SendControl,
                JoinConnection, Puts
  <2> QED
    BY <1>f, <2>1
<1>4. ASSUME NEW w \in Workers, WorkerStep(w)
      PROVE  AMFault(d)'
  <2>1. UNCHANGED <<oversized, held>>
        /\ (given' = given \/ \E f \in Dispatchers : Puts(f, taken))
    BY <1>4 DEF WorkerStep, Quit, TakeEvent, NoMoreEvents, HandOn, SendOn, NoMoreSent, Puts
  <2> QED
    BY <1>0, <1>f, <2>1
<1>5. ASSUME NEW f \in AM, AMStep(f) \/ AMOrphaned(f)
      PROVE  AMFault(d)'
  BY <1>5, <1>f DEF AMStep, AMOrphaned
<1>6. ASSUME NEW f \in Dispatchers, UserSends(f) \/ UserDrops(f)
      PROVE  AMFault(d)'
  BY <1>6, <1>f DEF UserSends, UserDrops
<1>7. CASE UNCHANGED vars
  BY <1>7, <1>f DEF vars
<1> QED
  BY <1>1, <1>2, <1>3, <1>4, <1>5, <1>6, <1>7 DEF Next

(* What a step changes of it, given that. *)
FaultsKept == \A d \in AM : AMFault(d) => AMFault(d)'

(* A step that neither ends a thread nor sends Stop nor moves the caller.  *)
LEMMA EndFrame ==
  ASSUME AMEnd, FaultsKept, UNCHANGED <<given, am, caller, rest, errors>>,
         transport = "panicked" => transport' = "panicked"
  PROVE  AMEnd'
<1>1. \A d \in AM : Has(d, 0)' <=> Has(d, 0)
  BY DEF Has
<1>2. AMEndsFor'
  BY <1>1 DEF AMEnd, AMEndsFor, Stopping, FaultsKept
<1>3. ErrorsAreFaults'
  BY DEF AMEnd, ErrorsAreFaults, FaultsKept
<1> QED
  BY <1>2, <1>3 DEF AMEnd

LEMMA AMEndStep ==
  ASSUME TypeOK, Delivery, AMEnd, [Next]_vars
  PROVE  AMEnd'
<1> USE DEF inward, amVars, threads, stopper
<1>t. AM \subseteq Dispatchers /\ ThreadsOK
  BY TypeParts DEF Dispatchers
<1>k. FaultsKept
  BY FaultKept DEF FaultsKept
<1>h. given' = given => \A d \in AM : Has(d, 0)' <=> Has(d, 0)
  BY DEF Has
<1>1. CASE TransportStep
  BY <1>1, <1>k, EndFrame DEF TransportStep, Emits, LastDisconnect, TransportStops,
                        TransportPanics, TransportAlive
<1>2. CASE ConnStep
  BY <1>2, <1>k, EndFrame DEF ConnStep, Awake, Signal, AllSignalled, JoinWorkers
<1>3. CASE Stop \/ DropConnection
  BY <1>3, <1>h, <1>k DEF Stop, DropConnection, AMEnd, AMEndsFor, Stopping,
                          ErrorsAreFaults, FaultsKept
<1>4. CASE CallerStep
  <2>1. ASSUME NEW d \in Dispatchers, StopDispatcher(d)
        PROVE  AMEnd'
    <3>0. /\ caller = "dispatchers" /\ d \in rest /\ rest' = rest \ {d}
          /\ UNCHANGED <<am, held, transport>>
      BY <2>1 DEF StopDispatcher
    <3>1. CASE d \in AM /\ am[d] = "run"
      <4>1. Puts(d, 0) /\ caller' = "joining" /\ errors' = errors /\ 0 \in 0 .. MaxEvents + 1
        BY <2>1, <3>1 DEF StopDispatcher, Puts
      <4>2. \A f \in AM : Has(f, 0)' <=> Has(f, 0) \/ f = d
        BY <1>t, <4>1, PutHas
      <4> QED
        BY <1>k, <3>0, <4>1, <4>2 DEF AMEnd, FaultsKept, AMEndsFor, Stopping, ErrorsAreFaults
    <3>2. CASE ~(d \in AM /\ am[d] = "run")
      <4>1. UNCHANGED <<given, caller>> /\ errors' = (errors \/ d \in AM)
        BY <2>1, <3>2 DEF StopDispatcher
      <4>2. d \in AM => AMFault(d)
        BY <1>t, <3>0, <3>2 DEF AMEnd, AMEndsFor, ThreadsOK
      <4> QED
        BY <1>h, <1>k, <3>0, <4>1, <4>2 DEF AMEnd, FaultsKept, AMEndsFor, Stopping, ErrorsAreFaults
    <3> QED
      BY <3>1, <3>2
  <2>2. CASE StopTransport
    <3>1. /\ caller = "transport" /\ caller' = "dispatchers"
          /\ errors' = (transport = "panicked") /\ UNCHANGED <<given, am, held, transport>>
      BY <2>2 DEF StopTransport
    <3> QED
      BY <1>h, <1>k, <3>1 DEF AMEnd, FaultsKept, AMEndsFor, Stopping, ErrorsAreFaults
  <2>3. CASE JoinDispatcher
    <3>1. /\ caller = "joining" /\ caller' = "dispatchers"
          /\ UNCHANGED <<given, am, held, transport, rest>>
          /\ errors' = (errors \/ \E d \in AM \ rest : am[d] = "panicked")
      BY <2>3 DEF JoinDispatcher
    <3> QED
      BY <1>h, <1>k, <3>1 DEF AMEnd, FaultsKept, AMEndsFor, Stopping, ErrorsAreFaults
  <2>4. CASE SendControl \/ JoinConnection
    BY <1>h, <1>k, <2>4 DEF SendControl, JoinConnection, AMEnd, AMEndsFor,
                            Stopping, ErrorsAreFaults, FaultsKept
  <2> QED
    BY <1>4, <2>1, <2>2, <2>3, <2>4 DEF CallerStep
<1>5. ASSUME NEW w \in Workers, WorkerStep(w)
      PROVE  AMEnd'
  <2>1. ASSUME NEW d \in Dispatchers, HandOn(d)
        PROVE  AMEnd'
    <3>1. UNCHANGED <<am, caller, rest, errors, held, transport>>
      BY <2>1 DEF HandOn
    <3>2. taken \in 1 .. MaxEvents + 1
      BY <2>1, Numbers DEF HandOn, Delivery, HandedSoFar
    <3>3. given' = given \/ Puts(d, taken)
      BY <2>1 DEF HandOn, Puts
    <3>4. \A f \in AM : Has(f, 0)' <=> Has(f, 0)
      BY <1>h, <1>t, <3>2, <3>3, PutHas
    <3> QED
      BY <1>k, <3>1, <3>4 DEF AMEnd, FaultsKept, AMEndsFor, Stopping, ErrorsAreFaults
  <2>2. CASE TakeEvent \/ NoMoreEvents \/ Quit(w) \/ SendOn(w) \/ NoMoreSent(w)
    BY <2>2, <1>k, EndFrame DEF TakeEvent, NoMoreEvents, Quit, SendOn, NoMoreSent
  <2> QED
    BY <1>5, <2>1, <2>2 DEF WorkerStep
<1>6. ASSUME NEW d \in AM, AMStep(d)
      PROVE  AMEnd'
  <2>0. UNCHANGED <<given, caller, rest, errors, held, transport>>
    BY <1>6 DEF AMStep
  <2>1. amTaken[d] + 1 \in 1 .. Len(given[d])
    BY <1>t, <1>6, TypeParts, Numbers DEF AMStep, GivenOK
  <2>2. \/ am' = [am EXCEPT ![d] = "run"]
        \/ am' = [am EXCEPT ![d] = "panicked"] /\ AMFault(d)
        \/ am' = [am EXCEPT ![d] = "done"] /\ given[d][amTaken[d] + 1] = 0
    <3>1. Has(d, given[d][amTaken[d] + 1])
      BY <2>1 DEF Has
    <3> QED
      BY <1>6, <3>1 DEF AMStep, AMFault
  <2>3. given[d][amTaken[d] + 1] = 0 => Has(d, 0)
    BY <2>1 DEF Has
  <2>4. AMEndsFor'
    BY <1>h, <1>k, <1>t, <2>0, <2>2, <2>3 DEF AMEnd, FaultsKept, AMEndsFor, Stopping, ThreadsOK
  <2>5. ErrorsAreFaults'
    BY <1>k, <2>0 DEF AMEnd, ErrorsAreFaults, FaultsKept
  <2> QED
    BY <2>4, <2>5 DEF AMEnd
<1>7. ASSUME NEW d \in AM, AMOrphaned(d)
      PROVE  AMEnd'
  BY <1>h, <1>k, <1>t, <1>7 DEF AMOrphaned, AMEnd, AMEndsFor, Stopping,
                                ErrorsAreFaults, ThreadsOK, FaultsKept
<1>8. ASSUME NEW d \in Dispatchers, UserSends(d) \/ UserDrops(d)
      PROVE  AMEnd'
  BY <1>8, <1>k, EndFrame DEF UserSends, UserDrops
<1>9. CASE UNCHANGED vars
  BY <1>9, <1>k, EndFrame DEF vars
<1> QED
  BY <1>1, <1>2, <1>3, <1>4, <1>5, <1>6, <1>7, <1>8, <1>9 DEF Next

-----------------------------------------------------------------------------
(* Who has been joined. *)

(* No thread starts again. *)
LEMMA ThreadsEnd ==
  ASSUME TypeOK, [Next]_vars
  PROVE  /\ \A w \in Workers : Ended(w) => Ended(w)' /\ worker'[w] = worker[w]
         /\ \A d \in AM : am[d] # "run" => am'[d] # "run" /\ amTaken'[d] = amTaken[d]
<1> USE DEF inward, amVars, threads, stopper, Ended
<1>t. AM \subseteq Dispatchers /\ ThreadsOK /\ GivenOK
  BY TypeParts DEF Dispatchers
<1>1. CASE TransportStep
  BY <1>1 DEF TransportStep, Emits, LastDisconnect, TransportStops, TransportPanics
<1>2. CASE ConnStep \/ Stop \/ DropConnection
  BY <1>2 DEF ConnStep, Awake, Signal, AllSignalled, JoinWorkers, Stop, DropConnection
<1>3. CASE CallerStep
  BY <1>3 DEF CallerStep, StopTransport, StopDispatcher, JoinDispatcher, SendControl,
              JoinConnection
<1>4. ASSUME NEW w \in Workers, WorkerStep(w)
      PROVE  /\ \A v \in Workers : Ended(v) => Ended(v)' /\ worker'[v] = worker[v]
             /\ UNCHANGED amVars
  <2>1. UNCHANGED amVars
    BY <1>4 DEF WorkerStep, Quit, TakeEvent, NoMoreEvents, HandOn, SendOn, NoMoreSent
  <2>2. worker' = worker \/ \E v \in Workers : \E pc : Goto(v, pc) /\ ~Ended(v)
    BY <1>4 DEF WorkerStep, Quit, TakeEvent, NoMoreEvents, HandOn, SendOn, NoMoreSent,
                Looping, Workers
  <2> QED
    BY <1>t, <2>1, <2>2 DEF Goto, ThreadsOK
<1>5. ASSUME NEW d \in AM, AMStep(d) \/ AMOrphaned(d)
      PROVE  /\ \A f \in AM : am[f] # "run" => am'[f] # "run" /\ amTaken'[f] = amTaken[f]
             /\ UNCHANGED worker
  <2>1. am[d] = "run" /\ (\A f \in AM \ {d} : am'[f] = am[f] /\ amTaken'[f] = amTaken[f])
        /\ UNCHANGED worker
    BY <1>5, <1>t DEF AMStep, AMOrphaned, ThreadsOK, GivenOK
  <2> QED
    BY <2>1
<1>6. ASSUME NEW d \in Dispatchers, UserSends(d) \/ UserDrops(d)
      PROVE  UNCHANGED <<amVars, worker>>
  BY <1>6 DEF UserSends, UserDrops
<1>7. CASE UNCHANGED vars
  BY <1>7 DEF vars
<1> QED
  BY <1>1, <1>2, <1>3, <1>4, <1>5, <1>6, <1>7 DEF Next

LEMMA JoinedStep ==
  ASSUME TypeOK, Joined, [Next]_vars
  PROVE  Joined'
<1> USE DEF inward, amVars, threads, stopper
<1>f. ASSUME UNCHANGED <<conn, caller, rest>>
      PROVE  Joined'
  BY <1>f, ThreadsEnd DEF Joined
<1>1. CASE TransportStep
  BY <1>1, <1>f DEF TransportStep, Emits, LastDisconnect, TransportStops, TransportPanics
<1>2. CASE ConnStep
  <2>1. UNCHANGED <<caller, rest, am, worker>>
    BY <1>2 DEF ConnStep, Awake, Signal, AllSignalled, JoinWorkers
  <2>2. conn' = "done" => \A w \in Workers : Ended(w)
    BY <1>2 DEF ConnStep, Awake, Signal, AllSignalled, JoinWorkers, Joined
  <2>3. conn = "done" => conn' = "done"
    BY <1>2 DEF ConnStep, Awake, Signal, AllSignalled, JoinWorkers
  <2> QED
    BY <2>1, <2>2, <2>3 DEF Joined, Ended
<1>3. CASE Stop \/ DropConnection
  BY <1>3 DEF Stop, DropConnection, Joined, Ended
<1>4. CASE CallerStep
  <2>1. CASE StopTransport
    BY <2>1 DEF StopTransport, Joined, Ended, Dispatchers
  <2>2. ASSUME NEW d \in Dispatchers, StopDispatcher(d)
        PROVE  Joined'
    BY <2>2 DEF StopDispatcher, Joined, Ended
  <2>3. CASE JoinDispatcher \/ SendControl \/ JoinConnection
    BY <2>3 DEF JoinDispatcher, SendControl, JoinConnection, Joined, Ended
  <2> QED
    BY <1>4, <2>1, <2>2, <2>3 DEF CallerStep
<1>5. ASSUME NEW w \in Workers, WorkerStep(w)
      PROVE  Joined'
  BY <1>5, <1>f DEF WorkerStep, Quit, TakeEvent, NoMoreEvents, HandOn, SendOn, NoMoreSent
<1>6. ASSUME NEW d \in AM, AMStep(d) \/ AMOrphaned(d)
      PROVE  Joined'
  BY <1>6, <1>f DEF AMStep, AMOrphaned
<1>7. ASSUME NEW d \in Dispatchers, UserSends(d) \/ UserDrops(d)
      PROVE  Joined'
  BY <1>7, <1>f DEF UserSends, UserDrops
<1>8. CASE UNCHANGED vars
  BY <1>8, <1>f DEF vars
<1> QED
  BY <1>1, <1>2, <1>3, <1>4, <1>5, <1>6, <1>7, <1>8 DEF Next

-----------------------------------------------------------------------------
(* Together. *)

LEMMA InitIInv == Init => IInv
<1> SUFFICES ASSUME Init
             PROVE  IInv
  OBVIOUS
<1>1. log = <<>> /\ Len(log) = 0 /\ to = <<>> /\ \A d \in Dispatchers : Len(given[d]) = 0
  BY DEF Init, T!Init
<1>2. TypeOK
  <2>1. LogOK
    BY <1>1 DEF Init, T!Init, LogOK, T!TypeOK
  <2>2. ThreadsOK
    <3>1. taken \in 0 .. Len(log)
      BY <1>1 DEF Init
    <3>2. am \in [Dispatchers -> {"run", "done", "panicked"}]
      BY DEF Init
    <3>3. worker \in [Workers -> {"loop", "send", "done", "panicked"}]
      BY DEF Init
    <3> QED
      BY <3>1, <3>2, <3>3 DEF Init, ThreadsOK
  <2>3. GivenOK
    BY <1>1 DEF Init, GivenOK, Given
  <2>4. SentOK
    BY DEF Init, SentOK
  <2> QED
    BY <2>1, <2>2, <2>3, <2>4, TypeParts
<1>3. InOrder /\ HandedSoFar
  BY <1>1 DEF Init, InOrder, HandedSoFar
<1>4. \A d \in AM : ~Has(d, 0)
  BY <1>1 DEF Has, Dispatchers
<1>5. NobodyStopsYet /\ NobodyPanics /\ AMEndsFor
  BY <1>4 DEF Init, NobodyStopsYet, NobodyPanics, AMEndsFor, Dispatchers, Workers
<1>6. ErrorsAreFaults /\ Joined
  BY DEF Init, ErrorsAreFaults, Joined
<1> QED
  BY <1>2, <1>3, <1>5, <1>6 DEF IInv

LEMMA StepIInv == IInv /\ [Next]_vars => IInv'
<1> SUFFICES ASSUME IInv, [Next]_vars
             PROVE  IInv'
  OBVIOUS
<1>0. TypeOK /\ Delivery /\ Quiet /\ AMEnd /\ Joined /\ HandedSoFar
  BY DEF IInv, Delivery, Quiet, AMEnd
<1>1. TypeOK' /\ Delivery' /\ Quiet' /\ AMEnd' /\ Joined'
  BY <1>0, TypeStep, DeliveryStep, QuietStep, AMEndStep, JoinedStep
<1> QED
  BY <1>1 DEF IInv, Delivery, Quiet, AMEnd

(* IInv holds in every state: for any dispatchers, whatever the user holds *)
(* and drops, any number of events and data, with and without a failing    *)
(* transport.                                                              *)
THEOREM Invariance == Spec => []IInv
<1> QED
  BY InitIInv, StepIInv, PTL DEF Spec

(* TransportWorker hands every dispatcher the events that concern it, in   *)
(* order, without a gap and without a duplicate.                           *)
THEOREM EventsInOrder == Spec => []InOrder
<1>1. IInv => InOrder
  BY DEF IInv
<1> QED
  BY <1>1, Invariance, PTL

(* While the user receives, the transport lives and nobody stops the       *)
(* connection, no thread of it panics.                                     *)
THEOREM NoPanicUndisturbed == Spec => []NobodyPanics
<1>1. IInv => NobodyPanics
  BY DEF IInv
<1> QED
  BY <1>1, Invariance, PTL

(* Connection::stop fails only when the transport or a dispatcher did.     *)
THEOREM StopErrorIsFault == Spec => []StopFailsOnlyByFault
<1>1. IInv => StopFailsOnlyByFault
  BY DEF IInv, ErrorsAreFaults, StopFailsOnlyByFault
<1> QED
  BY <1>1, Invariance, PTL

(* When Connection::stop has returned, no worker and no AMDispatcher takes *)
(* another step.                                                           *)
THEOREM NothingAfterStop == Spec => StopIsFinal
<1> DEFINE A == caller \in {"ok", "err"} => UNCHANGED <<inward, amVars, sentOn, worker>>
<1>1. ASSUME IInv, [Next]_vars
      PROVE  [A]_vars
  <2> SUFFICES ASSUME caller \in {"ok", "err"}
               PROVE  UNCHANGED <<inward, amVars, sentOn, worker>>
    OBVIOUS
  <2>1. (\A w \in Workers : Ended(w)) /\ \A d \in AM : am[d] # "run"
    BY <1>1 DEF IInv, Joined
  <2> USE DEF inward, amVars, threads
  <2>2. CASE TransportStep
    BY <2>2 DEF TransportStep, Emits, LastDisconnect, TransportStops, TransportPanics,
                outward
  <2>3. CASE ConnStep \/ Stop \/ DropConnection
    BY <2>3 DEF ConnStep, Awake, Signal, AllSignalled, JoinWorkers, Stop, DropConnection,
                outward
  <2>4. CASE CallerStep
    BY <2>4 DEF CallerStep, StopTransport, StopDispatcher, JoinDispatcher, SendControl,
                JoinConnection, outward
  <2>5. ASSUME NEW w \in Workers, WorkerStep(w)
        PROVE  FALSE
    BY <2>1, <2>5 DEF WorkerStep, Quit, TakeEvent, NoMoreEvents, HandOn, SendOn,
                      NoMoreSent, Looping, Ended, Workers
  <2>6. ASSUME NEW d \in AM, AMStep(d) \/ AMOrphaned(d)
        PROVE  FALSE
    BY <2>1, <2>6 DEF AMStep, AMOrphaned
  <2>7. ASSUME NEW d \in Dispatchers, UserSends(d) \/ UserDrops(d)
        PROVE  UNCHANGED <<inward, amVars, sentOn, worker>>
    BY <2>7 DEF UserSends, UserDrops, outward
  <2>8. CASE UNCHANGED vars
    BY <2>8 DEF vars, outward
  <2> QED
    BY <1>1, <2>2, <2>3, <2>4, <2>5, <2>6, <2>7, <2>8 DEF Next
<1>2. IInv /\ [Next]_vars => [A]_vars
  BY <1>1
<1> QED
  BY <1>2, Invariance, PTL DEF Spec, StopIsFinal

-----------------------------------------------------------------------------
(* What the protocol of TransportEvents gives a receiver, for any number   *)
(* of sessions and events.  T is the transport of the Connection; these    *)
(* theorems use nothing else of it.  SFTransport and SerialTransport       *)
(* implement the protocol (EventsFollowProtocol of their proofs), so they  *)
(* hold of the events of both.                                             *)

LogEntries == [ev : T!EventsOfKind, session : Nat]

(* No event is of a session that has not begun. *)
NotAhead == \A i \in 1 .. Len(log) : log[i].session <= session

(* Unless a session is up, every Connected has its Disconnected behind it. *)
EndAnnounced ==
  phase # "up" =>
    \A i \in 1 .. Len(log) : log[i].ev = "Connected"
      => \E k \in i + 1 .. Len(log) : log[k].ev = "Disconnected"

(* The inductive invariant. *)
EventsInv == T!TypeOK /\ NotAhead /\ T!SessionIsolation /\ EndAnnounced /\ T!Alternation

(* What the step of an event does to the log. *)
Appended(ev, k) ==
  /\ Len(log') = Len(log) + 1
  /\ \A i \in 1 .. Len(log) : log'[i] = log[i]
  /\ log'[Len(log) + 1].ev = ev
  /\ log'[Len(log) + 1].session = k
  /\ \A i \in 1 .. Len(log') : i \in 1 .. Len(log) \/ i = Len(log) + 1

LEMMA EmitAppends ==
  ASSUME T!TypeOK, NEW ev \in T!EventsOfKind, NEW k \in Nat, T!Emit(ev, k)
  PROVE  log' \in Seq(LogEntries) /\ Appended(ev, k)
<1>1. log \in Seq(LogEntries) /\ [ev |-> ev, session |-> k] \in LogEntries
  BY DEF T!TypeOK, LogEntries
<1>2. log' = Append(log, [ev |-> ev, session |-> k])
  BY DEF T!Emit
<1>3. log' \in Seq(LogEntries) /\ Len(log') = Len(log) + 1
  BY <1>1, <1>2
<1>4. \A i \in 1 .. Len(log) : log'[i] = log[i]
  BY <1>1, <1>2
<1>5. log'[Len(log) + 1] = [ev |-> ev, session |-> k]
  BY <1>1, <1>2
<1>6. \A i \in 1 .. Len(log') : i \in 1 .. Len(log) \/ i = Len(log) + 1
  BY <1>1, <1>3
<1> QED
  BY <1>3, <1>4, <1>5, <1>6 DEF Appended

(* An event that is not a Connected keeps sessions isolated if it is of    *)
(* the session that was announced last.                                    *)
LEMMA IsolationKept ==
  ASSUME EventsInv, NEW ev \in {"Data", "Disconnected"}, Appended(ev, session)
  PROVE  T!SessionIsolation'
<1> SUFFICES ASSUME NEW i \in 1 .. Len(log'), NEW j \in 1 .. Len(log'),
                    log'[i].ev = "Connected", log'[j].ev = "Data"
             PROVE  i < j <=> log'[i].session <= log'[j].session
  BY DEF T!SessionIsolation
<1>0. Len(log) \in Nat /\ session \in Nat
  BY DEF EventsInv, T!TypeOK
<1>1. i \in 1 .. Len(log) /\ log'[i] = log[i]
  BY DEF Appended
<1>2. CASE j \in 1 .. Len(log)
  BY <1>1, <1>2 DEF Appended, EventsInv, T!SessionIsolation
<1>3. CASE j = Len(log) + 1
  BY <1>0, <1>1, <1>3 DEF Appended, EventsInv, NotAhead
<1> QED
  BY <1>2, <1>3 DEF Appended

(* An event that is not a Connected keeps the sessions alternating.        *)
LEMMA AlternationKept ==
  ASSUME EventsInv, NEW ev \in {"Data", "Disconnected"}, Appended(ev, session)
  PROVE  T!Alternation'
<1> SUFFICES ASSUME NEW i \in 1 .. Len(log'), NEW j \in 1 .. Len(log'), i < j,
                    log'[i].ev = "Connected", log'[j].ev = "Connected"
             PROVE  \E k \in i .. j : log'[k].ev = "Disconnected"
  BY DEF T!Alternation
<1>0. Len(log) \in Nat
  BY DEF EventsInv, T!TypeOK
<1>1. i \in 1 .. Len(log) /\ log'[i] = log[i] /\ j \in 1 .. Len(log) /\ log'[j] = log[j]
  BY DEF Appended
<1>2. PICK k \in i .. j : log[k].ev = "Disconnected"
  BY <1>1 DEF EventsInv, T!Alternation
<1> QED
  BY <1>0, <1>1, <1>2 DEF Appended

LEMMA InitEventsInv == T!Init => EventsInv
<1> SUFFICES ASSUME T!Init
             PROVE  EventsInv
  OBVIOUS
<1>1. log = <<>> /\ Len(log) = 0 /\ 1 .. Len(log) = {}
  BY DEF T!Init
<1>2. T!TypeOK
  BY <1>1 DEF T!Init, T!TypeOK
<1>3. NotAhead /\ T!SessionIsolation /\ EndAnnounced /\ T!Alternation
  BY <1>1 DEF NotAhead, T!SessionIsolation, EndAnnounced, T!Alternation
<1> QED
  BY <1>2, <1>3 DEF EventsInv

LEMMA StepEventsInv == EventsInv /\ [T!Next]_(T!vars) => EventsInv'
<1> SUFFICES ASSUME EventsInv, [T!Next]_(T!vars)
             PROVE  EventsInv'
  OBVIOUS
<1>0. T!TypeOK /\ log \in Seq(LogEntries) /\ Len(log) \in Nat /\ session \in Nat
  BY DEF EventsInv, T!TypeOK, LogEntries
<1>typed. \A i \in 1 .. Len(log) : log[i].session \in Nat
  <2>1. \A i \in 1 .. Len(log) : log[i] \in LogEntries
    BY <1>0
  <2> QED
    BY <2>1 DEF LogEntries
<1>1. CASE T!Connect
  <2>1. session' \in Nat /\ session' > session /\ phase = "down" /\ phase' = "up"
    BY <1>1 DEF T!Connect
  <2>2. log' \in Seq(LogEntries) /\ Appended("Connected", session')
    BY <1>0, <1>1, <2>1, EmitAppends DEF T!Connect, T!EventsOfKind
  <2>3. T!TypeOK'
    BY <2>1, <2>2 DEF T!TypeOK, LogEntries
  <2>4. NotAhead'
    BY <1>0, <1>typed, <2>1, <2>2 DEF EventsInv, NotAhead, Appended
  <2>5. T!SessionIsolation'
    <3> SUFFICES ASSUME NEW i \in 1 .. Len(log'), NEW j \in 1 .. Len(log'),
                        log'[i].ev = "Connected", log'[j].ev = "Data"
                 PROVE  i < j <=> log'[i].session <= log'[j].session
      BY DEF T!SessionIsolation
    <3>1. j \in 1 .. Len(log) /\ log'[j] = log[j]
      BY <2>2 DEF Appended
    <3>2. CASE i \in 1 .. Len(log)
      BY <2>2, <3>1, <3>2 DEF Appended, EventsInv, T!SessionIsolation
    <3>3. CASE i = Len(log) + 1
      BY <1>0, <1>typed, <2>1, <2>2, <3>1, <3>3 DEF Appended, EventsInv, NotAhead
    <3> QED
      BY <2>2, <3>2, <3>3 DEF Appended
  <2>6. EndAnnounced'
    BY <2>1 DEF EndAnnounced
  <2>7. T!Alternation'
    <3> SUFFICES ASSUME NEW i \in 1 .. Len(log'), NEW j \in 1 .. Len(log'), i < j,
                        log'[i].ev = "Connected", log'[j].ev = "Connected"
                 PROVE  \E k \in i .. j : log'[k].ev = "Disconnected"
      BY DEF T!Alternation
    <3>1. i \in 1 .. Len(log) /\ log'[i] = log[i]
      BY <1>0, <2>2 DEF Appended
    <3>2. CASE j \in 1 .. Len(log)
      <4>1. PICK k \in i .. j : log[k].ev = "Disconnected"
        BY <2>2, <3>1, <3>2 DEF Appended, EventsInv, T!Alternation
      <4> QED
        BY <1>0, <2>2, <3>1, <3>2, <4>1 DEF Appended
    <3>3. CASE j = Len(log) + 1
      <4>1. PICK k \in i + 1 .. Len(log) : log[k].ev = "Disconnected"
        BY <2>1, <3>1 DEF EventsInv, EndAnnounced
      <4> QED
        BY <1>0, <2>2, <3>1, <3>3, <4>1 DEF Appended
    <3> QED
      BY <2>2, <3>2, <3>3 DEF Appended
  <2> QED
    BY <2>3, <2>4, <2>5, <2>6, <2>7 DEF EventsInv
<1>2. CASE T!Deliver
  <2>1. session' = session /\ phase' = phase
    BY <1>2 DEF T!Deliver
  <2>2. log' \in Seq(LogEntries) /\ Appended("Data", session)
    BY <1>0, <1>2, EmitAppends DEF T!Deliver, T!EventsOfKind, T!TypeOK
  <2>3. T!TypeOK'
    BY <1>0, <2>1, <2>2 DEF T!TypeOK, LogEntries
  <2>4. NotAhead'
    BY <1>0, <2>1, <2>2 DEF EventsInv, NotAhead, Appended
  <2>5. EndAnnounced'
    <3> SUFFICES ASSUME phase # "up", NEW i \in 1 .. Len(log'),
                        log'[i].ev = "Connected"
                 PROVE  \E k \in i + 1 .. Len(log') : log'[k].ev = "Disconnected"
      BY <2>1 DEF EndAnnounced
    <3>1. i \in 1 .. Len(log) /\ log'[i] = log[i]
      BY <2>2 DEF Appended
    <3>2. PICK k \in i + 1 .. Len(log) : log[k].ev = "Disconnected"
      BY <3>1 DEF EventsInv, EndAnnounced
    <3> QED
      BY <1>0, <2>2, <3>1, <3>2 DEF Appended
  <2>6. T!SessionIsolation' /\ T!Alternation'
    BY <2>2, IsolationKept, AlternationKept
  <2> QED
    BY <2>3, <2>4, <2>5, <2>6 DEF EventsInv
<1>3. CASE T!Disconnect \/ T!FailedAttempt
  <2>1. session' = session /\ phase' \in {"closing", "down"}
    BY <1>3 DEF T!Disconnect, T!FailedAttempt
  <2>2. log' \in Seq(LogEntries) /\ Appended("Disconnected", session)
    BY <1>0, <1>3, EmitAppends DEF T!Disconnect, T!FailedAttempt, T!EventsOfKind, T!TypeOK
  <2>3. T!TypeOK'
    BY <1>0, <2>1, <2>2 DEF T!TypeOK, LogEntries
  <2>4. NotAhead'
    BY <1>0, <2>1, <2>2 DEF EventsInv, NotAhead, Appended
  <2>5. EndAnnounced'
    <3> SUFFICES ASSUME NEW i \in 1 .. Len(log'), log'[i].ev = "Connected"
                 PROVE  \E k \in i + 1 .. Len(log') : log'[k].ev = "Disconnected"
      BY DEF EndAnnounced
    <3>1. i \in 1 .. Len(log)
      BY <2>2 DEF Appended
    <3>2. Len(log) + 1 \in i + 1 .. Len(log')
      BY <1>0, <2>2, <3>1 DEF Appended
    <3> QED
      BY <2>2, <3>2 DEF Appended
  <2>6. T!SessionIsolation' /\ T!Alternation'
    BY <2>2, IsolationKept, AlternationKept
  <2> QED
    BY <2>3, <2>4, <2>5, <2>6 DEF EventsInv
<1>4. CASE T!Settle
  BY <1>4 DEF T!Settle, EventsInv, T!TypeOK, NotAhead, T!SessionIsolation, EndAnnounced,
              T!Alternation
<1>5. CASE UNCHANGED T!vars
  BY <1>5 DEF T!vars, EventsInv, T!TypeOK, NotAhead, T!SessionIsolation, EndAnnounced,
              T!Alternation
<1> QED
  BY <1>1, <1>2, <1>3, <1>4, <1>5 DEF T!Next

(* The inductive invariant holds in every state of the protocol. *)
THEOREM EventsInvariance == T!Spec => []EventsInv
<1>1. T!Init => EventsInv
  BY InitEventsInv
<1>2. EventsInv /\ [T!Next]_(T!vars) => EventsInv'
  BY StepEventsInv
<1> QED
  BY <1>1, <1>2, PTL DEF T!Spec

(* Data of a session comes after its Connected and never after the         *)
(* Connected of a later one.                                               *)
THEOREM SessionsIsolated == T!Spec => []T!SessionIsolation
<1>1. EventsInv => T!SessionIsolation
  BY DEF EventsInv
<1> QED
  BY <1>1, EventsInvariance, PTL

(* Between two Connected there is a Disconnected. *)
THEOREM SessionsAlternate == T!Spec => []T!Alternation
<1>1. EventsInv => T!Alternation
  BY DEF EventsInv
<1> QED
  BY <1>1, EventsInvariance, PTL

-----------------------------------------------------------------------------
(* What the protocol of the transport's events gives a dispatcher.         *)

LEMMA LogFollowsProtocol == Spec => T!Spec
<1>1. Init => T!Init
  BY DEF Init
<1>2. ASSUME IInv, [Next]_vars
      PROVE  [T!Next]_(T!vars)
  <2> USE DEF T!vars, events
  <2>1. CASE TransportStep
    <3>1. session \in Nat
      BY <1>2 DEF IInv, TypeOK, T!TypeOK
    <3> QED
      BY <2>1, <3>1 DEF TransportStep, Emits, LastDisconnect, TransportStops,
                        TransportPanics, T!Next
  <2>2. CASE ConnStep \/ Stop \/ DropConnection \/ CallerStep
    BY <2>2 DEF ConnStep, Awake, Signal, AllSignalled, JoinWorkers, Stop, DropConnection,
                CallerStep, StopTransport, StopDispatcher, JoinDispatcher, SendControl,
                JoinConnection
  <2>3. ASSUME NEW w \in Workers, WorkerStep(w)
        PROVE  UNCHANGED T!vars
    BY <2>3 DEF WorkerStep, Quit, TakeEvent, NoMoreEvents, HandOn, SendOn, NoMoreSent
  <2>4. ASSUME NEW d \in AM, AMStep(d) \/ AMOrphaned(d)
        PROVE  UNCHANGED T!vars
    BY <2>4 DEF AMStep, AMOrphaned
  <2>5. ASSUME NEW d \in Dispatchers, UserSends(d) \/ UserDrops(d)
        PROVE  UNCHANGED T!vars
    BY <2>5 DEF UserSends, UserDrops
  <2>6. CASE UNCHANGED vars
    BY <2>6 DEF vars
  <2> QED
    BY <1>2, <2>1, <2>2, <2>3, <2>4, <2>5, <2>6 DEF Next
<1>3. IInv /\ [Next]_vars => [T!Next]_(T!vars)
  BY <1>2
<1> QED
  BY <1>1, <1>3, Invariance, PTL DEF Spec, T!Spec

(* Data of a session reaches a dispatcher after the Connected of that      *)
(* session and before the Connected of any later one.                      *)
DispatcherSessions ==
  \A d \in Dispatchers : \A i, j \in 1 .. Len(given[d]) :
    LET m == given[d][i]
        n == given[d][j]
    IN  m # 0 /\ n # 0 /\ log[m].ev = "Connected" /\ log[n].ev = "Data"
        => (i < j <=> log[m].session <= log[n].session)

(* No dispatcher takes data of one session for data of another: what the   *)
(* transport promises of its events still holds behind the TransportWorker.*)
THEOREM SessionsReachDispatchers == Spec => []DispatcherSessions
<1>1. ASSUME IInv, T!SessionIsolation
      PROVE  DispatcherSessions
  <2> SUFFICES ASSUME NEW d \in Dispatchers,
                      NEW i \in 1 .. Len(given[d]), NEW j \in 1 .. Len(given[d]),
                      given[d][i] # 0, given[d][j] # 0,
                      log[given[d][i]].ev = "Connected", log[given[d][j]].ev = "Data"
               PROVE  i < j <=> log[given[d][i]].session <= log[given[d][j]].session
    BY DEF DispatcherSessions
  <2>0. Len(given[d]) \in Nat /\ Len(log) \in Nat
    BY <1>1, Numbers DEF IInv
  <2>1. given[d][i] \in 1 .. Len(log) /\ given[d][j] \in 1 .. Len(log)
    BY <1>1, PlacedInOrder DEF IInv, Placed
  <2>2. given[d][i] < given[d][j] <=> log[given[d][i]].session <= log[given[d][j]].session
    BY <1>1, <2>1 DEF T!SessionIsolation
  <2>3. i < j => given[d][i] < given[d][j]
    <3>1. Placed(d, j)
      BY <1>1, PlacedInOrder DEF IInv
    <3> QED
      BY <2>0, <3>1 DEF Placed
  <2>4. j < i => given[d][j] < given[d][i]
    <3>1. Placed(d, i)
      BY <1>1, PlacedInOrder DEF IInv
    <3> QED
      BY <2>0, <3>1 DEF Placed
  <2> QED
    BY <2>0, <2>1, <2>2, <2>3, <2>4
<1>2. IInv /\ T!SessionIsolation => DispatcherSessions
  BY <1>1
<1> QED
  BY <1>2, SessionsIsolated, LogFollowsProtocol, Invariance, PTL
=============================================================================
