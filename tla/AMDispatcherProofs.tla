------------------------- MODULE AMDispatcherProofs -------------------------
(***************************************************************************)
(* The safety of AMDispatcher for any receivers, ids, groups and shapes of *)
(* messages: IInv is inductive.  Its core is that the registry, looked up  *)
(* by Select, answers as the calls on the builder promise (ChosenHandles). *)
(* At the end, of AMMessage: the bytes of an ActiveMessage are parsed to   *)
(* the message they were made of.                                          *)
(***************************************************************************)
EXTENDS AMDispatcher, SequenceTheorems, TLAPS

USE NamesAssumption, ShapesAssumption, BoundsAssumption

Calls == Seq(Slots \X Receivers)

-----------------------------------------------------------------------------
(* The calls on the builder. *)

(* A slot has one owner. *)
LEMMA OneOwner ==
  ASSUME NEW c \in Calls, NEW s, NEW q, NEW r, Owns(c, q, s), Owns(c, r, s)
  PROVE  q = r
<1>0. Len(c) \in Nat
  BY DEF Calls
<1>1. PICK i \in 1 .. Len(c) :
        c[i] = <<s, q>> /\ \A j \in i + 1 .. Len(c) : c[j][1] # s
  BY DEF Owns
<1>2. PICK k \in 1 .. Len(c) :
        c[k] = <<s, r>> /\ \A j \in k + 1 .. Len(c) : c[j][1] # s
  BY DEF Owns
<1>3. c[i][1] = s /\ c[k][1] = s
  BY <1>1, <1>2
<1>4. ~(k \in i + 1 .. Len(c)) /\ ~(i \in k + 1 .. Len(c))
  BY <1>1, <1>2, <1>3
<1>5. i = k
  BY <1>0, <1>4
<1> QED
  BY <1>1, <1>2, <1>5

LEMMA OwnerRegistered ==
  ASSUME NEW c \in Calls, NEW s, NEW r, Owns(c, r, s)
  PROVE  ~Vacant(c, s) /\ Registered(c, r)
<1>1. PICK i \in 1 .. Len(c) : c[i] = <<s, r>>
  BY DEF Owns
<1>2. c[i][1] = s /\ c[i][2] = r
  BY <1>1
<1> QED
  BY <1>2 DEF Vacant, Registered

(* What one more call changes. *)
LEMMA CallFacts ==
  ASSUME NEW c \in Calls, NEW s \in Slots, NEW r \in Receivers
  PROVE  LET d == Append(c, <<s, r>>) IN
         /\ d \in Calls
         /\ \A t : Vacant(d, t) <=> Vacant(c, t) /\ t # s
         /\ \A q : Registered(d, q) <=> Registered(c, q) \/ q = r
         /\ Owns(d, r, s)
         /\ \A q, t : t # s /\ Owns(c, q, t) => Owns(d, q, t)
<1> DEFINE d == Append(c, <<s, r>>)
           n == Len(c)
<1>1. /\ d \in Calls /\ n \in Nat /\ Len(d) = n + 1
      /\ \A i \in 1 .. n : d[i] = c[i]
      /\ d[n + 1] = <<s, r>>
  BY DEF Calls
<1>2. d[n + 1][1] = s /\ d[n + 1][2] = r
  BY <1>1
<1> HIDE DEF n, d
<1>3. \A i : i \in 1 .. n + 1 <=> i \in 1 .. n \/ i = n + 1
  BY <1>1
<1>4. ASSUME NEW t
      PROVE  Vacant(d, t) <=> Vacant(c, t) /\ t # s
  BY <1>1, <1>2, <1>3 DEF Vacant, n
<1>5. ASSUME NEW q
      PROVE  Registered(d, q) <=> Registered(c, q) \/ q = r
  BY <1>1, <1>2, <1>3 DEF Registered, n
<1>6. Owns(d, r, s)
  <2>1. n + 1 \in 1 .. Len(d) /\ ~\E j : j \in n + 1 + 1 .. Len(d)
    BY <1>1
  <2> QED
    BY <1>1, <2>1 DEF Owns
<1>7. ASSUME NEW q, NEW t, t # s, Owns(c, q, t)
      PROVE  Owns(d, q, t)
  <2>1. PICK i \in 1 .. n :
          c[i] = <<t, q>> /\ \A j \in i + 1 .. n : c[j][1] # t
    BY <1>7 DEF Owns, n
  <2>2. ASSUME NEW j \in i + 1 .. Len(d)
        PROVE  d[j][1] # t
    <3>1. j \in i + 1 .. n \/ j = n + 1
      BY <1>1, <2>1
    <3>2. j \in i + 1 .. n => j \in 1 .. n
      BY <1>1, <2>1
    <3> QED
      BY <1>1, <1>2, <1>7, <2>1, <3>1, <3>2
  <2>3. i \in 1 .. Len(d) /\ d[i] = <<t, q>>
    BY <1>1, <2>1
  <2> QED
    BY <2>2, <2>3 DEF Owns
<1> QED
  BY <1>1, <1>4, <1>5, <1>6, <1>7 DEF d

-----------------------------------------------------------------------------
(* The look-up. *)

LEMMA MessageFields ==
  ASSUME NEW m \in Messages
  PROVE  /\ m.ev = "Data" /\ m.length \in Nat /\ m.stated \in 0 .. 255
         /\ m.dest \in {"own", "broadcast", "other"} /\ m.id \in Ids
<1>1. CASE m \in {[ev |-> "Data", length |-> 8, stated |-> 1, dest |-> d,
                   group |-> g, id |-> n]
                    : d \in {"own", "broadcast", "other"}, g \in Groups, n \in Ids}
  BY <1>1
<1>2. CASE m \in {[ev |-> "Data", length |-> s[1], stated |-> s[2], dest |-> "own",
                   group |-> g, id |-> n] : s \in OddShapes, g \in Groups, n \in Ids}
  <2>1. PICK s \in OddShapes, g \in Groups, n \in Ids :
          m = [ev |-> "Data", length |-> s[1], stated |-> s[2], dest |-> "own",
               group |-> g, id |-> n]
    BY <1>2
  <2>2. s[1] \in Nat /\ s[2] \in 0 .. 255
    OBVIOUS
  <2> QED
    BY <2>1, <2>2
<1> QED
  BY <1>1, <1>2 DEF Messages

(* The outcomes of the parser, by the two lengths. *)
LEMMA ParseFacts ==
  ASSUME NEW m \in Messages
  PROVE  /\ Parse(m) = "ok" <=> m.length <= 255 /\ m.length - MINIMUM_LENGTH >= m.stated
         /\ Parse(m) = "panic" => m.stated > 255 - MINIMUM_LENGTH
<1>1. \A k \in Nat, s \in 0 .. 255 :
        /\ Outcome(k, s) = "ok" <=> k <= 255 /\ k - 7 >= s
        /\ Outcome(k, s) = "panic" => s > 255 - 7
  BY DEF Outcome, MINIMUM_LENGTH
<1> QED
  BY <1>1, MessageFields DEF Parse, MINIMUM_LENGTH

(* select_receiver finds the receiver that the calls promise the message,  *)
(* and no other.                                                           *)
LEMMA SelectOwner ==
  ASSUME TypeOK, RegistryFollowsCalls, NEW m \in Messages, NEW r
  PROVE  r \in Select(m) <=>
           \E kind \in Kinds :
             /\ kind = "snooper" <=> m.dest = "other"
             /\ \/ Owns(calls, r, <<kind, m.id>>)
                \/ /\ Vacant(calls, <<kind, m.id>>)
                   /\ Owns(calls, r, <<kind, Default>>)
<1> DEFINE kind == IF m.dest \in {"own", "broadcast"} THEN "receiver" ELSE "snooper"
           own == <<kind, m.id>>
           def == <<kind, Default>>
<1>1. m.dest \in {"own", "broadcast", "other"} /\ m.id \in Ids
  BY MessageFields
<1>2. /\ kind \in Kinds
      /\ \A k \in Kinds : (k = "snooper" <=> m.dest = "other") <=> k = kind
  BY <1>1 DEF Kinds
<1>3. own \in Slots /\ def \in Slots
  BY <1>1, <1>2 DEF Slots
<1>4. r \in Select(m) <=>
        \/ own \in DOMAIN slot /\ r = slot[own]
        \/ own \notin DOMAIN slot /\ def \in DOMAIN slot /\ r = slot[def]
  BY DEF Select
<1> HIDE DEF kind
<1>5. calls \in Calls
  BY DEF TypeOK, Calls
<1>6. ASSUME NEW t \in Slots
      PROVE  (t \in DOMAIN slot /\ r = slot[t]) <=> Owns(calls, r, t)
  <2>1. t \in DOMAIN slot => Owns(calls, slot[t], t)
    BY DEF RegistryFollowsCalls
  <2>2. Owns(calls, r, t) => t \in DOMAIN slot
    BY <1>5, OwnerRegistered DEF RegistryFollowsCalls
  <2>3. Owns(calls, r, t) /\ t \in DOMAIN slot => r = slot[t]
    BY <1>5, <2>1, OneOwner
  <2> QED
    BY <2>1, <2>2, <2>3
<1>7. own \notin DOMAIN slot <=> Vacant(calls, own)
  BY <1>3 DEF RegistryFollowsCalls
<1>8. r \in Select(m) <=>
        Owns(calls, r, own) \/ (Vacant(calls, own) /\ Owns(calls, r, def))
  BY <1>3, <1>4, <1>6, <1>7
<1> QED
  BY <1>2, <1>8

LEMMA ChosenHandles ==
  ASSUME TypeOK, RegistryFollowsCalls, NEW m \in Messages, NEW r
  PROVE  r \in Chosen(m) <=> Handles(calls, r, m)
<1>1. Group \in {NoGroup, m.group} <=> Group = NoGroup \/ m.group = Group
  OBVIOUS
<1>2. r \in Chosen(m) <=>
        /\ m.length <= 255 /\ m.length - MINIMUM_LENGTH >= m.stated
        /\ Group = NoGroup \/ m.group = Group
        /\ r \in Select(m)
  BY <1>1, ParseFacts DEF Chosen
<1> QED
  BY <1>2, SelectOwner DEF Handles

LEMMA ChosenAreHandles ==
  ASSUME TypeOK, NEW m
  PROVE  Chosen(m) \subseteq handles
BY DEF Chosen, Select, TypeOK

-----------------------------------------------------------------------------
(* What is appended. *)

Events == Seq(Messages \cup Notices)
Inboxes == [Receivers -> Seq(1 .. MaxEvents)]

LEMMA TakeFacts ==
  ASSUME TypeOK, NEW e \in Messages \cup Notices, Take(e)
  PROVE  /\ events' \in Events /\ Len(events) \in Nat
         /\ Len(events') = Len(events) + 1 /\ Len(events') \in 1 .. MaxEvents
         /\ \A i \in 1 .. Len(events) : events'[i] = events[i]
         /\ events'[Len(events')] = e
<1>1. events \in Events /\ events' = Append(events, e) /\ Len(events) < MaxEvents
  BY DEF TypeOK, Take, Events
<1> QED
  BY <1>1 DEF Events

(* An ordinal is put into the inboxes of the receivers in q. *)
Puts(q, x) ==
  inbox' = [r \in Receivers |-> IF r \in q THEN Append(inbox[r], x) ELSE inbox[r]]

LEMMA PutFacts ==
  ASSUME TypeOK, NEW q, NEW x \in 1 .. MaxEvents, Puts(q, x), NEW r \in Receivers
  PROVE  /\ inbox'[r] \in Seq(1 .. MaxEvents)
         /\ Len(inbox[r]) \in Nat
         /\ Len(inbox'[r]) = IF r \in q THEN Len(inbox[r]) + 1 ELSE Len(inbox[r])
         /\ \A i \in 1 .. Len(inbox[r]) : inbox'[r][i] = inbox[r][i]
         /\ r \in q => inbox'[r][Len(inbox[r]) + 1] = x
<1>1. inbox[r] \in Seq(1 .. MaxEvents)
  BY DEF TypeOK
<1>2. inbox'[r] = IF r \in q THEN Append(inbox[r], x) ELSE inbox[r]
  BY DEF Puts
<1>3. \A s \in Seq(1 .. MaxEvents) :
        /\ Append(s, x) \in Seq(1 .. MaxEvents)
        /\ Len(s) \in Nat /\ Len(Append(s, x)) = Len(s) + 1
        /\ \A i \in 1 .. Len(s) : Append(s, x)[i] = s[i]
        /\ Append(s, x)[Len(s) + 1] = x
  OBVIOUS
<1>4. CASE r \in q
  <2>1. inbox'[r] = Append(inbox[r], x)
    BY <1>2, <1>4
  <2> QED
    BY <1>1, <1>3, <1>4, <2>1
<1>5. CASE r \notin q
  <2>1. inbox'[r] = inbox[r]
    BY <1>2, <1>5
  <2> QED
    BY <1>1, <1>3, <1>5, <2>1
<1> QED
  BY <1>4, <1>5

LEMMA PutHolds ==
  ASSUME TypeOK, NEW q, NEW x \in 1 .. MaxEvents, Puts(q, x),
         NEW r \in Receivers, NEW k
  PROVE  Holds(inbox'[r], k) <=> Holds(inbox[r], k) \/ (r \in q /\ k = x)
<1> DEFINE n == Len(inbox[r])
           n2 == Len(inbox'[r])
<1>0. /\ n \in Nat /\ n2 = IF r \in q THEN n + 1 ELSE n
      /\ \A i \in 1 .. n : inbox'[r][i] = inbox[r][i]
      /\ r \in q => inbox'[r][n + 1] = x
  BY PutFacts
<1>3. Holds(inbox[r], k) <=> \E i \in 1 .. n : inbox[r][i] = k
  BY DEF Holds
<1>4. Holds(inbox'[r], k) <=> \E i \in 1 .. n2 : inbox'[r][i] = k
  BY DEF Holds
<1> HIDE DEF n, n2
<1>1. CASE r \in q
  <2>1. \A i : i \in 1 .. n2 <=> i \in 1 .. n \/ i = n + 1
    BY <1>0, <1>1
  <2> QED
    BY <1>0, <1>1, <1>3, <1>4, <2>1
<1>2. CASE r \notin q
  BY <1>0, <1>2, <1>3, <1>4
<1> QED
  BY <1>1, <1>2

(* The two halves of RoutedAsRegistered. *)
Placed(r) ==
  \A i \in 1 .. Len(inbox[r]) :
    /\ inbox[r][i] \in 1 .. Len(events)
    /\ Concerns(calls, r, events[inbox[r][i]])
    /\ \A j \in 1 .. i - 1 : inbox[r][j] < inbox[r][i]

Served(r) ==
  \A k \in 1 .. Len(events) :
    Concerns(calls, r, events[k]) =>
      Holds(inbox[r], k) \/ (k = Len(events) /\ thread \in {"notify", "panicked"})

LEMMA RoutedHalves ==
  RoutedAsRegistered <=> \A r \in Receivers : Placed(r) /\ Served(r)
BY DEF RoutedAsRegistered, Placed, Served

LEMMA RoutedHalvesNext ==
  RoutedAsRegistered' <=> \A r \in Receivers : Placed(r)' /\ Served(r)'
BY DEF RoutedAsRegistered, Placed, Served

(* Whatever is taken, what is in the inboxes stays where it belongs. *)
LEMMA PlacedStays ==
  ASSUME TypeOK, NEW r \in Receivers, Placed(r),
         UNCHANGED <<calls, inbox>>,
         Len(events) \in Nat, Len(events') \in Nat, Len(events) <= Len(events'),
         \A i \in 1 .. Len(events) : events'[i] = events[i]
  PROVE  Placed(r)'
<1> SUFFICES ASSUME NEW i \in 1 .. Len(inbox[r])
             PROVE  /\ inbox[r][i] \in 1 .. Len(events')
                    /\ Concerns(calls, r, events'[inbox[r][i]])
                    /\ \A j \in 1 .. i - 1 : inbox[r][j] < inbox[r][i]
  BY DEF Placed
<1> QED
  BY DEF Placed

(* An ordinal may be put after smaller ones in the inboxes of receivers    *)
(* that it concerns.                                                       *)
LEMMA PlacedPut ==
  ASSUME TypeOK, NEW r \in Receivers, Placed(r),
         NEW q, NEW x \in 1 .. MaxEvents, Puts(q, x), UNCHANGED calls,
         Len(events) \in Nat, Len(events') \in Nat, Len(events) <= Len(events'),
         \A i \in 1 .. Len(events) : events'[i] = events[i],
         x <= Len(events'),
         r \in q => /\ Concerns(calls, r, events'[x])
                    /\ \A i \in 1 .. Len(inbox[r]) : inbox[r][i] < x
  PROVE  Placed(r)'
<1> SUFFICES ASSUME NEW i \in 1 .. Len(inbox'[r])
             PROVE  /\ inbox'[r][i] \in 1 .. Len(events')
                    /\ Concerns(calls, r, events'[inbox'[r][i]])
                    /\ \A j \in 1 .. i - 1 : inbox'[r][j] < inbox'[r][i]
  BY DEF Placed
<1> DEFINE n == Len(inbox[r])
<1>0. /\ n \in Nat /\ Len(inbox'[r]) = IF r \in q THEN n + 1 ELSE n
      /\ \A j \in 1 .. n : inbox'[r][j] = inbox[r][j]
      /\ r \in q => inbox'[r][n + 1] = x
  BY PutFacts
<1> HIDE DEF n
<1>1. CASE i \in 1 .. n
  <2>1. inbox'[r][i] = inbox[r][i] /\ \A j \in 1 .. i - 1 : inbox'[r][j] = inbox[r][j]
    BY <1>0, <1>1
  <2>2. /\ inbox[r][i] \in 1 .. Len(events) /\ Concerns(calls, r, events[inbox[r][i]])
        /\ \A j \in 1 .. i - 1 : inbox[r][j] < inbox[r][i]
    BY <1>1 DEF Placed, n
  <2> QED
    BY <2>1, <2>2
<1>2. CASE i \notin 1 .. n
  <2>1. r \in q /\ i = n + 1 /\ inbox'[r][i] = x
    BY <1>0, <1>2
  <2>2. \A j \in 1 .. i - 1 : j \in 1 .. n /\ inbox'[r][j] = inbox[r][j]
    BY <1>0, <2>1
  <2>3. \A j \in 1 .. n : inbox[r][j] < x
    BY <2>1 DEF n
  <2> QED
    BY <2>1, <2>2, <2>3
<1> QED
  BY <1>1, <1>2

-----------------------------------------------------------------------------
(* The types. *)

LEMMA TypeStep == TypeOK /\ ToldSoFar /\ [Next]_vars => TypeOK'
<1> SUFFICES ASSUME TypeOK, ToldSoFar, [Next]_vars
             PROVE  TypeOK'
  OBVIOUS
<1> USE DEF registry
<1>1. ASSUME NEW s \in Slots, NEW r \in Receivers, Register(s, r)
      PROVE  TypeOK'
  <2>1. DOMAIN slot' = DOMAIN slot \cup {s}
    BY <1>1 DEF Register
  <2>2. \A t \in DOMAIN slot' : slot'[t] \in handles'
    BY <1>1 DEF Register, TypeOK
  <2>3. calls' \in Seq(Slots \X Receivers)
    BY <1>1 DEF Register, TypeOK
  <2>4. handles' = handles \cup {r} /\ UNCHANGED <<thread, todo, inbox, dropped, events>>
    BY <1>1 DEF Register
  <2> QED
    BY <2>1, <2>2, <2>3, <2>4 DEF TypeOK
<1>2. CASE Create
  BY <1>2 DEF Create, TypeOK
<1>3. ASSUME NEW m \in Messages, TakeMessage(m)
      PROVE  TypeOK'
  <2>1. Take(m) /\ UNCHANGED <<registry, thread, todo, dropped>>
    BY <1>3 DEF TakeMessage
  <2>2. /\ events' \in Events /\ Len(events') \in 1 .. MaxEvents
    BY <2>1, TakeFacts
  <2>3. Puts(Chosen(m), Len(events'))
    BY <1>3 DEF TakeMessage, Puts
  <2>4. inbox' \in Inboxes
    <3>1. \A r \in Receivers : inbox'[r] \in Seq(1 .. MaxEvents)
      BY <2>2, <2>3, PutFacts
    <3> QED
      BY <2>3, <3>1 DEF Puts, Inboxes
  <2> QED
    BY <2>1, <2>2, <2>4 DEF TypeOK, Events, Inboxes
<1>4. ASSUME NEW m \in Messages, TakeMessagePanics(m)
      PROVE  TypeOK'
  <2>1. Take(m) /\ thread' = "panicked" /\ UNCHANGED <<registry, todo, inbox, dropped>>
    BY <1>4 DEF TakeMessagePanics
  <2>2. /\ events' \in Events /\ Len(events') \in 1 .. MaxEvents
    BY <2>1, TakeFacts
  <2> QED
    BY <2>1, <2>2 DEF TypeOK, Events
<1>5. ASSUME NEW e \in Notices, TakeNotice(e)
      PROVE  TypeOK'
  <2>1. /\ Take(e) /\ todo' = handles /\ UNCHANGED <<registry, inbox, dropped>>
        /\ thread' = IF handles = {} THEN "run" ELSE "notify"
    BY <1>5 DEF TakeNotice
  <2>2. /\ events' \in Events /\ Len(events') \in 1 .. MaxEvents
    BY <2>1, TakeFacts
  <2> QED
    BY <2>1, <2>2 DEF TypeOK, Events
<1>6. ASSUME NEW r \in Receivers, Notify(r)
      PROVE  TypeOK'
  <2>1. /\ thread = "notify" /\ todo' = todo \ {r} /\ UNCHANGED <<registry, dropped, events>>
        /\ thread' = "panicked" \/ thread' = IF todo = {r} THEN "run" ELSE "notify"
        /\ UNCHANGED inbox \/ inbox' = [inbox EXCEPT ![r] = Append(inbox[r], Len(events))]
    BY <1>6 DEF Notify
  <2>2. Len(events) \in 1 .. MaxEvents /\ inbox \in Inboxes
    BY <2>1 DEF TypeOK, ToldSoFar, Inboxes
  <2>3. Append(inbox[r], Len(events)) \in Seq(1 .. MaxEvents)
    BY <2>2 DEF Inboxes
  <2>4. inbox' \in Inboxes
    BY <2>1, <2>2, <2>3 DEF Inboxes
  <2> QED
    BY <2>1, <2>4 DEF TypeOK, Inboxes
<1>7. ASSUME NEW r \in Receivers, UserDrops(r)
      PROVE  TypeOK'
  BY <1>7 DEF UserDrops, TypeOK
<1>8. CASE TakeStop
  BY <1>8 DEF TakeStop, TypeOK
<1>9. CASE UNCHANGED vars
  BY <1>9 DEF vars, TypeOK
<1> QED
  BY <1>1, <1>2, <1>3, <1>4, <1>5, <1>6, <1>7, <1>8, <1>9 DEF Next

-----------------------------------------------------------------------------
(* The registry. *)

LEMMA RegisterKeeps ==
  ASSUME TypeOK, RegistryFollowsCalls, NEW s \in Slots, NEW r \in Receivers,
         Register(s, r)
  PROVE  RegistryFollowsCalls'
<1>0. calls \in Calls /\ DOMAIN slot \subseteq Slots
  BY DEF TypeOK, Calls
<1>1. /\ slot' = [t \in DOMAIN slot \cup {s} |-> IF t = s THEN r ELSE slot[t]]
      /\ handles' = handles \cup {r} /\ calls' = Append(calls, <<s, r>>)
      /\ events' = events /\ Len(events) = 0
  BY DEF Register, RegistryFollowsCalls
<1>2. /\ \A t : Vacant(calls', t) <=> Vacant(calls, t) /\ t # s
      /\ \A q : Registered(calls', q) <=> Registered(calls, q) \/ q = r
      /\ Owns(calls', r, s)
      /\ \A q, t : t # s /\ Owns(calls, q, t) => Owns(calls', q, t)
  <2> DEFINE d == Append(calls, <<s, r>>)
  <2>1. /\ \A t : Vacant(d, t) <=> Vacant(calls, t) /\ t # s
        /\ \A q : Registered(d, q) <=> Registered(calls, q) \/ q = r
        /\ Owns(d, r, s)
        /\ \A q, t : t # s /\ Owns(calls, q, t) => Owns(d, q, t)
    BY <1>0, CallFacts
  <2> QED
    BY <1>1, <2>1
<1>3. DOMAIN slot' = DOMAIN slot \cup {s}
  BY <1>1
<1>4. \A t \in Slots : t \in DOMAIN slot' <=> ~Vacant(calls', t)
  BY <1>2, <1>3 DEF RegistryFollowsCalls
<1>5. \A t \in DOMAIN slot' : Owns(calls', slot'[t], t)
  <2> TAKE t \in DOMAIN slot'
  <2>1. CASE t = s
    <3>1. slot'[t] = r
      BY <1>1, <2>1
    <3> QED
      BY <1>2, <2>1, <3>1
  <2>2. CASE t # s
    <3>1. t \in DOMAIN slot /\ slot'[t] = slot[t]
      BY <1>1, <2>2
    <3> QED
      BY <1>2, <2>2, <3>1 DEF RegistryFollowsCalls
  <2> QED
    BY <2>1, <2>2
<1>6. \A q \in Receivers : q \in handles' <=> Registered(calls', q)
  BY <1>1, <1>2 DEF RegistryFollowsCalls
<1> QED
  BY <1>1, <1>4, <1>5, <1>6 DEF RegistryFollowsCalls

LEMMA RegistryStep == TypeOK /\ RegistryFollowsCalls /\ [Next]_vars => RegistryFollowsCalls'
<1> SUFFICES ASSUME TypeOK, RegistryFollowsCalls, [Next]_vars
             PROVE  RegistryFollowsCalls'
  OBVIOUS
<1>1. ASSUME NEW s \in Slots, NEW r \in Receivers, Register(s, r)
      PROVE  RegistryFollowsCalls'
  BY <1>1, RegisterKeeps
<1>2. ASSUME UNCHANGED registry, thread' = "building" => UNCHANGED <<thread, events>>
      PROVE  RegistryFollowsCalls'
  BY <1>2 DEF registry, RegistryFollowsCalls
<1>3. ASSUME NEW m \in Messages, TakeMessage(m) \/ TakeMessagePanics(m)
      PROVE  UNCHANGED registry /\ thread' # "building"
  BY <1>3 DEF TakeMessage, TakeMessagePanics, Take
<1>4. ASSUME NEW e \in Notices, TakeNotice(e)
      PROVE  UNCHANGED registry /\ thread' # "building"
  BY <1>4 DEF TakeNotice
<1>5. ASSUME NEW r \in Receivers, Notify(r)
      PROVE  UNCHANGED registry /\ thread' # "building"
  BY <1>5 DEF Notify
<1>6. ASSUME NEW r \in Receivers, UserDrops(r)
      PROVE  UNCHANGED registry /\ UNCHANGED <<thread, events>>
  BY <1>6 DEF UserDrops
<1>7. Create \/ TakeStop => UNCHANGED registry /\ thread' # "building"
  BY DEF Create, TakeStop
<1>8. UNCHANGED vars => UNCHANGED registry /\ UNCHANGED <<thread, events>>
  BY DEF vars
<1> QED
  BY <1>1, <1>2, <1>3, <1>4, <1>5, <1>6, <1>7, <1>8 DEF Next

-----------------------------------------------------------------------------
(* Notifications. *)

(* A notice of all the receivers starts with nobody told. *)
LEMMA NoticeTold ==
  ASSUME TypeOK, RoutedAsRegistered, NEW e \in Notices, TakeNotice(e)
  PROVE  ToldSoFar'
<1>1. /\ Take(e) /\ todo' = handles /\ UNCHANGED <<handles, inbox>>
  BY DEF TakeNotice, registry
<1>2. /\ Len(events) \in Nat /\ Len(events') = Len(events) + 1
      /\ events'[Len(events')] = e
  BY <1>1, TakeFacts
<1>3. ASSUME NEW r \in handles
      PROVE  ~Holds(inbox'[r], Len(events'))
  <2>1. r \in Receivers
    BY DEF TypeOK
  <2>2. \A i \in 1 .. Len(inbox[r]) : inbox[r][i] \in 1 .. Len(events)
    BY <2>1 DEF RoutedAsRegistered
  <2> QED
    BY <1>1, <1>2, <2>2 DEF Holds
<1> QED
  BY <1>1, <1>2, <1>3 DEF ToldSoFar

LEMMA NotifyFacts ==
  ASSUME TypeOK, ToldSoFar, NEW r \in Receivers, Notify(r)
  PROVE  /\ thread = "notify" /\ r \in todo /\ todo' = todo \ {r}
         /\ UNCHANGED <<registry, dropped, events>>
         /\ Len(events) \in 1 .. MaxEvents
         /\ \/ r \in dropped /\ thread' = "panicked" /\ UNCHANGED inbox
            \/ /\ Puts({r}, Len(events))
               /\ thread' = IF todo = {r} THEN "run" ELSE "notify"
<1>1. thread = "notify" /\ r \in todo /\ todo' = todo \ {r}
  BY DEF Notify
<1>2. UNCHANGED <<registry, dropped, events>>
  BY DEF Notify
<1>3. Len(events) \in 1 .. MaxEvents
  BY <1>1 DEF TypeOK, ToldSoFar
<1>4. CASE r \in dropped
  BY <1>1, <1>2, <1>3, <1>4 DEF Notify
<1>5. CASE r \notin dropped
  <2>1. /\ inbox' = [inbox EXCEPT ![r] = Append(@, Len(events))]
        /\ thread' = IF todo = {r} THEN "run" ELSE "notify"
    BY <1>5 DEF Notify
  <2>2. Puts({r}, Len(events))
    BY <2>1 DEF Puts, TypeOK
  <2> QED
    BY <1>1, <1>2, <1>3, <2>1, <2>2
<1> QED
  BY <1>4, <1>5

LEMMA NotifyTold ==
  ASSUME TypeOK, ToldSoFar, NEW r \in Receivers, Notify(r)
  PROVE  ToldSoFar'
<1>1. /\ todo' = todo \ {r} /\ UNCHANGED <<handles, events>> /\ thread = "notify"
      /\ Len(events) \in 1 .. MaxEvents
      /\ thread' = "panicked" \/ Puts({r}, Len(events))
  BY NotifyFacts DEF registry
<1>2. CASE thread' = "panicked"
  BY <1>2 DEF ToldSoFar
<1>3. CASE Puts({r}, Len(events))
  <2>1. ASSUME NEW q \in handles
        PROVE  Holds(inbox'[q], Len(events')) <=> Holds(inbox[q], Len(events)) \/ q = r
    <3>1. q \in Receivers
      BY DEF TypeOK
    <3>2. \A k : Holds(inbox'[q], k) <=> Holds(inbox[q], k) \/ (q \in {r} /\ k = Len(events))
      BY <1>1, <1>3, <3>1, PutHolds
    <3> QED
      BY <1>1, <3>2
  <2>2. \A q \in handles : q \in todo <=> ~Holds(inbox[q], Len(events))
    BY <1>1 DEF ToldSoFar
  <2>3. \A q \in handles' : q \in todo' <=> ~Holds(inbox'[q], Len(events'))
    BY <1>1, <2>1, <2>2
  <2>4. Len(events') # 0 /\ events'[Len(events')] \in Notices
    BY <1>1 DEF ToldSoFar
  <2> QED
    BY <2>3, <2>4 DEF ToldSoFar
<1> QED
  BY <1>1, <1>2, <1>3

LEMMA ToldStep ==
  TypeOK /\ ToldSoFar /\ RoutedAsRegistered /\ [Next]_vars => ToldSoFar'
<1> SUFFICES ASSUME TypeOK, ToldSoFar, RoutedAsRegistered, [Next]_vars
             PROVE  ToldSoFar'
  OBVIOUS
<1>1. ASSUME NEW s \in Slots, NEW r \in Receivers, Register(s, r)
      PROVE  ToldSoFar'
  BY <1>1 DEF Register, ToldSoFar
<1>2. CASE Create \/ TakeStop
  BY <1>2 DEF Create, TakeStop, ToldSoFar
<1>3. ASSUME NEW m \in Messages, TakeMessage(m) \/ TakeMessagePanics(m)
      PROVE  ToldSoFar'
  BY <1>3 DEF TakeMessage, TakeMessagePanics, Take, ToldSoFar
<1>4. ASSUME NEW e \in Notices, TakeNotice(e)
      PROVE  ToldSoFar'
  BY <1>4, NoticeTold
<1>5. ASSUME NEW r \in Receivers, Notify(r)
      PROVE  ToldSoFar'
  BY <1>5, NotifyTold
<1>6. ASSUME UNCHANGED <<registry, thread, todo, inbox, events>>
      PROVE  ToldSoFar'
  BY <1>6 DEF ToldSoFar, registry
<1>7. ASSUME NEW r \in Receivers, UserDrops(r)
      PROVE  ToldSoFar'
  BY <1>6, <1>7 DEF UserDrops
<1>8. CASE UNCHANGED vars
  BY <1>6, <1>8 DEF vars
<1> QED
  BY <1>1, <1>2, <1>3, <1>4, <1>5, <1>7, <1>8 DEF Next

-----------------------------------------------------------------------------
(* The routing. *)

LEMMA PlacedBelow ==
  ASSUME NEW r \in Receivers, Placed(r), Len(events) \in Nat
  PROVE  \A i \in 1 .. Len(inbox[r]) : inbox[r][i] < Len(events) + 1
BY DEF Placed

(* An event that is taken; unless it is told of, or the thread goes on to  *)
(* tell of it or has panicked on it, it concerns nobody.                   *)
LEMMA ServedTake ==
  ASSUME TypeOK, NEW r \in Receivers, Served(r), thread = "run",
         NEW e \in Messages \cup Notices, Take(e), UNCHANGED calls,
         \A k : Holds(inbox[r], k) => Holds(inbox'[r], k),
         Concerns(calls, r, e) =>
           Holds(inbox'[r], Len(events')) \/ thread' \in {"notify", "panicked"}
  PROVE  Served(r)'
<1>1. /\ Len(events) \in Nat /\ Len(events') = Len(events) + 1
      /\ \A i \in 1 .. Len(events) : events'[i] = events[i]
      /\ events'[Len(events')] = e
  BY TakeFacts
<1>2. ASSUME NEW k \in 1 .. Len(events'), Concerns(calls, r, events'[k])
      PROVE  \/ Holds(inbox'[r], k)
             \/ k = Len(events') /\ thread' \in {"notify", "panicked"}
  <2>1. CASE k = Len(events')
    BY <1>1, <1>2, <2>1
  <2>2. CASE k # Len(events')
    <3>1. k \in 1 .. Len(events) /\ events'[k] = events[k]
      BY <1>1, <2>2
    <3>2. Holds(inbox[r], k)
      BY <1>2, <3>1 DEF Served
    <3> QED
      BY <3>2
  <2> QED
    BY <2>1, <2>2
<1> QED
  BY <1>2 DEF Served

LEMMA MessageRouted ==
  ASSUME TypeOK, RegistryFollowsCalls, NEW r \in Receivers, Placed(r), Served(r),
         NEW m \in Messages, TakeMessage(m)
  PROVE  Placed(r)' /\ Served(r)'
<1>1. /\ Take(m) /\ thread = "run" /\ Parse(m) # "panic"
      /\ UNCHANGED <<calls, thread>> /\ Puts(Chosen(m), Len(events'))
  BY DEF TakeMessage, Take, registry, Puts
<1>2. /\ Len(events) \in Nat /\ Len(events') = Len(events) + 1
      /\ Len(events') \in 1 .. MaxEvents
      /\ \A i \in 1 .. Len(events) : events'[i] = events[i]
      /\ events'[Len(events')] = m
  BY <1>1, TakeFacts
<1>3. r \in Chosen(m) <=> Concerns(calls, r, m)
  BY ChosenHandles, MessageFields DEF Concerns
<1>4. \A i \in 1 .. Len(inbox[r]) : inbox[r][i] < Len(events')
  BY <1>2, PlacedBelow
<1>5. Placed(r)'
  BY <1>1, <1>2, <1>3, <1>4, PlacedPut
<1>6. \A k : Holds(inbox'[r], k) <=>
               Holds(inbox[r], k) \/ (r \in Chosen(m) /\ k = Len(events'))
  BY <1>1, <1>2, PutHolds
<1>7. Served(r)'
  BY <1>1, <1>3, <1>6, ServedTake
<1> QED
  BY <1>5, <1>7

(* An event that is not put into any inbox, as the thread panics on it or  *)
(* is to tell all the receivers of it.                                     *)
LEMMA EventRouted ==
  ASSUME TypeOK, NEW r \in Receivers, Placed(r), Served(r),
         NEW e \in Messages \cup Notices, Take(e), UNCHANGED <<calls, inbox>>,
         Concerns(calls, r, e) => thread' \in {"notify", "panicked"}
  PROVE  Placed(r)' /\ Served(r)'
<1>1. /\ Len(events) \in Nat /\ Len(events') = Len(events) + 1
      /\ \A i \in 1 .. Len(events) : events'[i] = events[i]
  BY TakeFacts
<1>2. Placed(r)'
  BY <1>1, PlacedStays
<1>3. thread = "run"
  BY DEF Take
<1>4. Served(r)'
  BY <1>3, ServedTake
<1> QED
  BY <1>2, <1>4

LEMMA NotifyRouted ==
  ASSUME TypeOK, RegistryFollowsCalls, ToldSoFar, RoutedAsRegistered,
         NEW q \in Receivers, Notify(q), NEW r \in Receivers
  PROVE  Placed(r)' /\ Served(r)'
<1>0. Placed(r) /\ Served(r)
  BY RoutedHalves
<1>1. /\ thread = "notify" /\ q \in todo
      /\ UNCHANGED <<calls, events>> /\ Len(events) \in 1 .. MaxEvents
      /\ \/ thread' = "panicked" /\ UNCHANGED inbox
         \/ /\ Puts({q}, Len(events))
            /\ thread' = IF todo = {q} THEN "run" ELSE "notify"
  BY NotifyFacts DEF registry
<1>2. CASE thread' = "panicked" /\ UNCHANGED inbox
  <2>1. Placed(r)'
    BY <1>0, <1>1, <1>2 DEF Placed
  <2>2. Served(r)'
    BY <1>0, <1>1, <1>2 DEF Served
  <2> QED
    BY <2>1, <2>2
<1>3. CASE /\ Puts({q}, Len(events))
           /\ thread' = IF todo = {q} THEN "run" ELSE "notify"
  <2>1. \A k : Holds(inbox'[r], k) <=> Holds(inbox[r], k) \/ (r \in {q} /\ k = Len(events))
    BY <1>1, <1>3, PutHolds
  <2>2. q \in handles /\ \A p \in handles : p \in todo <=> ~Holds(inbox[p], Len(events))
    BY <1>1 DEF ToldSoFar, TypeOK
  <2>3. \A p \in Receivers : Concerns(calls, p, events[Len(events)]) <=> p \in handles
    <3>1. events[Len(events)].ev # "Data"
      BY <1>1 DEF ToldSoFar, Notices
    <3> QED
      BY <3>1 DEF Concerns, RegistryFollowsCalls
  <2>4. Placed(r)'
    <3>1. ASSUME r = q
          PROVE  \A i \in 1 .. Len(inbox[r]) : inbox[r][i] < Len(events)
      <4>1. ~Holds(inbox[r], Len(events))
        BY <1>1, <2>2, <3>1
      <4>2. \A i \in 1 .. Len(inbox[r]) :
              inbox[r][i] \in 1 .. Len(events) /\ inbox[r][i] # Len(events)
        BY <1>0, <4>1 DEF Placed, Holds
      <4> QED
        BY <1>1, <4>2
    <3>2. r = q => Concerns(calls, r, events[Len(events)])
      BY <2>2, <2>3
    <3> QED
      BY <1>0, <1>1, <1>3, <3>1, <3>2, PlacedPut
  <2>5. Served(r)'
    <3>1. ASSUME NEW k \in 1 .. Len(events), Concerns(calls, r, events[k])
          PROVE  Holds(inbox'[r], k) \/ (k = Len(events) /\ thread' \in {"notify", "panicked"})
      <4>1. CASE k = Len(events) /\ thread' = "run"
        <5>1. todo = {q} /\ r \in handles
          BY <1>3, <2>3, <3>1, <4>1
        <5>2. r = q \/ Holds(inbox[r], Len(events))
          BY <2>2, <5>1
        <5> QED
          BY <2>1, <4>1, <5>2
      <4>2. CASE k = Len(events) /\ thread' # "run"
        BY <1>3, <4>2
      <4>3. CASE k # Len(events)
        <5>1. Holds(inbox[r], k)
          BY <1>0, <3>1, <4>3 DEF Served
        <5> QED
          BY <2>1, <5>1
      <4> QED
        BY <4>1, <4>2, <4>3
    <3> QED
      BY <1>1, <3>1 DEF Served
  <2> QED
    BY <2>4, <2>5
<1> QED
  BY <1>1, <1>2, <1>3

LEMMA RoutedStep ==
  ASSUME TypeOK, RegistryFollowsCalls, ToldSoFar, RoutedAsRegistered, [Next]_vars
  PROVE  RoutedAsRegistered'
<1> SUFFICES ASSUME NEW r \in Receivers
             PROVE  Placed(r)' /\ Served(r)'
  BY RoutedHalvesNext
<1>0. Placed(r) /\ Served(r)
  BY RoutedHalves
<1>1. ASSUME NEW s \in Slots, NEW q \in Receivers, Register(s, q)
      PROVE  Placed(r)' /\ Served(r)'
  <2>1. UNCHANGED <<events, inbox>> /\ Len(events) = 0
    BY <1>1 DEF Register, RegistryFollowsCalls
  <2>2. ~\E i : i \in 1 .. Len(inbox[r])
    BY <1>0, <2>1 DEF Placed
  <2> QED
    BY <2>1, <2>2 DEF Placed, Served
<1>2. ASSUME UNCHANGED <<calls, events, inbox>>,
             thread' = thread \/ thread \notin {"notify", "panicked"}
      PROVE  Placed(r)' /\ Served(r)'
  <2>1. Placed(r)'
    BY <1>0, <1>2 DEF Placed
  <2>2. Served(r)'
    BY <1>0, <1>2 DEF Served
  <2> QED
    BY <2>1, <2>2
<1>3. ASSUME NEW m \in Messages, TakeMessage(m)
      PROVE  Placed(r)' /\ Served(r)'
  BY <1>0, <1>3, MessageRouted
<1>4. ASSUME NEW m \in Messages, TakeMessagePanics(m)
      PROVE  Placed(r)' /\ Served(r)'
  <2>1. Take(m) /\ UNCHANGED <<calls, inbox>> /\ thread' = "panicked"
    BY <1>4 DEF TakeMessagePanics, registry
  <2> QED
    BY <1>0, <2>1, EventRouted
<1>5. ASSUME NEW e \in Notices, TakeNotice(e)
      PROVE  Placed(r)' /\ Served(r)'
  <2>1. /\ Take(e) /\ UNCHANGED <<calls, inbox>>
        /\ thread' = IF handles = {} THEN "run" ELSE "notify"
    BY <1>5 DEF TakeNotice, registry
  <2>2. Concerns(calls, r, e) => r \in handles
    BY DEF Concerns, RegistryFollowsCalls, Notices
  <2> QED
    BY <1>0, <2>1, <2>2, EventRouted
<1>6. ASSUME NEW q \in Receivers, Notify(q)
      PROVE  Placed(r)' /\ Served(r)'
  BY <1>6, NotifyRouted
<1>7. ASSUME NEW q \in Receivers, UserDrops(q)
      PROVE  Placed(r)' /\ Served(r)'
  BY <1>2, <1>7 DEF UserDrops, registry
<1>8. CASE Create \/ TakeStop
  BY <1>2, <1>8 DEF Create, TakeStop, registry
<1>9. CASE UNCHANGED vars
  BY <1>2, <1>9 DEF vars, registry
<1> QED
  BY <1>1, <1>3, <1>4, <1>5, <1>6, <1>7, <1>8, <1>9 DEF Next

-----------------------------------------------------------------------------
(* Panics. *)

LEMMA PanicStep ==
  ASSUME TypeOK, ToldSoFar, PanicNeedsFault, [Next]_vars
  PROVE  PanicNeedsFault'
<1>1. ASSUME NEW m \in Messages, TakeMessagePanics(m)
      PROVE  PanicNeedsFault'
  <2>1. Take(m) /\ UNCHANGED <<handles, dropped>>
    BY <1>1 DEF TakeMessagePanics, registry
  <2>2. events'[Len(events')] = m
    BY <2>1, TakeFacts
  <2>3. CASE Parse(m) = "panic"
    BY <2>2, <2>3, ParseFacts, MessageFields DEF PanicNeedsFault
  <2>4. CASE Chosen(m) \cap dropped # {}
    BY <2>1, <2>4, ChosenAreHandles DEF PanicNeedsFault
  <2> QED
    BY <1>1, <2>3, <2>4 DEF TakeMessagePanics
<1>2. ASSUME NEW r \in Receivers, Notify(r)
      PROVE  PanicNeedsFault'
  <2>1. /\ r \in todo /\ UNCHANGED <<handles, dropped>>
        /\ thread' # "panicked" \/ r \in dropped
    BY <1>2, NotifyFacts DEF registry
  <2>2. r \in handles
    BY <2>1 DEF TypeOK
  <2> QED
    BY <2>1, <2>2 DEF PanicNeedsFault
<1>3. ASSUME NEW r \in Receivers, UserDrops(r)
      PROVE  PanicNeedsFault'
  BY <1>3 DEF UserDrops, registry, PanicNeedsFault
<1>4. ASSUME thread' # "panicked"
      PROVE  PanicNeedsFault'
  BY <1>4 DEF PanicNeedsFault
<1>5. ASSUME NEW s \in Slots, NEW r \in Receivers, Register(s, r)
      PROVE  thread' # "panicked"
  BY <1>5 DEF Register
<1>6. ASSUME NEW m \in Messages, TakeMessage(m)
      PROVE  thread' # "panicked"
  BY <1>6 DEF TakeMessage, Take
<1>7. ASSUME NEW e \in Notices, TakeNotice(e)
      PROVE  thread' # "panicked"
  BY <1>7 DEF TakeNotice
<1>8. Create \/ TakeStop => thread' # "panicked"
  BY DEF Create, TakeStop
<1>9. CASE UNCHANGED vars
  BY <1>9 DEF vars, registry, PanicNeedsFault
<1> QED
  BY <1>1, <1>2, <1>3, <1>4, <1>5, <1>6, <1>7, <1>8, <1>9 DEF Next

-----------------------------------------------------------------------------
(* Together. *)

LEMMA InitIInv == Init => IInv
<1> SUFFICES ASSUME Init
             PROVE  IInv
  OBVIOUS
<1>1. /\ DOMAIN slot = {} /\ handles = {} /\ thread = "building" /\ todo = {}
      /\ dropped = {} /\ Len(calls) = 0 /\ Len(events) = 0
      /\ \A r \in Receivers : Len(inbox[r]) = 0
  BY DEF Init
<1>2. TypeOK
  BY <1>1 DEF Init, TypeOK
<1>3. RegistryFollowsCalls
  BY <1>1 DEF RegistryFollowsCalls, Vacant, Registered
<1>4. RoutedAsRegistered
  BY <1>1 DEF RoutedAsRegistered
<1> QED
  BY <1>1, <1>2, <1>3, <1>4 DEF IInv, ToldSoFar, PanicNeedsFault

LEMMA StepIInv == IInv /\ [Next]_vars => IInv'
BY TypeStep, RegistryStep, ToldStep, RoutedStep, PanicStep DEF IInv

(* IInv holds in every state, for any registrations and any events.        *)
THEOREM Invariance == Spec => []IInv
<1> QED
  BY InitIInv, StepIInv, PTL DEF Spec

(* Every receiver gets exactly the messages that the calls on the builder  *)
(* promise it and every notice, in order and once, however its slots were  *)
(* taken over and in whatever order a notice is told.                      *)
THEOREM Routing == Spec => []RoutedAsRegistered
<1>1. IInv => RoutedAsRegistered
  BY DEF IInv
<1> QED
  BY <1>1, Invariance, PTL

(* Only a dropped receiver or a stated length whose sum overflows a u8     *)
(* panics the thread.                                                      *)
THEOREM PanicIsFault == Spec => []PanicNeedsFault
<1>1. IInv => PanicNeedsFault
  BY DEF IInv
<1> QED
  BY <1>1, Invariance, PTL


-----------------------------------------------------------------------------
(* AMMessage. *)

LEMMA WordBytes ==
  ASSUME NEW w \in Word
  PROVE  /\ w \div 256 \in Byte /\ w % 256 \in Byte
         /\ (w \div 256) * 256 + (w % 256) = w
<1>1. w \in Nat /\ w < 65536
  BY DEF Word
<1>2. w \div 256 \in 0 .. 255 /\ w % 256 \in 0 .. 255
  BY <1>1
<1>3. (w \div 256) * 256 + (w % 256) = w
  BY <1>1
<1> QED
  BY <1>2, <1>3 DEF Byte

LEMMA Cut ==
  ASSUME NEW S, NEW s \in Seq(S), NEW a \in Nat, NEW n \in Nat, a + n <= Len(s)
  PROVE  /\ SubSeq(s, a + 1, a + n) \in Seq(S)
         /\ Len(SubSeq(s, a + 1, a + n)) = n
         /\ \A i \in 1 .. n : SubSeq(s, a + 1, a + n)[i] = s[a + i]
<1>1. Len(s) \in Nat /\ \A i \in 1 .. Len(s) : s[i] \in S
  OBVIOUS
<1>2. \A i \in a + 1 .. a + n : s[i] \in S
  BY <1>1
<1>3. /\ SubSeq(s, a + 1, a + n) \in Seq(S)
      /\ Len(SubSeq(s, a + 1, a + n)) =
           IF a + 1 <= a + n THEN (a + n) - (a + 1) + 1 ELSE 0
      /\ \A i \in 1 .. (a + n) - (a + 1) + 1 :
           SubSeq(s, a + 1, a + n)[i] = s[a + 1 + i - 1]
  BY <1>2, SubSeqProperties, SMT
<1>4. (a + n) - (a + 1) + 1 = n /\ \A i \in 1 .. n : a + 1 + i - 1 = a + i
  OBVIOUS
<1> QED
  BY <1>3, <1>4

LEMMA HeaderType ==
  ASSUME NEW m \in Message
  PROVE  Header(m) \in Seq(Byte) /\ Len(Header(m)) = 7
<1>1. /\ m.dest \in Word /\ m.src \in Word
      /\ m.length \in Byte /\ m.group \in Byte /\ m.id \in Byte
  BY DEF Message
<1>2. /\ m.dest \div 256 \in Byte /\ m.dest % 256 \in Byte
      /\ m.src \div 256 \in Byte /\ m.src % 256 \in Byte
  BY <1>1, WordBytes
<1>3. \A a, b, c, d, e, f, g \in Byte :
        <<a, b, c, d, e, f, g>> \in Seq(Byte) /\ Len(<<a, b, c, d, e, f, g>>) = 7
  OBVIOUS
<1> QED
  BY <1>1, <1>2, <1>3 DEF Header

LEMMA ToBytesShape ==
  ASSUME NEW m \in Message
  PROVE  /\ ToBytes(m) \in Seq(Byte)
         /\ Len(ToBytes(m)) = 7 + Len(m.payload) + Len(m.metadata)
         /\ \A i \in 1 .. 7 : ToBytes(m)[i] = Header(m)[i]
         /\ \A i \in 1 .. Len(m.payload) : ToBytes(m)[7 + i] = m.payload[i]
         /\ \A i \in 1 .. Len(m.metadata) :
              ToBytes(m)[7 + Len(m.payload) + i] = m.metadata[i]
<1> DEFINE h == Header(m)
           p == m.payload
           q == m.metadata
           hp == h \o p
<1>1. h \in Seq(Byte) /\ Len(h) = 7 /\ p \in Seq(Byte) /\ q \in Seq(Byte)
  BY HeaderType DEF Message
<1>2. ToBytes(m) = hp \o q
  BY DEF ToBytes
<1> HIDE DEF h, p, q
<1>3. /\ hp \in Seq(Byte) /\ Len(hp) = 7 + Len(p)
      /\ \A i \in 1 .. 7 + Len(p) : hp[i] = IF i <= 7 THEN h[i] ELSE p[i - 7]
  <2>1. /\ hp \in Seq(Byte) /\ Len(hp) = Len(h) + Len(p)
        /\ \A i \in 1 .. Len(h) + Len(p) :
             hp[i] = IF i <= Len(h) THEN h[i] ELSE p[i - Len(h)]
    BY <1>1, ConcatProperties, ZenonT(30)
  <2> QED
    BY <1>1, <2>1
<1> HIDE DEF hp
<1>4. /\ hp \o q \in Seq(Byte) /\ Len(hp \o q) = Len(hp) + Len(q)
      /\ \A i \in 1 .. Len(hp) + Len(q) :
           (hp \o q)[i] = IF i <= Len(hp) THEN hp[i] ELSE q[i - Len(hp)]
  BY <1>1, <1>3, ConcatProperties, ZenonT(30)
<1> DEFINE b == ToBytes(m)
           n == Len(p)
           k == Len(q)
<1>5. n \in Nat /\ k \in Nat
  BY <1>1
<1>6. /\ b \in Seq(Byte) /\ Len(b) = 7 + n + k
      /\ \A i \in 1 .. 7 + n + k :
           b[i] = IF i <= 7 + n THEN hp[i] ELSE q[i - (7 + n)]
  BY <1>2, <1>3, <1>4
<1> HIDE DEF b, n, k
<1>7. \A i \in 1 .. 7 : b[i] = h[i]
  BY <1>3, <1>5, <1>6 DEF n
<1>8. \A i \in 1 .. n : b[7 + i] = p[i]
  <2> TAKE i \in 1 .. n
  <2>1. 7 + i \in 1 .. 7 + n + k /\ 7 + i <= 7 + n /\ ~(7 + i <= 7) /\ (7 + i) - 7 = i
    BY <1>5
  <2> QED
    BY <1>3, <1>5, <1>6, <2>1 DEF n
<1>9. \A i \in 1 .. k : b[7 + n + i] = q[i]
  <2> TAKE i \in 1 .. k
  <2>1. /\ 7 + n + i \in 1 .. 7 + n + k /\ ~(7 + n + i <= 7 + n)
        /\ (7 + n + i) - (7 + n) = i
    BY <1>5
  <2> QED
    BY <1>6, <2>1
<1> QED
  BY <1>6, <1>7, <1>8, <1>9 DEF b, n, k, h, p, q

(* Message::try_from accepts the bytes of every message that states the    *)
(* length of its payload and fits in 255 bytes: no sum overflows.          *)
THEOREM FittingParses ==
  ASSUME NEW m \in Message, Fits(m)
  PROVE  Outcome(Len(ToBytes(m)), ToBytes(m)[5]) = "ok"
<1>1. Len(m.payload) \in Nat /\ Len(m.metadata) \in Nat
  BY DEF Message
<1>2. \A i \in 1 .. 7 : ToBytes(m)[i] = Header(m)[i]
  BY ToBytesShape
<1>3. ToBytes(m)[5] = Len(m.payload)
  BY <1>2 DEF Header, Fits
<1>4. Len(ToBytes(m)) = 7 + Len(m.payload) + Len(m.metadata)
  BY ToBytesShape
<1>5. 7 + Len(m.payload) + Len(m.metadata) <= 255
  BY DEF Fits, MINIMUM_LENGTH
<1>6. \A n, k \in Nat : 7 + n + k <= 255 => Outcome(7 + n + k, n) = "ok"
  BY DEF Outcome, MINIMUM_LENGTH
<1> QED
  BY <1>1, <1>3, <1>4, <1>5, <1>6

(* Such a message comes back from its bytes as it was: the words have the  *)
(* same byte order both ways, and the metadata begins where the stated     *)
(* length says that the payload ends.                                      *)
THEOREM RoundTrip ==
  ASSUME NEW m \in Message, Fits(m)
  PROVE  FromBytes(ToBytes(m)) = m
<1> DEFINE d == ToBytes(m)
           p == m.payload
           q == m.metadata
           n == Len(p)
           k == Len(q)
<1>1. n \in Nat /\ k \in Nat /\ p \in Seq(Byte) /\ q \in Seq(Byte)
  BY DEF Message
<1>2. /\ d \in Seq(Byte) /\ Len(d) = 7 + n + k
      /\ \A i \in 1 .. n : d[7 + i] = p[i]
      /\ \A i \in 1 .. k : d[7 + n + i] = q[i]
  BY ToBytesShape
<1>3. \A i \in 1 .. 7 : d[i] = Header(m)[i]
  BY ToBytesShape
<1>4. /\ d[5] = m.length /\ d[6] = m.group /\ d[7] = m.id /\ m.length = n
      /\ d[1] = m.dest \div 256 /\ d[2] = m.dest % 256
      /\ d[3] = m.src \div 256 /\ d[4] = m.src % 256
  BY <1>3 DEF Header, Fits
<1>5. d[1] * 256 + d[2] = m.dest /\ d[3] * 256 + d[4] = m.src
  <2>1. m.dest \in Word /\ m.src \in Word
    BY DEF Message
  <2> QED
    BY <1>4, <2>1, WordBytes
<1> HIDE DEF d, p, q, n, k
<1>6. SubSeq(d, 8, n + 7) = p
  <2>1. 7 \in Nat /\ 7 + n <= Len(d) /\ 7 + 1 = 8 /\ 7 + n = n + 7
    BY <1>1, <1>2
  <2>2. /\ SubSeq(d, 7 + 1, 7 + n) \in Seq(Byte)
        /\ Len(SubSeq(d, 7 + 1, 7 + n)) = n
        /\ \A i \in 1 .. n : SubSeq(d, 7 + 1, 7 + n)[i] = d[7 + i]
    BY <1>1, <1>2, <2>1, Cut
  <2>3. SubSeq(d, 7 + 1, 7 + n) = p
    BY <1>1, <1>2, <2>2, SeqEqual DEF n
  <2> QED
    BY <2>1, <2>3
<1>7. SubSeq(d, n + 8, Len(d)) = q
  <2>1. /\ 7 + n \in Nat /\ 7 + n + k <= Len(d)
        /\ 7 + n + 1 = n + 8 /\ 7 + n + k = Len(d)
    BY <1>1, <1>2
  <2>2. /\ SubSeq(d, 7 + n + 1, 7 + n + k) \in Seq(Byte)
        /\ Len(SubSeq(d, 7 + n + 1, 7 + n + k)) = k
        /\ \A i \in 1 .. k : SubSeq(d, 7 + n + 1, 7 + n + k)[i] = d[7 + n + i]
    BY <1>1, <1>2, <2>1, Cut
  <2>3. SubSeq(d, 7 + n + 1, 7 + n + k) = q
    BY <1>1, <1>2, <2>2, SeqEqual DEF k
  <2> QED
    BY <2>1, <2>3
<1>8. FromBytes(d) =
        [dest |-> m.dest, src |-> m.src, length |-> m.length,
         group |-> m.group, id |-> m.id, payload |-> p, metadata |-> q]
  <2>1. d[5] + 7 = n + 7 /\ 7 + 1 = 8 /\ d[5] + 7 + 1 = n + 8
    BY <1>1, <1>4
  <2> QED
    BY <1>4, <1>5, <1>6, <1>7, <2>1 DEF FromBytes, MINIMUM_LENGTH
<1> QED
  BY <1>8 DEF d, p, q, Message
=============================================================================
