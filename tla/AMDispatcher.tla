---------------------------- MODULE AMDispatcher ----------------------------
(***************************************************************************)
(* An AMDispatcher (src/dispatcher/am/): its registry of receivers, filled *)
(* by the calls on AMDispatcherBuilder, and its thread, which parses every *)
(* message that the Connection hands on and gives it to one receiver, and  *)
(* tells every registered receiver of Connected and Disconnected.          *)
(*                                                                         *)
(* The two maps and the two defaults of the registry are one function here,*)
(* from slots <<kind, id>>; Default is the id of the two defaults.  Of a   *)
(* message in bytes the model keeps its length and the length it states,   *)
(* whether it is for this address, its group and its id.                   *)
(***************************************************************************)
EXTENDS Integers, Sequences, AMMessage

CONSTANTS
  Receivers,  (* AMReceivers of the user                                   *)
  Ids,        (* AM ids                                                    *)
  Default,    (* stands for the id of the default receiver and snooper     *)
  Groups,     (* AM groups of messages                                     *)
  Group,      (* the group of the dispatcher: of Groups, or NoGroup        *)
  NoGroup,    (* AMDispatcherBuilder::group(None)                          *)
  OddShapes,  (* lengths and stated payload lengths beside <<8, 1>>        *)
  MaxCalls,   (* bound: calls on the builder                               *)
  MaxEvents   (* bound: events that come from the Connection               *)

ASSUME NamesAssumption ==
  Default \notin Ids /\ NoGroup \notin Groups /\ Group \in Groups \cup {NoGroup}
ASSUME ShapesAssumption == OddShapes \subseteq Nat \X (0 .. 255)
ASSUME BoundsAssumption == MaxCalls \in Nat /\ MaxEvents \in Nat

VARIABLES
  slot,      (* the registry: slots that are taken, with their receivers   *)
  handles,   (* its `handles`: every receiver ever registered              *)
  thread,    (* building, run, notify, done, panicked                      *)
  todo,      (* notify_*: receivers still to tell                          *)
  inbox,     (* each receiver's channel: positions in events               *)
  dropped,   (* receivers the user has dropped                             *)
  calls,     (* history: the calls on the builder                          *)
  events     (* history: the events the thread has taken                   *)

registry == <<slot, handles, calls>>
vars == <<registry, thread, todo, inbox, dropped, events>>

Kinds == {"receiver", "snooper"}
Slots == Kinds \X (Ids \cup {Default})

(* Messages with one byte of payload, and ones of other shapes.            *)
Messages ==
  {[ev |-> "Data", length |-> 8, stated |-> 1, dest |-> d, group |-> g, id |-> n]
     : d \in {"own", "broadcast", "other"}, g \in Groups, n \in Ids}
  \cup {[ev |-> "Data", length |-> s[1], stated |-> s[2], dest |-> "own",
          group |-> g, id |-> n] : s \in OddShapes, g \in Groups, n \in Ids}
Notices == [ev : {"Connected", "Disconnected"}]

TypeOK ==
  /\ DOMAIN slot \subseteq Slots
  /\ \A s \in DOMAIN slot : slot[s] \in handles
  /\ handles \subseteq Receivers
  /\ thread \in {"building", "run", "notify", "done", "panicked"}
  /\ todo \subseteq handles /\ (thread \in {"building", "run"} => todo = {})
  /\ events \in Seq(Messages \cup Notices) /\ Len(events) <= MaxEvents
  /\ inbox \in [Receivers -> Seq(1 .. MaxEvents)]
  /\ dropped \subseteq Receivers
  /\ calls \in Seq(Slots \X Receivers)

Init ==
  /\ slot = <<>> /\ handles = {} /\ calls = <<>>
  /\ thread = "building" /\ todo = {}
  /\ inbox = [r \in Receivers |-> <<>>] /\ dropped = {}
  /\ events = <<>>

-----------------------------------------------------------------------------
(* The builder. *)

(* Mutant: entry(s).or_insert for the slot as for the handle. *)
RegisterFirst(s, r) ==
  /\ thread = "building" /\ Len(calls) < MaxCalls
  /\ slot' = [t \in DOMAIN slot \cup {s} |->
                IF t \in DOMAIN slot THEN slot[t] ELSE r]
  /\ handles' = handles \cup {r}
  /\ calls' = Append(calls, <<s, r>>)
  /\ UNCHANGED <<thread, todo, inbox, dropped, events>>

(* Mutant: the handle of a receiver is taken for its slot only. *)
RegisterForgets(s, r) ==
  /\ thread = "building" /\ Len(calls) < MaxCalls
  /\ slot' = [t \in DOMAIN slot \cup {s} |-> IF t = s THEN r ELSE slot[t]]
  /\ handles' = {r}
  /\ calls' = Append(calls, <<s, r>>)
  /\ UNCHANGED <<thread, todo, inbox, dropped, events>>

(* register_receiver, register_snooper and the two of the defaults.        *)
Register(s, r) ==
  /\ thread = "building" /\ Len(calls) < MaxCalls
  /\ slot' = [t \in DOMAIN slot \cup {s} |-> IF t = s THEN r ELSE slot[t]]
  /\ handles' = handles \cup {r}
  /\ calls' = Append(calls, <<s, r>>)
  /\ UNCHANGED <<thread, todo, inbox, dropped, events>>

Create ==
  /\ thread = "building"
  /\ thread' = "run"
  /\ UNCHANGED <<registry, todo, inbox, dropped, events>>

-----------------------------------------------------------------------------
(* The thread. *)

(* Mutant: the minimum length is not looked at; a field past the end is.   *)
ParseUnchecked(m) ==
  IF m.length > 255 THEN "error"
  ELSE IF m.length < MINIMUM_LENGTH \/ m.stated + MINIMUM_LENGTH > 255 THEN "panic"
  ELSE IF m.length < m.stated + MINIMUM_LENGTH THEN "error" ELSE "ok"

(* Message::try_from. *)
Parse(m) == Outcome(m.length, m.stated)

(* select_receiver *)
Select(m) ==
  LET kind == IF m.dest \in {"own", "broadcast"} THEN "receiver" ELSE "snooper"
      id == IF <<kind, m.id>> \in DOMAIN slot THEN m.id ELSE Default
  IN  {slot[s] : s \in {<<kind, id>>} \cap DOMAIN slot}

(* Who gets a message, after the group is looked at. *)
Chosen(m) ==
  IF Parse(m) = "ok" /\ Group \in {NoGroup, m.group} THEN Select(m) ELSE {}

Take(e) ==
  /\ thread = "run" /\ Len(events) < MaxEvents
  /\ events' = Append(events, e)

TakeMessage(m) ==
  /\ Take(m)
  /\ Parse(m) # "panic" /\ Chosen(m) \cap dropped = {}
  /\ inbox' = [r \in Receivers |->
                 IF r \in Chosen(m) THEN Append(inbox[r], Len(events'))
                                    ELSE inbox[r]]
  /\ UNCHANGED <<registry, thread, todo, dropped>>

(* The parser panics, or the send to a receiver that is gone does.         *)
TakeMessagePanics(m) ==
  /\ Take(m)
  /\ Parse(m) = "panic" \/ Chosen(m) \cap dropped # {}
  /\ thread' = "panicked"
  /\ UNCHANGED <<registry, todo, inbox, dropped>>

TakeNotice(e) ==
  /\ Take(e)
  /\ todo' = handles
  /\ thread' = IF handles = {} THEN "run" ELSE "notify"
  /\ UNCHANGED <<registry, inbox, dropped>>

(* notify_connected, notify_disconnected: one receiver, in the arbitrary   *)
(* order of the HashMap.                                                   *)
Notify(r) ==
  /\ thread = "notify" /\ r \in todo
  /\ todo' = todo \ {r}
  /\ IF r \in dropped
       THEN thread' = "panicked" /\ UNCHANGED inbox
       ELSE /\ inbox' = [inbox EXCEPT ![r] = Append(@, Len(events))]
            /\ thread' = IF todo = {r} THEN "run" ELSE "notify"
  /\ UNCHANGED <<registry, dropped, events>>

(* Stop, or every sender is gone. *)
TakeStop ==
  /\ thread = "run"
  /\ thread' = "done"
  /\ UNCHANGED <<registry, todo, inbox, dropped, events>>

(* The user. *)
UserDrops(r) ==
  /\ r \notin dropped
  /\ dropped' = dropped \cup {r}
  /\ UNCHANGED <<registry, thread, todo, inbox, events>>

Next ==
  \/ \E s \in Slots, r \in Receivers : Register(s, r)
  \/ Create
  \/ \E m \in Messages : TakeMessage(m) \/ TakeMessagePanics(m)
  \/ \E e \in Notices : TakeNotice(e)
  \/ \E r \in Receivers : Notify(r) \/ UserDrops(r)
  \/ TakeStop

Spec == Init /\ [][Next]_vars

-----------------------------------------------------------------------------
(* What the documentation of the builder promises, by the calls c on it.   *)

(* r was registered last for the slot. *)
Owns(c, r, s) ==
  \E i \in 1 .. Len(c) : c[i] = <<s, r>> /\ \A j \in i + 1 .. Len(c) : c[j][1] # s

Vacant(c, s) == \A i \in 1 .. Len(c) : c[i][1] # s
Registered(c, r) == \E i \in 1 .. Len(c) : c[i][2] = r

(* "Receivers handle all packets that are intended for the dispatcher      *)
(* address or the broadcast address", snoopers all others; "the default    *)
(* receiver handles all packets that have not been handled by another".    *)
Handles(c, r, m) ==
  /\ m.length <= 255 /\ m.length - MINIMUM_LENGTH >= m.stated
  /\ Group = NoGroup \/ m.group = Group
  /\ \E kind \in Kinds :
       /\ kind = "snooper" <=> m.dest = "other"
       /\ \/ Owns(c, r, <<kind, m.id>>)
          \/ Vacant(c, <<kind, m.id>>) /\ Owns(c, r, <<kind, Default>>)

Concerns(c, r, e) == IF e.ev = "Data" THEN Handles(c, r, e) ELSE Registered(c, r)

(* x is in the inbox s. *)
Holds(s, x) == \E i \in 1 .. Len(s) : s[i] = x

(* Every receiver gets what the calls on the builder promise it, in order  *)
(* and once: messages by the last registration of their slot or of the     *)
(* default, and Connected and Disconnected even when all its slots were    *)
(* taken over by others.  Between two events nothing is missing.           *)
RoutedAsRegistered ==
  \A r \in Receivers :
    /\ \A i \in 1 .. Len(inbox[r]) :
         /\ inbox[r][i] \in 1 .. Len(events)
         /\ Concerns(calls, r, events[inbox[r][i]])
         /\ \A j \in 1 .. i - 1 : inbox[r][j] < inbox[r][i]
    /\ \A k \in 1 .. Len(events) :
         Concerns(calls, r, events[k]) =>
           Holds(inbox[r], k) \/ (k = Len(events) /\ thread \in {"notify", "panicked"})

(* While its receivers live, the thread survives everything but a stated   *)
(* length whose sum overflows: no registration points to a handle that is  *)
(* not there, and no other malformed message does any harm.                *)
PanicNeedsFault ==
  thread = "panicked" =>
    \/ dropped \cap handles # {}
    \/ LET e == events[Len(events)]
       IN  e.ev = "Data" /\ e.stated > 255 - MINIMUM_LENGTH

(* Why they hold.  The registry keeps the last call for each slot, and     *)
(* every handle;                                                           *)
RegistryFollowsCalls ==
  /\ \A s \in Slots : s \in DOMAIN slot <=> ~Vacant(calls, s)
  /\ \A s \in DOMAIN slot : Owns(calls, slot[s], s)
  /\ \A r \in Receivers : r \in handles <=> Registered(calls, r)
  /\ thread = "building" => Len(events) = 0

(* and in the middle of a notification exactly the receivers of todo have  *)
(* not been told yet.                                                      *)
ToldSoFar ==
  thread = "notify" =>
    /\ Len(events) # 0 /\ events[Len(events)] \in Notices
    /\ \A r \in handles : r \in todo <=> ~Holds(inbox[r], Len(events))

(* With the types, what every step keeps (AMDispatcherProofs).             *)
IInv ==
  /\ TypeOK /\ RegistryFollowsCalls /\ ToldSoFar
  /\ RoutedAsRegistered /\ PanicNeedsFault

(* am/mod.rs: a message whose stated length does not match is an error of  *)
(* the parser (PayloadSizeMismatch), which the thread only logs.           *)
MismatchIsOnlyLogged == thread = "panicked" => dropped \cap handles # {}
=============================================================================
