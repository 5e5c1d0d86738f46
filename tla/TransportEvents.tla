--------------------------- MODULE TransportEvents --------------------------
(***************************************************************************)
(* What a transport promises the Connection on the channel of events it    *)
(* hands out (TransportHandle.rx): the order of Connected, Disconnected    *)
(* and Data over any number of sessions.  The transports of src/transport/ *)
(* implement it; Connection relies on nothing else.                        *)
(*                                                                         *)
(* A session is a number; sessions follow each other in increasing order.  *)
(* Data read before a session went down may still come after its           *)
(* Disconnected (the reader is joined only after that event is sent), but  *)
(* never after the Connected of a later session.  An attempt that fails    *)
(* after the connection was made reports one more Disconnected.            *)
(***************************************************************************)
EXTENDS Naturals, Sequences

VARIABLES
  phase,     (* "down"; "up"; "closing": Disconnected sent, reader alive   *)
  session,   (* the last session announced by Connected, 0 before the first*)
  log        (* the events sent so far, each with its session              *)

vars == <<phase, session, log>>

EventsOfKind == {"Connected", "Disconnected", "Data"}

TypeOK ==
  /\ phase \in {"down", "up", "closing"}
  /\ session \in Nat
  /\ log \in Seq([ev : EventsOfKind, session : Nat])

Init == phase = "down" /\ session = 0 /\ log = <<>>

Emit(ev, k) == log' = Append(log, [ev |-> ev, session |-> k])

(* Session numbers only ever grow; the next one need not be session + 1,   *)
(* since attempts that fail use some up.                                   *)
Connect ==
  /\ phase = "down"
  /\ phase' = "up"
  /\ session' \in Nat /\ session' > session
  /\ Emit("Connected", session')

Deliver ==
  /\ phase \in {"up", "closing"}
  /\ Emit("Data", session)
  /\ UNCHANGED <<phase, session>>

Disconnect ==
  /\ phase = "up"
  /\ phase' = "closing"
  /\ Emit("Disconnected", session)
  /\ UNCHANGED session

Settle ==
  /\ phase = "closing"
  /\ phase' = "down"
  /\ UNCHANGED <<session, log>>

FailedAttempt ==
  /\ phase = "down"
  /\ Emit("Disconnected", session)
  /\ UNCHANGED <<phase, session>>

Next == Connect \/ Deliver \/ Disconnect \/ Settle \/ FailedAttempt

Spec == Init /\ [][Next]_vars

-----------------------------------------------------------------------------
(* What the order is good for.                                             *)

(* Data of a session comes after its Connected and never after the         *)
(* Connected of a later one: a receiver can tell from the events it saw    *)
(* which connection a packet belongs to.                                   *)
SessionIsolation ==
  \A i, j \in 1 .. Len(log) :
    /\ log[i].ev = "Connected" /\ log[j].ev = "Data"
    => (i < j <=> log[i].session <= log[j].session)

(* Between two Connected there is a Disconnected: a receiver that has seen *)
(* Connected hears of the end of that session before it hears of the next. *)
Alternation ==
  \A i, j \in 1 .. Len(log) :
    i < j /\ log[i].ev = "Connected" /\ log[j].ev = "Connected"
    => \E k \in i .. j : log[k].ev = "Disconnected"
=============================================================================
