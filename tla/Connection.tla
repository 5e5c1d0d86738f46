----------------------------- MODULE Connection -----------------------------
(***************************************************************************)
(* Connection (src/connection.rs) between one transport and its dispatchers*)
(* (src/dispatcher/):                                                      *)
(*                                                                         *)
(*  - the transport, here by what it promises (TransportEvents): `log` is  *)
(*    the channel of events from it, `to` the dispatchers each concerns;   *)
(*  - "connection-transport" (TransportWorker), which hands every event to *)
(*    the dispatchers it concerns;                                         *)
(*  - "connection-dispatcher-<byte>" (DispatcherWorker), one per           *)
(*    dispatcher, which hands what the user sends to the transport;        *)
(*  - "am-dispatcher-<byte>", the thread of an AMDispatcher; a             *)
(*    RawDispatcher has none, its channel is read by the user;             *)
(*  - "connection", which stops and joins the workers;                     *)
(*  - the user, who sends, may drop dispatchers and receivers, and in the  *)
(*    end calls Connection::stop or drops the Connection.                  *)
(*                                                                         *)
(* Every send on a channel whose receiver is gone is unwrapped: it panics  *)
(* the sending thread, whose own receivers are gone then.                  *)
(***************************************************************************)
EXTENDS Integers, Sequences

CONSTANTS
  AM,            (* dispatchers with a thread of their own (AMDispatcher)  *)
  Raw,           (* dispatchers without (RawDispatcher)                    *)
  TransportWorker, (* the name of that worker, beside the dispatchers      *)
  Held,          (* <<d, "tx">>, <<d, "rx">>: the ends of d the user holds *)
                 (* when the connection starts                             *)
  MaxEvents,     (* bound: events the transport emits                      *)
  MaxSends,      (* bound: data the user sends to each dispatcher          *)
  Dropped,       (* dispatchers the user may drop, or whose receivers, at  *)
                 (* any time                                               *)
  TransportFails (* the transport may panic of its own                     *)

Dispatchers == AM \cup Raw
Workers == Dispatchers \cup {TransportWorker}

ASSUME DispatchersAssumption == AM \cap Raw = {} /\ TransportWorker \notin Dispatchers
ASSUME HeldAssumption ==
  /\ Held \subseteq Dispatchers \X {"tx", "rx"}
  /\ \A d \in Raw : <<d, "tx">> \in Held <=> <<d, "rx">> \in Held
ASSUME BoundsAssumption == MaxEvents \in Nat /\ MaxSends \in Nat
ASSUME FaultsAssumption == Dropped \subseteq Dispatchers /\ TransportFails \in BOOLEAN

VARIABLES
  phase, session, log,  (* the transport, see TransportEvents              *)
  to,        (* to[i]: the dispatchers log[i] concerns                     *)
  oversized, (* positions in log of AM messages that state a length of 249 *)
             (* or more, the overflow of Message::try_from (AMMessage)     *)
  transport, (* running, stopping, stopped, panicked                       *)
  taken,     (* events the TransportWorker has taken off log               *)
  todo,      (* dispatchers it has still to hand log[taken] to             *)
  given,     (* each dispatcher's channel: positions in log, 0 for Stop    *)
  amTaken,   (* what the AMDispatcher's thread has taken off given         *)
  am,        (* its thread: run, done, panicked                            *)
  sent,      (* data the user has sent to each dispatcher                  *)
  sentOn,    (* what its DispatcherWorker has sent on to the transport     *)
  worker,    (* each worker: loop, send, done, panicked                    *)
  ctl,       (* workers that were told to stop (or lost the other end)     *)
  conn,      (* thread "connection": wait, signal, join, done, panicked    *)
  control,   (* control_tx: open, sent, dropped                            *)
  held,      (* what the user still holds of Held                          *)
  caller,    (* Connection::stop: no, transport, dispatchers, joining,     *)
             (* join, ok, err; or dropped                                  *)
  rest,      (* dispatchers whose stopper was not called yet               *)
  errors     (* its local `errors`                                         *)

T == INSTANCE TransportEvents

events == <<phase, session, log, to, oversized>>
inward == <<taken, todo, given>>
amVars == <<amTaken, am>>
outward == <<sent, sentOn>>
threads == <<worker, ctl, conn>>
stopper == <<caller, rest, errors, control>>
vars == <<events, transport, inward, amVars, outward, threads, held, stopper>>

Ended(w) == worker[w] \in {"done", "panicked"}
Has(d, k) == \E j \in 1 .. Len(given[d]) : given[d][j] = k

TypeOK ==
  /\ T!TypeOK
  /\ to \in Seq(SUBSET Dispatchers) /\ Len(to) = Len(log)
  /\ oversized \subseteq 1 .. Len(log)
  /\ transport \in {"running", "stopping", "stopped", "panicked"}
  /\ taken \in 0 .. Len(log) /\ todo \subseteq Dispatchers
  /\ given \in [Dispatchers -> Seq(0 .. MaxEvents + 1)]
  /\ amTaken \in [Dispatchers -> Nat]
  /\ \A d \in Dispatchers : amTaken[d] <= Len(given[d])
  /\ am \in [Dispatchers -> {"run", "done", "panicked"}]
  /\ sent \in [Dispatchers -> 0 .. MaxSends]
  /\ sentOn \in [Dispatchers -> Nat]
  /\ \A d \in Dispatchers : sentOn[d] <= sent[d]
  /\ worker \in [Workers -> {"loop", "send", "done", "panicked"}]
  /\ ctl \subseteq Workers
  /\ conn \in {"wait", "signal", "join", "done", "panicked"}
  /\ control \in {"open", "sent", "dropped"}
  /\ held \subseteq Held
  /\ caller \in {"no", "transport", "dispatchers", "joining", "join", "ok",
                 "err", "dropped"}
  /\ rest \subseteq Dispatchers /\ errors \in BOOLEAN

(* Connection::new: the transport runs, every thread is spawned. *)
Init ==
  /\ T!Init /\ to = <<>> /\ oversized = {} /\ transport = "running"
  /\ taken = 0 /\ todo = {} /\ given = [d \in Dispatchers |-> <<>>]
  /\ amTaken = [d \in Dispatchers |-> 0] /\ am = [d \in Dispatchers |-> "run"]
  /\ sent = [d \in Dispatchers |-> 0] /\ sentOn = [d \in Dispatchers |-> 0]
  /\ worker = [w \in Workers |-> "loop"] /\ ctl = {} /\ conn = "wait"
  /\ control = "open" /\ held = Held
  /\ caller = "no" /\ rest = {} /\ errors = FALSE

-----------------------------------------------------------------------------
(* The transport. *)

TransportAlive == transport \in {"running", "stopping"}

(* Events, as TransportEvents allows them.  Data concerns the dispatcher of*)
(* its first byte, or none, and may be an AM message with any length byte; *)
(* the others concern all of them.                                         *)
Emits ==
  /\ TransportAlive /\ ~Ended(TransportWorker)
  /\ \/ /\ Len(log) < MaxEvents
        /\ \/ session' = session + 1 /\ T!Connect
           \/ T!Disconnect \/ T!FailedAttempt
        /\ to' = Append(to, Dispatchers) /\ UNCHANGED oversized
     \/ /\ Len(log) < MaxEvents
        /\ T!Deliver
        /\ to' \in {Append(to, {d}) : d \in Dispatchers} \cup {Append(to, {})}
        /\ oversized' \in {oversized, oversized \cup {Len(log) + 1}}
     \/ T!Settle /\ UNCHANGED <<to, oversized>>
  /\ UNCHANGED <<transport, inward, amVars, outward, threads, held, stopper>>

(* A transport that stops ends its session first, beyond MaxEvents too. *)
LastDisconnect ==
  /\ transport = "stopping" /\ ~Ended(TransportWorker)
  /\ Len(log) = MaxEvents
  /\ T!Disconnect
  /\ to' = Append(to, Dispatchers) /\ UNCHANGED oversized
  /\ UNCHANGED <<transport, inward, amVars, outward, threads, held, stopper>>

TransportStops ==
  /\ transport = "stopping" /\ phase = "down"
  /\ transport' = "stopped"
  /\ UNCHANGED <<events, inward, amVars, outward, threads, held, stopper>>

(* Its own faults; or nobody receives its events any more. *)
TransportPanics ==
  /\ TransportAlive
  /\ TransportFails \/ Ended(TransportWorker)
  /\ transport' = "panicked"
  /\ UNCHANGED <<events, inward, amVars, outward, threads, held, stopper>>

-----------------------------------------------------------------------------
(* The workers.  Both kinds loop: can_continue looks for the stop signal,  *)
(* recv_timeout waits.  The two are one step here: a signal that comes     *)
(* after the look might as well have come after the receive, since nobody  *)
(* but the worker sees it.  A timeout changes nothing.                     *)

Looping(w) == worker[w] = "loop" /\ w \notin ctl
Goto(w, pc) == worker' = [worker EXCEPT ![w] = pc]

(* Mutant: a lost control channel is no reason to quit. *)
QuitOnSignalOnly(w) ==
  /\ worker[w] = "loop" /\ w \in ctl /\ control = "sent"
  /\ Goto(w, "done")
  /\ UNCHANGED <<events, transport, inward, amVars, outward, ctl, conn, held,
                 stopper>>

(* can_continue is false. *)
Quit(w) ==
  /\ worker[w] = "loop" /\ w \in ctl
  /\ Goto(w, "done")
  /\ UNCHANGED <<events, transport, inward, amVars, outward, ctl, conn, held,
                 stopper>>

(* Mutant: an unknown dispatch byte is unwrapped. *)
TakeEventUnknownPanics ==
  /\ Looping(TransportWorker) /\ taken < Len(log)
  /\ taken' = taken + 1
  /\ todo' = to[taken + 1]
  /\ Goto(TransportWorker, IF to[taken + 1] = {} THEN "panicked" ELSE "send")
  /\ UNCHANGED <<events, transport, given, amVars, outward, ctl, conn, held,
                 stopper>>

(* Mutant: only data is handed on. *)
TakeEventDataOnly ==
  /\ Looping(TransportWorker) /\ taken < Len(log)
  /\ taken' = taken + 1
  /\ todo' = {d \in to[taken + 1] : log[taken + 1].ev = "Data"}
  /\ Goto(TransportWorker, IF todo' = {} THEN "loop" ELSE "send")
  /\ UNCHANGED <<events, transport, given, amVars, outward, ctl, conn, held,
                 stopper>>

(* TransportWorker::start takes an event; handle_data looks up who gets it.*)
TakeEvent ==
  /\ Looping(TransportWorker) /\ taken < Len(log)
  /\ taken' = taken + 1
  /\ todo' = to[taken + 1]
  /\ Goto(TransportWorker, IF to[taken + 1] = {} THEN "loop" ELSE "send")
  /\ UNCHANGED <<events, transport, given, amVars, outward, ctl, conn, held,
                 stopper>>

Receives(d) == IF d \in AM THEN am[d] = "run" ELSE <<d, "rx">> \in held

(* Mutant: the event is handed to the first of the dispatchers only. *)
HandOnToOne(d) ==
  /\ worker[TransportWorker] = "send" /\ d \in todo
  /\ IF Receives(d)
       THEN /\ given' = [given EXCEPT ![d] = Append(@, taken)]
            /\ todo' = {}
            /\ Goto(TransportWorker, "loop")
       ELSE Goto(TransportWorker, "panicked") /\ UNCHANGED <<given, todo>>
  /\ UNCHANGED <<events, transport, taken, amVars, outward, ctl, conn, held,
                 stopper>>

(* send, notify_connected, notify_disconnected: one dispatcher, in the     *)
(* arbitrary order of the HashMap; the send is unwrapped.                  *)
HandOn(d) ==
  /\ worker[TransportWorker] = "send" /\ d \in todo
  /\ IF Receives(d)
       THEN /\ given' = [given EXCEPT ![d] = Append(@, taken)]
            /\ todo' = todo \ {d}
            /\ Goto(TransportWorker, IF todo = {d} THEN "loop" ELSE "send")
       ELSE Goto(TransportWorker, "panicked") /\ UNCHANGED <<given, todo>>
  /\ UNCHANGED <<events, transport, taken, amVars, outward, ctl, conn, held,
                 stopper>>

(* RecvTimeoutError::Disconnected: once the transport has ended all its    *)
(* senders may be gone.                                                    *)
NoMoreEvents ==
  /\ Looping(TransportWorker) /\ taken = Len(log) /\ ~TransportAlive
  /\ Goto(TransportWorker, "done")
  /\ UNCHANGED <<events, transport, inward, amVars, outward, ctl, conn, held,
                 stopper>>

(* DispatcherWorker::start: handle_data sends on, unwrapped.               *)
SendOn(d) ==
  /\ Looping(d) /\ sentOn[d] < sent[d]
  /\ IF TransportAlive
       THEN sentOn' = [sentOn EXCEPT ![d] = @ + 1] /\ UNCHANGED worker
       ELSE Goto(d, "panicked") /\ UNCHANGED sentOn
  /\ UNCHANGED <<events, transport, inward, amVars, sent, ctl, conn, held,
                 stopper>>

NoMoreSent(d) ==
  /\ Looping(d) /\ sentOn[d] = sent[d] /\ <<d, "tx">> \notin held
  /\ Goto(d, "done")
  /\ UNCHANGED <<events, transport, inward, amVars, outward, ctl, conn, held,
                 stopper>>

WorkerStep(w) ==
  \/ Quit(w)
  \/ w = TransportWorker
     /\ (TakeEvent \/ NoMoreEvents \/ \E d \in Dispatchers : HandOn(d))
  \/ w \in Dispatchers /\ (SendOn(w) \/ NoMoreSent(w))

(* The thread of an AMDispatcher: Stop ends it, anything else may go to    *)
(* receivers, and a receiver the user has dropped panics it.  The length   *)
(* of a message overflows a u8 and panics it too (or wraps, when the build *)
(* does not check), whoever receives.                                      *)
AMStep(d) ==
  /\ am[d] = "run" /\ amTaken[d] < Len(given[d])
  /\ amTaken' = [amTaken EXCEPT ![d] = @ + 1]
  /\ LET i == given[d][amTaken[d] + 1]
     IN  am' \in {[am EXCEPT ![d] = pc] : pc \in
                    IF i = 0 THEN {"done"}
                    ELSE IF i \in oversized THEN {"run", "panicked"}
                    ELSE IF <<d, "rx">> \in held THEN {"run"}
                    ELSE IF log[i].ev = "Data" THEN {"run", "panicked"}
                    ELSE {"panicked"}}
  /\ UNCHANGED <<events, transport, inward, outward, threads, held, stopper>>

(* All senders are gone: the Connection was dropped and its workers ended. *)
AMOrphaned(d) ==
  /\ am[d] = "run" /\ amTaken[d] = Len(given[d])
  /\ caller = "dropped" /\ Ended(TransportWorker)
  /\ am' = [am EXCEPT ![d] = "done"]
  /\ UNCHANGED <<events, transport, inward, amTaken, outward, threads, held,
                 stopper>>

-----------------------------------------------------------------------------
(* Thread "connection". *)

(* control_rx.recv().unwrap() *)
Awake ==
  /\ conn = "wait" /\ control # "open"
  /\ conn' = "signal"
  /\ UNCHANGED <<events, transport, inward, amVars, outward, worker, ctl, held,
                 stopper>>

(* Mutant: only the TransportWorker is told. *)
SignalTransportOnly(w) ==
  /\ conn = "signal" /\ w = TransportWorker /\ w \notin ctl
  /\ ctl' = ctl \cup {w}
  /\ UNCHANGED <<events, transport, inward, amVars, outward, worker, conn,
                 held, stopper>>

(* One worker is told to stop; when the receive has panicked, `handles` is *)
(* dropped and the worker finds its channel disconnected, which is the same*)
(* to can_continue.  A worker that is gone is only logged.                 *)
Signal(w) ==
  /\ conn = "signal" /\ w \notin ctl
  /\ ctl' = ctl \cup {w}
  /\ UNCHANGED <<events, transport, inward, amVars, outward, worker, conn,
                 held, stopper>>

AllSignalled ==
  /\ conn = "signal" /\ ctl = Workers
  /\ conn' = IF control = "sent" THEN "join" ELSE "panicked"
  /\ UNCHANGED <<events, transport, inward, amVars, outward, worker, ctl, held,
                 stopper>>

(* A worker that has panicked is only logged. *)
JoinWorkers ==
  /\ conn = "join" /\ \A w \in Workers : Ended(w)
  /\ conn' = "done"
  /\ UNCHANGED <<events, transport, inward, amVars, outward, worker, ctl, held,
                 stopper>>

ConnStep == Awake \/ AllSignalled \/ JoinWorkers \/ \E w \in Workers : Signal(w)

-----------------------------------------------------------------------------
(* Connection::stop, in the user's thread. *)

Stop ==
  /\ caller = "no"
  /\ caller' = "transport"
  /\ transport' = IF transport = "running" THEN "stopping" ELSE transport
  /\ UNCHANGED <<events, inward, amVars, outward, threads, held, rest, errors,
                 control>>

StopTransport ==
  /\ caller = "transport" /\ ~TransportAlive
  /\ errors' = (transport = "panicked")
  /\ caller' = "dispatchers" /\ rest' = Dispatchers
  /\ UNCHANGED <<events, transport, inward, amVars, outward, threads, held,
                 control>>

(* The stopper of d, in the arbitrary order of the HashMap.  A raw         *)
(* dispatcher's does nothing; an AMDispatcher's sends Stop and joins.      *)
StopDispatcher(d) ==
  /\ caller = "dispatchers" /\ d \in rest
  /\ rest' = rest \ {d}
  /\ IF d \in AM /\ am[d] = "run"
       THEN /\ given' = [given EXCEPT ![d] = Append(@, 0)]
            /\ caller' = "joining" /\ UNCHANGED errors
       ELSE errors' = (errors \/ d \in AM) /\ UNCHANGED <<given, caller>>
  /\ UNCHANGED <<events, transport, taken, todo, amVars, outward, threads,
                 held, control>>

(* Mutant: the stopper of an AMDispatcher sends Stop and does not join. *)
JoinDispatcherAtOnce ==
  /\ caller = "joining"
  /\ caller' = "dispatchers"
  /\ errors' = (errors \/ \E d \in AM \ rest : am[d] = "panicked")
  /\ UNCHANGED <<events, transport, inward, amVars, outward, threads, held,
                 rest, control>>

JoinDispatcher ==
  /\ caller = "joining" /\ \A d \in AM \ rest : am[d] # "run"
  /\ caller' = "dispatchers"
  /\ errors' = (errors \/ \E d \in AM \ rest : am[d] = "panicked")
  /\ UNCHANGED <<events, transport, inward, amVars, outward, threads, held,
                 rest, control>>

SendControl ==
  /\ caller = "dispatchers" /\ rest = {}
  /\ control' = "sent" /\ caller' = "join"
  /\ UNCHANGED <<events, transport, inward, amVars, outward, threads, held,
                 rest, errors>>

(* Mutant: stop does not wait for the workers. *)
JoinConnectionAtOnce ==
  /\ caller = "join"
  /\ caller' = IF errors THEN "err" ELSE "ok"
  /\ UNCHANGED <<events, transport, inward, amVars, outward, threads, held,
                 rest, errors, control>>

(* Mutant: a worker that panicked is an error of stop. *)
JoinConnectionStrictly ==
  /\ caller = "join" /\ conn = "done"
  /\ caller' = IF errors \/ \E w \in Workers : worker[w] = "panicked" THEN "err" ELSE "ok"
  /\ UNCHANGED <<events, transport, inward, amVars, outward, threads, held,
                 rest, errors, control>>

JoinConnection ==
  /\ caller = "join" /\ conn = "done"
  /\ caller' = IF errors THEN "err" ELSE "ok"
  /\ UNCHANGED <<events, transport, inward, amVars, outward, threads, held,
                 rest, errors, control>>

CallerStep ==
  \/ StopTransport \/ JoinDispatcher \/ SendControl \/ JoinConnection
  \/ \E d \in Dispatchers : StopDispatcher(d)

-----------------------------------------------------------------------------
(* The user. *)

UserSends(d) ==
  /\ <<d, "tx">> \in held /\ sent[d] < MaxSends /\ ~Ended(d)
  /\ sent' = [sent EXCEPT ![d] = @ + 1]
  /\ UNCHANGED <<events, transport, inward, amVars, sentOn, threads, held,
                 stopper>>

(* A RawDispatcher holds both ends; the receivers of an AMDispatcher are   *)
(* values of their own.                                                    *)
UserDrops(d) ==
  /\ d \in Dropped
  /\ \E end \in SUBSET {"tx", "rx"} \ {{}} :
       /\ d \in Raw => end = {"tx", "rx"}
       /\ {d} \X end \subseteq held
       /\ held' = held \ ({d} \X end)
  /\ UNCHANGED <<events, transport, inward, amVars, outward, threads, stopper>>

DropConnection ==
  /\ caller = "no"
  /\ caller' = "dropped" /\ control' = "dropped"
  /\ UNCHANGED <<events, transport, inward, amVars, outward, threads, held,
                 rest, errors>>

-----------------------------------------------------------------------------
TransportStep == Emits \/ LastDisconnect \/ TransportStops \/ TransportPanics

Next ==
  \/ TransportStep \/ ConnStep \/ Stop \/ CallerStep \/ DropConnection
  \/ \E w \in Workers : WorkerStep(w)
  \/ \E d \in AM : AMStep(d) \/ AMOrphaned(d)
  \/ \E d \in Dispatchers : UserSends(d) \/ UserDrops(d)

Spec == Init /\ [][Next]_vars

(* The threads run, the transport stops when it is told to (SFTransport,   *)
(* SerialTransport), and a caller of stop goes on.  Nothing makes the user *)
(* or the transport do anything else.                                      *)
FairSpec ==
  /\ Spec
  /\ \A w \in Workers : WF_vars(WorkerStep(w))
  /\ \A d \in AM : WF_vars(AMStep(d)) /\ WF_vars(AMOrphaned(d))
  /\ WF_vars(ConnStep) /\ WF_vars(CallerStep)
  /\ WF_vars(transport = "stopping" /\ TransportStep)

-----------------------------------------------------------------------------
(* Every dispatcher sees the events that concern it in the order in which  *)
(* the transport emitted them, without a gap and without a duplicate,      *)
(* whatever becomes of the other dispatchers: an event it has been handed  *)
(* comes after all the earlier ones that concern it, and after no other.   *)
InOrder ==
  \A d \in Dispatchers : \A i \in 1 .. Len(given[d]) :
    LET n == given[d][i]
    IN  n # 0 =>
          /\ n \in 1 .. Len(log) /\ d \in to[n]
          /\ \A j \in 1 .. i - 1 : given[d][j] < n
          /\ \A k \in 1 .. n - 1 :
               d \in to[k] => \E j \in 1 .. i - 1 : given[d][j] = k

(* While the user receives what the dispatchers hand on, no AMDispatcher   *)
(* is sent a message whose stated length overflows, the transport lives    *)
(* and nobody stops the connection, no thread panics: not for an unknown   *)
(* dispatch byte, not for data during a disconnection, not for any message *)
(* to a RawDispatcher.                                                     *)
Undisturbed ==
  /\ caller = "no" /\ transport = "running"
  /\ \A d \in Dispatchers : <<d, "rx">> \in held
  /\ \A k \in oversized : to[k] \cap AM = {}

NobodyPanics ==
  Undisturbed => /\ \A w \in Workers : worker[w] # "panicked"
                 /\ \A d \in AM : am[d] = "run"

(* While nothing disturbs the connection, nothing is held back: every      *)
(* dispatcher gets every event that concerns it, and the transport gets    *)
(* everything the user sends.  (In such a suffix there is time and again   *)
(* nothing on the way.)                                                    *)
NothingHeldBack ==
  []<>(Undisturbed => \A d \in Dispatchers :
         /\ \A k \in 1 .. Len(log) : d \in to[k] => Has(d, k)
         /\ sentOn[d] = sent[d])

(* Connection::stop returns, whatever was dropped or has panicked before   *)
(* and whichever thread is in the middle of handing something on.          *)
StopReturns == caller = "transport" ~> caller \in {"ok", "err"}

(* When it has returned, everything is over: no worker, no AMDispatcher is *)
(* left to hand anything on.                                               *)
StopIsFinal ==
  [][(caller \in {"ok", "err"})
       => UNCHANGED <<inward, amVars, sentOn, worker>>]_vars

(* What may panic the thread of an AMDispatcher: it lost its receivers, or *)
(* was handed a message whose stated length overflows.                     *)
AMFault(d) == <<d, "rx">> \notin held \/ \E k \in oversized : Has(d, k)

(* It fails only for the reason it reports: the transport, or a dispatcher *)
(* with one of these faults.  That its own workers panic on the ends that  *)
(* stop itself has closed - and they do - is not an error.                 *)
StopFailsOnlyByFault ==
  caller = "err" => transport = "panicked" \/ \E d \in AM : AMFault(d)

(* Why they hold.  Of the events taken, only the last may still have to be *)
(* handed to somebody, the dispatchers of todo;                            *)
HandedSoFar ==
  /\ Len(log) <= MaxEvents + 1
  /\ worker[TransportWorker] = "loop" => todo = {}
  /\ todo # {} => taken # 0 /\ todo \subseteq to[taken]
  /\ \A d \in Dispatchers :
       /\ \A i \in 1 .. Len(given[d]) :
            given[d][i] <= taken /\ (d \in todo => given[d][i] < taken)
       /\ \A k \in 1 .. taken :
            d \in to[k] => Has(d, k) \/ (k = taken /\ d \in todo)

(* nobody is told to stop before stop is called or something is dropped;   *)
NobodyStopsYet ==
  Undisturbed => /\ ctl = {} /\ conn = "wait" /\ control = "open"
                 /\ \A d \in AM : ~Has(d, 0)

(* an AMDispatcher ends by a fault of its own, when its stopper has sent   *)
(* Stop, or with a Connection that was dropped;                            *)
Stopping == caller \in {"dispatchers", "joining", "join", "ok", "err"}
AMEndsFor ==
  \A d \in AM :
    /\ Has(d, 0) => d \notin rest /\ Stopping
    /\ am[d] = "panicked" => AMFault(d)
    /\ am[d] = "done" => caller = "dropped" \/ (d \notin rest /\ Stopping)

(* and errors is set for a fault.                                          *)
ErrorsAreFaults ==
  /\ caller = "err" => errors
  /\ errors => transport = "panicked" \/ \E d \in AM : AMFault(d)

(* Threads are joined one after the other and do not start again.          *)
Joined ==
  /\ conn = "done" => \A w \in Workers : Ended(w)
  /\ caller \in {"ok", "err"} => conn = "done"
  /\ caller = "dispatchers" => \A d \in AM \ rest : am[d] # "run"
  /\ caller \in {"join", "ok", "err"} => \A d \in AM : am[d] # "run"

(* With the types, what every step keeps (ConnectionProofs).               *)
IInv ==
  /\ TypeOK /\ InOrder /\ HandedSoFar /\ NobodyStopsYet /\ NobodyPanics
  /\ AMEndsFor /\ ErrorsAreFaults /\ Joined

(* A Connection that is dropped without stop leaves no worker and no       *)
(* AMDispatcher behind, although nobody tells them (the transport stays).  *)
DropEndsWorkers ==
  caller = "dropped" ~> /\ \A w \in Workers : Ended(w)
                        /\ \A d \in AM : am[d] # "run"
=============================================================================
