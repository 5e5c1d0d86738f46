-------------------------- MODULE ConnectionBuilder --------------------------
(***************************************************************************)
(* Setting a Connection up (src/connection.rs, ConnectionBuilder): what a  *)
(* connection string gives, and where the handles of the dispatchers are   *)
(* from then on.  A dispatcher gives its handle away once; the builder's   *)
(* map keeps one handle per dispatch byte and drops the one it replaces;   *)
(* start hands the map to the Connection.  The thread of an AMDispatcher   *)
(* ends with Stop or with the last sender of its channel, and both senders *)
(* (tx and the stopper's) are in the handle; in a connection it may panic  *)
(* as well.                                                                *)
(*                                                                         *)
(* What the Connection does once it runs, and what panics that thread, is  *)
(* in the module Connection.                                               *)
(***************************************************************************)
EXTENDS Naturals, Sequences

CONSTANTS
  AMs,         (* dispatchers made by AMDispatcherBuilder::create          *)
  Raws,        (* dispatchers made by RawDispatcher::new                   *)
  Bytes,       (* dispatch bytes, the 0 of every AMDispatcher among them   *)
  Known,       (* hosts that resolve and ports the machine has             *)
  Unknown,     (* other names                                              *)
  Timeouts,    (* arguments of reconnect_timeout                           *)
  None,        (* no builder, no connection, no string yet                 *)
  MaxCalls     (* bound: reconnect_timeout calls of a builder              *)

ASSUME BytesAssumption == 0 \in Bytes
ASSUME NamesAssumption == Known \cap Unknown = {} /\ "" \notin Known \cup Unknown
ASSUME BoundsAssumption == MaxCalls \in Nat

Dispatchers == AMs \cup Raws
Default == "30 s"

(* A connection string: [scheme]@[name][suffix].                           *)
Strings == [scheme : {"sf", "serial", "other"},
            name : Known \cup Unknown \cup {""},
            suffix : {"none", "port", "above u16", "no number"}]

Transports == [scheme : {"sf", "serial"}, name : Known,
               number : {"9002", "115200", "given"},
               timeout : Timeouts \cup {Default}]

ASSUME NoneAssumption == None \notin Transports

VARIABLES
  byte,        (* dispatch byte of each dispatcher                         *)
  place,       (* where its handle is: "gone" with the dispatcher itself,  *)
               (* "orphaned" when its running connection was dropped       *)
  thread,      (* the thread of an AMDispatcher                            *)
  builder,     (* the transport builder, and the map of handles            *)
  table,
  conn,        (* the running connection's, likewise                       *)
  connTable,
  caller,      (* the thread that makes the calls                          *)
  string,      (* history: the string the builder was made from, and its   *)
  regs,        (* register_dispatcher and                                  *)
  times,       (* reconnect_timeout calls                                  *)
  started      (* history: what the running connection should be           *)

building == <<builder, table>>
running == <<conn, connTable, started>>
asked == <<string, regs, times>>
vars == <<byte, place, thread, building, running, caller, asked>>

Tables == UNION {[B -> Dispatchers] : B \in SUBSET Bytes}
In(t) == {t[b] : b \in DOMAIN t}

TypeOK ==
  /\ byte \in [Dispatchers -> Bytes] /\ \A d \in AMs : byte[d] = 0
  /\ place \in [Dispatchers ->
                  {"own", "builder", "connection", "stopped", "dropped",
                   "orphaned", "gone"}]
  /\ thread \in [AMs -> {"running", "ended", "panicked"}]
  /\ builder \in Transports \cup {None}
  /\ conn \in Transports \cup {None}
  /\ table \in Tables /\ connTable \in Tables
  /\ \A d \in Dispatchers : /\ place[d] = "builder" <=> d \in In(table)
                            /\ place[d] = "connection" <=> d \in In(connTable)
  /\ caller \in {"running", "panicked"}

Init ==
  /\ byte \in [Dispatchers -> Bytes] /\ \A d \in AMs : byte[d] = 0
  /\ place = [d \in Dispatchers |-> "own"]
  /\ thread = [d \in AMs |-> "running"]
  /\ builder = None /\ table = <<>>
  /\ conn = None /\ connTable = <<>>
  /\ caller = "running"
  /\ string = None /\ regs = <<>> /\ times = <<>>
  /\ started = None

(* What the calls of a builder ask for: the transport that its string      *)
(* names, with the last timeout set or else 30 s, and for each dispatch    *)
(* byte the dispatcher registered last for it.                             *)
LastOfByte(r) ==
  {r[i] : i \in {k \in 1 .. Len(r) :
                   \A j \in k + 1 .. Len(r) : byte[r[j]] # byte[r[k]]}}

Wanted(s, r, ts) ==
  [scheme |-> s.scheme, name |-> s.name,
   timeout |-> IF ts = <<>> THEN Default ELSE ts[Len(ts)],
   dispatchers |-> LastOfByte(r)]

Forget == string' = None /\ regs' = <<>> /\ times' = <<>>
Move(ds, to) == [d \in Dispatchers |-> IF d \in ds THEN to ELSE place[d]]

(* A panic unwinds the caller: all that it owns is dropped.                *)
Panic ==
  /\ caller' = "panicked"
  /\ place' = [d \in Dispatchers |->
                 IF place[d] = "stopped" THEN "stopped"
                 ELSE IF place[d] \in {"connection", "orphaned"} THEN "orphaned"
                 ELSE "dropped"]
  /\ builder' = None /\ table' = <<>>
  /\ conn' = None /\ connTable' = <<>>
  /\ Forget /\ started' = None
  /\ UNCHANGED <<byte, thread>>

-----------------------------------------------------------------------------
(* with_connection_string.                                                 *)

(* The expression of build_transport does not match.                       *)
Malformed(s) == s.scheme = "other" \/ s.name = "" \/ s.suffix = "no number"

(* SFBuilder::try_from: port 9002 unless one is given.  to_socket_addrs    *)
(* fails for a name that does not resolve and a port above u16.            *)
SFTransports(s) ==
  {t \in Transports :
     /\ t.scheme = "sf" /\ t.name = s.name /\ t.timeout = Default
     /\ s.suffix # "above u16"
     /\ t.number = IF s.suffix = "none" THEN "9002" ELSE "given"}

(* SerialBuilder::try_from.  The group of the baud rate keeps its colon,   *)
(* and parse::<u32>() refuses what begins with one: every given baud rate  *)
(* is invalid.                                                             *)
SerialTransports(s) ==
  {t \in Transports :
     /\ t.scheme = "serial" /\ t.name = s.name /\ t.timeout = Default
     /\ s.suffix = "none" /\ t.number = "115200"}

Build(s) ==
  IF Malformed(s) THEN {}
  ELSE IF s.scheme = "sf" THEN SFTransports(s) ELSE SerialTransports(s)

(* Nothing to build: an error, and no builder.                             *)
WithConnectionString(s) ==
  /\ caller = "running" /\ builder = None
  /\ builder' \in Build(s)
  /\ table' = <<>>
  /\ string' = s /\ regs' = <<>> /\ times' = <<>>
  /\ UNCHANGED <<byte, place, thread, running, caller>>

(* available_ports().unwrap() *)
EnumerationPanics(s) ==
  /\ caller = "running" /\ builder = None
  /\ ~Malformed(s) /\ s.scheme = "serial" /\ s.suffix = "none"
  /\ Panic

-----------------------------------------------------------------------------
(* The builder's methods.                                                  *)

(* Mutant: the first dispatcher of a byte stays. *)
RegisterFirst(d) ==
  /\ caller = "running" /\ builder # None /\ place[d] = "own"
  /\ IF byte[d] \in DOMAIN table
       THEN place' = Move({d}, "dropped") /\ UNCHANGED table
       ELSE /\ place' = Move({d}, "builder")
            /\ table' = [b \in DOMAIN table \cup {byte[d]} |->
                           IF b = byte[d] THEN d ELSE table[b]]
  /\ regs' = Append(regs, d)
  /\ UNCHANGED <<byte, thread, builder, running, caller, string, times>>

(* register_dispatcher: insert drops the handle it finds under the byte.   *)
Register(d) ==
  /\ caller = "running" /\ builder # None /\ place[d] = "own"
  /\ table' = [b \in DOMAIN table \cup {byte[d]} |->
                 IF b = byte[d] THEN d ELSE table[b]]
  /\ place' = [Move({table[b] : b \in DOMAIN table \cap {byte[d]}}, "dropped")
                 EXCEPT ![d] = "builder"]
  /\ regs' = Append(regs, d)
  /\ UNCHANGED <<byte, thread, builder, running, caller, string, times>>

(* get_handle: take().unwrap() of a handle that was given away before.     *)
RegisterPanics(d) ==
  /\ caller = "running" /\ builder # None /\ place[d] \notin {"own", "gone"}
  /\ Panic

(* Mutant: the transport's builder is not told. *)
ReconnectTimeoutLost(t) ==
  /\ caller = "running" /\ builder # None /\ Len(times) < MaxCalls
  /\ times' = Append(times, t)
  /\ UNCHANGED <<byte, place, thread, building, running, caller, string, regs>>

ReconnectTimeout(t) ==
  /\ caller = "running" /\ builder # None /\ Len(times) < MaxCalls
  /\ builder' = [builder EXCEPT !.timeout = t]
  /\ times' = Append(times, t)
  /\ UNCHANGED <<byte, place, thread, table, running, caller, string, regs>>

(* start: Connection::new takes the transport builder and the map.         *)
Start ==
  /\ caller = "running" /\ builder # None /\ conn = None
  /\ conn' = builder /\ connTable' = table
  /\ builder' = None /\ table' = <<>>
  /\ place' = Move(In(table), "connection")
  /\ started' = Wanted(string, regs, times) /\ Forget
  /\ UNCHANGED <<byte, thread, caller>>

DropBuilder ==
  /\ caller = "running" /\ builder # None
  /\ builder' = None /\ table' = <<>>
  /\ place' = Move(In(table), "dropped")
  /\ Forget
  /\ UNCHANGED <<byte, thread, running, caller>>

-----------------------------------------------------------------------------
(* The end of a connection, of a dispatcher, of a thread.                  *)

(* Connection::stop calls every stopper; that of an AMDispatcher joins, and*)
(* finds out about a thread that has panicked.                             *)
StopConnection ==
  /\ caller = "running" /\ conn # None
  /\ place' = Move(In(connTable), "stopped")
  /\ thread' = [d \in AMs |-> IF d \in In(connTable) /\ thread[d] = "running"
                              THEN "ended" ELSE thread[d]]
  /\ conn' = None /\ connTable' = <<>> /\ started' = None
  /\ UNCHANGED <<byte, building, caller, asked>>

DropConnection ==
  /\ caller = "running" /\ conn # None
  /\ place' = Move(In(connTable), "orphaned")
  /\ conn' = None /\ connTable' = <<>> /\ started' = None
  /\ UNCHANGED <<byte, thread, building, caller, asked>>

DropDispatcher(d) ==
  /\ caller = "running" /\ place[d] = "own"
  /\ place' = Move({d}, "gone")
  /\ UNCHANGED <<byte, thread, building, running, caller, asked>>

(* Mutant: the dispatcher keeps a sender when it gives its handle away. *)
ThreadEndsUnused(d) ==
  /\ place[d] = "gone" /\ thread[d] = "running"
  /\ thread' = [thread EXCEPT ![d] = "ended"]
  /\ UNCHANGED <<byte, place, building, running, caller, asked>>

(* recv fails: no sender is left.                                          *)
ThreadEnds(d) ==
  /\ place[d] \in {"dropped", "orphaned", "gone"} /\ thread[d] = "running"
  /\ thread' = [thread EXCEPT ![d] = "ended"]
  /\ UNCHANGED <<byte, place, building, running, caller, asked>>

(* A message panics it - for a receiver that was dropped, or with a stated *)
(* length that overflows - while its handle is in use, or when it was on   *)
(* the channel already as the connection was dropped.                      *)
ThreadPanics(d) ==
  /\ place[d] \in {"connection", "orphaned"} /\ thread[d] = "running"
  /\ thread' = [thread EXCEPT ![d] = "panicked"]
  /\ UNCHANGED <<byte, place, building, running, caller, asked>>

Next ==
  \/ \E s \in Strings : WithConnectionString(s) \/ EnumerationPanics(s)
  \/ \E d \in Dispatchers : Register(d) \/ RegisterPanics(d) \/ DropDispatcher(d)
  \/ \E t \in Timeouts : ReconnectTimeout(t)
  \/ Start \/ DropBuilder \/ StopConnection \/ DropConnection
  \/ \E d \in AMs : ThreadEnds(d) \/ ThreadPanics(d)

Spec == Init /\ [][Next]_vars

(* The threads run; nothing is assumed of the caller or of the messages.   *)
FairSpec == Spec /\ \A d \in AMs : WF_vars(ThreadEnds(d))

-----------------------------------------------------------------------------
(* The transport t and the map tab are what the calls asked for.           *)
Fits(t, tab, want) ==
  /\ t.scheme = want.scheme /\ t.name = want.name /\ t.timeout = want.timeout
  /\ In(tab) = want.dispatchers
  /\ \A b \in DOMAIN tab : byte[tab[b]] = b

(* A connection runs as its builder was told, through any order of calls   *)
(* and builders.                                                           *)
StartedAsConfigured ==
  conn # None => Fits(conn, connTable, started)

(* Why it holds.  The builder is what it was told so far,                  *)
BuiltAsTold == builder # None => Fits(builder, table, Wanted(string, regs, times))

(* and where there is no builder and no connection, there is no handle.    *)
NothingKept ==
  /\ regs \in Seq(Dispatchers) /\ times \in Seq(Timeouts)
  /\ builder = None => table = <<>>
  /\ conn = None => connTable = <<>>

(* With the types, what every step keeps (ConnectionBuilderProofs).        *)
IInv == TypeOK /\ NothingKept /\ BuiltAsTold /\ StartedAsConfigured

(* No thread outlives its use: the thread of an AMDispatcher that was      *)
(* replaced, dropped with its builder or connection, never registered and  *)
(* dropped, or lost in a panic of the caller does not stay behind.         *)
ThreadFollowsHandle ==
  \A d \in AMs :
    place[d] \in {"stopped", "dropped", "orphaned", "gone"} ~> thread[d] # "running"
=============================================================================
