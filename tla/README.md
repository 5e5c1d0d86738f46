# moteconnection: models and proofs

`moteconnection` (Rust, `src/src/`) keeps a connection to a radio module, over a
serial port or a TCP serial-forwarder, and hands its packets to dispatchers. It
is built of threads and `std::sync::mpsc` channels; no lock but one is shared.
This directory models that part of it in TLA+, checks it with TLC on small
instances, and proves what matters most with TLAPS. The models are translated
from the source; where the source and its documentation disagree, a run shows
the counterexample (see *What the runs found*).

## 1. The system

```
 user -- dispatcher.tx --> DispatcherWorker (one per dispatcher) --\
                                                                    v  TransportHandle.tx
 user <-- AMReceiver <-- AMDispatcher <--- TransportWorker <--- transport (writer, reader) <--> port / socket
 user <-- RawDispatcher.rx <--------------/     TransportHandle.rx
 user -- Connection::stop --> transport stopper, dispatcher stoppers, thread "connection"
```

| Part | State | Operations | Interacts with | What is hard | What makes it correct |
|---|---|---|---|---|---|
| Serial transport, `transport/serial/mod.rs`: `ConnectionWorker` (writer), `SerialWorker` (reader), `SerialBuilder` | channel of events, `seq_num`, `waiting_for_ack` (shared, mutex), `SeqNumCache`, stop signal of the reader | take an event, write, mark, retry, handle Ack / AckPacket / NoAckPacket, open, stop, drain | reader loops Acks back into the writer's channel; both emit events to the connection | the reader may act between the write, the insert and the retry round; the u8 wraps; a burst uses up retries; two threads to stop; a write that times out | a packet ends acknowledged or after four writes, never otherwise; events in protocol order; stop ends both threads |
| HDLC codec, `serial/hdlc.rs` | buffer, escape flag | `decode`, `encode` | fed by the reader | frames come cut into chunks, after noise | what `encode` made is what `decode` yields, for any cut |
| Serial packets, `serial/packets.rs` | - | parse, build, CRC | reader, writer | lengths | a parsed packet has non-empty data; round trip |
| Serial-forwarder transport, `transport/serialforwarder.rs` | channel, socket, one reader per session | connect, handshake, session, shutdown, join, drain, stop | reader tells the writer of the end by the writer's own channel | close, reset, silence of the peer at any moment, a peer that does not read; a loopback event that outlives its session | sessions do not mix; every loss is reported; stop returns |
| Event protocol, `lib.rs` `Event`, `transport/mod.rs` | the stream of events | Connected, Data, Disconnected | transport to connection | | order over sessions |
| Connection, `connection.rs` (with `dispatcher/mod.rs`, `dispatcher/raw.rs`) | channels, control channel per worker, handles | `new`, hand on, send on, `stop`, drop | everything | a send to an end that is gone panics the sender; three stoppers in a row, the workers between them | order kept per dispatcher, nothing held back, stop returns and is final |
| AM dispatcher, `dispatcher/am/dispatcher.rs`, `receiver.rs` | registry: id to receiver, default, snoopers, handles | register, route, notify, stop | connection, receivers | dropped receivers; defaults and re-registration | a message goes to the one receiver the registration says |
| AM message, `dispatcher/am/mod.rs` | - | parse, build | | u8 arithmetic on a length byte | no panic; round trip |
| Builders, connection strings, `connection.rs` `ConnectionBuilder` | map of dispatcher handles, transport builder | parse `sf@host:port`, `serial@port:baud`, register, set the timeout, start | dispatchers (take their handle), `Connection::new` | a handle is given away once; one entry per dispatch byte; who drops what | a connection runs as its builder was told; no thread outlives its handle |

`PROJECT.json` lists every component with its status, every hazard at its line
with the properties that cover it, and for every definition the lines it models.

## 2. Modules

| Module | Models | State corresponds to |
|---|---|---|
| `TransportEvents` | What a transport promises on `TransportHandle.rx`: the abstract specification of both transports and the environment of `Connection` | `log`: the events sent; `session`, `phase`: what a user knows from them |
| `SerialArq` | Acknowledged sending on an open port: `ConnectionWorker` and `handle_ack` | `waiting` = `waiting_for_ack`, `seqNum` = `seq_num`, `resend` = the local `writes`, `wpc` the place in the loop |
| `SerialTransport` | `SerialBuilder::start` to the end of its threads: open, session, stop, drain | `wpc`, `reader` the threads; `rx` the channel; `log` the events |
| `SFTransport` | `SFBuilder::start` to the end of its threads, against any peer | `wpc`, `reader[k]` the threads; `sock`, `greeting` the peer; `rx`, `log`; the place `"blocked"` is inside `write_all` |
| `Connection`, `MCConnection` | `Connection::new`, `stop`, drop, `TransportWorker`, `DispatcherWorker`, the thread of an `AMDispatcher` | `given[d]` the dispatcher's channel, `oversized` the messages that state too long a length, `worker`, `am`, `conn` the threads, `caller` the user inside `stop` |
| `SerialLink` | two ends of a line that both run the serial transport: the writer's retries and the reader's `SeqNumCache` with its clock, and the Ack on its way back through the writer | `waiting`, `resend` as in `SerialArq`; `cache` = `seq_nums`; `rx` the writer's channel; `line`, `now` the line and the clock; `sent`, `got` history |
| `ConnectionBuilder` | `with_connection_string`, the builder's methods, `get_handle`, the drop of handles | `table` = `dispatchers`, `builder` = the transport builder, `place[d]` where the handle of a dispatcher is, `thread` the thread of an `AMDispatcher`; `string`, `regs`, `times`, `started` history |
| `AMMessage` | an ActiveMessage as bytes, both ways | adds no state |
| `AMDispatcher`, `MCAMDispatcher` | `AMDispatcherBuilder`, the registry, the thread of an `AMDispatcher`, `Message::try_from` | `slot` = the two maps and two defaults of `ReceiverRegistry`, `handles` = its handles, `inbox[r]` the receiver's channel; `calls`, `events` history |
| `Hdlc` | `HdlcCodec::encode` and `decode` with the line between them | `open`, `buf` = `decoded`, `escaped` = `escaped`; `pc`, `cur`, `pos` the sender; `out` the frames returned |
| `SerialPackets`, `MCSerialPackets` | the three packets, built and parsed, over `Hdlc`; the dispatch of `handle_data` | adds no state |
| `SerialArqProofs`, `SerialLinkProofs`, `SerialTransportProofs`, `SFTransportProofs`, `ConnectionBuilderProofs` | theorems about the module of that name | |
| `ConnectionProofs` | theorems about `Connection` and `TransportEvents` | |
| `AMDispatcherProofs` | theorems about `AMDispatcher` and `AMMessage` | |
| `SerialPacketsProofs` | theorems about `Hdlc` and `SerialPackets` | |

Each action stands for one handler or for the part of it between two points
where another thread can be noticed (a channel operation, a lock, a read or
write). `refinement`: `SFTransport` and `SerialTransport` each instantiate
`TransportEvents` with a mapping of `phase` and `session` and check its
specification as the property `FollowsProtocol`, which is also proved; `Connection` instantiates it
as its transport, so `Connection` is checked against every transport that
keeps the protocol, and not against one of the two.

Abstractions, in every module: a packet is an ordinal, a session is a number,
bytes and logging are left out. A thread that panics is in the state
`panicked`; what it owned is dropped, as Rust does. Timeouts are allowed
whenever their channel is empty. Those of a module:

- `SerialArq`: an Ack names only a sequence number. `AckLag` says that an Ack is
  not older than `AckLag < SeqMod` packets: the one assumption on the peer, and
  without it a stale Ack settles another packet after 256 others. Which thread
  of the process offers data does not matter; the loopback of Acks (wrapped and
  retried like data, line 359) is one of the sources.
  A write succeeds, here and in `SerialLink`; one that fails ends the writer,
  which is in `SerialTransport`.
- `SerialLink`: no frame on the line is an Ack by itself (the code wraps it), so
  no reader touches `waiting_for_ack` and the writer's steps between two writes
  are one. Time passes only while no copy of a packet would be later than `Span`
  after its first write, and `Span <= Cooldown`: the retries take 300 ms, the
  cooldown 10 s. The line keeps the order of frames and may lose `MaxLosses`.
- `SerialTransport`: `zero` says whether the `reconnect_timeout` is zero; the
  drain loop (line 143) then never reads the channel. Retries are left to
  `SerialArq`. A write fails when the port is gone or, the fault `"stall"`, when
  it takes longer than the 100 ms that `set_timeout` allows (`WriteFails`); both
  writes are unwrapped. Of a port that has just opened, `set_timeout` and
  `try_clone` are assumed to succeed.
- `SFTransport`: the `reconnect_timeout` is above zero. `shutdown` fails if the
  peer has reset the connection (`ENOTCONN`) and only then; other failures of a
  write are the fault `"write"`. A peer that does not read is the fault `"stall"`:
  `write_all` waits (`RunDataBlocks`) until the peer reads again, if ever
  (`PeerReads`), or the connection fails (`BlockedFails`).
- Both transports: whoever owns the transport keeps `TransportHandle.rx` until
  the threads have ended. The sends of events are unwrapped and would panic the
  thread once that receiver is gone; `Connection` allows for it
  (`TransportPanics`).
- `Connection`: `can_continue` and `recv_timeout` are one step (nobody but the
  worker sees the signal it has not read yet); the `HashMap` orders are
  arbitrary; the transport is `TransportEvents` and may panic if `TransportFails`.
  Any message may be one whose stated length overflows (`oversized`): the thread
  of an `AMDispatcher` may then panic although its receivers are held.
- `ConnectionBuilder`: a connection string is its scheme, its name and the kind of
  its suffix; whether a name resolves or the machine has the port is a constant.
  One thread makes the calls, one connection runs at a time; what it does while
  it runs is `Connection`, and the panic of an `AMDispatcher`'s thread there is
  `ThreadPanics` here. `place` is `"orphaned"` for a handle whose running
  connection was dropped.
- `AMDispatcher`: of a message the model keeps its length, the length it states,
  whether it is for this address, its group and its id; `Default` is the id of
  the default receiver and of the default snooper. `group(None)` is `NoGroup`.
- `Hdlc`: the codec keeps all its state between bytes and the line keeps their
  order, so the cuts between two reads and the delay of the line are invisible:
  a byte arrives in the step that sends it. The line may lose or change a byte,
  or make one up between frames, and the port may be opened in mid-frame. All
  bytes without a meaning in the framing are `Others`.
- `SerialPackets`: the CRC is any function of the bytes (a parameter); TLC is
  given one so weak that most damage passes it. A frame of an unknown type
  panics the reader, and no frame after it is handled (`PanickedBefore`).

## 3. Runs

| Run | Instance | Shows |
|---|---|---|
| `SerialArq` | 4 sequence numbers, 5 packets, 2 queued events, Acks less than 3 packets old | no retry lost, no entry overwritten, at most three in flight, no write after an Ack but one; `IInv`, with the types and the bound of four writes, is an invariant; every packet is settled in the end; Stop ends the writer |
| `SFTransport` | 2 sessions, 1 incoming packet, 2 data events, closes, resets, failed writes, peers that stop reading | events refine `TransportEvents`; sessions do not mix; only a fault panics the writer; every end is reported unless the writer is blocked for ever; stop returns unless a peer is silent or does not read for ever, and is final |
| `SerialTransport` | batches of up to 2 frames of every kind, 3 in all, 2 data events, a port that may go or stall, a reader that may meet an unknown type, a reconnect timeout that may be zero | events refine `TransportEvents`; stop returns unless the timeout is zero and the port never opens, is final, fails only by a fault |
| `SerialLink` | 4 packets over 3 sequence numbers, 3 lost frames, cooldown and span of one tick, 2 ticks | no packet is handed on twice; a copy is dropped only if its packet or one with its number was handed on within the cooldown; three losses are made good |
| `ConnectionBuilder` | 2 `AMDispatcher`s and a `RawDispatcher` of either byte, every kind of connection string, 2 timeouts, any number of builders and connections in a row | a connection runs as its builder was told; a handle is in one place; no thread of an `AMDispatcher` outlives its handle, whoever has panicked |
| `MCConnection` | one `AMDispatcher` whose receivers may be dropped, one `RawDispatcher`, 2 events (messages that overflow among them), 1 send each | order per dispatcher, nothing held back, nobody panics undisturbed, stop returns, is final, fails only by a fault, a dropped connection ends its workers |
| `MCAMDispatcher` | two receivers, two ids and the default, two groups, 2 registrations, 2 events, messages of odd lengths, receivers that may be dropped | every receiver gets exactly what the calls on the builder promise it; only a dropped receiver or an overflow panics the thread |
| `MCSerialPackets` | 2 packets out of 14 of the three kinds, one fault of the line, the port opened anywhere | a packet that is not hit is handled as it was built, with its last byte, unless a frame before it has panicked the reader; a clean line invents nothing; no empty data is handed on |
| `SFTransport_resetpanic`, `SerialTransport_loss`, `SerialLink_ack`, `AMDispatcher_overflow` | | violations, see below |

Where a module has an inductive invariant, its run checks `IInv`: the types, the
parts that only the proof needs, and the safety properties that follow from it.
"Undisturbed" in `MCConnection` means that the user has not begun to stop or drop
the connection, the transport runs, every receiver is still held, and no
`AMDispatcher` was sent a message whose stated length overflows: with any of
these a thread of the code does panic. The exceptions of the two transports:
`Hung` is a peer that does not greet or does not read; `LossIsReported` of
`SFTransport` excepts a writer that stays blocked in a write.

Why the bounds are enough. `SerialArq`: every bound of the code is in the
countdown of 3, so packets interact only with the three before them; 4 sequence
numbers make the fifth packet reuse one, and the theorems remove the bounds
anyway. `SFTransport`: a fault of one session can touch only the next (the
reader is joined before the next connect), so two sessions show it.
`SerialTransport`: the port is opened once (nothing returns the writer to
opening but Stop), and a batch of two is the least with a point between two
frames of one read. `MCConnection`: an event meets at most the one before it in
a worker; the two dispatchers are one of each kind, and two are needed for one
to be told while the other is gone; either event may be the message that
panics the `AMDispatcher`, with the other before or after it. `MCAMDispatcher`: two calls are the least
with a slot taken over or a default beside an id; the thread keeps nothing from
one event to the next but the order of the inboxes. `MCSerialPackets`: a FRAME
byte resets the decoder, so damage to a frame can touch only the next one, and
two frames show it; for `Hdlc` the theorems remove the bounds. `SerialLink`:
three losses are what the retries can make good; four packets over three
numbers are the least with a number that comes again, on either side of the
cooldown, and the second tick is what ends a cooldown. End "b" makes no packets
in the passing run (its Acks stay on its channel), so the exchange of Acks is
left to `SerialLink_ack`, which needs one packet and one Ack.
`ConnectionBuilder`: two `AMDispatcher`s share byte 0, the `RawDispatcher` may
share it too; one registration replaces at most one
handle, and two calls of `reconnect_timeout` are the least with one that counts. Every bound is a
named CONSTANT in a guard.

Deadlock is not checked where the threads end by design (each .cfg says so).

In `SerialLink` and `ConnectionBuilder` the threads are fair and the line, the
clock and the caller are not.

Fairness. `WF` of each thread: the operating system runs it, and its blocking
calls return when they can (`recv_timeout`, the port's read timeout). `SF` of
the drain loops' receive: `recv_timeout` takes an event that is queued rather
than time out, so the loop cannot time out for ever on a full channel. A read
of a socket is fair only if there is something to read. `Connection` assumes of
the transport only that it ends once it is told to, which is what the runs of
the two transports check, up to their named exceptions. Nothing is assumed of
the user, the peer, the port, Acks, messages, or the senders of data: that a
peer greets, reads (`PeerReads`) or closes is never fair. A write to a serial
port returns within its timeout; a write to a socket whose peer reads, at once.

## 4. What the runs found

- `SFTransport_resetpanic`: `stream.shutdown(..).unwrap()`
  (`serialforwarder.rs:97`) panics on a connection the peer has reset; the
  persistent connection is over and the `Disconnected` of line 98 is not sent.
- `SerialTransport_loss`: the reader ends silently on a read error; the loss of
  an idle port is not reported and the port not reopened.
- `SerialLink_ack`: the Ack of a packet is put on the writer's channel
  (`serial/mod.rs:276`) like data, and the writer wraps it in an `AckPacket`
  with a sequence number of its own (line 359). No Ack goes out as one: the
  sender's `waiting_for_ack` keeps its entry and every packet is written four
  times, and two ends that run this code acknowledge each other's Acks, whose
  bytes they hand to the dispatcher of byte `0x43`.
- `AMDispatcher_overflow`: `data[LENGTH_START] + MINIMUM_LENGTH`
  (`am/mod.rs:140`) is computed in a `u8`. A message that states a payload of
  249 bytes or more panics the dispatcher's thread, in a debug build by the
  overflow, in a release build by the slice of line 160; it is documented to be
  a `PayloadSizeMismatch`.

Facts of the code that the models contain and no run is spent on. Of
`SFTransport`: data that is on the channel when a session starts, sent while the
transport was connecting, is written to the new connection
(`serialforwarder.rs:93`; CHANGELOG.md:29 says it is dropped); the handshake
(line 259) reads without a timeout, and stop waits for a peer that accepts and
says nothing (`Hung`; CHANGELOG.md:36 says transports exit cleanly); so it does for
a peer that does not read (line 242), and the end of the session is not reported
meanwhile. Of `SerialTransport`: a write that times out panics the writer (lines
361 and 386), with the port present and nothing reported. Of
`ConnectionBuilder`: a `serial@` string with a baud rate is always refused,
since the group of line 188 keeps the colon and `":9600"` is no number
(`SerialTransports`); a second `AMDispatcher` of a builder silently replaces the
first; a dispatcher that is registered a second time, also after its connection
was stopped, panics the caller. With a reconnect timeout of zero a serial
transport whose port never opens cannot be stopped. Further: a frame
of unknown type panics the serial reader, and reception is over without a word;
a dropped `RawDispatcher` or `AMReceiver`, and a message to an `AMDispatcher` that
overflows, ends reception for all dispatchers and then the transport; a dispatcher may miss the last `Disconnected` of a
connection that is stopped; data sent during `stop` panics a worker and `stop`
still returns `Ok`.

## 5. Proofs

Every theorem holds for all values of the constants that the module's named
assumptions admit: any bounds, any sets of dispatchers, receivers, ids, bytes,
sessions and faults. An assumption beyond the kind of a constant is named below.
Each module has the same plan: an inductive invariant `IInv` (checked by the
module's run first), `Init => IInv`, one lemma per action or group of actions,
`Invariance`, and the safety and action properties as its consequences. What an
invariant needs beyond the properties it implies:

**`SerialArqProofs`** (assumes at least 3 sequence numbers, `AckLag` below their
number): `Invariance`, `TypeCorrect`, `NothingOverwritten`, `InflightBound`,
`WriteBound`, `NoRetryLost`, and the action property `QuietOnceAcked`.
`SettledIsAckedOrSpent` is not inductive, since an Ack removes the entry under
its number, whoever owns it now. `IInv` adds

- `SeqGaps`, `SeqCursor`: sequence numbers less than `SeqMod` packets apart
  differ by the difference of the ordinals modulo `SeqMod`, hence are different;
- `Entries`: an entry is filed under its packet's number, and has lost a retry
  for every packet sent since; with 3 retries an entry is at most 3 packets
  old, so (with `SeqMod >= 3`) a number is free when it comes round;
- `Budget`: copies written, retries left and the copy being written are four.

An Ack for packet p less than `SeqMod` packets old then finds p's own entry or
none. `AtMostThreeInflight` follows from `Entries` by an injection of the
entries into the last three packets.

**`SerialLinkProofs`** (assumes `Span <= Cooldown`: the last copy of a packet comes
before its number is free again): `Invariance`, `HandedOnOnce`
(`[]AtMostOnce`), `DropsAreRepeats` (`OnlyRepeatsDropped`). `Timely` bounds the
age of a packet that still has a copy somewhere; `Remembered` says that the cache
has, under the number of every packet handed on, a time no earlier than that
hand-over; so a second copy meets an entry that is at most `Span` old and is
refused. `Stamps` is the converse, a time in the cache was the time of a
hand-over, and gives `DropsAreRepeats`.

**`SerialTransportProofs`**: `Invariance`, `StopErrorIsFault`
(`StopFailsOnlyByFault`), `NothingAfterStop` (`StopIsFinal`), `EventsFollowProtocol`
(`FollowsProtocol`). `OneSession` relates the place of the writer to the reader and
to what has been reported; `EndsHaveReasons` says which fault or stop signal a
thread that is gone has seen, a write that timed out among them.

**`SFTransportProofs`**: `Invariance`, `PanicIsFault` (`PanicNeedsFault`),
`NothingAfterStop`, `EventsFollowProtocol`. `OneReader`: only the reader of the
current socket can be alive, from Connected until the writer has joined it.
`NothingLeftOver`: as long as nothing fails, a reader's Disconnected is on the
channel only while its session runs. Hence the drain loop never meets it, which
is where it would panic; and data of a session cannot come after the next
Connected.

The two refinements go step by step. `Phase` computes the phase of
`TransportEvents` from the places of writer and reader; each action of the
transport is then one of the abstract actions or a stutter, under `IInv`. An
attempt that fails after the socket was connected is `FailedAttempt`; the join of
a reader is `Settle`.

**`ConnectionProofs`**, for any dispatchers of either kind: `Invariance`,
`EventsInOrder` (`[]InOrder`), `NoPanicUndisturbed` (`[]NobodyPanics`), `StopErrorIsFault`,
`NothingAfterStop`, `SessionsReachDispatchers`. `InOrder` needs `HandedSoFar`: of the
events the `TransportWorker` has taken, only the last may be missing somewhere,
at the dispatchers of `todo`. `NobodyPanics` needs `NobodyStopsYet`: before stop or
a drop no signal is set and no dispatcher has been sent Stop.
`StopFailsOnlyByFault` needs `AMEndsFor` (an `AMDispatcher` ends by a lost receiver or
a message that overflows, `AMFault`, by Stop, or with a dropped connection; lemma
`FaultKept`: no step undoes an `AMFault`) and `ErrorsAreFaults`; `StopIsFinal` needs
`Joined`. Of `TransportEvents`, for any number of
sessions and events: `EventsInvariance`, `SessionsIsolated`, `SessionsAlternate`.
They use nothing of `Connection` but the instance `T`, and since both transports
implement `TransportEvents`, both keep their sessions apart. That the
`TransportWorker` does not undo it is `SessionsReachDispatchers`.

**`AMDispatcherProofs`**: `Invariance`, `Routing` (`[]RoutedAsRegistered`), `PanicIsFault`
(`[]PanicNeedsFault`). `RegistryFollowsCalls`: each slot of the registry is what the
last call for it has put there, and the handles are those of all calls. Lemma
`ChosenHandles` concludes that the receivers which `Select` picks are exactly those
the documentation of the builder promises the message to. `ToldSoFar`: in the
middle of a notification the receivers of `todo` are those not yet told. Of
`AMMessage`: `FittingParses` and `RoundTrip`, for every message that states the
length of its payload and fits in 255 bytes.

**`SerialPacketsProofs`**, for every alphabet, any frames, any number of frames
and faults, any checksum: of `Hdlc`, `Invariance`, `CleanLine` (`[]NothingInvented`)
and `UnhitFrameArrives` (the action property `FrameArrives`); of `SerialPackets`,
`NoEmptyData` (`[]DataNeverEmpty`) and `UnhitPacketArrives` (the action property
`PacketArrives`, for a reader that no frame of an unknown type has panicked). `NothingInvented` says nothing of a frame that is still on its way;
`InStep` adds that the decoder's buffer is what the sender has encoded so far,
with the same escape state, as long as the frame is not hit, that a frame entered
in its middle on a clean line finds the decoder closed, and that between frames
the buffer is empty. The two FRAME bytes are the induction's joints: from any
state of the decoder, one of them makes it `open`, empty and not escaped
(`FrameRestarts`). A packet is then a frame whose checksum fits, cut into its
fields again (lemmas on `Seal` and `Cut`).

**`ConnectionBuilderProofs`**, for any dispatchers, bytes and names: `Invariance`,
`RunsAsConfigured` (`[]StartedAsConfigured`). `BuiltAsTold` says of the builder what `StartedAsConfigured` says
of the connection that is made of it. A registration replaces, in the map, the
dispatcher of its byte, and no other (`TableAfter`), which is what it does to the last
registrations of the history (`LastAfter`). `NothingKept`: with no builder and no
connection there is no handle, so no handle is in two places.

Only model-checked: liveness, since fairness and `ENABLED` are out of the prover's
reach. These are `EventuallySettled`, `StopEndsWriter` (`SerialArq`), `HandedOn`
(`SerialLink`), `StopReturns` (`SerialTransport`), `LossIsReported`,
`StopReturnsUnlessHung` (`SFTransport`), `NothingHeldBack`, `StopReturns`,
`DropEndsWorkers` (`Connection`) and `ThreadFollowsHandle`
(`ConnectionBuilder`). Every
invariant and every action property that a passing run checks is a theorem.

## 6. Not modelled, and the plan

Done: every component of the table above but the examples, modelled, checked and
its safety proved. What is left
is to simplify the longest proofs, and to state lemmas shared by the two
transports once.

Not modelled: examples and tests (users of the library), logging, `Display`, the
values of the CRC, the settings of a port other than its name.
