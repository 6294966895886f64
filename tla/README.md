# A verification of statik

statik is a Minecraft limbo server: it accepts clients of protocol 763 (1.20.1)
or 767 (1.21.1), takes them through status or login into an empty world, keeps
them there, and offers a one-line JSON management API. This directory holds
TLA+ models of it, TLC runs over small instances and TLAPS proofs for every
instance. Paths below are relative to the repository's root;
`connection.rs` and the like without a path are in `crates/statik_server/src/`.

## The system

| part | state it keeps | operations |
|---|---|---|
| main task (`src/main.rs`, `src/quit.rs`) | its receiver of the shutdown channel, the mpsc receiver, the `Server` | `select!` over `server.run()`, three OS signals and the channel; `Server::shutdown`; two `drop`s; two final `recv`s |
| accept loop (`server.rs`) | two listeners, the senders of both channels | accept a Minecraft client: clone the mpsc sender, subscribe, spawn; accept an API client: clone the broadcast sender, spawn |
| connection task (`handler.rs`, `shutdown.rs`) | `is_shutdown`, a receiver, an mpsc sender | race `handle_connection` against `Shutdown::recv` |
| management task (`api.rs`) | a broadcast sender | read one line, check the token, answer, perhaps broadcast |
| connection (`connection.rs`) | `state`, `compression_threshold`, `buffer`, keepalive interval | drain frames, dispatch to the state's handler, read, keepalive, write |
| packets (`protocol.rs`, `crates/statik_proto`, `crates/statik_derive`) | none | decode by state and id, encode |
| codecs (`crates/statik_core`) | none | VarInt, BlockPos, BitSet, primitives |
| start-up (`src/main.rs`, `config.rs`, `Server::new`) | the configuration file, the configuration, two ports | read the file, create it where it is missing, select the version, bind |
| registries, world payloads | constants | built once |

How they interact: the tasks share a `broadcast` channel of capacity 1 (the
shutdown reason, sent by an API task and by main) and an `mpsc` channel nobody
sends on (its closing tells main that all connection tasks have ended). A
connection task owns its `Connection`, which no other task touches, and meets
its client only in the TCP stream. Server processes that are started in one
directory share its configuration file, and the machine's ports.

What is hard: the shutdown signal is sent from two places into a channel that
holds one value, while tasks subscribe, run and end; `select!` drops a
connection's future at whatever await it is in; the packet ids a client sends
mean something else in every state, and the state changes at different awaits;
the format of frames changes once, between two of them; TCP cuts the bytes
anywhere; a client need not keep to the protocol; time passes while a task
cannot write; a process may die while it creates the file another one reads.
`PROJECT.json` lists each
hazard with its line and the properties that cover it.

## The modules

| module | what it is |
|---|---|
| `Broadcast` | the part of tokio's `broadcast` channel the server relies on: positions, lag, closing (external) |
| `Api` | the management API as a function of a request: who may do what, and the answer |
| `Lifecycle` | main, accept loop, connection tasks and management tasks; composes `Broadcast` and `Api` |
| `GracefulDrain` | the abstract promise: serving, draining, stopped; no new connection while draining, none left when stopped |
| `LifecycleProofs` | theorems about `Lifecycle` |
| `Packets` | the id tables of both protocol versions and what a frame can decode to |
| `Session` | one connection: drain loop, handlers, bursts, keepalive, shutdown, and its client |
| `SessionProofs` | theorems about `Session` |
| `ClientView` | the abstract promise: the packet sequences a client may be told |
| `ProtocolProofs` | the theorem that `Session` implements `ClientView` |
| `VarInt` | the VarInt codec, with its sizes as parameters |
| `VarIntProofs` | theorems about `VarInt`: what `decode` makes of what `encode` wrote |
| `Framing` | frames at the byte level: `write_packet`, `read_buf`, `try_parse_packet` |
| `FramingProofs` | theorems about `Framing` |
| `PacketStream` | the abstract promise: packets arrive in order and complete, up to the first thing that is none |
| `Wire` | packet bodies at the byte level: every field type, every packet, encoders and decoders |
| `WireProofs` | theorems about `Wire`: what was encoded is decoded |
| `Keepalive` | the keepalive timer against time |
| `KeepaliveProofs` | theorems about `Keepalive` |
| `Startup` | processes, the configuration file and the ports, up to a listening server |
| `StartupProofs` | theorems about `Startup` |
| `MC...` | small instances |

### Lifecycle

`mainPc` is the place in `main`: `select` (the loop), `notify`
(`Server::shutdown`), `release` (the two drops), `drain` and `final` (the two
receives), `exited`, or `failed` for the error return of `reason?`. A broadcast
channel is the number of values ever sent (`tail`) and the last one (`slot`); a
receiver is a cursor. A connection task holds an mpsc sender while `pc` is
`accepted` or `serving`; a management task holds a broadcast sender while it is
`reading` or `responding`. Each action is one poll: what happens between two
awaits. An API task writes its answer after it has broadcast and in a separate
action, so that every other task may run in between.

The definitions named as variants (`InternalSilent`, `AcceptAlways`, ...) are
no part of the specification: they are plausible bugs, which the properties are
tested against.

### Session

A frame is its packet id; `NoId` is one that is too short to have an id, and
`Broken` bytes that are no frame (a bad Length, and with compression a bad Data
Length or stream), which end the connection in any state (`ParseBroken`). What a
body decodes to (which fields, whether it is too short or malformed) is chosen
when it is decoded, once, in the state the connection is in by then:
`Packets!decode` gives the possible outcomes. A frame that cannot be decoded
ends the connection before limbo and the drain in limbo (`ParseFailure`); under
compression a `NoId` frame ends inside its Data Length and ends the drain in any
state, Login included (`ParseStub`). A
handler enters a state and makes a list of writes (`script`), each with the
assignment that follows its await; `WriteDone` makes them one at a time.
`WriteSome` stops a write in the middle of a frame. `pc` is `parse` while the
task runs, `write` or `wait` at an await. `due` counts the keepalive deadlines
that have passed without a tick. A run of keepalives is recorded as one, which
keeps the record finite.

### Framing, PacketStream and VarInt

`try_parse_packet` is a function of the buffer: an outcome and the buffer it
leaves. What becomes of a body is `Session`'s business; here it is any of what
the connection's `state` allows: it is decoded and dispatched, perhaps into a
later state (`ParseBody`, `Ahead`), it ends the connection before limbo
(`ParseRefused`: a body that does not decode, or a handler that fails), or it
does not decode and is skipped in limbo, which ends the drain (`ParseSkip`).
In Play a keepalive starts another drain. `skipped` remembers whether the last
body was skipped, for `BufferBounded`. The parameters of `VarInt` are the values of a segment (`Base`, 2^7 in
the code), the bytes of the longest encoding (`MaxBytes`, 5) and the integers
that are not negative (`Half`, 2^31). TLC checks segments of two bits, three
bytes and integers of five bits: a codec of the same shape (the segments of the
longest encoding hold more bits than the value), in which lengths of two bytes
occur in short frames. A client frames only what its own server would take:
a body whose frame is within `MaxPacketSize` (`FramingAssumption`).
`PacketStream` knows no bytes: `Framing` implements it with `received` (the
bodies handed to the decoder) and `state` as they are, the stream garbled once
the client has written anything but a frame, and over once the task has given
up. It promises order without loss, an end only by a refused packet or behind
all that came before the garbage, and that every packet is decoded in the end
except in Configuration, where one behind a skipped one may wait for ever.

### Wire

What `Session` leaves open, what a body decodes to, is settled here: for each
packet the fields its derived `Encode` and `Decode` visit in order
(`crates/statik_derive`, `crates/statik_proto`), for each type its bytes
(`crates/statik_core/src/impls.rs`, `varint.rs`, `position.rs`, `raw.rs`,
`handshake.rs`). A value is encoded, the body perhaps altered on its way, and
decoded with the table of some state. A decoder reads from a position and
returns a value, `truncated` or `malformed`, and the position it stopped at.
Texts are sequences of bytes; the fixed parts of a world payload, which no
decision depends on, are opaque. Widths are parameters: a byte has four bits in
the instance, a VarInt eight bits in up to three segments of three, a position
sixteen (`XSize`, `YSize`: the values of its coordinates).

### Keepalive

`now` is time since the connection was accepted, `deadline` the next tick of
tokio's interval, which the code creates with the connection and with the
default missed-tick behaviour: a late tick is followed at once by the next.
Ticks are taken only in Play. `pc` is `wait` (in `select!`), `write` (inside a
keepalive) or `burst` (inside the join burst). Time passes only while the task
cannot move: a poll is short beside 15 seconds. The client may stop reading,
which blocks a write, and may send at any time, which makes the read branch win.

### Startup

A file is absent, not readable, not UTF-8 or a set of keys with values; a key is
modelled when something depends on it (the others behave like
`general.log_level`), named after its section where names clash (`mc_port`).
`from_str` has the defaults of `serde(default)`, and the one section that lacks
it: `[general]` must be complete or left out. Creating the file is two steps,
since `tokio::fs::write` opens (and empties) it before it writes. Processes start,
die and are started again at any point; an operator
writes, removes or locks the files; other programs hold ports.

## The runs

| run | question | instance | result |
|---|---|---|---|
| `lifecycle` | does the shutdown protocol keep its promises in every interleaving? | 2 connection tasks, 2 management tasks, 8 requests, a configured token | holds |
| `lifecycle_abort` | does main wait for all connections (`main.rs:169`)? | the same | no: two requests at once make its receiver lag, and `?` returns |
| `session` | does a connection keep to the protocol whatever the client sends? | 5 frames of 4 ids, without an id or broken, 2 in flight, 1 overdue keepalive, 2 registries | holds |
| `session_drain` | is every complete frame drained (`connection.rs:123`)? | the same | no: not behind a skipped frame in Configuration, nor in a compressed Login behind one that ends inside its Data Length |
| `session_login` | is Configuration entered only after LoginSuccess (`connection.rs:713`)? | the same | no: the acknowledgement alone is enough |
| `session_torn` | does shutdown leave work in a safe state (`handler.rs:26`)? | the same | no: also half a frame |
| `framing` | do a client's packets arrive as encoded, however TCP cuts them? | 3 writes of 3 bodies and 7 malformed strings, thresholds -1, 0, 2 | holds |
| `framing_desync` | is a frame consumed whole (`connection.rs:301`)? | the same | no: not one that ends inside its Data Length |
| `wire` | does every body decode to what was encoded, and every damaged one to what `Session` assumes? | every packet of both versions, cut, extended or with 2 departures, read in every state | holds |
| `keepalive` | does a client hear keepalives in time, whatever came before? | an interval of 3, 14 units of time | holds |
| `startup` | do processes agree on their configuration and get their ports, whoever dies? | 2 processes, 3 starts, 11 contents of a file, 1 edit | holds |
| `startup_overwrite` | is the file created only when it could not be found (`main.rs:52`)? | the same | no: every error of reading it is taken for that |

What the passing runs show:

- `lifecycle`. `NoMissedShutdown`: after main's broadcast every live task has
  something to receive. `NoHandlerSpins`: no task receives `Closed`, on which
  `Handler::run` would loop without end. `FinalRecvReturns`: main's last receive
  is answered by its own broadcast. `DrainedBeforeExit`, `NoAcceptAfterStop`:
  the drain is complete and nobody enters behind it. `OnlyAuthorizedStop`,
  `ReasonIsGenuine`: who may stop the server and what clients are told.
  `FailsOnlyOnTwoOrders`: the one way main gives up. `ShutdownCompletes`: a
  shutdown ends the process although no client moves. `DrainsGracefully`: the
  whole implements `GracefulDrain`, liveness included.
- `session`. `FormatsAgree`: a frame has a Data Length exactly when
  SetCompression went before it. `WrittenInItsState`: a packet is written in
  the state whose table holds its id. `StateMovesForward`: the state machine's
  edges. `SpeaksTheProtocol`: the sequence of packets implements `ClientView`.
  `SleepsOnFramesOnlyAfterSkip` and `BufferDrains` bound what `session_drain`
  shows: frames are left waiting only in Configuration and, under compression,
  in Login; in Play a keepalive takes them up again, elsewhere they are never
  left. `HangupEnds`: no task outlives its client. `LimboEndsWithClient`: once
  in limbo, no body, however short or malformed, makes the server drop a client:
  it ends when the client goes, when the client sends bytes that are no frame,
  or with the shutdown.
- `framing`. `StreamsPackets`: the whole implements `PacketStream`: a client's
  packets are decoded one after the other, also those that arrive in one read or
  with garbage behind them; none is passed over, nobody is disconnected for
  garbage before the frames in front of it are dealt with, and outside
  Configuration each is decoded in the end. In Configuration a packet behind a
  skipped one may wait for ever, as `session_drain` shows. `BodiesInOrder` says
  the order in one line. `BufferBounded`: without compression a task never
  sleeps on more than a frame, unless it has just skipped one. Behind skipped
  frames complete ones pile up (one is taken per read, and a read may bring
  several), and with compression behind those that end inside their Data Length:
  there the code has no bound.
- `wire`. `RoundTrip`: a body decodes to the packet it was made from and is read
  to its end. `CutIsTruncated`: a body that was only cut short fails as an end
  of file and never as malformed, or decodes all the same. `AsSessionAssumes`:
  whatever a body holds, its outcome in any state is one that `Packets!decode`
  lists, so the choices in `Session` cover what the decoders do.
- `keepalive`. `Punctual`: a client that reads hears one within an interval of
  entering Play and of the one before. `NeverTimesOut`: twice the interval is
  tolerance enough if every stall is shorter than one. Neither says that the
  burst after a long login (below) is right.
- `startup`. `SameFileSameConfig`: processes that read the same file, whole,
  half made, absent or just created, run the same configuration.
  `OwnFileAccepted`: no process rejects what another has created. `OneWins`: of
  processes started with the same usable ports one gets them. `StartEnds`: every
  start ends in a server or an error.

Four things the models show that no run is spent on. A shutdown ordered through
the API is broadcast twice, by the API task and by main, although
`shutdown.rs:6-7` speaks of a single value. Outside limbo a body that is too
short for its packet ends the connection like a hang-up, silently
(`handler.rs:60-63` means the peer's close). After a long login or a blocked
write the keepalives whose time has passed are sent in a burst, because the
interval is created with the connection and only its ticks wait for Play:
`connection.rs:128-129` speaks of one fresh keepalive per interval in Play, and
`connection.rs:141-142` of a timer that runs only there. And the 1.20.1 `Login` packet cannot be read back
by this repository's own decoder: its `registry_holder` is a `RawBytes` field
that takes all that is left (`packet.rs:25-34` asks the two to be inverse), so
`RoundTrip` leaves it out; only clients decode it.

### Bounds

Two connection tasks and two management tasks are enough for what the lifecycle
properties relate: a task that subscribed before a broadcast and one after it,
and two requests that overtake main. Requests cover every action, a right, a
wrong and an absent token, and a reason given or left out. In `session`, five
frames are the longest path to Play (handshake, hello, acknowledgement, finish)
and one more; two in flight let a frame wait behind another; the ids 0, 1, 3
and 99 take each of the four outcomes a frame can have in each state: it moves
the connection on, is answered, is ignored or fails; a frame without an id and
bytes that are no frame are the other two ways a parse can go. Two registries stand for
eleven. One overdue deadline stands for any number: a keepalive changes nothing
a later one looks at. In `framing`, the bodies lie below, at and above the
threshold, and one needs a Length of two bytes; three writes are a packet,
garbage behind it and a packet behind that.

In `wire`, the integers of 1, 2, 4 and 8 bytes have 1, 2, 3 and 4, a UUID 5, a
signature of 256 bytes 6 and the acknowledged bits 2: different sizes, so that a
field read with the wrong width is seen; a position has 16 bits. Every packet is
written with plain fields but for two departures: two unusual values (a list or
an option that is not empty, a long text, a negative number), or one of them and
a changed byte; each is also cut at every place and read in every state. In `keepalive`, an interval of 3 has a
middle, and 14 units hold four deadlines: a login across two of them, a stall
and its recovery. In `startup`, three starts of two processes are a first start,
one beside it and one after a death; one edit is an operator's file met by any
of them.

### Fairness

`Lifecycle`: the runtime polls main and each connection task when it can move.
Nothing is assumed of clients, API clients or signals. `Session`: the task is
polled; `select!` picks a ready branch at random, hence strong fairness for
reading; time passes; and, named apart as `PeerReads`, a client that is written
to reads or resets. Without that last assumption nothing can be promised: a
client that does neither keeps its task in a write, with no timeout in the code.
`Framing`: the same, strong fairness for reading (in Play the timer may win
`select!` again and again), the timer ticks and the task runs.
`Startup`: a process that was started runs; nothing makes an operator write or a
process be started again. `Wire` and `Keepalive` claim safety only; in
`Keepalive`, time that stands still while the task can move takes the place of
fairness.

## The proofs

`LifecycleProofs` proves, for any sets of connection tasks, management tasks,
requests, tokens and reasons that satisfy the named assumptions of `Api` and
`Lifecycle`: type correctness and every safety property that the run `lifecycle`
checks, and that every step is a step of `GracefulDrain` or leaves it unchanged.

None of them is inductive alone. The invariant `IInv` adds why: no cursor is
ahead of the channel (a receive returns a value that was sent); from main's
broadcast on, the cursor of every live task and main's own are behind the
channel, because the accept loop is gone and each had at most everything before
it; after `drain` no task is live, and none can be born. `AuthInv` adds that
whoever made main leave its loop, or sent a value, is recorded: a delivered
signal, or a request that `MayShutDown`, which stays on record because a task
answers once (`OrdersStay`). Two more rest on it. `KeepsAsked`: each value that
is in the channel, with main or with a task is one that somebody asked for, and
the set of those only grows. `OneOrderEach`: until main has looked, the channel
has as many values as there are accepted orders, as far as two.

`KeepaliveProofs` proves all that the run `keepalive` checks, for any interval,
any tolerance of at least two and any horizon. Its `IInv` counts: the deadline
is the interval times one more than the ticks taken, and at most an interval
away (`Counted`); it is at most an interval after what the client last heard
(`DeadlineNear`); and while no stall was as long as an interval, silence is
bounded by the next deadline, or, inside a write, by an interval and the stall
that blocks it (`Quiet`).

`SessionProofs` proves every invariant that the run `session` checks and
`StateMovesForward`, for any packet ids, any number of frames and registries and
any run of keepalives. The invariant `Machine` says that what a handler has
still to write fits the state it is in (`Fits`): every packet belongs to that
state, or up to one write, the `LoginSuccess` of 1.20.1, to Login and after it
to Play. Without it `WrittenInItsState` is not inductive: the head of `script`
says nothing of its tail. `HandlersProper` establishes it for each handler and
`NextWrite` keeps it from write to write. `Formats` adds that compression is on
exactly once a `SetCompression` is written, which needs that only that write
switches it on (`Announces`); `Endings` that no outcome is set while the task
lives and that no handler fails in limbo.

`StartupProofs` proves every invariant that the run `startup` checks, for any
number of processes, starts and edits and any contents. `Synced` says of every
process that has read since the last edit that it runs what its file says now:
creating and filling a file change nothing of that, because only a file that
says nothing is created (`FillsDefaults`, kept by the operator staying away from
a file that is being created) and an empty file says the same as a full template
(`OwnReadings`). `OneWins` needs a count: as many starts as processes running or
failed means that none was started twice and none died (`NextCounted`). Then
whoever cannot bind is beaten by another process, which runs something else, or
holds its own game port and has not failed (`Beaten`); that the one with the
port can only be stopped by a process with another configuration is where the
order of the two binds is used (`Blocked`).

`ProtocolProofs` proves that `Session` implements `ClientView`, for the same
instances: `Speaks`. A state of `Session` shows what was told; the invariant
`View` says that it and what is still to be told fit together (`Order`). What a
handler has yet to write opens with a packet that may follow the last one told
(`Opens`), each packet in it may follow the one before (`Chained`), and its end
leaves the client where the state says (`Closes`); a burst of registries is one
row that starts with none told (`Row`), which `Counted` carries from write to
write. That two keepalives in a row are told as one uses `Formats`.

`VarIntProofs` proves what the byte-level models need of the codec, for every
size of it: `DecodeInvertsEncode` (a value comes back from exactly the bytes
written, whatever follows them), `CutVarIntIsEof` (a VarInt cut short is an end
of file and no other number), `DecodePrefix` and `DecodeShape` (what was
decoded does not depend on what follows; what it can be at all). `encode` and
`decode` are recursive functions. That they have a value at all, and the
inductions over them, are shown by hand: two functions that satisfy the equations up to a
point agree up to it, so there is one that satisfies them everywhere
(`FixedPoint`), and of the arguments a claim fails for there is a least (`Least`).

`FramingProofs` proves every invariant that the run `framing` checks and the
safety part of `StreamsPackets` (`StreamsSafely`), for any bodies and junk, any
threshold and any sizes, whichever bodies are dispatched, refused or skipped. The invariant says where everything that was sent is
(`InFlight`): the buffer and the bytes on their way, one behind the other, are
the frames not yet received, followed by nothing, or by anything once the client
has sent something else. That is what makes a parse safe at any cut: a buffer
that ends inside a frame is incomplete (`ParseCut`), and one that holds a frame
gives its body and leaves what follows (`ParseInverts`).

`WireProofs` proves every invariant that the run `wire` checks, for every width
of a byte, of the integers and of a coordinate and for any values. A field comes
back from its own bytes whatever follows them (`FieldReads`: the digits of a
position, the bytes of an integer, VarInts by `VarIntProofs`, texts). That a
packet comes back from all of its fields takes an invariant over the whole
decoding: there is a trace of what was left to write before each leaf and of the
bytes from there on (`Trace`), and the decoder is always at a place of it, with
the leaves before it read as they were written (`InStep`). What is left of the
body is then those bytes, or more, or a prefix of them (`Left`), so a field is
read in full or is truncated (`Advance`). The exception is a `RawBytes`, which
takes whatever there is (`TookAll`); none stands directly behind another
(`Ordered`), or the second would read nothing where something was written. That
the tables keep to this is a fact about fixed tables, which TLC evaluates
(`TablesAssumption`); `Len(text) < Half` in `WireAssumption` is the `ensure!` of
`Encode for String`.

Only model-checked: all liveness (`ShutdownCompletes`, `BufferDrains`,
`HangupEnds`, `StartEnds`, and the fairness parts of `DrainsGracefully` and
`StreamsPackets`): the proof system has no rule here for it.

## What is not modelled

`BitSet`, which is a field of no packet; `player.rs`, two fields nothing
branches on; the contents of registries, tags and the void chunk (`common.rs`
from line 150 on build them once, from constants), of the status response's JSON
and of the API's texts; the icon and the log level, which only warn; failed
accepts, which are logged; a configuration file written in part; generating code
in the derive macros (what they generate is in `Wire` and `Packets`). zlib is
external: a marker and the data.

## Plan

1. Done: `Lifecycle`, `Session`, `Framing` over `PacketStream`, `Wire`,
   `Keepalive` and `Startup` with their instances; the proofs about all of them.
2. Composition of `Session` and `Lifecycle`: `PeerEnds` and the shutdown branch
   are the same steps seen from two sides.
