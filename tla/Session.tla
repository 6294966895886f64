------------------------------- MODULE Session -------------------------------
(* One Minecraft connection: Connection::handle_connection and the handlers it *)
(* dispatches to (crates/statik_server/src/connection.rs), raced against the   *)
(* shutdown signal by Handler::run (handler.rs).                               *)
(*                                                                             *)
(* A frame a client sends is its packet id: what the rest of the body decodes  *)
(* to is chosen when it is decoded, once, in whatever state the connection is  *)
(* in by then.  Frames arrive whole, and are those the server cuts the stream  *)
(* into, whatever the client meant (the byte level is module Framing).         *)
EXTENDS Packets, SequencesExt, FiniteSets

CONSTANTS
  FrameIds,       \* packet ids of the frames clients send, or NoId, or Broken
  MaxFrames,      \* how many frames a client sends at most
  MaxQueued,      \* how many of them may be sent and not parsed at once
  MaxDue,         \* keepalive deadlines that may be overdue at once
  Registries      \* how many registries are streamed (11 in registries.rs)

(* What try_parse_packet cannot take for a frame: its Length or, once frames   *)
(* carry one, its Data Length is malformed or out of bounds, or its data is    *)
(* not what zlib made.                                                         *)
Broken == -2

ASSUME SessionAssumption ==
  /\ FrameIds \subseteq Nat \union {NoId, Broken}
  /\ MaxFrames \in Nat
  /\ MaxQueued \in Nat
  /\ MaxDue \in Nat \ {0}
  /\ Registries \in Nat \ {0}

VARIABLES
  protocol,       \* Connection::protocol
  compression,    \* config.compression.enabled
  state,          \* Connection::state
  compressed,     \* Connection::compression_threshold is Some
  pc,             \* where the task is: parse, write (an await), wait (an await), over
  script,         \* the writes the current handler has still to make
  torn,           \* part of the current frame is on the wire, the rest is not
  buffer,         \* Connection::buffer, as frames
  due,            \* deadlines of the keepalive interval that it has not ticked for
  outcome,        \* how the task ended
  inbound,        \* frames on their way from the client
  frames,         \* frames the client has sent
  peer,           \* the client's end of the stream
  sent            \* frames written to the client

config  == <<protocol, compression>>
client  == <<inbound, frames, peer>>
output  == <<script, torn, sent>>
vars    == <<config, state, compressed, pc, output, buffer, due, outcome, client>>

(* A write, and the assignment that follows its await.                         *)
Write(packet) == [packet |-> packet, next |-> "none"]
WriteThen(packet, next) == [packet |-> packet, next |-> next]
Writes(packets) == [i \in 1 .. Len(packets) |-> Write(packets[i])]

(* What a handler does: fail, or enter a state and make a list of writes.      *)
Fail == [fails |-> TRUE, enters |-> state, writes |-> << >>]
Do(enters, writes) == [fails |-> FALSE, enters |-> enters, writes |-> writes]
------------------------------------------------------------------------------
(* The handlers                                                                *)

(* intent_to_state rejects Transfer; a version other than the server's fails.  *)
handle_handshake(packet) ==
  IF packet.name # "Handshake" THEN Fail
  ELSE CASE packet.field = "status"                       -> Do("Status", << >>)
         [] packet.field = "login"                        -> Do("Login", << >>)
         [] packet.field \in {"transfer", "other version"} -> Fail

handle_status(packet) ==
  CASE packet.name = "StatusRequest" -> Do("Status", <<Write("StatusResponse")>>)
    [] packet.name = "Ping"          -> Do("Status", <<Write("Pong")>>)
    [] OTHER                         -> Fail

(* Variant: LoginSuccess goes out before SetCompression.                       *)
AcceptCompressLast(next) ==
  <<WriteThen("LoginSuccess", next)>>
    \o (IF compression THEN <<WriteThen("SetCompression", "compress")>> ELSE << >>)

(* Variant: a login is followed by Play, in either version.                    *)
AcceptIntoPlay(next) ==
  (IF compression THEN <<WriteThen("SetCompression", "compress")>> ELSE << >>)
    \o <<WriteThen("LoginSuccess", "Play")>>

(* Optional compression, then LoginSuccess.                                    *)
AcceptLogin(next) ==
  (IF compression THEN <<WriteThen("SetCompression", "compress")>> ELSE << >>)
    \o <<WriteThen("LoginSuccess", next)>>

PlayBurst_1_20_1 == Writes(
  <<"Login", "SetChunkCacheCenter", "SetChunkCacheRadius", "LevelChunkWithLight",
    "SetDefaultSpawnPosition", "PlayerPosition", "PlayerAbilities", "GameEvent">>)

(* send_play_burst_v1_21_1                                                     *)
PlayBurst_1_21_1 == Writes(
  <<"Login", "SetChunkCacheCenter", "SetChunkCacheRadius", "ChunkBatchStart",
    "LevelChunkWithLight", "ChunkBatchFinished", "SetDefaultSpawnPosition",
    "PlayerPosition", "PlayerAbilities", "GameEvent">>)

(* send_configuration_burst                                                    *)
ConfigurationBurst == Writes(
  <<"CustomPayload", "FeatureFlags">> \o [i \in 1 .. Registries |-> "RegistryData"]
    \o <<"UpdateTags", "KnownPacks", "FinishConfiguration">>)

(* A rejected name is told so; the connection stays open, in Login.  1.20.1    *)
(* goes straight to Play; 1.21.1 waits in Login for an acknowledgement, which  *)
(* it takes whether or not a login has succeeded.                              *)
handle_login(packet) ==
  CASE packet.name \in {"LoginStart", "Hello"} /\ packet.field = "invalid name" ->
         Do("Login", <<Write("Disconnect")>>)
    [] packet.name = "LoginStart" /\ packet.field = "valid name" ->
         Do("Login", AcceptLogin("Play") \o PlayBurst_1_20_1)
    [] packet.name = "Hello" /\ packet.field = "valid name" ->
         Do("Login", AcceptLogin("none"))
    [] packet.name = "LoginAcknowledged" -> Do("Configuration", ConfigurationBurst)
    [] OTHER -> Fail

handle_configuration(packet) ==
  IF protocol = "1.20.1" THEN Fail
  ELSE IF packet.name = "FinishConfigurationAck" THEN Do("Play", PlayBurst_1_21_1)
  ELSE Do("Configuration", << >>)

(* Everything a client sends in Play is ignored.                               *)
handle_play(packet) == Do("Play", << >>)

dispatch_packet(packet) ==
  CASE state = "Handshake"     -> handle_handshake(packet)
    [] state = "Status"        -> handle_status(packet)
    [] state = "Login"         -> handle_login(packet)
    [] state = "Configuration" -> handle_configuration(packet)
    [] state = "Play"          -> handle_play(packet)
------------------------------------------------------------------------------
Init ==
  /\ protocol \in Versions
  /\ compression \in BOOLEAN
  /\ state = "Handshake"
  /\ compressed = FALSE
  /\ pc = "parse"
  /\ script = << >>
  /\ torn = FALSE
  /\ buffer = << >>
  /\ due = 0
  /\ outcome = "none"
  /\ inbound = << >>
  /\ frames = 0
  /\ peer = "open"
  /\ sent = << >>

(* The task is over: its Connection, and with it the socket, is dropped.       *)
End(how) ==
  /\ pc' = "over"
  /\ outcome' = how
  /\ UNCHANGED <<state, compressed, due, client, script, torn, sent, config>>

(* Handler::run calls an UnexpectedEof, whoever raised it, a clean close.      *)
EndWith(error) == End(IF error = "truncated" THEN "clean" ELSE "error")

(* try_parse_packet finds no complete frame: Ok(None), go and read.            *)
ParseNothing ==
  /\ pc = "parse"
  /\ buffer = << >>
  /\ pc' = "wait"
  /\ UNCHANGED <<config, state, compressed, output, buffer, due, outcome, client>>

(* Once frames carry a Data Length, one that ends inside it is answered with   *)
(* Ok(None) too, in any state: its Length is consumed, and what it holds is    *)
(* the beginning of whatever comes next.                                       *)
ParseStub ==
  /\ pc = "parse"
  /\ buffer # << >> /\ Head(buffer) = NoId
  /\ compressed
  /\ buffer' = Tail(buffer)
  /\ pc' = "wait"
  /\ UNCHANGED <<config, state, compressed, output, due, outcome, client>>

(* No state forgives what is no frame.                                         *)
ParseBroken ==
  /\ pc = "parse"
  /\ buffer # << >> /\ Head(buffer) = Broken
  /\ EndWith("malformed")
  /\ UNCHANGED buffer

(* The first frame is taken out of the buffer and decoded.                     *)
TakesFrame ==
  /\ pc = "parse"
  /\ buffer # << >>
  /\ Head(buffer) # Broken
  /\ ~(compressed /\ Head(buffer) = NoId)
  /\ buffer' = Tail(buffer)

(* Variant: every undecodable frame is skipped, whatever the state.            *)
SkipAlways == TRUE

(* Variant: only Play is forgiving.                                            *)
SkipInPlay == state = "Play"

(* In these states an undecodable frame is skipped, with Ok(None): the caller  *)
(* stops draining and goes on to read.                                         *)
Skips == state \in {"Play", "Configuration"}

(* try_parse_packet takes the first frame and fails to decode it.              *)
ParseFailure ==
  /\ TakesFrame
  /\ \E got \in decode(protocol, state, Head(buffer)) :
       /\ got.name = "none"
       /\ IF Skips
          THEN /\ pc' = "wait"
               /\ UNCHANGED <<config, state, compressed, output, due, outcome, client>>
          ELSE EndWith(got.field)

(* It decodes the frame, and dispatch_packet runs up to its first await.       *)
ParsePacket ==
  /\ TakesFrame
  /\ \E got \in decode(protocol, state, Head(buffer)) :
       /\ got.name # "none"
       /\ LET handling == dispatch_packet(got) IN
          IF handling.fails THEN End("error")
          ELSE /\ state' = handling.enters
               /\ script' = handling.writes
               /\ pc' = IF handling.writes = << >> THEN "parse" ELSE "write"
               /\ UNCHANGED <<config, compressed, torn, sent, due, outcome, client>>

(* write_packet is stuck in an await with part of the frame written.           *)
WriteSome ==
  /\ pc = "write"
  /\ ~torn
  /\ torn' = TRUE
  /\ UNCHANGED <<config, state, compressed, pc, script, sent, buffer, due, outcome, client>>

(* Keepalives already written are recorded once: sent stays finite.            *)
Record(frame) ==
  sent' = IF sent # << >> /\ Last(sent) = frame /\ frame.packet = "KeepAlive"
          THEN sent ELSE Append(sent, frame)

(* Variant: compression is switched on before SetCompression is written.       *)
FormatNext(write) == compressed \/ write.next = "compress"

(* The format a frame is written in: with a Data Length field or without.      *)
Format(write) == compressed

(* write_packet returns, and the handler runs up to its next await.            *)
WriteDone ==
  /\ pc = "write"
  /\ peer # "reset"
  /\ LET write == Head(script) IN
     /\ Record([packet |-> write.packet, compressed |-> Format(write)])
     /\ compressed' = (compressed \/ write.next = "compress")
     /\ state' = IF write.next = "Play" THEN "Play" ELSE state
  /\ torn' = FALSE
  /\ script' = Tail(script)
  /\ pc' = IF Len(script) = 1 THEN "parse" ELSE "write"
  /\ UNCHANGED <<config, buffer, due, outcome, client>>

(* The read branch of select! wins with data.                                  *)
Read ==
  /\ pc = "wait"
  /\ peer # "reset"
  /\ \E n \in 1 .. Len(inbound) :
       /\ buffer' = buffer \o SubSeq(inbound, 1, n)
       /\ inbound' = SubSeq(inbound, n + 1, Len(inbound))
  /\ pc' = "parse"
  /\ UNCHANGED <<config, state, compressed, output, due, outcome, frames, peer>>

(* Variant: the end of the stream counts only once every frame is dealt with.  *)
EofIfDrained ==
  /\ pc = "wait"
  /\ buffer = << >> /\ inbound = << >>
  /\ peer = "closed"
  /\ EndWith("truncated")
  /\ UNCHANGED buffer

(* It wins with 0 bytes.                                                       *)
ReadEof ==
  /\ pc = "wait"
  /\ inbound = << >>
  /\ peer = "closed"
  /\ EndWith("truncated")
  /\ UNCHANGED buffer

(* A read or a write fails: the client reset the connection.                   *)
StreamFails ==
  /\ pc \in {"wait", "write"}
  /\ peer = "reset"
  /\ EndWith("io")
  /\ UNCHANGED buffer

(* Variant: the branch is not limited to Play.                                 *)
TickAlways == pc = "wait" /\ due > 0

(* Variant: the branch does not wait for a deadline.                           *)
TickAnyTime == pc = "wait" /\ state = "Play"

TickReady == pc = "wait" /\ state = "Play" /\ due > 0

(* The keepalive branch wins.                                                  *)
Keepalive ==
  /\ TickReady
  /\ due' = due - 1
  /\ script' = <<Write("KeepAlive")>>
  /\ pc' = "write"
  /\ UNCHANGED <<config, state, compressed, torn, sent, buffer, outcome, client>>

(* The shutdown branch of Handler::run wins while handle_connection awaits:    *)
(* its future is dropped where it stands.                                      *)
Shutdown ==
  /\ pc \in {"wait", "write"}
  /\ End("shutdown")
  /\ UNCHANGED buffer

(* Another KEEPALIVE_INTERVAL has passed since the connection was accepted.    *)
IntervalPasses ==
  /\ pc # "over"
  /\ due < MaxDue
  /\ due' = due + 1
  /\ UNCHANGED <<config, state, compressed, pc, output, buffer, outcome, client>>
------------------------------------------------------------------------------
(* The client, which need not keep to the protocol                             *)

SendFrame(id) ==
  /\ pc # "over"
  /\ peer = "open"
  /\ frames < MaxFrames
  /\ Len(inbound) + Len(buffer) < MaxQueued
  /\ frames' = frames + 1
  /\ inbound' = Append(inbound, id)
  /\ UNCHANGED <<config, state, compressed, pc, output, buffer, due, outcome, peer>>

Hangup ==
  /\ pc # "over"
  /\ \/ peer = "open" /\ peer' \in {"closed", "reset"}
     \/ peer = "closed" /\ peer' = "reset"
  /\ UNCHANGED <<config, state, compressed, pc, output, buffer, due, outcome, inbound, frames>>
------------------------------------------------------------------------------
Parse == ParseNothing \/ ParseStub \/ ParseBroken \/ ParseFailure \/ ParsePacket

Server == Parse \/ Read \/ ReadEof \/ Keepalive

Next ==
  \/ Server
  \/ WriteSome \/ WriteDone \/ StreamFails
  \/ Shutdown
  \/ IntervalPasses
  \/ \E id \in FrameIds : SendFrame(id)
  \/ Hangup

Safety == Init /\ [][Next]_vars

(* The task is polled when it can run, and time passes.  select! picks a ready *)
(* branch at random, so data (or the end of it) is not passed over for ever in *)
(* favour of keepalives: strong fairness.  The client owes nothing but         *)
(* PeerReads: it reads what it is sent, or resets; a client that does neither  *)
(* holds the task in a write.                                                  *)
PeerReads == WF_vars(WriteDone \/ StreamFails)

Fairness ==
  /\ WF_vars(Parse)
  /\ SF_vars(Read \/ ReadEof)
  /\ WF_vars(Keepalive)
  /\ WF_vars(IntervalPasses)

Spec == Safety /\ Fairness /\ PeerReads
------------------------------------------------------------------------------
(* Properties                                                                  *)

ServerPacketNames ==
  UNION {DOMAIN ServerPackets(version)[there] : version \in Versions, there \in States}

TypeOK ==
  /\ protocol \in Versions
  /\ compression \in BOOLEAN
  /\ state \in States
  /\ compressed \in BOOLEAN
  /\ pc \in {"parse", "write", "wait", "over"}
  /\ script \in Seq([packet : ServerPacketNames, next : {"none", "compress", "Play"}])
  /\ torn \in BOOLEAN
  /\ buffer \in Seq(FrameIds) /\ inbound \in Seq(FrameIds)
  /\ due \in 0 .. MaxDue
  /\ outcome \in {"none", "clean", "error", "shutdown"}
  /\ frames \in 0 .. MaxFrames
  /\ peer \in {"open", "closed", "reset"}
  /\ sent \in Seq([packet : ServerPacketNames, compressed : BOOLEAN])

Sent(packet) == \E i \in DOMAIN sent : sent[i].packet = packet

(* Both ends agree on the format of every frame: one carries a Data Length     *)
(* field exactly when a SetCompression was written before it, however often    *)
(* the client logs in and wherever bursts and keepalives fall.                 *)
FormatsAgree ==
  \A i \in DOMAIN sent :
    sent[i].compressed <=> \E j \in 1 .. i - 1 : sent[j].packet = "SetCompression"

(* A packet is written only in the connection state it belongs to: the client  *)
(* decodes its id in that state's table.                                       *)
WrittenInItsState ==
  pc = "write" => Head(script).packet \in DOMAIN ServerPackets(protocol)[state]

(* The task never goes to sleep on a complete frame, except where a drain may  *)
(* stop early: in Configuration and Play behind a frame it skipped, and in any *)
(* state behind one that ends inside its Data Length.                          *)
SleepsOnFramesOnlyAfterSkip ==
  pc = "wait" /\ buffer # << >> => state \in {"Configuration", "Play"} \/ compressed

(* Once in limbo, where it sends many packets the server does not know, a      *)
(* connection is ended only by its client (which goes, or sends what is no     *)
(* frame) or by the shutdown: a body too short for its packet, which           *)
(* Handler::run cannot tell from a hang-up, or a malformed one never does it.  *)
LimboEndsWithClient ==
  state \in {"Configuration", "Play"} =>
    /\ outcome = "clean" => peer = "closed"
    /\ outcome = "error" => peer = "reset" \/ (buffer # << >> /\ Head(buffer) = Broken)

(* The connection state only moves along these edges: nothing leaves Status or *)
(* Play, and a 1.20.1 connection never sees Configuration.                     *)
Edges ==
  {<<"Handshake", "Status">>, <<"Handshake", "Login">>}
    \union IF protocol = "1.20.1" THEN {<<"Login", "Play">>}
           ELSE {<<"Login", "Configuration">>, <<"Configuration", "Play">>}

StateMovesForward == [][state' # state => <<state, state'>> \in Edges]_vars

(* What the client is told, whatever it sends and whenever the keepalive timer *)
(* or the shutdown strikes, is a prefix of a sequence the protocol allows.     *)
CV == INSTANCE ClientView
        WITH version <- protocol, compress <- compression,
             seen <- [i \in DOMAIN sent |-> sent[i].packet],
             streamed <- Cardinality({i \in DOMAIN sent : sent[i].packet = "RegistryData"})

SpeaksTheProtocol == CV!Spec

(* Complete frames are dealt with, wherever the drain does not stop early or   *)
(* (in Play) a keepalive restarts it.                                          *)
MayStall == state = "Configuration" \/ (state = "Login" /\ compressed)

BufferDrains ==
  buffer # << >> /\ ~MayStall ~> buffer = << >> \/ pc = "over" \/ MayStall

(* A connection whose client hangs up ends, in whatever state it is.           *)
HangupEnds == peer # "open" ~> pc = "over"
------------------------------------------------------------------------------
(* What the repository says of the program, and the program does not do        *)

(* connection.rs:123-124: the loop is "first draining every complete frame     *)
(* already buffered and then reading more bytes when a partial frame is        *)
(* encountered".                                                               *)
DrainsEveryFrame == buffer # << >> ~> buffer = << >> \/ pc = "over"

(* connection.rs:713-714: "Configuration state is only entered on the 1.21.1   *)
(* flow after LoginSuccess + Login Acknowledged".                              *)
ConfigurationAfterLogin == state = "Configuration" => Sent("LoginSuccess")

(* handler.rs:26-28: on shutdown "any in-flight work being processed for the   *)
(* peer is continued until it reaches a safe state".                           *)
ShutdownIsSafe == outcome = "shutdown" => ~torn
==============================================================================
