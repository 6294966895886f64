------------------------------- MODULE Framing -------------------------------
(* Packets cut into frames and back, byte by byte: Connection::write_packet on *)
(* one side, read_buf and Connection::try_parse_packet on the other            *)
(* (crates/statik_server/src/connection.rs).  The client frames its packets as *)
(* write_packet does, or writes bytes of its own making.  The threshold holds  *)
(* from the first frame: a client is silent while compression is negotiated.   *)
(* Whether a body decodes, and where the packet then leads, is module          *)
(* Session's business: here it is any of what the state allows.                *)
EXTENDS VarInt, SequencesExt

CONSTANTS
  Thresholds,     \* config.compression.threshold
  MaxPacketSize,  \* MAX_PACKET_SIZE
  Marker,         \* first byte of a zlib stream
  Bodies,         \* encoded packets that clients send, small enough to be framed
  Junk,           \* bytes that are no frame of a packet
  MaxSends        \* how many of either a client sends

ASSUME FramingAssumption ==
  /\ Thresholds \subseteq Int
  /\ MaxPacketSize \in Nat /\ MaxPacketSize < Half
  /\ Marker \in Byte
  /\ Bodies \subseteq Seq(Byte) \ {<< >>}
  /\ \A body \in Bodies :
       Len(encode(Len(body))) + 1 + Len(body) <= MaxPacketSize
  /\ Junk \subseteq Seq(Byte)
  /\ MaxSends \in Nat

VARIABLES
  compression,    \* Connection::compression_threshold is Some ...
  threshold,      \* ... of this (else 0)
  wire,           \* bytes on their way
  buffer,         \* Connection::buffer
  state,          \* Connection::state: Login (or what is before it), or limbo
  pc,             \* handle_connection is at: parse, wait (in select!), over
  skipped,        \* the last body to be decoded could not be, and was skipped
  sent,           \* bodies the client has framed ...
  honest,         \* ... while it had sent nothing else
  sends,          \* how often it has sent
  received        \* bodies try_parse_packet has handed to the decoder

States == {"Login", "Configuration", "Play"}

config == <<compression, threshold>>
client == <<sent, honest, sends>>
task == <<state, pc, skipped>>
vars == <<config, wire, buffer, task, client, received>>

------------------------------------------------------------------------------
(* flate2: a stream is its marker and the data.  read_exact wants `size` bytes *)
(* of it and leaves what may follow.                                           *)
zip(data) == <<Marker>> \o data
Unzips(stream, size) == stream # << >> /\ Head(stream) = Marker /\ Len(stream) > size
unzip(stream, size) == SubSeq(stream, 2, size + 1)

(* `size >= threshold as usize`: a negative threshold is met by nothing.       *)
Meets(size) == threshold >= 0 /\ size >= threshold

(* write_packet: with compression, a Data Length and the body, or a 0 and the  *)
(* body as it is when it is below the threshold; a Length before it all.       *)
Framed(body) ==
  IF ~compression THEN body
  ELSE IF Meets(Len(body)) THEN encode(Len(body)) \o zip(body)
  ELSE encode(0) \o body

write_packet(body) == encode(Len(Framed(body))) \o Framed(body)

(* What try_parse_packet finds, and the buffer it leaves.                      *)
Outcome(result, body, rest) == [result |-> result, body |-> body, rest |-> rest]
Incomplete(rest) == Outcome("none", << >>, rest)
Malformed(rest) == Outcome("error", << >>, rest)

(* Variant: a body of exactly the threshold counts as too short.               *)
OpenAbove(slice, rest) ==
  LET data == decode(slice)
      stream == SubSeq(slice, data.used + 1, Len(slice))
  IN IF ~compression THEN Outcome("body", slice, rest)
     ELSE IF data.result = "eof" THEN Incomplete(slice \o rest)
     ELSE IF data.result = "value" /\ data.value = 0 THEN Outcome("body", stream, rest)
     ELSE IF /\ data.result = "value"
             /\ Meets(data.value - 1)
             /\ data.value \in 0 .. MaxPacketSize
             /\ Unzips(stream, data.value)
     THEN Outcome("body", unzip(stream, data.value), rest)
     ELSE Malformed(slice \o rest)

(* The frame's bytes after its Length, which has been consumed.  When they end *)
(* inside the Data Length the answer is Ok(None) and they stay in the buffer.  *)
Open(slice, rest) ==
  LET data == decode(slice)
      stream == SubSeq(slice, data.used + 1, Len(slice))
  IN IF ~compression THEN Outcome("body", slice, rest)
     ELSE IF data.result = "eof" THEN Incomplete(slice \o rest)
     ELSE IF data.result = "value" /\ data.value = 0 THEN Outcome("body", stream, rest)
     ELSE IF /\ data.result = "value"
             /\ Meets(data.value)
             /\ data.value \in 0 .. MaxPacketSize
             /\ Unzips(stream, data.value)
     THEN Outcome("body", unzip(stream, data.value), rest)
     ELSE Malformed(slice \o rest)

(* Variants: the size limit is not enforced; a frame is taken as soon as its   *)
(* Length is there.                                                            *)
ParseUnlimited(bytes) ==
  LET length == decode(bytes)
      end == length.used + length.value
  IN IF length.result = "eof" THEN Incomplete(bytes)
     ELSE IF length.result = "error" \/ length.value < 0 THEN Malformed(bytes)
     ELSE IF Len(bytes) < end THEN Incomplete(bytes)
     ELSE Open(SubSeq(bytes, length.used + 1, end), SubSeq(bytes, end + 1, Len(bytes)))

ParseEager(bytes) ==
  LET length == decode(bytes)
      end == IF Len(bytes) < length.used + length.value THEN Len(bytes)
             ELSE length.used + length.value
  IN IF length.result = "eof" THEN Incomplete(bytes)
     ELSE IF length.result = "error" \/ length.value \notin 0 .. MaxPacketSize
     THEN Malformed(bytes)
     ELSE Open(SubSeq(bytes, length.used + 1, end), SubSeq(bytes, end + 1, Len(bytes)))

(* try_parse_packet, up to decoding the body: see Decodes for the rest.        *)
try_parse_packet(bytes) ==
  LET length == decode(bytes)
      end == length.used + length.value
  IN IF length.result = "eof" THEN Incomplete(bytes)
     ELSE IF length.result = "error" \/ length.value \notin 0 .. MaxPacketSize
     THEN Malformed(bytes)
     ELSE IF Len(bytes) < end THEN Incomplete(bytes)
     ELSE Open(SubSeq(bytes, length.used + 1, end), SubSeq(bytes, end + 1, Len(bytes)))
------------------------------------------------------------------------------
Init ==
  /\ compression \in BOOLEAN
  /\ threshold \in IF compression THEN Thresholds ELSE {0}
  /\ wire = << >>
  /\ buffer = << >>
  /\ state = "Login"
  /\ pc = "parse"
  /\ skipped = FALSE
  /\ sent = << >>
  /\ honest = TRUE
  /\ sends = 0
  /\ received = << >>

(* The client writes a frame.                                                  *)
SendFrame(body) ==
  /\ sends < MaxSends
  /\ wire' = wire \o write_packet(body)
  /\ sent' = IF honest THEN Append(sent, body) ELSE sent
  /\ sends' = sends + 1
  /\ UNCHANGED <<config, honest, buffer, task, received>>

(* The client writes something else.                                           *)
SendJunk(bytes) ==
  /\ sends < MaxSends
  /\ wire' = wire \o bytes
  /\ honest' = FALSE
  /\ sends' = sends + 1
  /\ UNCHANGED <<config, sent, buffer, task, received>>

(* The read branch of select! wins: read_buf returns some of the bytes that    *)
(* have arrived.                                                               *)
Read ==
  /\ pc = "wait"
  /\ \E n \in 1 .. Len(wire) :
       /\ buffer' = buffer \o SubSeq(wire, 1, n)
       /\ wire' = SubSeq(wire, n + 1, Len(wire))
  /\ pc' = "parse"
  /\ UNCHANGED <<config, client, state, skipped, received>>

(* The keepalive branch wins, and the loop turns.                              *)
Keepalive ==
  /\ pc = "wait"
  /\ state = "Play"
  /\ pc' = "parse"
  /\ UNCHANGED <<config, client, state, skipped, buffer, wire, received>>

(* No complete frame, or one that ends inside its Data Length: go and read.    *)
ParseNone ==
  /\ pc = "parse"
  /\ LET parsed == try_parse_packet(buffer) IN
     /\ parsed.result = "none"
     /\ buffer' = parsed.rest
  /\ pc' = "wait"
  /\ UNCHANGED <<config, client, state, skipped, wire, received>>

(* A frame is there: its body goes to the decoder.                             *)
Decodes ==
  /\ pc = "parse"
  /\ LET parsed == try_parse_packet(buffer) IN
     /\ parsed.result = "body"
     /\ buffer' = parsed.rest
     /\ received' = Append(received, parsed.body)
  /\ UNCHANGED <<config, client, wire>>

(* Where a packet may lead.                                                    *)
Ahead == [
  Login         |-> States,
  Configuration |-> {"Configuration", "Play"},
  Play          |-> {"Play"}]

(* Variant: one frame per read.                                                *)
ParseOne ==
  /\ Decodes
  /\ state' \in Ahead[state]
  /\ skipped' = FALSE
  /\ pc' = "wait"

(* Ok(Some(packet)): dispatch it and parse on.                                 *)
ParseBody ==
  /\ Decodes
  /\ state' \in Ahead[state]
  /\ skipped' = FALSE
  /\ UNCHANGED pc

(* In limbo a body that does not decode is skipped, with Ok(None): what is     *)
(* behind it waits for the next turn of the loop.                              *)
ParseSkip ==
  /\ Decodes
  /\ state \in {"Configuration", "Play"}
  /\ skipped' = TRUE
  /\ pc' = "wait"
  /\ UNCHANGED state

(* Before, it is an Err.                                                       *)
ParseRefused ==
  /\ Decodes
  /\ state = "Login"
  /\ pc' = "over"
  /\ UNCHANGED <<state, skipped>>

(* No frame: Err in any state, and handle_connection returns.                  *)
ParseError ==
  /\ pc = "parse"
  /\ LET parsed == try_parse_packet(buffer) IN
     /\ parsed.result = "error"
     /\ buffer' = parsed.rest
  /\ pc' = "over"
  /\ UNCHANGED <<config, client, state, skipped, wire, received>>

Parse == ParseNone \/ ParseBody \/ ParseSkip \/ ParseRefused \/ ParseError

Next ==
  \/ Read \/ Keepalive
  \/ Parse
  \/ \E body \in Bodies : SendFrame(body)
  \/ \E bytes \in Junk : SendJunk(bytes)

(* Bytes that were written arrive, though keepalives may win select! again and *)
(* again; the timer ticks, and the task runs when it can.                      *)
Fairness == SF_vars(Read) /\ WF_vars(Keepalive) /\ WF_vars(Parse)

Safety == Init /\ [][Next]_vars

Spec == Safety /\ Fairness
------------------------------------------------------------------------------
(* Properties                                                                  *)

TypeOK ==
  /\ compression \in BOOLEAN
  /\ threshold \in Thresholds \union {0}
  /\ wire \in Seq(Byte)
  /\ buffer \in Seq(Byte)
  /\ state \in States
  /\ pc \in {"parse", "wait", "over"}
  /\ skipped \in BOOLEAN
  /\ sent \in Seq(Bodies)
  /\ honest \in BOOLEAN
  /\ sends \in 0 .. MaxSends
  /\ received \in Seq(Seq(Byte))

(* Whatever pieces TCP delivers the bytes in, a client's packets are decoded   *)
(* from exactly the bodies it encoded, in order; what it sends behind them     *)
(* that is no frame changes none of them.                                      *)
BodiesInOrder == IsPrefix(received, sent) \/ (~honest /\ IsPrefix(sent, received))

(* Without compression the task sleeps on less than the largest frame, however *)
(* the client behaves, unless the last body was skipped: the declared length   *)
(* is checked before its bytes are waited for, and a drain ends only when      *)
(* nothing complete is left.  Behind a skipped body any number of frames may   *)
(* pile up, since every read adds to them and starts another drain.            *)
BufferBounded ==
  ~compression /\ pc = "wait" /\ ~skipped => Len(buffer) < MaxBytes + MaxPacketSize

(* Sockets, buffer and codec together are a reliable channel of packets, also  *)
(* of those that arrive in the same read as another or with garbage behind     *)
(* them: none is decoded out of turn or passed over, nobody is disconnected    *)
(* for a malformed frame before the frames in front of it are dealt with, and  *)
(* in limbo for nothing else.  In Configuration a packet may be held back for  *)
(* want of another read; before it, and in Play, each is decoded in the end.   *)
PS == INSTANCE PacketStream WITH garbled <- ~honest, over <- pc = "over"

StreamsPackets == PS!Spec
------------------------------------------------------------------------------
(* What the repository says of the program, and the program does not do        *)

(* connection.rs:301-302: "The frame is fully delimited by `length`, so        *)
(* consume it from the buffer regardless of whether decoding succeeded":       *)
(* a step that does not end the connection takes a whole frame or nothing.     *)
Delimited ==
  LET length == decode(buffer) IN
    Len(buffer) - Len(buffer') \in {0, length.used + length.value}

WholeFrames == [][pc = "parse" /\ pc' # "over" => Delimited]_vars
==============================================================================
