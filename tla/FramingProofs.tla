---------------------------- MODULE FramingProofs ----------------------------
(* Theorems about Framing for every threshold, packet limit, set of bodies and *)
(* kind of garbage, and all sizes of the VarInt.  The invariant follows the    *)
(* bytes: what is in the buffer and on the wire is, frame by frame, what has   *)
(* been sent and not yet received.                                             *)
EXTENDS Framing, VarIntProofs

(* What is assumed of the parameters, in the form the proofs cite.             *)
LEMMA Parameters ==
  /\ MaxPacketSize \in Nat /\ MaxPacketSize < Half
  /\ 0 .. MaxPacketSize \subseteq Signed
  /\ Marker \in Byte
BY FramingAssumption, Sizes DEF Signed

(* A body a client sends is not empty and fits into a packet.                  *)
LEMMA BodySize ==
  ASSUME NEW body \in Bodies
  PROVE  /\ body \in Seq(Byte) /\ Len(body) \in 1 .. MaxPacketSize /\ Len(body) \in Signed
         /\ encode(Len(body)) \in Seq(Byte)
         /\ Len(encode(Len(body))) + 1 + Len(body) <= MaxPacketSize
<1>1. body \in Seq(Byte) /\ Len(body) \in Nat /\ Len(body) > 0
  BY FramingAssumption, EmptySeq
<1>2. AsUnsigned(Len(body)) \in Unsigned
  BY <1>1, Casts
<1>3. encode(Len(body)) \in Seq(Byte) /\ Len(encode(Len(body))) \in 1 .. MaxBytes
  BY <1>2, EncodeType, EncodeLength DEF encode
<1>4. Len(encode(Len(body))) + 1 + Len(body) <= MaxPacketSize
  BY FramingAssumption
<1>5. Len(body) <= MaxPacketSize
  BY <1>1, <1>3, <1>4, Sizes, Parameters
<1> QED
  BY <1>1, <1>3, <1>4, <1>5, Parameters

(* The Data Length of an uncompressed body is one byte.                        *)
LEMMA EncodeZero ==
  0 \in Signed /\ encode(0) \in Seq(Byte) /\ Len(encode(0)) = 1
<1>1. 0 \in Signed /\ 0 \in Unsigned
  BY Sizes DEF Signed, Unsigned
<1>2. encode(0) = <<0>>
  <2>1. AsUnsigned(0) = 0
    BY <1>1, Casts
  <2>2. EncodeRest[0] = <<0>>
    <3>1. 0 < Base
      BY Sizes
    <3> QED
      BY <1>1, <3>1, EncodeRestIs
  <2> QED
    BY <1>1, <2>1, <2>2, EncodeRestIs DEF encode
<1> QED
  BY <1>1, <1>2, EncodeIs

(* What write_packet writes behind the Length fits into a packet, the Data     *)
(* Length and the marker included.                                             *)
LEMMA FramedSize ==
  ASSUME NEW body \in Bodies
  PROVE  /\ Framed(body) \in Seq(Byte) /\ Len(Framed(body)) \in 0 .. MaxPacketSize
         /\ Len(Framed(body)) \in Signed
<1>1. CASE ~ compression
  BY <1>1, BodySize, Parameters DEF Framed
<1>2. CASE compression /\ Meets(Len(body))
  <2>1. Framed(body) = encode(Len(body)) \o (<<Marker>> \o body)
    BY <1>2 DEF Framed, zip
  <2>2. <<Marker>> \o body \in Seq(Byte) /\ Len(<<Marker>> \o body) = 1 + Len(body)
    BY BodySize, Parameters, Prepend
  <2>3. encode(Len(body)) \in Seq(Byte) /\ Len(encode(Len(body))) \in Nat /\ Len(body) \in Nat
    BY BodySize
  <2>4. /\ Framed(body) \in Seq(Byte)
        /\ Len(Framed(body)) = Len(encode(Len(body))) + Len(<<Marker>> \o body)
    BY <2>1, <2>2, <2>3, ConcatProperties
  <2>5. Len(Framed(body)) = Len(encode(Len(body))) + 1 + Len(body)
    BY <2>2, <2>3, <2>4
  <2>6. Len(encode(Len(body))) + 1 + Len(body) <= MaxPacketSize
    BY BodySize
  <2>7. Len(Framed(body)) \in 0 .. MaxPacketSize
    BY <2>3, <2>5, <2>6, Parameters
  <2> QED
    BY <2>4, <2>7, Parameters
<1>3. CASE compression /\ ~ Meets(Len(body))
  <2>1. Framed(body) = encode(0) \o body
    BY <1>3 DEF Framed
  <2>2. Framed(body) \in Seq(Byte) /\ Len(Framed(body)) = 1 + Len(body)
    BY <2>1, BodySize, EncodeZero, ConcatProperties
  <2>3. Len(encode(Len(body))) \in Nat
    BY BodySize
  <2>4. Len(Framed(body)) <= MaxPacketSize
    BY <2>2, <2>3, BodySize, Parameters
  <2> QED
    BY <2>2, <2>4, BodySize, Parameters
<1> QED
  BY <1>1, <1>2, <1>3

(* A frame is bytes.                                                           *)
LEMMA FrameSize ==
  ASSUME NEW body \in Bodies
  PROVE  /\ encode(Len(Framed(body))) \in Seq(Byte)
         /\ Len(encode(Len(Framed(body)))) \in 1 .. MaxBytes
         /\ write_packet(body) \in Seq(Byte)
BY FramedSize, EncodeIs DEF write_packet

(* A body comes out of its frame as it went in, compressed or not, on either   *)
(* side of the threshold.                                                      *)
LEMMA OpenInverts ==
  ASSUME NEW body \in Bodies, NEW rest
  PROVE  Open(Framed(body), rest) = Outcome("body", body, rest)
<1> DEFINE slice == Framed(body)
           data == decode(slice)
           stream == SubSeq(slice, data.used + 1, Len(slice))
<1>0. body \in Seq(Byte) /\ Len(body) \in 1 .. MaxPacketSize /\ Len(body) \in Nat
  BY BodySize, Parameters
<1>1. CASE ~ compression
  BY <1>1 DEF Open, Framed
<1>2. CASE compression /\ Meets(Len(body))
  <2>1. slice = encode(Len(body)) \o zip(body)
    BY <1>2 DEF Framed
  <2>2. zip(body) \in Seq(Byte) /\ zip(body) # << >> /\ Len(zip(body)) = 1 + Len(body)
    BY <1>0, Parameters, Prepend DEF zip
  <2>3. data = Decoded("value", Len(body), Len(encode(Len(body))))
    BY <2>1, <2>2, BodySize, DecodeInvertsEncode
  <2>4. stream = zip(body)
    <3>1. data.used = Len(encode(Len(body)))
      BY <2>3 DEF Decoded
    <3>2. encode(Len(body)) \in Seq(Byte)
      BY BodySize
    <3> HIDE DEF data, slice
    <3> QED
      BY <2>1, <2>2, <3>1, <3>2, ConcatEnds
  <2>5. Head(zip(body)) = Marker
    BY <1>0, Parameters, Prepend DEF zip
  <2>6. Unzips(stream, Len(body))
    <3>1. Len(zip(body)) > Len(body)
      BY <1>0, <2>2
    <3> HIDE DEF stream
    <3> QED
      BY <2>2, <2>4, <2>5, <3>1 DEF Unzips
  <2>7. unzip(stream, Len(body)) = body
    <3>1. <<Marker>> \in Seq(Byte) /\ Len(<<Marker>>) = 1
      BY Parameters, One
    <3>2. SubSeq(<<Marker>> \o body, 1 + 1, Len(<<Marker>> \o body)) = body
      BY <1>0, <3>1, ConcatEnds
    <3>3. Len(<<Marker>> \o body) = Len(body) + 1
      BY <1>0, <2>2 DEF zip
    <3>4. SubSeq(zip(body), 2, Len(body) + 1) = body
      BY <3>2, <3>3 DEF zip
    <3> HIDE DEF stream
    <3> QED
      BY <2>4, <3>4 DEF unzip
  <2>8. /\ data.result = "value" /\ data.value = Len(body)
        /\ Len(body) # 0 /\ Len(body) \in 0 .. MaxPacketSize
    BY <1>0, <2>3, Parameters DEF Decoded
  <2> HIDE DEF data, slice, stream
  <2>9. Open(slice, rest) = Outcome("body", unzip(stream, data.value), rest)
    BY <1>2, <2>6, <2>8 DEF Open, data, slice, stream
  <2> QED
    BY <2>7, <2>8, <2>9 DEF slice
<1>3. CASE compression /\ ~ Meets(Len(body))
  <2>1. slice = encode(0) \o body
    BY <1>3 DEF Framed
  <2>2. data = Decoded("value", 0, Len(encode(0)))
    BY <1>0, <2>1, EncodeZero, DecodeInvertsEncode
  <2>3. stream = body
    BY <1>0, <2>1, <2>2, EncodeZero, ConcatEnds DEF Decoded
  <2>4. data.result = "value" /\ data.value = 0
    BY <2>2 DEF Decoded
  <2> HIDE DEF data, slice, stream
  <2>5. Open(slice, rest) = Outcome("body", stream, rest)
    BY <1>3, <2>4 DEF Open, data, slice, stream
  <2> QED
    BY <2>3, <2>5 DEF slice
<1> QED
  BY <1>1, <1>2, <1>3

(* A frame at the head of the buffer is parsed to its body, and what is behind *)
(* it stays in the buffer.                                                     *)
LEMMA ParseInverts ==
  ASSUME NEW body \in Bodies, NEW rest \in Seq(Byte)
  PROVE  try_parse_packet(write_packet(body) \o rest) = Outcome("body", body, rest)
<1> DEFINE content == Framed(body)
           size == Len(content)
           prefix == encode(size)
           bytes == write_packet(body) \o rest
           length == decode(bytes)
           end == length.used + length.value
<1>1. /\ content \in Seq(Byte) /\ size \in 0 .. MaxPacketSize /\ size \in Signed /\ size \in Nat
      /\ prefix \in Seq(Byte) /\ Len(prefix) \in Nat
  BY FramedSize, FrameSize, Parameters, Sizes
<1>2. bytes = prefix \o (content \o rest) /\ content \o rest \in Seq(Byte)
  BY <1>1, ConcatAssociative DEF write_packet
<1>3. length = Decoded("value", size, Len(prefix))
  <2> HIDE DEF content, size
  <2> QED
    BY <1>1, <1>2, DecodeInvertsEncode
<1>4. length.result = "value" /\ length.value = size /\ length.used = Len(prefix)
  BY <1>3 DEF Decoded
<1>5. /\ SubSeq(bytes, Len(prefix) + 1, Len(prefix) + size) = content
      /\ SubSeq(bytes, Len(prefix) + size + 1, Len(bytes)) = rest
      /\ Len(prefix) + size <= Len(bytes)
  <2>1. /\ prefix \o content \in Seq(Byte) /\ Len(prefix \o content) = Len(prefix) + size
        /\ bytes = (prefix \o content) \o rest
    BY <1>1 DEF write_packet
  <2>2. SubSeq(bytes, Len(prefix) + size + 1, Len(bytes)) = rest
    BY <2>1, ConcatEnds
  <2>3. Len(bytes) = Len(prefix) + size + Len(rest) /\ Len(rest) \in Nat
    BY <1>1, <2>1
  <2>4. SubSeq(prefix \o content, Len(prefix) + 1, Len(prefix) + size) = content
    BY <1>1, <2>1, ConcatEnds
  <2>5. SubSeq(bytes, Len(prefix) + 1, Len(prefix) + size) = content
    <3> DEFINE c == SubSeq(bytes, Len(prefix) + 1, Len(prefix) + size)
    <3> HIDE DEF content, prefix, bytes, size
    <3>1. bytes \in Seq(Byte)
      BY <2>1
    <3>2. /\ c \in Seq(Byte) /\ Len(c) = size
          /\ \A i \in 1 .. size : c[i] = bytes[Len(prefix) + i]
      BY <1>1, <2>3, <3>1
    <3>3. \A i \in 1 .. size : bytes[Len(prefix) + i] = (prefix \o content)[Len(prefix) + i]
      BY <1>1, <2>1
    <3>4. \A i \in 1 .. size : (prefix \o content)[Len(prefix) + i] = content[i]
      BY <1>1, <2>1 DEF size
    <3> HIDE DEF c
    <3>5. c = content
      BY <1>1, <3>2, <3>3, <3>4, SeqEqual DEF size
    <3> QED
      BY <3>5 DEF c
  <2> QED
    BY <1>1, <2>2, <2>3, <2>5
<1> HIDE DEF content, size, prefix, bytes, length
<1>6. ~ (Len(bytes) < end) /\ end = Len(prefix) + size
  BY <1>1, <1>2, <1>4, <1>5
<1>7. try_parse_packet(bytes) = Open(SubSeq(bytes, length.used + 1, end), SubSeq(bytes, end + 1, Len(bytes)))
  BY <1>1, <1>4, <1>6 DEF try_parse_packet, length
<1>8. try_parse_packet(bytes) = Open(content, rest)
  BY <1>4, <1>5, <1>6, <1>7
<1> QED
  BY <1>8, OpenInverts DEF bytes, content

(* A frame whose end has not arrived is left in the buffer.                    *)
LEMMA ParseCut ==
  ASSUME NEW body \in Bodies, NEW p \in Seq(Byte), NEW q \in Seq(Byte), q # << >>,
         p \o q = write_packet(body)
  PROVE  try_parse_packet(p) = Incomplete(p)
<1> DEFINE content == Framed(body)
           size == Len(content)
           prefix == encode(size)
<1>1. /\ content \in Seq(Byte) /\ size \in 0 .. MaxPacketSize /\ size \in Signed /\ size \in Nat
      /\ prefix \in Seq(Byte) /\ Len(prefix) \in Nat
  BY FramedSize, FrameSize, Parameters, Sizes
<1>2. p \o q = prefix \o content
  BY DEF write_packet
<1>3. Len(p) \in Nat /\ Len(q) \in Nat /\ Len(q) > 0 /\ Len(p) + Len(q) = Len(prefix) + size
  <2>1. Len(q) \in Nat /\ Len(q) > 0
    BY EmptySeq
  <2> QED
    BY <1>1, <1>2, <2>1, ConcatProperties
<1> HIDE DEF content, size
<1>4. CASE \E s \in Seq(Byte) : s # << >> /\ p \o s = prefix
  <2>1. PICK s \in Seq(Byte) : s # << >> /\ p \o s = prefix
    BY <1>4
  <2>2. Len(p) \in 0 .. Len(prefix) - 1 /\ SubSeq(prefix, 1, Len(p)) = p
    <3>1. Len(s) \in Nat /\ Len(s) > 0
      BY <2>1, EmptySeq
    <3>2. Len(prefix) = Len(p) + Len(s)
      BY <2>1, ConcatProperties
    <3> QED
      BY <1>3, <2>1, <3>1, <3>2, ConcatEnds
  <2>3. decode(p).result = "eof"
    BY <1>1, <2>2, CutVarIntIsEof
  <2> QED
    BY <2>3 DEF try_parse_packet
<1>5. CASE \E s \in Seq(Byte) : p = prefix \o s /\ s \o q = content
  <2>1. PICK s \in Seq(Byte) : p = prefix \o s
    BY <1>5
  <2>2. decode(p) = Decoded("value", size, Len(prefix))
    BY <1>1, <2>1, DecodeInvertsEncode
  <2>3. decode(p).result = "value" /\ decode(p).value = size /\ decode(p).used = Len(prefix)
    BY <2>2 DEF Decoded
  <2>4. Len(p) < Len(prefix) + size
    BY <1>1, <1>3
  <2> QED
    BY <1>1, <2>3, <2>4 DEF try_parse_packet
<1> HIDE DEF prefix
<1>6. Meet(Byte, p, q, prefix, content)
  BY <1>1, <1>2, Split
<1> QED
  BY <1>4, <1>5, <1>6 DEF Meet

(* No bytes are no VarInt yet.                                                 *)
LEMMA DecodeNothing == decode(<< >>).result = "eof"
<1>1. 0 \in 0 .. Len(encode(0)) - 1
  BY EncodeZero
<1>2. SubSeq(encode(0), 1, 0) = << >>
  BY EncodeZero
<1> QED
  BY <1>1, <1>2, EncodeZero, CutVarIntIsEof

(* An empty buffer holds no packet.                                            *)
LEMMA ParseNothing == try_parse_packet(<< >>) = Incomplete(<< >>)
BY DecodeNothing DEF try_parse_packet

(* What try_parse_packet may return.                                           *)
Outcomes == [result : {"none", "body", "error"}, body : Seq(Byte), rest : Seq(Byte)]

(* A part of a sequence has its elements.                                      *)
LEMMA SubSeqType ==
  ASSUME NEW T, NEW s \in Seq(T), NEW m \in Int, NEW n \in Int, m >= 1, n <= Len(s)
  PROVE  SubSeq(s, m, n) \in Seq(T)
<1>1. \A i \in m .. n : s[i] \in T
  OBVIOUS
<1> QED
  BY <1>1, SubSeqProperties

(* An outcome of the right parts is one.                                       *)
LEMMA OutcomeType ==
  ASSUME NEW result \in {"none", "body", "error"}, NEW body \in Seq(Byte), NEW rest \in Seq(Byte)
  PROVE  Outcome(result, body, rest) \in Outcomes
BY DEF Outcome, Outcomes

(* Open returns an outcome, whatever the bytes of the frame are.               *)
LEMMA OpenType ==
  ASSUME NEW slice \in Seq(Byte), NEW rest \in Seq(Byte)
  PROVE  Open(slice, rest) \in Outcomes
<1> DEFINE data == decode(slice)
           stream == SubSeq(slice, data.used + 1, Len(slice))
<1>1. data.used \in Nat /\ data.value \in Int
  BY DecodeShape, Sizes DEF Signed
<1>2. stream \in Seq(Byte)
  BY <1>1, SubSeqType
<1>3. << >> \in Seq(Byte) /\ slice \o rest \in Seq(Byte)
  OBVIOUS
<1>4. ASSUME Unzips(stream, data.value), data.value \in 0 .. MaxPacketSize
      PROVE  unzip(stream, data.value) \in Seq(Byte)
  <2> HIDE DEF stream
  <2>1. data.value + 1 <= Len(stream)
    BY <1>1, <1>2, <1>4 DEF Unzips
  <2> QED
    BY <1>1, <1>2, <2>1, SubSeqType DEF unzip
<1>5. \/ Open(slice, rest) = Outcome("body", slice, rest)
      \/ Open(slice, rest) = Outcome("body", stream, rest)
      \/ Open(slice, rest) = Incomplete(slice \o rest)
      \/ Open(slice, rest) = Malformed(slice \o rest)
      \/ /\ Unzips(stream, data.value) /\ data.value \in 0 .. MaxPacketSize
         /\ Open(slice, rest) = Outcome("body", unzip(stream, data.value), rest)
  BY DEF Open
<1> HIDE DEF data, stream
<1> QED
  BY <1>2, <1>3, <1>4, <1>5, OutcomeType DEF Incomplete, Malformed

(* try_parse_packet returns an outcome, whatever the bytes are; without        *)
(* compression it waits only on less than the largest frame, and leaves all of *)
(* it in the buffer.                                                           *)
LEMMA ParseType ==
  ASSUME NEW bytes \in Seq(Byte)
  PROVE  /\ try_parse_packet(bytes) \in Outcomes
         /\ ~ compression /\ try_parse_packet(bytes).result = "none" =>
              /\ try_parse_packet(bytes).rest = bytes
              /\ Len(bytes) < MaxBytes + MaxPacketSize
<1> DEFINE length == decode(bytes)
           end == length.used + length.value
           slice == SubSeq(bytes, length.used + 1, end)
           rest == SubSeq(bytes, end + 1, Len(bytes))
<1>1. /\ length.used \in 0 .. MaxBytes /\ length.value \in Int
      /\ length.result \in {"error", "eof", "value"}
      /\ length.result = "eof" => Len(bytes) < MaxBytes
  BY DecodeShape, Sizes DEF Signed
<1>2. << >> \in Seq(Byte) /\ Len(bytes) \in Nat
  OBVIOUS
<1> HIDE DEF length
<1>3. CASE length.result = "eof"
  <2>1. try_parse_packet(bytes) = Incomplete(bytes)
    BY <1>3 DEF try_parse_packet, length
  <2> QED
    BY <1>1, <1>2, <1>3, <2>1, Sizes, Parameters DEF Outcomes, Outcome, Incomplete
<1>4. CASE length.result # "eof" /\ (length.result = "error" \/ length.value \notin 0 .. MaxPacketSize)
  <2>1. try_parse_packet(bytes) = Malformed(bytes)
    BY <1>4 DEF try_parse_packet, length
  <2> QED
    BY <1>2, <2>1 DEF Outcomes, Outcome, Malformed
<1>5. CASE length.result = "value" /\ length.value \in 0 .. MaxPacketSize /\ Len(bytes) < end
  <2>1. try_parse_packet(bytes) = Incomplete(bytes)
    BY <1>5 DEF try_parse_packet, length
  <2>2. Len(bytes) < MaxBytes + MaxPacketSize
    BY <1>1, <1>2, <1>5, Sizes, Parameters
  <2> QED
    BY <1>2, <2>1, <2>2 DEF Outcomes, Outcome, Incomplete
<1>6. CASE length.result = "value" /\ length.value \in 0 .. MaxPacketSize /\ ~ (Len(bytes) < end)
  <2>1. try_parse_packet(bytes) = Open(slice, rest)
    BY <1>6 DEF try_parse_packet, length
  <2>2. end \in Nat /\ end <= Len(bytes) /\ length.used \in Nat
    BY <1>1, <1>2, <1>6, Sizes, Parameters
  <2>3. slice \in Seq(Byte) /\ rest \in Seq(Byte)
    BY <1>2, <2>2, SubSeqType
  <2>4. ~ compression => try_parse_packet(bytes).result = "body"
    BY <2>1 DEF Open, Outcome
  <2> HIDE DEF slice, rest
  <2> QED
    BY <2>1, <2>3, <2>4, OpenType
<1> QED
  BY <1>1, <1>3, <1>4, <1>5, <1>6
------------------------------------------------------------------------------
(* Concatenation of bytes is associative.                                      *)
LEMMA Regroup ==
  ASSUME NEW a \in Seq(Byte), NEW b \in Seq(Byte), NEW c \in Seq(Byte)
  PROVE  (a \o b) \o c = a \o (b \o c)
BY ConcatAssociative

(* `behind` lists what is left behind each frame: behind[k] is `bytes`, and    *)
(* the frames after the k-th are taken off it one by one; behind the last      *)
(* there is nothing, if they are `all`.                                        *)
Chain(behind, bytes, frames, k, all) ==
  /\ behind \in [0 .. Len(frames) -> Seq(Byte)]
  /\ behind[k] = bytes
  /\ \A i \in k + 1 .. Len(frames) : behind[i - 1] = frames[i] \o behind[i]
  /\ all => behind[Len(frames)] = << >>

(* `bytes` are the frames after the k-th, one behind the other, and if not     *)
(* `all`, then anything else.                                                  *)
Unread(bytes, frames, k, all) == \E behind : Chain(behind, bytes, frames, k, all)

(* All frames read: nothing is left.                                           *)
LEMMA UnreadNothing ==
  ASSUME NEW frames \in Seq(Seq(Byte)), NEW bytes, Unread(bytes, frames, Len(frames), TRUE)
  PROVE  bytes = << >>
BY DEF Unread, Chain

(* All frames read, then anything.                                             *)
LEMMA UnreadAnything ==
  ASSUME NEW frames \in Seq(Seq(Byte)), NEW bytes \in Seq(Byte)
  PROVE  Unread(bytes, frames, Len(frames), FALSE)
<1> DEFINE behind == [i \in 0 .. Len(frames) |-> bytes]
<1>1. Len(frames) \in Nat
  OBVIOUS
<1>2. behind \in [0 .. Len(frames) -> Seq(Byte)] /\ behind[Len(frames)] = bytes
  BY <1>1
<1>3. \A i \in Len(frames) + 1 .. Len(frames) : behind[i - 1] = frames[i] \o behind[i]
  BY <1>1
<1> HIDE DEF behind
<1>4. Chain(behind, bytes, frames, Len(frames), FALSE)
  BY <1>2, <1>3 DEF Chain
<1> QED
  BY <1>4 DEF Unread

(* The first unread frame stands in front.                                     *)
LEMMA UnreadFirst ==
  ASSUME NEW frames \in Seq(Seq(Byte)), NEW k \in Nat, k < Len(frames), NEW bytes, NEW all,
         Unread(bytes, frames, k, all)
  PROVE  \E rest \in Seq(Byte) : bytes = frames[k + 1] \o rest /\ Unread(rest, frames, k + 1, all)
<1>1. PICK behind : Chain(behind, bytes, frames, k, all)
  BY DEF Unread
<1>2. k + 1 \in 0 .. Len(frames) /\ k + 1 \in k + 1 .. Len(frames) /\ (k + 1) - 1 = k
  OBVIOUS
<1>3. behind[k + 1] \in Seq(Byte) /\ bytes = frames[k + 1] \o behind[k + 1]
  BY <1>1, <1>2 DEF Chain
<1>4. \A i \in (k + 1) + 1 .. Len(frames) : i \in k + 1 .. Len(frames)
  OBVIOUS
<1>5. \A i \in (k + 1) + 1 .. Len(frames) : behind[i - 1] = frames[i] \o behind[i]
  BY <1>1, <1>4 DEF Chain
<1>6. Chain(behind, behind[k + 1], frames, k + 1, all)
  BY <1>1, <1>5, Zenon DEF Chain
<1> QED
  BY <1>3, <1>6 DEF Unread

(* Other bytes behind the frames.                                              *)
LEMMA UnreadMore ==
  ASSUME NEW frames \in Seq(Seq(Byte)), NEW k \in 0 .. Len(frames), NEW bytes, NEW all,
         Unread(bytes, frames, k, all), NEW w \in Seq(Byte)
  PROVE  Unread(bytes \o w, frames, k, FALSE)
<1>1. PICK behind : Chain(behind, bytes, frames, k, all)
  BY DEF Unread
<1> DEFINE more == [i \in 0 .. Len(frames) |-> behind[i] \o w]
<1>2. behind \in [0 .. Len(frames) -> Seq(Byte)] /\ Len(frames) \in Nat
  BY <1>1 DEF Chain
<1>3. more \in [0 .. Len(frames) -> Seq(Byte)] /\ more[k] = bytes \o w
  BY <1>1, <1>2 DEF Chain
<1>4. ASSUME NEW i \in k + 1 .. Len(frames) PROVE more[i - 1] = frames[i] \o more[i]
  <2>1. i - 1 \in 0 .. Len(frames) /\ i \in 0 .. Len(frames) /\ i \in 1 .. Len(frames)
    BY <1>2
  <2>2. behind[i - 1] = frames[i] \o behind[i]
    BY <1>1, Zenon DEF Chain
  <2>3. frames[i] \in Seq(Byte) /\ behind[i] \in Seq(Byte)
    <3> HIDE DEF more
    <3>1. frames[i] \in Seq(Byte)
      BY <2>1
    <3>2. behind[i] \in Seq(Byte)
      BY <1>2, <2>1
    <3> QED
      BY <3>1, <3>2
  <2>4. more[i - 1] = behind[i - 1] \o w /\ more[i] = behind[i] \o w
    BY <2>1
  <2> HIDE DEF more
  <2>5. (frames[i] \o behind[i]) \o w = frames[i] \o (behind[i] \o w)
    BY <2>3, Regroup
  <2> QED
    BY <2>2, <2>4, <2>5
<1> HIDE DEF more
<1>5. Chain(more, bytes \o w, frames, k, FALSE)
  BY <1>3, <1>4 DEF Chain
<1> QED
  BY <1>5 DEF Unread

(* One more frame behind the frames.                                           *)
LEMMA UnreadFrame ==
  ASSUME NEW frames \in Seq(Seq(Byte)), NEW k \in 0 .. Len(frames), NEW bytes,
         Unread(bytes, frames, k, TRUE), NEW w \in Seq(Byte)
  PROVE  Unread(bytes \o w, Append(frames, w), k, TRUE)
<1>1. PICK behind : Chain(behind, bytes, frames, k, TRUE)
  BY DEF Unread
<1> DEFINE n == Len(frames)
           longer == Append(frames, w)
           more == [i \in 0 .. n + 1 |-> IF i = n + 1 THEN << >> ELSE behind[i] \o w]
<1>2. behind \in [0 .. n -> Seq(Byte)] /\ n \in Nat /\ behind[n] = << >> /\ behind[k] = bytes
  BY <1>1 DEF Chain
<1>3. /\ Len(longer) = n + 1 /\ longer[n + 1] = w
      /\ \A i \in 1 .. n : longer[i] = frames[i]
  OBVIOUS
<1> HIDE DEF longer, n
<1>4. /\ more \in [0 .. n + 1 -> Seq(Byte)]
      /\ more[n + 1] = << >>
      /\ \A i \in 0 .. n : more[i] = behind[i] \o w
  <2>1. ASSUME NEW i \in 0 .. n + 1
        PROVE  (IF i = n + 1 THEN << >> ELSE behind[i] \o w) \in Seq(Byte)
    <3>1. CASE i = n + 1
      BY <3>1
    <3>2. CASE i # n + 1
      <4>1. i \in 0 .. n
        BY <1>2, <3>2
      <4>2. behind[i] \in Seq(Byte)
        BY <1>2, <4>1
      <4> QED
        BY <3>2, <4>2
    <3> QED
      BY <3>1, <3>2
  <2>2. \A i \in 0 .. n : i \in 0 .. n + 1 /\ i # n + 1
    BY <1>2
  <2>3. n + 1 \in 0 .. n + 1
    BY <1>2
  <2> QED
    BY <2>1, <2>2, <2>3, Zenon
<1> HIDE DEF more
<1>5. ASSUME NEW i \in k + 1 .. n + 1 PROVE more[i - 1] = longer[i] \o more[i]
  <2>1. CASE i = n + 1
    <3>0. i - 1 = n /\ n \in 0 .. n
      BY <1>2, <2>1
    <3>1. more[i - 1] = << >> \o w /\ more[i] = << >> /\ longer[i] = w
      BY <1>2, <1>3, <1>4, <2>1, <3>0, Zenon
    <3>2. << >> \o w = w /\ w \o << >> = w
      BY ConcatEmptySeq
    <3> QED
      BY <3>1, <3>2
  <2>2. CASE i # n + 1
    <3>1. i - 1 \in 0 .. n /\ i \in 0 .. n /\ i \in 1 .. n /\ i \in k + 1 .. n
      BY <1>2, <2>2 DEF n
    <3>2. behind[i - 1] = frames[i] \o behind[i]
      BY <1>1, <3>1, Zenon DEF Chain, n
    <3>3. frames[i] \in Seq(Byte)
      BY <3>1 DEF n
    <3>4. behind[i] \in Seq(Byte)
      BY <1>2, <3>1
    <3>5. more[i - 1] = behind[i - 1] \o w /\ more[i] = behind[i] \o w /\ longer[i] = frames[i]
      BY <1>3, <1>4, <3>1
    <3>6. (frames[i] \o behind[i]) \o w = frames[i] \o (behind[i] \o w)
      BY <3>3, <3>4, Regroup
    <3> QED
      BY <3>2, <3>5, <3>6
  <2> QED
    BY <2>1, <2>2
<1>6. more[k] = bytes \o w
  BY <1>2, <1>4 DEF n
<1>7. Chain(more, bytes \o w, longer, k, TRUE)
  BY <1>3, <1>4, <1>5, <1>6 DEF Chain
<1> QED
  BY <1>7 DEF Unread, longer
------------------------------------------------------------------------------
(* The frames the client has written, while it was honest.                     *)
SentFrames == [i \in 1 .. Len(sent) |-> write_packet(sent[i])]

(* The inductive heart: as long as no more bodies are received than were sent, *)
(* the buffer and the wire together hold the frames of the outstanding ones,   *)
(* and nothing else if the client is honest.                                   *)
InFlight ==
  Len(received) <= Len(sent) => Unread(buffer \o wire, SentFrames, Len(received), honest)

(* What has been received of what was sent; in limbo the connection is only    *)
(* ended once the client has misbehaved and all its frames are dealt with.     *)
Delivered ==
  /\ honest => Len(received) <= Len(sent)
  /\ \A i \in 1 .. Len(sent) : i <= Len(received) => received[i] = sent[i]
  /\ pc = "over" => state = "Login" \/ (~ honest /\ Len(sent) <= Len(received))

(* The inductive invariant.                                                    *)
IInv == TypeOK /\ Delivered /\ InFlight /\ BufferBounded

(* The types the steps need.                                                   *)
LEMMA Types ==
  ASSUME TypeOK
  PROVE  /\ wire \in Seq(Byte) /\ buffer \in Seq(Byte) /\ buffer \o wire \in Seq(Byte)
         /\ Len(sent) \in Nat /\ Len(received) \in Nat
         /\ \A i \in 1 .. Len(sent) : sent[i] \in Bodies
BY DEF TypeOK

(* The frames are bytes.                                                       *)
LEMMA FramesType ==
  ASSUME TypeOK
  PROVE  /\ SentFrames \in Seq(Seq(Byte)) /\ Len(SentFrames) = Len(sent)
         /\ \A i \in 1 .. Len(sent) : SentFrames[i] = write_packet(sent[i])
<1>1. \A i \in 1 .. Len(sent) : write_packet(sent[i]) \in Seq(Byte)
  BY Types, FrameSize
<1> QED
  BY <1>1, Types DEF SentFrames

(* While a body is outstanding, parsing the buffer waits or yields that body;  *)
(* it never fails.                                                             *)
LEMMA ParseOutstanding ==
  ASSUME TypeOK, Len(received) < Len(sent), InFlight
  PROVE  \/ try_parse_packet(buffer) = Incomplete(buffer)
         \/ \E rest \in Seq(Byte) :
              /\ try_parse_packet(buffer) = Outcome("body", sent[Len(received) + 1], rest)
              /\ Unread(rest \o wire, SentFrames, Len(received) + 1, honest)
<1> DEFINE k == Len(received) + 1
           frame == write_packet(sent[k])
<1>1. k \in 1 .. Len(sent) /\ sent[k] \in Bodies /\ Len(received) \in Nat
  BY Types
<1>2. SentFrames \in Seq(Seq(Byte)) /\ SentFrames[k] = frame /\ Len(received) < Len(SentFrames)
  BY <1>1, FramesType
<1>3. Unread(buffer \o wire, SentFrames, Len(received), honest)
  BY Types DEF InFlight
<1>4. PICK behind \in Seq(Byte) : buffer \o wire = frame \o behind /\ Unread(behind, SentFrames, k, honest)
  BY <1>1, <1>2, <1>3, UnreadFirst
<1>5. frame \in Seq(Byte)
  BY <1>1, FrameSize
<1> HIDE DEF k
<1>6. Meet(Byte, buffer, wire, frame, behind)
  <2> HIDE DEF frame
  <2> QED
    BY <1>4, <1>5, Types, Split
<1>7. CASE \E rest \in Seq(Byte) : rest # << >> /\ buffer \o rest = frame
  BY <1>1, <1>7, Types, ParseCut
<1>8. CASE \E rest \in Seq(Byte) : buffer = frame \o rest /\ rest \o wire = behind
  BY <1>1, <1>4, <1>8, ParseInverts DEF k
<1> QED
  BY <1>6, <1>7, <1>8 DEF Meet

(* With nothing outstanding and an honest client there is nothing to parse.    *)
LEMMA ParseDrained ==
  ASSUME TypeOK, honest, Len(received) = Len(sent), InFlight
  PROVE  try_parse_packet(buffer) = Incomplete(buffer)
<1>0. Len(received) = Len(SentFrames) /\ SentFrames \in Seq(Seq(Byte)) /\ Len(received) <= Len(sent)
  BY Types, FramesType
<1>1. Unread(buffer \o wire, SentFrames, Len(received), honest)
  BY <1>0 DEF InFlight
<1>2. honest = TRUE
  BY DEF TypeOK
<1>3. Unread(buffer \o wire, SentFrames, Len(SentFrames), TRUE)
  BY <1>0, <1>1, <1>2, Zenon
<1>4. buffer \o wire = << >>
  BY <1>0, <1>3, UnreadNothing
<1>5. buffer = << >>
  BY <1>4, Types, ConcatEqualIffEmpty
<1> QED
  BY <1>5, ParseNothing

(* The invariant holds initially.                                              *)
LEMMA InitIInv == Init => IInv
<1> SUFFICES ASSUME Init PROVE IInv
  OBVIOUS
<1>1. TypeOK
  <2>1. compression \in BOOLEAN /\ skipped \in BOOLEAN /\ honest \in BOOLEAN
    BY Zenon DEF Init
  <2>2. state \in States /\ pc \in {"parse", "wait", "over"}
    BY DEF Init, States
  <2>3. threshold \in Thresholds \union {0} /\ sends \in 0 .. MaxSends
    BY FramingAssumption DEF Init
  <2>4. /\ wire \in Seq(Byte) /\ buffer \in Seq(Byte)
        /\ sent \in Seq(Bodies) /\ received \in Seq(Seq(Byte))
    BY DEF Init
  <2> QED
    BY <2>1, <2>2, <2>3, <2>4, Zenon DEF TypeOK
<1>2. Len(sent) = 0 /\ Len(received) = 0 /\ buffer \o wire = << >>
  BY DEF Init
<1>3. Delivered /\ BufferBounded
  BY <1>2 DEF Init, Delivered, BufferBounded
<1>4. Chain([i \in 0 .. 0 |-> << >>], << >>, SentFrames, 0, honest)
  BY <1>1, <1>2, FramesType DEF Chain
<1> QED
  BY <1>1, <1>2, <1>3, <1>4 DEF IInv, InFlight, Unread

(* The frames depend on what was sent and on the configuration.                *)
LEMMA SameFrames ==
  ASSUME UNCHANGED <<config, sent>>
  PROVE  SentFrames' = SentFrames
<1>1. \A i \in 1 .. Len(sent) : write_packet(sent[i])' = write_packet(sent[i])
  BY DEF write_packet, Framed, Meets, config
<1> QED
  BY <1>1 DEF SentFrames

(* Every step keeps the types.                                                 *)
LEMMA NextTypeOK == TypeOK /\ [Next]_vars => TypeOK'
<1> SUFFICES ASSUME TypeOK, [Next]_vars PROVE TypeOK'
  OBVIOUS
<1> USE DEF TypeOK, config, client, task
<1>1. CASE Read
  <2>1. PICK n \in 1 .. Len(wire) :
          /\ buffer' = buffer \o SubSeq(wire, 1, n)
          /\ wire' = SubSeq(wire, n + 1, Len(wire))
    BY <1>1 DEF Read
  <2>2. SubSeq(wire, 1, n) \in Seq(Byte) /\ wire' \in Seq(Byte)
    BY <2>1, SubSeqType
  <2>3. buffer' \in Seq(Byte)
    BY <2>1, <2>2
  <2> QED
    BY <1>1, <2>2, <2>3 DEF Read
<1>2. CASE Parse
  <2>1. try_parse_packet(buffer) \in Outcomes
    BY ParseType
  <2>2. /\ try_parse_packet(buffer).rest \in Seq(Byte)
        /\ try_parse_packet(buffer).body \in Seq(Byte)
    BY <2>1 DEF Outcomes
  <2>3. buffer' \in Seq(Byte)
    BY <1>2, <2>2 DEF Parse, ParseNone, Decodes, ParseBody, ParseSkip, ParseRefused, ParseError
  <2>4. received' \in Seq(Seq(Byte))
    <3>1. received' = received \/ received' = Append(received, try_parse_packet(buffer).body)
      BY <1>2 DEF Parse, ParseNone, Decodes, ParseBody, ParseSkip, ParseRefused, ParseError
    <3>2. Append(received, try_parse_packet(buffer).body) \in Seq(Seq(Byte))
      BY <2>2
    <3> QED
      BY <3>1, <3>2
  <2>5. pc' \in {"parse", "wait", "over"}
    BY <1>2 DEF Parse, ParseNone, Decodes, ParseBody, ParseSkip, ParseRefused, ParseError
  <2>6. state' \in States /\ skipped' \in BOOLEAN
    <3>1. state' = state \/ state' \in Ahead[state]
      BY <1>2 DEF Parse, ParseNone, ParseBody, ParseSkip, ParseRefused, ParseError
    <3>2. skipped' = skipped \/ skipped' = TRUE \/ skipped' = FALSE
      BY <1>2 DEF Parse, ParseNone, ParseBody, ParseSkip, ParseRefused, ParseError
    <3>3. state' \in States
      BY <3>1 DEF Ahead, States
    <3>4. skipped' \in BOOLEAN
      BY <3>2, Zenon
    <3> QED
      BY <3>3, <3>4
  <2>7. UNCHANGED <<config, client, wire>>
    BY <1>2 DEF Parse, ParseNone, Decodes, ParseBody, ParseSkip, ParseRefused, ParseError
  <2>8. /\ compression' = compression /\ threshold' = threshold /\ wire' = wire
        /\ sent' = sent /\ honest' = honest /\ sends' = sends
    BY <2>7
  <2> QED
    BY <2>3, <2>4, <2>5, <2>6, <2>8
<1>3. ASSUME NEW body \in Bodies, SendFrame(body) PROVE TypeOK'
  <2>1. wire' \in Seq(Byte)
    BY <1>3, FrameSize DEF SendFrame
  <2>2. sent' \in Seq(Bodies)
    BY <1>3 DEF SendFrame
  <2>3. sends' \in 0 .. MaxSends
    BY <1>3, FramingAssumption DEF SendFrame
  <2> QED
    BY <1>3, <2>1, <2>2, <2>3 DEF SendFrame
<1>4. ASSUME NEW bytes \in Junk, SendJunk(bytes) PROVE TypeOK'
  <2>1. wire' \in Seq(Byte)
    BY <1>4, FramingAssumption DEF SendJunk
  <2>2. sends' \in 0 .. MaxSends
    BY <1>4, FramingAssumption DEF SendJunk
  <2> QED
    BY <1>4, <2>1, <2>2 DEF SendJunk
<1>5. CASE Keepalive \/ UNCHANGED vars
  BY <1>5 DEF Keepalive, vars
<1> QED
  BY <1>1, <1>2, <1>3, <1>4, <1>5 DEF Next

(* Every step keeps the bound of the buffer.                                   *)
LEMMA NextBounded ==
  TypeOK /\ BufferBounded /\ [Next]_vars => BufferBounded'
<1> SUFFICES ASSUME TypeOK, BufferBounded, [Next]_vars, ~ compression', pc' = "wait", ~ skipped'
             PROVE  Len(buffer') < MaxBytes + MaxPacketSize
  BY DEF BufferBounded
<1>1. CASE ParseNone
  <2>1. ~ compression /\ buffer' = try_parse_packet(buffer).rest /\ try_parse_packet(buffer).result = "none"
    BY <1>1 DEF ParseNone, config
  <2> QED
    BY <2>1, Types, ParseType
<1>2. CASE buffer' = buffer /\ pc' = pc /\ skipped' = skipped /\ compression' = compression
  BY <1>2 DEF BufferBounded
<1>3. ~ Read /\ ~ Keepalive /\ ~ ParseSkip /\ ~ ParseRefused /\ ~ ParseError
  BY DEF Read, Keepalive, ParseSkip, ParseRefused, ParseError
<1>4. ~ ParseBody
  BY DEF ParseBody, Decodes
<1> QED
  BY <1>1, <1>2, <1>3, <1>4 DEF Next, Parse, SendFrame, SendJunk, vars, config, task

(* What goes to the decoder is the next outstanding body; behind the last one, *)
(* only a client that misbehaved has anything received.                        *)
LEMMA BodyStep ==
  ASSUME IInv, Decodes
  PROVE  /\ \E body \in Seq(Byte) : received' = Append(received, body)
         /\ Len(received) = Len(sent) => ~ honest
         /\ Len(received) < Len(sent) =>
              /\ received' = Append(received, sent[Len(received) + 1])
              /\ Unread(buffer' \o wire, SentFrames, Len(received) + 1, honest)
<1> DEFINE parsed == try_parse_packet(buffer)
<1>0. TypeOK /\ InFlight
  BY DEF IInv
<1>1. parsed.result = "body" /\ buffer' = parsed.rest /\ received' = Append(received, parsed.body)
  BY DEF Decodes
<1>2. parsed \in Outcomes
  BY <1>0, Types, ParseType
<1>3. parsed # Incomplete(buffer)
  BY <1>1 DEF Incomplete, Outcome
<1> HIDE DEF parsed
<1>4. \E body \in Seq(Byte) : received' = Append(received, body)
  BY <1>1, <1>2 DEF Outcomes
<1>5. Len(received) = Len(sent) => ~ honest
  BY <1>0, <1>3, ParseDrained DEF parsed
<1>6. ASSUME Len(received) < Len(sent)
      PROVE  /\ received' = Append(received, sent[Len(received) + 1])
             /\ Unread(buffer' \o wire, SentFrames, Len(received) + 1, honest)
  <2>1. PICK rest \in Seq(Byte) :
          /\ parsed = Outcome("body", sent[Len(received) + 1], rest)
          /\ Unread(rest \o wire, SentFrames, Len(received) + 1, honest)
    BY <1>0, <1>3, <1>6, ParseOutstanding DEF parsed
  <2> QED
    BY <1>1, <2>1 DEF Outcome
<1> QED
  BY <1>4, <1>5, <1>6

(* ParseError happens only behind all frames of a client that misbehaved.      *)
LEMMA ErrorStep ==
  ASSUME IInv, ParseError
  PROVE  ~ honest /\ Len(sent) <= Len(received)
<1> DEFINE parsed == try_parse_packet(buffer)
<1>0. TypeOK /\ InFlight /\ Len(sent) \in Nat /\ Len(received) \in Nat
  BY Types DEF IInv
<1>1. parsed.result = "error"
  BY DEF ParseError
<1>2. parsed # Incomplete(buffer)
  BY <1>1 DEF Incomplete, Outcome
<1>3. \A body, rest : parsed # Outcome("body", body, rest)
  BY <1>1 DEF Outcome
<1>4. ~ (Len(received) < Len(sent))
  BY <1>0, <1>2, <1>3, ParseOutstanding
<1>5. honest => Len(received) <= Len(sent)
  BY DEF IInv, Delivered
<1>6. ~ honest
  BY <1>0, <1>2, <1>4, <1>5, ParseDrained
<1> QED
  BY <1>0, <1>4, <1>6

(* ParseNone leaves the buffer alone, except behind those frames: there,       *)
(* Ok(None) may have consumed a Length.                                        *)
LEMMA NoneStep ==
  ASSUME IInv, ParseNone
  PROVE  buffer' = buffer \/ (~ honest /\ Len(sent) <= Len(received))
<1> DEFINE parsed == try_parse_packet(buffer)
<1>0. TypeOK /\ InFlight /\ Len(sent) \in Nat /\ Len(received) \in Nat
  BY Types DEF IInv
<1>1. parsed.result = "none" /\ buffer' = parsed.rest
  BY DEF ParseNone
<1>2. parsed = Incomplete(buffer) => buffer' = buffer
  BY <1>1 DEF Incomplete, Outcome
<1>3. \A body, rest : parsed # Outcome("body", body, rest)
  BY <1>1 DEF Outcome
<1>4. Len(received) < Len(sent) => parsed = Incomplete(buffer)
  BY <1>0, <1>3, ParseOutstanding
<1>5. honest => Len(received) <= Len(sent)
  BY DEF IInv, Delivered
<1>6. honest /\ Len(received) = Len(sent) => parsed = Incomplete(buffer)
  BY <1>0, ParseDrained
<1> QED
  BY <1>0, <1>2, <1>4, <1>5, <1>6

(* Every step keeps Delivered.                                                 *)
LEMMA NextDelivered ==
  IInv /\ [Next]_vars => Delivered'
<1> SUFFICES ASSUME IInv, [Next]_vars PROVE Delivered'
  OBVIOUS
<1>0. TypeOK /\ Delivered /\ Len(sent) \in Nat /\ Len(received) \in Nat
  BY Types DEF IInv
<1>1. ASSUME NEW body \in Bodies, SendFrame(body) PROVE Delivered'
  <2>1. UNCHANGED <<received, pc, state, honest>>
    BY <1>1 DEF SendFrame, task
  <2>2. CASE honest
    <3>1. sent' = Append(sent, body)
      BY <1>1, <2>2 DEF SendFrame
    <3>2. Len(sent') = Len(sent) + 1 /\ \A i \in 1 .. Len(sent) : sent'[i] = sent[i]
      BY <1>0, <3>1 DEF TypeOK
    <3> QED
      BY <1>0, <2>1, <2>2, <3>2 DEF Delivered
  <2>3. CASE ~ honest
    <3>1. sent' = sent
      BY <1>1, <2>3 DEF SendFrame
    <3> QED
      BY <1>0, <2>1, <3>1 DEF Delivered
  <2> QED
    BY <2>2, <2>3
<1>2. ASSUME NEW bytes, SendJunk(bytes) PROVE Delivered'
  BY <1>0, <1>2 DEF SendJunk, task, Delivered
<1>3. CASE ParseBody \/ ParseSkip \/ ParseRefused
  <2>0. Decodes
    BY <1>3 DEF ParseBody, ParseSkip, ParseRefused
  <2>1. PICK body \in Seq(Byte) : received' = Append(received, body)
    BY <2>0, BodyStep
  <2>2. /\ Len(received') = Len(received) + 1
        /\ \A i \in 1 .. Len(received) : received'[i] = received[i]
        /\ received'[Len(received) + 1] = body
    BY <1>0, <2>1 DEF TypeOK
  <2>3. /\ Len(received) = Len(sent) => ~ honest
        /\ Len(received) < Len(sent) => body = sent[Len(received) + 1]
    <3>1. Len(received) < Len(sent) => Append(received, body) = Append(received, sent[Len(received) + 1])
      BY <2>0, <2>1, BodyStep
    <3>2. Len(received) < Len(sent) => body = sent[Len(received) + 1]
      <4>1. \A x : Append(received, x)[Len(received) + 1] = x
        BY <1>0 DEF TypeOK
      <4> QED
        BY <3>1, <4>1
    <3> QED
      BY <2>0, <3>2, BodyStep
  <2>4. /\ UNCHANGED <<sent, honest>> /\ pc = "parse"
        /\ pc' = "over" => state' = "Login"
    BY <1>3, <2>0 DEF Decodes, ParseBody, ParseSkip, ParseRefused, client
  <2> QED
    BY <1>0, <2>2, <2>3, <2>4 DEF Delivered
<1>4. CASE ParseError
  <2>1. ~ honest /\ Len(sent) <= Len(received)
    BY <1>4, ErrorStep
  <2> QED
    BY <1>0, <1>4, <2>1 DEF ParseError, client, Delivered
<1>5. CASE Read \/ Keepalive \/ ParseNone \/ UNCHANGED vars
  <2>1. UNCHANGED <<sent, received, honest, state>> /\ (pc' = "over" => pc = "over")
    BY <1>5 DEF Read, Keepalive, ParseNone, vars, client, task
  <2> QED
    BY <1>0, <2>1 DEF Delivered
<1> QED
  BY <1>1, <1>2, <1>3, <1>4, <1>5 DEF Next, Parse

(* Every step keeps InFlight.                                                  *)
LEMMA NextInFlight ==
  IInv /\ [Next]_vars => InFlight'
<1> SUFFICES ASSUME IInv, [Next]_vars, Len(received') <= Len(sent')
             PROVE  Unread(buffer' \o wire', SentFrames', Len(received'), honest')
  BY DEF InFlight
<1>0. /\ TypeOK /\ Delivered /\ InFlight /\ Len(sent) \in Nat /\ Len(received) \in Nat
      /\ honest \in BOOLEAN /\ buffer \in Seq(Byte) /\ wire \in Seq(Byte)
      /\ SentFrames \in Seq(Seq(Byte)) /\ Len(SentFrames) = Len(sent)
  BY Types, FramesType DEF IInv, TypeOK
<1>1. ASSUME NEW w \in Seq(Byte), wire' = wire \o w, UNCHANGED <<config, sent, received, buffer>>,
             ~ honest'
      PROVE  Unread(buffer' \o wire', SentFrames', Len(received'), honest')
  <2>1. Unread(buffer \o wire, SentFrames, Len(received), honest) /\ Len(received) \in 0 .. Len(SentFrames)
    BY <1>0, <1>1 DEF InFlight
  <2>2. Unread((buffer \o wire) \o w, SentFrames, Len(received), FALSE)
    BY <1>0, <2>1, UnreadMore
  <2>3. (buffer \o wire) \o w = buffer' \o wire'
    <3>1. (buffer \o wire) \o w = buffer \o (wire \o w)
      BY <1>0, Regroup
    <3> QED
      BY <1>1, <3>1
  <2>4. SentFrames' = SentFrames /\ honest' = FALSE /\ received' = received
    <3>1. honest' \in BOOLEAN
      BY <1>0, NextTypeOK DEF TypeOK
    <3> QED
      BY <1>1, <3>1, SameFrames
  <2> QED
    BY <2>2, <2>3, <2>4
<1>2. ASSUME NEW body \in Bodies, SendFrame(body)
      PROVE  Unread(buffer' \o wire', SentFrames', Len(received'), honest')
  <2> DEFINE w == write_packet(body)
  <2>1. w \in Seq(Byte) /\ wire' = wire \o w /\ UNCHANGED <<config, honest, buffer, received>>
    BY <1>2, FrameSize DEF SendFrame
  <2>2. CASE ~ honest
    <3>1. sent' = sent
      BY <1>2, <2>2 DEF SendFrame
    <3> HIDE DEF w
    <3> QED
      BY <1>1, <2>1, <2>2, <3>1
  <2>3. CASE honest
    <3>1. sent' = Append(sent, body)
      BY <1>2, <2>3 DEF SendFrame
    <3>2. honest = TRUE /\ Len(received) \in 0 .. Len(SentFrames)
      BY <1>0, <2>3 DEF Delivered
    <3>3. Unread(buffer \o wire, SentFrames, Len(received), TRUE)
      <4>1. Len(received) <= Len(sent)
        BY <1>0, <2>3 DEF Delivered
      <4>2. Unread(buffer \o wire, SentFrames, Len(received), honest)
        BY <1>0, <4>1 DEF InFlight
      <4> QED
        BY <3>2, <4>2, Zenon
    <3>4. Unread((buffer \o wire) \o w, Append(SentFrames, w), Len(received), TRUE)
      <4> HIDE DEF w
      <4> QED
        BY <1>0, <2>1, <3>2, <3>3, UnreadFrame
    <3>5. (buffer \o wire) \o w = buffer' \o wire'
      <4> HIDE DEF w
      <4>1. (buffer \o wire) \o w = buffer \o (wire \o w)
        BY <1>0, <2>1, Regroup
      <4>2. buffer' = buffer /\ wire' = wire \o w
        BY <2>1
      <4> QED
        BY <4>1, <4>2
    <3>6. SentFrames' = Append(SentFrames, w)
      <4>1. \A i \in 1 .. Len(sent) + 1 : write_packet(sent[i])' = write_packet(sent'[i])
        BY <2>1 DEF write_packet, Framed, Meets, config
      <4>2. /\ Len(sent') = Len(sent) + 1 /\ sent'[Len(sent) + 1] = body
            /\ \A i \in 1 .. Len(sent) : sent'[i] = sent[i]
        BY <1>0, <3>1 DEF TypeOK
      <4>3. SentFrames' = [i \in 1 .. Len(sent) + 1 |-> write_packet(sent'[i])]
        BY <4>1, <4>2 DEF SentFrames
      <4>4. SentFrames' \in Seq(Seq(Byte)) /\ Len(SentFrames') = Len(sent) + 1
        <5>1. \A i \in 1 .. Len(sent) + 1 : sent'[i] \in Bodies
          BY <1>0, <4>2, Types
        <5>2. \A i \in 1 .. Len(sent) + 1 : write_packet(sent'[i]) \in Seq(Byte)
          BY <5>1, FrameSize
        <5> QED
          BY <1>0, <4>3, <5>2
      <4>5. Append(SentFrames, w) \in Seq(Seq(Byte)) /\ Len(Append(SentFrames, w)) = Len(sent) + 1
        <5> HIDE DEF w
        <5> QED
          BY <1>0, <2>1
      <4>6. ASSUME NEW i \in 1 .. Len(sent) + 1
            PROVE  SentFrames'[i] = Append(SentFrames, w)[i]
        <5>1. CASE i = Len(sent) + 1
          <6>1. SentFrames'[i] = w
            BY <4>2, <4>3, <5>1
          <6> HIDE DEF w
          <6>2. Append(SentFrames, w)[i] = w
            BY <1>0, <2>1, <5>1
          <6> QED
            BY <6>1, <6>2
        <5>2. CASE i # Len(sent) + 1
          <6>1. i \in 1 .. Len(sent)
            BY <1>0, <5>2
          <6>2. SentFrames'[i] = write_packet(sent[i])
            BY <4>2, <4>3, <6>1
          <6>3. SentFrames[i] = write_packet(sent[i])
            BY <1>0, <6>1, FramesType
          <6> HIDE DEF w
          <6>4. Append(SentFrames, w)[i] = SentFrames[i]
            BY <1>0, <2>1, <6>1
          <6> QED
            BY <6>2, <6>3, <6>4
        <5> QED
          BY <5>1, <5>2
      <4> HIDE DEF w
      <4> QED
        BY <4>4, <4>5, <4>6, SeqEqual
    <3> HIDE DEF w
    <3> QED
      BY <2>1, <3>2, <3>4, <3>5, <3>6
  <2> QED
    BY <2>2, <2>3
<1>3. ASSUME NEW bytes \in Junk, SendJunk(bytes)
      PROVE  Unread(buffer' \o wire', SentFrames', Len(received'), honest')
  <2>1. /\ wire' = wire \o bytes /\ UNCHANGED <<config, sent, received, buffer>>
        /\ ~ honest' /\ bytes \in Seq(Byte)
    BY <1>3, FramingAssumption DEF SendJunk
  <2> QED
    BY <1>1, <2>1
<1>4. ASSUME buffer' \o wire' = buffer \o wire, UNCHANGED <<config, sent, honest, received>>
      PROVE  Unread(buffer' \o wire', SentFrames', Len(received'), honest')
  BY <1>0, <1>4, SameFrames DEF InFlight
<1>5. ASSUME ~ honest, Len(sent) <= Len(received), UNCHANGED <<config, sent, honest, received>>
      PROVE  Unread(buffer' \o wire', SentFrames', Len(received'), honest')
  <2>1. buffer' \o wire' \in Seq(Byte)
    BY <1>0, NextTypeOK DEF TypeOK
  <2>2. Len(received') = Len(SentFrames) /\ honest' = FALSE /\ SentFrames' = SentFrames
    BY <1>0, <1>5, SameFrames
  <2>3. Unread(buffer' \o wire', SentFrames, Len(SentFrames), FALSE)
    BY <1>0, <2>1, UnreadAnything
  <2> QED
    BY <2>2, <2>3
<1>6. CASE Read
  <2>1. PICK n \in 1 .. Len(wire) :
          /\ buffer' = buffer \o SubSeq(wire, 1, n)
          /\ wire' = SubSeq(wire, n + 1, Len(wire))
    BY <1>6 DEF Read
  <2> DEFINE a == SubSeq(wire, 1, n)
             b == SubSeq(wire, n + 1, Len(wire))
  <2>2. Len(wire) \in Nat
    BY <1>0
  <2>3. a \in Seq(Byte) /\ b \in Seq(Byte)
    BY <1>0, <2>2, SubSeqType
  <2>4. a \o b = wire
    BY <1>0, <2>2, ConcatAdjacentSubSeq, SubSeqFull
  <2>5. buffer' = buffer \o a /\ wire' = b
    BY <2>1
  <2> HIDE DEF a, b
  <2>6. (buffer \o a) \o b = buffer \o (a \o b)
    BY <1>0, <2>3, Regroup
  <2>7. buffer' \o wire' = buffer \o wire
    BY <2>4, <2>5, <2>6
  <2> QED
    BY <1>4, <1>6, <2>7 DEF Read, client
<1>7. CASE ParseNone
  <2>1. UNCHANGED <<config, sent, honest, received, wire>>
    BY <1>7 DEF ParseNone, client
  <2>2. buffer' = buffer \/ (~ honest /\ Len(sent) <= Len(received))
    BY <1>7, NoneStep
  <2> QED
    BY <1>4, <1>5, <2>1, <2>2
<1>8. CASE ParseError
  <2>1. UNCHANGED <<config, sent, honest, received>>
    BY <1>8 DEF ParseError, client
  <2> QED
    BY <1>5, <1>8, <2>1, ErrorStep
<1>9. CASE Decodes
  <2>1. UNCHANGED <<config, sent, honest, wire>>
    BY <1>9 DEF Decodes, client
  <2>2. Len(received') = Len(received) + 1
    BY <1>0, <1>9, BodyStep DEF TypeOK
  <2>3. Len(received) < Len(sent)
    BY <1>0, <2>1, <2>2
  <2>4. Unread(buffer' \o wire, SentFrames, Len(received) + 1, honest)
    BY <1>9, <2>3, BodyStep
  <2> QED
    BY <2>1, <2>2, <2>4, SameFrames
<1>10. CASE Keepalive \/ UNCHANGED vars
  BY <1>4, <1>10 DEF Keepalive, vars, client
<1>11. ParseBody \/ ParseSkip \/ ParseRefused => Decodes
  BY DEF ParseBody, ParseSkip, ParseRefused
<1> QED
  BY <1>2, <1>3, <1>6, <1>7, <1>8, <1>9, <1>10, <1>11 DEF Next, Parse

(* The invariant is inductive.                                                 *)
LEMMA NextIInv == IInv /\ [Next]_vars => IInv'
BY NextTypeOK, NextBounded, NextDelivered, NextInFlight DEF IInv

(* The inductive invariant holds of every behaviour of write_packet, read_buf  *)
(* and try_parse_packet.                                                       *)
THEOREM SafetyIInv == Safety => []IInv
BY InitIInv, NextIInv, PTL DEF Safety

(* IsPrefix, element by element.                                               *)
LEMMA PrefixIs ==
  ASSUME NEW T, NEW s \in Seq(T), NEW t \in Seq(T), Len(s) <= Len(t),
         \A i \in 1 .. Len(s) : s[i] = t[i]
  PROVE  IsPrefix(s, t)
<1> DEFINE a == SubSeq(s, 1, Len(s))
           b == SubSeq(t, 1, Len(s))
<1>1. /\ a \in Seq(T) /\ Len(a) = Len(s) /\ b \in Seq(T) /\ Len(b) = Len(s)
      /\ \A i \in 1 .. Len(s) : a[i] = s[i] /\ b[i] = t[i]
  OBVIOUS
<1> HIDE DEF a, b
<1>2. a = b
  BY <1>1, SeqEqual
<1> QED
  BY <1>2 DEF IsPrefix, a, b

(* The invariant says what BodiesInOrder says.                                 *)
LEMMA InOrder == IInv => BodiesInOrder
<1> SUFFICES ASSUME IInv PROVE BodiesInOrder
  OBVIOUS
<1>1. sent \in Seq(Seq(Byte)) /\ received \in Seq(Seq(Byte))
  <2>1. Bodies \subseteq Seq(Byte) /\ sent \in Seq(Bodies) /\ received \in Seq(Seq(Byte))
    BY FramingAssumption DEF IInv, TypeOK
  <2> QED
    BY <2>1, SeqMonotonic
<1>2. CASE Len(received) <= Len(sent)
  <2>1. \A i \in 1 .. Len(received) : received[i] = sent[i]
    BY <1>1, <1>2 DEF IInv, Delivered
  <2> QED
    BY <1>1, <1>2, <2>1, PrefixIs DEF BodiesInOrder
<1>3. CASE ~ (Len(received) <= Len(sent))
  <2>1. ~ honest /\ Len(sent) <= Len(received)
    BY <1>1, <1>3 DEF IInv, Delivered
  <2>2. \A i \in 1 .. Len(sent) : sent[i] = received[i]
    BY <1>1, <2>1 DEF IInv, Delivered
  <2> QED
    BY <1>1, <2>1, <2>2, PrefixIs DEF BodiesInOrder
<1> QED
  BY <1>2, <1>3

(* The buffer, the wire and what is decoded keep their types, for every size   *)
(* of the VarInt, every packet limit, every set of bodies and every kind of    *)
(* garbage.                                                                    *)
THEOREM TypeCorrect == Safety => []TypeOK
BY SafetyIInv, PTL DEF IInv

(* For all of them, with or without compression and however TCP cuts the       *)
(* stream, the bodies are received in the order sent, none lost, none altered, *)
(* none twice: try_parse_packet inverts write_packet.                          *)
THEOREM StreamInOrder == Safety => []BodiesInOrder
BY SafetyIInv, InOrder, PTL

(* For all of them, the task never waits with a whole frame, or more than the  *)
(* largest one, in an uncompressed buffer, but behind a frame it has skipped.  *)
THEOREM BufferStaysBounded == Safety => []BufferBounded
BY SafetyIInv, PTL DEF IInv

(* The channel starts empty.                                                   *)
LEMMA InitStreams == Init => PS!Init
BY DEF Init, PS!Init

(* A body handed to the decoder is a packet that arrives.                      *)
LEMMA BodyArrives ==
  ASSUME IInv, Decodes
  PROVE  PS!Arrives
<1>0. /\ received \in Seq(Seq(Byte)) /\ honest \in BOOLEAN /\ Len(sent) \in Nat /\ Len(received) \in Nat
      /\ honest => Len(received) <= Len(sent)
  BY Types DEF IInv, TypeOK, Delivered
<1>1. pc = "parse"
  BY DEF Decodes
<1>2. CASE Len(received) < Len(sent)
  <2>1. received' = Append(received, sent[Len(received) + 1])
    BY <1>2, BodyStep
  <2> QED
    BY <1>1, <1>2, <2>1 DEF PS!Arrives, PS!Outstanding
<1>3. CASE ~ (Len(received) < Len(sent))
  <2>1. ~ honest
    BY <1>0, <1>3, BodyStep
  <2>2. PICK body \in Seq(Byte) : received' = Append(received, body)
    BY BodyStep
  <2>3. /\ received' \in Seq(Seq(Byte)) /\ Len(received') = Len(received) + 1
        /\ \A i \in 1 .. Len(received) : received[i] = received'[i]
    BY <1>0, <2>2
  <2>4. Len(received) <= Len(received')
    BY <1>0, <2>3
  <2>5. IsPrefix(received, received')
    BY <1>0, <2>3, <2>4, PrefixIs
  <2> QED
    BY <1>1, <1>3, <2>1, <2>3, <2>5 DEF PS!Arrives, PS!Outstanding, IsPrefix, PS!IsPrefix
<1> QED
  BY <1>2, <1>3

(* Whether it is then dispatched, skipped or refused.                          *)
LEMMA BodyStreams ==
  ASSUME IInv, ParseBody \/ ParseSkip \/ ParseRefused
  PROVE  PS!Next
<1>1. Decodes /\ pc = "parse" /\ sent' = sent /\ honest' = honest
  BY DEF ParseBody, ParseSkip, ParseRefused, Decodes, client
<1>2. PS!Arrives
  BY <1>1, BodyArrives
<1>3. state \in States
  BY DEF IInv, TypeOK
<1>4. CASE ParseBody \/ ParseSkip
  <2>1. pc' # "over" /\ (state' = state \/ state' \in Ahead[state])
    BY <1>1, <1>4 DEF ParseBody, ParseSkip
  <2>2. state' \in PS!Ahead[state]
    BY <1>3, <2>1 DEF States, Ahead, PS!Ahead
  <2>3. (~ honest') = (~ honest) /\ (pc' = "over") = (pc = "over")
    BY <1>1, <2>1
  <2>4. PS!Receive
    BY <1>1, <1>2, <2>2, <2>3 DEF PS!Receive
  <2> QED
    BY <2>4 DEF PS!Next
<1>5. CASE ParseRefused
  <2>1. state = "Login" /\ state' = state /\ pc' = "over"
    BY <1>5 DEF ParseRefused
  <2>2. (~ honest') = (~ honest)
    BY <1>1
  <2>3. PS!Refuse
    BY <1>1, <1>2, <2>1, <2>2 DEF PS!Refuse
  <2> QED
    BY <2>3 DEF PS!Next
<1> QED
  BY <1>4, <1>5

(* A malformed frame breaks the channel.                                       *)
LEMMA ErrorStreams ==
  ASSUME IInv, ParseError
  PROVE  PS!Next
<1>0. Len(sent) \in Nat /\ Len(received) \in Nat
  BY Types DEF IInv
<1>1. ~ honest /\ Len(sent) <= Len(received)
  BY ErrorStep
<1>2. /\ sent' = sent /\ honest' = honest /\ received' = received /\ state' = state
      /\ pc = "parse" /\ pc' = "over"
  BY DEF ParseError, client
<1>3. PS!Break
  BY <1>0, <1>1, <1>2 DEF PS!Break, PS!Outstanding
<1> QED
  BY <1>3 DEF PS!Next

(* Every step is one of the channel or does not concern it.                    *)
LEMMA NextStreams ==
  ASSUME IInv, [Next]_vars
  PROVE  [PS!Next]_(PS!svars)
<1>1. ASSUME NEW body \in Bodies, SendFrame(body) PROVE [PS!Next]_(PS!svars)
  <2>1. honest' = honest /\ pc' = pc /\ state' = state /\ received' = received
    BY <1>1 DEF SendFrame, task
  <2>2. CASE honest
    <3>1. sent' = Append(sent, body)
      BY <1>1, <2>2 DEF SendFrame
    <3>2. PS!Send(body)
      BY <2>1, <2>2, <3>1 DEF PS!Send
    <3> QED
      BY <3>2 DEF PS!Next
  <2>3. CASE ~ honest
    <3>1. sent' = sent
      BY <1>1, <2>3 DEF SendFrame
    <3> QED
      BY <2>1, <3>1 DEF PS!svars
  <2> QED
    BY <2>2, <2>3
<1>2. ASSUME NEW bytes \in Junk, SendJunk(bytes) PROVE [PS!Next]_(PS!svars)
  <2>1. /\ sent' = sent /\ pc' = pc /\ state' = state
        /\ received' = received /\ honest' = FALSE
    BY <1>2 DEF SendJunk, task
  <2>2. CASE honest
    <3>1. PS!Garble
      BY <2>1, <2>2 DEF PS!Garble
    <3> QED
      BY <3>1 DEF PS!Next
  <2>3. CASE ~ honest
    BY <2>1, <2>3 DEF PS!svars
  <2> QED
    BY <2>2, <2>3
<1>3. CASE Read \/ Keepalive \/ ParseNone \/ UNCHANGED vars
  <2>1. sent' = sent /\ honest' = honest /\ received' = received /\ state' = state
    BY <1>3 DEF Read, Keepalive, ParseNone, vars, client, task
  <2>2. pc' = "over" <=> pc = "over"
    BY <1>3 DEF Read, Keepalive, ParseNone, vars, task
  <2>3. (pc' = "over") = (pc = "over")
    BY <2>2
  <2>4. (~ honest') = (~ honest)
    BY <2>1
  <2> QED
    BY <2>1, <2>3, <2>4 DEF PS!svars
<1> QED
  BY <1>1, <1>2, <1>3, BodyStreams, ErrorStreams DEF Next, Parse

(* Refinement: sockets, buffer and codec together implement the safety of      *)
(* PacketStream, a reliable channel of packets.                                *)
THEOREM StreamsSafely == Safety => PS!Safety
<1>1. IInv /\ [Next]_vars => [PS!Next]_(PS!svars)
  BY NextStreams
<1> QED
  BY <1>1, InitStreams, SafetyIInv, PTL DEF Safety, PS!Safety
==============================================================================
