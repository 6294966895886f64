--------------------------------- MODULE Wire ---------------------------------
(* The bodies of packets: what #[derive(Packet)], #[derive(Encode)] and        *)
(* #[derive(Decode)] generate from the fields of a packet, the Encode and      *)
(* Decode of every type a field has (crates/statik_core/src/impls.rs), and the *)
(* dispatch on the packet id of #[derive(PacketGroup)].  A peer writes a       *)
(* packet field by field; its body arrives as it was, cut, with bytes after    *)
(* it, or with a byte changed; the other peer reads it field by field.  A      *)
(* value is the sequence of its leaves, each a sequence of integers; a list or *)
(* an option is the leaf that says how many elements follow.                   *)
EXTENDS VarInt, SequencesExt, FiniteSetsExt, TLC

P == INSTANCE Packets

CONSTANTS
  Size,           \* bytes of the fixed-size types
  XSize,          \* values of the x and of the z of a BlockPos (2^26)
  YSize,          \* values of its y (2^12)
  Numbers,        \* VarInts that fields hold
  Texts,          \* strings that fields hold, as bytes
  Jsons,          \* texts serde_json writes and parses
  Blobs,          \* what a RawBytes holds
  MaxCount,       \* elements of a list
  MaxDepartures   \* leaves that are not the plain ones, plus damage to the body

FixedSizes == {"u8", "i16", "i32", "i64", "u128", "signature", "acknowledged"}

(* The values that n bytes hold, and that a packed BlockPos has.               *)
Values[n \in 0 .. Size["i64"]] == IF n = 0 THEN 1 ELSE 2 * Base * Values[n - 1]

PackedSize == XSize * YSize * XSize

ASSUME WireAssumption ==
  /\ Size \in [FixedSizes -> Nat \ {0}]
  /\ XSize \in Nat \ {0} /\ XSize % 2 = 0
  /\ YSize \in Nat \ {0} /\ YSize % 2 = 0
  /\ PackedSize = Values[Size["i64"]]
  /\ Numbers \subseteq Signed
  /\ Texts \subseteq Seq(0 .. 2 * Base - 2)
  /\ \A text \in Texts : Len(text) < Half      \* ensure! in Encode for String
  /\ Jsons \subseteq Texts \ {<< >>} /\ Jsons # {}
  /\ Blobs \subseteq Seq(Byte)
  /\ MaxCount \in Nat /\ MaxCount < Half
  /\ MaxDepartures \in Nat
------------------------------------------------------------------------------
(* Types of fields; `of` are the fields of an element, `n` a size or a bound.  *)
Type(kind, n, of) == [kind |-> kind, n |-> n, of |-> of]

Fixed(size) == Type("fixed", Size[size], << >>)
U8 == Fixed("u8")
I16 == Fixed("i16")
I32 == Fixed("i32")         \* and f32
I64 == Fixed("i64")         \* and f64
Uuid == Fixed("u128")
Signature == Fixed("signature")             \* [u8; 256]
Acknowledged == Fixed("acknowledged")       \* [u8; 3]
BlockPos == Type("position", Size["i64"], << >>)
Bool == Type("bool", 1, << >>)
Number == Type("number", 0, << >>)          \* VarInt
ClientIntent == Type("intent", 3, << >>)
Text == Type("text", 0, << >>)              \* String
Json == Type("json", 0, << >>)              \* Chat, StatusResponse
Vec(fields) == Type("vec", 0, fields)
Option(fields) == Type("option", 0, fields)
RawBytes == Type("raw", 0, << >>)

Times(n, fields) == [i \in 1 .. n * Len(fields) |-> fields[((i - 1) % Len(fields)) + 1]]

(* What client and server tell each other before Play.                         *)
Handshake == [Handshake |-> <<Number, Text, I16, ClientIntent>>]

Status == [
  StatusRequest |-> << >>,
  Ping          |-> <<I64>>]

C2SLogin == [
  LoginStart          |-> <<Text, Option(<<Uuid>>)>>,
  EncryptionResponse  |-> <<Vec(<<U8>>), Vec(<<U8>>)>>,
  LoginPluginResponse |-> <<Number, Option(<<RawBytes>>)>>,
  Hello               |-> <<Text, Uuid>>,
  Key                 |-> <<Vec(<<U8>>), Vec(<<U8>>)>>,
  CustomQueryAnswer   |-> <<Number, Option(<<RawBytes>>)>>,
  LoginAcknowledged   |-> << >>,
  CookieResponse      |-> <<Text, Option(<<RawBytes>>)>>]

KnownPack == Times(3, <<Text>>)

ClientInformation == <<Text, U8, Number, Bool, U8, Number, Bool, Bool>>

C2SConfiguration == [
  ConfigurationCookieResponse |-> <<Text, Option(<<RawBytes>>)>>,
  ConfigurationCustomPayload  |-> <<Text, RawBytes>>,
  FinishConfigurationAck      |-> << >>,
  ConfigurationKeepAlive      |-> <<I64>>,
  PongConfiguration           |-> <<I32>>,
  ResourcePackResponse        |-> <<Uuid, Number>>,
  SelectKnownPacks            |-> <<Vec(KnownPack)>>]
------------------------------------------------------------------------------
(* What a client sends in Play; the packets of 1.21.1 that 1.20.1 has too are  *)
(* the same there.                                                             *)
C2SPlaySession == [
  AcceptTeleportation |-> <<Number>>,
  QueryBlockNbt       |-> <<Number, BlockPos>>,
  ChangeDifficulty    |-> <<U8>>,
  ChatAck             |-> <<Number>>,
  ChatCommand         |-> <<Text, I64, I64, Vec(<<Text, Signature>>), Number, Acknowledged>>,
  ChatMessage         |-> <<Text, I64, I64, Option(<<Signature>>), Number, Acknowledged>>,
  ChatSessionUpdate   |-> <<Uuid, I64, Vec(<<U8>>), Vec(<<U8>>)>>,
  ClientCommand       |-> <<Number>>,
  ClientInformation   |-> ClientInformation]

C2SPlayWindows == [
  CommandSuggestion   |-> <<Number, Text>>,
  EnchantItem         |-> <<U8, U8>>,
  ContainerClick      |-> <<U8, Number, I16, U8, Number, RawBytes>>,
  ContainerClose      |-> <<U8>>,
  CustomPayload       |-> <<Text, RawBytes>>,
  EditBook            |-> <<Number, Vec(<<Text>>), Option(<<Text>>)>>,
  QueryEntityNbt      |-> <<Number, Number>>,
  Interact            |-> <<Number, Number, RawBytes>>,
  GenerateStructure   |-> <<BlockPos, Number, Bool>>,
  KeepAlive           |-> <<I64>>,
  LockDifficulty      |-> <<Bool>>]

C2SPlayMovement == [
  PlayerPos           |-> <<I64, I64, I64, Bool>>,
  PlayerPosRot        |-> <<I64, I64, I64, I32, I32, Bool>>,
  PlayerRot           |-> <<I32, I32, Bool>>,
  PlayerStatusOnly    |-> <<Bool>>,
  PlayerFlying        |-> <<Bool>>,
  ChunkBatchReceived  |-> <<I32>>,
  MoveVehicle         |-> <<I64, I64, I64, I32, I32>>,
  PaddleBoat          |-> <<Bool, Bool>>,
  PickItem            |-> <<Number>>,
  PlaceRecipe         |-> <<U8, Text, Bool>>,
  PlayerAbilities     |-> <<U8>>,
  PlayerAction        |-> <<Number, BlockPos, U8, Number>>,
  PlayerCommand       |-> <<Number, Number, Number>>,
  PlayerInput         |-> <<I32, I32, U8>>]

C2SPlayWorld == [
  Pong                     |-> <<I32>>,
  RecipeBookChangeSettings |-> <<Number, Bool, Bool>>,
  RecipeBookSeenRecipe     |-> <<Text>>,
  RenameItem               |-> <<Text>>,
  ResourcePack             |-> <<Number>>,
  SeenAdvancements         |-> <<Number, RawBytes>>,
  SelectTrade              |-> <<Number>>,
  SetBeacon                |-> <<Option(<<Number>>), Option(<<Number>>)>>,
  SetCarriedItem           |-> <<I16>>,
  SetCommandBlock          |-> <<BlockPos, Text, Number, U8>>,
  SetCommandMinecart       |-> <<Number, Text, Bool>>,
  SetCreativeModeSlot      |-> <<I16, RawBytes>>,
  SetJigsawBlock           |-> <<BlockPos>> \o Times(5, <<Text>>),
  SetStructureBlock        |-> <<BlockPos, Number, Number, Text>> \o Times(6, <<U8>>)
                                 \o <<Number, Number, Text, I32, Number, U8>>,
  SignUpdate               |-> <<BlockPos, Bool>> \o Times(4, <<Text>>),
  Swing                    |-> <<Number>>,
  Spectate                 |-> <<Uuid>>,
  UseItemOn                |-> <<Number, BlockPos, Number, I32, I32, I32, Bool, Number>>,
  UseItem                  |-> <<Number, Number>>]

C2SFields ==
  Handshake @@ Status @@ C2SLogin @@ C2SConfiguration
    @@ C2SPlaySession @@ C2SPlayWindows @@ C2SPlayMovement @@ C2SPlayWorld
------------------------------------------------------------------------------
(* What the server answers.                                                    *)
Property == <<Text, Text, Option(<<Text>>)>>

LoginSuccess == <<Uuid, Text, Vec(Property)>>

TagGroup == <<Text, Vec(<<Text, Vec(<<Number>>)>>)>>

DeathLocation == <<Text, BlockPos>>

SpawnInfo == <<Number, Text, I64, U8, U8, Bool, Bool, Option(DeathLocation), Number>>

Login_1_20_1 ==
  <<I32, Bool, Number, Number, Vec(<<Text>>), RawBytes, Text, Text, I64>>
    \o Times(3, <<Number>>) \o Times(4, <<Bool>>) \o <<Option(<<RawBytes>>), Number>>

Login_1_21_1 ==
  <<I32, Bool, Vec(<<Text>>)>> \o Times(3, <<Number>>) \o Times(3, <<Bool>>)
    \o SpawnInfo \o <<Bool>>

S2CBeforePlay == [
  StatusResponse      |-> <<Json>>,
  Pong                |-> <<I64>>,
  Disconnect          |-> <<Json>>,
  SetCompression      |-> <<Number>>,
  CustomPayload       |-> <<Text, RawBytes>>,
  FinishConfiguration |-> << >>,
  RegistryData        |-> <<Text, RawBytes>>,
  FeatureFlags        |-> <<Vec(<<Text>>)>>,
  UpdateTags          |-> <<Vec(TagGroup)>>,
  KnownPacks          |-> <<Vec(KnownPack)>>]

S2CPlay == [
  ChunkBatchFinished      |-> <<Number>>,
  ChunkBatchStart         |-> << >>,
  GameEvent               |-> <<U8, I32>>,
  KeepAlive               |-> <<I64>>,
  LevelChunkWithLight     |-> <<RawBytes>>,
  PlayerAbilities         |-> <<U8, I32, I32>>,
  PlayerPosition          |-> <<I64, I64, I64, I32, I32, U8, Number>>,
  SetChunkCacheCenter     |-> <<Number, Number>>,
  SetChunkCacheRadius     |-> <<Number>>,
  SetDefaultSpawnPosition |-> <<BlockPos, I32>>]

S2C_1_20_1 == S2CBeforePlay @@ S2CPlay @@ [LoginSuccess |-> LoginSuccess, Login |-> Login_1_20_1]

S2C_1_21_1 == S2CBeforePlay @@ S2CPlay
  @@ [LoginSuccess |-> Append(LoginSuccess, Bool), Login |-> Login_1_21_1]
------------------------------------------------------------------------------
(* The packets of a side in a state: id |-> name; the fields of one.           *)
Sides == {"C2S", "S2C"}

Table(version, side, at) ==
  IF side = "C2S" THEN P!C2S(version)[at] ELSE AntiFunction(P!ServerPackets(version)[at])

FieldsOf(version, side, name) ==
  IF side = "C2S" THEN C2SFields[name]
  ELSE IF version = "1.20.1" THEN S2C_1_20_1[name] ELSE S2C_1_21_1[name]

Ids == UNION {DOMAIN Table(index[1], index[2], index[3]) :
                index \in P!Versions \X Sides \X P!States}

Messages ==
  {m \in [version : P!Versions, side : Sides, state : P!States, id : Ids] :
     m.id \in DOMAIN Table(m.version, m.side, m.state)}

NameOf(m) == Table(m.version, m.side, m.state)[m.id]
FieldsOfMessage(m) == FieldsOf(m.version, m.side, NameOf(m))

(* All types, those of the elements of lists and options included.             *)
Inside(types) == types \union UNION {ToSet(type.of) : type \in types}
FieldTypes == Inside(Inside(Inside(UNION {ToSet(FieldsOfMessage(m)) : m \in Messages})))

(* RawBytes takes all that is left of a body: as a field, or in an option.     *)
TakesAll(type) == RawBytes \in {type} \union ToSet(type.of)

WellFormed(type) ==
  /\ type.kind \in {"fixed", "position", "bool", "option", "number", "intent", "vec", "text",
                    "json", "raw"}
  /\ type.of \in Seq(FieldTypes)
  /\ type.kind = "fixed" => type.n \in Nat \ {0}
  /\ type.kind = "intent" => type.n \in 1 .. Half - 1
  /\ type.kind = "raw" <=> type = RawBytes
  /\ RawBytes \in ToSet(type.of) => type = Option(<<RawBytes>>)
  /\ \A inner \in ToSet(type.of) : RawBytes \notin ToSet(inner.of)

(* What is needed of the tables, which are fixed but for the sizes: ids fit a  *)
(* VarInt, no RawBytes stands directly behind another, and the packets without *)
(* fields, and of a fixed size, are those that module Packets takes for such.  *)
ASSUME TablesAssumption ==
  /\ \A type \in FieldTypes : WellFormed(type)
  /\ \A m \in Messages :
       LET fields == FieldsOfMessage(m) IN
       /\ m.id \in 0 .. Half - 1 /\ NameOf(m) # "none"
       /\ fields \in Seq(FieldTypes)
       /\ \A i \in 1 .. Len(fields) - 1 : TakesAll(fields[i]) => fields[i + 1] # RawBytes
       /\ m.side = "C2S" /\ NameOf(m) \in P!Fieldless => fields = << >>
       /\ m.side = "C2S" /\ NameOf(m) \in P!FixedSize =>
            \A i \in 1 .. Len(fields) : fields[i].kind = "fixed"
------------------------------------------------------------------------------
(* BlockPos: three signed numbers in the 64 bits of an i64.  A shift by n bits *)
(* is by 2^n here.                                                             *)
ShiftLeft(value, by) == (value * by) % PackedSize
ShiftRight(value, by) ==    \* keeps the sign
  (IF value >= PackedSize \div 2 THEN value - PackedSize ELSE value) \div by

to_packed(position) ==
  ShiftLeft(position[1] % XSize, XSize * YSize)
    + ShiftLeft(position[3] % XSize, YSize) + (position[2] % YSize)

(* Variant: z is cut out without its sign.                                     *)
from_packed_unsigned(packed) ==
  <<ShiftRight(packed, XSize * YSize),
    ShiftRight(ShiftLeft(packed, XSize * XSize), XSize * XSize),
    (packed \div YSize) % XSize>>

from_packed(packed) ==
  <<ShiftRight(packed, XSize * YSize),
    ShiftRight(ShiftLeft(packed, XSize * XSize), XSize * XSize),
    ShiftRight(ShiftLeft(packed, XSize), XSize * YSize)>>

(* write_i64, read_i64: the high byte first.                                   *)
BigEndian(packed) ==
  [i \in 1 .. Size["i64"] |-> (packed \div Values[Size["i64"] - i]) % (2 * Base)]

FromBigEndian(bytes) ==
  LET number[n \in 0 .. Size["i64"]] == IF n = 0 THEN 0 ELSE 2 * Base * number[n - 1] + bytes[n]
  IN number[Size["i64"]]
------------------------------------------------------------------------------
(* Encode for the type of a field.                                             *)
Encoded(type, leaf) ==
  CASE type.kind = "position"               -> BigEndian(to_packed(leaf))
    [] type.kind \in {"number", "intent", "vec"} -> encode(leaf[1])
    [] type.kind \in {"text", "json"}       -> encode(Len(leaf)) \o leaf
    [] OTHER                                -> leaf

(* The fields that follow a leaf because of its value.                         *)
Follow(type, leaf) ==
  IF type.kind \in {"vec", "option"} THEN Times(leaf[1], type.of) ELSE << >>

(* Decode for the type of a field, at the head of `bytes`.                     *)
Read(result, leaf, used) == [result |-> result, leaf |-> leaf, used |-> used]
Got(leaf, used) == Read("ok", leaf, used)
Refused(why) == Read(why, << >>, 0)

ReadFixed(n, bytes) ==
  IF Len(bytes) < n THEN Refused("truncated") ELSE Got(SubSeq(bytes, 1, n), n)

ReadPosition(bytes) ==
  LET packed == ReadFixed(Size["i64"], bytes) IN
  IF packed.result = "ok" THEN [packed EXCEPT !.leaf = from_packed(FromBigEndian(@))] ELSE packed

ReadBool(bytes) ==
  LET byte == ReadFixed(1, bytes) IN
  IF byte.result = "ok" /\ byte.leaf[1] > 1 THEN Refused("malformed") ELSE byte

ReadNumber(bytes) ==
  LET number == decode(bytes) IN
  CASE number.result = "value" -> Got(<<number.value>>, number.used)
    [] number.result = "eof"   -> Refused("truncated")
    [] number.result = "error" -> Refused("malformed")

ReadIntent(n, bytes) ==
  LET number == ReadNumber(bytes) IN
  IF number.result = "ok" /\ number.leaf[1] \notin 1 .. n THEN Refused("malformed") ELSE number

ReadVec(bytes) ==
  LET length == ReadNumber(bytes) IN
  IF length.result = "ok" /\ length.leaf[1] < 0 THEN Refused("malformed") ELSE length

IsUtf8(text) == \A i \in 1 .. Len(text) : text[i] # 2 * Base - 1    \* 0xFF: in no text

(* Variant: the length is not checked; Vec::with_capacity panics.              *)
ReadTextUnchecked(bytes) ==
  LET length == ReadNumber(bytes)
      n == length.leaf[1]
  IN CASE length.result # "ok"           -> length
       [] length.result = "ok" /\ n < 0  -> Refused("panic")
       [] OTHER -> ReadFixed(n, SubSeq(bytes, length.used + 1, Len(bytes)))

(* Variant: the bytes that are there are looked at before they are counted.    *)
ReadTextEagerly(bytes) ==
  LET length == ReadNumber(bytes)
      n == length.leaf[1]
  IN IF length.result # "ok" THEN length
     ELSE IF n < 0 \/ n > Len(bytes) - length.used THEN Refused("malformed")
     ELSE Got(SubSeq(bytes, length.used + 1, length.used + n), length.used + n)

ReadText(bytes) ==
  LET length == ReadNumber(bytes)
      n == length.leaf[1]
      text == ReadFixed(n, SubSeq(bytes, length.used + 1, Len(bytes)))
  IN IF length.result # "ok" THEN length
     ELSE IF n < 0 THEN Refused("malformed")
     ELSE IF text.result = "ok" /\ ~IsUtf8(text.leaf) THEN Refused("malformed")
     ELSE [text EXCEPT !.used = @ + length.used]

ReadJson(bytes) ==
  LET text == ReadText(bytes) IN
  IF text.result = "ok" /\ text.leaf \notin Jsons THEN Refused("malformed") ELSE text

Decoding(type, bytes) ==
  CASE type.kind = "fixed"               -> ReadFixed(type.n, bytes)
    [] type.kind = "position"            -> ReadPosition(bytes)
    [] type.kind \in {"bool", "option"}  -> ReadBool(bytes)
    [] type.kind = "number"              -> ReadNumber(bytes)
    [] type.kind = "intent"              -> ReadIntent(type.n, bytes)
    [] type.kind = "vec"                 -> ReadVec(bytes)
    [] type.kind = "text"                -> ReadText(bytes)
    [] type.kind = "json"                -> ReadJson(bytes)
    [] type.kind = "raw"                 -> Got(bytes, Len(bytes))
------------------------------------------------------------------------------
(* What a field may hold, and the plain value among it.                        *)
Plain(type) ==
  CASE type.kind = "fixed"             -> [i \in 1 .. type.n |-> 0]
    [] type.kind = "position"          -> <<0, 0, 0>>
    [] type.kind \in {"text", "raw"}   -> << >>
    [] type.kind = "json"              -> CHOOSE text \in Jsons : TRUE
    [] type.kind = "intent"            -> <<1>>
    [] OTHER                           -> <<0>>

Corners(size) == {-(size \div 2), -1, size \div 2 - 1}

Leaves(type) ==
  {Plain(type)} \union
  CASE type.kind = "fixed"             -> {[i \in 1 .. type.n |-> (2 * Base - i) % (2 * Base)]}
    [] type.kind = "position"          -> Corners(XSize) \X Corners(YSize) \X Corners(XSize)
    [] type.kind \in {"bool", "option"} -> {<<1>>}
    [] type.kind = "number"            -> {<<number>> : number \in Numbers}
    [] type.kind = "intent"            -> {<<intent>> : intent \in 1 .. type.n}
    [] type.kind = "vec"               -> {<<count>> : count \in 0 .. MaxCount}
    [] type.kind = "text"              -> Texts
    [] type.kind = "json"              -> Jsons
    [] type.kind = "raw"               -> Blobs
------------------------------------------------------------------------------
VARIABLES
  message,        \* the packet that is written
  stage,          \* write, id (the reader's first step), read, done
  todo,           \* types of the fields still to write or read
  bytes,          \* the body: written so far; then not read yet
  sent,           \* leaves written
  damage,         \* what happened to the body: none, cut, more, changed
  departures,     \* leaves that are not plain, plus damage
  state,          \* the protocol state the reader is in
  name,           \* packet the id stands for in it
  got,            \* leaves read
  outcome         \* of decode_in_state: ok, or how it fails

writing == <<sent, departures>>
reading == <<name, got, outcome>>
vars == <<message, stage, todo, bytes, writing, damage, state, reading>>

Init ==
  /\ message \in Messages
  /\ stage = "write"
  /\ todo = FieldsOfMessage(message)
  /\ bytes = encode(message.id)
  /\ sent = << >> /\ departures = 0
  /\ damage = "none"
  /\ state = message.state
  /\ name = "none" /\ got = << >> /\ outcome = "none"

(* One field of the derived Encode.                                            *)
WriteField ==
  /\ stage = "write" /\ todo # << >>
  /\ \E leaf \in Leaves(Head(todo)) :
       /\ departures' = departures + (IF leaf = Plain(Head(todo)) THEN 0 ELSE 1)
       /\ departures' <= MaxDepartures
       /\ bytes' = bytes \o Encoded(Head(todo), leaf)
       /\ sent' = Append(sent, leaf)
       /\ todo' = Follow(Head(todo), leaf) \o Tail(todo)
  /\ UNCHANGED <<message, stage, damage, state, reading>>

(* The body reaches a reader in some state of the protocol.                    *)
Arrive(what, body, there) ==
  /\ stage = "write" /\ todo = << >>
  /\ damage' = what /\ bytes' = body /\ state' = there
  /\ stage' = "id"
  /\ UNCHANGED <<message, todo, sent, reading>>

Intact == Arrive("none", bytes, message.state) /\ UNCHANGED departures

Elsewhere ==
  \E there \in P!States \ {message.state} : Arrive("none", bytes, there) /\ UNCHANGED departures

Cut ==
  \E n \in 0 .. Len(bytes) - 1 :
    Arrive("cut", SubSeq(bytes, 1, n), message.state) /\ UNCHANGED departures

More == \E tail \in Blobs \ {<< >>} :
          Arrive("more", bytes \o tail, message.state) /\ UNCHANGED departures

Changed ==
  /\ departures < MaxDepartures /\ departures' = departures + 1
  /\ \E i \in 1 .. Len(bytes), byte \in {0, 1, Base - 1, Base, 2 * Base - 1} :
       Arrive("changed", [bytes EXCEPT ![i] = byte], message.state)

End(result) == stage' = "done" /\ outcome' = result

(* Variant: an id is looked up in every state.                                 *)
IdTableOfAnyState ==
  LET tables == {Table(message.version, message.side, s) : s \in P!States}
      ids == UNION {DOMAIN table : table \in tables}
  IN [id \in ids |-> (CHOOSE table \in tables : id \in DOMAIN table)[id]]

(* decode_in_state: the id picks the packet, in the state the reader is in.    *)
IdTable == Table(message.version, message.side, state)

ReadId ==
  LET id == ReadNumber(bytes)
      table == IdTable
  IN /\ stage = "id"
     /\ bytes' = SubSeq(bytes, id.used + 1, Len(bytes))
     /\ \/ /\ id.result = "ok" /\ id.leaf[1] \in DOMAIN table
           /\ name' = table[id.leaf[1]]
           /\ todo' = FieldsOf(message.version, message.side, table[id.leaf[1]])
           /\ stage' = "read" /\ UNCHANGED outcome
        \/ /\ id.result = "ok" /\ id.leaf[1] \notin DOMAIN table
           /\ End("malformed") /\ UNCHANGED <<name, todo>>
        \/ /\ id.result # "ok"
           /\ End(id.result) /\ UNCHANGED <<name, todo>>
     /\ UNCHANGED <<message, writing, damage, state, got>>

(* One field of the derived Decode; the first that fails ends it.              *)
ReadField ==
  LET field == Decoding(Head(todo), bytes) IN
  /\ stage = "read" /\ todo # << >>
  /\ bytes' = SubSeq(bytes, field.used + 1, Len(bytes))
  /\ \/ /\ field.result = "ok"
        /\ got' = Append(got, field.leaf)
        /\ todo' = Follow(Head(todo), field.leaf) \o Tail(todo)
        /\ UNCHANGED <<stage, outcome>>
     \/ /\ field.result # "ok"
        /\ End(field.result)
        /\ UNCHANGED <<got, todo>>
  /\ UNCHANGED <<message, writing, damage, state, name>>

ReadAll ==
  /\ stage = "read" /\ todo = << >>
  /\ End("ok")
  /\ UNCHANGED <<message, todo, bytes, writing, damage, state, name, got>>

Next ==
  \/ WriteField
  \/ Intact \/ Elsewhere \/ Cut \/ More \/ Changed
  \/ ReadId \/ ReadField \/ ReadAll

Spec == Init /\ [][Next]_vars
------------------------------------------------------------------------------
Done == stage = "done"

AtHome == state = message.state

(* The reader knows where each field ends: no RawBytes, which takes all that   *)
(* is left, before another field.  The Login packet of 1.20.1 is not like that.*)
Delimited ==
  LET fields == FieldsOfMessage(message) IN \A i \in 1 .. Len(fields) - 1 : ~TakesAll(fields[i])

(* All but the last leaf as they were sent.                                    *)
AllButLast == Len(got) = Len(sent) /\ sent # << >> /\ Front(got) = Front(sent)

(* Decoding takes a body apart into leaves or refuses it with an error: it     *)
(* never panics, whatever bytes it is given.                                   *)
TypeOK ==
  /\ stage \in {"write", "id", "read", "done"}
  /\ bytes \in Seq(Byte)
  /\ damage \in {"none", "cut", "more", "changed"}
  /\ departures \in 0 .. MaxDepartures
  /\ state \in P!States
  /\ \A i \in 1 .. Len(got) : \A j \in 1 .. Len(got[i]) : got[i][j] \in Int
  /\ outcome \in IF Done THEN {"ok", "truncated", "malformed"} ELSE {"none"}

(* The contract of Encode: what encode wrote, decode reads back as the same    *)
(* value from exactly the bytes written.  Bytes after them are left alone,     *)
(* unless the packet ends in RawBytes, which takes them.                       *)
RoundTrip ==
  Done /\ damage \in {"none", "more"} /\ AtHome /\ Delimited =>
    /\ outcome = "ok"
    /\ \/ got = sent /\ (damage = "none" => bytes = << >>)
       \/ /\ damage = "more" /\ bytes = << >>
          /\ AllButLast /\ IsStrictPrefix(Last(sent), Last(got))

(* A body that ends too soon is an UnexpectedEof, the error the connection     *)
(* task takes for a peer that left, and never a complaint about its content or *)
(* another value; only RawBytes at its end may lose bytes unnoticed.           *)
CutIsTruncated ==
  Done /\ damage = "cut" =>
    \/ outcome = "truncated"
    \/ outcome = "ok" /\ AllButLast /\ IsStrictPrefix(Last(got), Last(sent))

(* Whatever arrives in whatever state, the decoder ends in one of the outcomes *)
(* that module Session takes for possible: a packet of that state, or a        *)
(* failure that this packet can meet.                                          *)
AsSessionAssumes ==
  Done /\ message.side = "C2S" =>
    IF name = "none" THEN outcome \in {"truncated", "malformed"}
    ELSE /\ \E id \in DOMAIN P!C2S(message.version)[state] :
              name = P!C2S(message.version)[state][id]
         /\ outcome \in {"ok"} \union P!Failures(name)
==============================================================================
