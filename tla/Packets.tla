------------------------------- MODULE Packets -------------------------------
(* The packet tables of the two protocol versions and the decoder that         *)
(* #[derive(PacketGroup)] generates from them: packet ids are reused across    *)
(* connection states, so an id means nothing without the state.                *)
EXTENDS Integers, Sequences, TLC

Versions == {"1.20.1", "1.21.1"}

States == {"Handshake", "Status", "Login", "Configuration", "Play"}

(* Names listed in the order of their ids, from 0.                             *)
FromZero(names) == [id \in 0 .. Len(names) - 1 |-> names[id + 1]]

NoIds == FromZero(<< >>)

(* What a client may send, state by state: packet id |-> packet.               *)
C2S_Play_1_20_1 == FromZero(<<
  "AcceptTeleportation", "QueryBlockNbt", "ChangeDifficulty", "ChatAck",
  "ChatCommand", "ChatMessage", "ChatSessionUpdate", "ClientCommand",
  "ClientInformation", "CommandSuggestion", "EnchantItem", "ContainerClick",
  "ContainerClose", "CustomPayload", "EditBook", "QueryEntityNbt",
  "Interact", "GenerateStructure", "KeepAlive", "LockDifficulty",
  "PlayerPos", "PlayerPosRot", "PlayerRot", "PlayerStatusOnly",
  "MoveVehicle", "PaddleBoat", "PickItem", "PlaceRecipe", "PlayerAbilities",
  "PlayerAction", "PlayerCommand", "PlayerInput", "Pong",
  "RecipeBookChangeSettings", "RecipeBookSeenRecipe", "RenameItem",
  "ResourcePack", "SeenAdvancements", "SelectTrade", "SetBeacon",
  "SetCarriedItem", "SetCommandBlock", "SetCommandMinecart",
  "SetCreativeModeSlot", "SetJigsawBlock", "SetStructureBlock", "SignUpdate",
  "Swing", "Spectate", "UseItemOn", "UseItem">>)

C2S_Play_1_21_1 ==
  0 :> "AcceptTeleportation" @@ 8 :> "ChunkBatchReceived" @@ 24 :> "KeepAlive"
    @@ 26 :> "PlayerPos" @@ 27 :> "PlayerPosRot" @@ 28 :> "PlayerRot"
    @@ 29 :> "PlayerFlying"

C2S_Login_1_20_1 == FromZero(<<"LoginStart", "EncryptionResponse", "LoginPluginResponse">>)

C2S_Login_1_21_1 == FromZero(
  <<"Hello", "Key", "CustomQueryAnswer", "LoginAcknowledged", "CookieResponse">>)

C2S_Configuration_1_21_1 == FromZero(
  <<"ClientInformation", "ConfigurationCookieResponse", "ConfigurationCustomPayload",
    "FinishConfigurationAck", "ConfigurationKeepAlive", "PongConfiguration",
    "ResourcePackResponse", "SelectKnownPacks">>)

C2S_Status == FromZero(<<"StatusRequest", "Ping">>)

C2S_1_20_1 == [
  Handshake     |-> FromZero(<<"Handshake">>),
  Status        |-> C2S_Status,
  Login         |-> C2S_Login_1_20_1,
  Configuration |-> NoIds,
  Play          |-> C2S_Play_1_20_1]

C2S_1_21_1 == [
  Handshake     |-> FromZero(<<"Handshake">>),
  Status        |-> C2S_Status,
  Login         |-> C2S_Login_1_21_1,
  Configuration |-> C2S_Configuration_1_21_1,
  Play          |-> C2S_Play_1_21_1]

(* What the server sends, state by state: packet |-> its id.                   *)
NoPackets == [name \in {} |-> 0]

S2C_Status == [
  StatusResponse   |-> 0,
  Pong             |-> 1]

S2C_Login == [
  Disconnect       |-> 0,
  LoginSuccess     |-> 2,
  SetCompression   |-> 3]

S2C_Configuration_1_21_1 == [
  CustomPayload           |-> 1,
  FinishConfiguration     |-> 3,
  RegistryData            |-> 7,
  FeatureFlags            |-> 12,
  UpdateTags              |-> 13,
  KnownPacks              |-> 14]

S2C_Play_1_20_1 == [
  GameEvent               |-> 31,
  KeepAlive               |-> 35,
  LevelChunkWithLight     |-> 36,
  Login                   |-> 40,
  PlayerAbilities         |-> 52,
  PlayerPosition          |-> 60,
  SetChunkCacheCenter     |-> 78,
  SetChunkCacheRadius     |-> 79,
  SetDefaultSpawnPosition |-> 80]

S2C_Play_1_21_1 == [
  ChunkBatchFinished      |-> 12,
  ChunkBatchStart         |-> 13,
  GameEvent               |-> 34,
  KeepAlive               |-> 38,
  LevelChunkWithLight     |-> 39,
  Login                   |-> 43,
  PlayerAbilities         |-> 56,
  PlayerPosition          |-> 64,
  SetChunkCacheCenter     |-> 84,
  SetChunkCacheRadius     |-> 85,
  SetDefaultSpawnPosition |-> 86]

S2C_1_20_1 == [
  Handshake     |-> NoPackets,
  Status        |-> S2C_Status,
  Login         |-> S2C_Login,
  Configuration |-> NoPackets,
  Play          |-> S2C_Play_1_20_1]

S2C_1_21_1 == [
  Handshake     |-> NoPackets,
  Status        |-> S2C_Status,
  Login         |-> S2C_Login,
  Configuration |-> S2C_Configuration_1_21_1,
  Play          |-> S2C_Play_1_21_1]

C2S(version) == IF version = "1.20.1" THEN C2S_1_20_1 ELSE C2S_1_21_1

ServerPackets(version) == IF version = "1.20.1" THEN S2C_1_20_1 ELSE S2C_1_21_1

(* A frame whose body ends inside its first VarInt, the packet id.             *)
NoId == -1

(* Packets without fields decode whatever follows; Ping is a plain i64, which  *)
(* can only be too short.                                                      *)
Fieldless == {"StatusRequest", "LoginAcknowledged", "FinishConfigurationAck"}
FixedSize == {"Ping"}

(* Fields the handlers look at, by what they tell apart in them.               *)
Fields(packet) ==
  CASE packet = "Handshake"             -> {"status", "login", "transfer", "other version"}
    [] packet \in {"LoginStart", "Hello"} -> {"valid name", "invalid name"}
    [] OTHER                            -> {"any"}

Failures(packet) ==
  IF packet \in Fieldless THEN {}
  ELSE IF packet \in FixedSize THEN {"truncated"} ELSE {"truncated", "malformed"}

(* DecodedC2S::decode: every outcome some body of a frame with this packet id  *)
(* has in this state.  "truncated" is an io::Error of kind UnexpectedEof,      *)
(* "malformed" any other error.                                                *)
Packet(name, field) == [name |-> name, field |-> field]

Failure(error) == [name |-> "none", field |-> error]

decode(version, state, id) ==
  LET table == C2S(version)[state] IN
  IF id = NoId THEN {Failure("truncated")}
  ELSE IF id \notin DOMAIN table THEN {Failure("malformed")}
  ELSE {Packet(table[id], field) : field \in Fields(table[id])}
         \union {Failure(error) : error \in Failures(table[id])}
==============================================================================
