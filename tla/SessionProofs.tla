--------------------------- MODULE SessionProofs ---------------------------
(* Theorems about Session for any number of registries, frames and packet ids: *)
(* they hold whatever a client sends.                                          *)
EXTENDS Session, TLAPS, SequenceTheorems

(* Packets the server writes in a state of this connection.                    *)
Here(there) == DOMAIN ServerPackets(protocol)[there]

(* A write announces compression exactly when it switches it on.               *)
Announces(write) == write.packet = "SetCompression" <=> write.next = "compress"

AnyWrite ==
  {write \in [packet : ServerPacketNames, next : {"none", "compress", "Play"}] : Announces(write)}

(* Writes of a state's packets that leave the connection in that state.        *)
Staying(there) == {write \in AnyWrite : write.packet \in Here(there) /\ write.next # "Play"}

LEMMA LoginPackets ==
  ASSUME protocol \in Versions
  PROVE  {"Disconnect", "LoginSuccess", "SetCompression"} \subseteq Here("Login")
BY DEF Here, ServerPackets, S2C_1_20_1, S2C_1_21_1, S2C_Login, Versions

LEMMA StatusPackets ==
  ASSUME protocol \in Versions
  PROVE  {"StatusResponse", "Pong"} \subseteq Here("Status")
BY DEF Here, ServerPackets, S2C_1_20_1, S2C_1_21_1, S2C_Status, Versions

BurstNames ==
  {"Login", "SetChunkCacheCenter", "SetChunkCacheRadius", "LevelChunkWithLight",
   "SetDefaultSpawnPosition", "PlayerPosition", "PlayerAbilities", "GameEvent"}

LEMMA PlayPackets ==
  ASSUME protocol \in Versions
  PROVE  BurstNames \union {"KeepAlive"} \subseteq Here("Play")
BY DEF Here, ServerPackets, S2C_1_20_1, S2C_1_21_1, S2C_Play_1_20_1, S2C_Play_1_21_1,
       Versions, BurstNames

LEMMA BatchPackets ==
  ASSUME protocol = "1.21.1"
  PROVE  {"ChunkBatchStart", "ChunkBatchFinished"} \subseteq Here("Play")
BY DEF Here, ServerPackets, S2C_1_21_1, S2C_Play_1_21_1

ConfigurationNames ==
  {"CustomPayload", "FeatureFlags", "RegistryData", "UpdateTags", "KnownPacks",
   "FinishConfiguration"}

LEMMA ConfigurationPackets ==
  ASSUME protocol = "1.21.1"
  PROVE  ConfigurationNames \subseteq Here("Configuration")
BY DEF Here, ServerPackets, S2C_1_21_1, S2C_Configuration_1_21_1, ConfigurationNames

LEMMA WritesStay ==
  ASSUME NEW there, NEW names \in Seq(Here(there) \ {"SetCompression"}),
         Here(there) \subseteq ServerPacketNames
  PROVE  Writes(names) \in Seq(Staying(there))
BY DEF Writes, Write, Staying, AnyWrite, Announces

LEMMA PacketsAreNamed ==
  ASSUME protocol \in Versions, NEW there \in States
  PROVE  Here(there) \subseteq ServerPacketNames
BY DEF Here, ServerPacketNames

LEMMA TailLeft ==
  ASSUME NEW A, NEW s \in Seq(A), s # << >>, Len(s) # 1
  PROVE  Tail(s) # << >>
<1>1. Len(Tail(s)) # 0
  OBVIOUS
<1>2. Len(<< >>) = 0
  OBVIOUS
<1>3. QED
  BY ONLY <1>1, <1>2, Zenon

LEMMA Narrower ==
  ASSUME NEW A, NEW S, NEW t \in Seq(A), \A i \in 1 .. Len(t) : t[i] \in S
  PROVE  t \in Seq(S)
OBVIOUS

LEMMA Wider ==
  ASSUME NEW A, NEW B, A \subseteq B, NEW s \in Seq(A)
  PROVE  s \in Seq(B)
OBVIOUS

(* A list of writes that fits a state: each packet belongs to the state the    *)
(* writes before it lead to.  Only a login in 1.20.1 leads anywhere, to Play.  *)
Stays(there, writes) == writes \in Seq(Staying(there))

EntersPlay(there, writes) ==
  /\ there = "Login" /\ protocol = "1.20.1"
  /\ writes \in Seq(AnyWrite)
  /\ \E k \in 1 .. Len(writes) :
       /\ writes[k].packet \in Here("Login") /\ writes[k].next = "Play"
       /\ \A i \in 1 .. k - 1 : writes[i] \in Staying("Login")
       /\ \A i \in k + 1 .. Len(writes) : writes[i] \in Staying("Play")

Fits(there, writes) == Stays(there, writes) \/ EntersPlay(there, writes)

LEMMA TailStays ==
  ASSUME NEW there, NEW writes, Stays(there, writes), writes # << >>
  PROVE  Head(writes) \in Staying(there) /\ Stays(there, Tail(writes))
BY DEF Stays

LEMMA TailEntersPlay ==
  ASSUME NEW there, NEW writes, EntersPlay(there, writes)
  PROVE  /\ Head(writes) \in AnyWrite /\ Head(writes).packet \in Here("Login")
         /\ IF Head(writes).next = "Play" THEN Stays("Play", Tail(writes))
            ELSE EntersPlay("Login", Tail(writes))
<1>1. writes \in Seq(AnyWrite) /\ writes # << >> /\ Tail(writes) \in Seq(AnyWrite)
  BY DEF EntersPlay
<1>2. Head(writes) = writes[1] /\ Len(Tail(writes)) = Len(writes) - 1
  BY <1>1
<1>3. \A i \in 1 .. Len(writes) - 1 : Tail(writes)[i] = writes[i + 1]
  BY <1>1
<1>4. PICK k \in 1 .. Len(writes) :
       /\ writes[k].packet \in Here("Login") /\ writes[k].next = "Play"
       /\ \A i \in 1 .. k - 1 : writes[i] \in Staying("Login")
       /\ \A i \in k + 1 .. Len(writes) : writes[i] \in Staying("Play")
  BY DEF EntersPlay
<1>5. CASE k = 1
  <2>1. \A i \in 1 .. Len(Tail(writes)) : Tail(writes)[i] \in Staying("Play")
    BY <1>1, <1>2, <1>3, <1>4, <1>5
  <2>2. Tail(writes) \in Seq(Staying("Play"))
    BY <1>1, <2>1, Narrower
  <2>3. QED
    BY <1>1, <1>2, <1>4, <1>5, <2>2 DEF Stays
<1>6. CASE k # 1
  <2>1. Head(writes) \in Staying("Login")
    BY <1>2, <1>4, <1>6
  <2>2. /\ k - 1 \in 1 .. Len(Tail(writes))
        /\ Tail(writes)[k - 1].packet \in Here("Login") /\ Tail(writes)[k - 1].next = "Play"
        /\ \A i \in 1 .. (k - 1) - 1 : Tail(writes)[i] \in Staying("Login")
        /\ \A i \in (k - 1) + 1 .. Len(Tail(writes)) : Tail(writes)[i] \in Staying("Play")
    BY <1>1, <1>2, <1>3, <1>4, <1>6
  <2>3. EntersPlay("Login", Tail(writes))
    BY <1>1, <2>2 DEF EntersPlay
  <2>4. QED
    BY <2>1, <2>3 DEF Staying
<1>7. QED
  BY <1>5, <1>6

(* The lists the handlers make.                                                *)
LEMMA OldBurstStays ==
  ASSUME protocol \in Versions
  PROVE  Stays("Play", PlayBurst_1_20_1)
<1> DEFINE names == <<"Login", "SetChunkCacheCenter", "SetChunkCacheRadius",
                      "LevelChunkWithLight", "SetDefaultSpawnPosition", "PlayerPosition",
                      "PlayerAbilities", "GameEvent">>
<1>1. names \in Seq(Here("Play") \ {"SetCompression"})
  BY PlayPackets DEF BurstNames
<1>2. Writes(names) \in Seq(Staying("Play"))
  BY <1>1, WritesStay, PacketsAreNamed DEF States
<1>3. QED
  BY <1>2 DEF Stays, PlayBurst_1_20_1

LEMMA NewBurstStays ==
  ASSUME protocol = "1.21.1"
  PROVE  Stays("Play", PlayBurst_1_21_1)
<1> DEFINE names == <<"Login", "SetChunkCacheCenter", "SetChunkCacheRadius",
                      "ChunkBatchStart", "LevelChunkWithLight", "ChunkBatchFinished",
                      "SetDefaultSpawnPosition", "PlayerPosition", "PlayerAbilities",
                      "GameEvent">>
<1>1. protocol \in Versions
  BY DEF Versions
<1>2. names \in Seq(Here("Play") \ {"SetCompression"})
  BY <1>1, PlayPackets, BatchPackets DEF BurstNames
<1>3. Writes(names) \in Seq(Staying("Play"))
  BY <1>1, <1>2, WritesStay, PacketsAreNamed DEF States
<1>4. QED
  BY <1>3 DEF Stays, PlayBurst_1_21_1

LEMMA ConfigurationBurstStays ==
  ASSUME protocol = "1.21.1"
  PROVE  Stays("Configuration", ConfigurationBurst)
<1> DEFINE streamed == [i \in 1 .. Registries |-> "RegistryData"]
           names == <<"CustomPayload", "FeatureFlags">> \o streamed
                      \o <<"UpdateTags", "KnownPacks", "FinishConfiguration">>
           some == Here("Configuration") \ {"SetCompression"}
<1>1. protocol \in Versions
  BY DEF Versions
<1>2. ConfigurationNames \subseteq some
  BY ConfigurationPackets DEF ConfigurationNames
<1>3. /\ <<"CustomPayload", "FeatureFlags">> \in Seq(some)
      /\ <<"UpdateTags", "KnownPacks", "FinishConfiguration">> \in Seq(some)
  BY <1>2 DEF ConfigurationNames
<1>4. streamed \in Seq(some)
  BY <1>2, SessionAssumption DEF ConfigurationNames
<1> HIDE DEF streamed
<1>5. names \in Seq(some)
  BY <1>3, <1>4
<1> HIDE DEF names
<1>6. Writes(names) \in Seq(Staying("Configuration"))
  BY <1>1, <1>5, WritesStay, PacketsAreNamed DEF States
<1>7. QED
  BY <1>6 DEF Stays, ConfigurationBurst, names, streamed

LEMMA AcceptStays ==
  ASSUME protocol \in Versions
  PROVE  Stays("Login", AcceptLogin("none"))
<1>1. {"LoginSuccess", "SetCompression"} \subseteq Here("Login") \cap ServerPacketNames
  BY LoginPackets, PacketsAreNamed DEF States
<1>2. /\ WriteThen("SetCompression", "compress") \in Staying("Login")
      /\ WriteThen("LoginSuccess", "none") \in Staying("Login")
  BY <1>1 DEF WriteThen, Staying, AnyWrite, Announces
<1>3. QED
  BY <1>2 DEF Stays, AcceptLogin

LEMMA AcceptEntersPlay ==
  ASSUME protocol = "1.20.1"
  PROVE  EntersPlay("Login", AcceptLogin("Play") \o PlayBurst_1_20_1)
<1> DEFINE accept == AcceptLogin("Play")
           last == WriteThen("LoginSuccess", "Play")
           writes == accept \o PlayBurst_1_20_1
<1>1. PlayBurst_1_20_1 \in Seq(Staying("Play"))
  BY OldBurstStays DEF Stays, Versions
<1>2. {"LoginSuccess", "SetCompression"} \subseteq Here("Login") \cap ServerPacketNames
  BY LoginPackets, PacketsAreNamed DEF States, Versions
<1>3. /\ WriteThen("SetCompression", "compress") \in Staying("Login")
      /\ last \in AnyWrite /\ last.packet \in Here("Login") /\ last.next = "Play"
  BY <1>2 DEF WriteThen, Staying, AnyWrite, Announces
<1>4. /\ accept \in Seq(AnyWrite) /\ Len(accept) \in 1 .. 2
      /\ accept[Len(accept)] = last
      /\ \A i \in 1 .. Len(accept) - 1 : accept[i] \in Staying("Login")
  BY <1>3 DEF AcceptLogin, Staying
<1> HIDE DEF accept, last
<1>5. PlayBurst_1_20_1 \in Seq(AnyWrite)
  BY <1>1 DEF Staying
<1>6. /\ writes \in Seq(AnyWrite)
      /\ Len(writes) = Len(accept) + Len(PlayBurst_1_20_1)
      /\ \A i \in 1 .. Len(accept) : writes[i] = accept[i]
      /\ \A i \in Len(accept) + 1 .. Len(writes) :
           writes[i] = PlayBurst_1_20_1[i - Len(accept)]
  BY <1>4, <1>5
<1> HIDE DEF writes
<1>7. Len(accept) \in 1 .. Len(writes)
  <2>1. Len(PlayBurst_1_20_1) \in Nat
    BY <1>5
  <2>2. Len(accept) \in 1 .. 2 /\ Len(writes) = Len(accept) + Len(PlayBurst_1_20_1)
    BY <1>4, <1>6
  <2>3. QED
    BY ONLY <2>1, <2>2
<1>8. ASSUME NEW i \in Len(accept) + 1 .. Len(writes)
      PROVE  writes[i] \in Staying("Play")
  <2>1. i - Len(accept) \in 1 .. Len(PlayBurst_1_20_1)
    BY <1>4, <1>5, <1>6
  <2>2. PlayBurst_1_20_1[i - Len(accept)] \in Staying("Play")
    BY <1>1, <2>1
  <2>3. QED
    BY <1>6, <2>2
<1>9. EntersPlay("Login", writes)
  BY <1>3, <1>4, <1>6, <1>7, <1>8 DEF EntersPlay
<1>10. QED
  BY <1>9 DEF writes, accept

(* What the handlers rely on in what is decoded: a field they distinguish, and *)
(* a packet of their version.                                                  *)
LEMMA DecodesFields ==
  ASSUME NEW there, NEW id, NEW got \in decode(protocol, there, id), got.name # "none"
  PROVE  got.field \in Fields(got.name)
BY DEF decode, Packet, Failure

LEMMA DecodesVersion ==
  ASSUME NEW id, NEW got \in decode(protocol, "Login", id), got.name # "none",
         protocol \in Versions
  PROVE  IF protocol = "1.20.1"
         THEN got.name \in {"LoginStart", "EncryptionResponse", "LoginPluginResponse"}
         ELSE got.name # "LoginStart"
<1> DEFINE table == C2S(protocol)["Login"]
<1>1. id \in DOMAIN table /\ got.name = table[id]
  BY DEF decode, Packet, Failure
<1>2. CASE protocol = "1.20.1"
  BY <1>1, <1>2 DEF C2S, C2S_1_20_1, C2S_Login_1_20_1, FromZero
<1>3. CASE protocol = "1.21.1"
  BY <1>1, <1>3 DEF C2S, C2S_1_21_1, C2S_Login_1_21_1, FromZero
<1>4. QED
  BY <1>2, <1>3 DEF Versions

(* Every handler leaves the connection in a state it may enter, with writes    *)
(* that fit it.                                                                *)
Proper(handling) ==
  /\ handling.enters \in States
  /\ handling.enters = state \/ <<state, handling.enters>> \in Edges
  /\ Fits(handling.enters, handling.writes)

LEMMA NothingFits ==
  ASSUME NEW there
  PROVE  Fits(there, << >>)
BY DEF Fits, Stays

LEMMA OneFits ==
  ASSUME protocol \in Versions, NEW there \in States, NEW packet \in Here(there),
         packet # "SetCompression"
  PROVE  Fits(there, <<Write(packet)>>)
<1>1. Write(packet) \in Staying(there)
  BY PacketsAreNamed DEF Write, Staying, AnyWrite, Announces
<1>2. QED
  BY <1>1 DEF Fits, Stays

LEMMA HandlersProper ==
  ASSUME protocol \in Versions, state \in States,
         protocol = "1.20.1" => state # "Configuration",
         NEW id, NEW got \in decode(protocol, state, id), got.name # "none",
         ~dispatch_packet(got).fails
  PROVE  Proper(dispatch_packet(got))
<1> USE DEF Do, Fail, Proper, Edges
<1>1. CASE state = "Handshake"
  <2>1. got.name = "Handshake"
    BY <1>1 DEF dispatch_packet, handle_handshake
  <2>2. got.field \in {"status", "login", "transfer", "other version"}
    BY <2>1, DecodesFields DEF Fields
  <2>3. dispatch_packet(got) \in {Do("Status", << >>), Do("Login", << >>)}
    BY <1>1, <2>1, <2>2 DEF dispatch_packet, handle_handshake
  <2>4. QED
    BY <1>1, <2>3, NothingFits DEF States
<1>2. CASE state = "Status"
  <2>1. dispatch_packet(got) \in {Do("Status", <<Write("StatusResponse")>>),
                                  Do("Status", <<Write("Pong")>>)}
    BY <1>2 DEF dispatch_packet, handle_status
  <2>2. QED
    BY <1>2, <2>1, StatusPackets, OneFits DEF States
<1>3. CASE state = "Login"
  <2>1. dispatch_packet(got) = handle_login(got)
    BY <1>3 DEF dispatch_packet
  <2>2. CASE got.name \in {"LoginStart", "Hello"} /\ got.field = "invalid name"
    <3>1. dispatch_packet(got) = Do("Login", <<Write("Disconnect")>>)
      BY <2>1, <2>2 DEF handle_login
    <3>2. QED
      BY <1>3, <3>1, LoginPackets, OneFits DEF States
  <2>3. CASE got.name = "LoginStart" /\ got.field = "valid name"
    <3>1. dispatch_packet(got) = Do("Login", AcceptLogin("Play") \o PlayBurst_1_20_1)
      BY <2>1, <2>3 DEF handle_login
    <3>2. protocol = "1.20.1"
      BY <1>3, <2>3, DecodesVersion
    <3>3. QED
      BY <1>3, <3>1, <3>2, AcceptEntersPlay DEF States, Fits
  <2>4. CASE got.name = "Hello" /\ got.field = "valid name"
    <3>1. dispatch_packet(got) = Do("Login", AcceptLogin("none"))
      BY <2>1, <2>4 DEF handle_login
    <3>2. QED
      BY <1>3, <3>1, AcceptStays DEF States, Fits
  <2>5. CASE got.name = "LoginAcknowledged"
    <3>1. dispatch_packet(got) = Do("Configuration", ConfigurationBurst)
      BY <2>1, <2>5 DEF handle_login
    <3>2. protocol = "1.21.1"
      BY <1>3, <2>5, DecodesVersion DEF Versions
    <3>3. QED
      BY <1>3, <3>1, <3>2, ConfigurationBurstStays DEF States, Fits
  <2>6. CASE got.name = "LoginStart" \/ got.name = "Hello"
    <3>1. got.field \in {"valid name", "invalid name"}
      BY <2>6, DecodesFields DEF Fields
    <3>2. QED
      BY <2>2, <2>3, <2>4, <2>6, <3>1
  <2>7. CASE got.name \notin {"LoginStart", "Hello", "LoginAcknowledged"}
    <3>1. dispatch_packet(got) = Fail
      BY ONLY <2>1, <2>7 DEF handle_login
    <3>2. Fail.fails
      BY DEF Fail
    <3>3. QED
      BY ONLY <3>1, <3>2, ~dispatch_packet(got).fails
  <2>8. QED
    BY <2>5, <2>6, <2>7
<1>4. CASE state = "Configuration"
  <2>1. protocol = "1.21.1"
    BY <1>4 DEF Versions
  <2>2. dispatch_packet(got) \in {Do("Play", PlayBurst_1_21_1), Do("Configuration", << >>)}
    BY <1>4 DEF dispatch_packet, handle_configuration
  <2>3. QED
    BY <1>4, <2>1, <2>2, NewBurstStays, NothingFits DEF States, Fits
<1>5. CASE state = "Play"
  <2>1. dispatch_packet(got) = Do("Play", << >>)
    BY <1>5 DEF dispatch_packet, handle_play
  <2>2. QED
    BY <1>5, <2>1, NothingFits DEF States
<1>6. QED
  BY <1>1, <1>2, <1>3, <1>4, <1>5 DEF States
------------------------------------------------------------------------------
(* The state machine's invariant: a task that writes has something to write,   *)
(* and what it has still to write fits the state it is in.                     *)
Machine ==
  /\ protocol \in Versions /\ state \in States
  /\ protocol = "1.20.1" => state # "Configuration"
  /\ pc \in {"parse", "write", "wait", "over"}
  /\ pc = "write" => script # << >>
  /\ Fits(state, script)

LEMMA NextWrite ==
  ASSUME Machine, pc = "write"
  PROVE  /\ Head(script) \in AnyWrite /\ Head(script).packet \in Here(state)
         /\ LET next == IF Head(script).next = "Play" THEN "Play" ELSE state
            IN /\ next \in States /\ Fits(next, Tail(script))
               /\ next = state \/ <<state, next>> \in Edges
               /\ protocol = "1.20.1" => next # "Configuration"
<1>1. CASE Stays(state, script)
  <2>1. Head(script) \in Staying(state) /\ Stays(state, Tail(script))
    BY <1>1, TailStays DEF Machine
  <2>2. QED
    BY <2>1 DEF Staying, Fits, Machine
<1>2. CASE EntersPlay(state, script)
  <2>1. state = "Login" /\ protocol = "1.20.1"
    BY <1>2 DEF EntersPlay
  <2>2. /\ Head(script) \in AnyWrite /\ Head(script).packet \in Here("Login")
        /\ IF Head(script).next = "Play" THEN Stays("Play", Tail(script))
           ELSE EntersPlay("Login", Tail(script))
    BY <1>2, TailEntersPlay
  <2>3. QED
    BY <2>1, <2>2 DEF Fits, States, Edges
<1>3. QED
  BY <1>1, <1>2 DEF Machine, Fits

LEMMA NextMachine ==
  ASSUME Machine, [Next]_vars
  PROVE  Machine' /\ (state' = state \/ <<state, state'>> \in Edges)
<1> USE DEF vars, config, client, output
<1>1. CASE /\ UNCHANGED <<protocol, state, script>>
           /\ pc' \in {"parse", "wait", "over"} \/ pc' = pc
  BY <1>1 DEF Machine, Fits, Stays, EntersPlay, Staying, Here
<1>2. CASE ParsePacket
  <2>1. PICK got \in decode(protocol, state, Head(buffer)) :
          /\ got.name # "none"
          /\ LET handling == dispatch_packet(got) IN
             IF handling.fails THEN End("error")
             ELSE /\ state' = handling.enters
                  /\ script' = handling.writes
                  /\ pc' = IF handling.writes = << >> THEN "parse" ELSE "write"
                  /\ UNCHANGED <<config, compressed, torn, sent, due, outcome, client>>
    BY <1>2 DEF ParsePacket, TakesFrame
  <2>2. CASE dispatch_packet(got).fails
    BY <1>1, <2>1, <2>2 DEF End
  <2>3. CASE ~dispatch_packet(got).fails
    <3>1. /\ state' = dispatch_packet(got).enters /\ script' = dispatch_packet(got).writes
          /\ pc' = IF script' = << >> THEN "parse" ELSE "write"
          /\ protocol' = protocol
      BY <2>1, <2>3
    <3>2. Proper(dispatch_packet(got))
      BY <2>1, <2>3, HandlersProper DEF Machine
    <3>3. Fits(state', script')
      BY <3>1, <3>2 DEF Proper
    <3>4. state' \in States /\ (state' = state \/ <<state, state'>> \in Edges)
      BY <3>1, <3>2 DEF Proper
    <3>5. protocol = "1.20.1" => state' # "Configuration"
      BY <3>4 DEF Machine, Edges
    <3>6. Fits(state, script)'
      BY <3>1, <3>3 DEF Fits, Stays, EntersPlay, Staying, Here
    <3>7. QED
      BY <3>1, <3>4, <3>5, <3>6 DEF Machine
  <2>4. QED
    BY <2>2, <2>3
<1>3. CASE WriteDone
  <2>1. /\ pc = "write" /\ script' = Tail(script) /\ protocol' = protocol
        /\ state' = IF Head(script).next = "Play" THEN "Play" ELSE state
        /\ pc' = IF Len(script) = 1 THEN "parse" ELSE "write"
    BY <1>3 DEF WriteDone
  <2>2. /\ state' \in States /\ Fits(state', script')
        /\ state' = state \/ <<state, state'>> \in Edges
        /\ protocol = "1.20.1" => state' # "Configuration"
    BY <2>1, NextWrite
  <2>3. script \in Seq(AnyWrite) /\ script # << >>
    BY <2>1 DEF Machine, Fits, Stays, EntersPlay, Staying
  <2>4. pc' = "write" => script' # << >>
    <3>1. Len(script) # 1 => Tail(script) # << >>
      BY <2>3, TailLeft
    <3>2. QED
      BY ONLY <2>1, <3>1
  <2>5. Fits(state, script)'
    BY <2>1, <2>2 DEF Fits, Stays, EntersPlay, Staying, Here
  <2>6. QED
    BY <2>1, <2>2, <2>4, <2>5 DEF Machine
<1>4. CASE Keepalive
  <2>1. /\ state = "Play" /\ UNCHANGED <<protocol, state>>
        /\ script' = <<Write("KeepAlive")>> /\ pc' = "write"
    BY <1>4 DEF Keepalive, TickReady
  <2>2. Fits(state, script')
    BY <2>1, PlayPackets, OneFits DEF Machine, States
  <2>3. Fits(state, script)'
    BY <2>1, <2>2 DEF Fits, Stays, EntersPlay, Staying, Here
  <2>4. QED
    BY <2>1, <2>3 DEF Machine
<1>5. CASE ParseNothing \/ ParseStub \/ ParseBroken \/ ParseFailure
  BY <1>1, <1>5 DEF ParseNothing, ParseStub, ParseBroken, ParseFailure, TakesFrame, End, EndWith
<1>6. CASE Read \/ ReadEof \/ StreamFails \/ Shutdown
  BY <1>1, <1>6 DEF Read, ReadEof, StreamFails, Shutdown, End, EndWith
<1>7. CASE WriteSome \/ IntervalPasses \/ Hangup \/ UNCHANGED vars
  BY <1>1, <1>7 DEF WriteSome, IntervalPasses, Hangup
<1>8. ASSUME NEW id \in FrameIds, SendFrame(id)
      PROVE  Machine' /\ (state' = state \/ <<state, state'>> \in Edges)
  BY <1>1, <1>8 DEF SendFrame
<1>9. QED
  BY <1>2, <1>3, <1>4, <1>5, <1>6, <1>7, <1>8 DEF Next, Server, Parse
------------------------------------------------------------------------------
LEMMA InitMachine ==
  ASSUME Init
  PROVE  Machine
<1>1. Fits(state, script)
  BY NothingFits DEF Init
<1>2. QED
  BY <1>1 DEF Init, Machine, States

LEMMA AlwaysMachine == Safety => []Machine
<1>1. Init => Machine
  BY InitMachine
<1>2. Machine /\ [Next]_vars => Machine'
  BY NextMachine
<1>3. QED
  BY <1>1, <1>2, PTL DEF Safety

(* The state moves forward along Edges, whatever a client sends.               *)
THEOREM MovesForward == Safety => StateMovesForward
<1>1. Machine /\ [Next]_vars => [state' # state => <<state, state'>> \in Edges]_vars
  BY NextMachine
<1>2. QED
  BY <1>1, AlwaysMachine, PTL DEF Safety, StateMovesForward

(* Every packet is written in the connection state it belongs to.              *)
THEOREM WritesInState == Safety => []WrittenInItsState
<1>1. Machine => WrittenInItsState
  BY NextWrite DEF WrittenInItsState, Here
<1>2. QED
  BY <1>1, AlwaysMachine, PTL
------------------------------------------------------------------------------
(* The formats' invariant: compression is on exactly once it was announced.    *)
Frame == [packet : ServerPacketNames, compressed : BOOLEAN]

Announced(stream) == \E i \in 1 .. Len(stream) : stream[i].packet = "SetCompression"

InFormat(stream) ==
  \A i \in 1 .. Len(stream) :
    stream[i].compressed <=>
      \E j \in 1 .. i - 1 : stream[j].packet = "SetCompression"

Formats ==
  /\ compressed \in BOOLEAN
  /\ sent \in Seq(Frame)
  /\ compressed <=> Announced(sent)
  /\ InFormat(sent)

LEMMA OneFrameMore ==
  ASSUME NEW before \in Seq(Frame), NEW frame \in Frame, InFormat(before),
         frame.compressed <=> Announced(before)
  PROVE  /\ Append(before, frame) \in Seq(Frame) /\ InFormat(Append(before, frame))
         /\ Announced(Append(before, frame)) <=>
              Announced(before) \/ frame.packet = "SetCompression"
<1> DEFINE after == Append(before, frame)
<1>1. /\ after \in Seq(Frame) /\ Len(after) = Len(before) + 1 /\ Len(before) \in Nat
      /\ \A i \in 1 .. Len(before) : after[i] = before[i]
      /\ after[Len(before) + 1] = frame
  OBVIOUS
<1> HIDE DEF after
<1>2. ASSUME NEW i \in 1 .. Len(after)
      PROVE  after[i].compressed <=>
               \E j \in 1 .. i - 1 : after[j].packet = "SetCompression"
  <2>1. \A j \in 1 .. i - 1 : after[j] = before[j]
    BY <1>1
  <2>2. CASE i \in 1 .. Len(before)
    BY <1>1, <2>1, <2>2 DEF InFormat
  <2>3. CASE i = Len(before) + 1
    <3>1. after[i] = frame /\ i - 1 = Len(before)
      BY <1>1, <2>3
    <3>2. QED
      BY <2>1, <3>1 DEF Announced
  <2>4. QED
    BY <1>1, <2>2, <2>3
<1>3. Announced(after) <=> Announced(before) \/ frame.packet = "SetCompression"
  BY <1>1 DEF Announced
<1>4. QED
  BY <1>1, <1>2, <1>3 DEF InFormat, after

LEMMA NextFormats ==
  ASSUME Machine, Formats, [Next]_vars
  PROVE  Formats'
<1> USE DEF vars, config, client, output
<1>1. CASE UNCHANGED <<compressed, sent>>
  BY <1>1 DEF Formats, Announced, InFormat
<1>2. CASE WriteDone
  <2> DEFINE write == Head(script)
             frame == [packet |-> write.packet, compressed |-> compressed]
  <2>1. /\ \/ sent' = sent /\ write.packet = "KeepAlive"
           \/ sent' = Append(sent, frame)
        /\ compressed' = (compressed \/ write.next = "compress")
        /\ pc = "write"
    BY <1>2 DEF WriteDone, Record, Format
  <2>2. write.packet \in ServerPacketNames /\ Announces(write)
    BY <2>1, NextWrite DEF AnyWrite
  <2>3. frame \in Frame
    BY <2>2 DEF Frame, Formats
  <2>4. compressed' \in BOOLEAN
    BY <2>1, Zenon
  <2> HIDE DEF frame
  <2>5. CASE sent' = sent /\ write.packet = "KeepAlive"
    <3>1. compressed' <=> compressed
      BY <2>1, <2>2, <2>5 DEF Announces
    <3>2. QED
      BY <2>4, <2>5, <3>1 DEF Formats, Announced, InFormat
  <2>6. CASE sent' = Append(sent, frame)
    <3>1. frame.compressed <=> Announced(sent)
      BY DEF frame, Formats
    <3>2. /\ Append(sent, frame) \in Seq(Frame) /\ InFormat(Append(sent, frame))
          /\ Announced(Append(sent, frame)) <=>
               Announced(sent) \/ frame.packet = "SetCompression"
      BY <2>3, <3>1, OneFrameMore DEF Formats
    <3>3. compressed' <=> Announced(Append(sent, frame))
      BY <2>1, <2>2, <3>2 DEF Formats, Announces, frame
    <3>4. QED
      BY <2>4, <2>6, <3>2, <3>3 DEF Formats, Announced, InFormat
  <2>7. QED
    BY <2>1, <2>5, <2>6
<1>3. CASE ParsePacket
  BY <1>1, <1>3 DEF ParsePacket, TakesFrame, End
<1>4. CASE ParseNothing \/ ParseStub \/ ParseBroken \/ ParseFailure \/ Keepalive
  BY <1>1, <1>4 DEF ParseNothing, ParseStub, ParseBroken, ParseFailure, TakesFrame, Keepalive, End, EndWith
<1>5. CASE Read \/ ReadEof \/ StreamFails \/ Shutdown
  BY <1>1, <1>5 DEF Read, ReadEof, StreamFails, Shutdown, End, EndWith
<1>6. CASE WriteSome \/ IntervalPasses \/ Hangup \/ UNCHANGED vars
  BY <1>1, <1>6 DEF WriteSome, IntervalPasses, Hangup
<1>7. ASSUME NEW id \in FrameIds, SendFrame(id)
      PROVE  Formats'
  BY <1>1, <1>7 DEF SendFrame
<1>8. QED
  BY <1>2, <1>3, <1>4, <1>5, <1>6, <1>7 DEF Next, Server, Parse

LEMMA AlwaysFormats == Safety => []Formats
<1>1. Init => Formats
  <2> SUFFICES ASSUME Init PROVE Formats
    OBVIOUS
  <2>1. sent = << >> /\ compressed = FALSE
    BY DEF Init
  <2>2. Len(sent) = 0 /\ sent \in Seq(Frame)
    BY <2>1
  <2>3. compressed \in BOOLEAN /\ ~compressed
    BY <2>1, Zenon
  <2>4. QED
    BY <2>2, <2>3 DEF Formats, Announced, InFormat
<1>2. Machine /\ Formats /\ [Next]_vars => Formats'
  BY NextFormats
<1>3. QED
  BY <1>1, <1>2, AlwaysMachine, PTL DEF Safety

(* Both ends agree on the format of every frame: it carries a Data Length      *)
(* field exactly when a SetCompression was written before it.                  *)
THEOREM FormatsAlwaysAgree == Safety => []FormatsAgree
<1>1. Formats => FormatsAgree
  <2>1. sent \in Seq(Frame) => DOMAIN sent = 1 .. Len(sent)
    OBVIOUS
  <2>2. QED
    BY <2>1 DEF Formats, FormatsAgree, InFormat
<1>2. QED
  BY <1>1, AlwaysFormats, PTL
------------------------------------------------------------------------------
(* The endings' invariant: in limbo, only the client ends a connection.        *)
Endings ==
  /\ outcome \in {"none", "clean", "error", "shutdown"}
  /\ pc # "over" => outcome = "none"
  /\ LimboEndsWithClient

LEMMA LimboHandlersSucceed ==
  ASSUME protocol \in Versions, protocol = "1.20.1" => state # "Configuration",
         state \in {"Configuration", "Play"}, NEW got
  PROVE  ~dispatch_packet(got).fails
BY DEF dispatch_packet, handle_play, handle_configuration, Do, Versions

LEMMA NextEndings ==
  ASSUME Machine, Endings, [Next]_vars
  PROVE  Endings'
<1> USE DEF vars, config, client, output
<1>1. CASE /\ outcome' = outcome /\ outcome = "none"
  BY <1>1 DEF Endings, LimboEndsWithClient
<1>2. CASE UNCHANGED <<pc, outcome, state, peer, buffer>>
  BY <1>2 DEF Endings, LimboEndsWithClient
<1>3. CASE /\ pc' = "over" /\ outcome' \in {"clean", "error"}
           /\ \/ state' \notin {"Configuration", "Play"}
              \/ outcome' = "clean" /\ peer' = "closed"
              \/ outcome' = "error" /\ peer' = "reset"
              \/ outcome' = "error" /\ buffer' # << >> /\ Head(buffer') = Broken
  BY <1>3 DEF Endings, LimboEndsWithClient
<1>4. CASE ParsePacket
  <2>1. PICK got \in decode(protocol, state, Head(buffer)) :
          LET handling == dispatch_packet(got) IN
          IF handling.fails THEN End("error") ELSE outcome' = outcome
    BY <1>4 DEF ParsePacket, TakesFrame
  <2>2. pc # "over" /\ outcome = "none"
    BY <1>4 DEF ParsePacket, TakesFrame, Endings
  <2>3. CASE dispatch_packet(got).fails
    <3>1. pc' = "over" /\ outcome' = "error" /\ state' = state
      BY <2>1, <2>3 DEF End
    <3>2. state \notin {"Configuration", "Play"}
      BY <2>3, LimboHandlersSucceed DEF Machine
    <3>3. QED
      BY <1>3, <3>1, <3>2
  <2>4. QED
    BY <1>1, <2>1, <2>2, <2>3
<1>5. CASE ParseFailure
  <2>1. pc # "over" /\ outcome = "none"
    BY <1>5 DEF ParseFailure, TakesFrame, Endings
  <2>2. CASE Skips
    BY <1>1, <1>5, <2>1, <2>2 DEF ParseFailure, TakesFrame
  <2>3. CASE ~Skips
    BY <1>3, <1>5, <2>3 DEF ParseFailure, TakesFrame, EndWith, End, Skips
  <2>4. QED
    BY <2>2, <2>3
<1>6. CASE ParseNothing \/ ParseStub \/ Read \/ Keepalive
  BY <1>1, <1>6 DEF ParseNothing, ParseStub, Read, Keepalive, TickReady, Endings
<1>7. CASE ParseBroken \/ ReadEof \/ StreamFails
  BY <1>3, <1>7 DEF ParseBroken, ReadEof, StreamFails, EndWith, End
<1>8. CASE Shutdown
  BY <1>8 DEF Shutdown, End, Endings, LimboEndsWithClient
<1>9. CASE WriteSome \/ WriteDone
  BY <1>1, <1>9 DEF WriteSome, WriteDone, Endings
<1>10. CASE IntervalPasses \/ Hangup
  BY <1>1, <1>10 DEF IntervalPasses, Hangup, Endings
<1>11. ASSUME NEW id \in FrameIds, SendFrame(id)
       PROVE  Endings'
  BY <1>1, <1>11 DEF SendFrame, Endings
<1>12. QED
  BY <1>2, <1>4, <1>5, <1>6, <1>7, <1>8, <1>9, <1>10, <1>11 DEF Next, Server, Parse

LEMMA AlwaysEndings == Safety => []Endings
<1>1. Init => Endings
  BY DEF Init, Endings, LimboEndsWithClient
<1>2. Machine /\ Endings /\ [Next]_vars => Endings'
  BY NextEndings
<1>3. QED
  BY <1>1, <1>2, AlwaysMachine, PTL DEF Safety

(* No frame, decodable or not, ends a connection in limbo: only what is none   *)
(* does, or a client that goes, and a clean end is always a hang-up.           *)
THEOREM LimboLasts == Safety => []LimboEndsWithClient
<1>1. Endings => LimboEndsWithClient
  BY DEF Endings
<1>2. QED
  BY <1>1, AlwaysEndings, PTL
------------------------------------------------------------------------------
(* The task goes to sleep on a complete frame only where a drain may stop: by  *)
(* a skipped frame, or by one that ends inside its Data Length.                *)
THEOREM SleepsRightly == Safety => []SleepsOnFramesOnlyAfterSkip
<1> DEFINE Inv == SleepsOnFramesOnlyAfterSkip
<1>1. Init => Inv
  BY DEF Init, SleepsOnFramesOnlyAfterSkip
<1>2. Inv /\ [Next]_vars => Inv'
  <2> SUFFICES ASSUME Inv, [Next]_vars
               PROVE  Inv'
    OBVIOUS
  <2> USE DEF vars, config, client, output, SleepsOnFramesOnlyAfterSkip
  <2>1. CASE UNCHANGED <<pc, buffer, state, compressed>>
    BY <2>1
  <2>2. CASE pc' # "wait"
    BY <2>2
  <2>3. CASE ParseNothing \/ ParseStub \/ ParseBroken
    BY <2>3 DEF ParseNothing, ParseStub, ParseBroken, EndWith, End
  <2>4. CASE ParseFailure
    BY <2>4 DEF ParseFailure, TakesFrame, Skips, EndWith, End
  <2>5. CASE ParsePacket \/ WriteDone \/ Read \/ Keepalive
    BY <2>2, <2>5 DEF ParsePacket, TakesFrame, WriteDone, Read, Keepalive, End
  <2>6. CASE ReadEof \/ StreamFails \/ Shutdown
    BY <2>2, <2>6 DEF ReadEof, StreamFails, Shutdown, EndWith, End
  <2>7. CASE WriteSome \/ IntervalPasses \/ Hangup \/ UNCHANGED vars
    BY <2>1, <2>7 DEF WriteSome, IntervalPasses, Hangup
  <2>8. ASSUME NEW id \in FrameIds, SendFrame(id)
        PROVE  Inv'
    BY <2>1, <2>8 DEF SendFrame
  <2>9. QED
    BY <2>3, <2>4, <2>5, <2>6, <2>7, <2>8 DEF Next, Server, Parse
<1>3. QED
  BY <1>1, <1>2, PTL DEF Safety
------------------------------------------------------------------------------
(* The rest of the state has its type.                                         *)
Queues ==
  /\ buffer \in Seq(FrameIds) /\ inbound \in Seq(FrameIds)
  /\ due \in 0 .. MaxDue
  /\ frames \in 0 .. MaxFrames
  /\ peer \in {"open", "closed", "reset"}

Flags == compression \in BOOLEAN /\ torn \in BOOLEAN

LEMMA NextFlags ==
  ASSUME Flags, [Next]_vars
  PROVE  Flags'
<1> USE DEF vars, config, client, output
<1>1. CASE UNCHANGED <<compression, torn>>
  BY <1>1, Zenon DEF Flags
<1>2. CASE WriteSome \/ WriteDone
  <2>1. compression' = compression /\ (torn' = TRUE \/ torn' = FALSE)
    BY <1>2 DEF WriteSome, WriteDone
  <2>2. QED
    BY <2>1, Zenon DEF Flags
<1>3. CASE ParsePacket
  BY <1>1, <1>3 DEF ParsePacket, TakesFrame, End
<1>4. CASE ParseNothing \/ ParseStub \/ ParseBroken \/ ParseFailure \/ Keepalive
  BY <1>1, <1>4 DEF ParseNothing, ParseStub, ParseBroken, ParseFailure, TakesFrame, Keepalive, End, EndWith
<1>5. CASE Read \/ ReadEof \/ StreamFails \/ Shutdown
  BY <1>1, <1>5 DEF Read, ReadEof, StreamFails, Shutdown, End, EndWith
<1>6. CASE IntervalPasses \/ Hangup \/ UNCHANGED vars
  BY <1>1, <1>6 DEF IntervalPasses, Hangup
<1>7. ASSUME NEW id \in FrameIds, SendFrame(id)
      PROVE  Flags'
  BY <1>1, <1>7 DEF SendFrame
<1>8. QED
  BY <1>2, <1>3, <1>4, <1>5, <1>6, <1>7 DEF Next, Server, Parse

LEMMA NextQueues ==
  ASSUME Queues, [Next]_vars
  PROVE  Queues'
<1> USE DEF vars, config, client, output
<1>1. CASE /\ UNCHANGED <<due, client>>
           /\ \/ buffer' = buffer
              \/ buffer # << >> /\ buffer' = Tail(buffer)
  <2>1. buffer' \in Seq(FrameIds)
    BY <1>1 DEF Queues
  <2>2. QED
    BY <1>1, <2>1 DEF Queues
<1>2. CASE ParsePacket
  BY <1>1, <1>2 DEF ParsePacket, TakesFrame, End
<1>3. CASE ParseStub \/ ParseBroken \/ ParseFailure
  BY <1>1, <1>3 DEF ParseStub, ParseBroken, ParseFailure, TakesFrame, End, EndWith
<1>4. CASE ParseNothing \/ WriteSome \/ WriteDone
  BY <1>1, <1>4 DEF ParseNothing, WriteSome, WriteDone
<1>5. CASE ReadEof \/ StreamFails \/ Shutdown
  BY <1>1, <1>5 DEF ReadEof, StreamFails, Shutdown, End, EndWith
<1>6. CASE Read
  <2>1. PICK n \in 1 .. Len(inbound) :
          /\ buffer' = buffer \o SubSeq(inbound, 1, n)
          /\ inbound' = SubSeq(inbound, n + 1, Len(inbound))
    BY <1>6 DEF Read
  <2>2. /\ SubSeq(inbound, 1, n) \in Seq(FrameIds)
        /\ SubSeq(inbound, n + 1, Len(inbound)) \in Seq(FrameIds)
    BY <2>1 DEF Queues
  <2>3. buffer' \in Seq(FrameIds) /\ inbound' \in Seq(FrameIds)
    BY <2>1, <2>2 DEF Queues
  <2>4. UNCHANGED <<due, frames, peer>>
    BY <1>6 DEF Read
  <2>5. QED
    BY <2>3, <2>4 DEF Queues
<1>7. CASE Keepalive \/ IntervalPasses
  <2>1. /\ UNCHANGED <<buffer, inbound, frames, peer>>
        /\ \/ due' = due - 1 /\ due > 0
           \/ due' = due + 1 /\ due < MaxDue
    BY <1>7 DEF Keepalive, IntervalPasses, TickReady
  <2>2. due' \in 0 .. MaxDue
    BY <2>1, SessionAssumption DEF Queues
  <2>3. QED
    BY <2>1, <2>2 DEF Queues
<1>8. ASSUME NEW id \in FrameIds, SendFrame(id)
      PROVE  Queues'
  <2>1. /\ UNCHANGED <<buffer, due, peer>> /\ inbound' = Append(inbound, id)
        /\ frames < MaxFrames /\ frames' = frames + 1
    BY <1>8 DEF SendFrame
  <2>2. inbound' \in Seq(FrameIds)
    BY <1>8, <2>1 DEF Queues
  <2>3. frames' \in 0 .. MaxFrames
    BY <2>1, SessionAssumption DEF Queues
  <2>4. QED
    BY <2>1, <2>2, <2>3 DEF Queues
<1>9. CASE Hangup
  BY <1>9 DEF Hangup, Queues
<1>10. CASE UNCHANGED vars
  BY <1>1, <1>10
<1>11. QED
  BY <1>2, <1>3, <1>4, <1>5, <1>6, <1>7, <1>8, <1>9, <1>10 DEF Next, Server, Parse

(* The type invariant.                                                         *)
THEOREM TypeCorrect == Safety => []TypeOK
<1>1. Init => Flags /\ Queues
  <2>1. Init => Flags
    <3>1. Init => torn = FALSE /\ compression \in BOOLEAN
      BY Zenon DEF Init
    <3>2. QED
      BY <3>1, Zenon DEF Flags
  <2>2. Init => Queues
    BY SessionAssumption DEF Init, Queues
  <2>3. QED
    BY <2>1, <2>2
<1>2. Flags /\ [Next]_vars => Flags'
  BY NextFlags
<1>3. Queues /\ [Next]_vars => Queues'
  BY NextQueues
<1>4. Machine /\ Formats /\ Endings /\ Flags /\ Queues => TypeOK
  <2> DEFINE typed == [packet : ServerPacketNames, next : {"none", "compress", "Play"}]
  <2>1. Machine => script \in Seq(typed)
    <3>1. Machine => script \in Seq(AnyWrite)
      <4>1. Staying(state) \subseteq AnyWrite
        BY DEF Staying
      <4>2. QED
        BY <4>1, Wider DEF Machine, Fits, Stays, EntersPlay
    <3>2. AnyWrite \subseteq typed
      BY DEF AnyWrite
    <3>3. QED
      BY ONLY <3>1, <3>2, Wider
  <2>2. QED
    BY <2>1, Zenon DEF TypeOK, Machine, Formats, Endings, Flags, Queues, Frame
<1>5. QED
  BY <1>1, <1>2, <1>3, <1>4, AlwaysMachine, AlwaysFormats, AlwaysEndings, PTL DEF Safety
=============================================================================
