------------------------------ MODULE ClientView ------------------------------
(* What a client may be told, and in which order, whatever it sends: the       *)
(* language of packet sequences of the two protocol versions, one packet at a  *)
(* time.  A run of keepalives is seen as one.                                  *)
EXTENDS Integers, Sequences, SequencesExt

CONSTANT Registries

VARIABLES version, compress, seen, streamed

cvars == <<version, compress, seen, streamed>>

Steps(names) == {<<names[i], names[i + 1]>> : i \in 1 .. Len(names) - 1}

Status == {"StatusResponse", "Pong"}

(* A login attempt: refused, or accepted with compression first if configured. *)
Refused == "Disconnect"
Accepted == IF compress THEN <<"SetCompression", "LoginSuccess">> ELSE <<"LoginSuccess">>

ChunkOld == <<"LevelChunkWithLight">>
ChunkNew == <<"ChunkBatchStart", "LevelChunkWithLight", "ChunkBatchFinished">>

Play == <<"Login", "SetChunkCacheCenter", "SetChunkCacheRadius">>
          \o (IF version = "1.20.1" THEN ChunkOld ELSE ChunkNew)
          \o <<"SetDefaultSpawnPosition", "PlayerPosition", "PlayerAbilities", "GameEvent">>

Configuration == <<"CustomPayload", "FeatureFlags", "RegistryData", "UpdateTags",
                   "KnownPacks", "FinishConfiguration">>

(* After which packet which may come.  1.20.1 accepts one login and plays at   *)
(* once.  In 1.21.1 a client may be answered several times before it is        *)
(* configured; then it plays only once configuration has been finished.        *)
Attempts == {Refused, Accepted[1]}

Follows ==
  (Status \X Status) \union Steps(Accepted) \union Steps(Play)
  \union {<<"GameEvent", "KeepAlive">>}
  \union {<<Refused, next>> : next \in Attempts}
  \union (IF version = "1.20.1" THEN {<<"LoginSuccess", "Login">>}
          ELSE Steps(Configuration) \union {<<"RegistryData", "RegistryData">>}
               \union {<<"LoginSuccess", next>> : next \in Attempts}
               \union {<<before, "CustomPayload">> : before \in {Refused, "LoginSuccess"}}
               \union {<<"FinishConfiguration", "Login">>})

First == Status \union Attempts \union (IF version = "1.20.1" THEN {} ELSE {"CustomPayload"})

(* All registries have been streamed before the tags come, and none twice.     *)
Tell(packet) ==
  /\ IF seen = << >> THEN packet \in First ELSE <<Last(seen), packet>> \in Follows
  /\ packet = "RegistryData" => streamed < Registries
  /\ packet = "UpdateTags" => streamed = Registries
  /\ seen' = Append(seen, packet)
  /\ streamed' = IF packet = "RegistryData" THEN streamed + 1 ELSE streamed
  /\ UNCHANGED <<version, compress>>

Init ==
  /\ version \in {"1.20.1", "1.21.1"}
  /\ compress \in BOOLEAN
  /\ seen = << >>
  /\ streamed = 0

Next == \E packet \in {pair[2] : pair \in Follows} \union First : Tell(packet)

Spec == Init /\ [][Next]_cvars
===============================================================================
