--------------------------- MODULE ProtocolProofs ---------------------------
(* Session refines ClientView, for any number of registries, frames and packet *)
(* ids: whatever a client sends, what it is told is in the protocol's language.*)
EXTENDS SessionProofs, FiniteSetTheorems

(* A packet that may come after another; a keepalive is seen once.             *)
MayFollow(before, packet) ==
  \/ <<before, packet>> \in CV!Follows
  \/ before = "KeepAlive" /\ packet = "KeepAlive"

(* The packets behind which a handler may leave a state.                       *)
MayRest(there, packet) ==
  \/ there = "Status" /\ packet \in {"StatusResponse", "Pong"}
  \/ there = "Login" /\ packet = "Disconnect"
  \/ there = "Login" /\ packet = "LoginSuccess" /\ protocol = "1.21.1"
  \/ there = "Configuration" /\ packet = "FinishConfiguration"
  \/ there = "Play" /\ packet \in {"GameEvent", "KeepAlive"}

Early == {"Handshake", "Status", "Login"}

(* Nothing is left to tell.                                                    *)
Rests(told, there) ==
  IF told = << >> THEN there \in Early ELSE MayRest(there, told[Len(told)].packet)

(* What is left to tell starts where the client is, is a path of the protocol, *)
(* and leads where a handler may rest.                                         *)
Opens(told, packet) ==
  IF told = << >> THEN packet \in CV!First ELSE MayFollow(told[Len(told)].packet, packet)

Chained(todo) ==
  \A k \in 2 .. Len(todo) : MayFollow(todo[k - 1].packet, todo[k].packet)

Leads(todo, there) == IF \E k \in 1 .. Len(todo) : todo[k].next = "Play" THEN "Play" ELSE there

Closes(todo, there) == MayRest(Leads(todo, there), todo[Len(todo)].packet)

Ordered(told, todo, there) ==
  IF todo = << >> THEN Rests(told, there)
  ELSE Opens(told, todo[1].packet) /\ Chained(todo) /\ Closes(todo, there)

(* The registries are left to tell as one row of r behind a other packets, and *)
(* the tags behind them; with those already told, they are all there are.      *)
Streamed(told) == Cardinality({i \in DOMAIN told : told[i].packet = "RegistryData"})

Row(streamed, todo, a, r) ==
  /\ \A k \in 1 .. Len(todo) : todo[k].packet = "RegistryData" <=> k \in a + 1 .. a + r
  /\ \A k \in 1 .. Len(todo) :
       todo[k].packet = "UpdateTags" => k > a + r /\ streamed + r = Registries
  /\ r > 0 => a + r <= Len(todo) /\ streamed + r = Registries

Counted(streamed, todo) == \E a, r \in Nat : Row(streamed, todo, a, r)

(* The view's invariant: what was told and what is left to tell fit together.  *)
Idle == pc \in {"parse", "wait"} => script = << >>

Order == Idle /\ Ordered(sent, script, state)

Count == (state \in Early => Streamed(sent) = 0) /\ Counted(Streamed(sent), script)
------------------------------------------------------------------------------
(* The state a list of writes leads to does not change as it is written.       *)
LEMMA NextLeads ==
  ASSUME NEW todo \in Seq(AnyWrite), todo # << >>, NEW there
  PROVE  Leads(Tail(todo), IF todo[1].next = "Play" THEN "Play" ELSE there) = Leads(todo, there)
<1>1. /\ Len(todo) \in Nat \ {0} /\ Len(Tail(todo)) = Len(todo) - 1
      /\ \A k \in 1 .. Len(Tail(todo)) : Tail(todo)[k] = todo[k + 1]
  OBVIOUS
<1>2. CASE \E k \in 1 .. Len(Tail(todo)) : Tail(todo)[k].next = "Play"
  <2>1. \E k \in 1 .. Len(todo) : todo[k].next = "Play"
    BY <1>1, <1>2
  <2>2. QED
    BY <1>2, <2>1 DEF Leads
<1>3. CASE ~\E k \in 1 .. Len(Tail(todo)) : Tail(todo)[k].next = "Play"
  <2>1. \A k \in 2 .. Len(todo) : todo[k].next # "Play"
    <3>1. ASSUME NEW k \in 2 .. Len(todo) PROVE todo[k].next # "Play"
      <4>1. k - 1 \in 1 .. Len(Tail(todo)) /\ Tail(todo)[k - 1] = todo[k]
        BY <1>1
      <4>2. QED
        BY <1>3, <4>1
    <3>2. QED
      BY <3>1
  <2>2. (\E k \in 1 .. Len(todo) : todo[k].next = "Play") <=> todo[1].next = "Play"
    BY <1>1, <2>1
  <2>3. QED
    BY <1>3, <2>2 DEF Leads
<1>4. QED
  BY <1>2, <1>3

(* Behind the packet just told, the rest of the list fits as the list did.     *)
LEMMA NextOrdered ==
  ASSUME NEW told, NEW todo \in Seq(AnyWrite), todo # << >>, NEW there,
         Ordered(told, todo, there),
         NEW after, after # << >>, after[Len(after)].packet = todo[1].packet
  PROVE  Ordered(after, Tail(todo), IF todo[1].next = "Play" THEN "Play" ELSE there)
<1> DEFINE then == IF todo[1].next = "Play" THEN "Play" ELSE there
           left == Tail(todo)
<1>1. /\ Len(todo) \in Nat \ {0} /\ Len(left) = Len(todo) - 1
      /\ \A k \in 1 .. Len(left) : left[k] = todo[k + 1]
      /\ left \in Seq(AnyWrite)
  OBVIOUS
<1>2. Chained(todo) /\ Closes(todo, there)
  BY DEF Ordered
<1>3. Leads(left, then) = Leads(todo, there)
  BY NextLeads
<1> HIDE DEF then
<1>4. CASE left = << >>
  <2>1. Len(todo) = 1
    BY <1>1, <1>4
  <2>2. Leads(left, then) = then
    <3>1. Len(left) = 0
      BY <1>1, <1>4, <2>1
    <3>2. ~\E k \in 1 .. Len(left) : left[k].next = "Play"
      BY ONLY <3>1
    <3>3. QED
      BY ONLY <3>2 DEF Leads
  <2>3. MayRest(then, todo[1].packet)
    BY <1>2, <1>3, <2>1, <2>2 DEF Closes
  <2>4. Rests(after, then)
    BY <2>3 DEF Rests
  <2>5. QED
    BY <1>4, <2>4 DEF Ordered, then
<1>5. CASE left # << >>
  <2>1. Len(left) \in Nat \ {0}
    BY <1>1, <1>5, EmptySeq
  <2>2. left[1] = todo[2] /\ 2 \in 2 .. Len(todo) /\ left[Len(left)] = todo[Len(todo)]
    BY <1>1, <2>1
  <2> HIDE DEF left
  <2>3. Opens(after, left[1].packet)
    <3>1. MayFollow(todo[1].packet, todo[2].packet)
      BY <1>2, <2>2 DEF Chained
    <3>2. QED
      BY <2>2, <3>1 DEF Opens
  <2>4. Chained(left)
    <3>1. ASSUME NEW k \in 2 .. Len(left)
          PROVE  MayFollow(left[k - 1].packet, left[k].packet)
      <4>1. /\ k + 1 \in 2 .. Len(todo) /\ (k + 1) - 1 = k
            /\ left[k - 1] = todo[k] /\ left[k] = todo[k + 1]
        BY <1>1
      <4>2. MayFollow(todo[(k + 1) - 1].packet, todo[k + 1].packet)
        BY <1>2, <4>1 DEF Chained
      <4>3. QED
        BY <4>1, <4>2
    <3>2. QED
      BY <3>1 DEF Chained
  <2>5. Closes(left, then)
    BY <1>2, <1>3, <2>2 DEF Closes
  <2>6. QED
    BY <1>5, <2>3, <2>4, <2>5 DEF Ordered, left, then
<1>6. QED
  BY <1>4, <1>5

(* One packet told, one packet less to tell.                                   *)
LEMMA NextRow ==
  ASSUME NEW streamed \in Nat, NEW todo \in Seq(AnyWrite), todo # << >>,
         Counted(streamed, todo)
  PROVE  /\ todo[1].packet = "RegistryData" =>
              streamed < Registries /\ Counted(streamed + 1, Tail(todo))
         /\ todo[1].packet # "RegistryData" => Counted(streamed, Tail(todo))
         /\ todo[1].packet = "UpdateTags" => streamed = Registries
<1> DEFINE left == Tail(todo)
<1>1. /\ Len(todo) \in Nat \ {0} /\ Len(left) = Len(todo) - 1
      /\ \A k \in 1 .. Len(left) : left[k] = todo[k + 1]
  OBVIOUS
<1> HIDE DEF left
<1>2. PICK a \in Nat, r \in Nat : Row(streamed, todo, a, r)
  BY DEF Counted
<1>3. /\ \A k \in 1 .. Len(todo) : todo[k].packet = "RegistryData" <=> k \in a + 1 .. a + r
      /\ \A k \in 1 .. Len(todo) :
           todo[k].packet = "UpdateTags" => k > a + r /\ streamed + r = Registries
      /\ r > 0 => a + r <= Len(todo) /\ streamed + r = Registries
  BY <1>2 DEF Row
<1>4. Registries \in Nat \ {0}
  BY SessionAssumption
<1>5. CASE todo[1].packet = "RegistryData"
  <2>1. a = 0 /\ r > 0
    BY <1>1, <1>3, <1>5
  <2>2. Row(streamed + 1, left, 0, r - 1)
    <3>1. \A k \in 1 .. Len(left) : left[k].packet = "RegistryData" <=> k \in 0 + 1 .. 0 + (r - 1)
      BY <1>1, <1>3, <2>1
    <3>2. \A k \in 1 .. Len(left) :
            left[k].packet = "UpdateTags" => k > 0 + (r - 1) /\ (streamed + 1) + (r - 1) = Registries
      BY <1>1, <1>3, <2>1
    <3>3. r - 1 > 0 => 0 + (r - 1) <= Len(left) /\ (streamed + 1) + (r - 1) = Registries
      BY <1>1, <1>3, <2>1
    <3>4. QED
      BY <3>1, <3>2, <3>3 DEF Row
  <2>3. r - 1 \in Nat /\ 0 \in Nat
    BY <2>1
  <2>4. Counted(streamed + 1, left)
    BY <2>2, <2>3 DEF Counted
  <2>5. streamed < Registries
    BY <1>3, <1>4, <2>1
  <2>6. QED
    BY <1>5, <2>4, <2>5 DEF left
<1>6. CASE todo[1].packet # "RegistryData" /\ a > 0
  <2>1. Row(streamed, left, a - 1, r)
    <3>1. \A k \in 1 .. Len(left) :
            left[k].packet = "RegistryData" <=> k \in (a - 1) + 1 .. (a - 1) + r
      BY <1>1, <1>3, <1>6
    <3>2. \A k \in 1 .. Len(left) :
            left[k].packet = "UpdateTags" => k > (a - 1) + r /\ streamed + r = Registries
      BY <1>1, <1>3, <1>6
    <3>3. r > 0 => (a - 1) + r <= Len(left) /\ streamed + r = Registries
      BY <1>1, <1>3, <1>6
    <3>4. QED
      BY <3>1, <3>2, <3>3 DEF Row
  <2>2. a - 1 \in Nat
    BY <1>6
  <2>3. Counted(streamed, left)
    BY <2>1, <2>2 DEF Counted
  <2>4. todo[1].packet # "UpdateTags"
    BY <1>1, <1>3, <1>6
  <2>5. QED
    BY <1>6, <2>3, <2>4 DEF left
<1>7. CASE todo[1].packet # "RegistryData" /\ a = 0
  <2>1. r = 0
    <3>1. 1 \in 1 .. Len(todo)
      BY <1>1
    <3>2. 1 \notin a + 1 .. a + r
      BY <1>3, <1>7, <3>1
    <3>3. QED
      BY <1>7, <3>2
  <2>2. Row(streamed, left, 0, 0)
    <3>1. \A k \in 1 .. Len(left) : left[k].packet = "RegistryData" <=> k \in 0 + 1 .. 0 + 0
      BY <1>1, <1>3, <1>7, <2>1
    <3>2. \A k \in 1 .. Len(left) :
            left[k].packet = "UpdateTags" => k > 0 + 0 /\ streamed + 0 = Registries
      BY <1>1, <1>3, <1>7, <2>1
    <3>3. QED
      BY <3>1, <3>2 DEF Row
  <2>3. Counted(streamed, left)
    BY <2>2 DEF Counted
  <2>4. todo[1].packet = "UpdateTags" => streamed = Registries
    BY <1>1, <1>3, <2>1
  <2>5. QED
    BY <1>7, <2>3, <2>4 DEF left
<1>8. QED
  BY <1>5, <1>6, <1>7

(* A frame adds one to the registries streamed, or none.                       *)
LEMMA OneMoreStreamed ==
  ASSUME NEW told \in Seq(Frame), NEW frame \in Frame
  PROVE  /\ Streamed(told) \in Nat
         /\ Streamed(Append(told, frame)) =
              IF frame.packet = "RegistryData" THEN Streamed(told) + 1 ELSE Streamed(told)
<1> DEFINE of(s) == {i \in DOMAIN s : s[i].packet = "RegistryData"}
           after == Append(told, frame)
           last == Len(told) + 1
<1>1. /\ Len(told) \in Nat /\ DOMAIN told = 1 .. Len(told)
      /\ DOMAIN after = 1 .. last
      /\ \A i \in 1 .. Len(told) : after[i] = told[i]
      /\ after[last] = frame
  OBVIOUS
<1> HIDE DEF after
<1>2. IsFiniteSet(of(told))
  <2>1. IsFiniteSet(1 .. Len(told))
    BY <1>1, FS_Interval
  <2>2. of(told) \subseteq 1 .. Len(told)
    BY <1>1
  <2>3. QED
    BY <2>1, <2>2, FS_Subset
<1>3. Cardinality(of(told)) \in Nat
  BY <1>2, FS_CardinalityType
<1>4. CASE frame.packet = "RegistryData"
  <2>1. of(after) = of(told) \union {last}
    BY <1>1, <1>4
  <2>2. last \notin of(told)
    BY <1>1
  <2>3. Cardinality(of(told) \union {last}) = Cardinality(of(told)) + 1
    BY <1>2, <2>2, FS_AddElement
  <2>4. QED
    BY <1>3, <1>4, <2>1, <2>3 DEF Streamed, after
<1>5. CASE frame.packet # "RegistryData"
  <2>1. of(after) = of(told)
    BY <1>1, <1>5
  <2>2. QED
    BY <1>3, <1>5, <2>1 DEF Streamed, after
<1>6. QED
  BY <1>4, <1>5
------------------------------------------------------------------------------
(* The lists of writes the handlers make are paths of the protocol.            *)
LEMMA WritesAre ==
  ASSUME NEW S, NEW names \in Seq(S)
  PROVE  /\ Writes(names) \in Seq([packet : S, next : {"none"}])
         /\ Len(Writes(names)) = Len(names)
         /\ \A k \in 1 .. Len(names) :
              Writes(names)[k].packet = names[k] /\ Writes(names)[k].next = "none"
BY DEF Writes, Write

(* A burst whose steps the protocol allows is a path of it.                    *)
LEMMA StepsChain ==
  ASSUME NEW S, NEW names \in Seq(S), CV!Steps(names) \subseteq CV!Follows
  PROVE  Chained(Writes(names))
<1>1. ASSUME NEW k \in 2 .. Len(Writes(names))
      PROVE  MayFollow(Writes(names)[k - 1].packet, Writes(names)[k].packet)
  <2>0. names \in Seq(S) /\ Len(names) \in Nat
    OBVIOUS
  <2>1. Len(Writes(names)) = Len(names)
    BY <2>0, WritesAre
  <2>2. k - 1 \in 1 .. Len(names) - 1 /\ k \in 1 .. Len(names) /\ (k - 1) + 1 = k
        /\ k - 1 \in 1 .. Len(names)
    BY <2>0, <2>1
  <2>3. <<names[k - 1], names[k]>> \in CV!Steps(names)
    BY <2>2 DEF CV!Steps
  <2>4. Writes(names)[k - 1].packet = names[k - 1] /\ Writes(names)[k].packet = names[k]
    BY <2>2, WritesAre
  <2>5. QED
    BY <2>3, <2>4 DEF MayFollow
<1>2. QED
  BY <1>1 DEF Chained

(* Plain writes lead nowhere.                                                  *)
LEMMA WritesLead ==
  ASSUME NEW S, NEW names \in Seq(S), NEW there
  PROVE  Leads(Writes(names), there) = there
<1>1. ~\E k \in 1 .. Len(Writes(names)) : Writes(names)[k].next = "Play"
  <2>1. \A k \in 1 .. Len(Writes(names)) : Writes(names)[k].next = "none"
    BY WritesAre
  <2>2. QED
    BY <2>1
<1>2. QED
  BY <1>1 DEF Leads

OldBurst == <<"Login", "SetChunkCacheCenter", "SetChunkCacheRadius", "LevelChunkWithLight",
              "SetDefaultSpawnPosition", "PlayerPosition", "PlayerAbilities", "GameEvent">>

NewBurst == <<"Login", "SetChunkCacheCenter", "SetChunkCacheRadius", "ChunkBatchStart",
              "LevelChunkWithLight", "ChunkBatchFinished", "SetDefaultSpawnPosition",
              "PlayerPosition", "PlayerAbilities", "GameEvent">>

Names == BurstNames \union {"ChunkBatchStart", "ChunkBatchFinished"}

(* The play bursts are written with packets of Play.                           *)
LEMMA Bursts ==
  /\ OldBurst \in Seq(Names) /\ Len(OldBurst) = 8
  /\ NewBurst \in Seq(Names) /\ Len(NewBurst) = 10
BY DEF OldBurst, NewBurst, Names, BurstNames

(* The burst of 1.20.1 is what the view calls Play there.                      *)
LEMMA OldPlay ==
  ASSUME protocol = "1.20.1"
  PROVE  CV!Play = OldBurst
<1> DEFINE head == <<"Login", "SetChunkCacheCenter", "SetChunkCacheRadius">>
           end == <<"SetDefaultSpawnPosition", "PlayerPosition", "PlayerAbilities", "GameEvent">>
<1>1. CV!Play = head \o CV!ChunkOld \o end
  BY DEF CV!Play
<1>2. head \in Seq(Names) /\ CV!ChunkOld \in Seq(Names) /\ end \in Seq(Names)
  BY DEF CV!ChunkOld, Names, BurstNames
<1>3. Len(head) = 3 /\ Len(CV!ChunkOld) = 1 /\ Len(end) = 4
  BY DEF CV!ChunkOld
<1> HIDE DEF head, end
<1>4. CV!Play \in Seq(Names) /\ Len(CV!Play) = 8
  <2>1. head \o CV!ChunkOld \in Seq(Names)
    BY ONLY <1>2
  <2>2. Len(head \o CV!ChunkOld) = Len(head) + Len(CV!ChunkOld)
    BY ONLY <1>2
  <2>3. (head \o CV!ChunkOld) \o end \in Seq(Names)
    BY ONLY <1>2, <2>1
  <2>4. Len((head \o CV!ChunkOld) \o end) = Len(head \o CV!ChunkOld) + Len(end)
    BY ONLY <1>2, <2>1
  <2>5. QED
    BY ONLY <1>1, <1>3, <2>2, <2>3, <2>4
<1> USE DEF head, end
<1>5. \A k \in 1 .. 8 : CV!Play[k] = OldBurst[k]
  BY <1>1, <1>2, <1>3 DEF CV!ChunkOld, OldBurst
<1>6. QED
  BY <1>4, <1>5, Bursts, SeqEqual

(* The burst of 1.21.1 is what the view calls Play there.                      *)
LEMMA NewPlay ==
  ASSUME protocol = "1.21.1"
  PROVE  CV!Play = NewBurst
<1> DEFINE head == <<"Login", "SetChunkCacheCenter", "SetChunkCacheRadius">>
           end == <<"SetDefaultSpawnPosition", "PlayerPosition", "PlayerAbilities", "GameEvent">>
<1>1. CV!Play = head \o CV!ChunkNew \o end
  BY DEF CV!Play
<1>2. head \in Seq(Names) /\ CV!ChunkNew \in Seq(Names) /\ end \in Seq(Names)
  BY DEF CV!ChunkNew, Names, BurstNames
<1>3. Len(head) = 3 /\ Len(CV!ChunkNew) = 3 /\ Len(end) = 4
  BY DEF CV!ChunkNew
<1> HIDE DEF head, end
<1>4. CV!Play \in Seq(Names) /\ Len(CV!Play) = 10
  <2>1. head \o CV!ChunkNew \in Seq(Names)
    BY ONLY <1>2
  <2>2. Len(head \o CV!ChunkNew) = Len(head) + Len(CV!ChunkNew)
    BY ONLY <1>2
  <2>3. (head \o CV!ChunkNew) \o end \in Seq(Names)
    BY ONLY <1>2, <2>1
  <2>4. Len((head \o CV!ChunkNew) \o end) = Len(head \o CV!ChunkNew) + Len(end)
    BY ONLY <1>2, <2>1
  <2>5. QED
    BY ONLY <1>1, <1>3, <2>2, <2>3, <2>4
<1> USE DEF head, end
<1>5. \A k \in 1 .. 10 : CV!Play[k] = NewBurst[k]
  BY <1>1, <1>2, <1>3 DEF CV!ChunkNew, NewBurst
<1>6. QED
  BY <1>4, <1>5, Bursts, SeqEqual

(* Where the client is, the next handler may start.                            *)
Admits(there, packet) ==
  \/ there = "Status" /\ packet \in {"StatusResponse", "Pong"}
  \/ there = "Login" /\ packet \in CV!Attempts
  \/ there = "Login" /\ packet = "CustomPayload" /\ protocol = "1.21.1"
  \/ there = "Configuration" /\ packet = "Login" /\ protocol = "1.21.1"
  \/ there = "Play" /\ packet = "KeepAlive"

(* Keepalives start behind the burst.                                          *)
LEMMA GameThenKeepAlive == MayFollow("GameEvent", "KeepAlive")
BY DEF MayFollow, CV!Follows

(* A handler starts with what may follow the packet it finds told last.        *)
LEMMA Opening ==
  ASSUME protocol \in Versions, NEW told, NEW there, Rests(told, there),
         NEW packet, Admits(there, packet)
  PROVE  Opens(told, packet)
<1>1. CASE told = << >>
  <2>1. there \in Early
    BY <1>1 DEF Rests
  <2>2. packet \in CV!First
    BY <2>1 DEF Admits, Early, CV!First, CV!Status, Versions
  <2>3. QED
    BY <1>1, <2>2 DEF Opens
<1>2. CASE told # << >>
  <2> DEFINE before == told[Len(told)].packet
  <2>1. MayRest(there, before)
    BY <1>2 DEF Rests
  <2> HIDE DEF before
  <2>2. MayFollow(before, packet)
    <3>1. CASE there = "Status"
      BY <2>1, <3>1 DEF MayRest, Admits, MayFollow, CV!Follows, CV!Status
    <3>2. CASE there = "Login" /\ packet \in CV!Attempts
      BY <2>1, <3>2 DEF MayRest, MayFollow, CV!Follows, CV!Refused, Versions
    <3>3. CASE there = "Login" /\ packet = "CustomPayload" /\ protocol = "1.21.1"
      BY <2>1, <3>3 DEF MayRest, MayFollow, CV!Follows, CV!Refused
    <3>4. CASE there = "Configuration"
      BY <2>1, <3>4 DEF MayRest, Admits, MayFollow, CV!Follows
    <3>5. CASE there = "Play"
      <4>1. before \in {"GameEvent", "KeepAlive"} /\ packet = "KeepAlive"
        BY <2>1, <3>5 DEF MayRest, Admits
      <4>2. QED
        BY <4>1, GameThenKeepAlive DEF MayFollow
    <3>6. QED
      BY <3>1, <3>2, <3>3, <3>4, <3>5 DEF Admits
  <2>3. QED
    BY <1>2, <2>2 DEF Opens, before
<1>3. QED
  BY <1>1, <1>2

(* A burst fits if its first packet may come and a handler may rest behind its *)
(* last.                                                                       *)
LEMMA BurstOrdered ==
  ASSUME NEW S, NEW names \in Seq(S), Len(names) > 0,
         CV!Steps(names) \subseteq CV!Follows,
         NEW told, Opens(told, names[1]),
         NEW there, MayRest(there, names[Len(names)])
  PROVE  Ordered(told, Writes(names), there)
<1> DEFINE todo == Writes(names)
<1>1. Len(todo) = Len(names)
  BY WritesAre
<1>2. Chained(todo)
  BY StepsChain
<1>3. Leads(todo, there) = there
  BY WritesLead
<1>4. 1 \in 1 .. Len(names) /\ Len(names) \in 1 .. Len(names)
  OBVIOUS
<1>5. todo[1].packet = names[1] /\ todo[Len(names)].packet = names[Len(names)]
  BY <1>4, WritesAre
<1>6. todo # << >>
  <2>1. Len(todo) # 0 /\ Len(<< >>) = 0
    BY <1>1
  <2>2. QED
    BY ONLY <2>1, Zenon
<1> HIDE DEF todo
<1>7. Closes(todo, there)
  BY <1>1, <1>3, <1>5 DEF Closes
<1>8. Ordered(told, todo, there)
  BY <1>2, <1>5, <1>6, <1>7 DEF Ordered
<1>9. QED
  BY <1>8 DEF todo

(* The same for a list of one write.                                           *)
LEMMA OneOrdered ==
  ASSUME NEW told, NEW packet, Opens(told, packet), NEW there, MayRest(there, packet)
  PROVE  Ordered(told, <<Write(packet)>>, there)
<1> DEFINE todo == <<Write(packet)>>
<1>1. Len(todo) = 1 /\ todo # << >> /\ todo[1].packet = packet /\ todo[1].next = "none"
  BY DEF Write
<1> HIDE DEF todo
<1>2. Chained(todo)
  BY <1>1 DEF Chained
<1>3. Leads(todo, there) = there
  <2>1. ~\E k \in 1 .. Len(todo) : todo[k].next = "Play"
    BY <1>1
  <2>2. QED
    BY <2>1 DEF Leads
<1>4. Closes(todo, there)
  BY <1>1, <1>3 DEF Closes
<1>5. Ordered(told, todo, there)
  BY <1>1, <1>2, <1>4 DEF Ordered
<1>6. QED
  BY <1>5 DEF todo

(* send_play_burst_v1_21_1, after FinishConfigurationAck.                      *)
LEMMA NewBurstOrdered ==
  ASSUME protocol = "1.21.1", NEW told, Opens(told, "Login")
  PROVE  Ordered(told, PlayBurst_1_21_1, "Play")
<1>1. CV!Steps(NewBurst) \subseteq CV!Follows
  BY NewPlay DEF CV!Follows
<1>2. PlayBurst_1_21_1 = Writes(NewBurst)
  BY DEF PlayBurst_1_21_1, NewBurst
<1>3. NewBurst[1] = "Login" /\ NewBurst[10] = "GameEvent"
  BY DEF NewBurst
<1>4. MayRest("Play", "GameEvent")
  BY DEF MayRest
<1>5. NewBurst \in Seq(Names) /\ Len(NewBurst) = 10
  BY Bursts
<1>6. Opens(told, NewBurst[1]) /\ MayRest("Play", NewBurst[Len(NewBurst)]) /\ Len(NewBurst) > 0
  BY <1>3, <1>4, <1>5
<1>7. Ordered(told, Writes(NewBurst), "Play")
  BY <1>1, <1>5, <1>6, BurstOrdered
<1>8. QED
  BY <1>2, <1>7

ConfigurationBurstNames ==
  <<"CustomPayload", "FeatureFlags">> \o [i \in 1 .. Registries |-> "RegistryData"]
    \o <<"UpdateTags", "KnownPacks", "FinishConfiguration">>

(* The packets of ConfigurationBurst, whatever the number of registries.       *)
LEMMA ConfigurationBurstIs ==
  LET names == ConfigurationBurstNames
  IN  /\ names \in Seq(ConfigurationNames) /\ Len(names) = Registries + 5
      /\ names[1] = "CustomPayload" /\ names[2] = "FeatureFlags"
      /\ \A k \in 3 .. Registries + 2 : names[k] = "RegistryData"
      /\ names[Registries + 3] = "UpdateTags" /\ names[Registries + 4] = "KnownPacks"
      /\ names[Registries + 5] = "FinishConfiguration"
<1> DEFINE head == <<"CustomPayload", "FeatureFlags">>
           row == [i \in 1 .. Registries |-> "RegistryData"]
           end == <<"UpdateTags", "KnownPacks", "FinishConfiguration">>
<1>0. Registries \in Nat
  BY SessionAssumption
<1>1. /\ head \in Seq(ConfigurationNames) /\ row \in Seq(ConfigurationNames)
      /\ end \in Seq(ConfigurationNames)
  BY <1>0 DEF ConfigurationNames
<1>2. Len(head) = 2 /\ Len(row) = Registries /\ Len(end) = 3
  BY <1>0
<1>3. /\ head[1] = "CustomPayload" /\ head[2] = "FeatureFlags"
      /\ \A i \in 1 .. Registries : row[i] = "RegistryData"
      /\ end[1] = "UpdateTags" /\ end[2] = "KnownPacks" /\ end[3] = "FinishConfiguration"
  OBVIOUS
<1> DEFINE front == head \o row
           names == front \o end
<1> HIDE DEF head, row, end
<1>4. /\ front \in Seq(ConfigurationNames) /\ Len(front) = Len(head) + Len(row)
      /\ \A k \in 1 .. Len(head) : front[k] = head[k]
      /\ \A k \in Len(head) + 1 .. Len(head) + Len(row) : front[k] = row[k - Len(head)]
  BY ONLY <1>1
<1> HIDE DEF front
<1>5. /\ names \in Seq(ConfigurationNames) /\ Len(names) = Len(front) + Len(end)
      /\ \A k \in 1 .. Len(front) : names[k] = front[k]
      /\ \A k \in Len(front) + 1 .. Len(front) + Len(end) : names[k] = end[k - Len(front)]
  <2>1. front \in Seq(ConfigurationNames) /\ end \in Seq(ConfigurationNames)
    BY <1>1, <1>4
  <2>2. QED
    BY ONLY <2>1
<1> HIDE DEF names
<1>6. Len(front) = Registries + 2
  BY ONLY <1>0, <1>2, <1>4
<1>7. Len(names) = Registries + 5
  BY ONLY <1>0, <1>2, <1>5, <1>6
<1>8. names[1] = "CustomPayload" /\ names[2] = "FeatureFlags"
  BY ONLY <1>0, <1>2, <1>3, <1>4, <1>5, <1>6
<1>9. ASSUME NEW k \in 3 .. Registries + 2 PROVE names[k] = "RegistryData"
  <2>1. names[k] = front[k]
    BY ONLY <1>0, <1>5, <1>6
  <2>2. front[k] = row[k - 2] /\ k - 2 \in 1 .. Registries
    BY ONLY <1>0, <1>2, <1>4
  <2>3. QED
    BY <1>3, <2>1, <2>2
<1>10. /\ names[Registries + 3] = end[1] /\ names[Registries + 4] = end[2]
       /\ names[Registries + 5] = end[3]
  BY ONLY <1>0, <1>2, <1>5, <1>6
<1>11. names = ConfigurationBurstNames
  BY DEF names, front, head, row, end, ConfigurationBurstNames
<1>12. QED
  BY ONLY <1>3, <1>5, <1>7, <1>8, <1>9, <1>10, <1>11

(* The steps the view allows in Configuration.                                 *)
LEMMA ConfigurationSteps ==
  /\ CV!Steps(CV!Configuration) =
       {<<"CustomPayload", "FeatureFlags">>, <<"FeatureFlags", "RegistryData">>,
        <<"RegistryData", "UpdateTags">>, <<"UpdateTags", "KnownPacks">>,
        <<"KnownPacks", "FinishConfiguration">>}
BY DEF CV!Steps, CV!Configuration

(* send_configuration_burst, from Login.                                       *)
LEMMA ConfigurationOrdered ==
  ASSUME protocol = "1.21.1", NEW told, Opens(told, "CustomPayload")
  PROVE  Ordered(told, ConfigurationBurst, "Configuration")
<1> DEFINE names == ConfigurationBurstNames
<1>0. Registries \in Nat \ {0}
  BY SessionAssumption
<1>1. CV!Steps(CV!Configuration) \union {<<"RegistryData", "RegistryData">>} \subseteq CV!Follows
  BY DEF CV!Follows
<1>2. ASSUME NEW k \in 1 .. Registries + 4
      PROVE  <<names[k], names[k + 1]>> \in CV!Follows
  <2>0. /\ names[1] = "CustomPayload" /\ names[2] = "FeatureFlags"
        /\ \A i \in 3 .. Registries + 2 : names[i] = "RegistryData"
        /\ names[Registries + 3] = "UpdateTags" /\ names[Registries + 4] = "KnownPacks"
        /\ names[Registries + 5] = "FinishConfiguration"
    BY ConfigurationBurstIs
  <2> HIDE DEF names
  <2>1. CASE k = 1
    <3>1. names[k] = "CustomPayload" /\ names[k + 1] = "FeatureFlags"
      BY <1>0, <2>0, <2>1
    <3>2. <<"CustomPayload", "FeatureFlags">> \in CV!Follows
      BY <1>1, ConfigurationSteps
    <3>3. QED
      BY ONLY <3>1, <3>2
  <2>2. CASE k = 2
    <3>1. names[k] = "FeatureFlags" /\ names[k + 1] = "RegistryData"
      BY <1>0, <2>0, <2>2
    <3>2. <<"FeatureFlags", "RegistryData">> \in CV!Follows
      BY <1>1, ConfigurationSteps
    <3>3. QED
      BY ONLY <3>1, <3>2
  <2>3. CASE k \in 3 .. Registries + 1
    <3>1. names[k] = "RegistryData" /\ names[k + 1] = "RegistryData"
      BY <1>0, <2>0, <2>3
    <3>2. <<"RegistryData", "RegistryData">> \in CV!Follows
      BY <1>1, ConfigurationSteps
    <3>3. QED
      BY ONLY <3>1, <3>2
  <2>4. CASE k = Registries + 2
    <3>1. names[k] = "RegistryData" /\ names[k + 1] = "UpdateTags"
      BY <1>0, <2>0, <2>4
    <3>2. <<"RegistryData", "UpdateTags">> \in CV!Follows
      BY <1>1, ConfigurationSteps
    <3>3. QED
      BY ONLY <3>1, <3>2
  <2>5. CASE k = Registries + 3
    <3>1. names[k] = "UpdateTags" /\ names[k + 1] = "KnownPacks"
      BY <1>0, <2>0, <2>5
    <3>2. <<"UpdateTags", "KnownPacks">> \in CV!Follows
      BY <1>1, ConfigurationSteps
    <3>3. QED
      BY ONLY <3>1, <3>2
  <2>6. CASE k = Registries + 4
    <3>1. names[k] = "KnownPacks" /\ names[k + 1] = "FinishConfiguration"
      BY <1>0, <2>0, <2>6
    <3>2. <<"KnownPacks", "FinishConfiguration">> \in CV!Follows
      BY <1>1, ConfigurationSteps
    <3>3. QED
      BY ONLY <3>1, <3>2
  <2>7. QED
    BY <1>0, <2>1, <2>2, <2>3, <2>4, <2>5, <2>6
<1>3. names \in Seq(ConfigurationNames) /\ Len(names) = Registries + 5
  BY ConfigurationBurstIs
<1>4. CV!Steps(names) \subseteq CV!Follows
  <2>1. Len(names) - 1 = Registries + 4
    BY <1>0, <1>3
  <2>2. QED
    BY <1>2, <2>1 DEF CV!Steps
<1>5. names[1] = "CustomPayload" /\ names[Len(names)] = "FinishConfiguration"
  BY <1>3, ConfigurationBurstIs
<1>6. MayRest("Configuration", "FinishConfiguration")
  BY DEF MayRest
<1>7. Len(names) > 0 /\ Opens(told, names[1]) /\ MayRest("Configuration", names[Len(names)])
  BY <1>0, <1>3, <1>5, <1>6
<1> HIDE DEF names
<1>8. Ordered(told, Writes(names), "Configuration")
  BY <1>3, <1>4, <1>7, BurstOrdered
<1>9. QED
  BY <1>8 DEF names, ConfigurationBurst, ConfigurationBurstNames

(* A login that is accepted.                                                   *)
LEMMA AcceptIs ==
  ASSUME protocol \in Versions, NEW next \in {"none", "Play"}
  PROVE  /\ AcceptLogin(next) \in Seq(AnyWrite) /\ Len(AcceptLogin(next)) \in {1, 2}
         /\ AcceptLogin(next)[1].packet = CV!Accepted[1]
         /\ AcceptLogin(next)[Len(AcceptLogin(next))] = WriteThen("LoginSuccess", next)
         /\ Len(AcceptLogin(next)) = 2 => AcceptLogin(next)[1].next = "compress"
<1>1. {"LoginSuccess", "SetCompression"} \subseteq ServerPacketNames
  BY LoginPackets, PacketsAreNamed DEF States
<1>2. /\ WriteThen("SetCompression", "compress") \in AnyWrite
      /\ WriteThen("LoginSuccess", next) \in AnyWrite
  BY <1>1 DEF WriteThen, AnyWrite, Announces
<1>3. CASE compression
  <2> DEFINE first == WriteThen("SetCompression", "compress")
             second == WriteThen("LoginSuccess", next)
             todo == AcceptLogin(next)
  <2>1. todo = <<first>> \o <<second>>
    BY <1>3 DEF AcceptLogin
  <2>2. CV!Accepted[1] = "SetCompression"
    BY <1>3 DEF CV!Accepted
  <2>3. first.packet = "SetCompression" /\ first.next = "compress"
    BY DEF WriteThen
  <2> HIDE DEF first, second, todo
  <2>4. /\ <<first>> \in Seq(AnyWrite) /\ Len(<<first>>) = 1
        /\ <<second>> \in Seq(AnyWrite) /\ Len(<<second>>) = 1
    BY <1>2 DEF first, second
  <2>5. todo \in Seq(AnyWrite) /\ Len(todo) = 2 /\ todo[1] = first /\ todo[2] = second
    BY ONLY <2>1, <2>4
  <2>6. QED
    BY <2>2, <2>3, <2>5 DEF todo, second
<1>4. CASE ~compression
  <2>1. AcceptLogin(next) = <<WriteThen("LoginSuccess", next)>>
    BY <1>2, <1>4 DEF AcceptLogin
  <2>2. CV!Accepted[1] = "LoginSuccess"
    BY <1>4 DEF CV!Accepted
  <2>3. QED
    BY <1>2, <2>1, <2>2 DEF WriteThen
<1>5. QED
  BY <1>3, <1>4

(* SetCompression, if it is written, comes before LoginSuccess.                *)
LEMMA AcceptChained ==
  ASSUME protocol \in Versions, NEW next \in {"none", "Play"}
  PROVE  Chained(AcceptLogin(next))
<1> DEFINE todo == AcceptLogin(next)
<1>1. Len(todo) \in {1, 2}
  BY AcceptIs
<1>2. CASE Len(todo) = 1
  BY <1>2 DEF Chained
<1>3. CASE Len(todo) = 2
  <2>1. compression
    BY <1>3 DEF AcceptLogin
  <2>2. CV!Accepted = <<"SetCompression", "LoginSuccess">>
    BY <2>1 DEF CV!Accepted
  <2>3. <<"SetCompression", "LoginSuccess">> \in CV!Steps(CV!Accepted)
    BY <2>2 DEF CV!Steps
  <2>4. MayFollow("SetCompression", "LoginSuccess")
    BY <2>3 DEF MayFollow, CV!Follows
  <2>5. todo[1].packet = "SetCompression" /\ todo[2].packet = "LoginSuccess"
    <3>1. todo[1].packet = CV!Accepted[1] /\ todo[2] = WriteThen("LoginSuccess", next)
      BY <1>3, AcceptIs
    <3>2. QED
      BY <2>2, <3>1 DEF WriteThen
  <2> HIDE DEF todo
  <2>6. \A k \in 2 .. Len(todo) : k = 2
    BY <1>3
  <2>7. QED
    BY <2>4, <2>5, <2>6 DEF Chained, todo
<1>4. QED
  BY <1>1, <1>2, <1>3

(* A login accepted in 1.21.1, once or again.                                  *)
LEMMA AcceptOrdered ==
  ASSUME protocol = "1.21.1", NEW told, Opens(told, CV!Accepted[1])
  PROVE  Ordered(told, AcceptLogin("none"), "Login")
<1> DEFINE todo == AcceptLogin("none")
<1>0. protocol \in Versions
  BY DEF Versions
<1>1. /\ todo \in Seq(AnyWrite) /\ Len(todo) \in {1, 2}
      /\ todo[1].packet = CV!Accepted[1]
      /\ todo[Len(todo)] = WriteThen("LoginSuccess", "none")
      /\ Len(todo) = 2 => todo[1].next = "compress"
  BY <1>0, AcceptIs
<1>2. Chained(todo)
  BY <1>0, AcceptChained
<1> HIDE DEF todo
<1>3. todo[Len(todo)].packet = "LoginSuccess" /\ todo[Len(todo)].next = "none"
  BY <1>1 DEF WriteThen
<1>4. Leads(todo, "Login") = "Login"
  <2>1. ~\E k \in 1 .. Len(todo) : todo[k].next = "Play"
    BY <1>1, <1>3
  <2>2. QED
    BY <2>1 DEF Leads
<1>5. Closes(todo, "Login")
  BY <1>3, <1>4 DEF Closes, MayRest
<1>6. todo # << >>
  BY <1>1
<1>7. Ordered(told, todo, "Login")
  BY <1>1, <1>2, <1>5, <1>6 DEF Ordered
<1>8. QED
  BY <1>7 DEF todo

(* Two paths make one if the second starts where the first ends.               *)
LEMMA ChainsJoin ==
  ASSUME NEW A, NEW s \in Seq(A), NEW t \in Seq(A), Len(s) > 0, Len(t) > 0,
         Chained(s), Chained(t), MayFollow(s[Len(s)].packet, t[1].packet)
  PROVE  Chained(s \o t)
<1> DEFINE st == s \o t
<1>1. /\ Len(s) \in Nat /\ Len(t) \in Nat /\ Len(st) = Len(s) + Len(t)
      /\ \A k \in 1 .. Len(s) : st[k] = s[k]
      /\ \A k \in Len(s) + 1 .. Len(st) : st[k] = t[k - Len(s)]
  OBVIOUS
<1> HIDE DEF st
<1>2. ASSUME NEW k \in 2 .. Len(st)
      PROVE  MayFollow(st[k - 1].packet, st[k].packet)
  <2>1. CASE k \in 2 .. Len(s)
    <3>1. k - 1 \in 1 .. Len(s) /\ k \in 1 .. Len(s)
      BY <1>1, <2>1
    <3>2. st[k - 1] = s[k - 1] /\ st[k] = s[k]
      BY ONLY <1>1, <3>1
    <3>3. QED
      BY <2>1, <3>2 DEF Chained
  <2>2. CASE k = Len(s) + 1
    <3>1. st[k - 1] = s[Len(s)] /\ st[k] = t[1]
      BY <1>1, <2>2
    <3>2. QED
      BY <3>1
  <2>3. CASE k \in Len(s) + 2 .. Len(st)
    <3>1. k - Len(s) \in 2 .. Len(t) /\ st[k] = t[k - Len(s)]
      BY <1>1, <2>3
    <3>2. k - 1 \in Len(s) + 1 .. Len(st) /\ (k - 1) - Len(s) = (k - Len(s)) - 1
      BY <1>1, <2>3
    <3>3. st[k - 1] = t[(k - Len(s)) - 1]
      BY <1>1, <3>2
    <3>4. QED
      BY <3>1, <3>3 DEF Chained
  <2>4. QED
    BY <1>1, <2>1, <2>2, <2>3
<1>3. QED
  BY <1>2 DEF Chained, st

(* A login accepted in 1.20.1, and the burst behind it.                        *)
LEMMA AcceptAndPlayOrdered ==
  ASSUME protocol = "1.20.1", NEW told, Opens(told, CV!Accepted[1])
  PROVE  Ordered(told, AcceptLogin("Play") \o PlayBurst_1_20_1, "Login")
<1> DEFINE accept == AcceptLogin("Play")
           burst == PlayBurst_1_20_1
           todo == accept \o burst
<1>0. protocol \in Versions
  BY DEF Versions
<1>1. /\ accept \in Seq(AnyWrite) /\ Len(accept) \in {1, 2}
      /\ accept[1].packet = CV!Accepted[1]
      /\ accept[Len(accept)] = WriteThen("LoginSuccess", "Play")
  BY <1>0, AcceptIs
<1>2. burst = Writes(OldBurst)
  BY DEF PlayBurst_1_20_1, OldBurst
<1>3. burst \in Seq(AnyWrite)
  <2>1. burst \in Seq(Staying("Play"))
    BY <1>0, OldBurstStays DEF Stays
  <2>2. QED
    BY <2>1 DEF Staying
<1>4. Len(burst) = 8 /\ burst[1].packet = "Login" /\ burst[8].packet = "GameEvent"
  <2>1. OldBurst \in Seq(Names) /\ Len(OldBurst) = 8
    BY Bursts
  <2>2. /\ Len(burst) = Len(OldBurst)
        /\ \A k \in 1 .. Len(OldBurst) : burst[k].packet = OldBurst[k]
    BY <1>2, <2>1, WritesAre
  <2>3. 1 \in 1 .. Len(OldBurst) /\ 8 \in 1 .. Len(OldBurst)
    BY <2>1
  <2>4. burst[1].packet = OldBurst[1] /\ burst[8].packet = OldBurst[8]
    BY <2>2, <2>3
  <2>5. QED
    BY <2>1, <2>2, <2>4 DEF OldBurst
<1>5. Chained(burst)
  <2>1. CV!Steps(OldBurst) \subseteq CV!Follows
    BY OldPlay DEF CV!Follows
  <2>2. QED
    BY <1>2, <2>1, Bursts, StepsChain
<1>6. Chained(accept)
  BY <1>0, AcceptChained
<1> HIDE DEF accept, burst
<1>7. accept[Len(accept)].packet = "LoginSuccess" /\ accept[Len(accept)].next = "Play"
  BY <1>1 DEF WriteThen
<1>8. MayFollow(accept[Len(accept)].packet, burst[1].packet)
  BY <1>4, <1>7 DEF MayFollow, CV!Follows
<1>9. Chained(todo)
  BY <1>1, <1>3, <1>4, <1>5, <1>6, <1>8, ChainsJoin
<1>10. /\ todo \in Seq(AnyWrite)
       /\ Len(todo) = Len(accept) + 8
       /\ \A k \in 1 .. Len(accept) : todo[k] = accept[k]
       /\ todo[Len(accept) + 8] = burst[8]
  <2>1. accept \in Seq(AnyWrite) /\ Len(accept) \in Nat
    BY <1>1
  <2>2. todo \in Seq(AnyWrite) /\ Len(todo) = Len(accept) + Len(burst)
    BY ONLY <1>3, <2>1
  <2>3. \A k \in 1 .. Len(accept) : todo[k] = accept[k]
    BY ONLY <1>3, <2>1
  <2>4. \A k \in 1 .. Len(burst) : todo[Len(accept) + k] = burst[k]
    BY ONLY <1>3, <2>1
  <2>5. 8 \in 1 .. Len(burst) /\ Len(burst) = 8
    BY <1>4
  <2>6. QED
    BY ONLY <2>2, <2>3, <2>4, <2>5
<1> HIDE DEF todo
<1>11. Leads(todo, "Login") = "Play"
  <2>1. Len(accept) \in 1 .. Len(todo) /\ todo[Len(accept)].next = "Play"
    BY <1>1, <1>7, <1>10
  <2>2. QED
    BY <2>1 DEF Leads
<1>12. Closes(todo, "Login")
  BY <1>4, <1>10, <1>11 DEF Closes, MayRest
<1>13. todo[1].packet = CV!Accepted[1] /\ todo # << >>
  BY <1>1, <1>10
<1>14. Ordered(told, todo, "Login")
  BY <1>9, <1>12, <1>13 DEF Ordered
<1>15. QED
  BY <1>14 DEF todo, accept, burst
------------------------------------------------------------------------------
(* The registries in the lists of writes: only ConfigurationBurst has them.    *)
Plain(todo) ==
  \A k \in 1 .. Len(todo) : todo[k].packet \notin {"RegistryData", "UpdateTags"}

(* Where there are none, there is nothing to count.                            *)
LEMMA PlainCounted ==
  ASSUME NEW todo, Plain(todo), NEW streamed
  PROVE  Counted(streamed, todo)
<1>1. Row(streamed, todo, 0, 0)
  BY DEF Row, Plain
<1>2. QED
  BY <1>1 DEF Counted

(* In Play there are none.                                                     *)
LEMMA PlayPlain ==
  ASSUME NEW writes \in Seq(Staying("Play")), protocol \in Versions
  PROVE  Plain(writes)
<1>1. {"RegistryData", "UpdateTags"} \cap Here("Play") = {}
  BY DEF Here, ServerPackets, S2C_1_20_1, S2C_1_21_1, S2C_Play_1_20_1, S2C_Play_1_21_1, Versions
<1>2. QED
  BY <1>1 DEF Plain, Staying

(* Nor are there in Handshake, Status and Login.                               *)
LEMMA EarlyPackets ==
  ASSUME protocol \in Versions, NEW there \in Early
  PROVE  {"RegistryData", "UpdateTags"} \cap Here(there) = {}
BY DEF Here, ServerPackets, S2C_1_20_1, S2C_1_21_1, S2C_Login, S2C_Status, NoPackets,
       Versions, Early

(* What a handler of those states writes has none, entering Play included.     *)
LEMMA EarlyPlain ==
  ASSUME protocol \in Versions, NEW there \in Early, NEW writes, Fits(there, writes)
  PROVE  Plain(writes)
<1>1. CASE Stays(there, writes)
  BY <1>1, EarlyPackets DEF Plain, Stays, Staying
<1>2. CASE EntersPlay(there, writes)
  <2>1. PICK k \in 1 .. Len(writes) :
          /\ writes[k].packet \in Here("Login")
          /\ \A i \in 1 .. k - 1 : writes[i] \in Staying("Login")
          /\ \A i \in k + 1 .. Len(writes) : writes[i] \in Staying("Play")
    BY <1>2 DEF EntersPlay
  <2>2. {"RegistryData", "UpdateTags"} \cap Here("Login") = {}
    BY EarlyPackets DEF Early
  <2>3. {"RegistryData", "UpdateTags"} \cap Here("Play") = {}
    BY DEF Here, ServerPackets, S2C_1_20_1, S2C_1_21_1, S2C_Play_1_20_1, S2C_Play_1_21_1,
           Versions
  <2>4. Len(writes) \in Nat
    BY <1>2 DEF EntersPlay
  <2>5. ASSUME NEW i \in 1 .. Len(writes)
        PROVE  writes[i].packet \in Here("Login") \union Here("Play")
    BY <2>1, <2>4 DEF Staying
  <2>6. QED
    BY <2>2, <2>3, <2>5 DEF Plain
<1>3. QED
  BY <1>1, <1>2 DEF Fits

(* ConfigurationBurst streams all registries, once, and then the tags.         *)
LEMMA ConfigurationCounted == Counted(0, ConfigurationBurst)
<1> DEFINE names == ConfigurationBurstNames
           todo == ConfigurationBurst
<1>0. Registries \in Nat \ {0}
  BY SessionAssumption
<1>1. /\ Len(names) = Registries + 5 /\ names \in Seq(ConfigurationNames)
      /\ names[1] = "CustomPayload" /\ names[2] = "FeatureFlags"
      /\ \A k \in 3 .. Registries + 2 : names[k] = "RegistryData"
      /\ names[Registries + 3] = "UpdateTags" /\ names[Registries + 4] = "KnownPacks"
      /\ names[Registries + 5] = "FinishConfiguration"
  BY ConfigurationBurstIs
<1>2. todo = Writes(names)
  BY DEF ConfigurationBurst, ConfigurationBurstNames
<1> HIDE DEF names, todo
<1>3. /\ Len(todo) = Len(names)
      /\ \A k \in 1 .. Len(names) : todo[k].packet = names[k]
  BY <1>1, <1>2, WritesAre
<1>4. \A k \in 1 .. Len(todo) :
        \/ k \in 1 .. 2 /\ todo[k].packet \in {"CustomPayload", "FeatureFlags"}
        \/ k \in 3 .. Registries + 2 /\ todo[k].packet = "RegistryData"
        \/ k = Registries + 3 /\ todo[k].packet = "UpdateTags"
        \/ k > Registries + 3 /\ todo[k].packet \in {"KnownPacks", "FinishConfiguration"}
  BY <1>0, <1>1, <1>3
<1>5. Row(0, todo, 2, Registries)
  <2>1. \A k \in 1 .. Len(todo) :
          todo[k].packet = "RegistryData" <=> k \in 2 + 1 .. 2 + Registries
    BY <1>0, <1>4
  <2>2. \A k \in 1 .. Len(todo) :
          todo[k].packet = "UpdateTags" => k > 2 + Registries /\ 0 + Registries = Registries
    BY <1>0, <1>4
  <2>3. 2 + Registries <= Len(todo) /\ 0 + Registries = Registries
    BY <1>0, <1>1, <1>3
  <2>4. QED
    BY <2>1, <2>2, <2>3 DEF Row
<1>6. QED
  BY <1>0, <1>5 DEF Counted, todo
------------------------------------------------------------------------------
(* Whatever is decoded, the handler's writes take up where the client is.      *)
Takes(handling) ==
  /\ Ordered(sent, handling.writes, handling.enters)
  /\ handling.enters \in Early => state \in Early
  /\ Counted(Streamed(sent), handling.writes)

(* A handler that writes nothing.                                              *)
LEMMA NothingTaken ==
  ASSUME NEW there, Rests(sent, there), there \in Early => state \in Early
  PROVE  Takes(Do(there, << >>))
<1>1. Ordered(sent, << >>, there)
  BY DEF Ordered
<1>2. Plain(<< >>)
  BY DEF Plain
<1>3. QED
  BY <1>1, <1>2, PlainCounted DEF Takes, Do

(* A handler that writes one packet.                                           *)
LEMMA OneTaken ==
  ASSUME protocol \in Versions, Rests(sent, state), NEW packet, Admits(state, packet),
         MayRest(state, packet), packet \notin {"RegistryData", "UpdateTags"}
  PROVE  Takes(Do(state, <<Write(packet)>>))
<1>1. Ordered(sent, <<Write(packet)>>, state)
  BY Opening, OneOrdered
<1>2. Plain(<<Write(packet)>>)
  BY DEF Plain, Write
<1>3. QED
  BY <1>1, <1>2, PlainCounted DEF Takes, Do

(* dispatch_packet, state by state.                                            *)
LEMMA HandlersTake ==
  ASSUME protocol \in Versions, state \in States,
         protocol = "1.20.1" => state # "Configuration",
         Rests(sent, state), state \in Early => Streamed(sent) = 0,
         NEW id, NEW got \in decode(protocol, state, id), got.name # "none",
         ~dispatch_packet(got).fails
  PROVE  Takes(dispatch_packet(got))
<1>1. CASE state = "Handshake"
  <2>1. got.name = "Handshake"
    BY <1>1 DEF dispatch_packet, handle_handshake, Fail
  <2>2. got.field \in {"status", "login", "transfer", "other version"}
    BY <2>1, DecodesFields DEF Fields
  <2>3. dispatch_packet(got) \in {Do("Status", << >>), Do("Login", << >>)}
    BY <1>1, <2>1, <2>2 DEF dispatch_packet, handle_handshake, Fail
  <2>4. sent = << >>
    BY <1>1 DEF Rests, MayRest
  <2>5. Rests(sent, "Status") /\ Rests(sent, "Login") /\ state \in Early
    BY <1>1, <2>4 DEF Rests, Early
  <2>6. QED
    BY <2>3, <2>5, NothingTaken
<1>2. CASE state = "Status"
  <2>1. dispatch_packet(got) \in {Do(state, <<Write("StatusResponse")>>),
                                  Do(state, <<Write("Pong")>>)}
    BY <1>2 DEF dispatch_packet, handle_status, Fail
  <2>2. ASSUME NEW packet \in {"StatusResponse", "Pong"}
        PROVE  Admits(state, packet) /\ MayRest(state, packet)
    BY <1>2 DEF Admits, MayRest
  <2>3. QED
    BY <2>1, <2>2, OneTaken
<1>3. CASE state = "Login"
  <2>1. dispatch_packet(got) = handle_login(got)
    BY <1>3 DEF dispatch_packet
  <2>2. /\ Admits(state, "Disconnect") /\ Admits(state, CV!Accepted[1])
        /\ protocol = "1.21.1" => Admits(state, "CustomPayload")
    BY <1>3 DEF Admits, CV!Attempts, CV!Refused
  <2>3. Opens(sent, CV!Accepted[1]) /\ (protocol = "1.21.1" => Opens(sent, "CustomPayload"))
    BY <2>2, Opening
  <2>4. CASE got.name \in {"LoginStart", "Hello"} /\ got.field = "invalid name"
    <3>1. dispatch_packet(got) = Do(state, <<Write("Disconnect")>>)
      BY <1>3, <2>1, <2>4 DEF handle_login
    <3>2. MayRest(state, "Disconnect")
      BY <1>3 DEF MayRest
    <3>3. QED
      BY <2>2, <3>1, <3>2, OneTaken
  <2>5. CASE got.name = "LoginStart" /\ got.field = "valid name"
    <3>1. dispatch_packet(got) = Do("Login", AcceptLogin("Play") \o PlayBurst_1_20_1)
      BY <2>1, <2>5 DEF handle_login
    <3>2. protocol = "1.20.1"
      BY <1>3, <2>5, DecodesVersion
    <3>3. Ordered(sent, AcceptLogin("Play") \o PlayBurst_1_20_1, "Login")
      BY <2>3, <3>2, AcceptAndPlayOrdered
    <3>4. Plain(AcceptLogin("Play") \o PlayBurst_1_20_1)
      BY <3>2, AcceptEntersPlay, EarlyPlain DEF Fits, Early
    <3>5. QED
      BY <1>3, <3>1, <3>3, <3>4, PlainCounted DEF Takes, Do
  <2>6. CASE got.name = "Hello" /\ got.field = "valid name"
    <3>1. dispatch_packet(got) = Do("Login", AcceptLogin("none"))
      BY <2>1, <2>6 DEF handle_login
    <3>2. protocol = "1.21.1"
      BY <1>3, <2>6, DecodesVersion DEF Versions
    <3>3. Ordered(sent, AcceptLogin("none"), "Login")
      BY <2>3, <3>2, AcceptOrdered
    <3>4. Plain(AcceptLogin("none"))
      BY AcceptStays, EarlyPlain DEF Fits, Early
    <3>5. QED
      BY <1>3, <3>1, <3>3, <3>4, PlainCounted DEF Takes, Do
  <2>7. CASE got.name = "LoginAcknowledged"
    <3>1. dispatch_packet(got) = Do("Configuration", ConfigurationBurst)
      BY <2>1, <2>7 DEF handle_login
    <3>2. protocol = "1.21.1"
      BY <1>3, <2>7, DecodesVersion DEF Versions
    <3>3. Ordered(sent, ConfigurationBurst, "Configuration")
      BY <2>3, <3>2, ConfigurationOrdered
    <3>4. Streamed(sent) = 0
      BY <1>3 DEF Early
    <3>5. QED
      BY <1>3, <3>1, <3>3, <3>4, ConfigurationCounted DEF Takes, Do, Early
  <2>8. CASE got.name = "LoginStart" \/ got.name = "Hello"
    <3>1. got.field \in {"valid name", "invalid name"}
      BY <2>8, DecodesFields DEF Fields
    <3>2. QED
      BY <2>4, <2>5, <2>6, <2>8, <3>1
  <2>9. CASE got.name \notin {"LoginStart", "Hello", "LoginAcknowledged"}
    <3>1. dispatch_packet(got) = Fail
      BY ONLY <2>1, <2>9 DEF handle_login
    <3>2. Fail.fails
      BY DEF Fail
    <3>3. QED
      BY ONLY <3>1, <3>2, ~dispatch_packet(got).fails
  <2>10. QED
    BY <2>7, <2>8, <2>9
<1>4. CASE state = "Configuration"
  <2>1. protocol = "1.21.1"
    BY <1>4 DEF Versions
  <2>2. dispatch_packet(got) \in {Do("Play", PlayBurst_1_21_1), Do("Configuration", << >>)}
    BY <1>4 DEF dispatch_packet, handle_configuration, Fail
  <2>3. CASE dispatch_packet(got) = Do("Play", PlayBurst_1_21_1)
    <3>1. Admits(state, "Login")
      BY <1>4, <2>1 DEF Admits
    <3>2. Ordered(sent, PlayBurst_1_21_1, "Play")
      BY <2>1, <3>1, Opening, NewBurstOrdered
    <3>3. Plain(PlayBurst_1_21_1)
      BY <2>1, NewBurstStays, PlayPlain DEF Stays
    <3>4. "Play" \notin Early
      BY DEF Early
    <3>5. QED
      BY <2>3, <3>2, <3>3, <3>4, PlainCounted DEF Takes, Do
  <2>4. CASE dispatch_packet(got) = Do("Configuration", << >>)
    BY <1>4, <2>4, NothingTaken
  <2>5. QED
    BY <2>2, <2>3, <2>4
<1>5. CASE state = "Play"
  <2>1. dispatch_packet(got) = Do("Play", << >>)
    BY <1>5 DEF dispatch_packet, handle_play
  <2>2. QED
    BY <1>5, <2>1, NothingTaken
<1>6. QED
  BY <1>1, <1>2, <1>3, <1>4, <1>5 DEF States
------------------------------------------------------------------------------
View == Order /\ Count

(* The order of packets depends on the configuration alone.                    *)
LEMMA SameView ==
  ASSUME UNCHANGED config
  PROVE  CV!Follows' = CV!Follows /\ CV!First' = CV!First
BY DEF config, CV!Follows, CV!First, CV!Status, CV!Steps, CV!Accepted, CV!Refused, CV!Attempts,
       CV!Play, CV!ChunkOld, CV!ChunkNew, CV!Configuration

(* So what fits after a step fits in the next state.                           *)
LEMMA Lifts ==
  ASSUME UNCHANGED config, Ordered(sent', script', state')
  PROVE  Ordered(sent, script, state)'
BY SameView DEF config, Ordered, Opens, Chained, Closes, Leads, Rests, MayRest, MayFollow, Early

(* The same for the whole invariant.                                           *)
LEMMA ViewLifts ==
  ASSUME UNCHANGED config, Ordered(sent', script', state'),
         state' \in Early => Streamed(sent') = 0,
         Counted(Streamed(sent'), script'),
         pc' \in {"parse", "wait"} => script' = << >>
  PROVE  View'
<1>1. Ordered(sent, script, state)'
  BY Lifts
<1>2. QED
  BY <1>1 DEF View, Order, Idle, Count, Streamed, Counted, Row, Early
------------------------------------------------------------------------------
(* What the client has seen of the stream.                                     *)
SeenOf(told) == [i \in DOMAIN told |-> told[i].packet]

(* The names in a stream of frames.                                            *)
LEMMA SeenSeq ==
  ASSUME NEW told \in Seq(Frame)
  PROVE  /\ SeenOf(told) \in Seq(ServerPacketNames) /\ Len(SeenOf(told)) = Len(told)
         /\ \A i \in 1 .. Len(told) : SeenOf(told)[i] = told[i].packet
<1>1. Len(told) \in Nat /\ DOMAIN told = 1 .. Len(told)
  OBVIOUS
<1>2. \A i \in 1 .. Len(told) : told[i] \in Frame
  OBVIOUS
<1>3. \A i \in 1 .. Len(told) : told[i].packet \in ServerPacketNames
  BY <1>2 DEF Frame
<1>4. SeenOf(told) = [i \in 1 .. Len(told) |-> told[i].packet]
  BY <1>1 DEF SeenOf
<1>5. QED
  BY ONLY <1>1, <1>3, <1>4

(* The last name is the last frame's.                                          *)
LEMMA SeenIs ==
  ASSUME NEW told \in Seq(Frame)
  PROVE  /\ SeenOf(told) \in Seq(ServerPacketNames) /\ Len(SeenOf(told)) = Len(told)
         /\ SeenOf(told) = << >> <=> told = << >>
         /\ told # << >> => CV!Last(SeenOf(told)) = told[Len(told)].packet
<1>1. /\ SeenOf(told) \in Seq(ServerPacketNames) /\ Len(SeenOf(told)) = Len(told)
      /\ \A i \in 1 .. Len(told) : SeenOf(told)[i] = told[i].packet
  BY SeenSeq
<1>2. SeenOf(told) = << >> <=> told = << >>
  BY <1>1, EmptySeq
<1>3. ASSUME told # << >> PROVE CV!Last(SeenOf(told)) = told[Len(told)].packet
  <2>1. Len(told) \in 1 .. Len(told)
    BY <1>3, EmptySeq
  <2>2. QED
    BY <1>1, <2>1 DEF CV!Last
<1>4. QED
  BY <1>1, <1>2, <1>3

(* A frame more is a name more.                                                *)
LEMMA SeenAppend ==
  ASSUME NEW told \in Seq(Frame), NEW frame \in Frame
  PROVE  SeenOf(Append(told, frame)) = Append(SeenOf(told), frame.packet)
<1> DEFINE after == Append(told, frame)
<1>1. /\ after \in Seq(Frame) /\ Len(after) = Len(told) + 1 /\ Len(told) \in Nat
      /\ \A i \in 1 .. Len(told) : after[i] = told[i]
      /\ after[Len(told) + 1] = frame
  OBVIOUS
<1> HIDE DEF after
<1>2. /\ SeenOf(told) \in Seq(ServerPacketNames) /\ Len(SeenOf(told)) = Len(told)
      /\ \A i \in 1 .. Len(told) : SeenOf(told)[i] = told[i].packet
  BY SeenSeq
<1>3. /\ SeenOf(after) \in Seq(ServerPacketNames) /\ Len(SeenOf(after)) = Len(after)
      /\ \A i \in 1 .. Len(after) : SeenOf(after)[i] = after[i].packet
  BY <1>1, SeenSeq
<1>4. frame.packet \in ServerPacketNames
  BY DEF Frame
<1> DEFINE longer == Append(SeenOf(told), frame.packet)
<1>5. /\ longer \in Seq(ServerPacketNames) /\ Len(longer) = Len(told) + 1
      /\ \A i \in 1 .. Len(told) : longer[i] = told[i].packet
      /\ longer[Len(told) + 1] = frame.packet
  BY <1>2, <1>4
<1> HIDE DEF longer
<1>6. \A i \in 1 .. Len(after) : SeenOf(after)[i] = longer[i]
  BY <1>1, <1>3, <1>5
<1>7. SeenOf(after) = longer
  BY <1>1, <1>3, <1>5, <1>6, SeqEqual
<1>8. QED
  BY <1>7 DEF after, longer

(* A write that is recorded tells the client one packet the protocol allows.   *)
LEMMA TellsOne ==
  ASSUME NEW frame \in Frame, sent \in Seq(Frame), sent' = Append(sent, frame),
         UNCHANGED config,
         IF sent = << >> THEN frame.packet \in CV!First
         ELSE <<sent[Len(sent)].packet, frame.packet>> \in CV!Follows,
         frame.packet = "RegistryData" => Streamed(sent) < Registries,
         frame.packet = "UpdateTags" => Streamed(sent) = Registries
  PROVE  CV!Next
<1> DEFINE packet == frame.packet
           named == {pair[2] : pair \in CV!Follows} \union CV!First
<1>1. packet \in named
  <2>1. CASE sent = << >>
    BY <2>1
  <2>2. CASE sent # << >>
    <3> DEFINE pair == <<sent[Len(sent)].packet, packet>>
    <3>1. pair \in CV!Follows /\ pair[2] = packet
      BY <2>2
    <3>2. QED
      BY <3>1
  <2>3. QED
    BY <2>1, <2>2
<1>2. IF SeenOf(sent) = << >> THEN packet \in CV!First
      ELSE <<CV!Last(SeenOf(sent)), packet>> \in CV!Follows
  BY SeenIs
<1>3. SeenOf(sent') = Append(SeenOf(sent), packet)
  BY SeenAppend
<1>4. Streamed(sent') = IF packet = "RegistryData" THEN Streamed(sent) + 1 ELSE Streamed(sent)
  BY OneMoreStreamed
<1> HIDE DEF packet
<1>5. CV!Tell(packet)
  <2>1. packet = "RegistryData" => Streamed(sent) < Registries
    BY DEF packet
  <2>2. packet = "UpdateTags" => Streamed(sent) = Registries
    BY DEF packet
  <2>3. UNCHANGED <<protocol, compression>>
    BY DEF config
  <2>4. QED
    BY ONLY <1>2, <1>3, <1>4, <2>1, <2>2, <2>3 DEF CV!Tell, SeenOf, Streamed
<1>6. QED
  BY <1>1, <1>5 DEF CV!Next
------------------------------------------------------------------------------
(* A write that returns tells the client one packet more, or a keepalive       *)
(* again.                                                                      *)
LEMMA WriteTells ==
  ASSUME Machine, Formats, View, WriteDone
  PROVE  View' /\ (CV!Next \/ UNCHANGED CV!cvars)
<1> DEFINE write == Head(script)
           frame == [packet |-> write.packet, compressed |-> compressed]
           then == IF write.next = "Play" THEN "Play" ELSE state
<1>1. /\ pc = "write" /\ script' = Tail(script) /\ UNCHANGED config
      /\ sent' = IF sent # << >> /\ Last(sent) = frame /\ frame.packet = "KeepAlive"
                 THEN sent ELSE Append(sent, frame)
      /\ state' = then
      /\ pc' = IF Len(script) = 1 THEN "parse" ELSE "write"
  BY DEF WriteDone, Record, Format
<1>2. script \in Seq(AnyWrite) /\ script # << >> /\ script[1] = write
  BY <1>1 DEF Machine, Fits, Stays, EntersPlay, Staying
<1>3. Ordered(sent, script, state) /\ Counted(Streamed(sent), script)
  BY DEF View, Order, Count
<1>4. write \in AnyWrite /\ write.packet \in Here(state)
  BY <1>1, NextWrite
<1>5. frame \in Frame /\ frame.packet = write.packet /\ (frame.compressed <=> compressed)
  BY <1>4 DEF AnyWrite, Frame, Formats
<1>6. sent \in Seq(Frame) /\ Streamed(sent) \in Nat
  BY <1>5, OneMoreStreamed DEF Formats
<1>7. pc' \in {"parse", "wait"} => script' = << >>
  <2>1. Len(script) = 1 => Tail(script) = << >>
    <3>1. Tail(script) \in Seq(AnyWrite) /\ Len(Tail(script)) = Len(script) - 1
      BY <1>2
    <3>2. Len(script) = 1 => Len(Tail(script)) = 0
      BY ONLY <3>1
    <3>3. Len(Tail(script)) = 0 => Tail(script) = << >>
      BY ONLY <3>1, EmptySeq
    <3>4. QED
      BY ONLY <3>2, <3>3, Zenon
  <2>2. QED
    BY ONLY <1>1, <2>1
<1>8. state' \in Early => state \in Early /\ Streamed(sent) = 0 /\ write.packet # "RegistryData"
  <2>1. state' \in Early => state \in Early
    BY <1>1 DEF Early
  <2>2. state \in Early => Streamed(sent) = 0
    BY DEF View, Count
  <2>3. state \in Early => write.packet # "RegistryData"
    BY <1>4, EarlyPackets DEF Machine
  <2>4. QED
    BY <2>1, <2>2, <2>3
<1>9. /\ write.packet = "RegistryData" =>
           Streamed(sent) < Registries /\ Counted(Streamed(sent) + 1, Tail(script))
      /\ write.packet # "RegistryData" => Counted(Streamed(sent), Tail(script))
      /\ write.packet = "UpdateTags" => Streamed(sent) = Registries
  BY <1>2, <1>3, <1>6, NextRow
<1> HIDE DEF write, frame, then
<1>10. CASE sent # << >> /\ Last(sent) = frame /\ frame.packet = "KeepAlive"
  <2>1. sent' = sent
    BY <1>1, <1>10
  <2>2. sent[Len(sent)].packet = script[1].packet
    BY <1>2, <1>5, <1>10 DEF Last
  <2>3. Ordered(sent, Tail(script), then)
    BY <1>2, <1>3, <1>10, <2>2, NextOrdered DEF then
  <2>4. Ordered(sent', script', state')
    BY <1>1, <2>1, <2>3
  <2>5. Counted(Streamed(sent'), script')
    BY <1>1, <1>5, <1>9, <1>10, <2>1
  <2>6. state' \in Early => Streamed(sent') = 0
    BY <1>8, <2>1
  <2>7. View'
    BY <1>1, <1>7, <2>4, <2>5, <2>6, ViewLifts
  <2>8. UNCHANGED CV!cvars
    BY <1>1, <2>1 DEF CV!cvars, config
  <2>9. QED
    BY <2>7, <2>8
<1>11. CASE ~(sent # << >> /\ Last(sent) = frame /\ frame.packet = "KeepAlive")
  <2> DEFINE after == Append(sent, frame)
  <2>1. sent' = after
    BY <1>1, <1>11
  <2>2. /\ after \in Seq(Frame) /\ Len(after) = Len(sent) + 1 /\ Len(sent) \in Nat
        /\ after[Len(after)] = frame
    BY <1>5, <1>6
  <2>3. after # << >> /\ after[Len(after)].packet = script[1].packet
    BY <1>2, <1>5, <2>2, EmptySeq
  <2>4. Streamed(after) =
          IF write.packet = "RegistryData" THEN Streamed(sent) + 1 ELSE Streamed(sent)
    BY <1>5, <1>6, OneMoreStreamed
  <2> HIDE DEF after
  <2>5. Ordered(after, Tail(script), then)
    BY <1>2, <1>3, <2>3, NextOrdered DEF then
  <2>6. Ordered(sent', script', state')
    BY <1>1, <2>1, <2>5
  <2>7. Counted(Streamed(sent'), script')
    BY <1>1, <1>9, <2>1, <2>4
  <2>8. state' \in Early => Streamed(sent') = 0
    BY <1>8, <2>1, <2>4
  <2>9. View'
    BY <1>1, <1>7, <2>6, <2>7, <2>8, ViewLifts
  <2>10. Opens(sent, write.packet)
    BY <1>2, <1>3 DEF Ordered
  <2>11. ASSUME sent # << >>
         PROVE  <<sent[Len(sent)].packet, frame.packet>> \in CV!Follows
    <3> DEFINE before == sent[Len(sent)]
    <3>1. MayFollow(before.packet, write.packet)
      BY <2>10, <2>11 DEF Opens
    <3>2. CASE before.packet = "KeepAlive" /\ write.packet = "KeepAlive"
      <4>1. Len(sent) \in Nat /\ Len(sent) # 0
        BY <1>6, <2>11, EmptySeq
      <4>2. before \in Frame
        BY <1>6, <4>1
      <4>3. before.compressed <=> \E j \in 1 .. Len(sent) - 1 : sent[j].packet = "SetCompression"
        BY <4>1 DEF Formats, InFormat
      <4>4. (\E j \in 1 .. Len(sent) - 1 : sent[j].packet = "SetCompression") <=> Announced(sent)
        BY <3>2, <4>1 DEF Announced
      <4>5. before.compressed <=> frame.compressed
        BY <1>5, <4>3, <4>4 DEF Formats
      <4>6. before.compressed = frame.compressed
        BY <1>5, <4>2, <4>5 DEF Frame
      <4>7. before = frame
        BY <1>5, <3>2, <4>2, <4>6 DEF Frame
      <4>8. Last(sent) = frame /\ frame.packet = "KeepAlive"
        BY <1>5, <3>2, <4>7 DEF Last
      <4>9. QED
        BY <1>11, <2>11, <4>8
    <3>3. QED
      BY <1>5, <3>1, <3>2 DEF MayFollow
  <2>12. sent = << >> => frame.packet \in CV!First
    BY <1>5, <2>10 DEF Opens
  <2>13. CV!Next
    BY <1>1, <1>5, <1>6, <1>9, <2>1, <2>11, <2>12, TellsOne DEF after
  <2>14. QED
    BY <2>9, <2>13
<1>12. QED
  BY <1>10, <1>11

(* Every other step tells the client nothing, and leaves the invariant.        *)
LEMMA NextView ==
  ASSUME Machine, Formats, View, [Next]_vars
  PROVE  View' /\ (CV!Next \/ UNCHANGED CV!cvars)
<1> USE DEF vars, config, client, output
<1>0. /\ Idle /\ Ordered(sent, script, state)
      /\ state \in Early => Streamed(sent) = 0
      /\ Counted(Streamed(sent), script)
  BY DEF View, Order, Count
<1>1. CASE /\ UNCHANGED <<config, sent, script, state>>
           /\ pc' \in {"parse", "wait"} => pc \in {"parse", "wait"}
  <2>1. View'
    BY <1>0, <1>1, ViewLifts DEF Idle
  <2>2. UNCHANGED CV!cvars
    BY <1>1 DEF CV!cvars
  <2>3. QED
    BY <2>1, <2>2
<1>2. CASE ParsePacket
  <2>1. PICK got \in decode(protocol, state, Head(buffer)) :
          /\ got.name # "none"
          /\ LET handling == dispatch_packet(got) IN
             IF handling.fails THEN End("error")
             ELSE /\ state' = handling.enters
                  /\ script' = handling.writes
                  /\ pc' = IF handling.writes = << >> THEN "parse" ELSE "write"
                  /\ UNCHANGED <<config, compressed, torn, sent, due, outcome, client>>
    BY <1>2 DEF ParsePacket, TakesFrame
  <2>2. CASE dispatch_packet(got).fails
    BY <1>1, <2>1, <2>2 DEF End
  <2>3. CASE ~dispatch_packet(got).fails
    <3>1. /\ state' = dispatch_packet(got).enters /\ script' = dispatch_packet(got).writes
          /\ pc' = IF script' = << >> THEN "parse" ELSE "write"
          /\ UNCHANGED config /\ sent' = sent
      BY <2>1, <2>3
    <3>2. Rests(sent, state)
      <4>1. script = << >>
        BY <1>0, <1>2 DEF ParsePacket, TakesFrame, Idle
      <4>2. QED
        BY <1>0, <4>1 DEF Ordered
    <3>3. Takes(dispatch_packet(got))
      BY <1>0, <2>1, <2>3, <3>2, HandlersTake DEF Machine
    <3>4. /\ Ordered(sent', script', state')
          /\ state' \in Early => Streamed(sent') = 0
          /\ Counted(Streamed(sent'), script')
      BY <1>0, <3>1, <3>3 DEF Takes
    <3>5. View'
      BY <3>1, <3>4, ViewLifts
    <3>6. UNCHANGED CV!cvars
      BY <3>1 DEF CV!cvars
    <3>7. QED
      BY <3>5, <3>6
  <2>4. QED
    BY <2>2, <2>3
<1>3. CASE WriteDone
  BY <1>3, WriteTells
<1>4. CASE Keepalive
  <2>1. /\ state = "Play" /\ UNCHANGED <<config, state, sent>>
        /\ script' = <<Write("KeepAlive")>> /\ pc' = "write" /\ pc = "wait"
    BY <1>4 DEF Keepalive, TickReady
  <2>2. Rests(sent, state)
    BY <1>0, <2>1 DEF Idle, Ordered
  <2>3. Admits(state, "KeepAlive") /\ MayRest(state, "KeepAlive")
    BY <2>1 DEF Admits, MayRest
  <2>4. Takes(Do(state, <<Write("KeepAlive")>>))
    BY <2>2, <2>3, OneTaken DEF Machine
  <2>5. /\ Ordered(sent', script', state')
        /\ state' \in Early => Streamed(sent') = 0
        /\ Counted(Streamed(sent'), script')
    BY <1>0, <2>1, <2>4 DEF Takes, Do
  <2>6. View'
    BY <2>1, <2>5, ViewLifts
  <2>7. UNCHANGED CV!cvars
    BY <2>1 DEF CV!cvars
  <2>8. QED
    BY <2>6, <2>7
<1>5. CASE ParseNothing \/ ParseStub \/ ParseBroken \/ ParseFailure
  BY <1>1, <1>5 DEF ParseNothing, ParseStub, ParseBroken, ParseFailure, TakesFrame, End, EndWith
<1>6. CASE Read \/ ReadEof \/ StreamFails \/ Shutdown
  BY <1>1, <1>6 DEF Read, ReadEof, StreamFails, Shutdown, End, EndWith
<1>7. CASE WriteSome \/ IntervalPasses \/ Hangup \/ UNCHANGED vars
  BY <1>1, <1>7 DEF WriteSome, IntervalPasses, Hangup
<1>8. ASSUME NEW id \in FrameIds, SendFrame(id)
      PROVE  View' /\ (CV!Next \/ UNCHANGED CV!cvars)
  BY <1>1, <1>8 DEF SendFrame
<1>9. QED
  BY <1>2, <1>3, <1>4, <1>5, <1>6, <1>7, <1>8 DEF Next, Server, Parse

(* Nothing has been told in the beginning.                                     *)
LEMMA InitView ==
  ASSUME Init
  PROVE  View /\ CV!Init
<1>1. sent = << >> /\ script = << >> /\ state = "Handshake" /\ pc = "parse"
  BY DEF Init
<1>2. Streamed(sent) = 0
  <2>1. {i \in DOMAIN sent : sent[i].packet = "RegistryData"} = {}
    BY <1>1
  <2>2. QED
    BY <2>1, FS_EmptySet DEF Streamed
<1>3. Ordered(sent, script, state)
  BY <1>1 DEF Ordered, Rests, Early
<1>4. Counted(Streamed(sent), script)
  <2>1. Plain(script)
    BY <1>1 DEF Plain
  <2>2. QED
    BY <2>1, PlainCounted
<1>5. View
  BY <1>1, <1>2, <1>3, <1>4 DEF View, Order, Idle, Count
<1>6. SeenOf(sent) = << >>
  BY <1>1 DEF SeenOf
<1>7. protocol \in {"1.20.1", "1.21.1"} /\ compression \in BOOLEAN
  BY DEF Init, Versions
<1>8. CV!Init
  BY <1>2, <1>6, <1>7 DEF CV!Init, SeenOf, Streamed
<1>9. QED
  BY <1>5, <1>8

(* Whatever a client sends and whenever the timer or the shutdown strikes,     *)
(* what it is told is a prefix of a sequence the protocol allows.              *)
THEOREM Speaks == Safety => SpeaksTheProtocol
<1>1. Init => View /\ CV!Init
  BY InitView
<1>2. Machine /\ Formats /\ View /\ [Next]_vars => View' /\ [CV!Next]_CV!cvars
  BY NextView
<1>3. QED
  BY <1>1, <1>2, AlwaysMachine, AlwaysFormats, PTL DEF Safety, SpeaksTheProtocol, CV!Spec
=============================================================================
