-------------------------- MODULE KeepaliveProofs --------------------------
(* Theorems about Keepalive for any interval, any tolerance of the client and  *)
(* any horizon.                                                                *)
EXTENDS Keepalive, TLAPS

(* When the client was last told something in Play, its entry included.        *)
LastHeard == IF heard = << >> THEN entered ELSE Last(heard)

(* What each place in the task means: a write has its tick behind it, and only *)
(* Play writes keepalives.                                                     *)
Shape ==
  /\ pc \in {"write", "burst"} => state = "Play"
  /\ pc = "burst" => heard = << >>
  /\ state = "Login" => heard = << >> /\ longest = 0
  /\ LastHeard \in Nat /\ LastHeard <= now
  /\ longest <= now

(* The interval counts the ticks taken, from the time the task was started.    *)
Taken == Len(heard) + (IF pc = "write" THEN 1 ELSE 0)

Counted ==
  /\ deadline = Period * (Taken + 1)
  /\ deadline <= now + Period

(* The next tick is at most an interval after the last one was heard.          *)
DeadlineNear ==
  state = "Play" => deadline <= (IF pc = "write" THEN now ELSE LastHeard) + Period

(* How long a client has heard nothing, if none of its stalls was as long as   *)
(* the interval: up to the next deadline; while a write is blocked, an         *)
(* interval and the stall that blocks it.                                      *)
Blocked == IF reading THEN longest ELSE stall

Quiet ==
  state = "Play" /\ longest < Period =>
    /\ pc = "wait" => now <= deadline \/ now - LastHeard <= longest
    /\ pc = "write" => now - LastHeard <= Period + Blocked
    /\ pc = "burst" => now - LastHeard <= Blocked

IInv == TypeOK /\ Shape /\ Counted /\ DeadlineNear /\ Quiet

(* Without the products: what the steps below rest on.                         *)
LEMMA Multiples ==
  ASSUME NEW p \in Nat \ {0}, NEW n \in Nat
  PROVE  /\ p * (n + 1) = p * n + p
         /\ p * n \in Nat
         /\ (p * n) % p = 0
OBVIOUS

LEMMA Appended ==
  ASSUME NEW S, NEW s \in Seq(S), NEW e \in S
  PROVE  /\ Append(s, e) \in Seq(S)
         /\ Append(s, e) # << >>
         /\ Len(Append(s, e)) = Len(s) + 1
         /\ Last(Append(s, e)) = e
BY DEF Last

LEMMA Wider ==
  ASSUME NEW n \in Nat, NEW s \in Seq(0 .. n)
  PROVE  s \in Seq(0 .. (n + 1))
OBVIOUS

(* The type invariant in the parts the provers can take one at a time.         *)
Numbers ==
  /\ now \in 0 .. Horizon
  /\ stall \in 0 .. longest /\ longest \in 0 .. Horizon
  /\ entered \in 0 .. now

Places == state \in {"Login", "Play"} /\ pc \in {"wait", "write", "burst"}

Flags == inbox \in BOOLEAN /\ reading \in BOOLEAN

Multiple == deadline \in Nat /\ deadline % Period = 0

LEMMA TypeParts ==
  TypeOK <=> Numbers /\ Places /\ Flags /\ Multiple /\ heard \in Seq(0 .. now)
BY Zenon DEF TypeOK, Numbers, Places, Flags, Multiple

LEMMA InitIInv == Init => IInv
<1> SUFFICES ASSUME Init PROVE IInv
  OBVIOUS
<1> USE KeepaliveAssumption DEF Init
<1>1. Period * (0 + 1) = Period /\ Period % Period = 0
  OBVIOUS
<1>2. heard \in Seq(0 .. now)
  OBVIOUS
<1>3. Multiple
  BY <1>1 DEF Multiple
<1>4. Numbers /\ Places
  BY DEF Numbers, Places
<1>5. Flags
  BY Zenon DEF Flags
<1>6. TypeOK
  BY ONLY <1>2, <1>3, <1>4, <1>5, TypeParts
<1>7. Shape /\ DeadlineNear /\ Quiet
  BY DEF Shape, DeadlineNear, Quiet, LastHeard
<1>8. Counted
  BY <1>1 DEF Counted, Taken
<1>9. QED
  BY <1>6, <1>7, <1>8 DEF IInv

LEMMA NextFlags ==
  ASSUME Flags, [Next]_vars
  PROVE  Flags'
<1> USE DEF Flags, vars, peer, record
<1>1. CASE Server
  BY <1>1, Zenon DEF Server, EnterPlay, BurstDone, Read, Tick, WriteDone
<1>2. CASE Send \/ StopReading \/ ReadOn
  BY <1>2, Zenon DEF Send, StopReading, ReadOn
<1>3. CASE Advance \/ UNCHANGED vars
  BY <1>3, Zenon DEF Advance
<1>4. QED
  BY <1>1, <1>2, <1>3, Zenon DEF Next

LEMMA NextPlaces ==
  ASSUME Places, [Next]_vars
  PROVE  Places'
<1> USE DEF Places, vars, peer, record
<1>1. CASE Server
  BY <1>1 DEF Server, EnterPlay, BurstDone, Read, Tick, WriteDone
<1>2. CASE Send \/ StopReading \/ ReadOn
  BY <1>2 DEF Send, StopReading, ReadOn
<1>3. CASE Advance \/ UNCHANGED vars
  BY <1>3 DEF Advance
<1>4. QED
  BY <1>1, <1>2, <1>3 DEF Next

LEMMA NextNumbers ==
  ASSUME Numbers, Shape, [Next]_vars
  PROVE  Numbers'
<1> USE KeepaliveAssumption DEF Numbers, Shape, vars, peer, record
<1>1. CASE Server
  BY <1>1 DEF Server, EnterPlay, BurstDone, Read, Tick, WriteDone
<1>2. CASE Send \/ StopReading \/ ReadOn
  BY <1>2 DEF Send, StopReading, ReadOn
<1>3. CASE Advance \/ UNCHANGED vars
  BY <1>3 DEF Advance
<1>4. QED
  BY <1>1, <1>2, <1>3 DEF Next

LEMMA NextHeard ==
  ASSUME Numbers, heard \in Seq(0 .. now), [Next]_vars
  PROVE  heard' \in Seq(0 .. now')
<1> USE DEF vars, peer, record
<1>1. CASE WriteDone
  BY <1>1, Appended DEF WriteDone, Numbers
<1>2. CASE Advance
  BY <1>2, Wider DEF Advance, Numbers
<1>3. CASE EnterPlay \/ BurstDone \/ Read \/ Tick
  BY <1>3 DEF EnterPlay, BurstDone, Read, Tick
<1>4. CASE Send \/ StopReading \/ ReadOn \/ UNCHANGED vars
  BY <1>4 DEF Send, StopReading, ReadOn
<1>5. QED
  BY <1>1, <1>2, <1>3, <1>4 DEF Next, Server

(* A write that returns is heard now; nothing else changes what was heard.     *)
LEMMA Written ==
  ASSUME Numbers, heard \in Seq(0 .. now), WriteDone
  PROVE  LastHeard' = now /\ Len(heard') = Len(heard) + 1
BY Appended DEF Numbers, WriteDone, LastHeard

LEMMA NextShape ==
  ASSUME IInv, [Next]_vars
  PROVE  Shape'
<1> USE DEF IInv, Shape, vars, peer, record
<1>1. Numbers /\ Places /\ heard \in Seq(0 .. now)
  BY TypeParts
<1> USE <1>1 DEF Numbers
<1>2. CASE EnterPlay
  BY <1>2 DEF EnterPlay, LastHeard
<1>3. CASE WriteDone
  <2>1. LastHeard' \in Nat /\ LastHeard' <= now'
    BY <1>3, Written DEF WriteDone
  <2>2. QED
    BY <1>3, <2>1 DEF WriteDone, Places
<1>4. CASE BurstDone \/ Read \/ Tick
  BY <1>4 DEF BurstDone, Read, Tick, TickReady, LastHeard
<1>5. CASE Send \/ StopReading \/ ReadOn \/ UNCHANGED vars
  BY <1>5 DEF Send, StopReading, ReadOn, LastHeard
<1>6. CASE Advance
  <2>1. LastHeard' = LastHeard /\ longest' <= now'
    BY <1>6 DEF Advance, LastHeard
  <2>2. QED
    BY <1>6, <2>1 DEF Advance, Places
<1>7. QED
  BY <1>2, <1>3, <1>4, <1>5, <1>6 DEF Next, Server

LEMMA NextCounted ==
  ASSUME IInv, [Next]_vars
  PROVE  Counted'
<1> USE KeepaliveAssumption DEF IInv, Counted, vars, peer, record
<1>1. Numbers /\ Places /\ heard \in Seq(0 .. now)
  BY TypeParts
<1>2. Taken \in Nat /\ deadline \in Nat
  BY <1>1, TypeParts DEF Taken, Multiple
<1>3. Period * ((Taken + 1) + 1) = Period * (Taken + 1) + Period
  BY <1>2, Multiples
<1>4. CASE Tick
  <2>1. Taken' = Taken + 1
    BY <1>1, <1>4 DEF Tick, TickReady, Taken
  <2>2. deadline' = deadline + Period /\ deadline <= now /\ now' = now
    BY <1>4 DEF Tick, TickReady, NextDeadline
  <2>3. QED
    BY <1>1, <1>2, <1>3, <2>1, <2>2 DEF Numbers
<1>5. CASE WriteDone
  <2>1. Taken' = Taken
    BY <1>1, <1>5, Written DEF WriteDone, Taken
  <2>2. QED
    BY <1>5, <2>1 DEF WriteDone
<1>6. CASE EnterPlay \/ BurstDone
  BY <1>1, <1>6 DEF EnterPlay, BurstDone, Taken
<1>7. CASE Read \/ Send \/ StopReading \/ ReadOn \/ UNCHANGED vars
  BY <1>7 DEF Read, Send, StopReading, ReadOn, Taken
<1>8. CASE Advance
  BY <1>1, <1>2, <1>8 DEF Advance, Taken, Numbers
<1>9. QED
  BY <1>4, <1>5, <1>6, <1>7, <1>8 DEF Next, Server

LEMMA NextDeadlineNear ==
  ASSUME IInv, [Next]_vars
  PROVE  DeadlineNear'
<1> USE KeepaliveAssumption DEF IInv, DeadlineNear, vars, peer, record
<1>1. Numbers /\ Places /\ heard \in Seq(0 .. now)
  BY TypeParts
<1>2. deadline \in Nat /\ deadline <= now + Period /\ Shape
  BY TypeParts DEF Multiple, Counted
<1>3. CASE EnterPlay
  BY <1>1, <1>2, <1>3 DEF EnterPlay, LastHeard, Shape
<1>4. CASE Tick
  BY <1>1, <1>2, <1>4 DEF Tick, TickReady, NextDeadline, LastHeard, Numbers
<1>5. CASE WriteDone
  BY <1>1, <1>2, <1>5, Written DEF WriteDone
<1>6. CASE BurstDone \/ Read
  BY <1>2, <1>6 DEF BurstDone, Read, LastHeard
<1>7. CASE Send \/ StopReading \/ ReadOn \/ UNCHANGED vars
  BY <1>7 DEF Send, StopReading, ReadOn, LastHeard
<1>8. CASE Advance
  BY <1>1, <1>2, <1>8 DEF Advance, LastHeard, Numbers
<1>9. QED
  BY <1>3, <1>4, <1>5, <1>6, <1>7, <1>8 DEF Next, Server

LEMMA NextQuiet ==
  ASSUME IInv, [Next]_vars
  PROVE  Quiet'
<1> USE KeepaliveAssumption DEF IInv, Quiet, Blocked, vars, peer, record
<1>1. Numbers /\ Places /\ heard \in Seq(0 .. now)
  BY TypeParts
<1>2. deadline \in Nat /\ Shape
  BY TypeParts DEF Multiple
<1>3. CASE EnterPlay
  BY <1>1, <1>2, <1>3 DEF EnterPlay, LastHeard, Shape, Numbers
<1>4. CASE BurstDone \/ Read
  BY <1>4 DEF BurstDone, Read, LastHeard
<1>5. CASE Tick
  <2>1. LastHeard' = LastHeard
    BY <1>5 DEF Tick, LastHeard
  <2>2. ASSUME longest < Period PROVE now - LastHeard <= Period
    BY <1>1, <1>2, <1>5, <2>2 DEF Tick, TickReady, DeadlineNear, Shape, Numbers
  <2>3. QED
    BY <1>1, <1>2, <1>5, <2>1, <2>2 DEF Tick, TickReady, Shape, Numbers
<1>6. CASE WriteDone
  BY <1>1, <1>6, Written DEF WriteDone, Numbers
<1>7. CASE Send \/ StopReading \/ UNCHANGED vars
  BY <1>7 DEF Send, StopReading, LastHeard
<1>8. CASE ReadOn
  <2>1. LastHeard' = LastHeard
    BY <1>8 DEF ReadOn, LastHeard
  <2>2. QED
    BY <1>1, <1>2, <1>8, <2>1 DEF ReadOn, Shape, Numbers
<1>9. CASE Advance
  <2>1. LastHeard' = LastHeard
    BY <1>9 DEF Advance, LastHeard
  <2>2. longest <= longest' /\ longest \in Nat /\ longest' \in Nat
    BY <1>1, <1>9 DEF Advance, Numbers
  <2>3. CASE pc = "wait"
    BY <1>1, <1>2, <1>9, <2>3 DEF Advance, CanMove, TickReady, Numbers
  <2>4. CASE pc # "wait"
    BY <1>1, <1>2, <1>9, <2>1, <2>2, <2>4 DEF Advance, CanMove, Shape, Numbers, Places
  <2>5. QED
    BY <2>3, <2>4
<1>10. QED
  BY <1>3, <1>4, <1>5, <1>6, <1>7, <1>8, <1>9 DEF Next, Server

LEMMA Inductive ==
  ASSUME IInv, [Next]_vars
  PROVE  IInv'
<1>1. Numbers /\ Places /\ Flags /\ heard \in Seq(0 .. now) /\ Shape
  BY TypeParts DEF IInv
<1>2. Numbers' /\ Places' /\ Flags' /\ heard' \in Seq(0 .. now')
  BY <1>1, NextNumbers, NextPlaces, NextFlags, NextHeard
<1>3. Counted'
  BY NextCounted
<1>4. Multiple'
  <2>1. Taken' + 1 \in Nat
    BY <1>2 DEF Taken
  <2>2. QED
    BY <1>3, <2>1, Multiples, KeepaliveAssumption DEF Counted, Multiple
<1>5. TypeOK'
  BY <1>2, <1>4, Zenon DEF TypeOK, Numbers, Places, Flags, Multiple
<1>6. QED
  BY <1>3, <1>5, NextShape, NextDeadlineNear, NextQuiet DEF IInv
------------------------------------------------------------------------------
(* The interval's bookkeeping is right: TypeOK of every reachable state.       *)
THEOREM TypeCorrect == Spec => []TypeOK
<1>1. IInv => TypeOK
  BY DEF IInv
<1>2. QED
  BY <1>1, InitIInv, Inductive, PTL DEF Spec

(* A client that reads hears a keepalive at least once in every interval,      *)
(* whatever the interval and however long its login took (connection.rs,       *)
(* handle_connection: the tick branch).                                        *)
THEOREM KeepalivesPunctual == Spec => []Punctual
<1>1. ASSUME IInv PROVE Punctual
  <2>1. Numbers /\ Places /\ deadline \in Nat /\ Shape /\ DeadlineNear /\ Quiet
    BY <1>1, TypeParts DEF IInv, Multiple
  <2>2. Silence = now - LastHeard
    BY DEF Silence, LastHeard
  <2>3. QED
    BY <2>1, <2>2, KeepaliveAssumption
    DEF Punctual, Quiet, Blocked, DeadlineNear, Shape, Numbers, Places
<1>2. QED
  BY <1>1, InitIInv, Inductive, PTL DEF Spec

(* Twice the interval is tolerance enough for a client whose stalls are all    *)
(* shorter than one: the comment at KEEPALIVE_INTERVAL, for every interval.    *)
THEOREM ClientsNeverTimeOut == Spec => []NeverTimesOut
<1>1. ASSUME IInv PROVE NeverTimesOut
  <2>1. Numbers /\ Places /\ deadline \in Nat /\ Shape /\ DeadlineNear /\ Quiet
    BY <1>1, TypeParts DEF IInv, Multiple
  <2>2. Silence = now - LastHeard
    BY DEF Silence, LastHeard
  <2>3. QED
    BY <2>1, <2>2, KeepaliveAssumption
    DEF NeverTimesOut, Quiet, Blocked, DeadlineNear, Shape, Numbers, Places
<1>2. QED
  BY <1>1, InitIInv, Inductive, PTL DEF Spec

============================================================================
