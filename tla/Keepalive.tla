------------------------------ MODULE Keepalive ------------------------------
(* The keepalive timer of a connection against time:                           *)
(* Connection::handle_connection (crates/statik_server/src/connection.rs) and  *)
(* tokio's interval.  Module Session has the same loop without the time.       *)
(* Time stands still while the task can move: a poll takes nothing compared    *)
(* with the interval.  A client may stop reading, which blocks a write, and    *)
(* send packets at any time, none of which is answered in Play.                *)
EXTENDS Integers, Sequences, SequencesExt

CONSTANTS
  Period,         \* KEEPALIVE_INTERVAL
  Timeout,        \* how long the client bears silence in Play
  Horizon         \* when the model ends

ASSUME KeepaliveAssumption ==
  /\ Period \in Nat \ {0}
  /\ Timeout \in Nat /\ Timeout >= 2 * Period
  /\ Horizon \in Nat

VARIABLES
  now,            \* time since the connection was accepted
  deadline,       \* of the interval's next tick
  state,          \* Connection::state: Play, or what comes before
  pc,             \* the task: wait (in select!), write (a keepalive), burst
  inbox,          \* bytes from the client are ready to be read
  reading,        \* the client reads what it is sent
  stall,          \* how long it has not, in Play
  longest,        \* the longest stall
  entered,        \* when Play was entered
  heard           \* when the client received its keepalives

peer == <<inbox, reading>>
record == <<stall, longest, entered, heard>>
vars == <<now, deadline, state, pc, peer, record>>

(* The interval is created with the connection, and its first tick is skipped. *)
Init ==
  /\ now = 0
  /\ deadline = Period
  /\ state = "Login"
  /\ pc = "wait"
  /\ inbox = FALSE
  /\ reading = TRUE
  /\ stall = 0 /\ longest = 0
  /\ entered = 0
  /\ heard = << >>

(* The packet that ends login, or configuration: the state is Play when the    *)
(* burst begins.                                                               *)
EnterPlay ==
  /\ pc = "wait"
  /\ state = "Login"
  /\ state' = "Play"
  /\ pc' = "burst"
  /\ entered' = now
  /\ UNCHANGED <<now, deadline, peer, stall, longest, heard>>

(* The last write of the burst returns.                                        *)
BurstDone ==
  /\ pc = "burst"
  /\ reading
  /\ pc' = "wait"
  /\ UNCHANGED <<now, deadline, state, peer, record>>

(* Variant: the timer is a sleep made anew in every turn of the loop.          *)
ReadRestarts ==
  /\ pc = "wait"
  /\ inbox
  /\ inbox' = FALSE
  /\ deadline' = now + Period
  /\ UNCHANGED <<now, state, pc, reading, record>>

(* The read branch of select! wins; the packets are ignored.                   *)
Read ==
  /\ pc = "wait"
  /\ inbox
  /\ inbox' = FALSE
  /\ UNCHANGED <<now, deadline, state, pc, reading, record>>

(* Variants: the interval counts on from a late tick (Delay); a tick is only   *)
(* taken when it is late.                                                      *)
DelayedDeadline == now + Period

TickReadyLate == pc = "wait" /\ state = "Play" /\ deadline < now

(* Interval::tick: a missed tick does not move the ones after it (Burst).      *)
NextDeadline == deadline + Period

TickReady == pc = "wait" /\ state = "Play" /\ deadline <= now

(* The keepalive branch wins, and starts to write.                             *)
Tick ==
  /\ TickReady
  /\ deadline' = NextDeadline
  /\ pc' = "write"
  /\ UNCHANGED <<now, state, peer, record>>

WriteDone ==
  /\ pc = "write"
  /\ reading
  /\ heard' = Append(heard, now)
  /\ pc' = "wait"
  /\ UNCHANGED <<now, deadline, state, peer, stall, longest, entered>>

(* The client sends a packet.                                                  *)
Send ==
  /\ ~inbox
  /\ inbox' = TRUE
  /\ UNCHANGED <<now, deadline, state, pc, reading, record>>

(* Not in the middle of a write that it could take.                            *)
StopReading ==
  /\ reading /\ pc = "wait"
  /\ reading' = FALSE
  /\ UNCHANGED <<now, deadline, state, pc, inbox, record>>

ReadOn ==
  /\ ~reading
  /\ reading' = TRUE
  /\ stall' = 0
  /\ UNCHANGED <<now, deadline, state, pc, inbox, longest, entered, heard>>

CanMove == (pc = "wait" /\ inbox) \/ TickReady \/ (pc # "wait" /\ reading)

Advance ==
  /\ now < Horizon
  /\ ~CanMove
  /\ now' = now + 1
  /\ stall' = IF state = "Play" /\ ~reading THEN stall + 1 ELSE 0
  /\ longest' = IF stall' > longest THEN stall' ELSE longest
  /\ UNCHANGED <<deadline, state, pc, peer, entered, heard>>

Server == EnterPlay \/ BurstDone \/ Read \/ Tick \/ WriteDone

Next == Server \/ Send \/ StopReading \/ ReadOn \/ Advance

Spec == Init /\ [][Next]_vars
------------------------------------------------------------------------------
(* Properties                                                                  *)

TypeOK ==
  /\ now \in 0 .. Horizon
  /\ deadline \in Nat /\ deadline % Period = 0
  /\ state \in {"Login", "Play"}
  /\ pc \in {"wait", "write", "burst"}
  /\ inbox \in BOOLEAN /\ reading \in BOOLEAN
  /\ stall \in 0 .. longest /\ longest \in 0 .. Horizon
  /\ entered \in 0 .. now
  /\ heard \in Seq(0 .. now)

Silence == now - (IF heard = << >> THEN entered ELSE Last(heard))

(* A client that reads hears a keepalive within one interval of entering Play  *)
(* and of the one before it, however long its login took and however much it   *)
(* sends meanwhile.                                                            *)
Punctual == state = "Play" /\ longest = 0 => Silence <= Period

(* A client that never stops reading for a whole interval is never left silent *)
(* as long as it bears: connection.rs:25-26, "vanilla client disconnects after *)
(* ~30s of silence, so 15s gives comfortable headroom".                        *)
NeverTimesOut == state = "Play" /\ longest < Period => Silence < Timeout
==============================================================================
