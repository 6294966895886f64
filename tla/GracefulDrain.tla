---------------------------- MODULE GracefulDrain ----------------------------
(* What the shutdown machinery promises, without channels or tasks: while it   *)
(* serves, the server opens sessions; once it drains it opens none, every open *)
(* session closes, and it stops only when none is left.  It may crash out of   *)
(* serving, never out of draining.                                             *)
CONSTANT Conns

VARIABLES phase, live

dvars == <<phase, live>>

Init == phase = "serving" /\ live = {}

Open(c) ==
  /\ phase = "serving"
  /\ c \notin live
  /\ live' = live \union {c}
  /\ UNCHANGED phase

Close(c) ==
  /\ phase \in {"serving", "draining"}
  /\ c \in live
  /\ live' = live \ {c}
  /\ UNCHANGED phase

Drain == phase = "serving" /\ phase' = "draining" /\ UNCHANGED live

Stop == phase = "draining" /\ live = {} /\ phase' = "stopped" /\ UNCHANGED live

Crash == phase = "serving" /\ phase' = "crashed" /\ UNCHANGED live

Next == Drain \/ Stop \/ Crash \/ \E c \in Conns : Open(c) \/ Close(c)

Safety == Init /\ [][Next]_dvars

(* Draining is driven by the server: sessions close and it stops whatever the  *)
(* clients do.                                                                 *)
Fairness ==
  /\ WF_dvars(Stop)
  /\ \A c \in Conns : WF_dvars(phase = "draining" /\ Close(c))

Spec == Safety /\ Fairness
==============================================================================
