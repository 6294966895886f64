---------------------------- MODULE PacketStream ----------------------------
(* What framing promises a client and its connection, without bytes: the       *)
(* packets sent are received, in order and every one, up to the first thing    *)
(* that is no packet.  Behind that, anything may be received, or the           *)
(* connection ends.  Before limbo it also ends with a packet it refuses.       *)
EXTENDS Sequences, SequencesExt

CONSTANT Bodies

VARIABLES state, sent, garbled, received, over

svars == <<state, sent, garbled, received, over>>

(* A connection goes from Login, by Configuration or not, to Play.             *)
Ahead == [
  Login         |-> {"Login", "Configuration", "Play"},
  Configuration |-> {"Configuration", "Play"},
  Play          |-> {"Play"}]

Init ==
  /\ state = "Login"
  /\ sent = << >> /\ garbled = FALSE
  /\ received = << >> /\ over = FALSE

Send(body) ==
  /\ ~garbled
  /\ sent' = Append(sent, body)
  /\ UNCHANGED <<state, garbled, received, over>>

Garble == ~garbled /\ garbled' = TRUE /\ UNCHANGED <<state, sent, received, over>>

Outstanding == Len(received) < Len(sent)

(* The next packet or, once the stream is garbled and nothing in front of it   *)
(* outstanding, anything.                                                      *)
Arrives ==
  /\ ~over
  /\ IF Outstanding THEN received' = Append(received, sent[Len(received) + 1])
     ELSE /\ garbled
          /\ Len(received') = Len(received) + 1 /\ IsPrefix(received, received')

Receive ==
  /\ Arrives
  /\ state' \in Ahead[state]
  /\ UNCHANGED <<sent, garbled, over>>

Refuse ==
  /\ Arrives
  /\ state = "Login"
  /\ over' = TRUE
  /\ UNCHANGED <<state, sent, garbled>>

(* Only once the stream is garbled, and nothing in front of it outstanding.    *)
Break ==
  /\ garbled /\ ~Outstanding /\ ~over
  /\ over' = TRUE
  /\ UNCHANGED <<state, sent, garbled, received>>

Next ==
  \/ \E body \in Bodies : Send(body)
  \/ Garble \/ Receive \/ Refuse \/ Break

Safety == Init /\ [][Next]_svars

(* Packets arrive whether or not the client sends more; but in Configuration   *)
(* they may wait for it.                                                       *)
Prompt == Outstanding /\ state # "Configuration" /\ (Receive \/ Refuse)

Spec == Safety /\ WF_svars(Prompt)
==============================================================================
