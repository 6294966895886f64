------------------------------ MODULE Broadcast ------------------------------
(* The part of `tokio::sync::broadcast` that the shutdown signal relies on: a  *)
(* ring buffer of Capacity values.  The channel is the number `tail` of values *)
(* ever sent and the last value `slot`; a receiver is a cursor, the position   *)
(* of the next value it wants.  subscribe() starts a cursor at tail.           *)
EXTENDS Naturals

(* main.rs asks for broadcast::channel(1): only the last value is retained.    *)
Capacity == 1

(* recv() returns Err(Lagged): the wanted value has been overwritten.          *)
Lagged(cursor, tail) == cursor + Capacity < tail

(* recv() returns Ok(slot).                                                    *)
Ready(cursor, tail) == cursor < tail /\ ~Lagged(cursor, tail)

(* recv() returns at once, with a value or with Lagged: something was sent     *)
(* that this receiver has not taken notice of.                                 *)
Pending(cursor, tail) == cursor < tail

(* recv() returns Err(Closed): nothing is left and every sender is dropped.    *)
Closed(cursor, tail, senders) == ~Pending(cursor, tail) /\ ~senders

(* recv() returns at all; until then the receiver waits.                       *)
Returns(cursor, tail, senders) ==
  Pending(cursor, tail) \/ Closed(cursor, tail, senders)

(* Where recv() leaves the cursor: past the value it returns; on a lag, at the *)
(* oldest value still there; when closed, where it was.                        *)
After(cursor, tail) ==
  IF Ready(cursor, tail) THEN cursor + 1
  ELSE IF Lagged(cursor, tail) THEN tail - Capacity ELSE cursor
==============================================================================
