------------------------------ MODULE MCFraming ------------------------------
(* A small instance of Framing for TLC: 2-bit segments, 3 bytes, 5 bits.       *)
EXTENDS Framing

MCThresholds == {-1, 0, 2}

(* Below, at and above the threshold 2; framed, the last needs a Length of two *)
(* bytes.                                                                      *)
MCBodies == {<<1>>, <<7, 4>>, <<6, 0, 5, 3, 1>>}

(* An endless VarInt; a negative and an overlong Length; a Data Length cut     *)
(* short; one that is negative; a body that is no stream; an empty frame.      *)
MCJunk == {<<4, 4, 4>>, <<7, 7, 1>>, <<7, 2>>, <<1, 6>>, <<3, 4, 4, 1>>, <<3, 3, 0, 0>>, <<0>>}
==============================================================================
