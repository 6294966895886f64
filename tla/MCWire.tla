-------------------------------- MODULE MCWire --------------------------------
(* A small instance of Wire for TLC: 4-bit bytes, VarInts of 8 bits in at most *)
(* 3 of them, 16-bit positions.  Every packet is there, with its real id.      *)
EXTENDS Wire

MCSize == [u8 |-> 1, i16 |-> 2, i32 |-> 3, i64 |-> 4, u128 |-> 5,
           signature |-> 6, acknowledged |-> 2]

MCNumbers == {-128, -1, 127}

MCTexts == {<< >>, <<1>>, <<9, 14>>}

MCJsons == {<<1>>, <<9, 14>>}

MCBlobs == {<< >>, <<8, 15>>}
==============================================================================
