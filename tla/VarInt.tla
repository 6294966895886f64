-------------------------------- MODULE VarInt --------------------------------
(* Minecraft's VarInt (crates/statik_core/src/varint.rs) with its three sizes  *)
(* as parameters: the code has 7-bit segments, at most 5 bytes and 32-bit      *)
(* integers; TLC's own integers are no wider, so it checks a narrower codec of *)
(* the same shape.  As in the code, the segments hold more bits than the value.*)
EXTENDS Integers, Sequences

CONSTANTS
  Base,           \* values of a segment (2^7): CONTINUE_BIT
  MaxBytes,       \* bytes of the longest VarInt (5)
  Half            \* values of the integers that are not negative (2^31)

(* The values that n segments hold.                                            *)
Capacity[n \in 0 .. MaxBytes] == IF n = 0 THEN 1 ELSE Base * Capacity[n - 1]

ASSUME VarIntAssumption ==
  /\ Base \in Nat /\ Base > 1
  /\ MaxBytes \in Nat \ {0}
  /\ Half \in Nat \ {0}
  /\ Capacity[MaxBytes - 1] < 2 * Half /\ 2 * Half < Capacity[MaxBytes]

Byte == 0 .. 2 * Base - 1
Unsigned == 0 .. 2 * Half - 1
Signed == -Half .. Half - 1

(* `as u32`, `as i32`                                                          *)
AsUnsigned(value) == value % (2 * Half)
AsSigned(value) == IF value >= Half THEN value - 2 * Half ELSE value

Continues(byte) == byte >= Base
Segment(byte) == byte % Base

(* Variant: the segment is not cut out of the value.                           *)
EncodeUnmasked(value) ==
  LET bytes[rest \in Unsigned] ==
        IF rest < Base THEN <<rest>> ELSE <<Base + rest>> \o bytes[rest \div Base]
  IN bytes[AsUnsigned(value)]

(* VarInt::encode: the low segment first, as long as something is left.        *)
EncodeRest[rest \in Unsigned] ==
  IF rest < Base THEN <<rest>>
  ELSE <<Base + Segment(rest)>> \o EncodeRest[rest \div Base]

encode(value) == EncodeRest[AsUnsigned(value)]

(* VarInt::decode at the head of `bytes`: a value and how many bytes it took;  *)
(* "eof" if they end first, "error" if the last byte allowed continues.  Bits  *)
(* shifted out of the u32 are lost.                                            *)
Decoded(result, value, used) == [result |-> result, value |-> value, used |-> used]

DecodeFrom(bytes) ==        \* what the bytes from the i-th on hold
  LET from[i \in 1 .. MaxBytes + 1] ==
        IF i > MaxBytes THEN Decoded("error", 0, 0)
        ELSE IF i > Len(bytes) THEN Decoded("eof", 0, 0)
        ELSE IF ~Continues(bytes[i]) THEN Decoded("value", bytes[i], i)
        ELSE [from[i + 1] EXCEPT !.value = Segment(bytes[i]) + Base * @]
  IN from

decode(bytes) == [DecodeFrom(bytes)[1] EXCEPT !.value = AsSigned(AsUnsigned(@))]
==============================================================================
