------------------------------ MODULE WireProofs ------------------------------
(* Proofs about module Wire, for every width of its bytes and of the fixed     *)
(* types and for every value a field may hold: first that each field is read   *)
(* back as it was written, or is cut (FieldReads); then, along a trace that    *)
(* says what was left to write before each leaf, that a whole body is.         *)
EXTENDS Wire, VarIntProofs

(* The quotient and the remainder are the only ones.                           *)
LEMMA Quotient ==
  ASSUME NEW b \in Nat, b > 0, NEW q \in Int, NEW r \in 0 .. b - 1
  PROVE  (q * b + r) \div b = q /\ (q * b + r) % b = r
<1> DEFINE a == q * b + r
<1>1. a \in Int
  OBVIOUS
<1>2. PICK d \in Int : d = a \div b
  BY <1>1
<1>3. PICK m \in 0 .. b - 1 : m = a % b
  BY <1>1
<1>4. a = b * d + m
  BY <1>1, <1>2, <1>3
<1>5. b * (q - d) = m - r
  BY <1>4
<1>6. q - d = 0
  <2>1. CASE q - d >= 1
    <3>1. b * (q - d) >= b
      BY ONLY <2>1, b \in Nat, b > 0, q \in Int, d \in Int
    <3> QED
      BY ONLY <3>1, <1>5, b \in Nat, r \in 0 .. b - 1, m \in 0 .. b - 1
  <2>2. CASE q - d <= -1
    <3>1. b * (q - d) <= -b
      BY ONLY <2>2, b \in Nat, b > 0, q \in Int, d \in Int
    <3> QED
      BY ONLY <3>1, <1>5, b \in Nat, r \in 0 .. b - 1, m \in 0 .. b - 1
  <2> QED
    BY <2>1, <2>2
<1> QED
  BY <1>2, <1>3, <1>5, <1>6

(* Dividing twice.                                                             *)
LEMMA DivTwice ==
  ASSUME NEW a \in Nat, NEW b \in Nat, NEW c \in Nat, b > 0, c > 0
  PROVE  (a \div b) \div c = a \div (b * c)
<1>1. PICK q \in Nat, r \in 0 .. b - 1 : a = q * b + r /\ q = a \div b
  <2>1. a \div b \in Nat /\ a % b \in 0 .. b - 1 /\ a = (a \div b) * b + (a % b)
    OBVIOUS
  <2> QED
    BY <2>1
<1>2. PICK p \in Nat, s \in 0 .. c - 1 : q = p * c + s /\ p = q \div c
  <2>1. q \div c \in Nat /\ q % c \in 0 .. c - 1 /\ q = (q \div c) * c + (q % c)
    OBVIOUS
  <2> QED
    BY <2>1
<1>3. a = p * (b * c) + (s * b + r)
  <2>1. a = q * b + r /\ q = p * c + s
    BY <1>1, <1>2
  <2>2. (p * c + s) * b = p * (b * c) + s * b
    BY ONLY p \in Nat, s \in Nat, b \in Nat, c \in Nat
  <2>3. p * (b * c) \in Nat /\ s * b \in Nat
    BY ONLY p \in Nat, s \in Nat, b \in Nat, c \in Nat
  <2> QED
    BY <2>1, <2>2, <2>3
<1>4. s * b + r \in 0 .. b * c - 1
  <2>1. s * b <= (c - 1) * b
    BY ONLY s \in 0 .. c - 1, b \in Nat, c \in Nat, c > 0
  <2> QED
    BY ONLY <2>1, s \in 0 .. c - 1, b \in Nat, c \in Nat, c > 0, r \in 0 .. b - 1
<1>5. b * c \in Nat /\ b * c > 0
  BY ONLY b \in Nat, c \in Nat, b > 0, c > 0
<1>6. a \div (b * c) = p
  <2> DEFINE n == b * c
             m == s * b + r
  <2>1. n \in Nat /\ n > 0 /\ m \in 0 .. n - 1 /\ a = p * n + m /\ p \in Int
    BY <1>3, <1>4, <1>5
  <2> HIDE DEF n, m
  <2> QED
    BY <2>1, Quotient DEF n
<1> QED
  BY <1>1, <1>2, <1>6
------------------------------------------------------------------------------
(* What a shift to the right cuts out, with its sign: the digit above `low`.   *)
LEMMA CutHigh ==
  ASSUME NEW v \in Int, NEW h \in Nat, h > 0, v \in -h .. h - 1, NEW l \in Nat, l > 0,
         PackedSize = (2 * h) * l, NEW low \in 0 .. l - 1
  PROVE  ShiftRight((v % (2 * h)) * l + low, l) = v
<1> DEFINE m == v % (2 * h)
           n == m * l + low
<1>1. m \in 0 .. 2 * h - 1 /\ m = (IF v >= 0 THEN v ELSE v + 2 * h)
  <2>1. 2 * h \in Nat /\ 2 * h > 0
    OBVIOUS
  <2> QED
    BY <2>1, Modulo
<1>2. PackedSize \div 2 = h * l
  <2>1. (2 * h) * l = (h * l) * 2 + 0 /\ h * l \in Int
    BY ONLY h \in Nat, l \in Nat
  <2>2. ((h * l) * 2 + 0) \div 2 = h * l
    BY <2>1, Quotient
  <2> QED
    BY <2>1, <2>2
<1> HIDE DEF m
<1>3. CASE v >= 0
  <2>1. m = v /\ v <= h - 1
    BY <1>1, <1>3
  <2>2. v * l + low < h * l
    <3>1. v * l <= (h - 1) * l
      BY ONLY <2>1, v \in Int, <1>3, h \in Nat, l \in Nat, l > 0
    <3>2. (h - 1) * l = h * l - l
      BY ONLY h \in Nat, l \in Nat
    <3> QED
      BY ONLY <3>1, <3>2, low \in 0 .. l - 1, l \in Nat, v * l \in Int, h * l \in Int,
              v \in Int, h \in Nat
  <2>3. (v * l + low) \div l = v
    BY Quotient
  <2>4. ~ (n >= h * l)
    BY <2>1, <2>2, v * l + low \in Int, h * l \in Int
  <2> QED
    BY <1>2, <2>1, <2>3, <2>4 DEF ShiftRight, m
<1>4. CASE v < 0
  <2>1. m = v + 2 * h /\ v >= -h
    BY <1>1, <1>4
  <2>2. m * l = v * l + (2 * h) * l
    BY ONLY <2>1, v \in Int, h \in Nat, l \in Nat
  <2>3. n >= h * l
    <3>1. m >= h
      BY <2>1
    <3>2. m * l >= h * l
      BY ONLY <3>1, <1>1, h \in Nat, l \in Nat, l > 0
    <3> QED
      BY ONLY <3>2, <1>1, h * l \in Int, m * l \in Int, low \in 0 .. l - 1, l \in Nat, h \in Nat
  <2>4. n - PackedSize = v * l + low
    BY ONLY <2>2, PackedSize = (2 * h) * l, v * l \in Int, (2 * h) * l \in Int, low \in 0 .. l - 1,
            v \in Int, h \in Nat, l \in Nat, <1>1
  <2>5. (v * l + low) \div l = v
    BY Quotient
  <2> QED
    BY <1>2, <2>3, <2>4, <2>5 DEF ShiftRight, m
<1> QED
  BY <1>3, <1>4

(* What is assumed of the parameters, in the form the proofs cite.             *)
LEMMA Parameters ==
  /\ Base \in Nat /\ Base > 1 /\ Half \in Nat /\ Half > 0
  /\ XSize \in Nat /\ XSize > 0 /\ XSize % 2 = 0
  /\ YSize \in Nat /\ YSize > 0 /\ YSize % 2 = 0
  /\ PackedSize = XSize * YSize * XSize /\ PackedSize = Values[Size["i64"]]
  /\ Size["i64"] \in Nat /\ Size["i64"] > 0
<1>1. "i64" \in FixedSizes
  BY DEF FixedSizes
<1> QED
  BY <1>1, Sizes, WireAssumption DEF PackedSize

(* An even number is twice its half.                                           *)
LEMMA Even ==
  ASSUME NEW n \in Nat, n > 0, n % 2 = 0
  PROVE  \E h \in Nat : h > 0 /\ n = 2 * h
<1>1. n \div 2 \in Nat /\ n = 2 * (n \div 2)
  OBVIOUS
<1> QED
  BY <1>1

Positions ==
  (-(XSize \div 2) .. XSize \div 2 - 1) \X (-(YSize \div 2) .. YSize \div 2 - 1)
    \X (-(XSize \div 2) .. XSize \div 2 - 1)

(* A position is three digits, of which the fields' lengths are the bases.     *)
LEMMA Packed ==
  ASSUME NEW x \in Int, NEW y \in Int, NEW z \in Int
  PROVE  /\ to_packed(<<x, y, z>>) =
              (x % XSize) * (XSize * YSize) + ((z % XSize) * YSize + (y % YSize))
         /\ (z % XSize) * YSize + (y % YSize) \in 0 .. XSize * YSize - 1
         /\ to_packed(<<x, y, z>>) \in 0 .. PackedSize - 1
         /\ x % XSize \in 0 .. XSize - 1 /\ z % XSize \in 0 .. XSize - 1
         /\ y % YSize \in 0 .. YSize - 1
<1> DEFINE X == XSize
           Y == YSize
           a == x % X
           b == y % Y
           c == z % X
<1>1. X \in Nat /\ X > 0 /\ Y \in Nat /\ Y > 0 /\ PackedSize = X * Y * X
  BY Parameters
<1>2. a \in 0 .. X - 1 /\ b \in 0 .. Y - 1 /\ c \in 0 .. X - 1
  BY <1>1, Modulo
<1>3. to_packed(<<x, y, z>>) = ShiftLeft(a, X * Y) + ShiftLeft(c, Y) + b
  BY DEF to_packed
<1> HIDE DEF X, Y, a, b, c
<1>4. c * Y + b \in 0 .. X * Y - 1
  <2>1. c * Y <= (X - 1) * Y
    BY ONLY <1>1, <1>2
  <2>2. (X - 1) * Y = X * Y - Y /\ c * Y >= 0
    BY ONLY <1>1, <1>2
  <2> QED
    BY ONLY <2>1, <2>2, <1>1, <1>2, X * Y \in Int, c * Y \in Int
<1>5. a * (X * Y) + (c * Y + b) \in 0 .. PackedSize - 1 /\ a * (X * Y) >= 0
  <2> DEFINE n == X * Y
  <2>1. n \in Nat /\ n > 0 /\ PackedSize = n * X
    BY ONLY <1>1
  <2> HIDE DEF n
  <2>2. a * n <= (X - 1) * n
    BY ONLY <1>1, <1>2, <2>1
  <2>3. (X - 1) * n = n * X - n /\ a * n >= 0
    BY ONLY <1>1, <1>2, <2>1
  <2>4. c * Y + b \in 0 .. n - 1
    BY <1>4 DEF n
  <2>5. a * n + (c * Y + b) \in 0 .. PackedSize - 1
    BY ONLY <2>1, <2>2, <2>3, <2>4, <1>1, <1>2, n * X \in Int, a * n \in Int, c * Y + b \in Int
  <2> QED
    BY <2>3, <2>5 DEF n
<1>6. /\ PackedSize \in Nat /\ PackedSize > 0
      /\ X * Y \in Nat /\ a * (X * Y) \in Nat /\ c * Y \in Nat
  BY ONLY <1>1, <1>2
<1>7. ShiftLeft(a, X * Y) = a * (X * Y)
  <2>1. a * (X * Y) \in 0 .. PackedSize - 1
    BY ONLY <1>4, <1>5, <1>6
  <2> QED
    BY <1>6, <2>1, Modulo DEF ShiftLeft
<1>8. ShiftLeft(c, Y) = c * Y
  <2>1. c * Y \in 0 .. PackedSize - 1
    BY ONLY <1>2, <1>5, <1>6
  <2> QED
    BY <1>6, <2>1, Modulo DEF ShiftLeft
<1>9. (a * (X * Y) + c * Y) + b = a * (X * Y) + (c * Y + b)
  BY ONLY <1>2, <1>6
<1>10. to_packed(<<x, y, z>>) = a * (X * Y) + (c * Y + b)
  BY ONLY <1>3, <1>7, <1>8, <1>9
<1> QED
  BY <1>2, <1>4, <1>5, <1>10 DEF X, Y, a, b, c

(* from_packed cuts a position's three numbers out again, with their signs.    *)
LEMMA PositionInverts ==
  ASSUME NEW x \in Int, NEW y \in Int, NEW z \in Int, <<x, y, z>> \in Positions
  PROVE  from_packed(to_packed(<<x, y, z>>)) = <<x, y, z>>
<1> DEFINE X == XSize
           Y == YSize
           a == x % X
           b == y % Y
           c == z % X
           p == to_packed(<<x, y, z>>)
<1>1. X \in Nat /\ X > 0 /\ Y \in Nat /\ Y > 0 /\ PackedSize = X * Y * X
  BY Parameters
<1>2. /\ p = a * (X * Y) + (c * Y + b)
      /\ c * Y + b \in 0 .. X * Y - 1
      /\ a \in 0 .. X - 1 /\ b \in 0 .. Y - 1 /\ c \in 0 .. X - 1
  BY Packed
<1>3. PICK h \in Nat : h > 0 /\ X = 2 * h
  BY Parameters, Even
<1>4. PICK k \in Nat : k > 0 /\ Y = 2 * k
  BY Parameters, Even
<1>5. x \in -h .. h - 1 /\ y \in -k .. k - 1 /\ z \in -h .. h - 1
  <2>1. X \div 2 = h /\ Y \div 2 = k
    BY ONLY <1>3, <1>4
  <2> QED
    BY <2>1 DEF Positions
<1> HIDE DEF X, Y, a, b, c, p
<1>6. ShiftRight(p, X * Y) = x
  <2> DEFINE l == X * Y
             low == c * Y + b
  <2>1. l \in Nat /\ l > 0
    BY ONLY <1>1
  <2>2. PackedSize = (2 * h) * l
    BY ONLY <1>1, <1>3
  <2>3. low \in 0 .. l - 1
    BY <1>2
  <2>4. a = x % (2 * h)
    BY <1>3 DEF a
  <2>5. p = (x % (2 * h)) * l + low
    BY <1>2, <2>4
  <2> HIDE DEF l, low
  <2>6. ShiftRight((x % (2 * h)) * l + low, l) = x
    BY <2>1, <2>2, <2>3, <1>3, <1>5, CutHigh
  <2> QED
    BY <2>5, <2>6 DEF l
<1>7. ShiftRight(ShiftLeft(p, X), X * Y) = z
  <2> DEFINE l == X * Y
             low == b * X
  <2>1. l \in Nat /\ l > 0
    BY ONLY <1>1
  <2>2. PackedSize = (2 * h) * l
    BY ONLY <1>1, <1>3
  <2>3. low \in 0 .. l - 1
    <3>1. b * X <= (Y - 1) * X
      BY ONLY <1>1, <1>2
    <3>2. (Y - 1) * X = X * Y - X /\ b * X >= 0 /\ b * X \in Int /\ X * Y \in Int
      BY ONLY <1>1, <1>2
    <3> QED
      BY ONLY <3>1, <3>2, <1>1
  <2>4. c = z % (2 * h)
    BY <1>3 DEF c
  <2>5. ShiftLeft(p, X) = c * l + low
    <3> DEFINE r == c * l + low
    <3>1. p * X = a * PackedSize + r
      <4>1. p * X = a * (X * Y) * X + (c * Y + b) * X
        BY ONLY <1>1, <1>2
      <4>2. a * (X * Y) * X = a * (X * Y * X)
        BY ONLY <1>1, <1>2
      <4>3. (c * Y + b) * X = c * (X * Y) + b * X
        BY ONLY <1>1, <1>2
      <4> QED
        BY ONLY <4>1, <4>2, <4>3, <1>1
    <3>2. r \in 0 .. PackedSize - 1
      <4> HIDE DEF l, low
      <4>1. c * l <= (X - 1) * l
        BY ONLY <1>1, <1>2, <2>1
      <4>2. (X - 1) * l = X * l - l /\ c * l >= 0 /\ c * l \in Int /\ X * l \in Int
        BY ONLY <1>1, <1>2, <2>1
      <4>3. PackedSize = X * l
        BY ONLY <2>2, <1>3
      <4> QED
        BY ONLY <4>1, <4>2, <4>3, <2>1, <2>3
    <3>3. PackedSize \in Nat /\ PackedSize > 0 /\ a \in Int
      BY ONLY <1>1, <1>2
    <3> HIDE DEF r
    <3>4. (a * PackedSize + r) % PackedSize = r
      BY <3>2, <3>3, Quotient
    <3> QED
      BY <3>1, <3>4 DEF ShiftLeft, r
  <2> HIDE DEF l, low
  <2>6. ShiftRight((z % (2 * h)) * l + low, l) = z
    BY <2>1, <2>2, <2>3, <1>3, <1>5, CutHigh
  <2> QED
    BY <2>4, <2>5, <2>6 DEF l
<1>8. ShiftRight(ShiftLeft(p, X * X), X * X) = y
  <2> DEFINE l == X * X
             r == b * l
  <2>1. l \in Nat /\ l > 0
    BY ONLY <1>1
  <2>2. PackedSize = (2 * k) * l
    BY ONLY <1>1, <1>4
  <2>3. b = y % (2 * k)
    BY <1>4 DEF b
  <2>4. ShiftLeft(p, X * X) = r
    <3>1. p * l = (a * X + c) * PackedSize + r
      <4>1. p * l = a * (X * Y) * (X * X) + (c * Y + b) * (X * X)
        BY ONLY <1>1, <1>2
      <4>2. a * (X * Y) * (X * X) = (a * X) * (X * Y * X)
        BY ONLY <1>1, <1>2
      <4>3. (c * Y + b) * (X * X) = c * (X * Y * X) + b * (X * X)
        BY ONLY <1>1, <1>2
      <4>4. (a * X + c) * (X * Y * X) = (a * X) * (X * Y * X) + c * (X * Y * X)
        BY ONLY <1>1, <1>2
      <4> QED
        BY ONLY <4>1, <4>2, <4>3, <4>4, <1>1, <1>2
    <3>2. r \in 0 .. PackedSize - 1
      <4> HIDE DEF l
      <4>1. b * l <= (Y - 1) * l
        BY ONLY <1>1, <1>2, <2>1
      <4>2. (Y - 1) * l = Y * l - l /\ b * l >= 0 /\ b * l \in Int /\ Y * l \in Int
        BY ONLY <1>1, <1>2, <2>1
      <4>3. PackedSize = Y * l
        BY ONLY <2>2, <1>4
      <4> QED
        BY ONLY <4>1, <4>2, <4>3, <2>1
    <3>3. PackedSize \in Nat /\ PackedSize > 0 /\ a * X + c \in Int
      BY ONLY <1>1, <1>2
    <3> DEFINE q == a * X + c
    <3> HIDE DEF r, q
    <3>4. (q * PackedSize + r) % PackedSize = r
      BY <3>2, <3>3, Quotient DEF q
    <3> QED
      BY <3>1, <3>4 DEF ShiftLeft, q
  <2> HIDE DEF l
  <2>5. ShiftRight((y % (2 * k)) * l + 0, l) = y
    <3>1. /\ y \in Int /\ k \in Nat /\ k > 0 /\ y \in -k .. k - 1 /\ l \in Nat /\ l > 0
          /\ PackedSize = (2 * k) * l /\ 0 \in 0 .. l - 1
      BY <2>1, <2>2, <1>4, <1>5
    <3> QED
      BY ONLY <3>1, CutHigh
  <2>6. (y % (2 * k)) * l + 0 = r
    BY <1>2, <2>1, <2>3
  <2> QED
    BY <2>4, <2>5, <2>6 DEF l
<1> QED
  BY <1>6, <1>7, <1>8 DEF from_packed, p, X, Y
------------------------------------------------------------------------------
(* Values satisfies its own definition: a byte more is 2 * Base times as many. *)
LEMMA ValuesAre ==
  /\ Values \in [0 .. Size["i64"] -> Nat \ {0}]
  /\ Values[0] = 1
  /\ \A n \in 1 .. Size["i64"] : Values[n] = 2 * Base * Values[n - 1]
<1> DEFINE N == Size["i64"]
           D == 0 .. N
           W == Nat \ {0}
           step == [n \in 1 .. N |-> [m \in W |-> 2 * Base * m]]
<1>1. N \in Nat
  BY Parameters
<1>2. step \in [1 .. N -> [W -> W]] /\ 1 \in W
  <2>1. ASSUME NEW m \in W PROVE 2 * Base * m \in W
    <3>1. Base \in Nat /\ Base > 1
      BY Parameters
    <3> QED
      BY <3>1
  <2> QED
    BY <2>1
<1>3. PICK g \in [D -> W] : Recurs(g, N, 1, step)
  <2> HIDE DEF step, W, N
  <2> QED
    BY <1>1, <1>2, Recurrence
<1>4. \A n \in D : g[n] = IF n = 0 THEN 1 ELSE 2 * Base * g[n - 1]
  <2>1. \A n \in D : n # 0 => n \in 1 .. N /\ g[n - 1] \in W
    BY <1>1
  <2> QED
    BY <1>3, <2>1 DEF Recurs
<1>5. g = [n \in D |-> IF n = 0 THEN 1 ELSE 2 * Base * g[n - 1]]
  BY <1>4
<1>6. Values = CHOOSE f : f = [m \in D |-> IF m = 0 THEN 1 ELSE 2 * Base * f[m - 1]]
  BY DEF Values
<1> HIDE DEF D
<1>7. Values = [n \in D |-> IF n = 0 THEN 1 ELSE 2 * Base * Values[n - 1]]
  BY <1>5, <1>6
<1>8. Values[0] = 1 /\ \A n \in 1 .. N : Values[n] = 2 * Base * Values[n - 1]
  <2>1. \A n \in D : Values[n] = IF n = 0 THEN 1 ELSE 2 * Base * Values[n - 1]
    BY <1>7
  <2>2. 0 \in D /\ \A n \in 1 .. N : n \in D /\ n # 0
    BY <1>1 DEF D
  <2> QED
    BY <2>1, <2>2
<1>9. \A n \in 0 .. N : Values[n] \in W
  <2> DEFINE S == {n \in 0 .. N : Values[n] \in W}
  <2>1. ASSUME NEW n \in 0 .. N, \A m \in 0 .. n - 1 : m \in S PROVE n \in S
    <3>1. CASE n = 0
      BY <1>8, <3>1
    <3>2. CASE n # 0
      <4>1. n \in 1 .. N /\ n - 1 \in 0 .. n - 1
        BY <1>1, <3>2
      <4>2. Values[n - 1] \in Nat /\ Values[n - 1] > 0
        BY <2>1, <4>1
      <4>3. Base \in Nat /\ Base > 1
        BY Parameters
      <4>4. 2 * Base * Values[n - 1] \in W
        BY <4>2, <4>3
      <4> QED
        BY <1>8, <4>1, <4>4
    <3> QED
      BY <3>1, <3>2
  <2>2. 0 .. N \subseteq S
    <3> HIDE DEF S, N
    <3> QED
      BY <1>1, <2>1, Forwards
  <2> QED
    BY <2>2
<1>10. Values \in [0 .. N -> W]
  BY <1>7, <1>9 DEF D
<1> QED
  BY <1>8, <1>10

(* The number that bytes hold, one byte after the other.                       *)
LEMMA FromBigEndianIs ==
  ASSUME NEW body \in [1 .. Size["i64"] -> Nat]
  PROVE  \E g \in [0 .. Size["i64"] -> Nat] :
           /\ g[0] = 0
           /\ \A n \in 1 .. Size["i64"] : g[n] = 2 * Base * g[n - 1] + body[n]
           /\ g[Size["i64"]] = FromBigEndian(body)
<1> DEFINE N == Size["i64"]
           D == 0 .. N
           step == [n \in 1 .. N |-> [m \in Nat |-> 2 * Base * m + body[n]]]
           F(f) == [n \in D |-> IF n = 0 THEN 0 ELSE 2 * Base * f[n - 1] + body[n]]
           number == CHOOSE f : f = F(f)
<1>1. N \in Nat /\ N > 0 /\ Base \in Nat
  BY Parameters
<1>2. step \in [1 .. N -> [Nat -> Nat]]
  BY <1>1
<1>3. PICK g \in [D -> Nat] : Recurs(g, N, 0, step)
  <2> HIDE DEF step, N
  <2> QED
    BY <1>1, <1>2, Recurrence
<1>4. \A n \in D : g[n] = IF n = 0 THEN 0 ELSE 2 * Base * g[n - 1] + body[n]
  <2>1. \A n \in D : n # 0 => n \in 1 .. N /\ g[n - 1] \in Nat
    BY <1>1
  <2> QED
    BY <1>3, <2>1 DEF Recurs
<1>5. g = F(g)
  BY <1>4
<1>6. FromBigEndian(body) = number[N]
  BY DEF FromBigEndian
<1>7. number = F(number)
  BY <1>5
<1> HIDE DEF number
<1>8. number[0] = 0 /\ \A n \in 1 .. N : number[n] = 2 * Base * number[n - 1] + body[n]
  <2>1. \A n \in D : number[n] = IF n = 0 THEN 0 ELSE 2 * Base * number[n - 1] + body[n]
    BY <1>7
  <2>2. 0 \in D /\ \A n \in 1 .. N : n \in D /\ n # 0
    BY <1>1
  <2> QED
    BY <2>1, <2>2
<1>9. \A n \in 0 .. N : number[n] \in Nat
  <2> DEFINE S == {n \in 0 .. N : number[n] \in Nat}
  <2>1. ASSUME NEW n \in 0 .. N, \A m \in 0 .. n - 1 : m \in S PROVE n \in S
    <3>1. CASE n = 0
      BY <1>8, <3>1
    <3>2. CASE n # 0
      <4>1. n \in 1 .. N /\ n - 1 \in 0 .. n - 1 /\ body[n] \in Nat
        BY <1>1, <3>2
      <4>2. number[n - 1] \in Nat
        BY <2>1, <4>1
      <4>3. 2 * Base * number[n - 1] + body[n] \in Nat
        <5>1. \A b, u, v \in Nat : 2 * b * u + v \in Nat
          OBVIOUS
        <5> QED
          BY ONLY <5>1, <1>1, <4>1, <4>2
      <4> QED
        BY <1>8, <4>1, <4>3
    <3> QED
      BY <3>1, <3>2
  <2>2. 0 .. N \subseteq S
    <3> HIDE DEF S, N
    <3> QED
      BY <1>1, <2>1, Forwards
  <2> QED
    BY <2>2
<1>10. number \in [0 .. N -> Nat]
  BY <1>7, <1>9
<1> QED
  BY <1>6, <1>8, <1>10

(* A position's eight bytes and the number they stand for.                     *)
LEMMA BigEndianInverts ==
  ASSUME NEW packed \in 0 .. PackedSize - 1
  PROVE  /\ BigEndian(packed) \in [1 .. Size["i64"] -> Byte]
         /\ FromBigEndian(BigEndian(packed)) = packed
<1> DEFINE N == Size["i64"]
           body == BigEndian(packed)
<1>1. /\ N \in Nat /\ N > 0 /\ Base \in Nat /\ Base > 1
      /\ PackedSize = Values[N]
  BY Parameters
<1>2. /\ \A n \in 0 .. N : Values[n] \in Nat /\ Values[n] > 0
      /\ Values[0] = 1
      /\ \A n \in 1 .. N : Values[n] = 2 * Base * Values[n - 1]
  BY ValuesAre
<1>3. packed \in Nat /\ packed < Values[N]
  BY <1>1, <1>2
<1>4. \A i \in 1 .. N : body[i] = (packed \div Values[N - i]) % (2 * Base)
  BY DEF BigEndian
<1>5. ASSUME NEW i \in 1 .. N PROVE body[i] \in Byte
  <2>1. N - i \in 0 .. N
    BY <1>1
  <2>2. Values[N - i] \in Nat /\ Values[N - i] > 0
    BY <1>2, <2>1
  <2>3. packed \div Values[N - i] \in Nat
    BY <1>3, <2>2
  <2>4. 2 * Base \in Nat /\ 2 * Base > 0
    BY <1>1
  <2>5. (packed \div Values[N - i]) % (2 * Base) \in 0 .. 2 * Base - 1
    BY <2>3, <2>4, Modulo
  <2> QED
    BY <1>4, <2>5 DEF Byte
<1>6. body \in [1 .. N -> Byte]
  BY <1>5 DEF BigEndian
<1>7. body \in [1 .. N -> Nat]
  BY <1>1, <1>6 DEF Byte
<1> HIDE DEF body
<1>8. PICK g \in [0 .. N -> Nat] :
        /\ g[0] = 0
        /\ \A n \in 1 .. N : g[n] = 2 * Base * g[n - 1] + body[n]
        /\ g[N] = FromBigEndian(body)
  BY <1>7, FromBigEndianIs
<1>9. \A n \in 0 .. N : g[n] = packed \div Values[N - n]
  <2> DEFINE S == {n \in 0 .. N : g[n] = packed \div Values[N - n]}
  <2>1. ASSUME NEW n \in 0 .. N, \A m \in 0 .. n - 1 : m \in S PROVE n \in S
    <3>1. CASE n = 0
      <4>1. packed \div Values[N] = 0
        <5>1. Values[N] \in Nat /\ Values[N] > 0 /\ packed = 0 * Values[N] + packed
              /\ packed \in 0 .. Values[N] - 1
          BY <1>1, <1>2, <1>3
        <5> QED
          BY <5>1, Quotient
      <4> QED
        BY <1>1, <1>8, <3>1, <4>1
    <3>2. CASE n # 0
      <4>1. n \in 1 .. N /\ n - 1 \in 0 .. n - 1 /\ N - n \in 0 .. N /\ N - (n - 1) \in 1 .. N
            /\ (N - (n - 1)) - 1 = N - n
        BY <1>1, <3>2
      <4>2. g[n - 1] = packed \div Values[N - (n - 1)]
        BY <2>1, <4>1
      <4>3. PICK v \in Nat : v > 0 /\ v = Values[N - n]
        BY <1>2, <4>1
      <4>4. Values[N - (n - 1)] = 2 * Base * v
        BY <1>2, <4>1, <4>3
      <4>5. PICK q \in Nat : q = packed \div v
        BY <1>3, <4>3
      <4>6. packed \div (2 * Base * v) = q \div (2 * Base)
        <5>1. 2 * Base \in Nat /\ 2 * Base > 0 /\ v * (2 * Base) = 2 * Base * v
          BY <1>1, <4>3
        <5>2. (packed \div v) \div (2 * Base) = packed \div (v * (2 * Base))
          BY <1>3, <4>3, <5>1, DivTwice
        <5> QED
          BY <4>5, <5>1, <5>2
      <4>7. q = 2 * Base * (q \div (2 * Base)) + (q % (2 * Base))
        <5> DEFINE b == 2 * Base
        <5>1. b \in Nat /\ b > 1
          BY <1>1
        <5> HIDE DEF b
        <5>2. q = b * (q \div b) + (q % b)
          BY <5>1
        <5> QED
          BY <5>2 DEF b
      <4>8. g[n] = 2 * Base * g[n - 1] + body[n]
        BY <1>8, <4>1
      <4>9. body[n] = q % (2 * Base)
        BY <1>4, <4>1, <4>3, <4>5 DEF body
      <4>10. g[n] = q
        BY <4>2, <4>4, <4>6, <4>7, <4>8, <4>9
      <4> QED
        BY <4>3, <4>5, <4>10
    <3> QED
      BY <3>1, <3>2
  <2>2. 0 .. N \subseteq S
    <3> HIDE DEF S, N
    <3> QED
      BY <1>1, <2>1, Forwards
  <2> QED
    BY <2>2
<1>10. g[N] = packed
  <2>1. N \in 0 .. N /\ N - N = 0
    BY <1>1
  <2>2. packed \div 1 = packed
    BY <1>3
  <2> QED
    BY <1>2, <1>9, <2>1, <2>2
<1> QED
  BY <1>6, <1>8, <1>10 DEF body
------------------------------------------------------------------------------
(* What a field holds, by the kind of its type.                                *)
LEMMA TypeIs ==
  ASSUME NEW type \in FieldTypes
  PROVE  /\ type.kind \in {"fixed", "position", "bool", "option", "number", "intent", "vec",
                          "text", "json", "raw"}
         /\ type.of \in Seq(FieldTypes)
         /\ type.kind = "fixed" => type.n \in Nat /\ type.n > 0
         /\ type.kind = "intent" => type.n \in 1 .. Half - 1
         /\ type.kind = "raw" <=> type = RawBytes
         /\ RawBytes \in ToSet(type.of) => type = Option(<<RawBytes>>)
         /\ \A inner \in ToSet(type.of) : RawBytes \notin ToSet(inner.of)
<1>1. WellFormed(type)
  BY TablesAssumption
<1> QED
  BY <1>1 DEF WellFormed

(* Bytes and integers.                                                         *)
LEMMA Bytes ==
  /\ 0 \in Byte /\ 1 \in Byte
  /\ Byte \subseteq Nat
  /\ 0 .. 2 * Base - 2 \subseteq Byte
  /\ Signed \subseteq Int
  /\ 0 .. Half - 1 \subseteq Signed
BY Parameters DEF Byte, Signed

(* A leaf of zeros, or of the high bytes.                                      *)
LEMMA FixedLeaf ==
  ASSUME NEW type \in FieldTypes, type.kind = "fixed", NEW leaf \in Leaves(type)
  PROVE  leaf \in Seq(Byte) /\ Len(leaf) = type.n
<1>1. type.n \in Nat /\ Base \in Nat /\ Base > 1
  BY TypeIs, Parameters
<1> DEFINE zeros == [i \in 1 .. type.n |-> 0]
           high == [i \in 1 .. type.n |-> (2 * Base - i) % (2 * Base)]
<1>2. leaf = zeros \/ leaf = high
  BY DEF Leaves, Plain
<1>3. zeros \in Seq(Byte) /\ Len(zeros) = type.n
  BY <1>1, Bytes
<1>4. ASSUME NEW i \in 1 .. type.n PROVE (2 * Base - i) % (2 * Base) \in Byte
  <2>1. 2 * Base - i \in Int /\ 2 * Base \in Nat /\ 2 * Base > 0
    BY <1>1
  <2> QED
    BY <2>1, Modulo DEF Byte
<1>5. high \in Seq(Byte) /\ Len(high) = type.n
  <2>1. high \in [1 .. type.n -> Byte]
    BY <1>4
  <2> HIDE DEF high
  <2> QED
    BY <1>1, <2>1
<1> QED
  BY <1>2, <1>3, <1>5

(* The corners of a coordinate are within it.                                  *)
LEMMA Corner ==
  ASSUME NEW size \in Nat, size > 0, size % 2 = 0, NEW v, v \in Corners(size) \/ v = 0
  PROVE  v \in -(size \div 2) .. size \div 2 - 1
<1>1. PICK h \in Nat : h > 0 /\ size = 2 * h
  BY Even
<1>2. size \div 2 = h
  BY <1>1
<1> QED
  BY <1>1, <1>2 DEF Corners

(* A position that can be packed.                                              *)
LEMMA PositionLeaf ==
  ASSUME NEW type \in FieldTypes, type.kind = "position", NEW leaf \in Leaves(type)
  PROVE  \E x, y, z \in Int : leaf = <<x, y, z>> /\ leaf \in Positions
<1>1. leaf = <<0, 0, 0>> \/ leaf \in Corners(XSize) \X Corners(YSize) \X Corners(XSize)
  BY DEF Leaves, Plain
<1>2. PICK x, y, z : /\ leaf = <<x, y, z>>
                     /\ x \in Corners(XSize) \/ x = 0
                     /\ y \in Corners(YSize) \/ y = 0
                     /\ z \in Corners(XSize) \/ z = 0
  BY <1>1
<1>3. /\ x \in -(XSize \div 2) .. XSize \div 2 - 1
      /\ y \in -(YSize \div 2) .. YSize \div 2 - 1
      /\ z \in -(XSize \div 2) .. XSize \div 2 - 1
  BY <1>2, Parameters, Corner
<1>4. XSize \div 2 \in Int /\ YSize \div 2 \in Int
  BY Parameters
<1> QED
  BY <1>2, <1>3, <1>4 DEF Positions

(* A number, of its own or of elements that follow.                            *)
LEMMA NumberLeaf ==
  ASSUME NEW type \in FieldTypes, NEW leaf \in Leaves(type)
  PROVE  /\ type.kind \in {"bool", "option"} => leaf = <<0>> \/ leaf = <<1>>
         /\ type.kind = "number" => \E v \in Signed : leaf = <<v>>
         /\ type.kind = "intent" => \E v \in 1 .. type.n : leaf = <<v>> /\ v \in Signed
         /\ type.kind = "vec" => \E v \in Nat : leaf = <<v>> /\ v \in Signed
<1>1. CASE type.kind \in {"bool", "option"}
  BY <1>1 DEF Leaves, Plain
<1>2. CASE type.kind = "number"
  <2>1. leaf = <<0>> \/ leaf \in {<<number>> : number \in Numbers}
    BY <1>2 DEF Leaves, Plain
  <2>2. 0 \in Signed /\ Numbers \subseteq Signed
    BY Parameters, WireAssumption DEF Signed
  <2> QED
    BY <1>2, <2>1, <2>2
<1>3. CASE type.kind = "intent"
  <2>1. leaf = <<1>> \/ leaf \in {<<intent>> : intent \in 1 .. type.n}
    BY <1>3 DEF Leaves, Plain
  <2>2. type.n \in 1 .. Half - 1 /\ \A v \in 1 .. Half - 1 : v \in Signed
    BY <1>3, TypeIs, Parameters DEF Signed
  <2> QED
    BY <1>3, <2>1, <2>2, Parameters
<1>4. CASE type.kind = "vec"
  <2>1. leaf = <<0>> \/ leaf \in {<<count>> : count \in 0 .. MaxCount}
    BY <1>4 DEF Leaves, Plain
  <2>2. MaxCount \in Nat /\ MaxCount < Half
    BY WireAssumption
  <2>3. \A v \in 0 .. MaxCount : v \in Nat /\ v \in Signed
    BY <2>2, Parameters DEF Signed
  <2> QED
    BY <1>4, <2>1, <2>2, <2>3
<1> QED
  BY <1>1, <1>2, <1>3, <1>4

(* A text that is short enough to be written, and UTF-8.                       *)
LEMMA TextLeaf ==
  ASSUME NEW type \in FieldTypes, type.kind \in {"text", "json"}, NEW leaf \in Leaves(type)
  PROVE  /\ leaf \in Seq(Byte) /\ Len(leaf) \in Nat /\ Len(leaf) \in Signed
         /\ IsUtf8(leaf)
         /\ type.kind = "json" => leaf \in Jsons
<1>1. /\ Texts \subseteq Seq(0 .. 2 * Base - 2)
      /\ \A text \in Texts : Len(text) < Half
      /\ Jsons \subseteq Texts /\ Jsons # {}
  BY WireAssumption
<1>2. leaf \in Texts \union {<< >>} /\ (type.kind = "json" => leaf \in Jsons)
  <2>1. CASE type.kind = "text"
    BY <2>1 DEF Leaves, Plain
  <2>2. CASE type.kind = "json"
    <3>1. leaf = (CHOOSE text \in Jsons : TRUE) \/ leaf \in Jsons
      BY <2>2 DEF Leaves, Plain
    <3> QED
      BY <1>1, <3>1
  <2> QED
    BY <2>1, <2>2
<1>3. leaf \in Seq(0 .. 2 * Base - 2) /\ Len(leaf) < Half
  <2>1. << >> \in Seq(0 .. 2 * Base - 2) /\ Len(<< >>) = 0 /\ 0 < Half
    BY Parameters
  <2> QED
    BY <1>1, <1>2, <2>1
<1>4. leaf \in Seq(Byte)
  BY <1>3, Bytes, SeqMonotonic
<1>5. Len(leaf) \in Nat /\ Len(leaf) \in Signed
  BY <1>3, Parameters DEF Signed
<1>6. IsUtf8(leaf)
  <2>1. \A i \in 1 .. Len(leaf) : leaf[i] \in 0 .. 2 * Base - 2
    <3> DEFINE S == 0 .. 2 * Base - 2
    <3>1. leaf \in Seq(S)
      BY <1>3
    <3> HIDE DEF S
    <3>2. \A i \in 1 .. Len(leaf) : leaf[i] \in S
      BY ONLY <3>1, ElementOfSeq
    <3> QED
      BY <3>2 DEF S
  <2> QED
    BY <2>1, Parameters DEF IsUtf8
<1> QED
  BY <1>2, <1>4, <1>5, <1>6

(* What a RawBytes holds.                                                      *)
LEMMA RawLeaf ==
  ASSUME NEW type \in FieldTypes, type.kind = "raw", NEW leaf \in Leaves(type)
  PROVE  leaf \in Seq(Byte)
<1>1. leaf = << >> \/ leaf \in Blobs
  BY DEF Leaves, Plain
<1>2. Blobs \subseteq Seq(Byte) /\ << >> \in Seq(Byte)
  BY WireAssumption, EmptySeq
<1> QED
  BY <1>1, <1>2
------------------------------------------------------------------------------
(* What is left of a whole that was cut.                                       *)
LEMMA Shorter ==
  ASSUME NEW part \in Seq(Byte), NEW rest \in Seq(Byte), rest # << >>
  PROVE  Len(part) \in 0 .. Len(part \o rest) - 1 /\ SubSeq(part \o rest, 1, Len(part)) = part
<1>1. Len(part \o rest) = Len(part) + Len(rest) /\ Len(part) \in Nat
  BY ConcatProperties, LenProperties
<1>2. Len(rest) \in Nat \ {0}
  BY EmptySeq
<1>3. SubSeq(part \o rest, 1, Len(part)) = part
  BY ConcatEnds
<1> QED
  BY <1>1, <1>2, <1>3

(* As many bytes as are wanted, or too few.                                    *)
LEMMA FixedReads ==
  ASSUME NEW n \in Nat, NEW whole \in Seq(Byte), Len(whole) = n
  PROVE  /\ \A more \in Seq(Byte) : ReadFixed(n, whole \o more) = Got(whole, n)
         /\ \A part \in Seq(Byte) : Len(part) < n => ReadFixed(n, part) = Refused("truncated")
<1>1. ASSUME NEW more \in Seq(Byte) PROVE ReadFixed(n, whole \o more) = Got(whole, n)
  <2>1. Len(whole \o more) = n + Len(more) /\ Len(more) \in Nat
    BY ConcatProperties, LenProperties
  <2>2. ~ (Len(whole \o more) < n)
    BY <2>1
  <2>3. SubSeq(whole \o more, 1, n) = whole
    BY ConcatEnds
  <2> QED
    BY <2>2, <2>3 DEF ReadFixed
<1> QED
  BY <1>1 DEF ReadFixed

(* The records that the decoders return.                                       *)
LEMMA ReadIs ==
  /\ \A leaf, used : /\ Got(leaf, used).result = "ok" /\ Got(leaf, used).leaf = leaf
                     /\ Got(leaf, used).used = used
  /\ \A why : /\ Refused(why).result = why /\ Refused(why).leaf = << >> /\ Refused(why).used = 0
BY DEF Got, Refused, Read

(* A VarInt.                                                                   *)
LEMMA NumberReads ==
  ASSUME NEW v \in Signed
  PROVE  /\ encode(v) \in Seq(Byte) /\ encode(v) # << >>
         /\ \A more \in Seq(Byte) : ReadNumber(encode(v) \o more) = Got(<<v>>, Len(encode(v)))
         /\ \A part, rest \in Seq(Byte) :
              encode(v) = part \o rest /\ rest # << >> => ReadNumber(part) = Refused("truncated")
<1>1. encode(v) \in Seq(Byte) /\ Len(encode(v)) > 0
  BY EncodeIs
<1>2. encode(v) # << >>
  BY <1>1, EmptySeq
<1>3. ASSUME NEW more \in Seq(Byte) PROVE ReadNumber(encode(v) \o more) = Got(<<v>>, Len(encode(v)))
  <2>1. decode(encode(v) \o more) = Decoded("value", v, Len(encode(v)))
    BY DecodeInvertsEncode
  <2>2. /\ decode(encode(v) \o more).result = "value"
        /\ decode(encode(v) \o more).value = v
        /\ decode(encode(v) \o more).used = Len(encode(v))
    BY <2>1 DEF Decoded
  <2> QED
    BY <2>2 DEF ReadNumber
<1>4. ASSUME NEW part \in Seq(Byte), NEW rest \in Seq(Byte),
             encode(v) = part \o rest, rest # << >>
      PROVE  ReadNumber(part) = Refused("truncated")
  <2>1. Len(part) \in 0 .. Len(encode(v)) - 1 /\ SubSeq(encode(v), 1, Len(part)) = part
    BY <1>4, Shorter
  <2>2. decode(part).result = "eof"
    BY <2>1, CutVarIntIsEof
  <2> QED
    BY <2>2 DEF ReadNumber
<1> QED
  BY <1>1, <1>2, <1>3, <1>4

(* A byte that is 0 or 1.                                                      *)
LEMMA BoolReads ==
  ASSUME NEW b \in {0, 1}
  PROVE  /\ <<b>> \in Seq(Byte) /\ Len(<<b>>) = 1
         /\ \A more \in Seq(Byte) : ReadBool(<<b>> \o more) = Got(<<b>>, 1)
         /\ \A part \in Seq(Byte) : Len(part) < 1 => ReadBool(part) = Refused("truncated")
<1>1. <<b>> \in Seq(Byte) /\ Len(<<b>>) = 1 /\ <<b>>[1] = b
  BY Bytes
<1>2. /\ \A more \in Seq(Byte) : ReadFixed(1, <<b>> \o more) = Got(<<b>>, 1)
      /\ \A part \in Seq(Byte) : Len(part) < 1 => ReadFixed(1, part) = Refused("truncated")
  BY <1>1, FixedReads
<1>3. ~ (b > 1)
  OBVIOUS
<1>4. ASSUME NEW more \in Seq(Byte) PROVE ReadBool(<<b>> \o more) = Got(<<b>>, 1)
  <2>1. /\ ReadFixed(1, <<b>> \o more) = Got(<<b>>, 1)
        /\ Got(<<b>>, 1).leaf = <<b>>
    BY <1>2, ReadIs
  <2> QED
    BY <1>1, <1>3, <2>1 DEF ReadBool
<1>5. ASSUME NEW part \in Seq(Byte), Len(part) < 1 PROVE ReadBool(part) = Refused("truncated")
  <2>1. /\ ReadFixed(1, part) = Refused("truncated")
        /\ Refused("truncated").result # "ok"
    BY <1>2, <1>5, ReadIs
  <2> QED
    BY <2>1 DEF ReadBool
<1> QED
  BY <1>1, <1>4, <1>5

(* The bytes of a packed position.                                             *)
LEMMA PositionReads ==
  ASSUME NEW x \in Int, NEW y \in Int, NEW z \in Int, <<x, y, z>> \in Positions
  PROVE  /\ BigEndian(to_packed(<<x, y, z>>)) \in Seq(Byte)
         /\ Len(BigEndian(to_packed(<<x, y, z>>))) = Size["i64"]
         /\ \A more \in Seq(Byte) :
              ReadPosition(BigEndian(to_packed(<<x, y, z>>)) \o more)
                = Got(<<x, y, z>>, Size["i64"])
         /\ \A part \in Seq(Byte) :
              Len(part) < Size["i64"] => ReadPosition(part) = Refused("truncated")
<1> DEFINE p == to_packed(<<x, y, z>>)
           n == Size["i64"]
<1>0. n \in Nat
  BY Parameters
<1>1. p \in 0 .. PackedSize - 1
  BY Packed
<1>2. from_packed(p) = <<x, y, z>>
  BY PositionInverts
<1> HIDE DEF p
<1>3. BigEndian(p) \in [1 .. n -> Byte] /\ FromBigEndian(BigEndian(p)) = p
  BY <1>1, BigEndianInverts
<1>4. BigEndian(p) \in Seq(Byte) /\ Len(BigEndian(p)) = n
  BY <1>0, <1>3
<1>5. /\ \A more \in Seq(Byte) : ReadFixed(n, BigEndian(p) \o more) = Got(BigEndian(p), n)
      /\ \A part \in Seq(Byte) : Len(part) < n => ReadFixed(n, part) = Refused("truncated")
  BY <1>0, <1>4, FixedReads
<1>6. ASSUME NEW more \in Seq(Byte)
      PROVE  ReadPosition(BigEndian(p) \o more) = Got(<<x, y, z>>, n)
  <2>1. ReadFixed(n, BigEndian(p) \o more) = Got(BigEndian(p), n)
    BY <1>5
  <2>2. ReadPosition(BigEndian(p) \o more)
          = [Got(BigEndian(p), n) EXCEPT !.leaf = from_packed(FromBigEndian(@))]
    BY <2>1, ReadIs DEF ReadPosition
  <2> QED
    BY <1>2, <1>3, <2>2 DEF Got, Read
<1>7. ASSUME NEW part \in Seq(Byte), Len(part) < n PROVE ReadPosition(part) = Refused("truncated")
  <2>1. /\ ReadFixed(n, part) = Refused("truncated")
        /\ Refused("truncated").result # "ok"
    BY <1>5, <1>7, ReadIs
  <2> QED
    BY <2>1 DEF ReadPosition
<1> QED
  BY <1>4, <1>6, <1>7 DEF p

(* What becomes of a text whose length has been read.                          *)
BehindLength(read, u) ==
  IF read.result = "ok" /\ ~IsUtf8(read.leaf) THEN Refused("malformed")
  ELSE [read EXCEPT !.used = @ + u]

(* ReadText does that once it has the length.                                  *)
LEMMA TextBehind ==
  ASSUME NEW body \in Seq(Byte), NEW n \in Int, NEW u \in Nat, n >= 0, NEW read,
         ReadNumber(body) = Got(<<n>>, u),
         ReadFixed(n, SubSeq(body, u + 1, Len(body))) = read
  PROVE  ReadText(body) = BehindLength(read, u)
<1>1. /\ ReadNumber(body).result = "ok"
      /\ ReadNumber(body).leaf[1] = n
      /\ ReadNumber(body).used = u
  BY ReadIs
<1>2. ~ (n < 0)
  OBVIOUS
<1> DEFINE length == ReadNumber(body)
<1>3. ReadText(body)
        = LET m == length.leaf[1]
              text == ReadFixed(m, SubSeq(body, length.used + 1, Len(body)))
          IN IF length.result # "ok" THEN length
             ELSE IF m < 0 THEN Refused("malformed")
             ELSE IF text.result = "ok" /\ ~IsUtf8(text.leaf) THEN Refused("malformed")
             ELSE [text EXCEPT !.used = @ + length.used]
  BY DEF ReadText
<1> HIDE DEF length
<1>4. length.result = "ok" /\ length.leaf[1] = n /\ length.used = u
  BY <1>1 DEF length
<1> QED
  BY <1>2, <1>3, <1>4 DEF BehindLength

(* A text behind its length.                                                   *)
LEMMA TextReads ==
  ASSUME NEW text \in Seq(Byte), Len(text) \in Signed, IsUtf8(text)
  PROVE  LET whole == encode(Len(text)) \o text IN
         /\ whole \in Seq(Byte) /\ whole # << >>
         /\ \A more \in Seq(Byte) : ReadText(whole \o more) = Got(text, Len(whole))
         /\ \A part, rest \in Seq(Byte) :
              whole = part \o rest /\ rest # << >> => ReadText(part).result = "truncated"
<1> DEFINE n == Len(text)
           length == encode(n)
           whole == length \o text
<1>1. n \in Nat /\ n \in Signed
  OBVIOUS
<1>2. /\ length \in Seq(Byte) /\ length # << >>
      /\ \A more \in Seq(Byte) : ReadNumber(length \o more) = Got(<<n>>, Len(length))
      /\ \A part, rest \in Seq(Byte) :
           length = part \o rest /\ rest # << >> => ReadNumber(part) = Refused("truncated")
  BY <1>1, NumberReads
<1> HIDE DEF length
<1>3. /\ whole \in Seq(Byte) /\ whole # << >>
      /\ Len(whole) = Len(length) + n /\ Len(length) \in Nat
  BY <1>2, ConcatProperties, ConcatEqualIffEmpty, LenProperties
<1>4. ASSUME NEW m \in Seq(Byte), NEW read, ReadFixed(n, m) = read
      PROVE  ReadText(length \o m)
               = IF read.result = "ok" /\ ~IsUtf8(read.leaf) THEN Refused("malformed")
                 ELSE [read EXCEPT !.used = @ + Len(length)]
  <2>1. ReadNumber(length \o m) = Got(<<n>>, Len(length))
    BY <1>2
  <2>2. SubSeq(length \o m, Len(length) + 1, Len(length \o m)) = m
    BY <1>2, ConcatEnds
  <2>3. length \o m \in Seq(Byte) /\ Len(length) \in Nat
    BY <1>2
  <2>4. ReadFixed(n, SubSeq(length \o m, Len(length) + 1, Len(length \o m))) = read
    BY <1>4, <2>2
  <2>5. n \in Int /\ n >= 0
    BY <1>1
  <2> DEFINE b == length \o m
             u == Len(length)
  <2>6. b \in Seq(Byte) /\ u \in Nat
    BY <2>3
  <2> HIDE DEF n, b, u
  <2>7. ReadNumber(b) = Got(<<n>>, u) /\ ReadFixed(n, SubSeq(b, u + 1, Len(b))) = read
    BY <2>1, <2>4 DEF b, u
  <2>8. ReadText(b) = BehindLength(read, u)
    BY <2>5, <2>6, <2>7, TextBehind
  <2> QED
    BY <2>8 DEF b, u, BehindLength
<1>5. ASSUME NEW more \in Seq(Byte) PROVE ReadText(whole \o more) = Got(text, Len(whole))
  <2>1. whole \o more = length \o (text \o more) /\ text \o more \in Seq(Byte)
    BY <1>2, ConcatAssociative, ConcatProperties
  <2>2. ReadFixed(n, text \o more) = Got(text, n)
    BY <1>1, FixedReads
  <2>3. ReadText(length \o (text \o more)) = [Got(text, n) EXCEPT !.used = @ + Len(length)]
    <3>1. Got(text, n).leaf = text
      BY ReadIs
    <3> HIDE DEF n
    <3> QED
      BY <1>4, <2>1, <2>2, <3>1
  <2>4. [Got(text, n) EXCEPT !.used = @ + Len(length)] = Got(text, n + Len(length))
    BY DEF Got, Read
  <2>5. n + Len(length) = Len(whole)
    BY <1>1, <1>3
  <2> QED
    BY <2>1, <2>3, <2>4, <2>5
<1>6. ASSUME NEW part \in Seq(Byte), NEW rest \in Seq(Byte), whole = part \o rest, rest # << >>
      PROVE  ReadText(part).result = "truncated"
  <2>1. Meet(Byte, part, rest, length, text)
    BY <1>2, <1>6, Split
  <2>2. CASE \E s \in Seq(Byte) : s # << >> /\ part \o s = length
    <3>1. ReadNumber(part) = Refused("truncated")
      BY <1>2, <2>2
    <3>2. ReadNumber(part).result = "truncated"
      BY <3>1, ReadIs
    <3> QED
      BY <3>2 DEF ReadText
  <2>3. CASE \E s \in Seq(Byte) : part = length \o s /\ s \o rest = text
    <3>1. PICK s \in Seq(Byte) : part = length \o s /\ s \o rest = text
      BY <2>3
    <3>2. Len(s) < n
      <4>1. Len(s) \in 0 .. Len(s \o rest) - 1
        BY <1>6, Shorter
      <4> QED
        BY <1>1, <3>1, <4>1
    <3>3. ReadFixed(n, s) = Refused("truncated")
      BY <1>1, <3>2, FixedReads
    <3>4. ReadText(part) = [Refused("truncated") EXCEPT !.used = @ + Len(length)]
      <4>1. Refused("truncated").result # "ok"
        BY ReadIs
      <4> QED
        BY <1>4, <3>1, <3>3, <4>1
    <3> QED
      BY <3>4 DEF Refused, Read
  <2> QED
    BY <2>1, <2>2, <2>3 DEF Meet
<1> QED
  BY <1>3, <1>5, <1>6 DEF length
------------------------------------------------------------------------------
(* Encode and Decode of a type fit each other for a value: at the head of any  *)
(* bytes, Decode takes exactly what Encode wrote for what it was; of less, it  *)
(* makes an end of file.                                                       *)
Reads(type, leaf) ==
  LET whole == Encoded(type, leaf) IN
  /\ whole \in Seq(Byte) /\ whole # << >>
  /\ \A more \in Seq(Byte) : Decoding(type, whole \o more) = Got(leaf, Len(whole))
  /\ \A part, rest \in Seq(Byte) :
       whole = part \o rest /\ rest # << >> => Decoding(type, part).result = "truncated"

(* It is enough to look at whole and part of what was encoded.                 *)
LEMMA ReadsFixed ==
  ASSUME NEW type, NEW leaf, NEW n \in Nat, n > 0, NEW whole \in Seq(Byte), Len(whole) = n,
         Encoded(type, leaf) = whole,
         \A more \in Seq(Byte) : Decoding(type, whole \o more) = Got(leaf, n),
         \A part \in Seq(Byte) : Len(part) < n => Decoding(type, part) = Refused("truncated")
  PROVE  Reads(type, leaf)
<1>1. whole # << >>
  BY EmptySeq
<1>2. ASSUME NEW part \in Seq(Byte), NEW rest \in Seq(Byte), whole = part \o rest, rest # << >>
      PROVE  Decoding(type, part).result = "truncated"
  <2>1. Len(part) < n
    BY <1>2, Shorter
  <2>2. Decoding(type, part) = Refused("truncated")
    BY <2>1
  <2> QED
    BY <2>2, ReadIs
<1> QED
  BY <1>1, <1>2 DEF Reads

(* A type whose Encode writes the leaf as it is.                               *)
LEMMA FixedField ==
  ASSUME NEW type \in FieldTypes, type.kind = "fixed", NEW leaf \in Leaves(type)
  PROVE  Reads(type, leaf)
<1>1. leaf \in Seq(Byte) /\ Len(leaf) = type.n
  BY FixedLeaf
<1>2. type.n \in Nat /\ type.n > 0
  BY TypeIs
<1>3. Encoded(type, leaf) = leaf
  BY DEF Encoded
<1>4. \A body : Decoding(type, body) = ReadFixed(type.n, body)
  BY DEF Decoding
<1>5. /\ \A more \in Seq(Byte) : ReadFixed(type.n, leaf \o more) = Got(leaf, type.n)
      /\ \A part \in Seq(Byte) : Len(part) < type.n =>
            ReadFixed(type.n, part) = Refused("truncated")
  BY <1>1, <1>2, FixedReads
<1> QED
  BY <1>1, <1>2, <1>3, <1>4, <1>5, ReadsFixed

(* bool, and the bool in front of an option.                                   *)
LEMMA BoolField ==
  ASSUME NEW type \in FieldTypes, type.kind \in {"bool", "option"}, NEW leaf \in Leaves(type)
  PROVE  Reads(type, leaf)
<1>1. PICK b \in {0, 1} : leaf = <<b>>
  BY NumberLeaf
<1>2. Encoded(type, leaf) = leaf
  BY DEF Encoded
<1>3. \A body : Decoding(type, body) = ReadBool(body)
  BY DEF Decoding
<1>4. /\ <<b>> \in Seq(Byte) /\ Len(<<b>>) = 1
      /\ \A more \in Seq(Byte) : ReadBool(<<b>> \o more) = Got(<<b>>, 1)
      /\ \A part \in Seq(Byte) : Len(part) < 1 => ReadBool(part) = Refused("truncated")
  BY BoolReads
<1> DEFINE n == 1
<1>5. n \in Nat /\ n > 0 /\ Len(leaf) = n /\ leaf \in Seq(Byte)
  BY <1>1, <1>4
<1>6. /\ \A more \in Seq(Byte) : Decoding(type, leaf \o more) = Got(leaf, n)
      /\ \A part \in Seq(Byte) : Len(part) < n => Decoding(type, part) = Refused("truncated")
  BY <1>1, <1>3, <1>4
<1> HIDE DEF n
<1> QED
  BY <1>2, <1>5, <1>6, ReadsFixed

(* A position.                                                                 *)
LEMMA PositionField ==
  ASSUME NEW type \in FieldTypes, type.kind = "position", NEW leaf \in Leaves(type)
  PROVE  Reads(type, leaf)
<1>1. PICK x, y, z \in Int : leaf = <<x, y, z>> /\ leaf \in Positions
  BY PositionLeaf
<1> DEFINE whole == BigEndian(to_packed(<<x, y, z>>))
           n == Size["i64"]
<1>2. Encoded(type, leaf) = whole
  BY <1>1 DEF Encoded
<1>3. \A body : Decoding(type, body) = ReadPosition(body)
  BY DEF Decoding
<1>4. /\ whole \in Seq(Byte) /\ Len(whole) = n
      /\ \A more \in Seq(Byte) : ReadPosition(whole \o more) = Got(<<x, y, z>>, n)
      /\ \A part \in Seq(Byte) : Len(part) < n => ReadPosition(part) = Refused("truncated")
  BY <1>1, PositionReads
<1>5. n \in Nat /\ n > 0
  BY Parameters
<1> HIDE DEF whole, n
<1> QED
  BY <1>1, <1>2, <1>3, <1>4, <1>5, ReadsFixed

(* A VarInt, whatever it is used for.                                          *)
LEMMA NumberField ==
  ASSUME NEW type \in FieldTypes, type.kind \in {"number", "intent", "vec"},
         NEW leaf \in Leaves(type)
  PROVE  Reads(type, leaf)
<1>1. PICK v \in Signed : /\ leaf = <<v>>
                          /\ type.kind = "intent" => v \in 1 .. type.n
                          /\ type.kind = "vec" => v \in Nat
  BY NumberLeaf
<1>2. Encoded(type, leaf) = encode(v)
  BY <1>1 DEF Encoded
<1>3. /\ encode(v) \in Seq(Byte) /\ encode(v) # << >>
      /\ \A more \in Seq(Byte) : ReadNumber(encode(v) \o more) = Got(<<v>>, Len(encode(v)))
      /\ \A part, rest \in Seq(Byte) :
           encode(v) = part \o rest /\ rest # << >> => ReadNumber(part) = Refused("truncated")
  BY NumberReads
<1>4. ASSUME NEW body, ReadNumber(body).result # "ok"
      PROVE  Decoding(type, body) = ReadNumber(body)
  BY <1>4 DEF Decoding, ReadIntent, ReadVec
<1>5. ASSUME NEW body, NEW u, ReadNumber(body) = Got(<<v>>, u)
      PROVE  Decoding(type, body) = Got(<<v>>, u)
  <2>1. ReadNumber(body).leaf[1] = v
    BY <1>5, ReadIs
  <2>2. CASE type.kind = "number"
    BY <1>5, <2>2 DEF Decoding
  <2>3. CASE type.kind = "intent"
    BY <1>1, <1>5, <2>1, <2>3 DEF Decoding, ReadIntent
  <2>4. CASE type.kind = "vec"
    <3>1. ~ (v < 0)
      BY <1>1, <2>4
    <3> QED
      BY <1>5, <2>1, <2>4, <3>1 DEF Decoding, ReadVec
  <2> QED
    BY <2>2, <2>3, <2>4
<1>6. \A more \in Seq(Byte) : Decoding(type, encode(v) \o more) = Got(leaf, Len(encode(v)))
  BY <1>1, <1>3, <1>5
<1>7. ASSUME NEW part \in Seq(Byte), NEW rest \in Seq(Byte),
             encode(v) = part \o rest, rest # << >>
      PROVE  Decoding(type, part).result = "truncated"
  <2>1. ReadNumber(part) = Refused("truncated")
    BY <1>3, <1>7
  <2>2. ReadNumber(part).result = "truncated"
    BY <2>1, ReadIs
  <2> QED
    BY <1>4, <2>2
<1> QED
  BY <1>2, <1>3, <1>6, <1>7 DEF Reads

(* A text.                                                                     *)
LEMMA TextField ==
  ASSUME NEW type \in FieldTypes, type.kind \in {"text", "json"}, NEW leaf \in Leaves(type)
  PROVE  Reads(type, leaf)
<1>1. /\ leaf \in Seq(Byte) /\ Len(leaf) \in Signed /\ IsUtf8(leaf)
      /\ type.kind = "json" => leaf \in Jsons
  BY TextLeaf
<1> DEFINE whole == encode(Len(leaf)) \o leaf
<1>2. Encoded(type, leaf) = whole
  BY DEF Encoded
<1>3. /\ whole \in Seq(Byte) /\ whole # << >>
      /\ \A more \in Seq(Byte) : ReadText(whole \o more) = Got(leaf, Len(whole))
      /\ \A part, rest \in Seq(Byte) :
           whole = part \o rest /\ rest # << >> => ReadText(part).result = "truncated"
  BY <1>1, TextReads
<1> HIDE DEF whole
<1>4. ASSUME NEW body, ReadText(body).result # "ok"
      PROVE  Decoding(type, body) = ReadText(body)
  BY <1>4 DEF Decoding, ReadJson
<1>5. ASSUME NEW body, NEW u, ReadText(body) = Got(leaf, u)
      PROVE  Decoding(type, body) = Got(leaf, u)
  <2>1. ReadText(body).leaf = leaf
    BY <1>5, ReadIs
  <2> QED
    BY <1>1, <1>5, <2>1 DEF Decoding, ReadJson
<1>6. \A more \in Seq(Byte) : Decoding(type, whole \o more) = Got(leaf, Len(whole))
  BY <1>3, <1>5
<1>7. ASSUME NEW part \in Seq(Byte), NEW rest \in Seq(Byte), whole = part \o rest, rest # << >>
      PROVE  Decoding(type, part).result = "truncated"
  <2>1. ReadText(part).result = "truncated"
    BY <1>3, <1>7
  <2> QED
    BY <1>4, <2>1
<1> QED
  BY <1>2, <1>3, <1>6, <1>7 DEF Reads

(* Every type but RawBytes: a field comes back as it was written, from exactly *)
(* its bytes, and one that was cut is an UnexpectedEof.                        *)
THEOREM FieldReads ==
  ASSUME NEW type \in FieldTypes, type.kind # "raw", NEW leaf \in Leaves(type)
  PROVE  Reads(type, leaf)
<1>1. type.kind \in {"fixed", "position", "bool", "option", "number", "intent", "vec",
                     "text", "json"}
  BY TypeIs
<1> QED
  BY <1>1, FixedField, BoolField, PositionField, NumberField, TextField
------------------------------------------------------------------------------
(* What a decoder returns, whatever bytes it is given.                         *)
Readable(read) ==
  /\ read.result \in {"ok", "truncated", "malformed"}
  /\ read.leaf \in Seq(Int)
  /\ read.used \in Nat

(* A refusal.                                                                  *)
LEMMA RefusedType ==
  Readable(Refused("truncated")) /\ Readable(Refused("malformed"))
<1>1. << >> \in Seq(Int) /\ 0 \in Nat
  BY EmptySeq
<1> QED
  BY <1>1 DEF Readable, Refused, Read

(* A value that was read.                                                      *)
LEMMA GotType ==
  ASSUME NEW leaf \in Seq(Int), NEW used \in Nat
  PROVE  /\ Readable(Got(leaf, used))
         /\ Got(leaf, used).result = "ok"
         /\ Got(leaf, used).leaf = leaf
         /\ Got(leaf, used).used = used
BY DEF Readable, Got, Read

(* Bytes are integers.                                                         *)
LEMMA BytesAreInts == Seq(Byte) \subseteq Seq(Int)
<1>1. Byte \subseteq Int
  BY Bytes
<1> QED
  BY <1>1, SeqMonotonic

(* ReadFixed.                                                                  *)
LEMMA FixedType ==
  ASSUME NEW n \in Nat, NEW body \in Seq(Byte)
  PROVE  /\ Readable(ReadFixed(n, body))
         /\ ReadFixed(n, body).result # "malformed"
         /\ ReadFixed(n, body).result = "ok" =>
              ReadFixed(n, body).leaf \in Seq(Byte) /\ Len(ReadFixed(n, body).leaf) = n
<1>1. CASE Len(body) < n
  BY <1>1, RefusedType, ReadIs DEF ReadFixed
<1>2. CASE ~ (Len(body) < n)
  <2> DEFINE head == SubSeq(body, 1, n)
  <2>1. head \in Seq(Byte) /\ Len(head) = n
    BY <1>2
  <2>2. ReadFixed(n, body) = Got(head, n)
    BY <1>2 DEF ReadFixed
  <2> HIDE DEF head
  <2>3. head \in Seq(Int)
    BY <2>1, BytesAreInts
  <2>4. Readable(Got(head, n)) /\ Got(head, n).result = "ok" /\ Got(head, n).leaf = head
    BY <2>3, GotType
  <2> QED
    BY <2>1, <2>2, <2>4
<1> QED
  BY <1>1, <1>2

(* ReadNumber.                                                                 *)
LEMMA NumberType ==
  ASSUME NEW body \in Seq(Byte)
  PROVE  /\ Readable(ReadNumber(body))
         /\ ReadNumber(body).result = "ok" =>
              \E v \in Signed, u \in 1 .. Len(body) : ReadNumber(body) = Got(<<v>>, u)
<1>1. /\ decode(body).result \in {"error", "eof", "value"}
      /\ decode(body).value \in Signed
      /\ decode(body).result = "value" =>
           decode(body).used \in 1 .. MaxBytes /\ decode(body).used <= Len(body)
  BY DecodeShape
<1>2. CASE decode(body).result = "value"
  <2> DEFINE v == decode(body).value
             u == decode(body).used
  <2>1. ReadNumber(body) = Got(<<v>>, u)
    BY <1>2 DEF ReadNumber
  <2>2. u \in 1 .. Len(body) /\ u \in Nat
    BY <1>1, <1>2, Sizes
  <2>3. v \in Signed
    BY <1>1
  <2> HIDE DEF v, u
  <2>4. v \in Int
    BY <2>3, Bytes
  <2>5. <<v>> \in Seq(Int)
    BY <2>4
  <2>6. Readable(Got(<<v>>, u))
    BY <2>2, <2>5, GotType
  <2> QED
    BY <2>1, <2>2, <2>3, <2>6
<1>3. CASE decode(body).result = "eof"
  BY <1>3, RefusedType, ReadIs DEF ReadNumber
<1>4. CASE decode(body).result = "error"
  BY <1>4, RefusedType, ReadIs DEF ReadNumber
<1> QED
  BY <1>1, <1>2, <1>3, <1>4

(* ReadPosition.                                                               *)
LEMMA PositionType ==
  ASSUME NEW body \in Seq(Byte)
  PROVE  Readable(ReadPosition(body))
<1> DEFINE n == Size["i64"]
           packed == ReadFixed(n, body)
<1>1. n \in Nat
  BY Parameters
<1>2. /\ Readable(packed)
      /\ packed.result = "ok" => packed.leaf \in Seq(Byte) /\ Len(packed.leaf) = n
  BY <1>1, FixedType
<1>3. CASE packed.result # "ok"
  BY <1>2, <1>3 DEF ReadPosition
<1>4. CASE packed.result = "ok"
  <2> DEFINE number == FromBigEndian(packed.leaf)
  <2>1. packed.leaf \in [1 .. n -> Nat]
    <3>1. packed.leaf \in [1 .. n -> Byte]
      BY <1>2, <1>4, LenProperties
    <3> QED
      BY <3>1, Bytes
  <2> HIDE DEF packed
  <2>2. number \in Nat
    <3>1. PICK g \in [0 .. n -> Nat] : g[n] = number
      BY <2>1, FromBigEndianIs
    <3> QED
      BY <1>1, <3>1
  <2> HIDE DEF number
  <2>3. from_packed(number) \in Seq(Int)
    <3>1. XSize \in Nat /\ YSize \in Nat /\ XSize > 0 /\ YSize > 0
      BY Parameters
    <3>2. PackedSize \in Nat /\ PackedSize > 0
      BY ONLY <3>1 DEF PackedSize
    <3>3. XSize * YSize \in Nat /\ XSize * YSize > 0 /\ XSize * XSize \in Nat /\ XSize * XSize > 0
      BY ONLY <3>1
    <3>4. \A v \in Int, by \in Nat : by > 0 => ShiftRight(v, by) \in Int
      BY <3>2 DEF ShiftRight
    <3>5. \A v \in Nat, by \in Nat : ShiftLeft(v, by) \in Int
      <4> SUFFICES ASSUME NEW v \in Nat, NEW by \in Nat PROVE (v * by) % PackedSize \in Int
        BY DEF ShiftLeft
      <4>1. v * by \in Int
        OBVIOUS
      <4> QED
        BY <3>2, <4>1, Modulo
    <3> DEFINE a == ShiftRight(number, XSize * YSize)
               b == ShiftRight(ShiftLeft(number, XSize * XSize), XSize * XSize)
               c == ShiftRight(ShiftLeft(number, XSize), XSize * YSize)
    <3>6. a \in Int /\ b \in Int /\ c \in Int
      <4>1. ShiftLeft(number, XSize * XSize) \in Int /\ ShiftLeft(number, XSize) \in Int
        BY <2>2, <3>1, <3>3, <3>5
      <4>2. a \in Int
        <5>1. number \in Int
          BY <2>2
        <5> QED
          BY <3>3, <3>4, <5>1
      <4>3. b \in Int
        BY <3>3, <3>4, <4>1
      <4>4. c \in Int
        BY <3>3, <3>4, <4>1
      <4> QED
        BY <4>2, <4>3, <4>4
    <3>7. from_packed(number) = <<a, b, c>>
      BY DEF from_packed
    <3> HIDE DEF a, b, c
    <3> QED
      BY <3>6, <3>7
  <2>4. ReadPosition(body) = [packed EXCEPT !.leaf = from_packed(number)]
    BY <1>4 DEF ReadPosition, packed, number
  <2>5. packed = Got(packed.leaf, n)
    BY <1>1, <1>4, ReadIs DEF packed, ReadFixed
  <2>6. ReadPosition(body) = Got(from_packed(number), n)
    BY <2>4, <2>5 DEF Got, Read
  <2> QED
    BY <1>1, <2>3, <2>6, ReadIs DEF Readable
<1> QED
  BY <1>3, <1>4

(* ReadText.                                                                   *)
LEMMA TextType ==
  ASSUME NEW body \in Seq(Byte)
  PROVE  Readable(ReadText(body))
<1>1. CASE ReadNumber(body).result # "ok"
  BY <1>1, NumberType DEF ReadText
<1>2. CASE ReadNumber(body).result = "ok"
  <2>1. PICK v \in Signed, u \in 1 .. Len(body) : ReadNumber(body) = Got(<<v>>, u)
    BY <1>2, NumberType
  <2>2. v \in Int /\ u \in Nat
    BY Bytes
  <2>3. CASE v < 0
    BY <2>1, <2>3, ReadIs, RefusedType DEF ReadText
  <2>4. CASE ~ (v < 0)
    <3> DEFINE behind == SubSeq(body, u + 1, Len(body))
               read == ReadFixed(v, behind)
    <3>1. behind \in Seq(Byte)
      BY <2>2
    <3>2. v \in Nat /\ v >= 0
      BY <2>2, <2>4
    <3> HIDE DEF behind
    <3>3. Readable(read)
      BY <3>1, <3>2, FixedType
    <3>4. ReadText(body) = BehindLength(read, u)
      BY <2>1, <2>2, <3>2, TextBehind DEF behind
    <3>5. /\ read.result = "ok" \/ read.result = "truncated"
          /\ read = Got(read.leaf, read.used) \/ read = Refused("truncated")
      BY ReadIs DEF ReadFixed
    <3> HIDE DEF read
    <3>6. /\ [Got(read.leaf, read.used) EXCEPT !.used = @ + u] = Got(read.leaf, read.used + u)
          /\ [Refused("truncated") EXCEPT !.used = @ + u] = Read("truncated", << >>, 0 + u)
      BY DEF Got, Refused, Read
    <3>7. read.used + u \in Nat /\ 0 + u \in Nat
      BY <2>2, <3>3 DEF Readable
    <3>8. \/ ReadText(body) = Refused("malformed")
          \/ ReadText(body) = Got(read.leaf, read.used + u)
          \/ ReadText(body) = Read("truncated", << >>, 0 + u)
      BY <3>4, <3>5, <3>6 DEF BehindLength
    <3>9. Readable(Got(read.leaf, read.used + u))
      BY <3>3, <3>7, ReadIs DEF Readable
    <3>10. Readable(Read("truncated", << >>, 0 + u))
      BY <3>7, EmptySeq DEF Readable, Read
    <3> QED
      BY <3>8, <3>9, <3>10, RefusedType
  <2> QED
    BY <2>3, <2>4
<1> QED
  BY <1>1, <1>2

(* Every decoder ends, with a value or an error, and a count that follows says *)
(* how many elements do.                                                       *)
LEMMA DecodingType ==
  ASSUME NEW type \in FieldTypes, NEW body \in Seq(Byte)
  PROVE  LET read == Decoding(type, body) IN
         /\ Readable(read)
         /\ type.kind = "fixed" => read.result # "malformed"
         /\ read.result = "ok" /\ type.kind = "vec" => read.leaf[1] \in Nat
         /\ read.result = "ok" /\ type.kind = "option" => read.leaf[1] \in {0, 1}
<1> DEFINE read == Decoding(type, body)
<1>1. CASE type.kind = "fixed"
  <2>1. read = ReadFixed(type.n, body)
    BY <1>1 DEF Decoding
  <2> QED
    BY <1>1, <2>1, FixedType, TypeIs
<1>2. CASE type.kind = "position"
  <2>1. read = ReadPosition(body)
    BY <1>2 DEF Decoding
  <2> QED
    BY <1>2, <2>1, PositionType
<1>3. CASE type.kind \in {"bool", "option"}
  <2> DEFINE byte == ReadFixed(1, body)
  <2>1. read = IF byte.result = "ok" /\ byte.leaf[1] > 1 THEN Refused("malformed") ELSE byte
    BY <1>3 DEF Decoding, ReadBool
  <2>2. /\ Readable(byte)
        /\ byte.result = "ok" => byte.leaf \in Seq(Byte) /\ Len(byte.leaf) = 1
    BY FixedType
  <2>3. byte.result = "ok" => byte.leaf[1] \in Nat
    <3> HIDE DEF byte
    <3> SUFFICES ASSUME byte.result = "ok" PROVE byte.leaf[1] \in Nat
      OBVIOUS
    <3>1. byte.leaf[1] \in Byte
      BY <2>2
    <3> QED
      BY <3>1, Bytes
  <2> HIDE DEF read, byte
  <2>4. Readable(read)
    BY <2>1, <2>2, RefusedType
  <2>5. read.result = "ok" => read.leaf[1] \in {0, 1}
    <3> SUFFICES ASSUME read.result = "ok" PROVE read.leaf[1] \in {0, 1}
      OBVIOUS
    <3>1. read = byte /\ ~ (byte.leaf[1] > 1)
      BY <2>1, ReadIs
    <3> QED
      BY <2>3, <3>1
  <2> QED
    BY <1>3, <2>4, <2>5 DEF read
<1>4. CASE type.kind = "number"
  <2>1. read = ReadNumber(body)
    BY <1>4 DEF Decoding
  <2> QED
    BY <1>4, <2>1, NumberType
<1>5. CASE type.kind = "intent"
  <2>1. read = ReadNumber(body) \/ read = Refused("malformed")
    BY <1>5 DEF Decoding, ReadIntent
  <2> QED
    BY <1>5, <2>1, NumberType, RefusedType
<1>6. CASE type.kind = "vec"
  <2> DEFINE length == ReadNumber(body)
  <2>1. read = IF length.result = "ok" /\ length.leaf[1] < 0 THEN Refused("malformed") ELSE length
    BY <1>6 DEF Decoding, ReadVec
  <2>2. /\ Readable(length)
        /\ length.result = "ok" => length.leaf[1] \in Int
    <3>1. Readable(length)
      BY NumberType
    <3>2. ASSUME length.result = "ok" PROVE length.leaf[1] \in Int
      <4>1. PICK v \in Signed, u \in 1 .. Len(body) : length = Got(<<v>>, u)
        BY <3>2, NumberType
      <4>2. length.leaf = <<v>>
        BY <4>1 DEF Got, Read
      <4> QED
        BY <4>2, Bytes
    <3> QED
      BY <3>1, <3>2
  <2> HIDE DEF read, length
  <2>3. Readable(read)
    BY <2>1, <2>2, RefusedType
  <2>4. read.result = "ok" => read.leaf[1] \in Nat
    <3> SUFFICES ASSUME read.result = "ok" PROVE read.leaf[1] \in Nat
      OBVIOUS
    <3>1. read = length /\ ~ (length.leaf[1] < 0)
      BY <2>1, ReadIs
    <3> QED
      BY <2>2, <3>1
  <2> QED
    BY <1>6, <2>3, <2>4 DEF read
<1>7. CASE type.kind \in {"text", "json"}
  <2>1. read = ReadText(body) \/ read = Refused("malformed")
    BY <1>7 DEF Decoding, ReadJson
  <2> QED
    BY <1>7, <2>1, TextType, RefusedType
<1>8. CASE type.kind = "raw"
  <2>1. read = Got(body, Len(body))
    BY <1>8 DEF Decoding
  <2>2. body \in Seq(Int) /\ Len(body) \in Nat
    BY BytesAreInts
  <2> QED
    BY <1>8, <2>1, <2>2, ReadIs DEF Readable
<1> QED
  BY <1>1, <1>2, <1>3, <1>4, <1>5, <1>6, <1>7, <1>8, TypeIs
------------------------------------------------------------------------------
(* The fields that follow a leaf.                                              *)
Counted(type, leaf) ==
  /\ type.kind = "vec" => leaf[1] \in Nat
  /\ type.kind = "option" => leaf[1] \in {0, 1}

(* A type is repeated as it is.                                                *)
LEMMA TimesIs ==
  ASSUME NEW S, NEW fields \in Seq(S), NEW n \in Nat
  PROVE  /\ Times(n, fields) \in Seq(S) /\ Len(Times(n, fields)) = n * Len(fields)
         /\ \A i \in 1 .. n * Len(fields) : Times(n, fields)[i] \in ToSet(fields)
<1> DEFINE size == Len(fields)
           at(i) == ((i - 1) % size) + 1
<1>1. size \in Nat /\ n * size \in Nat
  BY LenProperties
<1>2. ASSUME NEW i \in 1 .. n * size PROVE at(i) \in 1 .. size
  <2>1. size > 0
    <3>1. CASE size = 0
      <4>1. n * size = 0
        BY <3>1
      <4> QED
        BY <4>1
    <3> QED
      BY <1>1, <3>1
  <2>2. i - 1 \in Int
    BY <1>1
  <2>3. (i - 1) % size \in 0 .. size - 1
    BY <1>1, <2>1, <2>2, Modulo
  <2> QED
    BY <1>1, <2>3
<1>3. DOMAIN fields = 1 .. size
  BY LenProperties
<1>4. ASSUME NEW i \in 1 .. n * size PROVE fields[at(i)] \in S /\ fields[at(i)] \in ToSet(fields)
  BY <1>2, <1>3, <1>4, ElementOfSeq DEF ToSet
<1>5. Times(n, fields) = [i \in 1 .. n * size |-> fields[at(i)]]
  BY DEF Times
<1> HIDE DEF at, size
<1>6. Times(n, fields) \in Seq(S) /\ Len(Times(n, fields)) = n * size
  BY <1>1, <1>4, <1>5
<1> QED
  BY <1>4, <1>5, <1>6 DEF size

(* Behind an element of a list or an option there is always another field or   *)
(* nothing: RawBytes is only in an option, alone.                              *)
LEMMA FollowIs ==
  ASSUME NEW type \in FieldTypes, NEW leaf, Counted(type, leaf)
  PROVE  LET follow == Follow(type, leaf) IN
         /\ follow \in Seq(FieldTypes)
         /\ type.kind \notin {"vec", "option"} => follow = << >>
         /\ \/ \A i \in 1 .. Len(follow) : ~TakesAll(follow[i])
            \/ TakesAll(type) /\ Len(follow) = 1
<1>1. CASE type.kind \notin {"vec", "option"}
  <2>1. Follow(type, leaf) = << >>
    BY <1>1 DEF Follow
  <2> QED
    BY <1>1, <2>1, EmptySeq
<1>2. CASE type.kind \in {"vec", "option"}
  <2> DEFINE fields == type.of
             n == leaf[1]
             follow == Times(n, fields)
  <2>1. Follow(type, leaf) = follow
    BY <1>2 DEF Follow
  <2>2. n \in Nat
    BY <1>2 DEF Counted
  <2>3. fields \in Seq(FieldTypes)
    BY TypeIs
  <2>4. /\ follow \in Seq(FieldTypes) /\ Len(follow) = n * Len(fields)
        /\ \A i \in 1 .. n * Len(fields) : follow[i] \in ToSet(fields)
    <3> HIDE DEF n, fields
    <3> QED
      BY <2>2, <2>3, TimesIs
  <2>5. CASE RawBytes \notin ToSet(fields)
    <3>1. \A inner \in ToSet(fields) : ~TakesAll(inner)
      BY <2>5, TypeIs DEF TakesAll
    <3> HIDE DEF follow, fields, n
    <3> QED
      BY <1>2, <2>1, <2>4, <3>1
  <2>6. CASE RawBytes \in ToSet(fields)
    <3>1. type = Option(<<RawBytes>>) /\ TakesAll(type)
      BY <2>6, TypeIs DEF TakesAll
    <3>2. type.kind = "option" /\ Len(fields) = 1
      BY <3>1 DEF Option, Type
    <3>3. n = 0 \/ n = 1
      BY <3>2 DEF Counted
    <3> HIDE DEF follow, fields, n
    <3>4. Len(follow) = 0 \/ Len(follow) = 1
      BY <2>4, <3>2, <3>3
    <3> QED
      BY <1>2, <2>1, <2>4, <3>1, <3>4
  <2> QED
    BY <2>5, <2>6
<1> QED
  BY <1>1, <1>2

(* No RawBytes directly behind one that takes all; none that takes all before  *)
(* another field.                                                              *)
Ordered(types) == \A i \in 1 .. Len(types) - 1 : TakesAll(types[i]) => types[i + 1] # RawBytes
Apart(types) == \A i \in 1 .. Len(types) - 1 : ~TakesAll(types[i])

(* The order of the fields survives each of them.                              *)
LEMMA OrderKept ==
  ASSUME NEW types \in Seq(FieldTypes), types # << >>, NEW leaf, Counted(Head(types), leaf)
  PROVE  LET after == Follow(Head(types), leaf) \o Tail(types) IN
         /\ after \in Seq(FieldTypes)
         /\ Ordered(types) => Ordered(after)
         /\ Apart(types) => Apart(after)
<1> DEFINE follow == Follow(Head(types), leaf)
           tail == Tail(types)
           after == follow \o tail
<1>1. /\ Head(types) \in FieldTypes /\ Head(types) = types[1]
      /\ tail \in Seq(FieldTypes) /\ Len(tail) = Len(types) - 1 /\ Len(types) \in Nat
      /\ Len(types) > 0
      /\ \A i \in 1 .. Len(types) - 1 : tail[i] = types[i + 1]
  BY HeadTailProperties, EmptySeq
<1>2. /\ follow \in Seq(FieldTypes)
      /\ \/ \A i \in 1 .. Len(follow) : ~TakesAll(follow[i])
         \/ TakesAll(Head(types)) /\ Len(follow) = 1
  BY <1>1, FollowIs
<1> HIDE DEF follow, tail
<1>3. /\ after \in Seq(FieldTypes)
      /\ Len(follow) \in Nat
      /\ Len(after) = Len(follow) + Len(types) - 1
      /\ \A i \in 1 .. Len(after) : i <= Len(follow) => after[i] = follow[i]
      /\ \A i \in 1 .. Len(after) : i > Len(follow) => after[i] = types[i - Len(follow) + 1]
  <2>1. /\ after \in Seq(FieldTypes) /\ Len(after) = Len(follow) + Len(tail)
        /\ \A i \in 1 .. Len(follow) + Len(tail) :
             after[i] = IF i <= Len(follow) THEN follow[i] ELSE tail[i - Len(follow)]
    <3>1. follow \in Seq(FieldTypes) /\ tail \in Seq(FieldTypes)
      BY <1>1, <1>2
    <3> QED
      BY ONLY <3>1, ConcatProperties
  <2>2. Len(follow) \in Nat
    BY <1>2, LenProperties
  <2>3. ASSUME NEW i \in 1 .. Len(after), i > Len(follow)
        PROVE  after[i] = types[i - Len(follow) + 1]
    <3>1. i - Len(follow) \in 1 .. Len(types) - 1
      BY <1>1, <2>1, <2>2, <2>3
    <3> HIDE DEF after
    <3> QED
      BY <1>1, <2>1, <2>2, <2>3, <3>1
  <2> QED
    BY <1>1, <2>1, <2>2, <2>3
<1> HIDE DEF after
<1>4. ASSUME Ordered(types), NEW i \in 1 .. Len(after) - 1, TakesAll(after[i])
      PROVE  after[i + 1] # RawBytes
  <2>1. CASE i > Len(follow)
    <3>1. after[i] = types[i - Len(follow) + 1] /\ after[i + 1] = types[i - Len(follow) + 1 + 1]
      <4>1. i + 1 \in 1 .. Len(after) /\ i + 1 > Len(follow)
        BY <1>1, <1>3, <2>1
      <4>2. after[i + 1] = types[i + 1 - Len(follow) + 1]
        BY <1>3, <4>1
      <4>3. i + 1 - Len(follow) + 1 = i - Len(follow) + 1 + 1
        BY <1>3
      <4> QED
        BY <1>1, <1>3, <2>1, <4>2, <4>3
    <3>2. i - Len(follow) + 1 \in 1 .. Len(types) - 1
      BY <1>1, <1>3, <2>1
    <3> QED
      BY <1>4, <3>1, <3>2 DEF Ordered
  <2>2. CASE i <= Len(follow)
    <3>1. i \in 1 .. Len(follow) /\ after[i] = follow[i]
      BY <1>1, <1>3, <2>2
    <3>2. TakesAll(Head(types)) /\ Len(follow) = 1 /\ i = 1
      BY <1>2, <1>4, <3>1
    <3>3. after[2] = types[2] /\ 1 \in 1 .. Len(types) - 1
      BY <1>1, <1>3, <3>2
    <3> QED
      BY <1>1, <1>4, <3>2, <3>3 DEF Ordered
  <2> QED
    BY <1>3, <2>1, <2>2
<1>5. ASSUME Apart(types), NEW i \in 1 .. Len(after) - 1
      PROVE  ~TakesAll(after[i])
  <2>1. CASE i > Len(follow)
    <3>1. after[i] = types[i - Len(follow) + 1]
      BY <1>1, <1>3, <2>1
    <3>2. i - Len(follow) + 1 \in 1 .. Len(types) - 1
      BY <1>1, <1>3, <2>1
    <3> QED
      BY <1>5, <3>1, <3>2 DEF Apart
  <2>2. CASE i <= Len(follow)
    <3>1. i \in 1 .. Len(follow) /\ after[i] = follow[i]
      BY <1>1, <1>3, <2>2
    <3>2. CASE TakesAll(Head(types)) /\ Len(follow) = 1
      <4>1. 1 \in 1 .. Len(types) - 1
        BY <1>1, <1>3, <3>1, <3>2
      <4> QED
        BY <1>1, <1>5, <3>2, <4>1 DEF Apart
    <3> QED
      BY <1>2, <3>1, <3>2
  <2> QED
    BY <1>3, <2>1, <2>2
<1> QED
  BY <1>3, <1>4, <1>5 DEF after, follow, tail, Ordered, Apart

(* What stands behind a RawBytes.                                              *)
LEMMA BehindRaw ==
  ASSUME NEW types \in Seq(FieldTypes), types # << >>, Head(types) = RawBytes, NEW leaf
  PROVE  /\ Follow(Head(types), leaf) \o Tail(types) = Tail(types)
         /\ Apart(types) => Tail(types) = << >>
         /\ Ordered(types) /\ Tail(types) # << >> => Head(Tail(types)) # RawBytes
<1>1. /\ Tail(types) \in Seq(FieldTypes) /\ Len(Tail(types)) = Len(types) - 1
      /\ Len(types) \in Nat /\ types[1] = RawBytes
      /\ Len(types) > 1 => Tail(types)[1] = types[2]
  BY HeadTailProperties, EmptySeq
<1>2. Follow(Head(types), leaf) = << >>
  BY DEF Follow, RawBytes, Type
<1>3. TakesAll(types[1])
  BY <1>1 DEF TakesAll
<1> DEFINE tail == Tail(types)
<1> HIDE DEF tail
<1>4. tail # << >> => 1 \in 1 .. Len(types) - 1
  BY <1>1 DEF tail
<1>5. tail # << >> => Head(tail) = types[2]
  BY <1>1, <1>4 DEF tail
<1>6. Follow(Head(types), leaf) \o tail = tail
  BY <1>1, <1>2, ConcatEmptySeq DEF tail
<1> QED
  BY <1>3, <1>4, <1>5, <1>6 DEF Apart, Ordered, tail

(* The count a leaf holds, as it is written and as it is read.                 *)
LEMMA LeafCounts ==
  ASSUME NEW type \in FieldTypes, NEW leaf \in Leaves(type)
  PROVE  Counted(type, leaf)
<1>1. type.kind = "vec" => \E v \in Nat : leaf = <<v>>
  BY NumberLeaf
<1>2. type.kind = "option" => leaf = <<0>> \/ leaf = <<1>>
  BY NumberLeaf
<1> QED
  BY <1>1, <1>2 DEF Counted

(* A leaf is a sequence of integers, and its encoding one of bytes.            *)
LEMMA LeafType ==
  ASSUME NEW type \in FieldTypes, NEW leaf \in Leaves(type)
  PROVE  leaf \in Seq(Int) /\ Encoded(type, leaf) \in Seq(Byte)
<1>1. CASE type.kind = "raw"
  <2>1. leaf \in Seq(Byte)
    BY <1>1, RawLeaf
  <2>2. Encoded(type, leaf) = leaf
    BY <1>1 DEF Encoded
  <2> QED
    BY <2>1, <2>2, BytesAreInts
<1>2. CASE type.kind # "raw"
  <2>1. Encoded(type, leaf) \in Seq(Byte)
    BY <1>2, FieldReads DEF Reads
  <2>2. CASE type.kind = "fixed"
    BY <2>1, <2>2, FixedLeaf, BytesAreInts
  <2>3. CASE type.kind \in {"text", "json"}
    BY <2>1, <2>3, TextLeaf, BytesAreInts
  <2>4. CASE type.kind = "position"
    <3>1. PICK x, y, z \in Int : leaf = <<x, y, z>>
      BY <2>4, PositionLeaf
    <3> QED
      BY <2>1, <3>1
  <2>5. CASE type.kind \in {"bool", "option", "number", "intent", "vec"}
    <3>1. PICK v \in Int : leaf = <<v>>
      <4>1. CASE type.kind \in {"bool", "option"}
        <5>1. leaf = <<0>> \/ leaf = <<1>>
          BY <4>1, NumberLeaf
        <5> QED
          BY <5>1
      <4>2. CASE type.kind = "number"
        <5>1. PICK v \in Signed : leaf = <<v>>
          BY <4>2, NumberLeaf
        <5>2. v \in Int
          BY Bytes
        <5> QED
          BY <5>1, <5>2
      <4>3. CASE type.kind = "intent"
        <5>1. PICK v \in 1 .. type.n : leaf = <<v>> /\ v \in Signed
          BY <4>3, NumberLeaf
        <5>2. v \in Int
          BY <5>1, Bytes
        <5> QED
          BY <5>1, <5>2
      <4>4. CASE type.kind = "vec"
        <5>1. PICK v \in Nat : leaf = <<v>>
          BY <4>4, NumberLeaf
        <5> QED
          BY <5>1
      <4> QED
        BY <2>5, <4>1, <4>2, <4>3, <4>4
    <3> QED
      BY <2>1, <3>1
  <2> QED
    BY <1>2, <2>2, <2>3, <2>4, <2>5, TypeIs, <2>1
<1> QED
  BY <1>1, <1>2

(* With nothing left every field but a RawBytes is cut.                        *)
LEMMA NothingLeft ==
  ASSUME NEW type \in FieldTypes, type.kind # "raw"
  PROVE  Decoding(type, << >>).result = "truncated"
<1>1. Plain(type) \in Leaves(type)
  BY DEF Leaves
<1> DEFINE whole == Encoded(type, Plain(type))
<1>2. /\ whole \in Seq(Byte) /\ whole # << >>
      /\ \A part, rest \in Seq(Byte) :
           whole = part \o rest /\ rest # << >> => Decoding(type, part).result = "truncated"
  BY <1>1, FieldReads DEF Reads
<1> HIDE DEF whole
<1>3. whole = << >> \o whole /\ << >> \in Seq(Byte)
  BY <1>2, ConcatEmptySeq, EmptySeq
<1> QED
  BY <1>2, <1>3
------------------------------------------------------------------------------
(* What every state is made of.                                                *)
Typed ==
  /\ message \in Messages
  /\ stage \in {"write", "id", "read", "done"}
  /\ todo \in Seq(FieldTypes)
  /\ bytes \in Seq(Byte)
  /\ sent \in Seq(Seq(Int)) /\ got \in Seq(Seq(Int))
  /\ damage \in {"none", "cut", "more", "changed"}
  /\ departures \in 0 .. MaxDepartures
  /\ state \in P!States
  /\ outcome \in IF Done THEN {"ok", "truncated", "malformed"} ELSE {"none"}

(* A message has an id of its side's table of its state.                       *)
LEMMA MessageIs ==
  ASSUME NEW m \in Messages
  PROVE  /\ m.version \in P!Versions /\ m.side \in Sides /\ m.state \in P!States
         /\ m.id \in DOMAIN Table(m.version, m.side, m.state)
         /\ m.id \in Signed /\ NameOf(m) # "none"
         /\ FieldsOfMessage(m) \in Seq(FieldTypes) /\ Ordered(FieldsOfMessage(m))
<1>1. /\ m.version \in P!Versions /\ m.side \in Sides /\ m.state \in P!States
      /\ m.id \in DOMAIN Table(m.version, m.side, m.state)
  BY DEF Messages
<1>2. m.id \in 0 .. Half - 1
  BY TablesAssumption
<1>3. m.id \in Signed
  BY <1>2, Bytes
<1>4. /\ NameOf(m) # "none" /\ FieldsOfMessage(m) \in Seq(FieldTypes)
      /\ Ordered(FieldsOfMessage(m))
  BY TablesAssumption DEF Ordered
<1> QED
  BY <1>1, <1>3, <1>4

(* Every id of a table is that of a message.                                   *)
LEMMA TableMessage ==
  ASSUME NEW m \in Messages, NEW at \in P!States, NEW id \in DOMAIN Table(m.version, m.side, at)
  PROVE  \E x \in Messages :
           /\ x.side = m.side
           /\ NameOf(x) = Table(m.version, m.side, at)[id]
           /\ FieldsOfMessage(x) = FieldsOf(m.version, m.side, Table(m.version, m.side, at)[id])
<1> DEFINE x == [version |-> m.version, side |-> m.side, state |-> at, id |-> id]
<1>1. x \in Messages
  <2>1. m.version \in P!Versions /\ m.side \in Sides
    BY MessageIs
  <2>2. <<m.version, m.side, at>> \in P!Versions \X Sides \X P!States
    BY <2>1
  <2>3. id \in Ids
    <3>1. DOMAIN Table(m.version, m.side, at) \in {DOMAIN Table(index[1], index[2], index[3]) :
                                            index \in P!Versions \X Sides \X P!States}
      BY <2>2
    <3> QED
      BY <3>1 DEF Ids
  <2> QED
    BY <2>1, <2>3 DEF Messages
<1>2. NameOf(x) = Table(m.version, m.side, at)[id]
  BY DEF NameOf
<1>3. FieldsOfMessage(x) = FieldsOf(m.version, m.side, Table(m.version, m.side, at)[id])
  BY <1>2 DEF FieldsOfMessage
<1> QED
  BY <1>1, <1>2, <1>3

(* What is behind the bytes that were read.                                    *)
LEMMA RestType ==
  ASSUME NEW whole \in Seq(Byte), NEW n \in Nat
  PROVE  SubSeq(whole, n + 1, Len(whole)) \in Seq(Byte)
<1>1. Len(whole) \in Nat
  BY LenProperties
<1>2. \A i \in n + 1 .. Len(whole) : whole[i] \in Byte
  <2> SUFFICES ASSUME NEW i \in n + 1 .. Len(whole) PROVE whole[i] \in Byte
    OBVIOUS
  <2>1. i \in 1 .. Len(whole)
    BY <1>1
  <2> QED
    BY <2>1, ElementOfSeq
<1> QED
  BY <1>1, <1>2, SubSeqProperties

(* The first state.                                                            *)
LEMMA TypedInit == Init => Typed
<1> SUFFICES ASSUME Init PROVE Typed
  OBVIOUS
<1>1. message \in Messages /\ todo = FieldsOfMessage(message) /\ bytes = encode(message.id)
  BY DEF Init
<1>2. /\ todo \in Seq(FieldTypes) /\ message.state \in P!States
      /\ message.id \in Signed
  BY <1>1, MessageIs
<1>3. bytes \in Seq(Byte)
  BY <1>1, <1>2, EncodeIs
<1>4. << >> \in Seq(Seq(Int)) /\ 0 \in 0 .. MaxDepartures
  BY EmptySeq, WireAssumption
<1> QED
  BY <1>1, <1>2, <1>3, <1>4 DEF Init, Typed, Done

(* Writing a field.                                                            *)
LEMMA TypedWriteField == Typed /\ WriteField => Typed'
<1> SUFFICES ASSUME Typed, WriteField PROVE Typed'
  OBVIOUS
<1> DEFINE type == Head(todo)
<1>1. PICK leaf \in Leaves(type) :
        /\ departures' = departures + (IF leaf = Plain(type) THEN 0 ELSE 1)
        /\ departures' <= MaxDepartures
        /\ bytes' = bytes \o Encoded(type, leaf)
        /\ sent' = Append(sent, leaf)
        /\ todo' = Follow(type, leaf) \o Tail(todo)
  BY DEF WriteField
<1>2. /\ stage = "write" /\ todo # << >> /\ stage' = stage
      /\ message' = message /\ damage' = damage /\ state' = state
      /\ got' = got /\ outcome' = outcome
  BY DEF WriteField, reading
<1>3. type \in FieldTypes
  BY <1>2, HeadTailProperties DEF Typed
<1>4. leaf \in Seq(Int) /\ Encoded(type, leaf) \in Seq(Byte) /\ Counted(type, leaf)
  BY <1>3, LeafType, LeafCounts
<1>5. todo' \in Seq(FieldTypes)
  BY <1>1, <1>2, <1>4, OrderKept DEF Typed
<1> HIDE DEF type
<1>6. bytes' \in Seq(Byte)
  BY <1>1, <1>4, ConcatProperties DEF Typed
<1>7. sent' \in Seq(Seq(Int))
  BY <1>1, <1>4, AppendProperties DEF Typed
<1>8. departures' \in 0 .. MaxDepartures
  <2>1. departures \in Nat /\ MaxDepartures \in Nat
    BY WireAssumption DEF Typed
  <2> QED
    BY <1>1, <2>1
<1> QED
  BY <1>2, <1>5, <1>6, <1>7, <1>8 DEF Typed, Done

(* The body arrives, whatever became of it.                                    *)
LEMMA TypedArrive ==
  ASSUME Typed, NEW what \in {"none", "cut", "more", "changed"}, NEW body \in Seq(Byte),
         NEW there \in P!States, Arrive(what, body, there), departures' \in 0 .. MaxDepartures
  PROVE  Typed'
BY DEF Arrive, Typed, Done, reading

(* Whichever of the ways it takes.                                             *)
LEMMA TypedArrival == Typed /\ (Intact \/ Elsewhere \/ Cut \/ More \/ Changed) => Typed'
<1> SUFFICES ASSUME Typed, Intact \/ Elsewhere \/ Cut \/ More \/ Changed PROVE Typed'
  OBVIOUS
<1>1. /\ bytes \in Seq(Byte) /\ message.state \in P!States /\ departures \in 0 .. MaxDepartures
      /\ MaxDepartures \in Nat
  BY MessageIs, WireAssumption DEF Typed
<1>2. CASE Intact
  BY <1>1, <1>2, TypedArrive DEF Intact
<1>3. CASE Elsewhere
  <2>1. PICK there \in P!States : Arrive("none", bytes, there) /\ UNCHANGED departures
    BY <1>3 DEF Elsewhere
  <2> QED
    BY <1>1, <2>1, TypedArrive
<1>4. CASE Cut
  <2>1. PICK n \in 0 .. Len(bytes) - 1 :
          Arrive("cut", SubSeq(bytes, 1, n), message.state) /\ UNCHANGED departures
    BY <1>4 DEF Cut
  <2> DEFINE body == SubSeq(bytes, 1, n)
  <2>2. body \in Seq(Byte)
    <3>1. n \in Int /\ \A i \in 1 .. n : i \in 1 .. Len(bytes)
      BY <1>1, LenProperties
    <3>2. \A i \in 1 .. n : bytes[i] \in Byte
      BY <1>1, <3>1, ElementOfSeq
    <3> QED
      BY <3>1, <3>2, SubSeqProperties
  <2> HIDE DEF body
  <2>3. Arrive("cut", body, message.state) /\ UNCHANGED departures
    BY <2>1 DEF body
  <2> QED
    BY <1>1, <2>2, <2>3, TypedArrive
<1>5. CASE More
  <2>1. PICK tail \in Blobs \ {<< >>} :
          Arrive("more", bytes \o tail, message.state) /\ UNCHANGED departures
    BY <1>5 DEF More
  <2> DEFINE body == bytes \o tail
  <2>2. body \in Seq(Byte)
    <3>1. tail \in Seq(Byte)
      BY WireAssumption
    <3> QED
      BY <1>1, <3>1, ConcatProperties
  <2> HIDE DEF body
  <2>3. Arrive("more", body, message.state) /\ UNCHANGED departures
    BY <2>1 DEF body
  <2> QED
    BY <1>1, <2>2, <2>3, TypedArrive
<1>6. CASE Changed
  <2>1. PICK i \in 1 .. Len(bytes), byte \in {0, 1, Base - 1, Base, 2 * Base - 1} :
          Arrive("changed", [bytes EXCEPT ![i] = byte], message.state)
    BY <1>6 DEF Changed
  <2> DEFINE body == [bytes EXCEPT ![i] = byte]
  <2>2. body \in Seq(Byte)
    <3>1. byte \in Byte
      BY Parameters DEF Byte
    <3> QED
      BY <1>1, <3>1, ExceptSeq
  <2> HIDE DEF body
  <2>3. Arrive("changed", body, message.state)
    BY <2>1 DEF body
  <2>4. departures' \in 0 .. MaxDepartures
    BY <1>1, <1>6 DEF Changed
  <2> QED
    BY <1>1, <2>2, <2>3, <2>4, TypedArrive
<1> QED
  BY <1>2, <1>3, <1>4, <1>5, <1>6

(* The id is read.                                                             *)
LEMMA TypedReadId == Typed /\ ReadId => Typed'
<1> SUFFICES ASSUME Typed, ReadId PROVE Typed'
  OBVIOUS
<1> DEFINE id == ReadNumber(bytes)
           table == IdTable
<1>1. Readable(id)
  BY NumberType DEF Typed
<1>2. /\ stage = "id" /\ bytes' = SubSeq(bytes, id.used + 1, Len(bytes))
      /\ message' = message /\ sent' = sent /\ departures' = departures
      /\ damage' = damage /\ state' = state /\ got' = got
  BY DEF ReadId, writing
<1>3. bytes' \in Seq(Byte)
  <2>1. id.used \in Nat /\ bytes \in Seq(Byte)
    BY <1>1 DEF Readable, Typed
  <2> HIDE DEF id
  <2> QED
    BY <1>2, <2>1, RestType
<1>4. CASE /\ id.result = "ok" /\ id.leaf[1] \in DOMAIN table
           /\ todo' = FieldsOf(message.version, message.side, table[id.leaf[1]])
           /\ stage' = "read" /\ UNCHANGED outcome
  <2>1. todo' \in Seq(FieldTypes)
    <3>1. message \in Messages /\ state \in P!States
      BY DEF Typed
    <3> DEFINE n == id.leaf[1]
    <3>2. n \in DOMAIN Table(message.version, message.side, state)
      BY <1>4 DEF IdTable
    <3> HIDE DEF n
    <3>3. PICK x \in Messages :
            FieldsOfMessage(x)
              = FieldsOf(message.version, message.side,
                          Table(message.version, message.side, state)[n])
      BY <3>1, <3>2, TableMessage
    <3>4. todo' = FieldsOfMessage(x)
      BY <1>4, <3>3 DEF IdTable, n
    <3> QED
      BY <3>4, MessageIs
  <2> QED
    BY <1>2, <1>3, <1>4, <2>1 DEF Typed, Done
<1>5. CASE \/ /\ id.result = "ok" /\ id.leaf[1] \notin DOMAIN table
              /\ End("malformed") /\ UNCHANGED <<name, todo>>
           \/ /\ id.result # "ok"
              /\ End(id.result) /\ UNCHANGED <<name, todo>>
  <2>1. stage' = "done" /\ todo' = todo /\ outcome' \in {"ok", "truncated", "malformed"}
    BY <1>1, <1>5 DEF End, Readable
  <2> QED
    BY <1>2, <1>3, <2>1 DEF Typed, Done
<1> QED
  BY <1>4, <1>5 DEF ReadId

(* A field is read.                                                            *)
LEMMA TypedReadField == Typed /\ ReadField => Typed'
<1> SUFFICES ASSUME Typed, ReadField PROVE Typed'
  OBVIOUS
<1> DEFINE type == Head(todo)
           field == Decoding(type, bytes)
<1>1. /\ stage = "read" /\ todo # << >> /\ bytes' = SubSeq(bytes, field.used + 1, Len(bytes))
      /\ message' = message /\ sent' = sent /\ departures' = departures
      /\ damage' = damage /\ state' = state
  BY DEF ReadField, writing
<1>2. type \in FieldTypes
  BY <1>1, HeadTailProperties DEF Typed
<1>3. /\ Readable(field)
      /\ field.result = "ok" => Counted(type, field.leaf)
  <2>1. bytes \in Seq(Byte)
    BY DEF Typed
  <2> HIDE DEF type
  <2> QED
    BY <1>2, <2>1, DecodingType DEF Counted
<1>4. bytes' \in Seq(Byte)
  <2>1. field.used \in Nat /\ bytes \in Seq(Byte)
    BY <1>3 DEF Readable, Typed
  <2> HIDE DEF field
  <2> QED
    BY <1>1, <2>1, RestType
<1>5. CASE /\ field.result = "ok"
           /\ got' = Append(got, field.leaf)
           /\ todo' = Follow(type, field.leaf) \o Tail(todo)
           /\ UNCHANGED <<stage, outcome>>
  <2>1. got' \in Seq(Seq(Int))
    <3>1. field.leaf \in Seq(Int) /\ got \in Seq(Seq(Int))
      BY <1>3 DEF Readable, Typed
    <3> HIDE DEF field
    <3> QED
      BY <1>5, <3>1, AppendProperties
  <2>2. todo' \in Seq(FieldTypes)
    <3>1. Counted(Head(todo), field.leaf) /\ todo \in Seq(FieldTypes)
      BY <1>3, <1>5 DEF Typed
    <3>2. todo' = Follow(Head(todo), field.leaf) \o Tail(todo)
      BY <1>5
    <3> HIDE DEF field
    <3> QED
      BY <1>1, <3>1, <3>2, OrderKept
  <2> HIDE DEF field
  <2> QED
    BY <1>1, <1>4, <1>5, <2>1, <2>2 DEF Typed, Done
<1>6. CASE /\ field.result # "ok"
           /\ End(field.result)
           /\ UNCHANGED <<got, todo>>
  <2>1. field.result \in {"ok", "truncated", "malformed"}
    BY <1>3 DEF Readable
  <2> HIDE DEF field
  <2> QED
    BY <1>1, <1>4, <1>6, <2>1 DEF Typed, Done, End
<1> QED
  BY <1>5, <1>6 DEF ReadField

(* Every step.                                                                 *)
LEMMA TypedNext == Typed /\ [Next]_vars => Typed'
<1> SUFFICES ASSUME Typed, [Next]_vars PROVE Typed'
  OBVIOUS
<1>1. CASE ReadAll
  BY <1>1 DEF ReadAll, End, Typed, Done, writing
<1>2. CASE UNCHANGED vars
  BY <1>2 DEF vars, writing, reading, Typed, Done
<1> QED
  BY <1>1, <1>2, TypedWriteField, TypedArrival, TypedReadId, TypedReadField DEF Next

(* So every state is of this form.                                             *)
LEMMA TypedAlways == Spec => []Typed
<1> QED
  BY TypedInit, TypedNext, PTL DEF Spec

(* Wire!TypeOK: whatever bytes a decoder is given, it ends with a value or an  *)
(* error (Decode of every type of field, impls.rs).                            *)
THEOREM TypeCorrect == Spec => []TypeOK
<1>1. Typed => TypeOK
  <2> SUFFICES ASSUME Typed PROVE TypeOK
    OBVIOUS
  <2>1. \A i \in 1 .. Len(got) : \A j \in 1 .. Len(got[i]) : got[i][j] \in Int
    <3> SUFFICES ASSUME NEW i \in 1 .. Len(got), NEW j \in 1 .. Len(got[i])
                 PROVE  got[i][j] \in Int
      OBVIOUS
    <3>1. got[i] \in Seq(Int)
      BY ElementOfSeq DEF Typed
    <3> QED
      BY <3>1, ElementOfSeq
  <2> QED
    BY <2>1 DEF Typed, TypeOK
<1> QED
  BY <1>1, TypedAlways, PTL
------------------------------------------------------------------------------
(* The packet a reader takes the body for.                                     *)
Taken ==
  /\ name # "none"
  /\ \E id \in DOMAIN IdTable : name = IdTable[id]
  /\ message.side = "C2S" /\ name \in P!Fieldless => todo = << >>
  /\ message.side = "C2S" /\ name \in P!FixedSize =>
       \A i \in 1 .. Len(todo) : todo[i].kind = "fixed"

Dispatched ==
  /\ stage \in {"write", "id"} => name = "none"
  /\ stage = "read" => Taken
  /\ AsSessionAssumes

(* The table of a client's ids is the one of module Packets.                   *)
LEMMA ClientTable ==
  message.side = "C2S" => IdTable = P!C2S(message.version)[state]
BY DEF IdTable, Table

(* A packet that was read to its end, or not.                                  *)
LEMMA TakenEnds ==
  ASSUME Typed, Taken, stage = "read", stage' = "done", UNCHANGED <<message, state, name>>,
         outcome' \in {"ok", "truncated", "malformed"},
         todo = << >> => outcome' = "ok",
         (\A i \in 1 .. Len(todo) : todo[i].kind = "fixed") => outcome' # "malformed"
  PROVE  Dispatched'
<1>1. AsSessionAssumes'
  <2> SUFFICES ASSUME message.side = "C2S"
               PROVE  /\ \E id \in DOMAIN P!C2S(message.version)[state] :
                           name = P!C2S(message.version)[state][id]
                      /\ outcome' \in {"ok"} \union P!Failures(name)
    BY DEF AsSessionAssumes, Taken
  <2>1. \E id \in DOMAIN P!C2S(message.version)[state] :
          name = P!C2S(message.version)[state][id]
    BY ClientTable DEF Taken
  <2>2. outcome' \in {"ok"} \union P!Failures(name)
    BY DEF Taken, P!Failures
  <2> QED
    BY <2>1, <2>2
<1> QED
  BY <1>1 DEF Dispatched

(* The id picks the packet.                                                    *)
LEMMA DispatchedReadId == Typed /\ Dispatched /\ ReadId => Dispatched'
<1> SUFFICES ASSUME Typed, Dispatched, ReadId PROVE Dispatched'
  OBVIOUS
<1> DEFINE id == ReadNumber(bytes)
           n == id.leaf[1]
<1>1. Readable(id)
  BY NumberType DEF Typed
<1>2. /\ stage = "id" /\ name = "none" /\ message' = message /\ state' = state
  BY DEF ReadId, Dispatched
<1>3. CASE /\ id.result = "ok" /\ n \in DOMAIN IdTable
           /\ name' = IdTable[n]
           /\ todo' = FieldsOf(message.version, message.side, IdTable[n])
           /\ stage' = "read" /\ UNCHANGED outcome
  <2>1. message \in Messages /\ state \in P!States
    BY DEF Typed
  <2>2. n \in DOMAIN Table(message.version, message.side, state)
    BY <1>3 DEF IdTable
  <2> HIDE DEF n
  <2>3. PICK x \in Messages :
          /\ x.side = message.side
          /\ NameOf(x) = Table(message.version, message.side, state)[n]
          /\ FieldsOfMessage(x)
               = FieldsOf(message.version, message.side,
                          Table(message.version, message.side, state)[n])
    BY <2>1, <2>2, TableMessage
  <2>4. name' = NameOf(x) /\ todo' = FieldsOfMessage(x)
    BY <1>3, <2>3 DEF IdTable
  <2>5. /\ NameOf(x) # "none"
        /\ x.side = "C2S" /\ NameOf(x) \in P!Fieldless => FieldsOfMessage(x) = << >>
        /\ x.side = "C2S" /\ NameOf(x) \in P!FixedSize =>
             \A i \in 1 .. Len(FieldsOfMessage(x)) : FieldsOfMessage(x)[i].kind = "fixed"
    BY TablesAssumption
  <2>6. IdTable' = IdTable
    BY <1>2 DEF IdTable
  <2>7. Taken'
    <3>1. \E i \in DOMAIN IdTable' : name' = IdTable'[i]
      BY <1>3, <2>6 DEF n
    <3> QED
      BY <1>2, <2>3, <2>4, <2>5, <3>1 DEF Taken
  <2> QED
    BY <1>3, <2>7 DEF Dispatched, AsSessionAssumes, Done
<1>4. CASE \/ /\ id.result = "ok" /\ n \notin DOMAIN IdTable
              /\ End("malformed") /\ UNCHANGED <<name, todo>>
           \/ /\ id.result # "ok"
              /\ End(id.result) /\ UNCHANGED <<name, todo>>
  <2>1. name' = "none" /\ stage' = "done" /\ outcome' \in {"truncated", "malformed"}
    BY <1>1, <1>2, <1>4 DEF End, Readable
  <2> QED
    BY <2>1 DEF Dispatched, AsSessionAssumes
<1> QED
  BY <1>3, <1>4 DEF ReadId

(* The fields behind it.                                                       *)
LEMMA DispatchedReadField == Typed /\ Dispatched /\ ReadField => Dispatched'
<1> SUFFICES ASSUME Typed, Dispatched, ReadField PROVE Dispatched'
  OBVIOUS
<1> DEFINE type == Head(todo)
           field == Decoding(type, bytes)
<1>1. /\ stage = "read" /\ todo # << >>
      /\ message' = message /\ state' = state /\ name' = name
      /\ bytes \in Seq(Byte) /\ todo \in Seq(FieldTypes) /\ Taken
  BY DEF ReadField, Typed, Dispatched
<1>2. /\ type \in FieldTypes /\ type = todo[1] /\ Len(todo) \in Nat /\ Len(todo) > 0
      /\ Tail(todo) \in Seq(FieldTypes) /\ Len(Tail(todo)) = Len(todo) - 1
      /\ \A i \in 1 .. Len(todo) - 1 : Tail(todo)[i] = todo[i + 1]
  BY <1>1, HeadTailProperties, EmptySeq
<1>3. /\ field.result \in {"ok", "truncated", "malformed"}
      /\ type.kind = "fixed" => field.result # "malformed"
  <2> HIDE DEF type
  <2> QED
    BY <1>1, <1>2, DecodingType DEF Readable
<1>4. CASE /\ field.result = "ok"
           /\ got' = Append(got, field.leaf)
           /\ todo' = Follow(type, field.leaf) \o Tail(todo)
           /\ UNCHANGED <<stage, outcome>>
  <2>1. ASSUME \A i \in 1 .. Len(todo) : todo[i].kind = "fixed"
        PROVE  \A i \in 1 .. Len(todo') : todo'[i].kind = "fixed"
    <3>1. type.kind = "fixed"
      BY <1>2, <2>1
    <3>2. Follow(type, field.leaf) = << >>
      BY <3>1 DEF Follow
    <3>3. todo' = Tail(todo)
      <4> HIDE DEF type, field
      <4> QED
        BY <1>2, <1>4, <3>2, ConcatEmptySeq
    <3> HIDE DEF type, field
    <3> SUFFICES ASSUME NEW i \in 1 .. Len(todo') PROVE todo'[i].kind = "fixed"
      OBVIOUS
    <3>4. i \in 1 .. Len(todo) - 1 /\ i + 1 \in 1 .. Len(todo)
      BY <1>2, <3>3
    <3>5. todo'[i] = todo[i + 1]
      BY <1>2, <3>3, <3>4
    <3> QED
      BY <2>1, <3>4, <3>5
  <2>2. Taken'
    BY <1>1, <2>1 DEF Taken, IdTable
  <2> HIDE DEF type, field
  <2> QED
    BY <1>1, <1>4, <2>2 DEF Dispatched, AsSessionAssumes, Done
<1>5. CASE /\ field.result # "ok"
           /\ End(field.result)
           /\ UNCHANGED <<got, todo>>
  <2>1. (\A i \in 1 .. Len(todo) : todo[i].kind = "fixed") => field.result # "malformed"
    BY <1>2, <1>3
  <2> HIDE DEF field
  <2>2. stage' = "done" /\ outcome' = field.result
    BY <1>5 DEF End
  <2> QED
    BY <1>1, <1>3, <2>1, <2>2, TakenEnds
<1> QED
  BY <1>4, <1>5 DEF ReadField

(* Every step.                                                                 *)
LEMMA DispatchedNext == Typed /\ Dispatched /\ [Next]_vars => Dispatched'
<1> SUFFICES ASSUME Typed, Dispatched, [Next]_vars PROVE Dispatched'
  OBVIOUS
<1>1. CASE WriteField
  BY <1>1 DEF WriteField, reading, Dispatched, AsSessionAssumes, Done
<1>2. CASE Intact \/ Elsewhere \/ Cut \/ More \/ Changed
  <2>1. stage' = "id" /\ name' = "none"
    BY <1>2 DEF Intact, Elsewhere, Cut, More, Changed, Arrive, reading, Dispatched
  <2> QED
    BY <2>1 DEF Dispatched, AsSessionAssumes, Done
<1>3. CASE ReadAll
  <2>1. /\ stage = "read" /\ todo = << >> /\ stage' = "done" /\ outcome' = "ok"
        /\ UNCHANGED <<message, state, name>> /\ Taken
    BY <1>3 DEF ReadAll, End, Dispatched
  <2> QED
    BY <2>1, TakenEnds
<1>4. CASE UNCHANGED vars
  BY <1>4 DEF vars, reading, Dispatched, Taken, IdTable, AsSessionAssumes, Done
<1> QED
  BY <1>1, <1>2, <1>3, <1>4, DispatchedReadId, DispatchedReadField DEF Next

(* Wire!AsSessionAssumes: decode_in_state (packet_group.rs) ends in a packet   *)
(* of the table of the reader's state or in a failure this packet can meet,    *)
(* as module Session takes for granted.                                        *)
THEOREM DecodesAsSessionAssumes == Spec => []AsSessionAssumes
<1>1. Init => Dispatched
  BY DEF Init, Dispatched, AsSessionAssumes, Done
<1>2. Dispatched => AsSessionAssumes
  BY DEF Dispatched
<1> QED
  BY <1>1, <1>2, TypedAlways, DispatchedNext, PTL DEF Spec
------------------------------------------------------------------------------
(* What a body has to do with what was written.                                *)
Kinds == {"none", "more", "cut"}

(* What is left of the body where `rest` was left of what was written.         *)
Left(what, body, rest) ==
  /\ what = "none" => body = rest
  /\ what = "more" => \E extra \in Seq(Byte) : extra # << >> /\ body = rest \o extra
  /\ what = "cut" => \E missing \in Seq(Byte) : missing # << >> /\ rest = body \o missing

(* The bytes of one field are all there or are cut.                            *)
Advances(what, body, whole, rest) ==
  \/ what = "cut" /\ \E missing \in Seq(Byte) : missing # << >> /\ whole = body \o missing
  \/ \E behind \in Seq(Byte) :
       /\ body = whole \o behind /\ SubSeq(body, Len(whole) + 1, Len(body)) = behind
       /\ Left(what, behind, rest)

(* One of the two it is.                                                       *)
LEMMA Advance ==
  ASSUME NEW what \in Kinds, NEW body \in Seq(Byte), NEW whole \in Seq(Byte),
         NEW rest \in Seq(Byte), Left(what, body, whole \o rest)
  PROVE  Advances(what, body, whole, rest)
<1>1. ASSUME NEW behind \in Seq(Byte), body = whole \o behind
      PROVE  SubSeq(body, Len(whole) + 1, Len(body)) = behind
  BY <1>1, ConcatEnds
<1>2. CASE what = "none"
  <2>1. body = whole \o rest /\ Left(what, rest, rest)
    BY <1>2 DEF Left
  <2> QED
    BY <1>1, <2>1 DEF Advances
<1>3. CASE what = "more"
  <2>1. PICK extra \in Seq(Byte) : extra # << >> /\ body = (whole \o rest) \o extra
    BY <1>3 DEF Left
  <2> DEFINE behind == rest \o extra
  <2>2. behind \in Seq(Byte) /\ body = whole \o behind
    BY <2>1, ConcatProperties, ConcatAssociative
  <2>3. Left(what, behind, rest)
    BY <1>3, <2>1 DEF Left
  <2> HIDE DEF behind
  <2> QED
    BY <1>1, <2>2, <2>3 DEF Advances
<1>4. CASE what = "cut"
  <2>1. PICK missing \in Seq(Byte) : missing # << >> /\ whole \o rest = body \o missing
    BY <1>4 DEF Left
  <2>2. Meet(Byte, body, missing, whole, rest)
    <3>1. body \o missing = whole \o rest
      BY <2>1
    <3> QED
      BY <3>1, Split
  <2>3. CASE \E s \in Seq(Byte) : s # << >> /\ body \o s = whole
    BY <1>4, <2>3 DEF Advances
  <2>4. ASSUME NEW s \in Seq(Byte), body = whole \o s, s \o missing = rest
        PROVE  Advances(what, body, whole, rest)
    <3>1. Left(what, s, rest)
      BY <1>4, <2>1, <2>4 DEF Left
    <3> QED
      BY <1>1, <2>4, <3>1 DEF Advances
  <2> QED
    BY <2>2, <2>3, <2>4 DEF Meet
<1> QED
  BY <1>2, <1>3, <1>4 DEF Kinds

(* A field that is not RawBytes is read as it was written, or is cut.          *)
LEMMA FieldAdvance ==
  ASSUME NEW type \in FieldTypes, type.kind # "raw", NEW leaf \in Leaves(type),
         NEW what \in Kinds, NEW body \in Seq(Byte), NEW rest \in Seq(Byte),
         Left(what, body, Encoded(type, leaf) \o rest)
  PROVE  LET field == Decoding(type, body) IN
         \/ what = "cut" /\ field.result = "truncated"
         \/ /\ field.result = "ok" /\ field.leaf = leaf
            /\ Left(what, SubSeq(body, field.used + 1, Len(body)), rest)
<1> DEFINE whole == Encoded(type, leaf)
<1>1. /\ whole \in Seq(Byte)
      /\ \A more \in Seq(Byte) : Decoding(type, whole \o more) = Got(leaf, Len(whole))
      /\ \A part, missing \in Seq(Byte) :
           whole = part \o missing /\ missing # << >> => Decoding(type, part).result = "truncated"
  BY FieldReads DEF Reads
<1>2. Left(what, body, whole \o rest)
  OBVIOUS
<1> HIDE DEF whole
<1>3. Advances(what, body, whole, rest)
  BY <1>1, <1>2, Advance
<1>4. CASE what = "cut" /\ \E missing \in Seq(Byte) : missing # << >> /\ whole = body \o missing
  BY <1>1, <1>4
<1>5. ASSUME NEW behind \in Seq(Byte), body = whole \o behind,
             SubSeq(body, Len(whole) + 1, Len(body)) = behind, Left(what, behind, rest)
      PROVE  LET field == Decoding(type, body) IN
             /\ field.result = "ok" /\ field.leaf = leaf
             /\ Left(what, SubSeq(body, field.used + 1, Len(body)), rest)
  <2>1. Decoding(type, body) = Got(leaf, Len(whole))
    BY <1>1, <1>5
  <2> DEFINE field == Decoding(type, body)
  <2>2. field.result = "ok" /\ field.leaf = leaf /\ field.used = Len(whole)
    BY <2>1, ReadIs
  <2> HIDE DEF field
  <2>3. SubSeq(body, field.used + 1, Len(body)) = behind
    BY <1>5, <2>2
  <2>4. Left(what, SubSeq(body, field.used + 1, Len(body)), rest)
    BY <1>5, <2>3
  <2> QED
    BY <2>2, <2>4 DEF field
<1> QED
  BY <1>3, <1>4, <1>5 DEF Advances

(* The id likewise.                                                            *)
LEMMA IdAdvance ==
  ASSUME NEW id \in Signed, NEW what \in Kinds, NEW body \in Seq(Byte), NEW rest \in Seq(Byte),
         Left(what, body, encode(id) \o rest)
  PROVE  LET number == ReadNumber(body) IN
         \/ what = "cut" /\ number.result = "truncated"
         \/ /\ number.result = "ok" /\ number.leaf[1] = id
            /\ Left(what, SubSeq(body, number.used + 1, Len(body)), rest)
<1> DEFINE whole == encode(id)
<1>1. /\ whole \in Seq(Byte)
      /\ \A more \in Seq(Byte) : ReadNumber(whole \o more) = Got(<<id>>, Len(whole))
      /\ \A part, missing \in Seq(Byte) :
           whole = part \o missing /\ missing # << >> => ReadNumber(part) = Refused("truncated")
  BY NumberReads
<1>2. Left(what, body, whole \o rest)
  OBVIOUS
<1> HIDE DEF whole
<1>3. Advances(what, body, whole, rest)
  BY <1>1, <1>2, Advance
<1>4. CASE what = "cut" /\ \E missing \in Seq(Byte) : missing # << >> /\ whole = body \o missing
  <2>1. ReadNumber(body) = Refused("truncated")
    BY <1>1, <1>4
  <2> QED
    BY <1>4, <2>1, ReadIs
<1>5. ASSUME NEW behind \in Seq(Byte), body = whole \o behind,
             SubSeq(body, Len(whole) + 1, Len(body)) = behind, Left(what, behind, rest)
      PROVE  LET number == ReadNumber(body) IN
             /\ number.result = "ok" /\ number.leaf[1] = id
             /\ Left(what, SubSeq(body, number.used + 1, Len(body)), rest)
  <2>1. ReadNumber(body) = Got(<<id>>, Len(whole))
    BY <1>1, <1>5
  <2> DEFINE number == ReadNumber(body)
  <2>2. number.result = "ok" /\ number.leaf = <<id>> /\ number.used = Len(whole)
    BY <2>1, ReadIs
  <2> HIDE DEF number
  <2>3. SubSeq(body, number.used + 1, Len(body)) = behind
    BY <1>5, <2>2
  <2>4. Left(what, SubSeq(body, number.used + 1, Len(body)), rest)
    BY <1>5, <2>3
  <2>5. number.leaf[1] = id
    BY <2>2
  <2> QED
    BY <2>2, <2>4, <2>5 DEF number
<1> QED
  BY <1>3, <1>4, <1>5 DEF Advances
------------------------------------------------------------------------------
(* How a body was written: before its leaf i + 1 the types T[i] were left to   *)
(* write, and R[i] is what was written from there on.                          *)
Field(before, leaf, after, from, rest) ==
  /\ before # << >> /\ leaf \in Leaves(Head(before))
  /\ after = Follow(Head(before), leaf) \o Tail(before)
  /\ from = Encoded(Head(before), leaf) \o rest

Trace(T, R, fields, leaves) ==
  /\ T \in [0 .. Len(leaves) -> Seq(FieldTypes)]
  /\ R \in [0 .. Len(leaves) -> Seq(Byte)]
  /\ T[0] = fields /\ R[Len(leaves)] = << >>
  /\ \A i \in 0 .. Len(leaves) : Ordered(T[i]) /\ (Apart(fields) => Apart(T[i]))
  /\ \A i \in 1 .. Len(leaves) : Field(T[i - 1], leaves[i], T[i], R[i - 1], R[i])

Extended(fields, leaves, todoAfter, first) ==
  \E T, R : Trace(T, R, fields, leaves) /\ T[Len(leaves)] = todoAfter /\ R[0] = first

(* Bytes behind bytes.                                                         *)
LEMMA Regrouped ==
  ASSUME NEW a \in Seq(Byte), NEW b \in Seq(Byte), NEW c \in Seq(Byte)
  PROVE  (a \o b) \o c = a \o (b \o c)
BY ConcatAssociative

(* One more leaf.                                                              *)
LEMMA Extend ==
  ASSUME NEW T, NEW R, NEW fields, NEW leaves \in Seq(Seq(Int)),
         Trace(T, R, fields, leaves), T[Len(leaves)] # << >>,
         NEW leaf \in Leaves(Head(T[Len(leaves)]))
  PROVE  Extended(fields, Append(leaves, leaf),
                  Follow(Head(T[Len(leaves)]), leaf) \o Tail(T[Len(leaves)]),
                  R[0] \o Encoded(Head(T[Len(leaves)]), leaf))
<1> DEFINE n == Len(leaves)
           type == Head(T[n])
           after == Follow(type, leaf) \o Tail(T[n])
           E == Encoded(type, leaf)
           T2 == [i \in 0 .. n + 1 |-> IF i <= n THEN T[i] ELSE after]
           R2 == [i \in 0 .. n + 1 |-> IF i <= n THEN R[i] \o E ELSE << >>]
           more == Append(leaves, leaf)
<1>1. /\ n \in Nat /\ T \in [0 .. n -> Seq(FieldTypes)] /\ R \in [0 .. n -> Seq(Byte)]
      /\ T[0] = fields /\ R[n] = << >>
      /\ \A i \in 0 .. n : Ordered(T[i]) /\ (Apart(fields) => Apart(T[i]))
      /\ \A i \in 1 .. n : Field(T[i - 1], leaves[i], T[i], R[i - 1], R[i])
  BY LenProperties DEF Trace
<1>2. T[n] \in Seq(FieldTypes) /\ type \in FieldTypes
  <2>1. T[n] \in Seq(FieldTypes)
    BY <1>1
  <2> QED
    BY <2>1, HeadTailProperties
<1>3. leaf \in Seq(Int) /\ E \in Seq(Byte) /\ Counted(type, leaf)
  BY <1>2, LeafType, LeafCounts
<1>4. after \in Seq(FieldTypes) /\ Ordered(after) /\ (Apart(fields) => Apart(after))
  <2>1. Ordered(T[n]) /\ (Apart(fields) => Apart(T[n]))
    BY <1>1
  <2> QED
    BY <1>2, <1>3, <2>1, OrderKept
<1>5. /\ Len(more) = n + 1
      /\ \A i \in 1 .. n : more[i] = leaves[i]
      /\ more[n + 1] = leaf
  BY <1>3, AppendProperties
<1>6. \A i \in 0 .. n : R[i] \o E \in Seq(Byte)
  <2> SUFFICES ASSUME NEW i \in 0 .. n PROVE R[i] \o E \in Seq(Byte)
    OBVIOUS
  <2>1. R[i] \in Seq(Byte)
    BY <1>1
  <2> HIDE DEF E
  <2> QED
    BY <1>3, <2>1, ConcatProperties
<1>7. << >> \in Seq(Byte)
  BY EmptySeq
<1>8. Field(T[n], leaf, after, R[n] \o E, << >>)
  <2>1. R[n] \o E = E
    BY <1>1, <1>3, ConcatEmptySeq
  <2>2. E \o << >> = E
    BY <1>3, ConcatEmptySeq
  <2> QED
    BY <2>1, <2>2 DEF Field
<1>9. ASSUME NEW i \in 1 .. n
      PROVE  Field(T[i - 1], leaves[i], T[i], R[i - 1] \o E, R[i] \o E)
  <2>1. Field(T[i - 1], leaves[i], T[i], R[i - 1], R[i])
    BY <1>1
  <2> DEFINE part == Encoded(Head(T[i - 1]), leaves[i])
             rest == R[i]
  <2>2. T[i - 1] # << >> /\ T[i - 1] \in Seq(FieldTypes) /\ rest \in Seq(Byte)
        /\ leaves[i] \in Leaves(Head(T[i - 1]))
    <3>1. i - 1 \in 0 .. n /\ i \in 0 .. n
      BY <1>1
    <3> QED
      BY <1>1, <2>1, <3>1 DEF Field
  <2>3. part \in Seq(Byte)
    BY <2>2, HeadTailProperties, LeafType
  <2>4. R[i - 1] = part \o rest
    BY <2>1 DEF Field
  <2> HIDE DEF part, rest, E
  <2>5. (part \o rest) \o E = part \o (rest \o E)
    <3>1. part \in Seq(Byte) /\ rest \in Seq(Byte) /\ E \in Seq(Byte)
      BY <1>3, <2>2, <2>3
    <3> QED
      BY <3>1, Regrouped
  <2> QED
    BY <2>1, <2>4, <2>5 DEF Field, part, rest
<1> HIDE DEF n, type, after, E, more
<1>10. /\ T2 \in [0 .. n + 1 -> Seq(FieldTypes)]
       /\ R2 \in [0 .. n + 1 -> Seq(Byte)]
  <2>1. ASSUME NEW i \in 0 .. n + 1
        PROVE  /\ (IF i <= n THEN T[i] ELSE after) \in Seq(FieldTypes)
               /\ (IF i <= n THEN R[i] \o E ELSE << >>) \in Seq(Byte)
    <3>1. i <= n => i \in 0 .. n
      BY <1>1
    <3> QED
      BY <1>1, <1>4, <1>6, <1>7, <3>1
  <2> QED
    BY <2>1
<1>11. /\ \A i \in 0 .. n : T2[i] = T[i] /\ R2[i] = R[i] \o E
       /\ T2[n + 1] = after /\ R2[n + 1] = << >>
  <2>1. ASSUME NEW i \in 0 .. n PROVE T2[i] = T[i] /\ R2[i] = R[i] \o E
    <3>1. i \in 0 .. n + 1 /\ i <= n
      BY <1>1
    <3> QED
      BY ONLY <3>1
  <2>2. n + 1 \in 0 .. n + 1 /\ ~ (n + 1 <= n)
    BY <1>1
  <2>3. T2[n + 1] = after /\ R2[n + 1] = << >>
    BY ONLY <2>2
  <2> QED
    BY <2>1, <2>3
<1> HIDE DEF T2, R2
<1>12. \A i \in 0 .. n + 1 : Ordered(T2[i]) /\ (Apart(fields) => Apart(T2[i]))
  <2> SUFFICES ASSUME NEW i \in 0 .. n + 1
               PROVE  Ordered(T2[i]) /\ (Apart(fields) => Apart(T2[i]))
    OBVIOUS
  <2>1. i \in 0 .. n \/ i = n + 1
    BY <1>1
  <2> QED
    BY <1>1, <1>4, <1>11, <2>1
<1>13. \A i \in 1 .. n + 1 : Field(T2[i - 1], more[i], T2[i], R2[i - 1], R2[i])
  <2> SUFFICES ASSUME NEW i \in 1 .. n + 1
               PROVE  Field(T2[i - 1], more[i], T2[i], R2[i - 1], R2[i])
    OBVIOUS
  <2>1. CASE i \in 1 .. n
    <3>1. i \in 0 .. n /\ i - 1 \in 0 .. n
      BY <1>1, <2>1
    <3>2. T2[i] = T[i] /\ R2[i] = R[i] \o E /\ T2[i - 1] = T[i - 1] /\ R2[i - 1] = R[i - 1] \o E
      BY <1>11, <3>1
    <3>3. more[i] = leaves[i]
      BY <1>5, <2>1
    <3> QED
      BY <1>9, <2>1, <3>2, <3>3
  <2>2. CASE i = n + 1
    <3>1. i - 1 = n /\ n \in 0 .. n
      BY <1>1, <2>2
    <3>2. T2[n] = T[n] /\ R2[n] = R[n] \o E
      BY <1>11, <3>1
    <3> QED
      BY <1>5, <1>8, <1>11, <2>2, <3>1, <3>2
  <2> QED
    BY <1>1, <2>1, <2>2
<1>14. T2[0] = fields /\ R2[0] = R[0] \o E
  <2>1. 0 \in 0 .. n
    BY <1>1
  <2> QED
    BY <1>1, <1>11, <2>1
<1>15. Trace(T2, R2, fields, more)
  BY <1>5, <1>10, <1>11, <1>12, <1>13, <1>14 DEF Trace
<1>16. Extended(fields, more, after, R[0] \o E)
  BY <1>5, <1>11, <1>14, <1>15 DEF Extended
<1> QED
  BY <1>16 DEF n, type, after, E, more
(* The trace of a message without leaves.                                      *)
LEMMA Begin ==
  ASSUME NEW fields \in Seq(FieldTypes), Ordered(fields)
  PROVE  Extended(fields, << >>, fields, << >>)
<1> DEFINE T == [i \in 0 .. 0 |-> fields]
           R == [i \in 0 .. 0 |-> << >>]
<1>1. << >> \in Seq(Byte) /\ Len(<< >>) = 0
  BY EmptySeq
<1>2. T \in [0 .. 0 -> Seq(FieldTypes)] /\ R \in [0 .. 0 -> Seq(Byte)]
  BY <1>1
<1>3. \A i \in 0 .. 0 : T[i] = fields /\ R[i] = << >>
  OBVIOUS
<1> HIDE DEF T, R
<1>4. Trace(T, R, fields, << >>) /\ T[0] = fields /\ R[0] = << >>
  BY <1>1, <1>2, <1>3 DEF Trace
<1> QED
  BY <1>1, <1>4 DEF Extended

(* A field that is still to come.                                              *)
LEMMA TraceAt ==
  ASSUME NEW T, NEW R, NEW fields, NEW leaves \in Seq(Seq(Int)), Trace(T, R, fields, leaves),
         T[Len(leaves)] = << >>, NEW k \in 0 .. Len(leaves)
  PROVE  /\ T[k] \in Seq(FieldTypes) /\ R[k] \in Seq(Byte)
         /\ Ordered(T[k]) /\ (Apart(fields) => Apart(T[k]))
         /\ T[k] = << >> => k = Len(leaves)
         /\ T[k] # << >> =>
              /\ k + 1 \in 1 .. Len(leaves)
              /\ Field(T[k], leaves[k + 1], T[k + 1], R[k], R[k + 1])
              /\ R[k + 1] \in Seq(Byte)
<1>1. /\ Len(leaves) \in Nat
      /\ T \in [0 .. Len(leaves) -> Seq(FieldTypes)] /\ R \in [0 .. Len(leaves) -> Seq(Byte)]
      /\ Ordered(T[k]) /\ (Apart(fields) => Apart(T[k]))
      /\ \A i \in 1 .. Len(leaves) : Field(T[i - 1], leaves[i], T[i], R[i - 1], R[i])
  BY LenProperties DEF Trace
<1>2. ASSUME k # Len(leaves)
      PROVE  /\ k + 1 \in 1 .. Len(leaves)
             /\ Field(T[k], leaves[k + 1], T[k + 1], R[k], R[k + 1])
             /\ R[k + 1] \in Seq(Byte)
  <2>1. k + 1 \in 1 .. Len(leaves) /\ k + 1 \in 0 .. Len(leaves) /\ (k + 1) - 1 = k
    BY <1>1, <1>2
  <2> QED
    BY <1>1, <2>1
<1>3. T[k] = << >> => k = Len(leaves)
  BY <1>2 DEF Field
<1> QED
  BY <1>1, <1>2, <1>3

(* The last leaf.                                                              *)
LEMMA LastLeaf ==
  ASSUME NEW have \in Seq(Seq(Int)), NEW all \in Seq(Seq(Int)), Len(all) = Len(have) + 1,
         \A i \in 1 .. Len(have) : have[i] = all[i], NEW leaf \in Seq(Int)
  PROVE  LET g == Append(have, leaf) IN
         /\ Len(g) = Len(all) /\ all # << >> /\ Front(g) = Front(all)
         /\ Last(g) = leaf /\ Last(all) = all[Len(have) + 1]
<1> DEFINE g == Append(have, leaf)
           n == Len(have)
<1>1. /\ g \in Seq(Seq(Int)) /\ Len(g) = n + 1 /\ n \in Nat
      /\ \A i \in 1 .. n : g[i] = have[i]
      /\ g[n + 1] = leaf
  BY AppendProperties, LenProperties
<1> HIDE DEF g
<1>2. all # << >>
  BY <1>1, EmptySeq
<1>3. ASSUME NEW s \in Seq(Seq(Int)), Len(s) = n + 1, \A i \in 1 .. n : s[i] = have[i]
      PROVE  SubSeq(s, 1, n) = have
  <2> DEFINE head == SubSeq(s, 1, n)
  <2>1. \A i \in 1 .. n : s[i] \in Seq(Int)
    <3> SUFFICES ASSUME NEW i \in 1 .. n PROVE s[i] \in Seq(Int)
      OBVIOUS
    <3>1. i \in 1 .. Len(have)
      OBVIOUS
    <3> QED
      BY <1>3, <3>1, ElementOfSeq
  <2>2. /\ head \in Seq(Seq(Int)) /\ Len(head) = n
        /\ \A i \in 1 .. n : head[i] = s[i]
    <3>1. /\ head \in Seq(Seq(Int)) /\ Len(head) = IF 1 <= n THEN n - 1 + 1 ELSE 0
          /\ \A i \in 1 .. n - 1 + 1 : head[i] = s[1 + i - 1]
      <4>1. 1 \in Int /\ n \in Int
        BY <1>1
      <4> QED
        BY <2>1, <4>1, SubSeqProperties
    <3> HIDE DEF head
    <3>2. ASSUME NEW i \in 1 .. n PROVE head[i] = s[i]
      <4>1. i \in 1 .. n - 1 + 1 /\ 1 + i - 1 = i
        BY <1>1
      <4> QED
        BY <3>1, <4>1
    <3> QED
      BY <1>1, <3>1, <3>2
  <2> HIDE DEF head
  <2>3. head = have
    BY <1>3, <2>2, SeqEqual
  <2> QED
    BY <2>3 DEF head
<1>4. SubSeq(g, 1, n) = have /\ SubSeq(all, 1, n) = have
  BY <1>1, <1>3
<1>5. Len(g) - 1 = n /\ Len(all) - 1 = n
  BY <1>1
<1> QED
  BY <1>1, <1>2, <1>4, <1>5 DEF Front, Last, g

(* More bytes behind.                                                          *)
LEMMA PrefixOfMore ==
  ASSUME NEW part \in Seq(Byte), NEW rest \in Seq(Byte), rest # << >>
  PROVE  IsStrictPrefix(part, part \o rest)
<1>1. Len(part) \in 0 .. Len(part \o rest) - 1 /\ SubSeq(part \o rest, 1, Len(part)) = part
  BY Shorter
<1>2. SubSeq(part, 1, Len(part)) = part
  BY SubSeqFull
<1>3. Len(part) \in Nat /\ part \o rest \in Seq(Byte)
  BY ConcatProperties, LenProperties
<1>4. Len(part \o rest) \in Nat
  BY <1>3, LenProperties
<1> DEFINE whole == part \o rest
<1> HIDE DEF whole
<1>5. part # whole
  <2>1. Len(part) < Len(whole)
    BY <1>1, <1>3, <1>4 DEF whole
  <2>2. Len(whole) \in Nat
    BY <1>4 DEF whole
  <2>3. ASSUME part = whole PROVE FALSE
    <3>1. Len(part) = Len(whole)
      BY <2>3
    <3> QED
      BY <2>1, <2>2, <3>1
  <2> QED
    BY <2>3
<1>6. Len(part) <= Len(whole)
  BY <1>1, <1>3, <1>4 DEF whole
<1> QED
  BY <1>1, <1>2, <1>5, <1>6 DEF IsStrictPrefix, IsPrefix, whole
------------------------------------------------------------------------------
(* The reader is where the writer was, with what is left of the body; or a     *)
(* RawBytes took all of it.                                                    *)
InStep(T, R) ==
  /\ Len(got) <= Len(sent) /\ todo = T[Len(got)]
  /\ \A i \in 1 .. Len(got) : got[i] = sent[i]
  /\ Left(damage, bytes, R[Len(got)])

TookAll ==
  /\ bytes = << >>
  /\ \/ /\ todo = << >> /\ AllButLast
        /\ \/ damage = "more" /\ IsStrictPrefix(Last(sent), Last(got))
           \/ damage = "cut" /\ IsStrictPrefix(Last(got), Last(sent))
     \/ damage = "cut" /\ todo # << >> /\ Head(todo) # RawBytes

Watched == AtHome /\ damage \in Kinds /\ (damage = "cut" \/ Delimited)

Story(T, R) ==
  /\ Trace(T, R, FieldsOfMessage(message), sent)
  /\ stage = "write" => todo = T[Len(sent)] /\ bytes = encode(message.id) \o R[0]
  /\ stage # "write" => T[Len(sent)] = << >>
  /\ stage = "id" /\ AtHome /\ damage \in Kinds =>
       Left(damage, bytes, encode(message.id) \o R[0])
  /\ stage = "read" /\ Watched => InStep(T, R) \/ TookAll

Told ==
  /\ stage \in {"write", "id"} => got = << >>
  /\ damage = "cut" => AtHome
  /\ \E T, R : Story(T, R)
  /\ RoundTrip /\ CutIsTruncated

(* The first state.                                                            *)
LEMMA ToldInit == Init => Told
<1> SUFFICES ASSUME Init PROVE Told
  OBVIOUS
<1> DEFINE fields == FieldsOfMessage(message)
<1>1. /\ message \in Messages /\ todo = fields /\ bytes = encode(message.id)
      /\ stage = "write" /\ damage = "none" /\ sent = << >> /\ got = << >>
  BY DEF Init
<1>2. fields \in Seq(FieldTypes) /\ Ordered(fields) /\ encode(message.id) \in Seq(Byte)
  BY <1>1, MessageIs, EncodeIs
<1> HIDE DEF fields
<1>3. PICK T, R : Trace(T, R, fields, << >>) /\ T[Len(<< >>)] = fields /\ R[0] = << >>
  BY <1>2, Begin DEF Extended
<1>4. bytes = encode(message.id) \o R[0]
  BY <1>1, <1>2, <1>3, ConcatEmptySeq
<1>5. Story(T, R)
  BY <1>1, <1>3, <1>4 DEF Story, fields
<1> QED
  BY <1>1, <1>5 DEF Told, RoundTrip, CutIsTruncated, Done

(* Writing a field.                                                            *)
LEMMA ToldWriteField == Typed /\ Told /\ WriteField => Told'
<1> SUFFICES ASSUME Typed, Told, WriteField PROVE Told'
  OBVIOUS
<1>1. PICK T, R : Story(T, R)
  BY DEF Told
<1> DEFINE type == Head(todo)
           fields == FieldsOfMessage(message)
           E(leaf) == Encoded(type, leaf)
           whole == encode(message.id)
<1>2. PICK leaf \in Leaves(type) :
        /\ bytes' = bytes \o E(leaf)
        /\ sent' = Append(sent, leaf)
        /\ todo' = Follow(type, leaf) \o Tail(todo)
  BY DEF WriteField
<1>3. /\ stage = "write" /\ todo # << >> /\ stage' = "write"
      /\ message' = message /\ damage' = damage /\ state' = state /\ got' = got
  BY DEF WriteField, reading
<1>4. /\ Trace(T, R, fields, sent) /\ todo = T[Len(sent)] /\ bytes = whole \o R[0]
      /\ sent \in Seq(Seq(Int))
  BY <1>1, <1>3 DEF Story, Typed
<1>5. Extended(fields, Append(sent, leaf), Follow(type, leaf) \o Tail(todo), R[0] \o E(leaf))
  <2>1. T[Len(sent)] # << >> /\ leaf \in Leaves(Head(T[Len(sent)]))
    BY <1>2, <1>3, <1>4
  <2>2. Extended(fields, Append(sent, leaf),
                 Follow(Head(T[Len(sent)]), leaf) \o Tail(T[Len(sent)]),
                 R[0] \o Encoded(Head(T[Len(sent)]), leaf))
    <3> HIDE DEF fields
    <3> QED
      BY <1>4, <2>1, Extend
  <2> QED
    BY <1>4, <2>2
<1>6. PICK T2, R2 : /\ Trace(T2, R2, fields, sent') /\ T2[Len(sent')] = todo'
                    /\ R2[0] = R[0] \o E(leaf)
  BY <1>2, <1>5 DEF Extended
<1>7. whole \in Seq(Byte) /\ R[0] \in Seq(Byte) /\ E(leaf) \in Seq(Byte)
  <2>1. whole \in Seq(Byte)
    BY MessageIs, EncodeIs DEF Typed
  <2>2. R[0] \in Seq(Byte)
    <3>1. R \in [0 .. Len(sent) -> Seq(Byte)] /\ Len(sent) \in Nat
      BY <1>4, LenProperties DEF Trace
    <3> QED
      BY <3>1
  <2>3. type \in FieldTypes
    BY <1>3, HeadTailProperties DEF Typed
  <2>4. E(leaf) \in Seq(Byte)
    BY <2>3, LeafType
  <2> QED
    BY <2>1, <2>2, <2>4
<1>8. bytes' = whole \o R2[0]
  <2> HIDE DEF whole, E
  <2>1. (whole \o R[0]) \o E(leaf) = whole \o (R[0] \o E(leaf))
    BY <1>7, Regrouped
  <2> QED
    BY <1>2, <1>4, <1>6, <2>1
<1>9. Story(T2, R2)'
  BY <1>3, <1>6, <1>8 DEF Story
<1> QED
  BY <1>3, <1>9 DEF Told, AtHome, RoundTrip, CutIsTruncated, Done

(* The body arrives.                                                           *)
LEMMA ToldArrive ==
  ASSUME Told, NEW what, NEW body, NEW there, Arrive(what, body, there),
         what = "cut" => there = message.state,
         what \in Kinds => Left(what, body, bytes)
  PROVE  Told'
<1>1. PICK T, R : Story(T, R)
  BY DEF Told
<1>2. /\ stage = "write" /\ todo = << >> /\ stage' = "id" /\ damage' = what /\ bytes' = body
      /\ state' = there /\ message' = message /\ sent' = sent /\ got' = got
  BY DEF Arrive, reading
<1>3. T[Len(sent)] = << >> /\ bytes = encode(message.id) \o R[0]
  BY <1>1, <1>2 DEF Story
<1>4. Story(T, R)'
  BY <1>1, <1>2, <1>3 DEF Story
<1> QED
  BY <1>2, <1>4 DEF Told, AtHome, RoundTrip, CutIsTruncated, Done

(* Whichever of the ways it takes.                                             *)
LEMMA ToldArrival == Typed /\ Told /\ (Intact \/ Elsewhere \/ Cut \/ More \/ Changed) => Told'
<1> SUFFICES ASSUME Typed, Told, Intact \/ Elsewhere \/ Cut \/ More \/ Changed PROVE Told'
  OBVIOUS
<1>1. bytes \in Seq(Byte) /\ Len(bytes) \in Nat
  BY LenProperties DEF Typed
<1>2. CASE Intact
  BY <1>2, ToldArrive DEF Intact, Left
<1>3. CASE Elsewhere
  BY <1>3, ToldArrive DEF Elsewhere, Left
<1>4. CASE Cut
  <2>1. PICK n \in 0 .. Len(bytes) - 1 : Arrive("cut", SubSeq(bytes, 1, n), message.state)
    BY <1>4 DEF Cut
  <2> DEFINE body == SubSeq(bytes, 1, n)
             missing == SubSeq(bytes, n + 1, Len(bytes))
  <2>2. missing \in Seq(Byte) /\ missing # << >>
    <3>1. n \in Nat /\ n + 1 \in Int /\ Len(bytes) \in Int /\ n + 1 <= Len(bytes)
      BY <1>1
    <3>2. \A i \in n + 1 .. Len(bytes) : bytes[i] \in Byte
      <4> SUFFICES ASSUME NEW i \in n + 1 .. Len(bytes) PROVE bytes[i] \in Byte
        OBVIOUS
      <4>1. i \in 1 .. Len(bytes)
        BY <3>1
      <4> QED
        BY <1>1, <4>1, ElementOfSeq
    <3>3. /\ missing \in Seq(Byte)
          /\ Len(missing) = IF n + 1 <= Len(bytes) THEN Len(bytes) - (n + 1) + 1 ELSE 0
      BY <3>1, <3>2, SubSeqProperties
    <3> HIDE DEF missing
    <3>4. Len(missing) > 0
      BY <3>1, <3>3
    <3> QED
      BY <3>3, <3>4, EmptySeq
  <2>3. bytes = body \o missing
    <3>1. SubSeq(bytes, 1, n) \o SubSeq(bytes, n + 1, Len(bytes)) = SubSeq(bytes, 1, Len(bytes))
      <4>1. /\ 1 \in 1 .. Len(bytes) + 1 /\ n \in 1 - 1 .. Len(bytes)
            /\ Len(bytes) \in n .. Len(bytes)
        BY <1>1
      <4> QED
        BY <1>1, <4>1, ConcatAdjacentSubSeq
    <3> QED
      BY <1>1, <3>1, SubSeqFull
  <2> HIDE DEF body, missing
  <2>4. Left("cut", body, bytes)
    BY <2>2, <2>3 DEF Left
  <2>5. Arrive("cut", body, message.state)
    BY <2>1 DEF body
  <2> QED
    BY <2>4, <2>5, ToldArrive
<1>5. CASE More
  <2>1. PICK tail \in Blobs \ {<< >>} : Arrive("more", bytes \o tail, message.state)
    BY <1>5 DEF More
  <2> DEFINE body == bytes \o tail
  <2>2. tail \in Seq(Byte) /\ tail # << >>
    BY WireAssumption
  <2>3. Left("more", body, bytes)
    BY <2>2 DEF Left
  <2> HIDE DEF body
  <2>4. Arrive("more", body, message.state)
    BY <2>1 DEF body
  <2> QED
    BY <2>3, <2>4, ToldArrive
<1>6. CASE Changed
  <2>1. PICK body : Arrive("changed", body, message.state)
    BY <1>6 DEF Changed
  <2> QED
    BY <2>1, ToldArrive DEF Kinds
<1> QED
  BY <1>2, <1>3, <1>4, <1>5, <1>6
(* The reader reads the id that was written.                                   *)
LEMMA ToldReadId == Typed /\ Told /\ ReadId => Told'
<1> SUFFICES ASSUME Typed, Told, ReadId PROVE Told'
  OBVIOUS
<1>1. PICK T, R : Story(T, R)
  BY DEF Told
<1> DEFINE number == ReadNumber(bytes)
           n == number.leaf[1]
           fields == FieldsOfMessage(message)
<1>2. /\ stage = "id" /\ stage' \in {"read", "done"}
      /\ bytes' = SubSeq(bytes, number.used + 1, Len(bytes))
      /\ message' = message /\ state' = state /\ damage' = damage /\ sent' = sent /\ got' = got
      /\ got = << >> /\ bytes \in Seq(Byte) /\ message \in Messages
  BY DEF ReadId, End, writing, Told, Typed
<1>3. /\ Trace(T, R, fields, sent) /\ T[Len(sent)] = << >>
      /\ damage = "cut" => AtHome
  BY <1>1, <1>2 DEF Story, Told
<1>4. T[0] = fields /\ R[0] \in Seq(Byte) /\ Len(sent) \in Nat
  <2>1. Len(sent) \in Nat
    BY LenProperties DEF Typed
  <2> QED
    BY <1>3, <2>1 DEF Trace
<1>5. ASSUME Watched
      PROVE  \/ damage = "cut" /\ number.result = "truncated"
             \/ /\ number.result = "ok" /\ n = message.id
                /\ Left(damage, bytes', R[0])
  <2>1. Left(damage, bytes, encode(message.id) \o R[0]) /\ damage \in Kinds
    BY <1>1, <1>2, <1>5 DEF Story, Watched
  <2>2. message.id \in Signed
    BY <1>2, MessageIs
  <2> QED
    BY <1>2, <1>4, <2>1, <2>2, IdAdvance
<1>6. CASE stage' = "read"
  <2>1. ASSUME Watched PROVE InStep(T, R)'
    <3>1. /\ number.result = "ok" /\ todo' = FieldsOf(message.version, message.side, IdTable[n])
      BY <1>2, <1>6 DEF ReadId, End
    <3>2. n = message.id /\ Left(damage, bytes', R[0])
      BY <1>5, <2>1, <3>1
    <3>3. todo' = fields
      <4>1. IdTable = Table(message.version, message.side, message.state)
        BY <2>1 DEF IdTable, Watched, AtHome
      <4> QED
        BY <3>1, <3>2, <4>1 DEF FieldsOfMessage, NameOf
    <3>4. Len(got) = 0
      BY <1>2, EmptySeq
    <3> HIDE DEF n, number, fields
    <3> QED
      BY <1>2, <1>4, <3>2, <3>3, <3>4 DEF InStep
  <2>2. Watched' = Watched
    BY <1>2 DEF Watched, AtHome, Delimited
  <2>3. Story(T, R)'
    BY <1>2, <1>3, <1>6, <2>1, <2>2 DEF Story
  <2> QED
    BY <1>2, <1>3, <1>6, <2>3 DEF Told, AtHome, RoundTrip, CutIsTruncated, Done
<1>7. CASE stage' = "done"
  <2>1. outcome' = number.result \/ n \notin DOMAIN IdTable
    BY <1>2, <1>7 DEF ReadId, End
  <2>2. ASSUME Watched PROVE damage = "cut" /\ outcome' = "truncated"
    <3>1. ASSUME number.result = "ok", n = message.id PROVE FALSE
      <4>1. message.id \in DOMAIN Table(message.version, message.side, message.state)
        BY <1>2, MessageIs
      <4>2. IdTable = Table(message.version, message.side, message.state)
        BY <2>2 DEF IdTable, Watched, AtHome
      <4>3. n \in DOMAIN IdTable
        BY <3>1, <4>1, <4>2
      <4> QED
        BY <1>2, <1>7, <3>1, <4>3 DEF ReadId, End
    <3>2. damage = "cut" /\ number.result = "truncated"
      BY <1>5, <2>2, <3>1
    <3>3. outcome' = number.result
      BY <1>2, <1>7, <3>2 DEF ReadId, End
    <3> QED
      BY <3>2, <3>3
  <2>3. Story(T, R)'
    BY <1>2, <1>3, <1>7 DEF Story
  <2>4. damage = "cut" => outcome' = "truncated"
    BY <1>3, <2>2 DEF Watched, Kinds
  <2>5. ~ (damage \in {"none", "more"} /\ AtHome /\ Delimited)
    BY <2>2 DEF Watched, Kinds
  <2>6. RoundTrip' /\ CutIsTruncated'
    BY <1>2, <2>4, <2>5 DEF RoundTrip, CutIsTruncated, AtHome, Delimited
  <2> QED
    BY <1>2, <1>3, <1>7, <2>3, <2>6 DEF Told, AtHome
<1> QED
  BY <1>2, <1>6, <1>7

(* The reader, watched, at a field that is not RawBytes.                       *)
Followed(T, R) ==
  \/ damage = "cut" /\ Decoding(Head(todo), bytes).result = "truncated"
  \/ /\ Decoding(Head(todo), bytes).result = "ok"
     /\ stage' = "read" => InStep(T, R)' \/ TookAll'

(* It comes back as it was sent, or is cut.                                    *)
LEMMA PlainField ==
  ASSUME Typed, NEW T, NEW R, Trace(T, R, FieldsOfMessage(message), sent), T[Len(sent)] = << >>,
         Watched, InStep(T, R), ReadField, Head(todo).kind # "raw"
  PROVE  Followed(T, R)
<1> DEFINE k == Len(got)
           type == Head(todo)
           field == Decoding(type, bytes)
           leaf == sent[k + 1]
           fields == FieldsOfMessage(message)
<1>1. /\ todo # << >> /\ todo = T[k] /\ bytes' = SubSeq(bytes, field.used + 1, Len(bytes))
      /\ sent' = sent /\ damage' = damage
      /\ field.result = "ok" =>
           got' = Append(got, field.leaf) /\ todo' = Follow(type, field.leaf) \o Tail(todo)
  BY DEF ReadField, InStep, writing
<1>2. /\ k \in 0 .. Len(sent) /\ sent \in Seq(Seq(Int)) /\ got \in Seq(Seq(Int))
      /\ bytes \in Seq(Byte) /\ k \in Nat
  BY LenProperties DEF InStep, Typed
<1>3. /\ k + 1 \in 1 .. Len(sent)
      /\ Field(todo, leaf, T[k + 1], R[k], R[k + 1])
      /\ R[k + 1] \in Seq(Byte) /\ todo \in Seq(FieldTypes)
  <2> HIDE DEF k, fields
  <2> QED
    BY <1>1, <1>2, TraceAt
<1>4. /\ leaf \in Leaves(type) /\ R[k] = Encoded(type, leaf) \o R[k + 1]
      /\ T[k + 1] = Follow(type, leaf) \o Tail(todo)
  BY <1>3 DEF Field
<1>5. type \in FieldTypes
  BY <1>1, <1>3, HeadTailProperties
<1>6. Left(damage, bytes, R[k]) /\ damage \in Kinds
  BY DEF InStep, Watched
<1>7. \/ damage = "cut" /\ field.result = "truncated"
      \/ /\ field.result = "ok" /\ field.leaf = leaf
         /\ Left(damage, SubSeq(bytes, field.used + 1, Len(bytes)), R[k + 1])
  <2> DEFINE rest == R[k + 1]
  <2>1. Left(damage, bytes, Encoded(type, leaf) \o rest) /\ rest \in Seq(Byte) /\ type.kind # "raw"
    BY <1>3, <1>4, <1>6
  <2> HIDE DEF type, leaf, rest
  <2> QED
    BY <1>2, <1>4, <1>5, <1>6, <2>1, FieldAdvance DEF rest
<1>8. ASSUME field.result = "ok", field.leaf = leaf, Left(damage, bytes', R[k + 1])
      PROVE  InStep(T, R)'
  <2>1. got' = Append(got, leaf) /\ todo' = T[k + 1]
    BY <1>1, <1>4, <1>8
  <2>2. leaf \in Seq(Int)
    BY <1>4, <1>5, LeafType
  <2>3. Len(got') = k + 1 /\ \A i \in 1 .. k : got'[i] = got[i]
    <3> HIDE DEF leaf
    <3> QED
      BY <1>2, <2>1, <2>2, AppendProperties
  <2>4. \A i \in 1 .. k : got[i] = sent[i]
    BY DEF InStep
  <2>5. got'[k + 1] = leaf
    <3> HIDE DEF leaf
    <3> QED
      BY <1>2, <2>1, <2>2, AppendProperties
  <2>6. \A i \in 1 .. k + 1 : got'[i] = sent[i]
    <3> SUFFICES ASSUME NEW i \in 1 .. k + 1 PROVE got'[i] = sent[i]
      OBVIOUS
    <3>1. CASE i = k + 1
      BY <2>5, <3>1
    <3>2. CASE i \in 1 .. k
      BY <2>3, <2>4, <3>2
    <3> QED
      BY <1>2, <3>1, <3>2
  <2>7. k + 1 <= Len(sent)
    BY <1>2, <1>3
  <2> HIDE DEF k, field, leaf, type
  <2> QED
    BY <1>1, <1>8, <2>1, <2>3, <2>6, <2>7 DEF InStep
<1>9. CASE damage = "cut" /\ field.result = "truncated"
  BY <1>9 DEF Followed
<1>10. CASE /\ field.result = "ok" /\ field.leaf = leaf
            /\ Left(damage, SubSeq(bytes, field.used + 1, Len(bytes)), R[k + 1])
  <2>1. InStep(T, R)'
    <3>1. Left(damage, bytes', R[k + 1])
      BY <1>1, <1>10
    <3> QED
      BY <1>8, <1>10, <3>1
  <2> QED
    BY <1>10, <2>1 DEF Followed
<1> QED
  BY <1>7, <1>9, <1>10
(* The reader, watched, at a RawBytes.                                         *)
LEMMA RawField ==
  ASSUME Typed, NEW T, NEW R, Trace(T, R, FieldsOfMessage(message), sent), T[Len(sent)] = << >>,
         Watched, InStep(T, R), ReadField, Head(todo).kind = "raw"
  PROVE  Followed(T, R)
<1> DEFINE k == Len(got)
           type == Head(todo)
           field == Decoding(type, bytes)
           leaf == sent[k + 1]
           fields == FieldsOfMessage(message)
<1>1. /\ k \in 0 .. Len(sent) /\ sent \in Seq(Seq(Int)) /\ got \in Seq(Seq(Int))
      /\ bytes \in Seq(Byte) /\ k \in Nat /\ Len(sent) \in Nat
      /\ sent' = sent /\ damage' = damage /\ todo # << >> /\ todo = T[k]
      /\ bytes' = SubSeq(bytes, field.used + 1, Len(bytes))
  BY LenProperties DEF InStep, Typed, ReadField, writing
<1>2. /\ k + 1 \in 1 .. Len(sent)
      /\ Field(todo, leaf, T[k + 1], R[k], R[k + 1])
      /\ R[k + 1] \in Seq(Byte) /\ todo \in Seq(FieldTypes)
      /\ Ordered(todo) /\ (Apart(fields) => Apart(todo))
  <2>1. /\ T[k] \in Seq(FieldTypes) /\ Ordered(T[k]) /\ (Apart(fields) => Apart(T[k]))
        /\ T[k] # << >> =>
             /\ k + 1 \in 1 .. Len(sent)
             /\ Field(T[k], sent[k + 1], T[k + 1], R[k], R[k + 1])
             /\ R[k + 1] \in Seq(Byte)
    <3>1. /\ Trace(T, R, fields, sent) /\ T[Len(sent)] = << >>
          /\ sent \in Seq(Seq(Int)) /\ k \in 0 .. Len(sent)
      BY <1>1
    <3> HIDE DEF k, fields
    <3> QED
      BY ONLY <3>1, TraceAt
  <2> QED
    BY <1>1, <2>1
<1>3. type \in FieldTypes /\ type = RawBytes
  <2>1. type \in FieldTypes
    BY <1>1, <1>2, HeadTailProperties
  <2> QED
    BY <2>1, TypeIs
<1>4. field = Got(bytes, Len(bytes))
  BY DEF Decoding
<1>5. field.result = "ok" /\ field.leaf = bytes /\ field.used = Len(bytes)
  BY <1>4, ReadIs
<1>6. got' = Append(got, bytes) /\ todo' = Follow(type, field.leaf) \o Tail(todo)
  BY <1>5 DEF ReadField
<1> HIDE DEF field
<1>7. bytes' = << >>
  <2>1. Len(bytes) \in Int /\ Len(bytes) + 1 \in Int /\ Len(bytes) < Len(bytes) + 1
    BY <1>1, LenProperties
  <2>2. SubSeq(bytes, Len(bytes) + 1, Len(bytes)) = << >>
    BY <2>1, SubSeqEmpty
  <2> QED
    BY <1>1, <1>5, <2>2
<1>8. /\ todo' = Tail(todo) /\ T[k + 1] = Tail(todo)
      /\ Apart(todo) => Tail(todo) = << >>
      /\ Tail(todo) # << >> => Head(Tail(todo)) # RawBytes
  <2>1. /\ \A any : Follow(type, any) \o Tail(todo) = Tail(todo)
        /\ Apart(todo) => Tail(todo) = << >>
        /\ Tail(todo) # << >> => Head(Tail(todo)) # RawBytes
    BY <1>1, <1>2, <1>3, BehindRaw
  <2>2. T[k + 1] = Follow(type, leaf) \o Tail(todo)
    BY <1>2 DEF Field
  <2> QED
    BY <1>6, <2>1, <2>2
<1>9. leaf \in Seq(Byte) /\ R[k] = leaf \o R[k + 1]
  <2>1. leaf \in Leaves(type) /\ R[k] = Encoded(type, leaf) \o R[k + 1]
    BY <1>2 DEF Field
  <2>2. type.kind = "raw"
    OBVIOUS
  <2>3. leaf \in Seq(Byte)
    <3> HIDE DEF type, leaf
    <3> QED
      BY <1>3, <2>1, <2>2, RawLeaf
  <2>4. Encoded(type, leaf) = leaf
    BY <2>2 DEF Encoded
  <2> QED
    BY <2>1, <2>3, <2>4
<1>10. Left(damage, bytes, leaf \o R[k + 1])
  BY <1>9 DEF InStep
<1>11. CASE Tail(todo) # << >>
  <2>1. damage = "cut"
    <3>1. ~ Delimited
      BY <1>2, <1>8, <1>11 DEF Delimited, Apart
    <3> QED
      BY <3>1 DEF Watched
  <2>2. TookAll'
    BY <1>1, <1>7, <1>8, <1>11, <2>1 DEF TookAll
  <2> QED
    BY <1>5, <2>2 DEF Followed, field
<1>12. CASE Tail(todo) = << >>
  <2>1. k + 1 = Len(sent) /\ R[k + 1] = << >>
    <3>1. T[k + 1] = << >> /\ k + 1 \in 0 .. Len(sent)
      BY <1>1, <1>2, <1>8, <1>12
    <3>2. k + 1 = Len(sent)
      <4> DEFINE next == k + 1
      <4>1. next \in 0 .. Len(sent) /\ T[next] = << >>
        BY <3>1
      <4> HIDE DEF next, k, fields
      <4>2. next = Len(sent)
        BY <1>1, <4>1, TraceAt
      <4> QED
        BY <4>2 DEF next
    <3>3. R[Len(sent)] = << >>
      BY DEF Trace
    <3> QED
      BY <3>2, <3>3
  <2>2. Left(damage, bytes, leaf)
    <3>1. leaf \o R[k + 1] = leaf
      BY <1>9, <2>1, ConcatEmptySeq
    <3> QED
      BY <1>10, <3>1
  <2>3. bytes \in Seq(Int) /\ leaf \in Seq(Int)
    BY <1>1, <1>9, BytesAreInts
  <2>4. \A i \in 1 .. k : got[i] = sent[i]
    BY DEF InStep
  <2>5. /\ Len(got') = Len(sent) /\ sent # << >> /\ Front(got') = Front(sent)
        /\ Last(got') = bytes /\ Last(sent) = leaf
    BY <1>1, <1>6, <2>1, <2>3, <2>4, LastLeaf
  <2>6. CASE damage = "none"
    <3>1. bytes = leaf
      BY <2>2, <2>6 DEF Left
    <3>2. Len(got') = k + 1 /\ \A i \in 1 .. k : got'[i] = got[i]
      BY <1>1, <1>6, <2>3, AppendProperties
    <3>3. got'[k + 1] = bytes
      BY <1>1, <1>6, <2>3, AppendProperties
    <3>4. \A i \in 1 .. k + 1 : got'[i] = sent[i]
      <4> SUFFICES ASSUME NEW i \in 1 .. k + 1 PROVE got'[i] = sent[i]
        OBVIOUS
      <4>1. i = k + 1 \/ i \in 1 .. k
        BY <1>1
      <4> QED
        BY <2>4, <3>1, <3>2, <3>3, <4>1
    <3>5. Left(damage, << >>, R[k + 1])
      BY <2>1, <2>6 DEF Left
    <3>6. k + 1 <= Len(sent)
      BY <1>1, <2>1
    <3> HIDE DEF k
    <3>7. InStep(T, R)'
      BY <1>1, <1>7, <1>8, <3>2, <3>4, <3>5, <3>6 DEF InStep
    <3> QED
      BY <1>5, <3>7 DEF Followed, field
  <2>7. CASE damage = "more"
    <3>1. PICK extra \in Seq(Byte) : extra # << >> /\ bytes = leaf \o extra
      BY <2>2, <2>7 DEF Left
    <3>2. IsStrictPrefix(leaf, bytes)
      BY <1>9, <3>1, PrefixOfMore
    <3> HIDE DEF leaf
    <3>3. TookAll'
      BY <1>1, <1>7, <1>8, <1>12, <2>5, <2>7, <3>2 DEF TookAll, AllButLast
    <3> QED
      BY <1>5, <3>3 DEF Followed, field
  <2>8. CASE damage = "cut"
    <3>1. PICK missing \in Seq(Byte) : missing # << >> /\ leaf = bytes \o missing
      BY <2>2, <2>8 DEF Left
    <3>2. IsStrictPrefix(bytes, leaf)
      BY <1>1, <3>1, PrefixOfMore
    <3> HIDE DEF leaf
    <3>3. TookAll'
      BY <1>1, <1>7, <1>8, <1>12, <2>5, <2>8, <3>2 DEF TookAll, AllButLast
    <3> QED
      BY <1>5, <3>3 DEF Followed, field
  <2> QED
    BY <2>6, <2>7, <2>8 DEF Watched, Kinds
<1> QED
  BY <1>11, <1>12

(* A field is read.                                                            *)
LEMMA ToldReadField == Typed /\ Told /\ ReadField => Told'
<1> SUFFICES ASSUME Typed, Told, ReadField PROVE Told'
  OBVIOUS
<1>1. PICK T, R : Story(T, R)
  BY DEF Told
<1> DEFINE field == Decoding(Head(todo), bytes)
<1>2. /\ stage = "read" /\ todo # << >> /\ stage' \in {"read", "done"}
      /\ message' = message /\ state' = state /\ damage' = damage /\ sent' = sent
      /\ stage' = "done" => field.result # "ok" /\ outcome' = field.result
      /\ stage' = "read" => field.result = "ok"
  BY DEF ReadField, End, writing
<1>3. /\ Trace(T, R, FieldsOfMessage(message), sent) /\ T[Len(sent)] = << >>
      /\ damage = "cut" => AtHome
      /\ Watched => InStep(T, R) \/ TookAll
  BY <1>1, <1>2 DEF Story, Told
<1>4. ASSUME Watched PROVE Followed(T, R)
  <2>1. CASE InStep(T, R)
    BY <1>3, <1>4, <2>1, PlainField, RawField
  <2>2. CASE TookAll
    <3>1. damage = "cut" /\ bytes = << >> /\ Head(todo) # RawBytes
      BY <1>2, <2>2 DEF TookAll
    <3>2. Head(todo) \in FieldTypes
      BY <1>2, HeadTailProperties DEF Typed
    <3>3. Head(todo).kind # "raw"
      BY <3>1, <3>2, TypeIs
    <3> QED
      BY <3>1, <3>2, <3>3, NothingLeft DEF Followed
  <2> QED
    BY <1>3, <1>4, <2>1, <2>2
<1>5. Watched' = Watched
  BY <1>2 DEF Watched, AtHome, Delimited
<1>6. CASE stage' = "read"
  <2>1. Watched => InStep(T, R)' \/ TookAll'
    BY <1>2, <1>4, <1>6 DEF Followed
  <2>2. Story(T, R)'
    BY <1>2, <1>3, <1>5, <1>6, <2>1 DEF Story
  <2> QED
    BY <1>2, <1>3, <1>6, <2>2 DEF Told, AtHome, RoundTrip, CutIsTruncated, Done
<1>7. CASE stage' = "done"
  <2>1. Watched => damage = "cut" /\ outcome' = "truncated"
    BY <1>2, <1>4, <1>7 DEF Followed
  <2>2. Story(T, R)'
    BY <1>2, <1>3, <1>7 DEF Story
  <2>3. damage = "cut" => outcome' = "truncated"
    BY <1>3, <2>1 DEF Watched, Kinds
  <2>4. ~ (damage \in {"none", "more"} /\ AtHome /\ Delimited)
    BY <2>1 DEF Watched, Kinds
  <2>5. RoundTrip' /\ CutIsTruncated'
    BY <1>2, <2>3, <2>4 DEF RoundTrip, CutIsTruncated, AtHome, Delimited
  <2> QED
    BY <1>2, <1>3, <1>7, <2>2, <2>5 DEF Told, AtHome
<1> QED
  BY <1>2, <1>6, <1>7

(* All fields have been read.                                                  *)
LEMMA ToldReadAll == Typed /\ Told /\ ReadAll => Told'
<1> SUFFICES ASSUME Typed, Told, ReadAll PROVE Told'
  OBVIOUS
<1>1. PICK T, R : Story(T, R)
  BY DEF Told
<1>2. /\ stage = "read" /\ todo = << >> /\ stage' = "done" /\ outcome' = "ok"
      /\ message' = message /\ state' = state /\ damage' = damage /\ sent' = sent
      /\ bytes' = bytes /\ got' = got
      /\ sent \in Seq(Seq(Int)) /\ got \in Seq(Seq(Int))
  BY DEF ReadAll, End, writing, Typed
<1>3. /\ Trace(T, R, FieldsOfMessage(message), sent) /\ T[Len(sent)] = << >>
      /\ damage = "cut" => AtHome
      /\ Watched => InStep(T, R) \/ TookAll
  BY <1>1, <1>2 DEF Story, Told
<1>4. Story(T, R)'
  BY <1>2, <1>3 DEF Story
<1>5. CASE ~ Watched
  <2>1. damage # "cut" /\ ~ (damage \in {"none", "more"} /\ AtHome /\ Delimited)
    BY <1>3, <1>5 DEF Watched, Kinds
  <2>2. RoundTrip' /\ CutIsTruncated'
    BY <1>2, <2>1 DEF RoundTrip, CutIsTruncated, AtHome, Delimited
  <2> QED
    BY <1>2, <1>3, <1>4, <2>2 DEF Told, AtHome
<1>6. CASE InStep(T, R)
  <2> DEFINE k == Len(got)
  <2>1. k \in 0 .. Len(sent) /\ T[k] = << >>
    <3>1. k \in Nat /\ Len(sent) \in Nat
      BY <1>2, LenProperties
    <3> QED
      BY <1>2, <1>6, <3>1 DEF InStep
  <2>2. k = Len(sent)
    <3> HIDE DEF k
    <3> QED
      BY <1>2, <1>3, <2>1, TraceAt
  <2>3. \A i \in 1 .. Len(got) : got[i] = sent[i]
    BY <1>6 DEF InStep
  <2>4. got = sent
    BY <1>2, <2>2, <2>3, SeqEqual
  <2>5. Left(damage, bytes, << >>)
    BY <1>3, <1>6, <2>2 DEF InStep, Trace
  <2>6. damage = "none" => bytes = << >>
    BY <2>5 DEF Left
  <2>7. damage # "cut"
    <3> SUFFICES ASSUME damage = "cut" PROVE FALSE
      OBVIOUS
    <3>1. PICK missing \in Seq(Byte) : missing # << >> /\ << >> = bytes \o missing
      BY <2>5 DEF Left
    <3>2. bytes \in Seq(Byte) /\ Len(<< >>) = 0
      BY EmptySeq DEF Typed
    <3>3. Len(bytes) \in 0 .. Len(bytes \o missing) - 1
      BY <3>1, <3>2, Shorter
    <3>4. Len(bytes \o missing) = 0
      BY <3>1, <3>2
    <3> QED
      BY <3>3, <3>4
  <2>8. RoundTrip' /\ CutIsTruncated'
    BY <1>2, <2>4, <2>6, <2>7 DEF RoundTrip, CutIsTruncated
  <2> QED
    BY <1>2, <1>3, <1>4, <2>8 DEF Told, AtHome
<1>7. CASE TookAll
  <2>1. /\ bytes = << >> /\ AllButLast
        /\ \/ damage = "more" /\ IsStrictPrefix(Last(sent), Last(got))
           \/ damage = "cut" /\ IsStrictPrefix(Last(got), Last(sent))
    BY <1>2, <1>7 DEF TookAll
  <2>2. AllButLast'
    BY <1>2, <2>1 DEF AllButLast
  <2>3. RoundTrip' /\ CutIsTruncated'
    BY <1>2, <2>1, <2>2 DEF RoundTrip, CutIsTruncated
  <2> QED
    BY <1>2, <1>3, <1>4, <2>3 DEF Told, AtHome
<1> QED
  BY <1>3, <1>5, <1>6, <1>7

(* Every step.                                                                 *)
LEMMA ToldNext == Typed /\ Told /\ [Next]_vars => Told'
<1> SUFFICES ASSUME Typed, Told, [Next]_vars PROVE Told'
  OBVIOUS
<1>1. CASE UNCHANGED vars
  <2>1. /\ message' = message /\ stage' = stage /\ todo' = todo /\ bytes' = bytes
        /\ sent' = sent /\ damage' = damage /\ state' = state /\ got' = got
        /\ outcome' = outcome
    BY <1>1 DEF vars, writing, reading
  <2>2. PICK T, R : Story(T, R)
    BY DEF Told
  <2>3. Story(T, R)'
    BY <2>1, <2>2 DEF Story, Watched, AtHome, Delimited, InStep, TookAll, AllButLast
  <2>4. RoundTrip' /\ CutIsTruncated'
    BY <2>1 DEF Told, RoundTrip, CutIsTruncated, Done, AtHome, Delimited, AllButLast
  <2> QED
    BY <2>1, <2>3, <2>4 DEF Told, AtHome
<1> QED
  BY <1>1, ToldWriteField, ToldArrival, ToldReadId, ToldReadField, ToldReadAll DEF Next

(* So every state can be told by a trace.                                      *)
LEMMA ToldAlways == Spec => []Told
<1> QED
  BY ToldInit, ToldNext, TypedAlways, PTL DEF Spec

(* Wire!RoundTrip, the contract of Encode (traits.rs): what the derived Encode *)
(* writes for a packet of the tables, the derived Decode reads back leaf by    *)
(* leaf from exactly those bytes.                                              *)
THEOREM PacketsRoundTrip == Spec => []RoundTrip
<1>1. Told => RoundTrip
  BY DEF Told
<1> QED
  BY <1>1, ToldAlways, PTL

(* Wire!CutIsTruncated: a body that ends too soon is an UnexpectedEof, what    *)
(* the connection task takes for a peer that left.                             *)
THEOREM CutsAreTruncated == Spec => []CutIsTruncated
<1>1. Told => CutIsTruncated
  BY DEF Told
<1> QED
  BY <1>1, ToldAlways, PTL
===============================================================================
