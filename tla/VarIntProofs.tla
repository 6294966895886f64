---------------------------- MODULE VarIntProofs ----------------------------
(* Theorems about VarInt for every size of segment, integer and encoding.      *)
(* They are about recursive functions, so each of these is first shown to      *)
(* satisfy its definition (FixedPoint), then reasoned about by induction over  *)
(* sets of numbers, from the well-foundedness of < (WFMin).                    *)
EXTENDS VarInt, TLAPS, WellFoundedInduction, SequenceTheorems

(* A nonempty set of naturals has a least element.                             *)
LEMMA Least ==
  ASSUME NEW T \in SUBSET Nat, T # {}
  PROVE  \E n \in T : \A m \in T : n <= m
<1>1. PICK n \in T : \A m \in T : ~ (<<m, n>> \in OpToRel(<, Nat))
  BY NatLessThanWellFounded, WFMin
<1>2. \A m \in T : ~ (m < n)
  BY <1>1 DEF OpToRel
<1>3. QED
  BY <1>2

(* Induction, for a set instead of a predicate: one that holds 0 and every     *)
(* successor of its elements holds every natural.                              *)
LEMMA Induct ==
  ASSUME NEW S, 0 \in S, \A n \in Nat : n \in S => n + 1 \in S
  PROVE  Nat \subseteq S
<1> SUFFICES ASSUME Nat \ S # {} PROVE FALSE
  OBVIOUS
<1>1. PICK n \in Nat \ S : \A m \in Nat \ S : n <= m
  BY Least
<1>2. n # 0 /\ n - 1 \in Nat /\ n - 1 \in S
  BY <1>1
<1>3. QED
  BY <1>1, <1>2

(* Induction up to N, from all that is smaller.                                *)
LEMMA Forwards ==
  ASSUME NEW N \in Nat, NEW S,
         \A n \in 0 .. N : (\A m \in 0 .. n - 1 : m \in S) => n \in S
  PROVE  0 .. N \subseteq S
<1> DEFINE T == {n \in Nat : \A m \in 0 .. n : m <= N => m \in S}
<1>1. 0 \in T
  OBVIOUS
<1>2. ASSUME NEW n \in Nat, n \in T PROVE n + 1 \in T
  <2>1. \A m \in 0 .. n : m <= N => m \in S
    BY <1>2
  <2>2. n + 1 <= N => n + 1 \in S
    BY <2>1
  <2> QED
    BY <2>1, <2>2
<1>3. N \in T
  <2> HIDE DEF T
  <2> QED
    BY <1>1, <1>2, Induct
<1> QED
  BY <1>3

(* Induction down from N + 1: a byte at a time, from the last one.             *)
LEMMA Backwards ==
  ASSUME NEW N \in Nat, NEW S,
         \A i \in 1 .. N + 1 : (i <= N => i + 1 \in S) => i \in S
  PROVE  1 .. N + 1 \subseteq S
<1> DEFINE T == {n \in Nat : \A i \in 1 .. N + 1 : i >= N + 1 - n => i \in S}
<1>1. 0 \in T
  OBVIOUS
<1>2. ASSUME NEW n \in Nat, n \in T PROVE n + 1 \in T
  BY <1>2
<1>3. N \in T
  <2> HIDE DEF T
  <2> QED
    BY <1>1, <1>2, Induct
<1> QED
  BY <1>3

(* The two parts of a concatenation.                                           *)
LEMMA ConcatEnds ==
  ASSUME NEW T, NEW s \in Seq(T), NEW t \in Seq(T)
  PROVE  /\ SubSeq(s \o t, 1, Len(s)) = s
         /\ SubSeq(s \o t, Len(s) + 1, Len(s \o t)) = t
<1>1. /\ s \o t \in Seq(T) /\ Len(s \o t) = Len(s) + Len(t)
      /\ Len(s) \in Nat /\ Len(t) \in Nat
      /\ \A i \in 1 .. Len(s) + Len(t) :
           (s \o t)[i] = IF i <= Len(s) THEN s[i] ELSE t[i - Len(s)]
  BY ConcatProperties
<1> DEFINE a == SubSeq(s \o t, 1, Len(s))
           b == SubSeq(s \o t, Len(s) + 1, Len(s \o t))
<1>2. /\ a \in Seq(T) /\ Len(a) = Len(s)
      /\ \A i \in 1 .. Len(s) : a[i] = s[i]
  BY <1>1
<1>3. /\ b \in Seq(T) /\ Len(b) = Len(t)
      /\ \A i \in 1 .. Len(t) : b[i] = t[i]
  BY <1>1
<1> HIDE DEF a, b
<1>4. a = s
  BY <1>2, SeqEqual
<1>5. b = t
  BY <1>3, SeqEqual
<1> QED
  BY <1>4, <1>5 DEF a, b

(* Where p \o q = f \o r is cut: inside f, or behind it.                       *)
Meet(T, p, q, f, r) ==
  \/ \E s \in Seq(T) : s # << >> /\ p \o s = f
  \/ \E s \in Seq(T) : p = f \o s /\ s \o q = r

(* It is cut at one of the two.                                                *)
LEMMA Split ==
  ASSUME NEW T, NEW p \in Seq(T), NEW q \in Seq(T), NEW f \in Seq(T), NEW r \in Seq(T),
         p \o q = f \o r
  PROVE  Meet(T, p, q, f, r)
<1> USE DEF Meet
<1>1. /\ Len(p) \in Nat /\ Len(q) \in Nat /\ Len(f) \in Nat /\ Len(r) \in Nat
      /\ Len(p) + Len(q) = Len(f) + Len(r)
  BY ConcatProperties
<1>2. /\ \A i \in 1 .. Len(p) + Len(q) :
           (p \o q)[i] = IF i <= Len(p) THEN p[i] ELSE q[i - Len(p)]
      /\ \A i \in 1 .. Len(p) + Len(q) :
           (p \o q)[i] = IF i <= Len(f) THEN f[i] ELSE r[i - Len(f)]
  BY <1>1, ConcatProperties
<1>3. CASE Len(p) < Len(f)
  <2> DEFINE s == SubSeq(f, Len(p) + 1, Len(f))
  <2>0. /\ s \in Seq(T) /\ Len(s) = Len(f) - Len(p)
        /\ \A i \in 1 .. Len(f) - Len(p) : s[i] = f[Len(p) + i]
    BY <1>1, <1>3
  <2> HIDE DEF s
  <2>1. s # << >>
    BY <2>0, <1>1, <1>3, EmptySeq
  <2>2. p \o s \in Seq(T) /\ Len(p \o s) = Len(f)
    BY <1>1, <2>0
  <2>3. \A i \in 1 .. Len(p \o s) : (p \o s)[i] = f[i]
    <3> SUFFICES ASSUME NEW i \in 1 .. Len(f) PROVE (p \o s)[i] = f[i]
      BY <2>2
    <3>1. CASE i <= Len(p)
      <4>1. (p \o s)[i] = p[i] /\ i \in 1 .. Len(p) + Len(q)
        BY <3>1, <1>1, <2>0
      <4> QED
        BY <4>1, <3>1, <1>1, <1>2
    <3>2. CASE ~ (i <= Len(p))
      <4>1. (p \o s)[i] = s[i - Len(p)]
        BY <3>2, <1>1, <2>0
      <4>2. i - Len(p) \in 1 .. Len(f) - Len(p) /\ Len(p) + (i - Len(p)) = i
        BY <3>2, <1>1
      <4> QED
        BY <4>1, <4>2, <2>0
    <3> QED
      BY <3>1, <3>2
  <2>4. p \o s = f
    BY <2>2, <2>3, SeqEqual
  <2> QED
    BY <2>0, <2>1, <2>4
<1>4. CASE ~ (Len(p) < Len(f))
  <2> DEFINE s == SubSeq(p, Len(f) + 1, Len(p))
  <2>1. /\ s \in Seq(T) /\ Len(s) = Len(p) - Len(f)
        /\ \A i \in 1 .. Len(p) - Len(f) : s[i] = p[Len(f) + i]
    BY <1>1, <1>4
  <2> HIDE DEF s
  <2>2. f \o s \in Seq(T) /\ Len(p) = Len(f \o s)
    BY <1>1, <2>1
  <2>3. \A i \in 1 .. Len(p) : p[i] = (f \o s)[i]
    <3> SUFFICES ASSUME NEW i \in 1 .. Len(p) PROVE p[i] = (f \o s)[i]
      OBVIOUS
    <3>1. CASE i <= Len(f)
      <4>1. (f \o s)[i] = f[i] /\ i \in 1 .. Len(p) + Len(q)
        BY <1>1, <2>1, <3>1
      <4> QED
        BY <1>1, <1>2, <3>1, <4>1
    <3>2. CASE ~ (i <= Len(f))
      <4>1. i - Len(f) \in 1 .. Len(p) - Len(f) /\ Len(f) + (i - Len(f)) = i
        BY <1>1, <3>2
      <4>2. (f \o s)[i] = s[i - Len(f)]
        BY <1>1, <2>1, <3>2
      <4> QED
        BY <2>1, <4>1, <4>2
    <3> QED
      BY <3>1, <3>2
  <2>4. p = f \o s
    BY <2>2, <2>3, SeqEqual
  <2>5. s \o q \in Seq(T) /\ Len(s \o q) = Len(r)
    BY <1>1, <2>1
  <2>6. \A i \in 1 .. Len(s \o q) : (s \o q)[i] = r[i]
    <3> SUFFICES ASSUME NEW i \in 1 .. Len(r) PROVE (s \o q)[i] = r[i]
      BY <2>5
    <3>1. Len(f) + i \in 1 .. Len(p) + Len(q)
      BY <1>1
    <3>2. (p \o q)[Len(f) + i] = r[i]
      BY <1>1, <1>2, <3>1
    <3>3. CASE i <= Len(s)
      <4>1. (s \o q)[i] = s[i]
        BY <3>3, <2>1
      <4> QED
        BY <1>1, <1>2, <2>1, <3>1, <3>2, <3>3, <4>1
    <3>4. CASE ~ (i <= Len(s))
      <4>1. i \in 1 .. Len(s) + Len(q)
        BY <1>1, <2>1
      <4>2. (s \o q)[i] = q[i - Len(s)]
        BY <2>1, <3>4, <4>1, ConcatProperties
      <4>3. (Len(f) + i) - Len(p) = i - Len(s) /\ ~ (Len(f) + i <= Len(p))
        BY <1>1, <2>1, <3>4
      <4> QED
        BY <1>2, <3>1, <3>2, <4>2, <4>3
    <3> QED
      BY <3>3, <3>4
  <2>7. s \o q = r
    BY <2>5, <2>6, SeqEqual
  <2> QED
    BY <2>1, <2>4, <2>7
<1> QED
  BY <1>3, <1>4

(* The recursion F of functions from D to W goes only from an argument to      *)
(* arguments of a smaller measure mu, which N bounds.                          *)
WellDefined(F, D, W, mu, N) ==
  /\ N \in Nat
  /\ mu \in [D -> 0 .. N]
  /\ F \in [[D -> W] -> [D -> W]]
  /\ [D -> W] # {}
  /\ \A g, h \in [D -> W] : \A d \in D :
       (\A e \in D : mu[e] < mu[d] => g[e] = h[e]) => F[g][d] = F[h][d]

(* Such a recursion defines a function: what CHOOSE picks for it is a function *)
(* that satisfies the equation it was written with.                            *)
LEMMA FixedPoint ==
  ASSUME NEW D, NEW W, NEW N, NEW mu, NEW F, WellDefined(F, D, W, mu, N)
  PROVE  \E g \in [D -> W] : g = F[g]
<1> USE DEF WellDefined
<1> DEFINE S == {n \in Nat : \E g \in [D -> W] : \A d \in D : mu[d] < n => g[d] = F[g][d]}
<1>1. 0 \in S
  OBVIOUS
<1>2. ASSUME NEW n \in Nat, n \in S PROVE n + 1 \in S
  <2>1. PICK g \in [D -> W] : \A d \in D : mu[d] < n => g[d] = F[g][d]
    BY <1>2
  <2>2. F[g] \in [D -> W]
    OBVIOUS
  <2>3. ASSUME NEW d \in D, mu[d] < n + 1 PROVE F[g][d] = F[F[g]][d]
    <3>1. \A e \in D : mu[e] < mu[d] => g[e] = F[g][e]
      BY <2>1, <2>3
    <3> QED
      BY <2>2, <3>1
  <2> QED
    BY <2>2, <2>3
<1>3. N + 1 \in S
  <2> HIDE DEF S
  <2> QED
    BY <1>1, <1>2, Induct
<1>4. PICK g \in [D -> W] : \A d \in D : mu[d] < N + 1 => g[d] = F[g][d]
  BY <1>3
<1>5. \A d \in D : g[d] = F[g][d]
  BY <1>4
<1>6. F[g] \in [D -> W]
  OBVIOUS
<1> QED
  BY <1>5, <1>6

(* A recursion from each number to the one before it: its value at 0, and the  *)
(* step that leads to each of the others.                                      *)
Recurs(g, N, a, step) == g[0] = a /\ \A n \in 1 .. N : g[n] = step[n][g[n - 1]]

(* It has a solution, too.                                                     *)
LEMMA Recurrence ==
  ASSUME NEW N \in Nat, NEW W, NEW a \in W, NEW step \in [1 .. N -> [W -> W]]
  PROVE  \E g \in [0 .. N -> W] : Recurs(g, N, a, step)
<1> DEFINE D == 0 .. N
           F == [g \in [D -> W] |-> [n \in D |-> IF n = 0 THEN a ELSE step[n][g[n - 1]]]]
           mu == [n \in D |-> n]
<1>1. F \in [[D -> W] -> [D -> W]]
  <2> SUFFICES ASSUME NEW g \in [D -> W], NEW n \in D, n # 0 PROVE step[n][g[n - 1]] \in W
    OBVIOUS
  <2>1. n - 1 \in D /\ n \in 1 .. N
    OBVIOUS
  <2> QED
    BY <2>1
<1>2. ASSUME NEW g \in [D -> W], NEW h \in [D -> W], NEW d \in D,
             \A e \in D : mu[e] < mu[d] => g[e] = h[e]
      PROVE  F[g][d] = F[h][d]
  <2>1. d # 0 => d - 1 \in D /\ d - 1 < d
    OBVIOUS
  <2> QED
    BY <1>2, <2>1
<1>3. mu \in [D -> 0 .. N] /\ [D -> W] # {}
  <2>1. [n \in D |-> a] \in [D -> W]
    OBVIOUS
  <2> QED
    BY <2>1
<1>4. \A g, h \in [D -> W] : \A d \in D :
        (\A e \in D : mu[e] < mu[d] => g[e] = h[e]) => F[g][d] = F[h][d]
  BY <1>2
<1>5. PICK g \in [D -> W] : g = F[g]
  <2> HIDE DEF D, F, mu
  <2>1. WellDefined(F, D, W, mu, N)
    BY <1>1, <1>3, <1>4 DEF WellDefined
  <2> QED
    BY <2>1, FixedPoint
<1>6. \A n \in D : g[n] = IF n = 0 THEN a ELSE step[n][g[n - 1]]
  BY <1>5
<1>7. 0 \in D /\ \A n \in 1 .. N : n \in D /\ n # 0
  OBVIOUS
<1>8. Recurs(g, N, a, step)
  BY <1>6, <1>7 DEF Recurs
<1> QED
  BY <1>8

(* Capacity satisfies its own definition.                                      *)
LEMMA CapUnfold ==
  Capacity = [n \in 0 .. MaxBytes |-> IF n = 0 THEN 1 ELSE Base * Capacity[n - 1]]
<1> DEFINE D == 0 .. MaxBytes
           step == [n \in 1 .. MaxBytes |-> [m \in Nat |-> Base * m]]
<1>1. step \in [1 .. MaxBytes -> [Nat -> Nat]] /\ MaxBytes \in Nat /\ 1 \in Nat
  BY VarIntAssumption
<1>2. PICK g \in [D -> Nat] : g[0] = 1 /\ \A n \in 1 .. MaxBytes : g[n] = step[n][g[n - 1]]
  <2> HIDE DEF step
  <2>1. PICK g \in [0 .. MaxBytes -> Nat] : Recurs(g, MaxBytes, 1, step)
    BY <1>1, Recurrence
  <2> QED
    BY <2>1 DEF Recurs
<1>3. g = [n \in D |-> IF n = 0 THEN 1 ELSE Base * g[n - 1]]
  <2>1. \A n \in D : n # 0 => n \in 1 .. MaxBytes /\ g[n - 1] \in Nat
    BY VarIntAssumption
  <2>2. \A n \in D : g[n] = IF n = 0 THEN 1 ELSE Base * g[n - 1]
    BY <1>2, <2>1
  <2> QED
    BY <2>2
<1>4. Capacity = CHOOSE f : f = [m \in D |-> IF m = 0 THEN 1 ELSE Base * f[m - 1]]
  BY DEF Capacity
<1> HIDE DEF D
<1> QED
  BY <1>3, <1>4 DEF D

(* Quotient and remainder.                                                     *)
LEMMA DivMod ==
  ASSUME NEW b \in Nat, b > 1, NEW r \in Nat
  PROVE  /\ r \div b \in Nat
         /\ r % b \in 0 .. b - 1
         /\ r = (r % b) + b * (r \div b)
OBVIOUS

(* Dividing shrinks: the loop of encode ends.                                  *)
LEMMA DivSmaller ==
  ASSUME NEW b \in Nat, b > 1, NEW r \in Nat, r >= b
  PROVE  r \div b < r
<1>1. PICK q \in Nat : q = r \div b
  BY DivMod
<1>2. PICK m \in 0 .. b - 1 : m = r % b
  BY DivMod
<1>3. r = m + b * q
  BY DivMod, <1>1, <1>2
<1>4. b * q >= 2 * q
  BY ONLY b \in Nat, b > 1, q \in Nat
<1>5. CASE q = 0
  BY <1>1, <1>5
<1>6. CASE q # 0
  <2>1. r >= 2 * q
    BY <1>3, <1>4
  <2> QED
    BY ONLY <2>1, q \in Nat, <1>6, <1>1, r \in Nat
<1> QED
  BY <1>5, <1>6

(* A value that n + 1 segments hold leaves one that n hold.                    *)
LEMMA DivLess ==
  ASSUME NEW b \in Nat, b > 1, NEW r \in Nat, NEW c \in Nat, r < b * c
  PROVE  r \div b < c
<1>1. PICK q \in Nat : q = r \div b
  BY DivMod
<1>2. PICK m \in 0 .. b - 1 : m = r % b
  BY DivMod
<1>3. r = m + b * q
  BY DivMod, <1>1, <1>2
<1>4. b * q < b * c
  BY <1>3
<1>5. q < c
  BY ONLY <1>4, b \in Nat, q \in Nat, c \in Nat, b > 1
<1> QED
  BY <1>1, <1>5

(* EncodeRest satisfies its own definition.                                    *)
LEMMA EncUnfold ==
  EncodeRest = [rest \in Unsigned |-> 
        IF rest < Base THEN <<rest>>
        ELSE <<Base + Segment(rest)>> \o EncodeRest[rest \div Base]]
<1> DEFINE D == Unsigned
           W == Seq(Byte)
           F == [g \in [D -> W] |->
                   [rest \in D |->
                      IF rest < Base THEN <<rest>>
                      ELSE <<Base + Segment(rest)>> \o g[rest \div Base]]]
           mu == [n \in D |-> n]
<1>0. ASSUME NEW d \in D, ~(d < Base) PROVE d \div Base \in D /\ d \div Base < d
  <2>1. d \in Nat /\ d < 2 * Half /\ d >= Base /\ Base \in Nat /\ Base > 1
    BY <1>0, VarIntAssumption DEF Unsigned
  <2>2. d \div Base \in Nat /\ d \div Base < d
    BY <2>1, DivSmaller, DivMod
  <2> QED
    BY <2>1, <2>2, VarIntAssumption DEF Unsigned
<1>1. F \in [[D -> W] -> [D -> W]]
  <2> SUFFICES ASSUME NEW g \in [D -> W], NEW rest \in D
      PROVE (IF rest < Base THEN <<rest>> ELSE <<Base + Segment(rest)>> \o g[rest \div Base]) \in W
    OBVIOUS
  <2>1. CASE rest < Base
    BY <2>1, VarIntAssumption DEF Unsigned, Byte
  <2>2. CASE ~(rest < Base)
    <3>1. Base + Segment(rest) \in Byte
      <4>1. rest \in Nat /\ Base \in Nat /\ Base > 1
        BY VarIntAssumption DEF Unsigned
      <4>2. Segment(rest) \in 0 .. Base - 1
        BY <4>1, DivMod DEF Segment
      <4> QED
        BY <4>1, <4>2 DEF Byte
    <3>2. g[rest \div Base] \in W
      BY <1>0, <2>2
    <3> QED
      BY <2>2, <3>1, <3>2
  <2> QED
    BY <2>1, <2>2
<1>2. ASSUME NEW g \in [D -> W], NEW h \in [D -> W], NEW d \in D, 
            \A e \in D : mu[e] < mu[d] => g[e] = h[e]
     PROVE  F[g][d] = F[h][d]
  <2> QED
    BY <1>2, <1>0
<1>3. mu \in [D -> 0 .. 2*Half - 1] /\ [D -> W] # {}
  <2>1. [n \in D |-> << >>] \in [D -> W]
    OBVIOUS
  <2> QED
    BY <2>1 DEF Unsigned
<1>4. \E g \in [D -> W] : g = F[g]
  <2> DEFINE N == 2 * Half - 1
  <2>1. N \in Nat
    BY VarIntAssumption
  <2>2. mu \in [D -> 0 .. N]
    BY <1>3
  <2>3. \A g, h \in [D -> W] : \A d \in D :
          (\A e \in D : mu[e] < mu[d] => g[e] = h[e]) => F[g][d] = F[h][d]
    BY <1>2
  <2> HIDE DEF D, F, mu, N, W
  <2>4. WellDefined(F, D, W, mu, N)
    BY <2>1, <2>2, <2>3, <1>1, <1>3 DEF WellDefined
  <2>5. \E g \in [D -> W] : g = F[g]
    BY <2>4, FixedPoint
  <2> QED
    BY <2>5 DEF W
<1>5. PICK g : g = [rest \in D |->
                      IF rest < Base THEN <<rest>>
                      ELSE <<Base + Segment(rest)>> \o g[rest \div Base]]
  BY <1>4
<1>6. EncodeRest = CHOOSE f :
        f = [rest \in D |->
               IF rest < Base THEN <<rest>>
               ELSE <<Base + Segment(rest)>> \o f[rest \div Base]]
  BY DEF EncodeRest
<1> HIDE DEF D
<1> QED
  BY <1>5, <1>6 DEF D

(* What is assumed of the sizes, in the form the proofs cite.                  *)
LEMMA Sizes ==
  /\ Base \in Nat /\ Base > 1
  /\ MaxBytes \in Nat /\ MaxBytes > 0
  /\ Half \in Nat /\ Half > 0
BY VarIntAssumption

(* A segment fits below the continue bit.                                      *)
LEMMA SegmentType ==
  ASSUME NEW byte \in Nat
  PROVE  Segment(byte) \in 0 .. Base - 1
BY Sizes, DivMod DEF Segment

(* What the loop of decode may hold before the value is cast.                  *)
Results == [result : {"error", "eof", "value"}, value : Nat, used : 0 .. MaxBytes]

(* One round of that loop: what the bytes from the i-th on hold, given f of    *)
(* the bytes behind it.                                                        *)
DecodedAt(bytes, f, i) ==
  IF i > MaxBytes THEN Decoded("error", 0, 0)
  ELSE IF i > Len(bytes) THEN Decoded("eof", 0, 0)
  ELSE IF ~Continues(bytes[i]) THEN Decoded("value", bytes[i], i)
  ELSE [f[i + 1] EXCEPT !.value = Segment(bytes[i]) + Base * @]

(* One round returns a result if the next does.                                *)
LEMMA DecodedAtType ==
  ASSUME NEW bytes \in Seq(Byte), NEW i \in 1 .. MaxBytes + 1, NEW f,
         i <= MaxBytes => f[i + 1] \in Results
  PROVE  DecodedAt(bytes, f, i) \in Results
<1>1. CASE i > MaxBytes
  BY <1>1, Sizes DEF DecodedAt, Decoded, Results
<1>2. CASE i <= MaxBytes /\ i > Len(bytes)
  BY <1>2, Sizes DEF DecodedAt, Decoded, Results
<1>3. CASE i <= MaxBytes /\ i <= Len(bytes)
  <2>1. bytes[i] \in Nat
    BY <1>3, Sizes DEF Byte
  <2>2. CASE ~Continues(bytes[i])
    BY <1>3, <2>1, <2>2, Sizes DEF DecodedAt, Decoded, Results
  <2>3. CASE Continues(bytes[i])
    <3>1. DecodedAt(bytes, f, i) = [f[i + 1] EXCEPT !.value = Segment(bytes[i]) + Base * @]
      BY <1>3, <2>3, Sizes DEF DecodedAt
    <3>2. f[i + 1] \in Results
      BY <1>3
    <3>3. Segment(bytes[i]) + Base * f[i + 1].value \in Nat
      <4>0. Segment(bytes[i]) \in 0 .. Base - 1
        BY <2>1, SegmentType
      <4>1. Segment(bytes[i]) \in Nat
        BY <4>0, Sizes
      <4>2. f[i + 1].value \in Nat
        BY <3>2 DEF Results
      <4> QED
        BY <4>1, <4>2, Sizes
    <3> QED
      BY <3>1, <3>2, <3>3 DEF Results
  <2> QED
    BY <2>2, <2>3
<1> QED
  BY <1>1, <1>2, <1>3, Sizes

(* DecodeFrom satisfies its own definition, and returns a result.              *)
LEMMA DecUnfold ==
  ASSUME NEW bytes \in Seq(Byte)
  PROVE  \A i \in 1 .. MaxBytes + 1 :
           /\ DecodeFrom(bytes)[i] = DecodedAt(bytes, DecodeFrom(bytes), i)
           /\ DecodeFrom(bytes)[i] \in Results
<1> DEFINE D == 1 .. MaxBytes + 1
           F == [g \in [D -> Results] |-> [i \in D |-> DecodedAt(bytes, g, i)]]
           mu == [i \in D |-> MaxBytes + 1 - i]
<1>1. F \in [[D -> Results] -> [D -> Results]]
  BY DecodedAtType, Sizes
<1>2. \A g, h \in [D -> Results] : \A d \in D :
        (\A e \in D : mu[e] < mu[d] => g[e] = h[e]) => F[g][d] = F[h][d]
  <2> SUFFICES ASSUME NEW g \in [D -> Results], NEW h \in [D -> Results], NEW d \in D,
                      \A e \in D : mu[e] < mu[d] => g[e] = h[e]
               PROVE  DecodedAt(bytes, g, d) = DecodedAt(bytes, h, d)
    OBVIOUS
  <2>1. ~ (d > MaxBytes) => g[d + 1] = h[d + 1]
    BY Sizes
  <2> QED
    BY <2>1 DEF DecodedAt
<1>3. mu \in [D -> 0 .. MaxBytes] /\ [D -> Results] # {}
  <2>1. Decoded("eof", 0, 0) \in Results
    BY Sizes DEF Decoded, Results
  <2>2. [i \in D |-> Decoded("eof", 0, 0)] \in [D -> Results]
    BY <2>1
  <2>3. \A i \in D : mu[i] \in 0 .. MaxBytes
    BY Sizes
  <2> QED
    BY <2>2, <2>3
<1>4. WellDefined(F, D, Results, mu, MaxBytes)
  <2> HIDE DEF D, F, mu
  <2> QED
    BY <1>1, <1>2, <1>3, Sizes DEF WellDefined
<1>5. PICK g \in [D -> Results] : g = F[g]
  <2> HIDE DEF D, F, mu
  <2> QED
    BY <1>4, FixedPoint
<1>6. g = [i \in D |-> DecodedAt(bytes, g, i)]
  BY <1>5
<1>7. DecodeFrom(bytes) = CHOOSE f : f = [i \in D |-> DecodedAt(bytes, f, i)]
  BY DEF DecodeFrom, DecodedAt
<1>8. DecodeFrom(bytes) = [i \in D |-> DecodedAt(bytes, DecodeFrom(bytes), i)]
  <2> HIDE DEF D
  <2> QED
    BY <1>6, <1>7
<1>9. \A i \in D : DecodeFrom(bytes)[i] = DecodedAt(bytes, DecodeFrom(bytes), i)
  <2> HIDE DEF D
  <2> QED
    BY <1>8
<1> DEFINE S == {i \in D : DecodeFrom(bytes)[i] \in Results}
<1>10. \A i \in D : (i <= MaxBytes => i + 1 \in S) => i \in S
  BY <1>9, DecodedAtType
<1>11. D \subseteq S
  <2> HIDE DEF S
  <2> QED
    BY <1>10, Backwards, Sizes
<1> QED
  BY <1>9, <1>11

(* Where decoding stops: a value ends within the bytes there are and within    *)
(* the allowed ones; the bytes are only too few when there are less than       *)
(* allowed.                                                                    *)
LEMMA Shape ==
  ASSUME NEW bytes \in Seq(Byte)
  PROVE  \A i \in 1 .. MaxBytes + 1 :
           LET d == DecodeFrom(bytes)[i] IN
             /\ d.result = "value" => d.used \in i .. MaxBytes /\ d.used <= Len(bytes)
             /\ d.result = "eof" => Len(bytes) < MaxBytes
<1> DEFINE D == 1 .. MaxBytes + 1
           Shaped(i) ==
             LET d == DecodeFrom(bytes)[i] IN
               /\ d.result = "value" => d.used \in i .. MaxBytes /\ d.used <= Len(bytes)
               /\ d.result = "eof" => Len(bytes) < MaxBytes
           S == {i \in D : Shaped(i)}
<1>1. ASSUME NEW i \in D, i <= MaxBytes => Shaped(i + 1) PROVE Shaped(i)
  <2>1. DecodeFrom(bytes)[i] = DecodedAt(bytes, DecodeFrom(bytes), i)
    BY DecUnfold
  <2>2. CASE i > MaxBytes
    BY <2>1, <2>2 DEF DecodedAt, Decoded
  <2>3. CASE i <= MaxBytes /\ i > Len(bytes)
    BY <2>1, <2>3, Sizes DEF DecodedAt, Decoded
  <2>4. CASE i <= MaxBytes /\ i <= Len(bytes) /\ ~Continues(bytes[i])
    BY <2>1, <2>4, Sizes DEF DecodedAt, Decoded
  <2>5. CASE i <= MaxBytes /\ i <= Len(bytes) /\ Continues(bytes[i])
    <3>1. DecodeFrom(bytes)[i + 1] \in Results
      BY <2>5, DecUnfold, Sizes
    <3>2. DecodeFrom(bytes)[i] =
            [DecodeFrom(bytes)[i + 1] EXCEPT
               !.value = Segment(bytes[i]) + Base * DecodeFrom(bytes)[i + 1].value]
      BY <2>1, <2>5, Sizes DEF DecodedAt
    <3>3. /\ DecodeFrom(bytes)[i].result = DecodeFrom(bytes)[i + 1].result
          /\ DecodeFrom(bytes)[i].used = DecodeFrom(bytes)[i + 1].used
      BY <3>1, <3>2 DEF Results
    <3> QED
      BY <3>3, <1>1, <2>5, Sizes
  <2> QED
    BY <2>2, <2>3, <2>4, <2>5, Sizes
<1> HIDE DEF Shaped
<1>2. \A i \in D : (i <= MaxBytes => i + 1 \in S) => i \in S
  BY <1>1, Sizes
<1>3. D \subseteq S
  <2> HIDE DEF S
  <2> QED
    BY <1>2, Backwards, Sizes
<1> QED
  BY <1>3 DEF Shaped

(* Bytes that come later do not change what has been decoded.                  *)
LEMMA Longer ==
  ASSUME NEW bytes \in Seq(Byte), NEW more \in Seq(Byte)
  PROVE  \A i \in 1 .. MaxBytes + 1 :
           DecodeFrom(bytes)[i].result # "eof" => DecodeFrom(bytes \o more)[i] = DecodeFrom(bytes)[i]
<1> DEFINE D == 1 .. MaxBytes + 1
           Same(i) ==
             DecodeFrom(bytes)[i].result # "eof" => DecodeFrom(bytes \o more)[i] = DecodeFrom(bytes)[i]
           S == {i \in D : Same(i)}
<1>1. ASSUME NEW i \in D, i <= MaxBytes => Same(i + 1) PROVE Same(i)
  <2>0. bytes \o more \in Seq(Byte) /\ Len(bytes \o more) = Len(bytes) + Len(more)
    OBVIOUS
  <2>1. /\ DecodeFrom(bytes)[i] = DecodedAt(bytes, DecodeFrom(bytes), i)
        /\ DecodeFrom(bytes \o more)[i] = DecodedAt(bytes \o more, DecodeFrom(bytes \o more), i)
    BY DecUnfold, <2>0
  <2>2. CASE i > MaxBytes
    BY <2>1, <2>2 DEF DecodedAt
  <2>3. CASE i <= MaxBytes /\ i > Len(bytes)
    BY <2>1, <2>3, Sizes DEF DecodedAt, Decoded
  <2>4. CASE i <= MaxBytes /\ i <= Len(bytes)
    <3>1. (bytes \o more)[i] = bytes[i] /\ i <= Len(bytes \o more)
      BY <2>4, Sizes
    <3>2. CASE ~Continues(bytes[i])
      BY <2>1, <2>4, <3>1, <3>2, Sizes DEF DecodedAt
    <3>3. CASE Continues(bytes[i])
      <4>1. DecodeFrom(bytes)[i + 1] \in Results
        BY <2>4, DecUnfold, Sizes
      <4>2. DecodeFrom(bytes)[i] =
              [DecodeFrom(bytes)[i + 1] EXCEPT
                 !.value = Segment(bytes[i]) + Base * DecodeFrom(bytes)[i + 1].value]
        BY <2>1, <2>4, <3>3, Sizes DEF DecodedAt
      <4>3. DecodeFrom(bytes \o more)[i] =
              [DecodeFrom(bytes \o more)[i + 1] EXCEPT
                 !.value = Segment(bytes[i]) + Base * DecodeFrom(bytes \o more)[i + 1].value]
        BY <2>1, <2>4, <3>1, <3>3, Sizes DEF DecodedAt
      <4>4. DecodeFrom(bytes)[i].result = DecodeFrom(bytes)[i + 1].result
        BY <4>1, <4>2 DEF Results
      <4> QED
        BY <4>2, <4>3, <4>4, <1>1, <2>4
    <3> QED
      BY <3>2, <3>3
  <2> QED
    BY <2>2, <2>3, <2>4, Sizes
<1> HIDE DEF Same
<1>2. \A i \in D : (i <= MaxBytes => i + 1 \in S) => i \in S
  BY <1>1, Sizes
<1>3. D \subseteq S
  <2> HIDE DEF S
  <2> QED
    BY <1>2, Backwards, Sizes
<1> QED
  BY <1>3 DEF Same

(* What EncodeRest is, argument by argument.                                   *)
LEMMA EncodeRestIs ==
  \A r \in Unsigned :
    EncodeRest[r] = IF r < Base THEN <<r>>
                    ELSE <<Base + Segment(r)>> \o EncodeRest[r \div Base]
BY EncUnfold

(* The next round of encode: a smaller value, and nothing of this one is lost. *)
LEMMA Smaller ==
  ASSUME NEW r \in Unsigned, ~ (r < Base)
  PROVE  /\ r \div Base \in Unsigned /\ r \div Base < r
         /\ r = Segment(r) + Base * (r \div Base)
         /\ Segment(r) \in 0 .. Base - 1
<1>1. r \in Nat /\ r < 2 * Half /\ r >= Base
  BY Sizes DEF Unsigned
<1>2. r \div Base \in Nat /\ r \div Base < r
  BY <1>1, DivSmaller, DivMod, Sizes
<1>3. r = (r % Base) + Base * (r \div Base)
  BY <1>1, DivMod, Sizes
<1> QED
  BY <1>1, <1>2, <1>3, Sizes, SegmentType DEF Unsigned, Segment

(* Sequences of one element.                                                   *)
LEMMA One ==
  ASSUME NEW T, NEW x \in T
  PROVE  /\ <<x>> \in Seq(T) /\ <<x>> # << >>
         /\ Len(<<x>>) = 1 /\ <<x>>[1] = x
<1>1. <<x>> \in Seq(T) /\ Len(<<x>>) = 1 /\ <<x>>[1] = x
  OBVIOUS
<1> QED
  BY <1>1, EmptySeq

(* An element in front of a sequence.                                          *)
LEMMA Prepend ==
  ASSUME NEW T, NEW x \in T, NEW s \in Seq(T)
  PROVE  /\ <<x>> \o s \in Seq(T) /\ <<x>> \o s # << >>
         /\ Len(<<x>> \o s) = 1 + Len(s)
         /\ (<<x>> \o s)[1] = x
         /\ \A j \in 1 .. Len(s) : (<<x>> \o s)[j + 1] = s[j]
<1>1. <<x>> \in Seq(T) /\ Len(<<x>>) = 1 /\ <<x>>[1] = x
  BY One
<1>2. /\ <<x>> \o s \in Seq(T) /\ Len(<<x>> \o s) = 1 + Len(s)
      /\ \A i \in 1 .. 1 + Len(s) :
           (<<x>> \o s)[i] = IF i <= 1 THEN <<x>>[i] ELSE s[i - 1]
  BY <1>1, ConcatProperties
<1>3. Len(s) \in Nat
  OBVIOUS
<1>4. <<x>> \o s # << >>
  BY <1>2, <1>3, EmptySeq
<1> QED
  BY <1>1, <1>2, <1>3, <1>4

(* Induction along the loop of encode.                                         *)
LEMMA EncodeInduct ==
  ASSUME NEW S, \A r \in Unsigned : (~ (r < Base) => r \div Base \in S) => r \in S
  PROVE  Unsigned \subseteq S
<1>1. ASSUME NEW r \in 0 .. 2 * Half - 1, \A m \in 0 .. r - 1 : m \in S PROVE r \in S
  <2>1. ASSUME ~ (r < Base) PROVE r \div Base \in 0 .. r - 1
    <3>1. r \in Unsigned
      BY DEF Unsigned
    <3>2. r \div Base \in Unsigned /\ r \div Base < r
      BY <2>1, <3>1, Smaller
    <3> QED
      BY <3>1, <3>2, Sizes DEF Unsigned
  <2> QED
    BY <1>1, <2>1 DEF Unsigned
<1>2. 2 * Half - 1 \in Nat
  BY Sizes
<1> QED
  BY <1>1, <1>2, Forwards DEF Unsigned

(* encode writes bytes, at least one.                                          *)
LEMMA EncodeType ==
  \A r \in Unsigned : EncodeRest[r] \in Seq(Byte) /\ EncodeRest[r] # << >>
<1> DEFINE S == {r \in Unsigned : EncodeRest[r] \in Seq(Byte) /\ EncodeRest[r] # << >>}
<1>1. ASSUME NEW r \in Unsigned, ~ (r < Base) => r \div Base \in S PROVE r \in S
  <2>1. CASE r < Base
    <3>1. r \in Byte
      BY <2>1, Sizes DEF Byte, Unsigned
    <3>2. EncodeRest[r] = <<r>>
      BY <2>1, EncodeRestIs
    <3> QED
      BY <3>1, <3>2, One
  <2>2. CASE ~ (r < Base)
    <3>1. EncodeRest[r] = <<Base + Segment(r)>> \o EncodeRest[r \div Base]
      BY <2>2, EncodeRestIs
    <3>2. Segment(r) \in 0 .. Base - 1
      BY <2>2, Smaller
    <3>3. Base + Segment(r) \in Byte
      BY <3>2, Sizes DEF Byte
    <3>4. EncodeRest[r \div Base] \in Seq(Byte)
      BY <1>1, <2>2
    <3>5. EncodeRest[r] \in Seq(Byte) /\ EncodeRest[r] # << >>
      BY <3>1, <3>3, <3>4, Prepend
    <3> QED
      BY <3>5
  <2> QED
    BY <2>1, <2>2
<1>2. Unsigned \subseteq S
  <2> HIDE DEF S
  <2> QED
    BY <1>1, EncodeInduct
<1> QED
  BY <1>2

(* Capacity by its equations.                                                  *)
LEMMA CapacityIs ==
  /\ Capacity[0] = 1
  /\ \A n \in 1 .. MaxBytes : Capacity[n] = Base * Capacity[n - 1]
  /\ \A n \in 0 .. MaxBytes : Capacity[n] \in Nat
<1>1. /\ Capacity[0] = 1
      /\ \A n \in 1 .. MaxBytes : Capacity[n] = Base * Capacity[n - 1]
  <2> DEFINE C == Capacity
  <2>1. C = [n \in 0 .. MaxBytes |-> IF n = 0 THEN 1 ELSE Base * C[n - 1]]
    BY CapUnfold
  <2> HIDE DEF C
  <2>2. \A n \in 0 .. MaxBytes : C[n] = IF n = 0 THEN 1 ELSE Base * C[n - 1]
    BY <2>1
  <2>3. C[0] = 1 /\ \A n \in 1 .. MaxBytes : C[n] = Base * C[n - 1]
    BY <2>2, Sizes
  <2> QED
    BY <2>3 DEF C
<1>2. ASSUME NEW n \in 0 .. MaxBytes, \A m \in 0 .. n - 1 : Capacity[m] \in Nat
      PROVE  Capacity[n] \in Nat
  <2>1. CASE n = 0
    BY <2>1, <1>1
  <2>2. CASE n # 0
    <3>1. Capacity[n] = Base * Capacity[n - 1] /\ Capacity[n - 1] \in Nat
      BY <2>2, <1>1, <1>2, Sizes
    <3> QED
      BY <3>1, Sizes
  <2> QED
    BY <2>1, <2>2
<1> DEFINE S == {n \in 0 .. MaxBytes : Capacity[n] \in Nat}
<1>3. \A n \in 0 .. MaxBytes : (\A m \in 0 .. n - 1 : m \in S) => n \in S
  BY <1>2
<1>4. 0 .. MaxBytes \subseteq S
  <2> HIDE DEF S
  <2> QED
    BY <1>3, Forwards, Sizes
<1> QED
  BY <1>1, <1>4

(* encode never writes more bytes than a VarInt may have: this is where the    *)
(* assumption that the segments hold every value is needed.                    *)
LEMMA EncodeLength ==
  \A r \in Unsigned : Len(EncodeRest[r]) \in 1 .. MaxBytes
<1> DEFINE Short(n) == \A r \in Unsigned : r < Capacity[n] => Len(EncodeRest[r]) <= n
           S == {n \in 0 .. MaxBytes : n > 0 => Short(n)}
<1>1. ASSUME NEW n \in 0 .. MaxBytes, \A m \in 0 .. n - 1 : m \in S, n > 0 PROVE Short(n)
  <2> SUFFICES ASSUME NEW r \in Unsigned, r < Capacity[n] PROVE Len(EncodeRest[r]) <= n
    OBVIOUS
  <2>1. CASE r < Base
    <3>1. EncodeRest[r] = <<r>>
      BY <2>1, EncodeRestIs
    <3> QED
      BY <3>1, <1>1, One, Sizes
  <2>2. CASE ~ (r < Base)
    <3>1. n # 1
      <4>1. 1 \in 1 .. MaxBytes
        BY Sizes
      <4>2. Capacity[1] = Base
        BY <4>1, CapacityIs, Sizes
      <4> QED
        BY <4>2, <2>2
    <3>2. Capacity[n] = Base * Capacity[n - 1] /\ Capacity[n - 1] \in Nat
      BY <1>1, CapacityIs, Sizes
    <3>3. r \in Nat
      BY Sizes DEF Unsigned
    <3>4. r \div Base < Capacity[n - 1]
      BY <3>2, <3>3, DivLess, Sizes
    <3>5. r \div Base \in Unsigned
      BY <2>2, Smaller
    <3>6. Len(EncodeRest[r \div Base]) <= n - 1
      BY <3>1, <3>4, <3>5, <1>1, Sizes
    <3>7. EncodeRest[r] = <<Base + Segment(r)>> \o EncodeRest[r \div Base]
      BY <2>2, EncodeRestIs
    <3>8. Len(EncodeRest[r]) = 1 + Len(EncodeRest[r \div Base])
      BY <3>5, <3>7, EncodeType
    <3> QED
      BY <3>5, <3>6, <3>8, EncodeType, Sizes
  <2> QED
    BY <2>1, <2>2
<1> HIDE DEF Short
<1>2. \A n \in 0 .. MaxBytes : (\A m \in 0 .. n - 1 : m \in S) => n \in S
  BY <1>1
<1>3. 0 .. MaxBytes \subseteq S
  <2> HIDE DEF S
  <2> QED
    BY <1>2, Forwards, Sizes
<1>4. Short(MaxBytes)
  BY <1>3, Sizes
<1>5. \A r \in Unsigned : r < Capacity[MaxBytes]
  <2>1. Capacity[MaxBytes] \in Nat
    BY CapacityIs, Sizes
  <2> QED
    BY <2>1, VarIntAssumption DEF Unsigned
<1> QED
  BY <1>4, <1>5, EncodeType, Sizes DEF Short

(* Wherever the bytes of an encoded value stand in a sequence and the limit    *)
(* allows it, decoding from there finds that value and stops behind its last   *)
(* byte.                                                                       *)
LEMMA DecodeEncoded ==
  ASSUME NEW bytes \in Seq(Byte)
  PROVE  \A r \in Unsigned : \A i \in 1 .. MaxBytes :
           LET n == Len(EncodeRest[r]) IN
           /\ i + n - 1 <= MaxBytes /\ i + n - 1 <= Len(bytes)
           /\ \A j \in 1 .. n : bytes[i + j - 1] = EncodeRest[r][j]
           => DecodeFrom(bytes)[i] = Decoded("value", r, i + n - 1)
<1> DEFINE There(r, i) ==
             /\ i + Len(EncodeRest[r]) - 1 <= MaxBytes
             /\ i + Len(EncodeRest[r]) - 1 <= Len(bytes)
             /\ \A j \in 1 .. Len(EncodeRest[r]) : bytes[i + j - 1] = EncodeRest[r][j]
           Reads(r, i) ==
             There(r, i) => DecodeFrom(bytes)[i] = Decoded("value", r, i + Len(EncodeRest[r]) - 1)
           S == {r \in Unsigned : \A i \in 1 .. MaxBytes : Reads(r, i)}
<1>1. ASSUME NEW r \in Unsigned, ~ (r < Base) => r \div Base \in S PROVE r \in S
  <2> SUFFICES ASSUME NEW i \in 1 .. MaxBytes, There(r, i)
               PROVE  DecodeFrom(bytes)[i] = Decoded("value", r, i + Len(EncodeRest[r]) - 1)
    OBVIOUS
  <2>1. Len(EncodeRest[r]) \in 1 .. MaxBytes
    BY EncodeLength
  <2>2. DecodeFrom(bytes)[i] = DecodedAt(bytes, DecodeFrom(bytes), i)
    BY DecUnfold, Sizes
  <2>3. bytes[i] = EncodeRest[r][1] /\ i <= Len(bytes) /\ ~ (i > MaxBytes) /\ ~ (i > Len(bytes))
    <3>1. 1 \in 1 .. Len(EncodeRest[r]) /\ i + 1 - 1 = i
      BY <2>1, Sizes
    <3>2. bytes[i] = EncodeRest[r][1]
      BY <3>1
    <3>3. i + Len(EncodeRest[r]) - 1 <= Len(bytes) /\ Len(bytes) \in Nat
      OBVIOUS
    <3>4. i <= Len(bytes)
      BY <2>1, <3>3, Sizes
    <3> QED
      BY <3>2, <3>3, <3>4, Sizes
  <2>4. CASE r < Base
    <3>1. EncodeRest[r] = <<r>>
      BY <2>4, EncodeRestIs
    <3>2. bytes[i] = r /\ i + Len(EncodeRest[r]) - 1 = i
      BY <3>1, <2>3, One
    <3>3. ~ Continues(bytes[i])
      BY <3>2, <2>4, Sizes DEF Continues, Unsigned
    <3> QED
      BY <2>2, <2>3, <3>2, <3>3 DEF DecodedAt
  <2>5. CASE ~ (r < Base)
    <3> DEFINE q == r \div Base
               m == Segment(r)
               n == Len(EncodeRest[q])
    <3>1. q \in Unsigned /\ m \in 0 .. Base - 1 /\ r = m + Base * q
      BY <2>5, Smaller
    <3>2. EncodeRest[r] = <<Base + m>> \o EncodeRest[q]
      BY <2>5, EncodeRestIs
    <3>3. n \in 1 .. MaxBytes /\ EncodeRest[q] \in Seq(Byte)
      BY <3>1, EncodeLength, EncodeType
    <3>4. Base + m \in Byte
      BY <3>1, Sizes DEF Byte
    <3> HIDE DEF q, m
    <3>5. /\ Len(EncodeRest[r]) = 1 + n
          /\ EncodeRest[r][1] = Base + m
          /\ \A j \in 1 .. n : EncodeRest[r][j + 1] = EncodeRest[q][j]
      BY <3>2, <3>3, <3>4, Prepend
    <3>6. i + Len(EncodeRest[r]) - 1 = (i + 1) + n - 1
      <4>1. n \in Int /\ i \in Int
        BY <3>3, Sizes
      <4>2. Len(EncodeRest[r]) = 1 + n
        BY <3>5
      <4> HIDE DEF n
      <4> QED
        BY ONLY <4>1, <4>2
    <3>7. i + 1 \in 1 .. MaxBytes
      BY <3>3, <3>5, Sizes
    <3>8. There(q, i + 1)
      <4>1. ASSUME NEW j \in 1 .. n PROVE bytes[(i + 1) + j - 1] = EncodeRest[q][j]
        <5>1. j + 1 \in 1 .. Len(EncodeRest[r])
          BY <3>3, <3>5
        <5>2. bytes[i + (j + 1) - 1] = EncodeRest[r][j + 1]
          BY <5>1
        <5>3. i + (j + 1) - 1 = (i + 1) + j - 1
          OBVIOUS
        <5> QED
          BY <5>2, <5>3, <3>5
      <4>2. Len(bytes) \in Nat
        OBVIOUS
      <4>3. i + Len(EncodeRest[r]) - 1 = (i + 1) + n - 1
        BY <3>6
      <4>4. (i + 1) + n - 1 <= MaxBytes /\ (i + 1) + n - 1 <= Len(bytes)
        BY <4>3
      <4> QED
        BY <4>1, <4>4
    <3>9. DecodeFrom(bytes)[i + 1] = Decoded("value", q, (i + 1) + n - 1)
      BY <3>7, <3>8, <1>1, <2>5 DEF q
    <3>10. Continues(bytes[i]) /\ Segment(bytes[i]) = m
      <4>1. bytes[i] = Base + m
        BY <2>3, <3>5
      <4>2. (Base + m) % Base = m
        BY <3>1, Sizes
      <4> QED
        BY <4>1, <4>2, <3>1, Sizes DEF Continues, Segment
    <3>11. DecodeFrom(bytes)[i] =
             [DecodeFrom(bytes)[i + 1] EXCEPT
                !.value = Segment(bytes[i]) + Base * DecodeFrom(bytes)[i + 1].value]
      BY <2>2, <2>3, <3>10 DEF DecodedAt
    <3>12. DecodeFrom(bytes)[i] = Decoded("value", m + Base * q, (i + 1) + n - 1)
      BY <3>9, <3>10, <3>11 DEF Decoded
    <3> QED
      BY <3>1, <3>12, <3>6
  <2> QED
    BY <2>4, <2>5
<1>2. Unsigned \subseteq S
  <2> HIDE DEF S
  <2> QED
    BY <1>1, EncodeInduct
<1> QED
  BY <1>2

(* What % returns around 0.                                                    *)
LEMMA Modulo ==
  ASSUME NEW m \in Nat, m > 0, NEW v \in Int
  PROVE  /\ v \in 0 .. m - 1 => v % m = v
         /\ v \in -m .. -1 => v % m = v + m
         /\ v % m \in 0 .. m - 1
OBVIOUS

(* `as u32` and `as i32` invert each other.                                    *)
LEMMA Casts ==
  /\ \A v \in Int : AsUnsigned(v) \in Unsigned
  /\ \A v \in Unsigned : AsUnsigned(v) = v /\ AsSigned(v) \in Signed
  /\ \A v \in Signed : AsSigned(AsUnsigned(v)) = v
<1> DEFINE m == 2 * Half
<1>1. m \in Nat /\ m > 0
  BY Sizes
<1>2. ASSUME NEW v \in Int PROVE AsUnsigned(v) \in Unsigned
  <2> HIDE DEF m
  <2>1. v % m \in 0 .. m - 1
    BY <1>1, Modulo
  <2> QED
    BY <2>1 DEF AsUnsigned, Unsigned, m
<1>3. ASSUME NEW v \in Unsigned PROVE AsUnsigned(v) = v /\ AsSigned(v) \in Signed
  <2>1. v \in 0 .. m - 1 /\ v \in Int
    BY Sizes DEF Unsigned
  <2>2. v % m = v
    <3> HIDE DEF m
    <3> QED
      BY <1>1, <2>1, Modulo
  <2> QED
    BY <2>1, <2>2, Sizes DEF AsUnsigned, AsSigned, Signed
<1>4. ASSUME NEW v \in Signed PROVE AsSigned(AsUnsigned(v)) = v
  <2>1. v \in Int /\ -Half <= v /\ v < Half
    BY Sizes DEF Signed
  <2>2. CASE v >= 0
    <3>1. v \in 0 .. m - 1
      BY <2>1, <2>2, Sizes
    <3>2. v % m = v
      <4> HIDE DEF m
      <4> QED
        BY <1>1, <2>1, <3>1, Modulo
    <3> QED
      BY <2>1, <3>2, Sizes DEF AsUnsigned, AsSigned
  <2>3. CASE v < 0
    <3>1. v \in -m .. -1
      BY <2>1, <2>3, Sizes
    <3>2. v % m = v + m
      <4> HIDE DEF m
      <4> QED
        BY <1>1, <2>1, <3>1, Modulo
    <3> QED
      BY <2>1, <2>3, <3>2, Sizes DEF AsUnsigned, AsSigned
  <2> QED
    BY <2>1, <2>2, <2>3
<1> QED
  BY <1>2, <1>3, <1>4

(* decode casts what the loop returns.                                         *)
LEMMA DecodeIs ==
  ASSUME NEW bytes \in Seq(Byte)
  PROVE  LET d == DecodeFrom(bytes)[1] IN
         /\ decode(bytes) = Decoded(d.result, AsSigned(AsUnsigned(d.value)), d.used)
         /\ d \in Results
<1>1. DecodeFrom(bytes)[1] \in Results
  BY DecUnfold, Sizes
<1> QED
  BY <1>1 DEF decode, Decoded, Results

(* decode returns an i32 whatever the bytes are, consumes only bytes that are  *)
(* there, at most MaxBytes, and asks for more only while it could need them:   *)
(* VarInt::decode, varint.rs:36-67.                                            *)
THEOREM DecodeShape ==
  ASSUME NEW bytes \in Seq(Byte)
  PROVE  /\ decode(bytes) \in
              [result : {"error", "eof", "value"}, value : Signed, used : 0 .. MaxBytes]
         /\ decode(bytes).result = "value" =>
              decode(bytes).used \in 1 .. MaxBytes /\ decode(bytes).used <= Len(bytes)
         /\ decode(bytes).result = "eof" => Len(bytes) < MaxBytes
<1> DEFINE d == DecodeFrom(bytes)[1]
<1>1. d \in Results /\ decode(bytes) = Decoded(d.result, AsSigned(AsUnsigned(d.value)), d.used)
  BY DecodeIs
<1>2. /\ d.result = "value" => d.used \in 1 .. MaxBytes /\ d.used <= Len(bytes)
      /\ d.result = "eof" => Len(bytes) < MaxBytes
  BY Shape, Sizes
<1> HIDE DEF d
<1>3. d.value \in Int
  BY <1>1 DEF Results
<1>4. AsSigned(AsUnsigned(d.value)) \in Signed
  BY <1>3, Casts
<1> QED
  BY <1>1, <1>2, <1>4 DEF Results, Decoded

(* Once decode has an answer, a value or an error, the bytes that arrive       *)
(* behind do not change it: try_parse_packet may look at a partly filled       *)
(* buffer.                                                                     *)
THEOREM DecodePrefix ==
  ASSUME NEW bytes \in Seq(Byte), NEW more \in Seq(Byte), decode(bytes).result # "eof"
  PROVE  decode(bytes \o more) = decode(bytes)
<1>1. DecodeFrom(bytes)[1].result # "eof"
  BY DecodeIs DEF Decoded
<1>2. DecodeFrom(bytes \o more)[1] = DecodeFrom(bytes)[1]
  BY <1>1, Longer, Sizes
<1> QED
  BY <1>2 DEF decode

(* encode of any i32 writes at least one byte and at most MaxBytes.            *)
LEMMA EncodeIs ==
  ASSUME NEW v \in Signed
  PROVE  encode(v) \in Seq(Byte) /\ Len(encode(v)) \in 1 .. MaxBytes
<1>1. AsUnsigned(v) \in Unsigned
  BY Casts, Sizes DEF Signed
<1> QED
  BY <1>1, EncodeType, EncodeLength DEF encode

(* Every i32, negative ones included, is decoded as itself from its encoding,  *)
(* whatever follows, and the decoder consumes exactly what the encoder wrote:  *)
(* varint.rs:19-67.                                                            *)
THEOREM DecodeInvertsEncode ==
  ASSUME NEW v \in Signed, NEW more \in Seq(Byte)
  PROVE  decode(encode(v) \o more) = Decoded("value", v, Len(encode(v)))
<1> DEFINE r == AsUnsigned(v)
           n == Len(EncodeRest[r])
           bytes == EncodeRest[r] \o more
<1>1. r \in Unsigned /\ AsSigned(AsUnsigned(r)) = v
  <2>1. v \in Int
    BY Sizes DEF Signed
  <2>2. r \in Unsigned
    BY <2>1, Casts
  <2>3. AsUnsigned(r) = r
    BY <2>2, Casts
  <2> QED
    BY <2>2, <2>3, Casts
<1>2. EncodeRest[r] \in Seq(Byte) /\ n \in 1 .. MaxBytes
  BY <1>1, EncodeType, EncodeLength
<1>3. bytes \in Seq(Byte) /\ Len(bytes) >= n
  BY <1>2
<1>4. \A j \in 1 .. n : bytes[1 + j - 1] = EncodeRest[r][j]
  BY <1>2
<1>5. DecodeFrom(bytes)[1] = Decoded("value", r, n)
  <2> HIDE DEF r, bytes
  <2>1. 1 + n - 1 = n
    BY <1>2, Sizes
  <2> QED
    BY <1>1, <1>2, <1>3, <1>4, <2>1, DecodeEncoded, Sizes
<1>6. decode(bytes) = Decoded("value", v, n)
  <2> HIDE DEF r, bytes
  <2> QED
    BY <1>1, <1>5 DEF decode, Decoded
<1> QED
  BY <1>6 DEF encode

(* A VarInt cut anywhere short of its end is an unexpected end of file: never  *)
(* a value, never an error (varint.rs:49-51, which read_buf and                *)
(* try_parse_packet take for "read more").                                     *)
THEOREM CutVarIntIsEof ==
  ASSUME NEW v \in Signed, NEW n \in 0 .. Len(encode(v)) - 1
  PROVE  decode(SubSeq(encode(v), 1, n)).result = "eof"
<1> DEFINE cut == SubSeq(encode(v), 1, n)
           rest == SubSeq(encode(v), n + 1, Len(encode(v)))
<1>1. encode(v) \in Seq(Byte) /\ Len(encode(v)) \in Nat
  BY EncodeIs
<1>2. cut \in Seq(Byte) /\ rest \in Seq(Byte) /\ encode(v) = cut \o rest /\ Len(cut) = n
  BY <1>1
<1>3. decode(encode(v)) = Decoded("value", v, Len(encode(v)))
  <2>1. << >> \in Seq(Byte) /\ encode(v) \o << >> = encode(v)
    BY <1>1
  <2> QED
    BY <2>1, DecodeInvertsEncode
<1> SUFFICES ASSUME decode(cut).result # "eof" PROVE FALSE
  OBVIOUS
<1>4. decode(encode(v)) = decode(cut)
  <2> HIDE DEF cut, rest
  <2> QED
    BY <1>2, DecodePrefix
<1>5. decode(cut).result = "value" /\ decode(cut).used = Len(encode(v))
  BY <1>3, <1>4 DEF Decoded
<1>6. decode(cut).used <= n
  BY <1>2, <1>5, DecodeShape
<1> QED
  BY <1>1, <1>5, <1>6
==============================================================================
