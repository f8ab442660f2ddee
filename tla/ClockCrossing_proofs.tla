----------------------- MODULE ClockCrossing_proofs -----------------------
(***************************************************************************)
(* ClockCrossing for a FIFO of any power of two, whether or not a counter  *)
(* may be caught in the middle of a change: Gray codes, of which what is   *)
(* caught is the code before or after; then the counters, which stay       *)
(* within a depth of each other; then the queue of bytes.                  *)
(***************************************************************************)
EXTENDS ClockCrossing, SequenceTheorems, WellFoundedInduction, TLAPS

(* Induction over the naturals, for a set instead of a predicate.          *)
LEMMA Induction ==
  ASSUME NEW S, 0 \in S, \A n \in Nat : n \in S => n + 1 \in S
  PROVE  \A n \in Nat : n \in S
  <1> DEFINE R == OpToRel(<, Nat)
             T == Nat \ S
  <1>1. IsWellFoundedOn(R, Nat)
    BY NatLessThanWellFounded
  <1>2. \A x, y \in Nat : x < y => <<x,y>> \in R
    BY DEF OpToRel
  <1>3. SUFFICES ASSUME T # {} PROVE FALSE
    BY DEF T
  <1> HIDE DEF R
  <1>4. T \subseteq Nat
    BY DEF T
  <1>5. PICK x \in T : \A y \in T : ~ (<<y, x>> \in R)
    <2> HIDE DEF T
    <2> QED BY <1>1, <1>3, <1>4, WFMin
  <1>6. x \in Nat /\ x # 0 /\ x - 1 \in Nat /\ x - 1 < x
    BY <1>5 DEF T
  <1>7. x - 1 \notin T
    BY <1>2, <1>5, <1>6
  <1>8. x - 1 \in S
    BY <1>6, <1>7 DEF T
  <1>9. (x - 1) + 1 \in S
    BY <1>6, <1>8
  <1>10. (x - 1) + 1 = x
    BY <1>6
  <1>11. QED
    BY <1>5, <1>9, <1>10 DEF T

(* The equation that defines Weight has a solution. *)
Weighs(g, k) ==
  \A i \in 0 .. k : g[i] = (IF i = 0 THEN 1 ELSE 2 * g[i - 1])

LEMMA WeightsUnique ==
  ASSUME NEW g, NEW h, NEW k \in Nat, NEW m \in Nat, Weighs(g, k), Weighs(h, m)
  PROVE  \A i \in Nat : i <= k /\ i <= m => g[i] = h[i]
  <1> DEFINE S == {i \in Nat : i <= k /\ i <= m => g[i] = h[i]}
  <1>1. 0 \in S
    BY DEF Weighs
  <1>2. ASSUME NEW n \in Nat, n \in S PROVE n + 1 \in S
    <2>1. CASE n + 1 <= k /\ n + 1 <= m
      <3>1. g[n] = h[n] /\ (n + 1) - 1 = n
        BY <1>2, <2>1
      <3>2. g[n + 1] = 2 * g[n] /\ h[n + 1] = 2 * h[n]
        BY <2>1, <3>1 DEF Weighs
      <3>3. QED
        BY <3>1, <3>2
    <2>2. QED
      BY <2>1
  <1> HIDE DEF S
  <1>3. \A n \in Nat : n \in S
    BY <1>1, <1>2, Induction
  <1>4. QED
    BY <1>3 DEF S

LEMMA WeightsExist ==
  ASSUME NEW k \in Nat
  PROVE  \E g : Weighs(g, k) /\ \A i \in 0 .. k : g[i] \in Nat \ {0}
  <1> DEFINE S == {n \in Nat : \E g : Weighs(g, n) /\ \A i \in 0 .. n : g[i] \in Nat \ {0}}
  <1>1. 0 \in S
    <2> DEFINE g == [i \in {0} |-> 1]
    <2>1. Weighs(g, 0) /\ \A i \in 0 .. 0 : g[i] \in Nat \ {0}
      BY DEF Weighs
    <2>2. QED
      BY <2>1
  <1>2. ASSUME NEW n \in Nat, n \in S PROVE n + 1 \in S
    <2>1. PICK g : Weighs(g, n) /\ \A i \in 0 .. n : g[i] \in Nat \ {0}
      BY <1>2
    <2> DEFINE h == [i \in 0 .. n + 1 |-> IF i = n + 1 THEN 2 * g[n] ELSE g[i]]
    <2>2. \A i \in 0 .. n : h[i] = g[i] /\ h[i] \in Nat \ {0}
      BY <2>1
    <2>3. h[n + 1] = 2 * h[n] /\ h[n + 1] \in Nat \ {0}
      BY <2>1
    <2> HIDE DEF h
    <2>4. Weighs(h, n + 1)
      <3>1. SUFFICES ASSUME NEW i \in 0 .. n + 1
                     PROVE  h[i] = (IF i = 0 THEN 1 ELSE 2 * h[i - 1])
        BY DEF Weighs
      <3>2. CASE i = n + 1
        BY <2>3, <3>2
      <3>3. CASE i # n + 1
        BY <2>1, <2>2, <3>3 DEF Weighs
      <3>4. QED
        BY <3>2, <3>3
    <2>5. \A i \in 0 .. n + 1 : h[i] \in Nat \ {0}
      BY <2>2, <2>3
    <2>6. QED
      BY <2>4, <2>5
  <1> HIDE DEF S
  <1>3. k \in S
    BY <1>1, <1>2, Induction
  <1>4. QED
    BY <1>3 DEF S

LEMMA WeightDef ==
  ASSUME NEW i \in Nat
  PROVE  Weight[i] = (IF i = 0 THEN 1 ELSE 2 * Weight[i - 1])
  <1> DEFINE G(k) == CHOOSE g : Weighs(g, k) /\ \A j \in 0 .. k : g[j] \in Nat \ {0}
             f == [j \in Nat |-> G(j)[j]]
             D(F) == [j \in Nat |-> IF j = 0 THEN 1 ELSE 2 * F[j - 1]]
  <1>1. ASSUME NEW j \in Nat
        PROVE  Weighs(G(j), j)
    BY WeightsExist
  <1> HIDE DEF G
  <1>2. ASSUME NEW j \in Nat
        PROVE  f[j] = (IF j = 0 THEN 1 ELSE 2 * f[j - 1])
    <2>1. CASE j = 0
      BY <1>1, <2>1 DEF Weighs
    <2>2. CASE j # 0
      <3>1. j - 1 \in Nat /\ j - 1 <= j /\ j - 1 <= j - 1
        BY <2>2
      <3>2. G(j - 1)[j - 1] = G(j)[j - 1]
        BY <1>1, <3>1, WeightsUnique
      <3>3. G(j)[j] = 2 * G(j)[j - 1]
        BY <1>1, <2>2 DEF Weighs
      <3>4. QED
        BY <2>2, <3>1, <3>2, <3>3
    <2>3. QED
      BY <2>1, <2>2
  <1>3. f = D(f)
    BY <1>2
  <1> HIDE DEF f
  <1>4. \E F : F = D(F)
    BY <1>3
  <1>5. Weight = D(Weight)
    BY <1>4 DEF Weight
  <1>6. QED
    BY <1>5

-----------------------------------------------------------------------------
(* Division and remainder.                                                 *)

LEMMA DivMod ==
  ASSUME NEW n \in Nat, NEW a \in Nat \ {0}
  PROVE  /\ n \div a \in Nat /\ n % a \in Nat /\ n % a < a
         /\ n = a * (n \div a) + (n % a)
  OBVIOUS

LEMMA DivUnique ==
  ASSUME NEW n \in Nat, NEW a \in Nat \ {0}, NEW q \in Nat, NEW k \in Nat,
         k < a, n = a * q + k
  PROVE  n \div a = q /\ n % a = k
  <1> DEFINE d == n \div a
             m == n % a
  <1>1. d \in Nat /\ m \in Nat /\ m < a /\ n = a * d + m
    BY DivMod
  <1> HIDE DEF d, m
  <1>2. a * (q - d) = m - k
    BY <1>1
  <1>3. \A x \in Int : (x >= 1 => a * x >= a) /\ (x <= -1 => a * x <= - a)
    OBVIOUS
  <1>4. q - d \in Int /\ - a < m - k /\ m - k < a
    BY <1>1
  <1>5. ~ (q - d >= 1) /\ ~ (q - d <= -1)
    BY <1>2, <1>3, <1>4
  <1>6. d = q
    BY <1>1, <1>5
  <1>7. m = k
    BY <1>1, <1>6
  <1>8. QED
    BY <1>6, <1>7 DEF d, m

LEMMA Halves ==
  ASSUME NEW n \in Nat, NEW a \in Nat \ {0}
  PROVE  (n \div a) \div 2 = n \div (2 * a)
  <1> DEFINE q == n \div a
  <1>1. q \in Nat /\ n % a \in Nat /\ n % a < a /\ n = a * q + (n % a)
    BY DivMod
  <1> HIDE DEF q
  <1>2. q \div 2 \in Nat /\ q % 2 \in 0 .. 1 /\ q = 2 * (q \div 2) + (q % 2)
    BY <1>1
  <1> DEFINE h == q \div 2
             k == a * (q % 2) + (n % a)
  <1>3. k \in Nat /\ k < 2 * a
    BY <1>1, <1>2
  <1>4. n = a * (2 * h + (q % 2)) + (n % a)
    BY <1>1, <1>2
  <1>5. n = (2 * a) * h + k
    BY <1>1, <1>2, <1>4
  <1> HIDE DEF h, k
  <1>6. n \div (2 * a) = h
    BY <1>2, <1>3, <1>5, DivUnique DEF h
  <1>7. QED
    BY <1>6 DEF h, q

-----------------------------------------------------------------------------
(* What the bits of a counter count.                                       *)

LEMMA WeightType ==
  /\ \A i \in Nat : Weight[i] \in Nat \ {0}
  /\ Weight[0] = 1
  /\ \A i \in Nat : Weight[i + 1] = 2 * Weight[i]
  <1> DEFINE S == {i \in Nat : Weight[i] \in Nat \ {0}}
  <1>1. Weight[0] = 1
    BY WeightDef
  <1>2. ASSUME NEW i \in Nat PROVE Weight[i + 1] = 2 * Weight[i]
    BY WeightDef
  <1>3. 0 \in S
    BY <1>1
  <1>4. \A i \in Nat : i \in S => i + 1 \in S
    BY <1>2
  <1> HIDE DEF S
  <1>5. \A i \in Nat : i \in S
    BY <1>3, <1>4, Induction
  <1>6. QED
    BY <1>1, <1>2, <1>5 DEF S

LEMMA DepthType ==
  /\ depth \in Nat \ {0}
  /\ DepthBits \in Nat \ {0} /\ DepthBits - 1 \in Bits /\ DepthBits \in Bits
  /\ Weight[DepthBits + 1] = 2 * depth
  /\ \A i \in Bits : i \in Nat /\ i + 1 \in Nat
  BY WeightType, ClockCrossingAssumption DEF depth, Bits

LEMMA WeightsMultiply ==
  ASSUME NEW i \in Nat, NEW k \in Nat, i <= k
  PROVE  Weight[k] = Weight[i] * Weight[k - i]
  <1> DEFINE S == {j \in Nat : j <= k => Weight[k] = Weight[j] * Weight[k - j]}
  <1>1. 0 \in S
    BY WeightType
  <1>2. ASSUME NEW j \in Nat, j \in S PROVE j + 1 \in S
    <2>1. SUFFICES ASSUME j + 1 <= k
                   PROVE  Weight[k] = Weight[j + 1] * Weight[k - (j + 1)]
      BY DEF S
    <2>2. /\ Weight[j + 1] = 2 * Weight[j]
          /\ Weight[(k - (j + 1)) + 1] = 2 * Weight[k - (j + 1)]
          /\ (k - (j + 1)) + 1 = k - j
          /\ Weight[j] \in Nat /\ Weight[k - (j + 1)] \in Nat
      BY <2>1, WeightType
    <2>3. Weight[k] = Weight[j] * Weight[k - j]
      BY <1>2, <2>1
    <2>4. QED
      BY <2>2, <2>3
  <1> HIDE DEF S
  <1>3. i \in S
    BY <1>1, <1>2, Induction
  <1>4. QED
    BY <1>3 DEF S

(* The bits of n from bit i upward. *)
Part(n, i) == n \div Weight[i]

LEMMA PartHalves ==
  ASSUME NEW n \in Nat, NEW i \in Nat
  PROVE  /\ Part(n, i) \in Nat
         /\ Part(n, i) = 2 * Part(n, i + 1) + (Part(n, i) % 2)
         /\ Part(n, 0) = n
  <1>1. Part(n, i) \in Nat
    BY WeightType, DivMod DEF Part
  <1>2. Part(n, 0) = n
    <2>1. n = 1 * n + 0
      OBVIOUS
    <2>2. n \div 1 = n
      BY <2>1, DivUnique
    <2>3. QED
      BY <2>2, WeightType DEF Part
  <1>3. Part(n, i + 1) = Part(n, i) \div 2
    BY WeightType, Halves DEF Part
  <1>4. QED
    BY <1>1, <1>2, <1>3

LEMMA CounterPart ==
  ASSUME NEW n \in Counter
  PROVE  n \in Nat /\ n < 2 * depth /\ Part(n, DepthBits + 1) = 0
  <1>1. n \in Nat /\ n < 2 * depth
    BY DepthType DEF Counter
  <1>2. n \div (2 * depth) = 0
    BY <1>1, DepthType, DivUnique
  <1>3. QED
    BY <1>1, <1>2, DepthType DEF Part

LEMMA EncodeBits ==
  ASSUME NEW n \in Counter
  PROVE  /\ Encode(n) \in Code
         /\ \A i \in Bits :
              Encode(n)[i] = (Part(n, i) + Part(n, i + 1)) % 2
  <1>1. n \in Nat /\ Part(n, DepthBits + 1) = 0
    BY CounterPart
  <1>2. ASSUME NEW i \in Bits
        PROVE  Encode(n)[i] = (Part(n, i) + Part(n, i + 1)) % 2
    <2>1. i \in Nat /\ i + 1 \in Nat
      BY DepthType
    <2>2. Part(n, i) \in Nat /\ Part(n, i + 1) \in Nat
      BY <1>1, <2>1, PartHalves
    <2>3. CASE i = DepthBits
      BY <1>1, <2>2, <2>3 DEF Encode, Bit, Part
    <2>4. CASE i # DepthBits
      <3>1. Encode(n)[i] = ((Part(n, i) % 2) + (Part(n, i + 1) % 2)) % 2
        BY <2>4 DEF Encode, Bit, Part
      <3>2. QED
        BY <2>2, <3>1
    <2>5. QED
      BY <2>3, <2>4
  <1>3. \A i \in Bits : Part(n, i) \in Nat /\ Part(n, i + 1) \in Nat
    BY <1>1, DepthType, PartHalves
  <1>4. Encode(n) \in Code
    <2>1. \A i \in Bits : Encode(n)[i] \in {0, 1}
      BY <1>2, <1>3
    <2>2. Encode(n) = [i \in Bits |-> Encode(n)[i]]
      BY DEF Encode
    <2>3. QED
      BY <2>1, <2>2 DEF Code
  <1>5. QED
    BY <1>2, <1>4

LEMMA EncodeInjective ==
  ASSUME NEW m \in Counter, NEW n \in Counter,
         \A i \in Bits : Encode(m)[i] = Encode(n)[i]
  PROVE  m = n
  <1> DEFINE S == {k \in Nat : k <= DepthBits + 1 =>
                     Part(m, DepthBits + 1 - k) = Part(n, DepthBits + 1 - k)}
  <1>1. m \in Nat /\ n \in Nat /\ DepthBits \in Nat
    BY CounterPart, DepthType
  <1>2. 0 \in S
    BY <1>1, CounterPart
  <1>3. ASSUME NEW k \in Nat, k \in S PROVE k + 1 \in S
    <2>1. SUFFICES ASSUME k + 1 <= DepthBits + 1
                   PROVE  Part(m, DepthBits - k) = Part(n, DepthBits - k)
      BY <1>1
    <2> DEFINE i == DepthBits - k
    <2>2. i \in Bits /\ i \in Nat /\ i + 1 = DepthBits + 1 - k
      BY <1>1, <2>1 DEF Bits
    <2>3. Part(m, i + 1) = Part(n, i + 1)
      <3>1. k <= DepthBits + 1
        BY <1>1, <2>1
      <3>2. Part(m, DepthBits + 1 - k) = Part(n, DepthBits + 1 - k)
        BY <1>3, <3>1
      <3>3. QED
        BY <2>2, <3>2
    <2> HIDE DEF i
    <2>4. (Part(m, i) + Part(m, i + 1)) % 2 = (Part(n, i) + Part(n, i + 1)) % 2
      BY <2>2, EncodeBits
    <2>5. /\ Part(m, i) \in Nat /\ Part(n, i) \in Nat /\ Part(n, i + 1) \in Nat
          /\ Part(m, i) = 2 * Part(m, i + 1) + (Part(m, i) % 2)
          /\ Part(n, i) = 2 * Part(n, i + 1) + (Part(n, i) % 2)
      BY <1>1, <2>2, PartHalves
    <2>6. \A x, y, z \in Nat : (x + z) % 2 = (y + z) % 2 => x % 2 = y % 2
      OBVIOUS
    <2>7. Part(m, i) % 2 = Part(n, i) % 2
      BY <2>3, <2>4, <2>5, <2>6
    <2>8. Part(m, i) = Part(n, i)
      BY <2>3, <2>5, <2>7
    <2>9. QED
      BY <2>8 DEF i
  <1> HIDE DEF S
  <1>4. DepthBits + 1 \in S
    BY <1>1, <1>2, <1>3, Induction
  <1>5. Part(m, 0) = Part(n, 0)
    BY <1>1, <1>4 DEF S
  <1>6. QED
    BY <1>1, <1>5, PartHalves

-----------------------------------------------------------------------------
LEMMA PartStep ==
  ASSUME NEW n \in Nat, NEW i \in Nat
  PROVE  Part(n + 1, i) \in {Part(n, i), Part(n, i) + 1}
  <1> DEFINE a == Weight[i]
             q == n \div a
             k == n % a
  <1>1. a \in Nat \ {0}
    BY WeightType
  <1>2. q \in Nat /\ k \in Nat /\ k < a /\ n = a * q + k
    BY <1>1, DivMod
  <1>3. Part(n, i) = q
    BY DEF Part
  <1>4. Part(n + 1, i) = (n + 1) \div a
    BY DEF Part
  <1> HIDE DEF a, q, k
  <1>5. CASE k + 1 < a
    <2>1. n + 1 = a * q + (k + 1)
      BY <1>1, <1>2
    <2>2. (n + 1) \div a = q
      BY <1>1, <1>2, <1>5, <2>1, DivUnique
    <2>3. QED
      BY <1>3, <1>4, <2>2
  <1>6. CASE k + 1 = a
    <2>1. n + 1 = a * (q + 1) + 0
      BY <1>1, <1>2, <1>6
    <2>2. (n + 1) \div a = q + 1
      BY <1>1, <1>2, <2>1, DivUnique
    <2>3. QED
      BY <1>3, <1>4, <2>2
  <1>7. QED
    BY <1>1, <1>2, <1>5, <1>6

(* n + 1 carries out of the bits below bit i.                              *)
Carries(n, i) == Part(n + 1, i) = Part(n, i) + 1

LEMMA CarriesDown ==
  ASSUME NEW n \in Nat, NEW i \in Nat, NEW j \in Nat, i <= j, Carries(n, j)
  PROVE  Carries(n, i)
  <1> DEFINE S == {k \in Nat : k <= j => Carries(n, j - k)}
  <1>1. 0 \in S
    OBVIOUS
  <1>2. ASSUME NEW k \in Nat, k \in S PROVE k + 1 \in S
    <2>1. SUFFICES ASSUME k + 1 <= j PROVE Carries(n, j - (k + 1))
      OBVIOUS
    <2> DEFINE h == j - (k + 1)
    <2>2. h \in Nat /\ h + 1 = j - k
      BY <2>1
    <2>3. Carries(n, h + 1)
      BY <1>2, <2>1, <2>2
    <2> HIDE DEF h
    <2>4. /\ Part(n, h) \in Nat /\ Part(n + 1, h) \in Nat
          /\ Part(n, h + 1) \in Nat /\ Part(n + 1, h + 1) \in Nat
          /\ Part(n, h) = 2 * Part(n, h + 1) + (Part(n, h) % 2)
          /\ Part(n + 1, h) = 2 * Part(n + 1, h + 1) + (Part(n + 1, h) % 2)
      <3>1. n + 1 \in Nat /\ h + 1 \in Nat
        BY <2>2
      <3>2. QED
        BY <2>2, <3>1, PartHalves
    <2>5. Part(n + 1, h) \in {Part(n, h), Part(n, h) + 1}
      BY <2>2, PartStep
    <2>6. Carries(n, h)
      BY <2>3, <2>4, <2>5 DEF Carries
    <2>7. QED
      BY <2>6 DEF h
  <1> HIDE DEF S
  <1>3. j - i \in S
    BY <1>1, <1>2, Induction
  <1>4. j - i \in Nat /\ j - i <= j /\ j - (j - i) = i
    OBVIOUS
  <1>5. QED
    BY <1>3, <1>4 DEF S

LEMMA CodeChange ==
  ASSUME NEW n \in Counter, n + 1 \in Counter, NEW i \in Bits,
         Encode(n)[i] # Encode(n + 1)[i]
  PROVE  Carries(n, i) /\ ~ Carries(n, i + 1)
  <1>1. n \in Nat /\ i \in Nat /\ i + 1 \in Nat
    BY CounterPart, DepthType
  <1>2. (Part(n, i) + Part(n, i + 1)) % 2 # (Part(n + 1, i) + Part(n + 1, i + 1)) % 2
    BY EncodeBits
  <1>3. /\ Part(n + 1, i) \in {Part(n, i), Part(n, i) + 1}
        /\ Part(n + 1, i + 1) \in {Part(n, i + 1), Part(n, i + 1) + 1}
        /\ Part(n, i) \in Nat /\ Part(n, i + 1) \in Nat
    BY <1>1, PartStep, PartHalves
  <1>4. Carries(n, i + 1) => Carries(n, i)
    BY <1>1, CarriesDown
  <1>5. ~ (Carries(n, i) /\ Carries(n, i + 1))
    <2>1. \A x, y \in Nat : ((x + 1) + (y + 1)) % 2 = (x + y) % 2
      OBVIOUS
    <2>2. QED
      BY <1>2, <1>3, <2>1 DEF Carries
  <1>6. Carries(n, i) \/ Carries(n, i + 1)
    BY <1>2, <1>3 DEF Carries
  <1>7. QED
    BY <1>4, <1>5, <1>6

(* The code of the largest counter has one bit set, that of 0 none. *)
LEMMA CodeWrap ==
  ASSUME NEW i \in Bits, Encode(2 * depth - 1)[i] # Encode(0)[i]
  PROVE  i = DepthBits
  <1>1. 0 \in Counter /\ 2 * depth - 1 \in Counter
    BY DepthType DEF Counter
  <1>2. SUFFICES ASSUME i # DepthBits PROVE FALSE
    OBVIOUS
  <1>3. i \in Nat /\ i + 1 \in Nat /\ i + 1 <= DepthBits /\ DepthBits \in Nat
    BY <1>2, DepthType DEF Bits
  <1>4. ASSUME NEW j \in Nat, j <= DepthBits
        PROVE  /\ Part(2 * depth - 1, j) \in Nat
               /\ Part(2 * depth - 1, j) % 2 = 1
               /\ Part(0, j) = 0
    <2> DEFINE a == Weight[j]
               b == Weight[DepthBits + 1 - j]
               c == Weight[DepthBits - j]
    <2>1. /\ DepthBits + 1 \in Nat /\ j <= DepthBits + 1
          /\ DepthBits - j \in Nat /\ (DepthBits - j) + 1 = DepthBits + 1 - j
      BY <1>3, <1>4
    <2>2. /\ a \in Nat \ {0} /\ b \in Nat \ {0} /\ c \in Nat \ {0}
          /\ b = 2 * c
      BY <2>1, WeightType
    <2>3. 2 * depth = a * b
      BY <2>1, WeightsMultiply, DepthType
    <2>4. Part(2 * depth - 1, j) = (2 * depth - 1) \div a /\ Part(0, j) = 0 \div a
      BY DEF Part
    <2> HIDE DEF a, b, c
    <2>5. 2 * depth - 1 = a * (b - 1) + (a - 1)
      BY <2>2, <2>3, DepthType
    <2>6. /\ 2 * depth - 1 \in Nat /\ b - 1 \in Nat /\ a - 1 \in Nat /\ a - 1 < a
      BY <2>2, DepthType
    <2>7. (2 * depth - 1) \div a = b - 1
      BY <2>2, <2>5, <2>6, DivUnique
    <2>8. 0 \div a = 0
      <3>1. 0 = a * 0 + 0 /\ 0 < a
        BY <2>2
      <3>2. QED
        BY <2>2, <3>1, DivUnique
    <2>9. (2 * c - 1) % 2 = 1
      BY <2>2
    <2>10. QED
      BY <2>2, <2>4, <2>6, <2>7, <2>8, <2>9
  <1>5. /\ Encode(2 * depth - 1)[i]
             = (Part(2 * depth - 1, i) + Part(2 * depth - 1, i + 1)) % 2
        /\ Encode(0)[i] = (Part(0, i) + Part(0, i + 1)) % 2
    BY <1>1, EncodeBits
  <1>6. \A x, y \in Nat : x % 2 = 1 /\ y % 2 = 1 => (x + y) % 2 = 0
    OBVIOUS
  <1>7. i <= DepthBits
    BY <1>3
  <1>8. /\ Part(2 * depth - 1, i) \in Nat /\ Part(2 * depth - 1, i) % 2 = 1
        /\ Part(2 * depth - 1, i + 1) \in Nat
        /\ Part(2 * depth - 1, i + 1) % 2 = 1
        /\ Part(0, i) = 0 /\ Part(0, i + 1) = 0
    BY <1>3, <1>4, <1>7
  <1>9. QED
    BY <1>2, <1>5, <1>6, <1>8

-----------------------------------------------------------------------------
(* Counters wrap at 2 * depth, addresses at depth.                         *)

LEMMA Wraps ==
  ASSUME NEW n \in Nat, n < 4 * depth
  PROVE  n % (2 * depth) = (IF n < 2 * depth THEN n ELSE n - 2 * depth)
  <1> DEFINE m == 2 * depth
  <1>1. m \in Nat \ {0} /\ n < m + m
    BY DepthType
  <1> HIDE DEF m
  <1>2. CASE n < m
    <2>1. n = m * 0 + n
      BY <1>1
    <2>2. n % m = n
      BY <1>1, <1>2, <2>1, DivUnique
    <2>3. QED
      BY <1>2, <2>2 DEF m
  <1>3. CASE ~ (n < m)
    <2>1. n - m \in Nat /\ n - m < m /\ n = m * 1 + (n - m)
      BY <1>1, <1>3
    <2>2. n % m = n - m
      BY <1>1, <2>1, DivUnique
    <2>3. QED
      BY <1>3, <2>2 DEF m
  <1>4. QED
    BY <1>2, <1>3

LEMMA WrapsDown ==
  ASSUME NEW n \in Int, - 2 * depth <= n, n < 2 * depth
  PROVE  n % (2 * depth) = (IF 0 <= n THEN n ELSE n + 2 * depth)
  <1> DEFINE m == 2 * depth
  <1>1. m \in Nat \ {0} /\ - m <= n /\ n < m
    BY DepthType
  <1> HIDE DEF m
  <1>2. n % m = (IF 0 <= n THEN n ELSE n + m)
    BY <1>1
  <1>3. QED
    BY <1>2 DEF m

LEMMA Addresses ==
  ASSUME NEW n \in Nat, n < 3 * depth
  PROVE  n % depth = (IF n < depth THEN n
                      ELSE IF n < 2 * depth THEN n - depth ELSE n - 2 * depth)
  <1>1. depth \in Nat \ {0}
    BY DepthType
  <1>2. CASE n < depth
    BY <1>1, <1>2
  <1>3. CASE depth <= n /\ n < 2 * depth
    <2>1. n - depth \in Nat /\ n - depth < depth /\ n = depth * 1 + (n - depth)
      BY <1>1, <1>3
    <2>2. n % depth = n - depth
      BY <1>1, <2>1, DivUnique
    <2>3. QED
      BY <1>1, <1>3, <2>2
  <1>4. CASE 2 * depth <= n
    <2>1. /\ n - 2 * depth \in Nat /\ n - 2 * depth < depth
          /\ n = depth * 2 + (n - 2 * depth)
      BY <1>1, <1>4
    <2>2. n % depth = n - 2 * depth
      BY <1>1, <2>1, DivUnique
    <2>3. QED
      BY <1>1, <1>4, <2>2
  <1>5. QED
    BY <1>1, <1>2, <1>3, <1>4

(* The counter after n.                                                    *)
Following(n) == IF n = 2 * depth - 1 THEN 0 ELSE n + 1

LEMMA IncWraps ==
  ASSUME NEW n \in Counter, NEW done \in BOOLEAN
  PROVE  /\ Following(n) \in Counter
         /\ Inc(n, done) = IF done THEN Following(n) ELSE n
  <1>1. n \in Nat /\ n < 2 * depth /\ depth \in Nat \ {0} /\ n \in Int
    BY CounterPart, DepthType
  <1>2. Following(n) \in Counter
    BY <1>1 DEF Following, Counter
  <1>3. CASE done
    <2>1. Inc(n, done) = (n + 1) % (2 * depth)
      BY <1>3 DEF Inc
    <2>2. n + 1 \in Nat /\ n + 1 < 4 * depth
      BY <1>1
    <2>3. (n + 1) % (2 * depth)
            = (IF n + 1 < 2 * depth THEN n + 1 ELSE (n + 1) - 2 * depth)
      BY <2>2, Wraps
    <2>4. Following(n) = (IF n + 1 < 2 * depth THEN n + 1 ELSE (n + 1) - 2 * depth)
      BY <1>1 DEF Following
    <2>5. QED
      BY <1>2, <1>3, <2>1, <2>3, <2>4
  <1>4. CASE ~ done
    <2>1. Inc(n, done) = (n + 0) % (2 * depth)
      BY <1>4 DEF Inc
    <2>2. n + 0 = n /\ n % (2 * depth) = n
      BY <1>1, Wraps
    <2>3. QED
      BY <1>2, <1>4, <2>1, <2>2
  <1>5. QED
    BY <1>3, <1>4

(* The codes of a counter and of the next one differ in one bit at most.   *)
LEMMA Adjacent ==
  ASSUME NEW n \in Counter, NEW i \in Bits, NEW j \in Bits,
         Encode(n)[i] # Encode(Following(n))[i], Encode(n)[j] # Encode(Following(n))[j]
  PROVE  i = j
  <1>1. n \in Nat /\ i \in Nat /\ j \in Nat /\ i + 1 \in Nat /\ j + 1 \in Nat
    BY CounterPart, DepthType
  <1>2. CASE n = 2 * depth - 1
    BY <1>2, CodeWrap DEF Following
  <1>3. CASE n # 2 * depth - 1
    <2>1. n + 1 \in Counter /\ Following(n) = n + 1
      BY <1>3, IncWraps DEF Following
    <2>2. /\ Carries(n, i) /\ ~ Carries(n, i + 1)
          /\ Carries(n, j) /\ ~ Carries(n, j + 1)
      BY <2>1, CodeChange
    <2>3. ~ (i + 1 <= j)
      BY <1>1, <2>2, CarriesDown
    <2>4. ~ (j + 1 <= i)
      BY <1>1, <2>2, CarriesDown
    <2>5. QED
      BY <1>1, <2>3, <2>4
  <1>4. QED
    BY <1>2, <1>3

(* So what is caught of a code that counts is the code before or after.    *)
LEMMA CatchesEither ==
  ASSUME NEW n \in Counter, NEW done \in BOOLEAN,
         NEW code \in Caught(Encode(n), Encode(Inc(n, done)))
  PROVE  code = Encode(n) \/ code = Encode(Inc(n, done))
  <1>1. CASE ~ Skewed
    BY <1>1 DEF Caught
  <1>2. CASE Skewed /\ ~ done
    <2>1. code \in Code /\ \A i \in Bits : code[i] = Encode(n)[i]
      BY <1>2, IncWraps DEF Caught
    <2>2. Encode(n) \in Code
      BY EncodeBits
    <2>3. QED
      BY <2>1, <2>2 DEF Code
  <1>3. CASE Skewed /\ done
    <2> DEFINE new == Encode(Following(n))
    <2>1. /\ code \in Code
          /\ \A i \in Bits : code[i] = Encode(n)[i] \/ code[i] = new[i]
      BY <1>3, IncWraps DEF Caught
    <2>2. Encode(n) \in Code /\ new \in Code
      BY IncWraps, EncodeBits
    <2>3. \A i, j \in Bits : Encode(n)[i] # new[i] /\ Encode(n)[j] # new[j] => i = j
      BY Adjacent
    <2>4. Inc(n, done) = Following(n)
      BY <1>3, IncWraps
    <2> HIDE DEF new
    <2>5. CASE \A i \in Bits : code[i] = Encode(n)[i]
      BY <2>1, <2>2, <2>5 DEF Code
    <2>6. CASE \E i \in Bits : code[i] # Encode(n)[i]
      <3>1. \A i \in Bits : code[i] = new[i]
        BY <2>1, <2>3, <2>6
      <3>2. code = new
        BY <2>1, <2>2, <3>1 DEF Code
      <3>3. QED
        BY <2>4, <3>2 DEF new
    <2>7. QED
      BY <2>5, <2>6
  <1>4. QED
    BY <1>1, <1>2, <1>3

LEMMA DecodeEncode ==
  ASSUME NEW n \in Counter
  PROVE  Decode(Encode(n)) = n
  BY EncodeInjective DEF Decode

(* The codes of two counters a depth apart differ in the two top bits.     *)
LEMMA TopBits ==
  ASSUME NEW n \in Nat, n < depth, NEW i \in Bits
  PROVE  (Encode(n)[i] # Encode(n + depth)[i]) <=> i \in {DepthBits, DepthBits - 1}
  <1>1. /\ n \in Counter /\ n + depth \in Counter /\ n + depth \in Nat
        /\ i \in Nat /\ i + 1 \in Nat /\ i <= DepthBits /\ DepthBits \in Nat \ {0}
    BY DepthType DEF Counter, Bits
  <1>2. ASSUME NEW j \in Nat, j <= DepthBits
        PROVE  /\ Part(n, j) \in Nat /\ Weight[DepthBits - j] \in Nat
               /\ Part(n + depth, j) = Part(n, j) + Weight[DepthBits - j]
    <2> DEFINE a == Weight[j]
               c == Weight[DepthBits - j]
               q == n \div a
               k == n % a
    <2>1. a \in Nat \ {0} /\ c \in Nat \ {0}
      BY <1>1, <1>2, WeightType
    <2>2. depth = a * c
      BY <1>1, <1>2, WeightsMultiply DEF depth
    <2>3. Part(n + depth, j) = (n + depth) \div a /\ Part(n, j) = q
      BY DEF Part
    <2>4. q \in Nat /\ k \in Nat /\ k < a /\ n = a * q + k
      BY <2>1, DivMod
    <2> HIDE DEF a, c, q, k
    <2>5. n + depth = a * (q + c) + k
      BY <2>1, <2>2, <2>4
    <2>6. (n + depth) \div a = q + c
      BY <1>1, <2>1, <2>4, <2>5, DivUnique
    <2>7. QED
      BY <2>1, <2>3, <2>4, <2>6 DEF c
  <1>3. /\ Encode(n)[i] = (Part(n, i) + Part(n, i + 1)) % 2
        /\ Encode(n + depth)[i] = (Part(n + depth, i) + Part(n + depth, i + 1)) % 2
    BY <1>1, EncodeBits
  <1>4. /\ Part(n, i) \in Nat /\ Weight[DepthBits - i] \in Nat
        /\ Part(n + depth, i) = Part(n, i) + Weight[DepthBits - i]
    BY <1>1, <1>2
  <1>5. \A x, y, z \in Nat : ((x + 2 * z) + (y + z)) % 2 = (x + y + z) % 2
    OBVIOUS
  <1>6. \A x \in Nat : (x + 1) % 2 # x % 2
    OBVIOUS
  <1>7. CASE i = DepthBits
    <2>1. Part(n, i + 1) = 0 /\ Part(n + depth, i + 1) = 0
      BY <1>1, <1>7, CounterPart
    <2>2. Weight[DepthBits - i] = 1
      BY <1>1, <1>7, WeightType
    <2>3. QED
      BY <1>3, <1>4, <1>6, <1>7, <2>1, <2>2
  <1>8. CASE i # DepthBits
    <2> DEFINE h == DepthBits - (i + 1)
    <2>1. i + 1 <= DepthBits /\ h \in Nat /\ h + 1 = DepthBits - i
      BY <1>1, <1>8
    <2>2. /\ Part(n, i + 1) \in Nat /\ Weight[h] \in Nat
          /\ Part(n + depth, i + 1) = Part(n, i + 1) + Weight[h]
      BY <1>1, <1>2, <2>1
    <2>3. Weight[DepthBits - i] = 2 * Weight[h]
      BY <2>1, WeightType
    <2>4. i = DepthBits - 1 <=> h = 0
      BY <1>1
    <2> HIDE DEF h
    <2>5. Encode(n + depth)[i] = (Part(n, i) + Part(n, i + 1) + Weight[h]) % 2
      BY <1>3, <1>4, <1>5, <2>2, <2>3
    <2>6. CASE h = 0
      <3>1. Weight[h] = 1 /\ Part(n, i) + Part(n, i + 1) \in Nat
        BY <1>4, <2>2, <2>6, WeightType
      <3>2. QED
        BY <1>3, <1>6, <2>4, <2>5, <2>6, <3>1
    <2>7. CASE h # 0
      <3>1. h - 1 \in Nat /\ (h - 1) + 1 = h
        BY <2>1, <2>7
      <3>2. Weight[h] = 2 * Weight[h - 1] /\ Weight[h - 1] \in Nat
        BY <3>1, WeightType
      <3>3. \A x, z \in Nat : (x + 2 * z) % 2 = x % 2
        OBVIOUS
      <3>4. Part(n, i) + Part(n, i + 1) \in Nat
        BY <1>4, <2>2
      <3>5. Encode(n + depth)[i] = Encode(n)[i]
        BY <1>3, <2>5, <3>2, <3>3, <3>4
      <3>6. QED
        BY <1>8, <2>4, <2>7, <3>5
    <2>8. QED
      BY <2>6, <2>7
  <1>9. QED
    BY <1>7, <1>8

(* How far m is behind n.                                                  *)
Distance(m, n) == IF m <= n THEN n - m ELSE n - m + 2 * depth

LEMMA Opposite ==
  ASSUME NEW m \in Counter, NEW n \in Counter, Distance(m, n) = depth, NEW i \in Bits
  PROVE  (Encode(n)[i] # Encode(m)[i]) <=> i \in {DepthBits, DepthBits - 1}
  <1>1. /\ m \in Nat /\ n \in Nat /\ m < 2 * depth /\ n < 2 * depth
        /\ depth \in Nat \ {0}
    BY CounterPart, DepthType
  <1>2. CASE m <= n
    <2>1. m < depth /\ n = m + depth
      BY <1>1, <1>2 DEF Distance
    <2>2. QED
      BY <1>1, <2>1, TopBits
  <1>3. CASE ~ (m <= n)
    <2>1. n < depth /\ m = n + depth
      BY <1>1, <1>3 DEF Distance
    <2>2. QED
      BY <1>1, <2>1, TopBits
  <1>4. QED
    BY <1>2, <1>3
-----------------------------------------------------------------------------
(* Counters and how far they are apart.                                    *)

LEMMA DistanceType ==
  ASSUME NEW m \in Counter, NEW n \in Counter
  PROVE  /\ Distance(m, n) \in Nat /\ Distance(m, n) < 2 * depth
         /\ Distance(m, n) = 0 <=> m = n
  BY CounterPart, DepthType DEF Distance

LEMMA DistanceGrows ==
  ASSUME NEW m \in Counter, NEW n \in Counter, Distance(m, n) < depth
  PROVE  Distance(m, Following(n)) = Distance(m, n) + 1
  BY CounterPart, DepthType DEF Distance, Following

LEMMA DistanceShrinks ==
  ASSUME NEW m \in Counter, NEW k \in Counter, NEW n \in Counter,
         Distance(m, k) <= Distance(m, n)
  PROVE  Distance(k, n) = Distance(m, n) - Distance(m, k)
  BY CounterPart, DepthType DEF Distance

LEMMA DistanceOne ==
  ASSUME NEW m \in Counter
  PROVE  Distance(m, Following(m)) = 1
  BY CounterPart, DepthType DEF Distance, Following

LEMMA DistanceIsDifference ==
  ASSUME NEW m \in Counter, NEW n \in Counter
  PROVE  (n - m) % (2 * depth) = Distance(m, n)
  <1>1. /\ n \in Nat /\ m \in Nat /\ depth \in Nat
        /\ n < 2 * depth /\ m < 2 * depth
    BY CounterPart, DepthType
  <1>2. n - m \in Int /\ - 2 * depth <= n - m /\ n - m < 2 * depth
    BY <1>1
  <1>3. (n - m) % (2 * depth) = (IF 0 <= n - m THEN n - m ELSE n - m + 2 * depth)
    BY <1>2, WrapsDown
  <1>4. QED
    BY <1>1, <1>3 DEF Distance
-----------------------------------------------------------------------------
(* The inductive invariant.                                                *)

(* The codes are those of the counters, and Stream16to8 holds bytes of     *)
(* this capture.                                                           *)
CodesFollow ==
  /\ w.gry = Encode(w.bin) /\ r.gry = Encode(r.bin)
  /\ s16.odd => s16.valid
  /\ ~ s16.shift[1].stale /\ ~ s16.shift[2].stale

Gap == Distance(r.bin, w.bin)

(* What the read side sees of the write side are counters on the way from  *)
(* its own to the one of the write side, in their order.                   *)
ReadSees(seen, first) ==
  /\ r.seen = Encode(seen) /\ r.first = Encode(first)
  /\ Distance(r.bin, seen) <= Distance(r.bin, first)
  /\ Distance(r.bin, first) <= Gap

ReadView == \E seen, first \in Counter : ReadSees(seen, first)

(* What the write side sees of the read side are counters behind its own,  *)
(* by no more than a depth and by no less than the read side is.           *)
WriteSees(code, n) ==
  /\ code = Encode(n)
  /\ Gap <= Distance(n, w.bin) /\ Distance(n, w.bin) <= depth

WriteView ==
  \E seen, first \in Counter :
    /\ WriteSees(w.first, first) /\ WriteSees(w.seen, seen)
    /\ Distance(first, w.bin) <= Distance(seen, w.bin)

(* A discard moves the counter of the read side by any number of bytes at  *)
(* once, so that the write side may catch any code, for two cycles in      *)
(* which it has nothing to write.                                          *)
TornFirst == phase = 0 /\ ~ s16.valid /\ ~ word.valid

TornSeen ==
  /\ phase = 1 /\ ~ s16.valid
  /\ \E first \in Counter : WriteSees(w.first, first)

(* The byte that the read side shows is the oldest one, and a discard that *)
(* met no write in flight has left nothing.                                *)
OldestShown == ~ dirty /\ r.gry # r.seen => r.data = storage[r.bin % depth]

Emptied ==
  ~ dirty /\ discarding /\ phase = 0 => Gap = 0 /\ ~ s16.valid /\ ~ word.valid

CrossingInv ==
  /\ CrossingTypeOK /\ CodesFollow
  /\ Gap <= depth
  /\ ReadView
  /\ WriteView \/ TornFirst \/ TornSeen
  /\ StaleFirst /\ OldestShown /\ Emptied
-----------------------------------------------------------------------------
LEMMA Types ==
  ASSUME CrossingTypeOK
  PROVE  /\ w.bin \in Counter /\ r.bin \in Counter
         /\ w.gry \in Code /\ w.first \in Code /\ w.seen \in Code
         /\ r.gry \in Code /\ r.first \in Code /\ r.seen \in Code
         /\ r.data \in Byte
         /\ s16.valid \in BOOLEAN /\ s16.odd \in BOOLEAN
         /\ s16.shift[1] \in Byte /\ s16.shift[2] \in Byte
         /\ word.valid \in BOOLEAN /\ word.id \in 0 .. NumWords - 1
         /\ do_write \in BOOLEAN
  BY DEF CrossingTypeOK, do_write

LEMMA NoByteType == NoByte \in Byte /\ ~ NoByte.stale
  BY ClockCrossingAssumption DEF NoByte, byte, Byte

(* There is room for what is written.                                      *)
LEMMA Room ==
  ASSUME CrossingInv, do_write
  PROVE  \E seen, first \in Counter :
           /\ WriteSees(w.first, first) /\ WriteSees(w.seen, seen)
           /\ Distance(first, w.bin) <= Distance(seen, w.bin)
           /\ Distance(seen, w.bin) < depth
  <1>1. s16.valid /\ ~ w_full
    BY DEF do_write
  <1>2. WriteView
    BY <1>1 DEF CrossingInv, TornFirst, TornSeen
  <1>3. PICK seen \in Counter, first \in Counter :
           /\ WriteSees(w.first, first) /\ WriteSees(w.seen, seen)
           /\ Distance(first, w.bin) <= Distance(seen, w.bin)
    BY <1>2 DEF WriteView
  <1>4. w.bin \in Counter /\ w.gry = Encode(w.bin) /\ w.seen = Encode(seen)
    BY <1>3, Types DEF CrossingInv, CodesFollow, WriteSees
  <1>5. Distance(seen, w.bin) # depth
    <2>1. SUFFICES ASSUME Distance(seen, w.bin) = depth PROVE w_full
      BY <1>1
    <2>2. QED
      BY <1>4, <2>1, Opposite DEF w_full
  <1>6. Distance(seen, w.bin) \in Nat /\ depth \in Nat
    BY <1>4, DistanceType, DepthType
  <1>7. Distance(seen, w.bin) < depth
    BY <1>3, <1>5, <1>6 DEF WriteSees
  <1>8. QED
    BY <1>3, <1>7

LEMMA RoomForGap ==
  ASSUME CrossingInv, do_write
  PROVE  Gap < depth
  <1>1. PICK n \in Counter : WriteSees(w.seen, n) /\ Distance(n, w.bin) < depth
    BY Room
  <1>2. Gap \in Nat /\ Distance(n, w.bin) \in Nat /\ depth \in Nat
    BY Types, DistanceType, DepthType DEF CrossingInv, Gap
  <1>3. QED
    BY <1>1, <1>2 DEF WriteSees

(* The counter of the write side.                                          *)
LEMMA Writes ==
  ASSUME CrossingInv, Sync
  PROVE  /\ w'.bin = (IF do_write THEN Following(w.bin) ELSE w.bin)
         /\ w'.bin = Inc(w.bin, do_write)
         /\ w'.bin \in Counter /\ w'.gry = Encode(w'.bin)
         /\ w'.seen = w.first
         /\ w'.first \in IF phase = 1 THEN Caught(r.gry, r'.gry) ELSE {r.gry}
         /\ \A n \in Counter : Distance(n, w.bin) < depth \/ ~ do_write =>
              Distance(n, w'.bin) = Distance(n, w.bin) + IF do_write THEN 1 ELSE 0
  <1>1. w.bin \in Counter /\ do_write \in BOOLEAN
    BY Types DEF CrossingInv
  <1>2. /\ Following(w.bin) \in Counter
        /\ Inc(w.bin, do_write) = IF do_write THEN Following(w.bin) ELSE w.bin
    BY <1>1, IncWraps
  <1>3. /\ w'.bin = Inc(w.bin, do_write) /\ w'.gry = Encode(w'.bin)
        /\ w'.seen = w.first
        /\ w'.first \in IF phase = 1 THEN Caught(r.gry, r'.gry) ELSE {r.gry}
    BY DEF Sync, WriteSide
  <1>4. ASSUME NEW n \in Counter, Distance(n, w.bin) < depth \/ ~ do_write
        PROVE  Distance(n, w'.bin) = Distance(n, w.bin) + IF do_write THEN 1 ELSE 0
    <2>1. CASE do_write
      BY <1>1, <1>2, <1>3, <1>4, <2>1, DistanceGrows
    <2>2. CASE ~ do_write
      BY <1>1, <1>2, <1>3, <2>2, DistanceType
    <2>3. QED
      BY <2>1, <2>2
  <1>5. QED
    BY <1>1, <1>2, <1>3, <1>4

(* The counters of the read side at an edge of its clock: it stays, reads  *)
(* one byte, or follows the counter that it sees.                          *)
Moves(seen, first) ==
  /\ ReadSees(seen, first)
  /\ r'.bin \in Counter /\ r'.gry = Encode(r'.bin)
  /\ Distance(r.bin, r'.bin) <= Distance(r.bin, seen)
  /\ discarding => r'.bin = seen
  /\ r'.seen = Encode(first)
  /\ r'.first \in {Encode(w.bin), Encode(w'.bin)}

LEMMA EdgeMoves ==
  ASSUME CrossingInv, Sync, NEW take \in BOOLEAN, take => r_rdy, ReadSide(take)
  PROVE  \E seen, first \in Counter : Moves(seen, first)
  <1>1. PICK seen \in Counter, first \in Counter : ReadSees(seen, first)
    BY DEF CrossingInv, ReadView
  <1>2. /\ r.bin \in Counter /\ w.bin \in Counter
        /\ w.gry = Encode(w.bin) /\ r.gry = Encode(r.bin)
    BY Types DEF CrossingInv, CodesFollow
  <1>3. r'.first \in {Encode(w.bin), Encode(w'.bin)}
    <2>1. r'.first \in Caught(Encode(w.bin), Encode(Inc(w.bin, do_write)))
      BY <1>2 DEF ReadSide
    <2>2. do_write \in BOOLEAN /\ w'.bin = Inc(w.bin, do_write)
      BY Types, Writes DEF CrossingInv
    <2>3. QED
      BY <1>2, <2>1, <2>2, CatchesEither
  <1>4. r'.seen = Encode(first)
    BY <1>1 DEF ReadSide, ReadSees
  <1>5. /\ Distance(r.bin, seen) \in Nat
        /\ Distance(r.bin, seen) = 0 <=> r.bin = seen
        /\ Distance(r.bin, r.bin) = 0
    BY <1>2, DistanceType
  <1>6. CASE discarding
    <2>1. r'.bin = Decode(r.seen) /\ r'.gry = r.seen
      BY <1>6 DEF ReadSide
    <2>2. r'.bin = seen /\ r'.gry = Encode(seen)
      BY <1>1, <2>1, DecodeEncode DEF ReadSees
    <2>3. QED
      BY <1>1, <1>3, <1>4, <1>5, <2>2 DEF Moves
  <1>7. CASE ~ discarding
    <2>1. r'.bin = Inc(r.bin, take) /\ r'.gry = Encode(Inc(r.bin, take))
      BY <1>7 DEF ReadSide
    <2>2. /\ r'.bin = IF take THEN Following(r.bin) ELSE r.bin
          /\ r'.bin \in Counter
      BY <1>2, <2>1, IncWraps
    <2>3. take => r.bin # seen
      BY <1>1, <1>2 DEF r_rdy, ReadSees
    <2>4. Distance(r.bin, r'.bin) <= Distance(r.bin, seen)
      BY <1>2, <1>5, <2>2, <2>3, DistanceOne
    <2>5. QED
      BY <1>1, <1>3, <1>4, <1>7, <2>1, <2>2, <2>4 DEF Moves
  <1>8. QED
    BY <1>6, <1>7

(* What the move does to the distances.                                    *)
LEMMA MovesDistances ==
  ASSUME CrossingInv, Sync, NEW seen \in Counter, NEW first \in Counter,
         Moves(seen, first)
  PROVE  /\ Distance(r.bin, r'.bin) \in Nat
         /\ Distance(r.bin, r'.bin) <= Distance(r.bin, seen)
         /\ Distance(r'.bin, seen) = Distance(r.bin, seen) - Distance(r.bin, r'.bin)
         /\ Distance(r'.bin, first) = Distance(r.bin, first) - Distance(r.bin, r'.bin)
         /\ Distance(r'.bin, w.bin) = Gap - Distance(r.bin, r'.bin)
         /\ Gap' = Gap - Distance(r.bin, r'.bin) + IF do_write THEN 1 ELSE 0
  <1>1. /\ r.bin \in Counter /\ w.bin \in Counter /\ r'.bin \in Counter
        /\ w'.bin \in Counter
    BY Types, Writes DEF CrossingInv, Moves
  <1>2. /\ Distance(r.bin, seen) \in Nat /\ Distance(r.bin, first) \in Nat
        /\ Distance(r.bin, r'.bin) \in Nat /\ Gap \in Nat /\ depth \in Nat
    BY <1>1, DistanceType, DepthType DEF Gap
  <1>3. /\ Distance(r.bin, r'.bin) <= Distance(r.bin, seen)
        /\ Distance(r.bin, r'.bin) <= Distance(r.bin, first)
        /\ Distance(r.bin, r'.bin) <= Gap
    BY <1>2 DEF Moves, ReadSees
  <1>4. /\ Distance(r'.bin, seen) = Distance(r.bin, seen) - Distance(r.bin, r'.bin)
        /\ Distance(r'.bin, first) = Distance(r.bin, first) - Distance(r.bin, r'.bin)
    BY <1>1, <1>3, DistanceShrinks
  <1>5. Distance(r'.bin, w.bin) = Gap - Distance(r.bin, r'.bin)
    BY <1>1, <1>3, DistanceShrinks DEF Gap
  <1>6. Distance(r'.bin, w.bin) < depth \/ ~ do_write
    BY <1>2, <1>5, RoomForGap
  <1>7. Distance(r'.bin, w'.bin)
          = Distance(r'.bin, w.bin) + IF do_write THEN 1 ELSE 0
    BY <1>1, <1>6, Writes
  <1>8. Gap' = Distance(r'.bin, w'.bin)
    BY DEF Gap, Distance, depth
  <1>9. QED
    BY <1>2, <1>3, <1>4, <1>5, <1>7, <1>8

LEMMA HalfDistances ==
  ASSUME CrossingInv, HalfCycle, Sync
  PROVE  /\ r' = r /\ phase = 0 /\ phase' = 1
         /\ Gap' = Gap + IF do_write THEN 1 ELSE 0
  <1>1. r' = r /\ phase = 0 /\ phase' = 1
    BY DEF HalfCycle
  <1>2. r.bin \in Counter /\ (Gap < depth \/ ~ do_write)
    BY Types, RoomForGap DEF CrossingInv
  <1>3. Distance(r.bin, w'.bin) = Gap + IF do_write THEN 1 ELSE 0
    BY <1>2, Writes DEF Gap
  <1>4. Gap' = Distance(r.bin, w'.bin)
    BY <1>1 DEF Gap, Distance, depth
  <1>5. QED
    BY <1>1, <1>3, <1>4

LEMMA GapType ==
  ASSUME CrossingInv
  PROVE  Gap \in Nat /\ depth \in Nat \ {0} /\ Level = Gap /\ Gap <= depth
  BY Types, DistanceType, DepthType, DistanceIsDifference
  DEF CrossingInv, Gap, Level

LEMMA HalfReadView ==
  ASSUME CrossingInv, HalfCycle, Sync
  PROVE  ReadView' /\ (Gap <= depth)'
  <1>1. PICK seen \in Counter, first \in Counter : ReadSees(seen, first)
    BY DEF CrossingInv, ReadView
  <1>2. Gap \in Nat /\ Gap' = Gap + (IF do_write THEN 1 ELSE 0) /\ r' = r
    BY GapType, HalfDistances
  <1>3. ReadSees(seen, first)'
    <2>1. /\ r'.seen = Encode(seen) /\ r'.first = Encode(first)
          /\ Distance(r'.bin, seen) <= Distance(r'.bin, first)
      BY <1>1, <1>2 DEF ReadSees
    <2>2. Distance(r'.bin, first) <= Gap'
      <3>1. Distance(r.bin, first) \in Nat /\ Distance(r.bin, first) <= Gap
        BY <1>1, Types, DistanceType DEF ReadSees, CrossingInv
      <3>2. QED
        BY <1>2, <3>1
    <2>3. QED
      BY <2>1, <2>2 DEF ReadSees, Distance, depth, Encode, Bit
  <1>4. ReadView'
    <2>1. seen \in Counter' /\ first \in Counter'
      BY DEF Counter, depth
    <2>2. QED
      BY <1>3, <2>1 DEF ReadView
  <1>5. Gap' <= depth
    BY <1>2, GapType, RoomForGap
  <1>6. QED
    BY <1>4, <1>5 DEF depth

LEMMA EdgeReadView ==
  ASSUME CrossingInv, Sync, NEW seen \in Counter, NEW first \in Counter,
         Moves(seen, first)
  PROVE  ReadView' /\ (Gap <= depth)'
  <1>1. /\ Distance(r.bin, r'.bin) \in Nat
        /\ Distance(r'.bin, first) = Distance(r.bin, first) - Distance(r.bin, r'.bin)
        /\ Distance(r'.bin, w.bin) = Gap - Distance(r.bin, r'.bin)
        /\ Gap' = Gap - Distance(r.bin, r'.bin) + IF do_write THEN 1 ELSE 0
    BY MovesDistances
  <1>2. Gap \in Nat /\ Gap <= depth /\ depth \in Nat
    BY GapType
  <1>3. w.bin \in Counter /\ w'.bin \in Counter /\ r'.bin \in Counter
    BY Types, Writes DEF CrossingInv, Moves
  <1>4. Gap' <= depth
    BY <1>1, <1>2, RoomForGap
  <1>5. Gap' = Distance(r'.bin, w'.bin)
    BY DEF Gap, Distance, depth
  <1>6. Distance(r.bin, first) \in Nat /\ Distance(r.bin, first) <= Gap
    BY Types, DistanceType DEF CrossingInv, Moves, ReadSees
  <1>7. PICK next \in {w.bin, w'.bin} : r'.first = Encode(next)
    BY DEF Moves
  <1>8. next \in Counter
    BY <1>3, <1>7
  <1>9. Distance(r'.bin, first) <= Distance(r'.bin, next)
    <2>1. CASE next = w.bin
      BY <1>1, <1>2, <1>6, <2>1
    <2>2. CASE next = w'.bin
      BY <1>1, <1>2, <1>5, <1>6, <2>2
    <2>3. QED
      BY <1>7, <2>1, <2>2
  <1>10. Distance(r'.bin, next) <= Gap'
    <2>1. CASE next = w.bin
      BY <1>1, <1>2, <2>1
    <2>2. CASE next = w'.bin
      BY <1>1, <1>2, <1>5, <2>2
    <2>3. QED
      BY <1>7, <2>1, <2>2
  <1>11. ReadSees(first, next)'
    BY <1>7, <1>9, <1>10 DEF Moves, ReadSees, Distance, depth, Encode, Bit
  <1>12. first \in Counter' /\ next \in Counter'
    BY <1>8 DEF Counter, depth
  <1>13. QED
    BY <1>4, <1>11, <1>12 DEF ReadView, depth

LEMMA NewWriteView ==
  ASSUME NEW m \in Counter, NEW n \in Counter,
         w'.first = Encode(m), w'.seen = Encode(n), w'.bin \in Counter,
         Gap' \in Nat, Gap' <= Distance(m, w'.bin),
         Distance(m, w'.bin) <= Distance(n, w'.bin),
         Distance(n, w'.bin) <= depth
  PROVE  WriteView'
  <1>1. /\ Distance(m, w'.bin) \in Nat /\ Distance(n, w'.bin) \in Nat
        /\ depth \in Nat
    BY DistanceType, DepthType
  <1>2. WriteSees(w.first, m)' /\ WriteSees(w.seen, n)'
    BY <1>1 DEF WriteSees, Distance, depth, Encode, Bit
  <1>3. (Distance(m, w.bin) <= Distance(n, w.bin))'
    BY DEF Distance, depth
  <1>4. m \in Counter' /\ n \in Counter'
    BY DEF Counter, depth
  <1>5. QED
    BY <1>2, <1>3, <1>4 DEF WriteView

(* What the write side saw of the read side a cycle ago goes on.           *)
LEMMA FirstGoesOn ==
  ASSUME CrossingInv, Sync, NEW n \in Counter, WriteSees(w.first, n),
         Distance(n, w.bin) < depth \/ ~ do_write
  PROVE  /\ w'.seen = Encode(n)
         /\ Distance(n, w'.bin) = Distance(n, w.bin) + IF do_write THEN 1 ELSE 0
         /\ Distance(n, w'.bin) <= depth
         /\ Gap + (IF do_write THEN 1 ELSE 0) <= Distance(n, w'.bin)
  <1>1. w'.seen = Encode(n)
    BY Writes DEF WriteSees
  <1>2. Distance(n, w'.bin) = Distance(n, w.bin) + IF do_write THEN 1 ELSE 0
    BY Writes
  <1>3. Distance(n, w.bin) \in Nat /\ Gap \in Nat /\ depth \in Nat
    BY Types, DistanceType, GapType DEF CrossingInv
  <1>4. QED
    BY <1>1, <1>2, <1>3 DEF WriteSees

(* Where the view of the write side is sound at its first stage.           *)
LEMMA FirstSound ==
  ASSUME CrossingInv, ~ TornFirst
  PROVE  \E n \in Counter :
           WriteSees(w.first, n) /\ (Distance(n, w.bin) < depth \/ ~ do_write)
  <1>1. CASE do_write
    <2>1. PICK seen \in Counter, first \in Counter :
             /\ WriteSees(w.first, first)
             /\ Distance(first, w.bin) <= Distance(seen, w.bin)
             /\ Distance(seen, w.bin) < depth
      BY <1>1, Room
    <2>2. /\ Distance(first, w.bin) \in Nat /\ Distance(seen, w.bin) \in Nat
          /\ depth \in Nat
      BY Types, DistanceType, GapType DEF CrossingInv
    <2>3. QED
      BY <2>1, <2>2
  <1>2. CASE ~ do_write
    BY <1>2 DEF CrossingInv, WriteView, TornSeen
  <1>3. QED
    BY <1>1, <1>2

(* At an edge of the sync clock alone the write side catches the code of   *)
(* the read side, which is at rest.                                        *)
LEMMA HalfWriteView ==
  ASSUME CrossingInv, HalfCycle, Sync
  PROVE  (WriteView \/ TornFirst \/ TornSeen)'
  <1>1. /\ r' = r /\ phase = 0 /\ phase' = 1
        /\ Gap' = Gap + IF do_write THEN 1 ELSE 0
    BY HalfDistances
  <1>2. /\ r.bin \in Counter /\ w.bin \in Counter /\ w'.bin \in Counter
        /\ Gap \in Nat /\ depth \in Nat /\ Gap <= depth
    BY Types, Writes, GapType DEF CrossingInv
  <1>3. w'.first = Encode(r.bin)
    BY <1>1, Writes DEF CrossingInv, CodesFollow
  <1>4. Gap' = Distance(r.bin, w'.bin) /\ Gap' <= depth /\ Gap' \in Nat
    <2>1. Gap' = Distance(r.bin, w'.bin)
      BY <1>1 DEF Gap, Distance, depth
    <2>2. Gap' <= depth
      BY <1>1, <1>2, RoomForGap
    <2>3. QED
      BY <1>1, <1>2, <2>1, <2>2
  <1>5. CASE TornFirst
    <2>1. ~ s16'.valid
      <3>1. ~ Stalled /\ ~ s16.valid /\ ~ s16.odd /\ ~ word.valid
        BY <1>5 DEF TornFirst, Stalled, CrossingInv, CodesFollow
      <3>2. CASE discarding
        BY <3>2 DEF Sync, Shift, Stopped
      <3>3. CASE ~ discarding
        <4>1. s16' = [s16 EXCEPT !.valid = FALSE]
          BY <3>1, <3>3 DEF Sync, Shift, TakesWord
        <4>2. QED
          BY <4>1 DEF CrossingInv, CrossingTypeOK
      <3>4. QED
        BY <3>2, <3>3
    <2>2. WriteSees(w.first, r.bin)'
      BY <1>1, <1>3, <1>4 DEF WriteSees, Distance, depth, Encode, Bit
    <2>3. r.bin \in Counter'
      BY <1>2 DEF Counter, depth
    <2>4. TornSeen'
      BY <1>1, <2>1, <2>2, <2>3 DEF TornSeen
    <2>5. QED
      BY <2>4
  <1>6. CASE ~ TornFirst
    <2>1. PICK n \in Counter :
             WriteSees(w.first, n) /\ (Distance(n, w.bin) < depth \/ ~ do_write)
      BY <1>6, FirstSound
    <2>2. /\ w'.seen = Encode(n) /\ Distance(n, w'.bin) <= depth
          /\ Gap' <= Distance(n, w'.bin)
      BY <1>1, <2>1, FirstGoesOn
    <2>3. WriteView'
      BY <1>2, <1>3, <1>4, <2>2, NewWriteView
    <2>4. QED
      BY <2>3
  <1>7. QED
    BY <1>5, <1>6

LEMMA EdgeWriteView ==
  ASSUME CrossingInv, Sync, NEW take \in BOOLEAN, take => r_rdy, ReadSide(take),
         phase = 1, phase' = 0
  PROVE  (WriteView \/ TornFirst \/ TornSeen)'
  <1>1. CASE discarding
    <2>1. ~ s16'.valid /\ ~ word'.valid
      BY <1>1 DEF Sync, Shift, Stopped, Offer, CrossingInv, CrossingTypeOK
    <2>2. QED
      BY <2>1 DEF TornFirst
  <1>2. CASE ~ discarding
    <2>1. PICK seen \in Counter, first \in Counter : Moves(seen, first)
      BY EdgeMoves
    <2>2. /\ Distance(r.bin, r'.bin) \in Nat
          /\ Gap' = Gap - Distance(r.bin, r'.bin) + (IF do_write THEN 1 ELSE 0)
          /\ Distance(r.bin, r'.bin) <= Distance(r.bin, seen)
      BY <2>1, MovesDistances
    <2>3. /\ r.bin \in Counter /\ w.bin \in Counter /\ w'.bin \in Counter
          /\ r'.bin \in Counter /\ r.gry = Encode(r.bin)
          /\ Gap \in Nat /\ depth \in Nat /\ Gap <= depth
          /\ Distance(r.bin, seen) \in Nat /\ Distance(r.bin, first) \in Nat
      BY <2>1, Types, Writes, GapType, DistanceType
      DEF CrossingInv, CodesFollow, Moves
    <2>4. PICK m \in {r.bin, r'.bin} : w'.first = Encode(m)
      <3>1. r'.bin = Inc(r.bin, take) /\ r'.gry = Encode(Inc(r.bin, take))
        BY <1>2 DEF ReadSide
      <3>2. w'.first \in Caught(Encode(r.bin), Encode(Inc(r.bin, take)))
        BY <2>3, <3>1, Writes
      <3>3. QED
        BY <2>3, <3>1, <3>2, CatchesEither
    <2>5. PICK n \in Counter :
             WriteSees(w.first, n) /\ (Distance(n, w.bin) < depth \/ ~ do_write)
      BY FirstSound DEF TornFirst
    <2>6. /\ w'.seen = Encode(n) /\ Distance(n, w'.bin) <= depth
          /\ Gap + (IF do_write THEN 1 ELSE 0) <= Distance(n, w'.bin)
          /\ Distance(n, w'.bin) \in Nat
      BY <2>3, <2>5, FirstGoesOn, DistanceType
    <2>7. Gap' = Distance(r'.bin, w'.bin) /\ Gap' \in Nat
      BY <2>3, DistanceType DEF Gap, Distance, depth
    <2>8. Distance(r.bin, w'.bin) = Gap + (IF do_write THEN 1 ELSE 0)
      BY <2>3, RoomForGap, Writes DEF Gap
    <2>9. /\ m \in Counter /\ Gap' <= Distance(m, w'.bin)
          /\ Distance(m, w'.bin) <= Gap + (IF do_write THEN 1 ELSE 0)
      <3>1. CASE m = r.bin
        BY <2>2, <2>3, <2>8, <3>1
      <3>2. CASE m = r'.bin
        BY <2>2, <2>3, <2>7, <3>2
      <3>3. QED
        BY <2>4, <3>1, <3>2
    <2>10. Distance(m, w'.bin) \in Nat /\ Gap + (IF do_write THEN 1 ELSE 0) \in Nat
      BY <2>3, <2>9, DistanceType
    <2>11. Distance(m, w'.bin) <= Distance(n, w'.bin)
      BY <2>6, <2>9, <2>10
    <2>12. WriteView'
      BY <2>3, <2>4, <2>6, <2>7, <2>9, <2>11, NewWriteView
    <2>13. QED
      BY <2>12
  <1>3. QED
    BY <1>1, <1>2
-----------------------------------------------------------------------------
(* Where the bytes lie.                                                    *)

Address == 0 .. depth - 1

LEMMA SlotType ==
  ASSUME NEW n \in Counter, NEW i \in 1 .. depth
  PROVE  (n + i - 1) % depth \in Address /\ n % depth \in Address
  <1>1. n \in Nat /\ n < 2 * depth /\ depth \in Nat \ {0}
    BY CounterPart, DepthType
  <1>2. n + i - 1 \in Nat
    BY <1>1
  <1>3. QED
    BY <1>1, <1>2, DivMod DEF Address

LEMMA SlotMoves ==
  ASSUME NEW m \in Counter, NEW n \in Counter, NEW i \in 1 .. depth,
         i + Distance(m, n) <= depth + 1
  PROVE  (n + i - 1) % depth = (m + (i + Distance(m, n)) - 1) % depth
  <1> DEFINE k == Distance(m, n)
             x == n + i - 1
             y == m + (i + k) - 1
  <1>1. /\ m \in Nat /\ n \in Nat /\ m < 2 * depth /\ n < 2 * depth
        /\ depth \in Nat \ {0} /\ k \in Nat
    BY CounterPart, DepthType, DistanceType
  <1>2. k = (IF m <= n THEN n - m ELSE n - m + 2 * depth)
    BY DEF Distance
  <1> HIDE DEF k
  <1>3. /\ x \in Nat /\ y \in Nat /\ x < 3 * depth /\ y < 3 * depth
        /\ x = y \/ y = x + 2 * depth
    BY <1>1, <1>2 DEF k
  <1> HIDE DEF x, y
  <1>4. x % depth = (IF x < depth THEN x
                     ELSE IF x < 2 * depth THEN x - depth ELSE x - 2 * depth)
    BY <1>3, Addresses
  <1>5. y % depth = (IF y < depth THEN y
                     ELSE IF y < 2 * depth THEN y - depth ELSE y - 2 * depth)
    BY <1>3, Addresses
  <1>6. x % depth = y % depth
    BY <1>1, <1>3, <1>4, <1>5
  <1>7. QED
    BY <1>6 DEF x, y, k

LEMMA SlotFree ==
  ASSUME NEW m \in Counter, NEW n \in Counter, NEW i \in 1 .. depth,
         i <= Distance(m, n), Distance(m, n) < depth
  PROVE  (m + i - 1) % depth # n % depth
  <1> DEFINE x == m + i - 1
  <1>1. /\ m \in Nat /\ n \in Nat /\ m < 2 * depth /\ n < 2 * depth
        /\ depth \in Nat \ {0}
    BY CounterPart, DepthType
  <1>2. x \in Nat /\ x < 3 * depth /\ n < 3 * depth
    BY <1>1
  <1>3. \/ x <= n - 1 /\ n - depth < x
        \/ x <= n - 1 + 2 * depth /\ n + depth < x
    BY <1>1 DEF Distance
  <1> HIDE DEF x
  <1>4. x % depth = (IF x < depth THEN x
                     ELSE IF x < 2 * depth THEN x - depth ELSE x - 2 * depth)
    BY <1>2, Addresses
  <1>5. n % depth = (IF n < depth THEN n
                     ELSE IF n < 2 * depth THEN n - depth ELSE n - 2 * depth)
    BY <1>1, <1>2, Addresses
  <1>6. x % depth # n % depth
    BY <1>1, <1>2, <1>3, <1>4, <1>5
  <1>7. QED
    BY <1>6 DEF x

(* The i-th byte in the FIFO, from the counter n of the read side.         *)
At(memory, n, i) == memory[(n + i - 1) % depth]

LEMMA WrittenType ==
  ASSUME CrossingInv
  PROVE  Written \in [Address -> Byte] /\ storage \in [Address -> Byte]
  BY Types DEF CrossingInv, CrossingTypeOK, Written, Address

(* A byte that is written goes behind the others, and moves none of them.  *)
LEMMA FifoMoves ==
  ASSUME CrossingInv, NEW n \in Counter, Distance(r.bin, n) <= Gap
  PROVE  LET a == Distance(r.bin, n)
         IN  /\ \A i \in 1 .. Gap - a :
                  At(Written, n, i) = At(storage, r.bin, i + a)
             /\ do_write => At(Written, n, Gap - a + 1) = s16.shift[1]
  <1> DEFINE a == Distance(r.bin, n)
  <1>1. /\ r.bin \in Counter /\ w.bin \in Counter /\ a \in Nat /\ a <= Gap
        /\ Gap \in Nat /\ depth \in Nat \ {0} /\ Gap <= depth
        /\ do_write \in BOOLEAN
    BY Types, GapType, DistanceType DEF CrossingInv
  <1>2. /\ do_write => Gap < depth
        /\ Written \in [Address -> Byte] /\ storage \in [Address -> Byte]
    BY RoomForGap, WrittenType
  <1>3. Distance(n, w.bin) = Gap - a
    BY <1>1, DistanceShrinks DEF Gap
  <1>4. ASSUME NEW i \in 1 .. Gap - a
        PROVE  At(Written, n, i) = At(storage, r.bin, i + a)
    <2>1. i \in 1 .. depth /\ i + a <= depth + 1
      BY <1>1
    <2>2. (n + i - 1) % depth = (r.bin + (i + a) - 1) % depth
      BY <1>1, <2>1, SlotMoves
    <2>3. (n + i - 1) % depth \in Address
      BY <2>1, SlotType
    <2>4. do_write => (n + i - 1) % depth # w.bin % depth
      BY <1>1, <1>2, <1>3, <2>1, SlotFree
    <2>5. Written[(n + i - 1) % depth] = storage[(n + i - 1) % depth]
      BY <1>2, <2>3, <2>4 DEF Written
    <2>6. QED
      BY <2>2, <2>5 DEF At
  <1>5. ASSUME do_write
        PROVE  At(Written, n, Gap - a + 1) = s16.shift[1]
    <2> DEFINE k == Gap - a
    <2>1. k \in Nat /\ k < depth /\ Distance(n, w.bin) = k
      BY <1>1, <1>2, <1>3, <1>5
    <2> HIDE DEF k
    <2>2. 1 \in 1 .. depth /\ 1 + Distance(n, w.bin) <= depth + 1
      BY <1>1, <2>1
    <2>3. (w.bin + 1 - 1) % depth = (n + (1 + Distance(n, w.bin)) - 1) % depth
      BY <1>1, <2>2, SlotMoves
    <2>4. w.bin + 1 - 1 = w.bin /\ 1 + k = k + 1 /\ w.bin \in Nat
      BY <1>1, <2>1, CounterPart
    <2>5. (n + (k + 1) - 1) % depth = w.bin % depth
      BY <2>1, <2>3, <2>4
    <2>6. w.bin % depth \in Address
      BY <1>1, <2>2, SlotType
    <2>7. Written[w.bin % depth] = s16.shift[1]
      BY <1>2, <1>5, <2>6 DEF Written
    <2>8. QED
      BY <2>5, <2>7 DEF At, k
  <1>6. QED
    BY <1>4, <1>5

(* The stale bytes come first.                                             *)
LEMMA StaleFirstMeans ==
  ASSUME CrossingTypeOK, Gap <= depth
  PROVE  StaleFirst <=> \A i, j \in 1 .. Gap :
           i < j /\ At(storage, r.bin, j).stale => At(storage, r.bin, i).stale
  <1>1. Level = Gap
    BY Types, DistanceIsDifference DEF Gap, Level
  <1>2. /\ DOMAIN InFifo = 1 .. Gap
        /\ \A i \in 1 .. Gap : InFifo[i] = At(storage, r.bin, i)
    BY <1>1 DEF InFifo, At
  <1>3. QED
    BY <1>1, <1>2 DEF StaleFirst

(* The bytes that are stale stay the first ones, wherever the counter of   *)
(* the read side moves to.                                                 *)
LEMMA StaleStaysFirst ==
  ASSUME CrossingInv, Sync, CrossingTypeOK', Gap' <= depth,
         Distance(r.bin, r'.bin) <= Gap, r'.bin \in Counter,
         Gap' = Gap - Distance(r.bin, r'.bin) + IF do_write THEN 1 ELSE 0
  PROVE  StaleFirst'
  <1> DEFINE a == Distance(r.bin, r'.bin)
             B(i) == At(storage, r.bin, i)
             C(i) == At(Written, r'.bin, i)
  <1>1. /\ r.bin \in Counter /\ a \in Nat /\ a <= Gap /\ Gap \in Nat
        /\ depth \in Nat \ {0} /\ Gap <= depth /\ do_write \in BOOLEAN
    BY Types, GapType, DistanceType DEF CrossingInv
  <1>2. /\ \A i \in 1 .. Gap - a : C(i) = B(i + a)
        /\ do_write => C(Gap - a + 1) = s16.shift[1]
    BY <1>1, FifoMoves
  <1>3. \A i, j \in 1 .. Gap : i < j /\ B(j).stale => B(i).stale
    BY StaleFirstMeans DEF CrossingInv
  <1>4. ~ s16.shift[1].stale
    BY DEF CrossingInv, CodesFollow
  <1>5. /\ Level' = Gap' /\ DOMAIN InFifo' = 1 .. Gap'
        /\ \A i \in 1 .. Gap' : InFifo'[i] = At(storage', r'.bin, i)
    <2>1. r'.bin \in Counter /\ w'.bin \in Counter
      BY Writes
    <2>2. Level' = (w'.bin - r'.bin) % (2 * depth)
      BY DEF Level, depth
    <2>3. Gap' = Distance(r'.bin, w'.bin)
      BY DEF Gap, Distance, depth
    <2>4. Level' = Gap'
      BY <2>1, <2>2, <2>3, DistanceIsDifference
    <2>5. QED
      BY <2>4 DEF InFifo, At, depth
  <1> DEFINE N(i) == At(storage', r'.bin, i)
  <1>6. SUFFICES ASSUME NEW i \in 1 .. Gap', NEW j \in 1 .. Gap', i < j, N(j).stale
                 PROVE  N(i).stale
    BY <1>5 DEF StaleFirst, depth
  <1>7. i \in 1 .. depth /\ j \in 1 .. depth /\ i \in Int /\ j \in Int
    BY <1>1
  <1>8. /\ (r'.bin + i - 1) % depth \in Address /\ (r'.bin + j - 1) % depth \in Address
        /\ Written \in [Address -> Byte] /\ DOMAIN storage = Address
    BY <1>7, SlotType, WrittenType
  <1>9. CASE discarding
    <2>1. storage' = [x \in Address |-> [Written[x] EXCEPT !.stale = TRUE]]
      BY <1>8, <1>9 DEF Sync, Store
    <2>2. N(i) = [C(i) EXCEPT !.stale = TRUE] /\ C(i) \in Byte
      BY <1>8, <2>1 DEF At
    <2>3. QED
      BY <2>2 DEF Byte
  <1>10. CASE ~ discarding
    <2>1. N(i) = C(i) /\ N(j) = C(j)
      BY <1>10 DEF Sync, Store
    <2>2. j # Gap - a + 1 \/ ~ do_write
      BY <1>2, <1>4, <1>6, <2>1
    <2>3. j \in 1 .. Gap - a /\ i \in 1 .. Gap - a
      BY <1>1, <1>6, <1>7, <2>2
    <2>4. i + a \in 1 .. Gap /\ j + a \in 1 .. Gap /\ i + a < j + a
      BY <1>1, <1>6, <2>3
    <2>5. B(j + a).stale
      BY <1>2, <1>6, <2>1, <2>3
    <2>6. B(i + a).stale
      BY <1>3, <2>4, <2>5
    <2>7. QED
      BY <1>2, <2>1, <2>3, <2>6
  <1>11. QED
    BY <1>9, <1>10

(* The byte that is shown stays where it is while more are behind it.      *)
LEMMA ShownStays ==
  ASSUME CrossingInv, NEW n \in Counter, Distance(r.bin, n) < Gap
  PROVE  Written[n % depth] = storage[n % depth]
  <1>1. /\ r.bin \in Counter /\ w.bin \in Counter /\ Gap \in Nat /\ Gap <= depth
        /\ depth \in Nat \ {0} /\ Distance(r.bin, n) \in Nat /\ n \in Nat
    BY Types, GapType, DistanceType, CounterPart DEF CrossingInv
  <1>2. Distance(n, w.bin) = Gap - Distance(r.bin, n)
    <2>1. Distance(r.bin, n) <= Distance(r.bin, w.bin)
      BY <1>1 DEF Gap
    <2>2. QED
      BY <1>1, <2>1, DistanceShrinks DEF Gap
  <1>3. CASE do_write
    <2>1. 1 <= Distance(n, w.bin) /\ Distance(n, w.bin) < depth /\ 1 \in 1 .. depth
      BY <1>1, <1>2, <1>3, RoomForGap
    <2>2. (n + 1 - 1) % depth # w.bin % depth
      BY <1>1, <2>1, SlotFree
    <2>3. n + 1 - 1 = n /\ n % depth \in Address
      BY <1>1, <2>1, SlotType
    <2>4. QED
      BY <2>2, <2>3, WrittenType DEF Written
  <1>4. CASE ~ do_write
    BY <1>4 DEF Written
  <1>5. QED
    BY <1>3, <1>4
-----------------------------------------------------------------------------
LEMMA ShiftType ==
  ASSUME CrossingInv, Sync
  PROVE  /\ s16' \in [valid : BOOLEAN, odd : BOOLEAN, shift : Byte \X Byte]
         /\ s16'.odd => s16'.valid
         /\ ~ s16'.shift[1].stale /\ ~ s16'.shift[2].stale
  <1> DEFINE Held == [valid : BOOLEAN, odd : BOOLEAN, shift : Byte \X Byte]
             high == byte(word.id, "high")
             low == byte(word.id, "low")
  <1>1. /\ s16 \in Held /\ (s16.odd => s16.valid)
        /\ ~ s16.shift[1].stale /\ ~ s16.shift[2].stale
    BY DEF CrossingInv, CrossingTypeOK, CodesFollow
  <1>2. NoByte \in Byte /\ ~ NoByte.stale
    BY NoByteType
  <1>3. high \in Byte /\ low \in Byte /\ ~ high.stale /\ ~ low.stale
    BY Types DEF CrossingInv, byte, Byte
  <1> HIDE DEF high, low
  <1>4. CASE discarding
    <2>1. s16' = [valid |-> FALSE, odd |-> FALSE, shift |-> <<NoByte, NoByte>>]
      BY <1>4 DEF Sync, Shift, Stopped
    <2>2. QED
      BY <1>2, <2>1
  <1>5. CASE ~ discarding /\ Stalled
    <2>1. s16' = s16
      BY <1>5 DEF Sync, Shift, TakesWord
    <2>2. QED
      BY <1>1, <2>1
  <1>6. CASE ~ discarding /\ ~ Stalled /\ s16.odd
    <2>1. s16' = [valid |-> TRUE, odd |-> FALSE, shift |-> <<s16.shift[2], NoByte>>]
      BY <1>6 DEF Sync, Shift, TakesWord
    <2>2. s16.shift[2] \in Byte
      BY <1>1
    <2>3. QED
      BY <1>1, <1>2, <2>1, <2>2
  <1>7. CASE ~ discarding /\ TakesWord
    <2>1. s16' = IF word.valid
                 THEN [valid |-> TRUE, odd |-> TRUE, shift |-> <<high, low>>]
                 ELSE [s16 EXCEPT !.valid = FALSE]
      BY <1>7 DEF Sync, Shift, TakesWord, high, low
    <2>2. ~ s16.odd
      BY <1>7 DEF TakesWord
    <2>3. QED
      BY <1>1, <1>3, <2>1, <2>2
  <1>8. QED
    BY <1>4, <1>5, <1>6, <1>7 DEF TakesWord

LEMMA OfferType ==
  ASSUME CrossingInv, Sync
  PROVE  word' \in [valid : BOOLEAN, id : 0 .. NumWords - 1]
  <1>1. word \in [valid : BOOLEAN, id : 0 .. NumWords - 1] /\ NumWords \in Nat \ {0}
    BY ClockCrossingAssumption DEF CrossingInv, CrossingTypeOK
  <1>2. (word.id + 1) % NumWords \in 0 .. NumWords - 1
    <2>1. word.id + 1 \in Nat
      BY <1>1
    <2>2. QED
      BY <1>1, <2>1, DivMod
  <1>3. CASE discarding
    BY <1>1, <1>3 DEF Sync, Offer
  <1>4. CASE ~ discarding
    <2>1. CASE UNCHANGED word
      BY <1>1, <2>1
    <2>2. CASE word' # word
      <3>1. PICK valid \in BOOLEAN :
               word' = [valid |-> valid,
                        id |-> IF word.valid THEN (word.id + 1) % NumWords
                               ELSE word.id]
        BY <1>4, <2>2 DEF Sync, Offer
      <3>2. QED
        BY <1>1, <1>2, <3>1
    <2>3. QED
      BY <2>1, <2>2
  <1>5. QED
    BY <1>3, <1>4

LEMMA CaughtType ==
  ASSUME NEW old \in Code, NEW new, NEW code \in Caught(old, new)
  PROVE  code \in Code
  BY DEF Caught

LEMMA SyncTypeOK ==
  ASSUME CrossingInv, Sync, phase' \in {0, 1}, discarding' \in BOOLEAN,
         r' \in [bin : Counter, gry : Code, first : Code, seen : Code, data : Byte]
  PROVE  CrossingTypeOK'
  <1>1. word' \in [valid : BOOLEAN, id : 0 .. NumWords - 1]
    BY OfferType
  <1>2. s16' \in [valid : BOOLEAN, odd : BOOLEAN, shift : Byte \X Byte]
    BY ShiftType
  <1>3. w' \in [bin : Counter, gry : Code, first : Code, seen : Code]
    <2>1. PICK caught \in IF phase = 1 THEN Caught(r.gry, r'.gry) ELSE {r.gry} :
            w' = [bin |-> Inc(w.bin, do_write), gry |-> Encode(Inc(w.bin, do_write)),
                  first |-> caught, seen |-> w.first]
      BY DEF Sync, WriteSide
    <2>2. caught \in Code
      BY <2>1, Types, CaughtType DEF CrossingInv
    <2>3. Inc(w.bin, do_write) \in Counter /\ Encode(Inc(w.bin, do_write)) \in Code
      BY Writes, EncodeBits
    <2>4. w.first \in Code
      BY Types DEF CrossingInv
    <2>5. QED
      BY <2>1, <2>2, <2>3, <2>4
  <1>4. storage' \in [Address -> Byte]
    <2>1. Written \in [Address -> Byte] /\ DOMAIN storage = Address
      BY WrittenType
    <2>2. CASE discarding
      <3>1. storage' = [x \in Address |-> [Written[x] EXCEPT !.stale = TRUE]]
        BY <2>1, <2>2 DEF Sync, Store
      <3>2. \A x \in Address : [Written[x] EXCEPT !.stale = TRUE] \in Byte
        BY <2>1 DEF Byte
      <3>3. QED
        BY <3>1, <3>2
    <2>3. CASE ~ discarding
      BY <2>1, <2>3 DEF Sync, Store
    <2>4. QED
      BY <2>2, <2>3
  <1>5. dirty' \in BOOLEAN
    BY Types DEF Sync, Observe, CrossingInv, CrossingTypeOK
  <1>6. QED
    BY <1>1, <1>2, <1>3, <1>4, <1>5
    DEF CrossingTypeOK, Counter, Code, Bits, Byte, Address, depth

(* Either half of the cycle, and what it does to the read side.            *)
EdgeStep(take) ==
  /\ phase = 1 /\ phase' = 0 /\ discarding' \in {FALSE, discarding}
  /\ take => r_rdy
  /\ ReadSide(take)

LEMMA StepCases ==
  ASSUME CrossingInv, CrossingNext
  PROVE  /\ Sync
         /\ HalfCycle \/ EdgeStep(TRUE) \/ EdgeStep(FALSE)
         /\ discarding' \in BOOLEAN
  BY DEF CrossingNext, WholeCycle, Read, HalfCycle, EdgeStep, CrossingInv,
         CrossingTypeOK

LEMMA ReadSideType ==
  ASSUME CrossingInv, Sync, NEW take \in BOOLEAN, EdgeStep(take)
  PROVE  r' \in [bin : Counter, gry : Code, first : Code, seen : Code, data : Byte]
  <1>1. PICK seen \in Counter, first \in Counter : Moves(seen, first)
    BY EdgeMoves DEF EdgeStep
  <1>2. PICK caught :
          r' = [bin |-> IF discarding THEN Decode(r.seen) ELSE Inc(r.bin, take),
                gry |-> IF discarding THEN r.seen ELSE Encode(Inc(r.bin, take)),
                first |-> caught, seen |-> r.first,
                data |-> storage[Inc(r.bin, take) % depth]]
    BY DEF EdgeStep, ReadSide
  <1>3. /\ r'.bin \in Counter /\ r'.gry \in Code /\ r'.seen \in Code
        /\ r'.first \in Code
    BY <1>1, Writes, Types, EncodeBits DEF Moves, CrossingInv
  <1>4. r'.data \in Byte
    <2>1. r.bin \in Counter /\ 1 \in 1 .. depth
      BY Types, GapType DEF CrossingInv
    <2>2. Inc(r.bin, take) \in Counter
      BY <2>1, IncWraps
    <2>3. Inc(r.bin, take) % depth \in Address
      BY <2>1, <2>2, SlotType
    <2>4. QED
      BY <1>2, <2>3, WrittenType
  <1>5. QED
    BY <1>2, <1>3, <1>4

LEMMA HalfKeeps ==
  ASSUME CrossingInv, HalfCycle, Sync
  PROVE  CrossingInv'
  <1>1. /\ r' = r /\ phase = 0 /\ phase' = 1 /\ discarding' \in BOOLEAN
        /\ Gap' = Gap + IF do_write THEN 1 ELSE 0
    BY HalfDistances DEF HalfCycle
  <1>2. /\ r.bin \in Counter /\ w.bin \in Counter /\ Gap \in Nat
        /\ discarding \in BOOLEAN
    BY Types, GapType DEF CrossingInv, CrossingTypeOK
  <1>3. CrossingTypeOK'
    BY <1>1, SyncTypeOK DEF CrossingInv, CrossingTypeOK
  <1>4. CodesFollow'
    BY <1>1, Writes, ShiftType DEF CrossingInv, CodesFollow, Encode, Bit
  <1>5. ReadView' /\ (Gap <= depth)'
    BY HalfReadView
  <1>6. (WriteView \/ TornFirst \/ TornSeen)'
    BY HalfWriteView
  <1>7. StaleFirst'
    <2>1. Distance(r.bin, r'.bin) = 0
      BY <1>1, <1>2, DistanceType
    <2>2. Gap' <= depth
      BY <1>5 DEF depth
    <2>3. QED
      BY <1>1, <1>2, <1>3, <2>1, <2>2, StaleStaysFirst
  <1>8. OldestShown'
    <2>1. SUFFICES ASSUME ~ dirty', r.gry # r.seen
                   PROVE  r.data = storage'[r.bin % depth]
      BY <1>1 DEF OldestShown, depth
    <2>2. ~ dirty /\ r.data = storage[r.bin % depth]
      BY <1>1, <2>1 DEF Sync, Observe, CrossingInv, OldestShown
    <2>3. Gap > 0
      <3>1. PICK seen \in Counter, first \in Counter : ReadSees(seen, first)
        BY DEF CrossingInv, ReadView
      <3>2. seen # r.bin
        BY <2>1, <3>1 DEF CrossingInv, CodesFollow, ReadSees
      <3>3. /\ Distance(r.bin, seen) \in Nat /\ Distance(r.bin, seen) # 0
            /\ Distance(r.bin, first) \in Nat
        BY <1>2, <3>2, DistanceType
      <3>4. QED
        BY <1>2, <3>1, <3>3 DEF ReadSees
    <2>4. ~ discarding
      BY <1>1, <1>2, <2>2, <2>3 DEF CrossingInv, Emptied
    <2>5. Distance(r.bin, r.bin) < Gap
      BY <1>2, <2>3, DistanceType
    <2>6. Written[r.bin % depth] = storage[r.bin % depth]
      BY <1>2, <2>5, ShownStays
    <2>7. QED
      BY <2>2, <2>4, <2>6 DEF Sync, Store
  <1>9. Emptied'
    BY <1>1 DEF Emptied
  <1>10. QED
    BY <1>3, <1>4, <1>5, <1>6, <1>7, <1>8, <1>9 DEF CrossingInv

(* A discard that meets no write in flight leaves nothing in the FIFO.     *)
LEMMA CleanDiscard ==
  ASSUME CrossingInv, Sync, NEW seen \in Counter, NEW first \in Counter,
         Moves(seen, first), phase = 1, discarding, ~ dirty'
  PROVE  first = r'.bin /\ Gap' = 0
  <1>1. ~ do_write /\ w.gry = r.seen
    BY DEF Sync, Observe
  <1>2. /\ r.bin \in Counter /\ w.bin \in Counter /\ r'.bin \in Counter
        /\ w.gry = Encode(w.bin) /\ r.seen = Encode(seen) /\ Gap \in Nat
    BY Types, GapType DEF CrossingInv, CodesFollow, Moves, ReadSees
  <1>3. seen = w.bin
    BY <1>1, <1>2, EncodeInjective
  <1>4. r'.bin = w.bin
    BY <1>3 DEF Moves
  <1>5. /\ Distance(r.bin, w.bin) = Gap /\ Distance(r.bin, first) \in Nat
        /\ Gap <= Distance(r.bin, first) /\ Distance(r.bin, first) <= Gap
    BY <1>2, <1>3, DistanceType DEF Moves, ReadSees, Gap
  <1>6. /\ Gap' = Gap - Distance(r.bin, r'.bin) + (IF do_write THEN 1 ELSE 0)
        /\ Distance(r'.bin, first) = Distance(r.bin, first) - Distance(r.bin, r'.bin)
    BY MovesDistances
  <1>7. Gap' = 0 /\ Distance(r'.bin, first) = 0
    BY <1>1, <1>2, <1>4, <1>5, <1>6
  <1>8. QED
    BY <1>2, <1>7, DistanceType

LEMMA EdgeKeeps ==
  ASSUME CrossingInv, Sync, NEW take \in BOOLEAN, EdgeStep(take)
  PROVE  CrossingInv'
  <1>1. /\ phase = 1 /\ phase' = 0 /\ discarding' \in {FALSE, discarding}
        /\ discarding \in BOOLEAN
    BY DEF EdgeStep, CrossingInv, CrossingTypeOK
  <1>2. PICK seen \in Counter, first \in Counter : Moves(seen, first)
    BY EdgeMoves DEF EdgeStep
  <1>3. /\ r.bin \in Counter /\ w.bin \in Counter /\ Gap \in Nat
        /\ r'.bin \in Counter /\ r'.gry = Encode(r'.bin)
        /\ r'.seen = Encode(first) /\ w.gry = Encode(w.bin)
        /\ r.seen = Encode(seen)
        /\ depth \in Nat \ {0} /\ Gap <= depth
    BY <1>2, Types, GapType DEF CrossingInv, Moves, ReadSees, CodesFollow
  <1>4. /\ Distance(r.bin, r'.bin) \in Nat
        /\ Distance(r.bin, seen) \in Nat /\ Distance(r.bin, first) \in Nat
        /\ Distance(r.bin, r'.bin) <= Distance(r.bin, seen)
        /\ Distance(r.bin, seen) <= Distance(r.bin, first)
        /\ Distance(r.bin, first) <= Gap
        /\ Gap' = Gap - Distance(r.bin, r'.bin) + IF do_write THEN 1 ELSE 0
        /\ Distance(r'.bin, first)
             = Distance(r.bin, first) - Distance(r.bin, r'.bin)
    BY <1>2, <1>3, MovesDistances, DistanceType DEF Moves, ReadSees
  <1>5. CrossingTypeOK'
    BY <1>1, ReadSideType, SyncTypeOK
  <1>6. CodesFollow'
    BY <1>3, Writes, ShiftType DEF CodesFollow, Encode, Bit
  <1>7. ReadView' /\ (Gap <= depth)'
    BY <1>2, EdgeReadView
  <1>8. (WriteView \/ TornFirst \/ TornSeen)'
    BY <1>1, EdgeWriteView DEF EdgeStep
  <1>9. StaleFirst'
    <2>1. Gap' <= depth
      BY <1>7 DEF depth
    <2>2. QED
      BY <1>3, <1>4, <1>5, <2>1, StaleStaysFirst
  <1>10. ASSUME discarding, ~ dirty'
         PROVE  first = r'.bin /\ Gap' = 0
    BY <1>1, <1>2, <1>10, CleanDiscard
  <1>11. OldestShown'
    <2>1. SUFFICES ASSUME ~ dirty', r'.gry # r'.seen
                   PROVE  r'.data = storage'[r'.bin % depth]
      BY DEF OldestShown, depth
    <2>2. ~ discarding
      BY <1>3, <1>10, <2>1
    <2>3. r'.data = storage[r'.bin % depth]
      BY <2>2 DEF EdgeStep, ReadSide
    <2>4. Distance(r'.bin, first) # 0
      BY <1>3, <2>1, DistanceType
    <2>5. Distance(r.bin, r'.bin) < Gap
      BY <1>3, <1>4, <2>4
    <2>6. Written[r'.bin % depth] = storage[r'.bin % depth]
      BY <1>3, <2>5, ShownStays
    <2>7. QED
      BY <2>2, <2>3, <2>6 DEF Sync, Store
  <1>12. Emptied'
    <2>1. SUFFICES ASSUME ~ dirty', discarding'
                   PROVE  Gap' = 0 /\ ~ s16'.valid /\ ~ word'.valid
      BY DEF Emptied
    <2>2. discarding
      BY <1>1, <2>1
    <2>3. ~ s16'.valid /\ ~ word'.valid
      BY <2>2 DEF Sync, Shift, Stopped, Offer, CrossingInv, CrossingTypeOK
    <2>4. QED
      BY <1>10, <2>1, <2>2, <2>3
  <1>13. QED
    BY <1>5, <1>6, <1>7, <1>8, <1>9, <1>11, <1>12 DEF CrossingInv

LEMMA InitInv == CrossingInit => CrossingInv
  <1>1. SUFFICES ASSUME CrossingInit PROVE CrossingInv
    OBVIOUS
  <1>2. /\ 0 \in Counter /\ Encode(0) \in Code /\ Distance(0, 0) = 0
        /\ depth \in Nat \ {0}
    <2>1. 0 \in Counter
      BY DepthType DEF Counter
    <2>2. QED
      BY <2>1, EncodeBits, DistanceType, DepthType
  <1>3. NoByte \in Byte /\ ~ NoByte.stale
    BY NoByteType
  <1>4. CrossingTypeOK
    <2>1. 0 \in 0 .. NumWords - 1
      BY ClockCrossingAssumption
    <2>2. QED
      BY <1>1, <1>2, <1>3, <2>1 DEF CrossingInit, CrossingTypeOK, Stopped
  <1>5. /\ w.bin = 0 /\ r.bin = 0 /\ w.gry = Encode(0) /\ r.gry = Encode(0)
        /\ w.first = Encode(0) /\ w.seen = Encode(0)
        /\ r.first = Encode(0) /\ r.seen = Encode(0)
        /\ discarding = FALSE /\ ~ s16.valid /\ ~ s16.odd
        /\ ~ s16.shift[1].stale /\ ~ s16.shift[2].stale
    BY <1>1, <1>3 DEF CrossingInit, Stopped
  <1>6. Gap = 0 /\ Gap <= depth
    BY <1>2, <1>5 DEF Gap
  <1>7. CodesFollow /\ ReadView /\ WriteView /\ OldestShown /\ Emptied
    <2>1. ReadSees(0, 0) /\ WriteSees(w.first, 0) /\ WriteSees(w.seen, 0)
      BY <1>2, <1>5, <1>6 DEF ReadSees, WriteSees
    <2>2. ReadView
      BY <1>2, <2>1 DEF ReadView
    <2>3. WriteView
      <3>1. Distance(0, w.bin) <= Distance(0, w.bin)
        BY <1>2, <1>5
      <3>2. QED
        BY <1>2, <2>1, <3>1 DEF WriteView
    <2>4. QED
      BY <1>5, <2>2, <2>3 DEF CodesFollow, OldestShown, Emptied
  <1>8. StaleFirst
    BY <1>4, <1>6, StaleFirstMeans
  <1>9. QED
    BY <1>4, <1>6, <1>7, <1>8 DEF CrossingInv

LEMMA NextInv == CrossingInv /\ [CrossingNext]_crossingVars => CrossingInv'
  <1>1. SUFFICES ASSUME CrossingInv, [CrossingNext]_crossingVars
                 PROVE  CrossingInv'
    OBVIOUS
  <1>2. CASE CrossingNext
    <2>1. Sync /\ (HalfCycle \/ EdgeStep(TRUE) \/ EdgeStep(FALSE))
      BY <1>1, <1>2, StepCases
    <2>2. QED
      BY <1>1, <2>1, HalfKeeps, EdgeKeeps
  <1>3. CASE UNCHANGED crossingVars
    <2>1. /\ phase' = phase /\ discarding' = discarding /\ word' = word
          /\ s16' = s16 /\ w' = w /\ r' = r /\ storage' = storage
          /\ dirty' = dirty
      BY <1>3 DEF crossingVars
    <2>2. CrossingTypeOK' /\ CodesFollow'
      BY <1>1, <2>1
      DEF CrossingInv, CrossingTypeOK, CodesFollow, Encode, Bit, Counter, Code,
          Bits, Byte, depth
    <2>3. Gap' = Gap /\ depth' = depth
      BY <2>1 DEF Gap, Distance, depth
    <2>4. ReadView'
      BY <1>1, <2>1, <2>3
      DEF CrossingInv, ReadView, ReadSees, Counter, Distance, Encode, Bit
    <2>5. WriteView => WriteView'
      BY <2>1, <2>3 DEF WriteView, WriteSees, Counter, Distance, Encode, Bit
    <2>6. TornFirst => TornFirst'
      BY <2>1 DEF TornFirst
    <2>7. TornSeen => TornSeen'
      BY <2>1, <2>3 DEF TornSeen, WriteSees, Counter, Distance, Encode, Bit
    <2>8. StaleFirst'
      BY <1>1, <2>1, <2>3 DEF CrossingInv, StaleFirst, InFifo, Level
    <2>9. OldestShown' /\ Emptied'
      BY <1>1, <2>1, <2>3 DEF CrossingInv, OldestShown, Emptied
    <2>10. QED
      BY <1>1, <2>2, <2>3, <2>4, <2>5, <2>6, <2>7, <2>8, <2>9 DEF CrossingInv
  <1>4. QED
    BY <1>1, <1>2, <1>3

LEMMA CrossingInductive == CrossingSpec => []CrossingInv
  <1>1. QED
    BY InitInv, NextInv, PTL DEF CrossingSpec

(* However busy the crossing is when the analyzer discards, and whatever   *)
(* each clock catches of the counter of the other, the counters stay       *)
(* within a depth of each other, so that no byte is overwritten, and what  *)
(* survives a discard is read before the bytes of the new capture          *)
(* (AsyncFIFOReadReset, Stream16to8).                                      *)
THEOREM CrossingStaysSound == CrossingSpec => []CrossingSound
  <1>1. CrossingInv => CrossingSound
    BY DEF CrossingInv, CrossingSound
  <1>2. QED
    BY <1>1, CrossingInductive, PTL
-----------------------------------------------------------------------------
(* The bytes in the crossing as a queue: g bytes of the FIFO from counter  *)
(* n, then those of Stream16to8.                                           *)

Held == [valid : BOOLEAN, odd : BOOLEAN, shift : Byte \X Byte]

InFlight(s) == IF s.odd THEN 2 ELSE IF s.valid THEN 1 ELSE 0

Chain(memory, n, g, s) ==
  [i \in 1 .. g |-> At(memory, n, i)]
    \o ((IF s.valid THEN <<s.shift[1]>> ELSE <<>>)
          \o (IF s.odd THEN <<s.shift[2]>> ELSE <<>>))

LEMMA ChainItems ==
  ASSUME NEW memory \in [Address -> Byte], NEW n \in Counter,
         NEW g \in 0 .. depth, NEW s \in Held, s.odd => s.valid
  PROVE  /\ Chain(memory, n, g, s) \in Seq(Byte)
         /\ Len(Chain(memory, n, g, s)) = g + InFlight(s)
         /\ \A i \in 1 .. g : Chain(memory, n, g, s)[i] = At(memory, n, i)
         /\ s.valid => Chain(memory, n, g, s)[g + 1] = s.shift[1]
         /\ s.odd => Chain(memory, n, g, s)[g + 2] = s.shift[2]
  <1> DEFINE f == [i \in 1 .. g |-> At(memory, n, i)]
             h == (IF s.valid THEN <<s.shift[1]>> ELSE <<>>)
                    \o (IF s.odd THEN <<s.shift[2]>> ELSE <<>>)
  <1>1. depth \in Nat \ {0} /\ g \in Nat /\ g <= depth
    BY DepthType
  <1>2. f \in Seq(Byte) /\ Len(f) = g /\ \A i \in 1 .. g : f[i] = At(memory, n, i)
    <2>1. \A i \in 1 .. g : At(memory, n, i) \in Byte
      <3>1. \A i \in 1 .. g : i \in 1 .. depth
        BY <1>1
      <3>2. QED
        BY <3>1, SlotType DEF At
    <2>2. QED
      BY <1>1, <2>1
  <1>3. s.shift[1] \in Byte /\ s.shift[2] \in Byte /\ s.valid \in BOOLEAN /\ s.odd \in BOOLEAN
    BY DEF Held
  <1>4. /\ h \in Seq(Byte) /\ Len(h) = InFlight(s)
        /\ s.valid => h[1] = s.shift[1]
        /\ s.odd => h[2] = s.shift[2]
    BY <1>3 DEF InFlight
  <1>5. Chain(memory, n, g, s) = f \o h
    BY DEF Chain
  <1>6. InFlight(s) \in Nat /\ (s.valid => InFlight(s) >= 1) /\ (s.odd => InFlight(s) = 2)
    BY <1>3 DEF InFlight
  <1> HIDE DEF f, h
  <1>7. /\ f \o h \in Seq(Byte) /\ Len(f \o h) = g + InFlight(s)
        /\ \A i \in 1 .. g + InFlight(s) :
             (f \o h)[i] = IF i <= g THEN f[i] ELSE h[i - g]
    <2>1. /\ f \o h \in Seq(Byte) /\ Len(f \o h) = Len(f) + Len(h)
          /\ \A i \in 1 .. Len(f) + Len(h) :
               (f \o h)[i] = IF i <= Len(f) THEN f[i] ELSE h[i - Len(f)]
      <3>1. f \in Seq(Byte) /\ h \in Seq(Byte)
        BY <1>2, <1>4
      <3>2. QED
        BY <3>1, ConcatProperties
    <2>2. Len(f) = g /\ Len(h) = InFlight(s)
      BY <1>2, <1>4
    <2>3. QED
      BY <2>1, <2>2
  <1>8. /\ \A i \in 1 .. g : i \in 1 .. g + InFlight(s) /\ i <= g
        /\ s.valid => g + 1 \in 1 .. g + InFlight(s) /\ ~ (g + 1 <= g) /\ (g + 1) - g = 1
        /\ s.odd => g + 2 \in 1 .. g + InFlight(s) /\ ~ (g + 2 <= g) /\ (g + 2) - g = 2
    BY <1>1, <1>6
  <1>9. \A i \in 1 .. g : (f \o h)[i] = At(memory, n, i)
    BY <1>2, <1>7, <1>8
  <1>10. s.valid => (f \o h)[g + 1] = s.shift[1]
    BY <1>4, <1>7, <1>8
  <1>11. s.odd => (f \o h)[g + 2] = s.shift[2]
    BY <1>4, <1>7, <1>8
  <1>12. QED
    BY <1>5, <1>7, <1>9, <1>10, <1>11

Queue == Chain(storage, r.bin, Gap, s16)

LEMMA QueueType ==
  ASSUME CrossingInv
  PROVE  /\ InFifo \o InShift = Queue
         /\ storage \in [Address -> Byte] /\ r.bin \in Counter
         /\ Gap \in 0 .. depth /\ s16 \in Held /\ (s16.odd => s16.valid)
  <1>1. /\ storage \in [Address -> Byte] /\ r.bin \in Counter
        /\ Gap \in 0 .. depth /\ s16 \in Held /\ (s16.odd => s16.valid)
    BY WrittenType, Types, GapType DEF CrossingInv, CrossingTypeOK, CodesFollow, Held
  <1>2. Level = Gap
    BY GapType
  <1>3. QED
    BY <1>1, <1>2 DEF InFifo, InShift, Queue, Chain, At

LEMMA QueueTypeNext ==
  ASSUME CrossingInv'
  PROVE  /\ (InFifo \o InShift)' = Chain(storage', r'.bin, Gap', s16')
         /\ storage' \in [Address -> Byte] /\ r'.bin \in Counter
         /\ Gap' \in 0 .. depth /\ s16' \in Held /\ (s16'.odd => s16'.valid)
  <1>1. CrossingTypeOK' /\ CodesFollow' /\ (Gap <= depth)'
    BY DEF CrossingInv
  <1>2. /\ storage' \in [Address -> Byte] /\ r'.bin \in Counter /\ w'.bin \in Counter
        /\ s16' \in Held /\ (s16'.odd => s16'.valid)
    BY <1>1 DEF CrossingTypeOK, CodesFollow, Held, Address, Counter, Byte, depth
  <1>3. Gap' = Distance(r'.bin, w'.bin) /\ Gap' <= depth
    BY <1>1 DEF Gap, Distance, depth
  <1>4. Gap' \in 0 .. depth
    BY <1>2, <1>3, DistanceType, DepthType
  <1>5. Level' = (w'.bin - r'.bin) % (2 * depth)
    BY DEF Level, depth
  <1>6. Level' = Gap'
    BY <1>2, <1>3, <1>5, DistanceIsDifference
  <1>7. (InFifo \o InShift)' = Chain(storage', r'.bin, Gap', s16')
    BY <1>6 DEF InFifo, InShift, Chain, At, depth
  <1>8. QED
    BY <1>2, <1>4, <1>7

(* A sequence of Byte from its items: k of them, one more, two more.       *)
LEMMA SeqFromItems ==
  ASSUME NEW p \in Seq(Byte), NEW q \in Seq(Byte), NEW k \in Nat, NEW m \in 0 .. 2,
         Len(p) = k + m, Len(q) = k + m,
         \A i \in 1 .. k : p[i] = q[i],
         m >= 1 => p[k + 1] = q[k + 1],
         m = 2 => p[k + 2] = q[k + 2]
  PROVE  p = q
  <1>1. ASSUME NEW i \in 1 .. Len(p) PROVE p[i] = q[i]
    <2>1. i \in 1 .. k \/ (m >= 1 /\ i = k + 1) \/ (m = 2 /\ i = k + 2)
      OBVIOUS
    <2>2. QED
      BY <2>1
  <1>2. QED
    BY <1>1, SeqEqual

(* What is left of the queue once the byte shown has been read, or not.    *)
LEMMA Rest ==
  ASSUME CrossingInv, NEW a \in {0, 1}, a <= Gap
  PROVE  LET q == IF a = 1 THEN Tail(Queue) ELSE Queue
             k == Gap - a
         IN  /\ Queue \in Seq(Byte) /\ (a = 1 => Queue # <<>>)
             /\ q \in Seq(Byte) /\ k \in Nat /\ Len(q) = k + InFlight(s16)
             /\ \A i \in 1 .. k : q[i] = At(storage, r.bin, i + a)
             /\ s16.valid => q[k + 1] = s16.shift[1]
             /\ s16.odd => q[k + 2] = s16.shift[2]
  <1> DEFINE q == IF a = 1 THEN Tail(Queue) ELSE Queue
             k == Gap - a
  <1>1. /\ Queue \in Seq(Byte) /\ Len(Queue) = Gap + InFlight(s16)
        /\ \A i \in 1 .. Gap : Queue[i] = At(storage, r.bin, i)
        /\ s16.valid => Queue[Gap + 1] = s16.shift[1]
        /\ s16.odd => Queue[Gap + 2] = s16.shift[2]
    BY QueueType, ChainItems DEF Queue
  <1>2. /\ Gap \in Nat /\ k \in Nat /\ InFlight(s16) \in Nat
        /\ (s16.valid => InFlight(s16) >= 1) /\ (s16.odd => InFlight(s16) = 2)
    BY GapType, QueueType DEF InFlight, Held
  <1>3. CASE a = 0
    BY <1>1, <1>2, <1>3
  <1>4. CASE a = 1
    <2>1. Queue # <<>> /\ Len(Queue) >= 1
      BY <1>1, <1>2, <1>4
    <2>2. /\ Tail(Queue) \in Seq(Byte) /\ Len(Tail(Queue)) = Len(Queue) - 1
          /\ \A i \in 1 .. Len(Queue) - 1 : Tail(Queue)[i] = Queue[i + 1]
      BY <1>1, <2>1, HeadTailProperties
    <2>3. \A i \in 1 .. k : i \in 1 .. Len(Queue) - 1 /\ i + 1 \in 1 .. Gap
      BY <1>1, <1>2, <1>4
    <2>4. /\ s16.valid => k + 1 \in 1 .. Len(Queue) - 1 /\ (k + 1) + 1 = Gap + 1
          /\ s16.odd => k + 2 \in 1 .. Len(Queue) - 1 /\ (k + 2) + 1 = Gap + 2
      BY <1>1, <1>2, <1>4
    <2>5. \A i \in 1 .. k : Tail(Queue)[i] = At(storage, r.bin, i + 1)
      BY <1>1, <2>2, <2>3
    <2>6. s16.valid => Tail(Queue)[k + 1] = s16.shift[1]
      BY <1>1, <2>2, <2>4
    <2>7. s16.odd => Tail(Queue)[k + 2] = s16.shift[2]
      BY <1>1, <2>2, <2>4
    <2>8. Len(Tail(Queue)) = k + InFlight(s16)
      BY <1>1, <1>2, <1>4, <2>2
    <2>9. QED
      BY <1>1, <1>2, <1>4, <2>1, <2>2, <2>5, <2>6, <2>7, <2>8
  <1>5. QED
    BY <1>3, <1>4

(* A cycle without a discard: the byte of Stream16to8 that is written      *)
(* stays where it is in the queue, and a word that is taken goes to its    *)
(* end.                                                                    *)
LEMMA ChainMoves ==
  ASSUME CrossingInv, CrossingInv', Sync, ~ discarding,
         NEW a \in {0, 1}, a = Distance(r.bin, r'.bin), a <= Gap,
         Gap' = Gap - a + IF do_write THEN 1 ELSE 0
  PROVE  LET q == IF a = 1 THEN Tail(Queue) ELSE Queue
             new == Chain(storage', r'.bin, Gap', s16')
         IN  \/ new = q
             \/ /\ word.valid
                /\ new = q \o <<byte(word.id, "high"), byte(word.id, "low")>>
  <1> DEFINE q == IF a = 1 THEN Tail(Queue) ELSE Queue
             new == Chain(storage', r'.bin, Gap', s16')
             k == Gap - a
             high == byte(word.id, "high")
             low == byte(word.id, "low")
  <1>1. /\ q \in Seq(Byte) /\ k \in Nat /\ Len(q) = k + InFlight(s16)
        /\ \A i \in 1 .. k : q[i] = At(storage, r.bin, i + a)
        /\ s16.valid => q[k + 1] = s16.shift[1]
        /\ s16.odd => q[k + 2] = s16.shift[2]
    BY Rest
  <1>2. /\ storage' \in [Address -> Byte] /\ r'.bin \in Counter
        /\ Gap' \in 0 .. depth /\ s16' \in Held /\ (s16'.odd => s16'.valid)
    BY QueueTypeNext
  <1>3. /\ new \in Seq(Byte) /\ Len(new) = Gap' + InFlight(s16')
        /\ \A i \in 1 .. Gap' : new[i] = At(storage', r'.bin, i)
        /\ s16'.valid => new[Gap' + 1] = s16'.shift[1]
        /\ s16'.odd => new[Gap' + 2] = s16'.shift[2]
    BY <1>2, ChainItems
  <1>4. storage' = Written
    BY DEF Sync, Store
  <1>5. /\ \A i \in 1 .. k : At(storage', r'.bin, i) = At(storage, r.bin, i + a)
        /\ do_write => At(storage', r'.bin, k + 1) = s16.shift[1]
    BY <1>2, <1>4, FifoMoves
  <1>6. /\ Gap' = k + (IF do_write THEN 1 ELSE 0) /\ Gap' \in Nat
        /\ do_write \in BOOLEAN /\ s16 \in Held /\ (s16.odd => s16.valid)
        /\ word.valid \in BOOLEAN
    BY <1>1, <1>2, Types, QueueType, DepthType DEF CrossingInv
  <1> HIDE DEF q, new, k
  <1>7. \A i \in 1 .. k : i \in 1 .. Gap'
    BY <1>1, <1>6
  <1>8. \A i \in 1 .. k : new[i] = q[i]
    BY <1>1, <1>3, <1>5, <1>7
  <1>9. do_write => s16.valid /\ new[k + 1] = s16.shift[1]
    BY <1>1, <1>3, <1>5, <1>6 DEF do_write
  <1>10. high \in Byte /\ low \in Byte
    BY Types DEF CrossingInv, byte, Byte
  <1> HIDE DEF high, low
  <1>11. CASE Stalled
    <2>1. s16' = s16
      BY <1>11 DEF Sync, Shift, TakesWord
    <2>2. ~ do_write /\ Gap' = k
      BY <1>1, <1>6, <1>11 DEF Stalled, do_write
    <2>3. InFlight(s16) \in 0 .. 2 /\ (InFlight(s16) >= 1 => s16.valid)
          /\ (InFlight(s16) = 2 => s16.odd)
      BY <1>6 DEF InFlight
    <2> DEFINE m == InFlight(s16)
    <2>4. Len(new) = k + m /\ Len(q) = k + m
      BY <1>1, <1>3, <2>1, <2>2
    <2>5. /\ m >= 1 => new[k + 1] = q[k + 1]
          /\ m = 2 => new[k + 2] = q[k + 2]
      BY <1>1, <1>3, <2>1, <2>2, <2>3
    <2> HIDE DEF m
    <2>6. m \in 0 .. 2
      BY <2>3 DEF m
    <2>7. new = q
      BY <1>1, <1>3, <1>8, <2>4, <2>5, <2>6, SeqFromItems
    <2>8. QED
      BY <2>7 DEF new, q
  <1>12. CASE ~ Stalled /\ s16.odd
    <2>1. s16' = [valid |-> TRUE, odd |-> FALSE, shift |-> <<s16.shift[2], NoByte>>]
      BY <1>12 DEF Sync, Shift, TakesWord
    <2>2. do_write /\ Gap' = k + 1
      BY <1>6, <1>12 DEF Stalled, do_write
    <2>3. InFlight(s16) = 2 /\ InFlight(s16') = 1
      BY <1>12, <2>1 DEF InFlight
    <2>4. Len(new) = k + 2 /\ Len(q) = k + 2
      BY <1>1, <1>3, <2>2, <2>3
    <2>5. new[k + 1] = q[k + 1]
      BY <1>1, <1>9, <2>2
    <2>6. new[k + 2] = q[k + 2]
      <3>1. new[Gap' + 1] = s16.shift[2]
        BY <1>3, <2>1
      <3>2. Gap' + 1 = k + 2
        BY <1>1, <2>2
      <3>3. QED
        BY <1>1, <1>12, <3>1, <3>2
    <2>7. new = q
      BY <1>1, <1>3, <1>8, <2>4, <2>5, <2>6, SeqFromItems
    <2>8. QED
      BY <2>7 DEF new, q
  <1>13. CASE TakesWord
    <2>1. /\ ~ Stalled /\ ~ s16.odd
          /\ s16' = IF word.valid
                    THEN [valid |-> TRUE, odd |-> TRUE, shift |-> <<high, low>>]
                    ELSE [s16 EXCEPT !.valid = FALSE]
      BY <1>13 DEF Sync, Shift, TakesWord, high, low
    <2>2. do_write <=> s16.valid
      BY <2>1 DEF Stalled, do_write
    <2>3. Gap' = k + InFlight(s16) /\ InFlight(s16) \in 0 .. 1 /\ Gap' = Len(q)
      BY <1>1, <1>6, <2>1, <2>2 DEF InFlight
    <2>4. InFlight(s16) >= 1 => new[k + 1] = q[k + 1]
      BY <1>1, <1>9, <2>1, <2>2 DEF InFlight
    <2>5. CASE ~ word.valid
      <3>1. InFlight(s16') = 0
        BY <1>6, <2>1, <2>5 DEF InFlight, Held
      <3>2. Len(new) = k + InFlight(s16)
        BY <1>1, <1>3, <2>3, <3>1
      <3>3. new = q
        BY <1>1, <1>3, <1>8, <2>3, <2>4, <3>2, SeqFromItems
      <3>4. QED
        BY <3>3 DEF new, q
    <2>6. CASE word.valid
      <3> DEFINE g == Len(q)
                 more == q \o <<high, low>>
      <3>1. s16'.valid /\ s16'.odd /\ s16'.shift = <<high, low>>
        BY <2>1, <2>6
      <3>2. /\ <<high, low>> \in Seq(Byte) /\ Len(<<high, low>>) = 2
            /\ <<high, low>>[1] = high /\ <<high, low>>[2] = low
        BY <1>10
      <3>3. /\ more \in Seq(Byte) /\ Len(more) = g + 2
            /\ \A i \in 1 .. g + 2 :
                 more[i] = IF i <= g THEN q[i] ELSE <<high, low>>[i - g]
        BY <1>1, <3>2, ConcatProperties
      <3>4. g \in Nat /\ g = k + InFlight(s16) /\ Gap' = g
        BY <1>1, <2>3
      <3> HIDE DEF more, g
      <3>5. /\ \A i \in 1 .. g : more[i] = q[i]
            /\ more[g + 1] = high /\ more[g + 2] = low
        <4>1. \A i \in 1 .. g : i \in 1 .. g + 2 /\ i <= g
          BY <3>4
        <4>2. /\ g + 1 \in 1 .. g + 2 /\ ~ (g + 1 <= g) /\ (g + 1) - g = 1
              /\ g + 2 \in 1 .. g + 2 /\ ~ (g + 2 <= g) /\ (g + 2) - g = 2
          BY <3>4
        <4>3. \A i \in 1 .. g : more[i] = q[i]
          BY <3>3, <4>1
        <4>4. more[g + 1] = high
          BY <3>2, <3>3, <4>2
        <4>5. more[g + 2] = low
          BY <3>2, <3>3, <4>2
        <4>6. QED
          BY <4>3, <4>4, <4>5
      <3>6. Len(new) = g + 2
        BY <1>3, <3>1, <3>4 DEF InFlight
      <3>7. \A i \in 1 .. g : new[i] = q[i]
        <4>1. ASSUME NEW i \in 1 .. g PROVE new[i] = q[i]
          <5>1. i \in 1 .. k \/ (i = k + 1 /\ InFlight(s16) >= 1)
            BY <1>1, <2>3, <3>4
          <5>2. QED
            BY <1>8, <2>4, <5>1
        <4>2. QED
          BY <4>1
      <3>8. new[g + 1] = high /\ new[g + 2] = low
        BY <1>3, <3>1, <3>2, <3>4
      <3>9. new = more
        BY <1>3, <3>3, <3>4, <3>5, <3>6, <3>7, <3>8, SeqFromItems
      <3>10. QED
        BY <2>6, <3>9 DEF new, q, more, high, low
    <2>7. QED
      BY <2>5, <2>6
  <1>14. QED
    BY <1>11, <1>12, <1>13 DEF TakesWord
-----------------------------------------------------------------------------
(* Each step of the crossing as a step of the queue.                       *)

(* Nothing is shown when the FIFO is empty.                                *)
LEMMA EmptyShowsNothing ==
  ASSUME CrossingInv', Gap' = 0
  PROVE  r'.gry = r'.seen
  <1>1. (ReadView /\ CodesFollow /\ CrossingTypeOK)'
    BY DEF CrossingInv
  <1>2. PICK seen \in Counter, first \in Counter :
          /\ r'.seen = Encode(seen)
          /\ Distance(r'.bin, seen) <= Distance(r'.bin, first)
          /\ Distance(r'.bin, first) <= Gap'
    BY <1>1 DEF ReadView, ReadSees, Counter, Distance, Encode, Bit, depth
  <1>3. r'.bin \in Counter /\ r'.gry = Encode(r'.bin)
    BY <1>1 DEF CrossingTypeOK, CodesFollow, Counter, Encode, Bit, depth
  <1>4. Distance(r'.bin, seen) \in Nat /\ Distance(r'.bin, first) \in Nat
    BY <1>3, DistanceType
  <1>5. Distance(r'.bin, seen) = 0
    BY <1>2, <1>4
  <1>6. seen = r'.bin
    BY <1>3, <1>5, DistanceType
  <1>7. QED
    BY <1>2, <1>3, <1>6

(* What is shown after a step is the head of the queue.                    *)
LEMMA HeadShown ==
  ASSUME CrossingInv', ~ dirty', r_rdy'
  PROVE  LET new == Chain(storage', r'.bin, Gap', s16')
         IN  new # <<>> /\ r'.data = Head(new)
  <1> DEFINE new == Chain(storage', r'.bin, Gap', s16')
  <1>1. r'.gry # r'.seen
    BY DEF r_rdy
  <1>2. Gap' # 0
    BY <1>1, EmptyShowsNothing
  <1>3. /\ storage' \in [Address -> Byte] /\ r'.bin \in Counter
        /\ Gap' \in 0 .. depth /\ s16' \in Held /\ (s16'.odd => s16'.valid)
    BY QueueTypeNext
  <1>4. /\ new \in Seq(Byte) /\ Len(new) = Gap' + InFlight(s16')
        /\ \A i \in 1 .. Gap' : new[i] = At(storage', r'.bin, i)
    BY <1>3, ChainItems
  <1>5. Gap' \in Nat \ {0} /\ InFlight(s16') \in Nat
    BY <1>2, <1>3, DepthType DEF InFlight
  <1>6. 1 \in 1 .. Gap' /\ Len(new) >= 1
    BY <1>4, <1>5
  <1>7. new[1] = storage'[r'.bin % depth]
    <2>1. r'.bin + 1 - 1 = r'.bin
      BY <1>3, CounterPart
    <2>2. QED
      BY <1>4, <1>6, <2>1 DEF At
  <1>8. r'.data = storage'[r'.bin % depth]
    BY <1>1 DEF CrossingInv, OldestShown, depth
  <1>9. QED
    BY <1>4, <1>6, <1>7, <1>8

LEMMA NextFront ==
  ASSUME CrossingInv', ~ dirty'
  PROVE  (IF r_rdy THEN r.data ELSE None)'
           \in CrossingPromise!Front(Chain(storage', r'.bin, Gap', s16'))
  BY HeadShown DEF CrossingPromise!Front

LEMMA MoveStep ==
  ASSUME CrossingInv, CrossingInv', Sync, ~ discarding, ~ dirty',
         NEW a \in {0, 1}, a = Distance(r.bin, r'.bin), a <= Gap,
         a = 1 => r_rdy,
         Gap' = Gap - a + IF do_write THEN 1 ELSE 0
  PROVE  CrossingPromise!Move
  <1> DEFINE q == IF a = 1 THEN Tail(Queue) ELSE Queue
             new == Chain(storage', r'.bin, Gap', s16')
             input == IF word.valid
                      THEN <<byte(word.id, "high"), byte(word.id, "low")>>
                      ELSE <<>>
             output == IF r_rdy THEN r.data ELSE None
  <1>1. InFifo \o InShift = Queue /\ (InFifo \o InShift)' = new
    BY QueueType, QueueTypeNext
  <1>2. new = q \/ new = q \o input
    BY ChainMoves
  <1>3. q \in IF output # None THEN {Queue, Tail(Queue)} ELSE {Queue}
    <2>1. a = 1 => output # None
      BY Types, NoneIsNoByte DEF CrossingInv
    <2>2. QED
      BY <2>1
  <1>4. Len(new) <= depth + 2
    <2>1. Len(new) = Gap' + InFlight(s16') /\ Gap' \in 0 .. depth
      BY QueueTypeNext, ChainItems
    <2>2. InFlight(s16') \in 0 .. 2
      BY DEF InFlight
    <2>3. QED
      BY <2>1, <2>2, DepthType
  <1>5. output' \in CrossingPromise!Front(new)
    BY NextFront
  <1> HIDE DEF new, q, output
  <1>6. QED
    BY <1>1, <1>2, <1>3, <1>4, <1>5
    DEF CrossingPromise!Move, CrossingPromise!Take, CrossingPromise!Put, output

LEMMA DiscardStep ==
  ASSUME CrossingInv, CrossingInv', Sync, discarding, Gap' = 0
  PROVE  CrossingPromise!Discard
  <1>1. s16' = Stopped
    BY DEF Sync, Shift
  <1>2. (InFifo \o InShift)' = <<>>
    <2>1. /\ (InFifo \o InShift)' = Chain(storage', r'.bin, Gap', s16')
          /\ storage' \in [Address -> Byte] /\ r'.bin \in Counter
          /\ Gap' \in 0 .. depth /\ s16' \in Held /\ (s16'.odd => s16'.valid)
      BY QueueTypeNext
    <2>2. InFlight(s16') = 0
      BY <1>1 DEF Stopped, InFlight
    <2>3. /\ Chain(storage', r'.bin, Gap', s16') \in Seq(Byte)
          /\ Len(Chain(storage', r'.bin, Gap', s16')) = 0
      <3>1. /\ Chain(storage', r'.bin, Gap', s16') \in Seq(Byte)
            /\ Len(Chain(storage', r'.bin, Gap', s16')) = Gap' + InFlight(s16')
        BY <2>1, ChainItems
      <3>2. QED
        BY <2>2, <3>1
    <2>4. QED
      BY <2>1, <2>3, EmptySeq
  <1>3. ~ r_rdy'
    BY EmptyShowsNothing DEF r_rdy
  <1>4. QED
    BY <1>2, <1>3 DEF CrossingPromise!Discard

LEMMA StepIsQueueStep ==
  CrossingInv /\ CrossingInv' /\ [CrossingNext]_crossingVars
    => [CrossingPromise!Next]_(CrossingPromise!vars)
  <1>1. SUFFICES ASSUME CrossingInv, CrossingInv', [CrossingNext]_crossingVars
                 PROVE  [CrossingPromise!Next]_(CrossingPromise!vars)
    OBVIOUS
  <1>2. CASE UNCHANGED crossingVars
    <2>1. /\ discarding' = discarding /\ word' = word /\ s16' = s16 /\ w' = w
          /\ r' = r /\ storage' = storage /\ dirty' = dirty
      BY <1>2 DEF crossingVars
    <2>2. (InFifo \o InShift)' = InFifo \o InShift
      BY <2>1 DEF InFifo, InShift, Level, depth
    <2>3. r_rdy' = r_rdy
      BY <2>1 DEF r_rdy
    <2>4. QED
      BY <2>1, <2>2, <2>3 DEF CrossingPromise!vars
  <1>3. CASE CrossingNext /\ dirty'
    BY <1>3 DEF CrossingPromise!Next
  <1>4. CASE CrossingNext /\ ~ dirty'
    <2>1. Sync /\ (HalfCycle \/ EdgeStep(TRUE) \/ EdgeStep(FALSE))
      BY <1>1, <1>4, StepCases
    <2>2. r.bin \in Counter /\ Gap \in Nat /\ discarding \in BOOLEAN
          /\ dirty \in BOOLEAN /\ dirty' \in BOOLEAN
      BY <1>1, Types, GapType DEF CrossingInv, CrossingTypeOK
    <2>3. CASE HalfCycle
      <3>1. /\ r' = r /\ phase = 0 /\ ~ dirty
            /\ Gap' = Gap + (IF do_write THEN 1 ELSE 0)
        BY <1>1, <1>4, <2>1, <2>3, HalfDistances DEF Sync, Observe
      <3>2. CASE discarding
        <4>1. Gap = 0 /\ ~ s16.valid
          BY <1>1, <3>1, <3>2 DEF CrossingInv, Emptied
        <4>2. Gap' = 0
          BY <3>1, <4>1 DEF do_write
        <4>3. QED
          BY <1>1, <2>1, <3>2, <4>2, DiscardStep DEF CrossingPromise!Next
      <3>3. CASE ~ discarding
        <4>1. 0 = Distance(r.bin, r'.bin)
          BY <2>2, <3>1, DistanceType
        <4>2. Gap' = Gap - 0 + (IF do_write THEN 1 ELSE 0)
          BY <2>2, <3>1
        <4>3. CrossingPromise!Move
          BY <1>1, <1>4, <2>1, <2>2, <3>3, <4>1, <4>2, MoveStep
        <4>4. QED
          BY <3>1, <4>3 DEF CrossingPromise!Next
      <3>4. QED
        BY <3>2, <3>3
    <2>4. ASSUME NEW take \in BOOLEAN, EdgeStep(take)
          PROVE  [CrossingPromise!Next]_(CrossingPromise!vars)
      <3>1. PICK seen \in Counter, first \in Counter : Moves(seen, first)
        BY <1>1, <2>1, <2>4, EdgeMoves DEF EdgeStep
      <3>2. CASE discarding
        <4>1. Gap' = 0
          BY <1>1, <1>4, <2>1, <2>4, <3>1, <3>2, CleanDiscard DEF EdgeStep
        <4>2. QED
          BY <1>1, <2>1, <3>2, <4>1, DiscardStep DEF CrossingPromise!Next
      <3>3. CASE ~ discarding
        <4> DEFINE a == IF take THEN 1 ELSE 0
        <4>1. ~ dirty
          BY <1>4, <2>1, <2>2, <3>3 DEF Sync, Observe
        <4>2. r'.bin = (IF take THEN Following(r.bin) ELSE r.bin)
          <5>1. r'.bin = Inc(r.bin, take)
            BY <2>4, <3>3 DEF EdgeStep, ReadSide
          <5>2. QED
            BY <2>2, <5>1, IncWraps
        <4>3. a = Distance(r.bin, r'.bin)
          <5>1. Distance(r.bin, r.bin) = 0 /\ Distance(r.bin, Following(r.bin)) = 1
            BY <2>2, DistanceType, DistanceOne
          <5>2. QED
            BY <4>2, <5>1
        <4>4. Gap' = Gap - Distance(r.bin, r'.bin) + (IF do_write THEN 1 ELSE 0)
          BY <1>1, <2>1, <3>1, MovesDistances
        <4>5. Distance(r.bin, r'.bin) <= Gap
          <5>1. /\ Distance(r.bin, r'.bin) \in Nat /\ Distance(r.bin, seen) \in Nat
                /\ Distance(r.bin, first) \in Nat
            BY <2>2, <3>1, DistanceType DEF Moves
          <5>2. QED
            BY <2>2, <3>1, <5>1 DEF Moves, ReadSees
        <4>6. a \in {0, 1} /\ (a = 1 => r_rdy)
          BY <2>4 DEF EdgeStep
        <4> HIDE DEF a
        <4>7. Gap' = Gap - a + (IF do_write THEN 1 ELSE 0) /\ a <= Gap
          BY <4>3, <4>4, <4>5
        <4>8. CrossingPromise!Move
          BY <1>1, <1>4, <2>1, <3>3, <4>3, <4>6, <4>7, MoveStep
        <4>9. QED
          BY <4>1, <4>8 DEF CrossingPromise!Next
      <3>4. QED
        BY <2>2, <3>2, <3>3
    <2>5. QED
      BY <2>1, <2>3, <2>4
  <1>5. QED
    BY <1>1, <1>2, <1>3, <1>4

LEMMA InitIsEmpty == CrossingInit => CrossingPromise!Init
  <1>1. SUFFICES ASSUME CrossingInit PROVE CrossingPromise!Init
    OBVIOUS
  <1>2. CrossingInv
    BY <1>1, InitInv
  <1>3. /\ w.bin = 0 /\ r.bin = 0 /\ r.gry = r.seen /\ dirty = FALSE
        /\ ~ s16.valid /\ ~ s16.odd
    BY <1>1 DEF CrossingInit, Stopped
  <1>4. Gap = 0
    BY <1>2, <1>3, Types, DistanceType DEF CrossingInv, Gap
  <1>5. InFlight(s16) = 0
    BY <1>3 DEF InFlight
  <1>6. InFifo \o InShift \in Seq(Byte) /\ Len(InFifo \o InShift) = 0
    <2>1. InFifo \o InShift = Queue
      BY <1>2, QueueType
    <2>2. Queue \in Seq(Byte) /\ Len(Queue) = Gap + InFlight(s16)
      BY <1>2, QueueType, ChainItems DEF Queue
    <2>3. QED
      BY <1>4, <1>5, <2>1, <2>2
  <1>7. InFifo \o InShift = <<>>
    BY <1>6, EmptySeq
  <1>8. ~ r_rdy
    BY <1>3 DEF r_rdy
  <1>9. QED
    BY <1>3, <1>7, <1>8 DEF CrossingPromise!Init

(* The bytes of the words stay a queue across the two clocks, although     *)
(* each side acts on an old counter of the other that it may catch in the  *)
(* middle of a change: none is lost, doubled or overtaken, and a discard   *)
(* that meets no write in flight leaves none (AsyncFIFOReadReset,          *)
(* Stream16to8).                                                           *)
THEOREM CrossingImplementsQueue == CrossingSpec => BytesQueued
  <1>1. QED
    BY InitIsEmpty, StepIsQueueStep, CrossingInductive, PTL
    DEF CrossingSpec, BytesQueued, CrossingPromise!Spec
=============================================================================
