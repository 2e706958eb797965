---------------------------- MODULE DelayProofs ----------------------------
(***************************************************************************)
(* serialization_delay() is exact for every width of a word, every byte    *)
(* count, every bandwidth and every multiplier; with 64 bits and a         *)
(* multiplier of 8000000000 it is the function of the code.                *)
(***************************************************************************)
EXTENDS SerializationDelay, InductionLemmas

(* The powers of two are positive and double at every step.                  *)
LEMMA PowerFacts ==
  /\ Power[0] = 1
  /\ \A n \in 0..Width : Power[n] \in Nat \ {0}
  /\ \A n \in 0..Width - 1 : Power[n + 1] = 2 * Power[n]
<1> USE WidthAssumption
<1> DEFINE P(m, f) == f = [n \in 0..m |-> IF n = 0 THEN 1 ELSE 2 * f[n - 1]]
           T == {m \in Nat : \E f : P(m, f)}
<1>1. 0 \in T
  <2> DEFINE f == [n \in 0..0 |-> 1]
  <2>1. P(0, f)
    OBVIOUS
  <2> QED BY <2>1, Zenon
<1>2. ASSUME NEW m \in Nat, m \in T PROVE m + 1 \in T
  <2>1. PICK f : P(m, f)
    BY <1>2, Zenon
  <2> DEFINE g == [n \in 0..m + 1 |-> IF n = m + 1 THEN 2 * f[m] ELSE f[n]]
  <2>2. P(m + 1, g)
    <3> SUFFICES ASSUME NEW n \in 0..m + 1
                 PROVE  g[n] = IF n = 0 THEN 1 ELSE 2 * g[n - 1]
      BY Zenon
    <3>1. CASE n = m + 1
      BY <3>1
    <3>2. CASE n \in 0..m
      <4>1. g[n] = f[n] /\ (n # 0 => g[n - 1] = f[n - 1])
        BY <3>2
      <4>2. f[n] = IF n = 0 THEN 1 ELSE 2 * f[n - 1]
        <5> HIDE DEF g
        <5> QED BY <2>1, <3>2, Zenon
      <4> QED BY <4>1, <4>2
    <3> QED BY <3>1, <3>2
  <2>3. m + 1 \in Nat
    OBVIOUS
  <2> QED BY <2>2, <2>3, Zenon
<1>3. Width \in T
  <2> HIDE DEF T
  <2> QED BY <1>1, <1>2, Induction
<1>4. Power = [n \in 0..Width |-> IF n = 0 THEN 1 ELSE 2 * Power[n - 1]]
  BY <1>3, Zenon DEF Power
<1>5. Power[0] = 1
  <2>1. 0 \in 0..Width
    OBVIOUS
  <2> QED BY <1>4, <2>1, Zenon
<1>6. ASSUME NEW n \in 0..Width - 1 PROVE Power[n + 1] = 2 * Power[n]
  <2>1. n + 1 \in 0..Width /\ n + 1 # 0 /\ (n + 1) - 1 = n
    OBVIOUS
  <2> QED BY <1>4, <2>1, Zenon
<1> DEFINE U == {m \in Nat : m <= Width => Power[m] \in Nat \ {0}}
<1>7. 0 \in U
  BY <1>5
<1>8. ASSUME NEW m \in Nat, m \in U PROVE m + 1 \in U
  BY <1>6, <1>8
<1>9. \A m \in Nat : m \in U
  <2> HIDE DEF U
  <2> QED BY <1>7, <1>8, Induction
<1> QED BY <1>5, <1>6, <1>9

(* Division with remainder, in both directions.                              *)
LEMMA Division ==
  ASSUME NEW a \in Nat, NEW b \in Nat \ {0}
  PROVE  /\ a \div b \in Nat /\ a % b \in Nat
         /\ a % b < b
         /\ a = (a \div b) * b + (a % b)
BY SMT

(* A quotient and a remainder below the divisor are the only ones.           *)
LEMMA DivisionUnique ==
  ASSUME NEW b \in Nat \ {0}, NEW q \in Nat, NEW r \in Nat, r < b
  PROVE  (q * b + r) \div b = q /\ (q * b + r) % b = r
BY SMT

(* A value below the number of words is not changed by wrapping around.      *)
LEMMA WordExact ==
  ASSUME NEW n \in Nat, n <= maximum
  PROVE  Word(n) = n
<1>1. Power[Width] \in Nat \ {0}
  BY WidthAssumption, PowerFacts
<1> QED BY <1>1 DEF Word, maximum

(* Products of naturals are naturals and grow with their factors.            *)
LEMMA ProductGrows ==
  ASSUME NEW a \in Nat, NEW b \in Nat, NEW c \in Nat, a <= b
  PROVE  a * c \in Nat /\ a * c <= b * c
BY SMT

(* A common factor can be cancelled from an inequality.                      *)
LEMMA CancelFactor ==
  ASSUME NEW a \in Nat, NEW b \in Nat, NEW c \in Nat \ {0}, a * c <= b * c
  PROVE  a <= b
<1>1. CASE b < a
  <2>1. b + 1 <= a /\ b + 1 \in Nat
    BY <1>1
  <2>2. (b + 1) * c <= a * c
    BY <2>1, ProductGrows
  <2>3. (b + 1) * c = b * c + c /\ b * c \in Nat /\ a * c \in Nat
    BY SMT
  <2> QED BY <2>2, <2>3
<1> QED BY <1>1

(* The operands of an addition of the loop whose sum is at most M times the  *)
(* bandwidth, for a word M.                                                  *)
Bounded(q, r, n, M) ==
  /\ q \in Nat /\ r \in Nat /\ n \in Nat /\ M \in Nat
  /\ maximum \in Nat /\ bandwidth \in Nat \ {0} /\ bandwidth <= maximum
  /\ r < bandwidth /\ n < bandwidth /\ M <= maximum
  /\ q * bandwidth + r + n <= M * bandwidth

(* One addition of the loop: the pair stands for quotient * bandwidth +      *)
(* remainder, and adding a numerator below the bandwidth never wraps, as     *)
(* long as the sum stays within the largest word times the bandwidth.        *)
LEMMA PlusExact ==
  ASSUME NEW q, NEW r, NEW n, NEW M, Bounded(q, r, n, M)
  PROVE  \E q2, r2 \in Nat :
           /\ Plus(q, r, n) = <<q2, r2>>
           /\ r2 < bandwidth
           /\ q2 * bandwidth + r2 = q * bandwidth + r + n
<1> USE DEF Bounded
<1>0. q * bandwidth \in Nat /\ M * bandwidth \in Nat
  BY ProductGrows
<1>1. Word(bandwidth - n) = bandwidth - n
  BY WordExact
<1>2. CASE r >= bandwidth - n
  <2>1. (q + 1) * bandwidth = q * bandwidth + bandwidth
    BY SMT
  <2>2. (q + 1) * bandwidth <= M * bandwidth
    BY <1>0, <1>2, <2>1
  <2>3. q + 1 \in Nat /\ q + 1 <= M
    BY <2>2, CancelFactor
  <2>4. Word(q + 1) = q + 1
    BY <2>3, WordExact
  <2>5. r - (bandwidth - n) \in Nat /\ r - (bandwidth - n) < bandwidth
        /\ r - (bandwidth - n) <= maximum
    BY <1>2
  <2>6. Word(r - (bandwidth - n)) = r - (bandwidth - n)
    BY <2>5, WordExact
  <2>7. Plus(q, r, n) = <<q + 1, r - (bandwidth - n)>>
    BY <1>1, <1>2, <2>4, <2>6 DEF Plus
  <2>8. (q + 1) * bandwidth + (r - (bandwidth - n)) = q * bandwidth + r + n
    BY <1>0, <2>1
  <2> QED BY <2>3, <2>5, <2>7, <2>8
<1>3. CASE ~(r >= bandwidth - n)
  <2>1. r + n \in Nat /\ r + n < bandwidth /\ r + n <= maximum
    BY <1>3
  <2>2. Word(r + n) = r + n
    BY <2>1, WordExact
  <2>3. Plus(q, r, n) = <<q, r + n>>
    BY <1>1, <1>3, <2>2 DEF Plus
  <2>4. q * bandwidth + (r + n) = q * bandwidth + r + n
    BY <1>0
  <2> QED BY <2>1, <2>3, <2>4
<1> QED BY <1>2, <1>3

(* Reading the multiplier bit by bit from the top: the prefix that ends in   *)
(* bit i is twice the prefix before it, plus bit i.                          *)
LEMMA PrefixStep ==
  ASSUME NEW m \in Nat, NEW i \in 0..Width - 1
  PROVE  /\ m \div Power[i + 1] \in Nat /\ m \div Power[i] \in Nat
         /\ Bit(m, i) \in {0, 1}
         /\ m \div Power[i] = 2 * (m \div Power[i + 1]) + Bit(m, i)
         /\ m \div Power[i] <= m
<1> DEFINE p == Power[i]  x == m \div p  y == x \div 2  b == x % 2  r == m % p
<1>1. p \in Nat \ {0} /\ Power[i + 1] = 2 * p
  BY WidthAssumption, PowerFacts
<1> HIDE DEF p
<1>2. x \in Nat /\ r \in Nat /\ r < p /\ m = x * p + r
  BY <1>1, Division
<1> HIDE DEF x, r
<1>3. y \in Nat /\ b \in {0, 1} /\ x = 2 * y + b
  BY <1>2
<1> HIDE DEF y, b
<1>4. m = y * (2 * p) + (b * p + r)
  <2>1. x * p = (2 * y) * p + b * p
    BY <1>1, <1>2, <1>3, SMT
  <2>2. (2 * y) * p = y * (2 * p)
    BY <1>1, <1>3, SMT
  <2>3. y * (2 * p) \in Nat /\ b * p \in Nat
    BY <1>1, <1>3, SMT
  <2> QED BY <1>2, <2>1, <2>2, <2>3
<1>5. b * p + r \in Nat /\ b * p + r < 2 * p /\ 2 * p \in Nat \ {0}
  BY <1>1, <1>2, <1>3
<1>6. m \div (2 * p) = y
  BY <1>3, <1>4, <1>5, DivisionUnique
<1>7. x <= m
  <2>1. x * 1 <= x * p
    BY <1>1, <1>2, SMT
  <2>2. x * p \in Nat
    BY <1>1, <1>2, SMT
  <2> QED BY <1>2, <2>1, <2>2
<1> QED BY <1>1, <1>2, <1>3, <1>6, <1>7 DEF p, x, y, b, Bit

----------------------------------------------------------------------------
(* What the loop of multiply_fraction keeps: quotient and remainder divide   *)
(* the fractional bytes times the bits of the multiplier read so far.        *)
Dividing ==
  /\ bytes # 0 /\ bandwidth # 0
  /\ bit \in -1..Width - 1
  /\ WholeSeconds <= maximum \div multiplier
  /\ quotient \in Nat /\ remainder \in Nat /\ remainder < bandwidth
  /\ quotient * bandwidth + remainder =
       (multiplier \div Power[bit + 1]) * FractionalBytes

DelayInv ==
  /\ bytes \in Words /\ bandwidth \in Words /\ multiplier \in Multipliers
  /\ running \in BOOLEAN
  /\ running => result = None
  /\ bit = None => quotient = 0 /\ remainder = 0
  /\ bit # None => Dividing
  /\ DelayExact

(* The arguments are naturals, and the product is split into whole seconds   *)
(* and fractional bytes.                                                     *)
LEMMA SplitBytes ==
  ASSUME bytes \in Words, bandwidth \in Words, bandwidth # 0,
         multiplier \in Multipliers
  PROVE  /\ maximum \in Nat /\ bytes \in Nat /\ bandwidth \in Nat \ {0}
         /\ bandwidth <= maximum
         /\ multiplier \in Nat \ {0} /\ multiplier <= maximum
         /\ WholeSeconds \in Nat /\ FractionalBytes \in Nat
         /\ FractionalBytes < bandwidth
         /\ bytes * multiplier =
              (WholeSeconds * multiplier) * bandwidth + multiplier * FractionalBytes
<1>1. Power[Width] \in Nat \ {0}
  BY WidthAssumption, PowerFacts
<1>2. /\ maximum \in Nat /\ bytes \in Nat /\ bandwidth \in Nat \ {0}
      /\ bandwidth <= maximum /\ multiplier \in Nat \ {0} /\ multiplier <= maximum
  BY <1>1, WidthAssumption DEF maximum, Words
<1> DEFINE w == WholeSeconds  f == FractionalBytes
<1>3. w \in Nat /\ f \in Nat /\ f < bandwidth /\ bytes = w * bandwidth + f
  BY <1>2, Division DEF WholeSeconds, FractionalBytes
<1> HIDE DEF w, f
<1>4. (w * bandwidth + f) * multiplier = (w * bandwidth) * multiplier + f * multiplier
  BY <1>2, <1>3, SMT
<1>5. (w * bandwidth) * multiplier = (w * multiplier) * bandwidth
      /\ f * multiplier = multiplier * f
  BY <1>2, <1>3, SMT
<1> QED BY <1>2, <1>3, <1>4, <1>5 DEF w, f

(* The checks before the loop refuse only what has no value or no room.      *)
LEMMA BeginKeeps ==
  ASSUME DelayInv, Begin
  PROVE  DelayInv'
<1>1. /\ bytes \in Words /\ bandwidth \in Words /\ multiplier \in Multipliers
      /\ running = TRUE /\ bit = None /\ result = None /\ quotient = 0 /\ remainder = 0
      /\ UNCHANGED <<bytes, bandwidth, multiplier, quotient, remainder, result>>
  BY DEF DelayInv, Begin
<1>2. CASE bytes = 0 \/ bandwidth = 0
  <2>1. running' = FALSE /\ bit' = bit
    BY <1>2 DEF Begin
  <2> QED BY <1>1, <1>2, <2>1 DEF DelayInv, DelayExact
<1>3. CASE ~(bytes = 0 \/ bandwidth = 0) /\ WholeSeconds > maximum \div multiplier
  <2>1. running' = FALSE /\ bit' = bit
    BY <1>3 DEF Begin
  <2> DEFINE w == WholeSeconds  d == maximum \div multiplier
             exact == (bytes * multiplier + bandwidth - 1) \div bandwidth
  <2>2. /\ maximum \in Nat /\ bytes \in Nat /\ bandwidth \in Nat \ {0}
        /\ multiplier \in Nat \ {0} /\ w \in Nat /\ FractionalBytes \in Nat
        /\ bytes * multiplier = (w * multiplier) * bandwidth + multiplier * FractionalBytes
    BY <1>1, <1>3, SplitBytes
  <2>3. d \in Nat /\ d + 1 <= w /\ maximum < (d + 1) * multiplier
    <3>1. d \in Nat /\ maximum = d * multiplier + (maximum % multiplier)
          /\ maximum % multiplier < multiplier /\ maximum % multiplier \in Nat
      BY <2>2, Division
    <3>2. (d + 1) * multiplier = d * multiplier + multiplier /\ d * multiplier \in Nat
      BY <2>2, <3>1, SMT
    <3> QED BY <1>3, <2>2, <3>1, <3>2
  <2> HIDE DEF d
  <2>4. w * multiplier \in Nat /\ maximum < w * multiplier
    <3>1. (d + 1) * multiplier <= w * multiplier /\ (d + 1) * multiplier \in Nat
          /\ w * multiplier \in Nat
      BY <2>2, <2>3, ProductGrows
    <3> QED BY <2>2, <2>3, <3>1
  <2> DEFINE v == w * multiplier  f == multiplier * FractionalBytes
  <2>5. v \in Nat /\ f \in Nat /\ maximum < v /\ bytes * multiplier = v * bandwidth + f
    BY <2>2, <2>4, SMT
  <2> HIDE DEF v, f
  <2>6. exact > maximum
    <3> DEFINE a == bytes * multiplier + bandwidth - 1
    <3>1. v * bandwidth \in Nat /\ a \in Nat /\ v * bandwidth <= a
      BY <2>2, <2>5, ProductGrows
    <3>2. exact \in Nat /\ a % bandwidth < bandwidth /\ a % bandwidth \in Nat
          /\ a = exact * bandwidth + (a % bandwidth)
      BY <2>2, <3>1, Division
    <3> HIDE DEF a, exact
    <3>3. exact * bandwidth \in Nat /\ (exact + 1) * bandwidth = exact * bandwidth + bandwidth
      BY <2>2, <3>2, SMT
    <3>4. ~(exact + 1 <= v)
      <4>1. exact + 1 <= v => (exact + 1) * bandwidth <= v * bandwidth
        BY <2>2, <2>5, <3>2, ProductGrows
      <4> QED BY <2>2, <3>1, <3>2, <3>3, <4>1
    <3> QED BY <2>2, <2>5, <3>2, <3>4
  <2>7. DelayExact'
    BY <1>1, <1>3, <2>1, <2>6 DEF DelayExact
  <2> QED BY <1>1, <2>1, <2>7 DEF DelayInv
<1>4. CASE ~(bytes = 0 \/ bandwidth = 0) /\ ~(WholeSeconds > maximum \div multiplier)
  <2>1. running' = running /\ bit' = Width - 1
    BY <1>4 DEF Begin
  <2>2. /\ maximum \in Nat /\ bandwidth \in Nat \ {0} /\ multiplier \in Nat \ {0}
        /\ multiplier <= maximum /\ WholeSeconds \in Nat /\ FractionalBytes \in Nat
    BY <1>1, <1>4, SplitBytes
  <2>3. Width \in Nat \ {0} /\ None \notin Int /\ Power[Width] \in Nat \ {0}
        /\ Width - 1 \in -1..Width - 1 /\ (Width - 1) + 1 = Width
    BY WidthAssumption, PowerFacts
  <2>4. multiplier \div Power[Width] = 0
    BY <2>2, <2>3 DEF maximum
  <2>5. 0 * bandwidth + 0 = 0 * FractionalBytes
    BY <2>2
  <2>6. WholeSeconds <= maximum \div multiplier
    <3>1. maximum \div multiplier \in Nat
      BY <2>2, Division
    <3> QED BY <1>4, <2>2, <3>1
  <2>7. Dividing'
    BY <1>1, <1>4, <2>1, <2>2, <2>3, <2>4, <2>5, <2>6
       DEF Dividing, WholeSeconds, FractionalBytes
  <2>8. bit' # None
    BY <2>1, <2>3
  <2> QED BY <1>1, <2>1, <2>7, <2>8 DEF DelayInv, DelayExact
<1> QED BY <1>2, <1>3, <1>4

(* One round of the loop takes one more bit of the multiplier into account,  *)
(* and no word wraps around in it.                                           *)
LEMMA MultiplyBitKeeps ==
  ASSUME DelayInv, MultiplyBit
  PROVE  DelayInv'
<1> DEFINE f == FractionalBytes
           P == multiplier \div Power[bit + 1]
           Q == multiplier \div Power[bit]
           b == Bit(multiplier, bit)
           doubled == Plus(Word(quotient * 2), remainder, remainder)
           next == IF b = 0 THEN doubled ELSE Plus(doubled[1], doubled[2], f)
<1>1. /\ bytes \in Words /\ bandwidth \in Words /\ multiplier \in Multipliers
      /\ running = TRUE /\ result = None /\ Dividing
      /\ quotient' = next[1] /\ remainder' = next[2] /\ bit' = bit - 1
      /\ UNCHANGED <<bytes, bandwidth, multiplier, running, result>>
      /\ bit >= 0
  BY DEF DelayInv, MultiplyBit
<1>2. /\ maximum \in Nat /\ bandwidth \in Nat \ {0} /\ bandwidth <= maximum
      /\ multiplier \in Nat \ {0} /\ multiplier <= maximum
      /\ f \in Nat /\ f < bandwidth
  BY <1>1, SplitBytes DEF Dividing
<1>3. bit \in 0..Width - 1 /\ Width \in Nat
  BY <1>1, WidthAssumption DEF Dividing
<1>4. P \in Nat /\ Q \in Nat /\ b \in {0, 1} /\ Q = 2 * P + b /\ Q <= maximum
  BY <1>2, <1>3, PrefixStep
<1>5. /\ quotient \in Nat /\ remainder \in Nat /\ remainder < bandwidth
      /\ quotient * bandwidth + remainder = P * f
  BY <1>1 DEF Dividing
<1> HIDE DEF f, P, Q, b
<1> DEFINE product == P * f
<1>6. product \in Nat /\ product <= P * bandwidth /\ P * bandwidth \in Nat
      /\ quotient * bandwidth \in Nat
  BY <1>2, <1>4, <1>5, SMT
<1>7. quotient <= P
  BY <1>2, <1>4, <1>5, <1>6, CancelFactor
<1>8. Word(quotient * 2) = quotient * 2
  BY <1>2, <1>4, <1>5, <1>7, WordExact
<1>9. (quotient * 2) * bandwidth = 2 * (quotient * bandwidth)
      /\ (2 * P) * bandwidth = 2 * (P * bandwidth) /\ quotient * 2 \in Nat /\ 2 * P \in Nat
  BY <1>2, <1>4, <1>5, SMT
<1>10. (quotient * 2) * bandwidth + remainder + remainder = 2 * product
  BY <1>5, <1>6, <1>9
<1>11. PICK q1, r1 \in Nat : /\ doubled = <<q1, r1>> /\ r1 < bandwidth
                             /\ q1 * bandwidth + r1 = 2 * product
  <2>1. 2 * product <= (2 * P) * bandwidth /\ 2 * P <= maximum
    BY <1>2, <1>4, <1>6, <1>9
  <2>2. (quotient * 2) * bandwidth + remainder + remainder <= (2 * P) * bandwidth
    BY <1>10, <2>1
  <2>3. \E q2, r2 \in Nat :
           /\ Plus(quotient * 2, remainder, remainder) = <<q2, r2>>
           /\ r2 < bandwidth
           /\ q2 * bandwidth + r2 = (quotient * 2) * bandwidth + remainder + remainder
    <3>1. Bounded(quotient * 2, remainder, remainder, 2 * P)
      BY <1>2, <1>5, <1>9, <2>1, <2>2 DEF Bounded
    <3> QED BY <3>1, PlusExact
  <2> QED BY <1>8, <1>10, <2>3
<1>12. \E q2, r2 \in Nat : /\ next = <<q2, r2>> /\ r2 < bandwidth
                           /\ q2 * bandwidth + r2 = Q * f
  <2>1. CASE b = 0
    <3>1. Q * f = 2 * product
      BY <1>2, <1>4, <2>1, SMT
    <3> QED BY <1>11, <2>1, <3>1
  <2>2. CASE b = 1
    <3>1. Q * f = 2 * product + f /\ Q * f <= Q * bandwidth
      BY <1>2, <1>4, <2>2, SMT
    <3>2. q1 * bandwidth \in Nat
      BY <1>2, SMT
    <3>3. q1 * bandwidth + r1 + f = Q * f
      BY <1>2, <1>11, <3>1, <3>2
    <3>4. q1 * bandwidth + r1 + f <= Q * bandwidth
      BY <3>1, <3>3
    <3>5. \E q2, r2 \in Nat :
             /\ Plus(q1, r1, f) = <<q2, r2>>
             /\ r2 < bandwidth
             /\ q2 * bandwidth + r2 = q1 * bandwidth + r1 + f
      <4>1. Bounded(q1, r1, f, Q)
        BY <1>2, <1>4, <1>11, <3>4 DEF Bounded
      <4> QED BY <4>1, PlusExact
    <3>6. next = Plus(q1, r1, f)
      BY <1>11, <2>2
    <3> QED BY <3>3, <3>5, <3>6
  <2> QED BY <1>4, <2>1, <2>2
<1>13. /\ quotient' \in Nat /\ remainder' \in Nat /\ remainder' < bandwidth
       /\ quotient' * bandwidth + remainder' = Q * f
  <2> HIDE DEF next
  <2> QED BY <1>1, <1>12
<1>14. Dividing'
  <2>1. bit' \in -1..Width - 1 /\ bit' + 1 = bit
    BY <1>1, <1>3
  <2> QED BY <1>1, <1>13, <2>1 DEF Dividing, WholeSeconds, FractionalBytes, Q, f
<1>15. bit' # None
  BY <1>1, <1>3, WidthAssumption
<1> QED BY <1>1, <1>14, <1>15 DEF DelayInv, DelayExact

(* The result is the exact quotient rounded up, or refused when it does not  *)
(* fit a word.                                                               *)
LEMMA ReturnKeeps ==
  ASSUME DelayInv, Return
  PROVE  DelayInv'
<1> DEFINE w == WholeSeconds * multiplier
           f == FractionalBytes
           exact == (bytes * multiplier + bandwidth - 1) \div bandwidth
<1>1. /\ bytes \in Words /\ bandwidth \in Words /\ multiplier \in Multipliers
      /\ Dividing /\ running' = FALSE /\ bit = -1
      /\ UNCHANGED <<bytes, bandwidth, multiplier, quotient, remainder, bit>>
  BY WidthAssumption DEF DelayInv, Return
<1>2. /\ maximum \in Nat /\ bandwidth \in Nat \ {0} /\ bandwidth <= maximum
      /\ multiplier \in Nat \ {0} /\ multiplier <= maximum
      /\ WholeSeconds \in Nat /\ f \in Nat
      /\ bytes * multiplier = w * bandwidth + multiplier * f
  BY <1>1, SplitBytes DEF Dividing
<1>3. /\ quotient \in Nat /\ remainder \in Nat /\ remainder < bandwidth
      /\ quotient * bandwidth + remainder = multiplier * f
  <2>1. Power[bit + 1] = 1
    BY <1>1, PowerFacts
  <2>2. multiplier \div 1 = multiplier
    BY <1>2
  <2> QED BY <1>1, <2>1, <2>2 DEF Dividing
<1>4. w \in Nat /\ w <= maximum
  <2> DEFINE d == maximum \div multiplier
  <2>1. d \in Nat /\ maximum = d * multiplier + (maximum % multiplier)
        /\ maximum % multiplier \in Nat /\ WholeSeconds <= d
    BY <1>1, <1>2, Division DEF Dividing
  <2> HIDE DEF d
  <2>2. w <= d * multiplier /\ w \in Nat /\ d * multiplier \in Nat
    BY <1>2, <2>1, ProductGrows
  <2> QED BY <1>2, <2>1, <2>2
<1> HIDE DEF w
<1>5. Word(w) = w /\ Word(maximum - w) = maximum - w
  BY <1>2, <1>4, WordExact
<1> DEFINE s == w + quotient
<1>6. bytes * multiplier = s * bandwidth + remainder /\ s \in Nat
  <2>1. s * bandwidth = w * bandwidth + quotient * bandwidth
        /\ w * bandwidth \in Nat /\ quotient * bandwidth \in Nat
    BY <1>2, <1>3, <1>4, SMT
  <2> QED BY <1>2, <1>3, <1>4, <2>1
<1> HIDE DEF s
<1>7. exact = IF remainder = 0 THEN s ELSE s + 1
  <2>0. s * bandwidth \in Nat /\ (s + 1) * bandwidth = s * bandwidth + bandwidth
    BY <1>2, <1>6, SMT
  <2>1. CASE remainder = 0
    <3>1. bytes * multiplier + bandwidth - 1 = s * bandwidth + (bandwidth - 1)
      BY <1>2, <1>6, <2>0, <2>1
    <3>2. (s * bandwidth + (bandwidth - 1)) \div bandwidth = s
      BY <1>2, <1>6, DivisionUnique
    <3> QED BY <2>1, <3>1, <3>2
  <2>2. CASE remainder # 0
    <3>1. bytes * multiplier + bandwidth - 1 = (s + 1) * bandwidth + (remainder - 1)
      BY <1>2, <1>3, <1>6, <2>0
    <3>2. ((s + 1) * bandwidth + (remainder - 1)) \div bandwidth = s + 1
      <4> DEFINE q == s + 1  r == remainder - 1
      <4>1. q \in Nat /\ r \in Nat /\ r < bandwidth
        BY <1>2, <1>3, <1>6, <2>2
      <4> HIDE DEF q, r
      <4>2. (q * bandwidth + r) \div bandwidth = q
        BY <1>2, <4>1, DivisionUnique
      <4> QED BY <4>2 DEF q, r
    <3> QED BY <2>2, <3>1, <3>2
  <2> QED BY <2>1, <2>2
<1> HIDE DEF exact
<1>8. result' = IF quotient > maximum - w THEN None
                ELSE IF remainder = 0 THEN Word(s)
                ELSE IF Word(s) = maximum THEN None ELSE Word(Word(s) + 1)
  BY <1>5 DEF Return, w, s
<1>9. result' = IF exact > maximum THEN None ELSE exact
  <2>1. CASE quotient > maximum - w
    <3>1. exact > maximum
      BY <1>2, <1>3, <1>4, <1>7, <2>1 DEF s
    <3> QED BY <1>8, <2>1, <3>1
  <2>2. CASE ~(quotient > maximum - w)
    <3>1. s <= maximum
      BY <1>2, <1>3, <1>4, <2>2 DEF s
    <3>2. Word(s) = s
      BY <1>6, <3>1, WordExact
    <3>3. CASE remainder = 0
      <4>1. result' = s
        BY <1>8, <2>2, <3>2, <3>3
      <4> QED BY <1>2, <1>6, <1>7, <3>1, <3>3, <4>1
    <3>4. CASE remainder # 0 /\ s = maximum
      <4>1. result' = None
        BY <1>8, <2>2, <3>2, <3>4
      <4>2. exact > maximum
        BY <1>2, <1>7, <3>4
      <4> QED BY <4>1, <4>2
    <3>5. CASE remainder # 0 /\ s # maximum
      <4>1. Word(s + 1) = s + 1
        BY <1>2, <1>6, <3>1, <3>5, WordExact
      <4>2. result' = s + 1
        BY <1>8, <2>2, <3>2, <3>5, <4>1
      <4>3. ~(s + 1 > maximum)
        BY <1>2, <1>6, <3>1, <3>5
      <4> QED BY <1>7, <3>5, <4>2, <4>3
    <3> QED BY <3>3, <3>4, <3>5
  <2> QED BY <2>1, <2>2
<1>10. DelayExact'
  BY <1>1, <1>9 DEF DelayExact, Dividing, exact
<1>11. Dividing'
  BY <1>1 DEF Dividing, WholeSeconds, FractionalBytes
<1>12. bit' # None
  BY <1>1, WidthAssumption
<1> QED BY <1>1, <1>10, <1>11, <1>12 DEF DelayInv

(* The loop invariant holds throughout.                                      *)
THEOREM DelayInvariant == Spec => []DelayInv
<1>1. Init => DelayInv
  BY DEF Init, DelayInv, DelayExact
<1>2. DelayInv /\ [Next]_vars => DelayInv'
  <2> SUFFICES ASSUME DelayInv, [Next]_vars PROVE DelayInv'
    OBVIOUS
  <2>1. CASE UNCHANGED vars
    BY <2>1 DEF vars, DelayInv, DelayExact, Dividing, WholeSeconds, FractionalBytes
  <2> QED BY <2>1, BeginKeeps, MultiplyBitKeeps, ReturnKeeps DEF Next
<1> QED BY <1>1, <1>2, PTL DEF Spec

(* serialization_delay() returns the exact quotient, rounded up, for every   *)
(* width, byte count, bandwidth and multiplier, and refuses exactly the      *)
(* arguments for which there is none or it does not fit a word.              *)
THEOREM DelayIsExact == Spec => []DelayExact
BY DelayInvariant, PTL DEF DelayInv

=============================================================================
