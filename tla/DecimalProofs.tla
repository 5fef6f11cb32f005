--------------------------- MODULE DecimalProofs ---------------------------
(***************************************************************************)
(* Lemmas about Decimals: rounding to the nearest representable number     *)
(* keeps the order of the exact results and changes no number that is      *)
(* representable, and what follows for the operations.                     *)
(***************************************************************************)
EXTENDS Decimals, WellFoundedInduction, TLAPS

-----------------------------------------------------------------------------
(* Products of numbers                                                     *)

LEMMA ProductType ==
    ASSUME NEW m \in Nat, NEW n \in Nat
    PROVE  /\ m * n \in Nat
           /\ m # 0 /\ n # 0 => m * n # 0
  OBVIOUS

LEMMA ProductMonotone ==
    ASSUME NEW k \in Nat, NEW m \in Nat, NEW n \in Nat, m <= n
    PROVE  k * m <= k * n
  OBVIOUS

LEMMA ProductStrict ==
    ASSUME NEW k \in Nat \ {0}, NEW m \in Nat, NEW n \in Nat, m < n
    PROVE  k * m < k * n
  OBVIOUS

LEMMA ProductCancel ==
    ASSUME NEW k \in Nat \ {0}, NEW m \in Nat, NEW n \in Nat, k * m <= k * n
    PROVE  m <= n
<1> SUFFICES ASSUME n < m PROVE FALSE
  OBVIOUS
<1>1. k * n < k * m
  BY ProductStrict
<1>2. k * m \in Nat /\ k * n \in Nat
  BY ProductType
<1>3. QED BY <1>1, <1>2

LEMMA Division ==
    ASSUME NEW n \in Nat, NEW d \in Nat \ {0}
    PROVE  /\ n \div d \in Nat
           /\ n % d \in Nat
           /\ n % d < d
           /\ n = d * (n \div d) + (n % d)
  OBVIOUS

-----------------------------------------------------------------------------
(* Nearest                                                                 *)

LEMMA NearestType ==
    ASSUME NEW n \in Nat, NEW d \in Nat \ {0}
    PROVE  Nearest(n, d) \in Nat
  BY Division DEF Nearest

LEMMA NearestExact ==
    ASSUME NEW k \in Nat, NEW d \in Nat \ {0}
    PROVE  Nearest(k * d, d) = k
<1>1. (k * d) \div d = k /\ (k * d) % d = 0
  OBVIOUS
<1>2. QED BY <1>1 DEF Nearest

\* The nearest number to a larger quotient is not smaller.
LEMMA NearestMonotone ==
    ASSUME NEW n \in Nat, NEW d \in Nat \ {0}, NEW m \in Nat, NEW e \in Nat \ {0},
           n * e <= m * d
    PROVE  Nearest(n, d) <= Nearest(m, e)
<1> DEFINE q1 == n \div d   r1 == n % d
           q2 == m \div e   r2 == m % e
<1>1. /\ q1 \in Nat /\ r1 \in Nat /\ r1 < d /\ n = d * q1 + r1
      /\ q2 \in Nat /\ r2 \in Nat /\ r2 < e /\ m = e * q2 + r2
  BY Division
<1>2. q1 <= q2
  <2> SUFFICES ASSUME q2 + 1 <= q1 PROVE FALSE
    BY <1>1
  <2>1. (d * e) * (q2 + 1) <= (d * e) * q1
    BY <1>1, ProductMonotone, ProductType
  <2>2. n * e = (d * e) * q1 + e * r1 /\ m * d = (d * e) * q2 + d * r2
    BY <1>1
  <2>3. d * r2 < d * e
    BY <1>1, ProductStrict
  <2>4. (d * e) * (q2 + 1) = (d * e) * q2 + d * e
    BY <1>1
  <2> HIDE DEF q1, q2, r1, r2
  <2>5. e * r1 \in Nat /\ d * r2 \in Nat /\ d * e \in Nat
        /\ (d * e) * q1 \in Nat /\ (d * e) * q2 \in Nat
    BY <1>1, ProductType
  <2>6. QED BY <2>1, <2>2, <2>3, <2>4, <2>5
<1>3. CASE q1 < q2
  BY <1>1, <1>3 DEF Nearest
<1>4. CASE q1 = q2
  <2> SUFFICES ASSUME ~(2 * r1 < d \/ (2 * r1 = d /\ q1 % 2 = 0))
               PROVE  ~(2 * r2 < e \/ (2 * r2 = e /\ q2 % 2 = 0))
    BY <1>1, <1>4 DEF Nearest
  <2>1. e * r1 <= d * r2
    <3> HIDE DEF q1, q2, r1, r2
    <3>1. n * e = (d * e) * q1 + e * r1 /\ m * d = (d * e) * q2 + d * r2
      BY <1>1
    <3>2. e * r1 \in Nat /\ d * r2 \in Nat /\ (d * e) * q1 \in Nat
      BY <1>1, ProductType
    <3>3. QED BY <3>1, <3>2, <1>4
  <2> HIDE DEF q1, q2, r1, r2
  <2>2. CASE 2 * r1 > d
    <3>1. e * d < e * (2 * r1)
      BY <1>1, <2>2, ProductStrict
    <3>2. e * (2 * r1) = 2 * (e * r1) /\ d * (2 * r2) = 2 * (d * r2) /\ e * d = d * e
      BY <1>1
    <3>3. d * e < d * (2 * r2)
      BY <3>1, <3>2, <2>1, <1>1, ProductType
    <3>4. e < 2 * r2
      <4> SUFFICES ASSUME 2 * r2 <= e PROVE FALSE
        BY <1>1
      <4>1. d * (2 * r2) <= d * e
        BY <1>1, ProductMonotone
      <4>2. QED BY <4>1, <3>3, <1>1, ProductType
    <3>5. QED BY <3>4, <1>1
  <2>3. CASE 2 * r1 = d /\ q1 % 2 # 0
    <3>1. e * (2 * r1) = 2 * (e * r1) /\ d * (2 * r2) = 2 * (d * r2)
      BY <1>1
    <3>2. d * e <= d * (2 * r2)
      BY <3>1, <2>1, <2>3, <1>1, ProductType
    <3>3. e <= 2 * r2
      BY <3>2, <1>1, ProductCancel
    <3>4. QED BY <3>3, <2>3, <1>4, <1>1
  <2>4. QED BY <2>2, <2>3, <1>1
<1>5. QED BY <1>1, <1>2, <1>3, <1>4
-----------------------------------------------------------------------------
(* Rounded                                                                 *)

\* A set of numbers that is not empty has a smallest one.
LEMMA SmallestNumber ==
    ASSUME NEW S \in SUBSET Nat, S # {}
    PROVE  \E m \in S : \A k \in S : m <= k
<1>1. PICK m \in S : \A k \in S : ~(<<k, m>> \in OpToRel(<, Nat))
  BY NatLessThanWellFounded, WFMin
<1>2. \A k \in S : ~(k < m)
  BY <1>1 DEF OpToRel
<1>3. \A k \in S : k \in Nat /\ m \in Nat
  OBVIOUS
<1>4. QED BY <1>2, <1>3

LEMMA LastDigitExists ==
    ASSUME NEW n \in Nat, NEW d \in Nat \ {0}
    PROVE  LastDigit(n, d) \in Steps /\ IsLastDigit(LastDigit(n, d), n, d)
<1> DEFINE Coarsest(s) == \A r \in Steps : r <= s
           Wide == {s \in Steps : n < Limit * s * d \/ Coarsest(s)}
<1>1. Wide \subseteq Nat /\ Wide # {}
  BY DecimalsAssumption
<1>2. PICK s \in Wide : \A t \in Wide : s <= t
  BY <1>1, SmallestNumber
<1>3. ASSUME NEW r \in Steps, r < s
      PROVE  Limit * r * d <= n
  <2>1. r \notin Wide
    BY <1>1, <1>2, <1>3
  <2>2. ~(n < Limit * r * d)
    BY <2>1
  <2>3. Limit * r * d \in Nat
    BY DecimalsAssumption, ProductType
  <2>4. QED BY <2>2, <2>3
<1>4. s \in Steps /\ IsLastDigit(s, n, d)
  BY <1>2, <1>3 DEF IsLastDigit
<1>5. QED BY <1>4 DEF LastDigit

LEMMA RoundedIs ==
    ASSUME NEW n \in Nat, NEW d \in Nat \ {0}
    PROVE  Rounded(n, d) = LastDigit(n, d) * Nearest(n, LastDigit(n, d) * d)
<1>1. <<n, d>> \in Nat \X (Nat \ {0})
  OBVIOUS
<1>2. QED BY <1>1 DEF Rounded, NearestNumber

LEMMA RoundedType ==
    ASSUME NEW n \in Nat, NEW d \in Nat \ {0}
    PROVE  Rounded(n, d) \in Nat
<1> DEFINE s == LastDigit(n, d)
<1>1. s \in Nat \ {0}
  BY LastDigitExists, DecimalsAssumption
<1> HIDE DEF s
<1>2. s * d \in Nat \ {0}
  BY <1>1, ProductType
<1>3. Nearest(n, s * d) \in Nat
  BY <1>2, NearestType
<1>4. QED BY <1>1, <1>3, ProductType, RoundedIs DEF s

\* A larger quotient is not rounded to a smaller number.
LEMMA RoundedMonotone ==
    ASSUME NEW n \in Nat, NEW d \in Nat \ {0}, NEW m \in Nat, NEW e \in Nat \ {0},
           n * e <= m * d
    PROVE  Rounded(n, d) <= Rounded(m, e)
<1> DEFINE s == LastDigit(n, d)
           t == LastDigit(m, e)
<1>1. /\ s \in Steps /\ IsLastDigit(s, n, d)
      /\ t \in Steps /\ IsLastDigit(t, m, e)
  BY LastDigitExists
<1>2. /\ Rounded(n, d) = s * Nearest(n, s * d)
      /\ Rounded(m, e) = t * Nearest(m, t * e)
  BY RoundedIs
<1> HIDE DEF s, t
<1>3. s \in Nat \ {0} /\ t \in Nat \ {0} /\ Limit \in Nat \ {0}
  BY <1>1, DecimalsAssumption
<1>4. s * d \in Nat \ {0} /\ t * e \in Nat \ {0}
  BY <1>3, ProductType
<1>5. Nearest(n, s * d) \in Nat /\ Nearest(m, t * e) \in Nat
  BY <1>4, NearestType
<1>6. CASE s = t
  <2>1. s * (n * e) <= s * (m * d)
    BY <1>3, ProductMonotone, ProductType
  <2>2. n * (s * e) = s * (n * e) /\ m * (s * d) = s * (m * d)
    BY <1>3
  <2>3. Nearest(n, s * d) <= Nearest(m, s * e)
    BY <1>4, <1>6, <2>1, <2>2, NearestMonotone
  <2>4. QED BY <1>2, <1>3, <1>5, <1>6, <2>3, ProductMonotone
<1>7. CASE s < t
  <2>1. Limit * s * e <= m
    BY <1>1, <1>7 DEF IsLastDigit
  <2>2. ~ \A r \in Steps : r <= s
    BY <1>1, <1>3, <1>7
  <2>3. n < Limit * s * d
    BY <1>1, <2>2 DEF IsLastDigit
  <2> DEFINE k == (Limit * s) \div t
  <2>4. (Limit * s) % t = 0
    BY <1>1, <1>7, DecimalsAssumption
  <2>5. k \in Nat /\ Limit * s = t * k
    BY <2>4, <1>3, ProductType, Division
  <2> HIDE DEF k
  <2>6. s * Nearest(n, s * d) <= Limit * s
    <3>1. n * 1 <= Limit * (s * d)
      BY <2>3, <1>3, <1>4, ProductType
    <3>2. n * (s * d) <= (Limit * (s * d)) * (s * d)
      BY <3>1, <1>4, <1>3, ProductMonotone, ProductType
    <3>3. Nearest(n, s * d) <= Nearest(Limit * (s * d), s * d)
      BY <3>2, <1>4, <1>3, ProductType, NearestMonotone
    <3>4. Nearest(n, s * d) <= Limit
      BY <3>3, <1>4, <1>3, NearestExact
    <3>5. s * Nearest(n, s * d) <= s * Limit
      BY <3>4, <1>3, <1>5, ProductMonotone
    <3>6. QED BY <3>5, <1>3
  <2>7. Limit * s <= t * Nearest(m, t * e)
    <3>1. k * (t * e) = Limit * s * e
      BY <2>5, <1>3
    <3>2. k * (t * e) <= m
      BY <3>1, <2>1
    <3>3. (k * (t * e)) * (t * e) <= m * (t * e)
      BY <3>2, <1>4, <2>5, ProductMonotone, ProductType
    <3>4. Nearest(k * (t * e), t * e) <= Nearest(m, t * e)
      BY <3>3, <1>4, <2>5, ProductType, NearestMonotone
    <3>5. k <= Nearest(m, t * e)
      BY <3>4, <1>4, <2>5, NearestExact
    <3>6. t * k <= t * Nearest(m, t * e)
      BY <3>5, <1>3, <1>5, <2>5, ProductMonotone
    <3>7. QED BY <3>6, <2>5
  <2>8. QED BY <2>6, <2>7, <1>2, <1>3, <1>5, ProductType
<1>8. CASE t < s
  <2>1. Limit * t * d <= n
    BY <1>1, <1>8 DEF IsLastDigit
  <2>2. ~ \A r \in Steps : r <= t
    BY <1>1, <1>3, <1>8
  <2>3. m < Limit * t * e
    BY <1>1, <2>2 DEF IsLastDigit
  <2>4. e * (Limit * t * d) <= e * n
    BY <2>1, <1>3, ProductMonotone, ProductType
  <2>5. d * m < d * (Limit * t * e)
    BY <2>3, <1>3, ProductStrict, ProductType
  <2>6. /\ e * (Limit * t * d) = d * (Limit * t * e)
        /\ e * n = n * e /\ d * m = m * d
    BY <1>3
  <2>7. n * e \in Nat /\ m * d \in Nat /\ d * (Limit * t * e) \in Nat
    BY <1>3, ProductType
  <2>8. QED BY <2>4, <2>5, <2>6, <2>7
<1>9. QED BY <1>3, <1>6, <1>7, <1>8

\* A result needs no further rounding.
LEMMA RoundedFixed ==
    ASSUME NEW n \in Nat, NEW d \in Nat \ {0}
    PROVE  Rounded(Rounded(n, d), 1) = Rounded(n, d)
<1> DEFINE x == Rounded(n, d)
           s == LastDigit(n, d)
           u == LastDigit(x, 1)
<1>1. x \in Nat
  BY RoundedType
<1>2. /\ s \in Steps /\ IsLastDigit(s, n, d)
      /\ u \in Steps /\ IsLastDigit(u, x, 1)
  BY <1>1, LastDigitExists
<1>3. x = s * Nearest(n, s * d) /\ Rounded(x, 1) = u * Nearest(x, u * 1)
  BY <1>1, RoundedIs
<1> HIDE DEF x, s, u
<1>4. s \in Nat \ {0} /\ u \in Nat \ {0} /\ Limit \in Nat \ {0}
  BY <1>2, DecimalsAssumption
<1>5. s * d \in Nat \ {0} /\ u * 1 = u
  BY <1>4, ProductType
<1>6. Nearest(n, s * d) \in Nat
  BY <1>5, NearestType
<1>7. SUFFICES \E k \in Nat : x = k * u
  <2>1. PICK k \in Nat : x = k * u
    BY <1>7
  <2>2. Nearest(x, u) = k
    BY <2>1, <1>4, NearestExact
  <2>3. Rounded(x, 1) = u * k
    BY <2>2, <1>3, <1>5
  <2>4. QED BY <2>1, <2>3, <1>4 DEF x
<1>8. CASE u = s
  BY <1>3, <1>6, <1>8, <1>4
<1>9. CASE u < s
  <2>1. s % u = 0
    BY <1>2, <1>9, DecimalsAssumption
  <2>2. s \div u \in Nat /\ s = u * (s \div u)
    BY <2>1, <1>4, Division
  <2> DEFINE k == s \div u
             j == Nearest(n, s * d)
  <2>3. k \in Nat /\ s = u * k /\ j \in Nat /\ x = s * j
    BY <2>2, <1>3, <1>6
  <2> HIDE DEF k, j
  <2>4. x = (k * j) * u /\ k * j \in Nat
    BY <2>3, <1>4, ProductType
  <2>5. QED BY <2>4
<1>10. CASE s < u
  <2>1. Limit * s * 1 <= x
    BY <1>2, <1>10 DEF IsLastDigit
  <2>2. ~ \A r \in Steps : r <= s
    BY <1>2, <1>4, <1>10
  <2>3. n < Limit * s * d
    BY <1>2, <2>2 DEF IsLastDigit
  <2>4. x <= Limit * s
    <3>1. n * 1 <= Limit * (s * d)
      BY <2>3, <1>4, <1>5, ProductType
    <3>2. n * (s * d) <= (Limit * (s * d)) * (s * d)
      BY <3>1, <1>4, <1>5, ProductMonotone, ProductType
    <3>3. Nearest(n, s * d) <= Nearest(Limit * (s * d), s * d)
      BY <3>2, <1>4, <1>5, ProductType, NearestMonotone
    <3>4. Nearest(n, s * d) <= Limit
      BY <3>3, <1>4, <1>5, NearestExact
    <3>5. s * Nearest(n, s * d) <= s * Limit
      BY <3>4, <1>4, <1>6, ProductMonotone
    <3>6. QED BY <3>5, <1>4, <1>3
  <2>5. x = Limit * s
    BY <2>1, <2>4, <1>1, <1>4, ProductType
  <2>6. (Limit * s) % u = 0
    BY <1>2, <1>10, DecimalsAssumption
  <2>7. (Limit * s) \div u \in Nat /\ Limit * s = u * ((Limit * s) \div u)
    BY <2>6, <1>4, ProductType, Division
  <2> DEFINE k == (Limit * s) \div u
  <2>8. k \in Nat /\ x = u * k
    BY <2>5, <2>7
  <2> HIDE DEF k
  <2>9. x = k * u
    BY <2>8, <1>4
  <2>10. QED BY <2>8, <2>9
<1>11. QED BY <1>4, <1>8, <1>9, <1>10

-----------------------------------------------------------------------------
(* The operations                                                          *)

LEMMA OperationTypes ==
    ASSUME NEW p \in Nat, NEW q \in Nat
    PROVE  /\ Plus(p, q) \in Nat
           /\ Times(p, q) \in Nat
           /\ q # 0 => DividedBy(p, q) \in Nat
           /\ Midpoint(p, q) \in Nat
           /\ Excess(p, q) \in Nat
<1> USE DecimalsAssumption
<1>1. Plus(p, q) \in Nat
  BY RoundedType DEF Plus
<1>2. p * q \in Nat /\ p * Unit \in Nat
  BY ProductType
<1>3. Times(p, q) \in Nat /\ (q # 0 => DividedBy(p, q) \in Nat)
  BY <1>2, RoundedType DEF Times, DividedBy
<1>4. Midpoint(p, q) \in Nat
  BY <1>1, RoundedType DEF Midpoint
<1>5. Excess(p, q) \in Nat
  BY RoundedType DEF Excess
<1>6. QED BY <1>1, <1>3, <1>4, <1>5

\* A surplus is an excess.
LEMMA ExcessPositive ==
    ASSUME NEW p \in Nat, NEW q \in Nat, Excess(p, q) > 0
    PROVE  q < p
  BY DEF Excess

\* Quotients compare as the exact ones do, at least weakly.
LEMMA DividedByMonotone ==
    ASSUME NEW p \in Nat, NEW c \in Nat \ {0}, NEW q \in Nat, NEW d \in Nat \ {0},
           p * d <= q * c
    PROVE  DividedBy(p, c) <= DividedBy(q, d)
<1>1. Unit \in Nat \ {0}
  BY DecimalsAssumption
<1>2. Unit * (p * d) <= Unit * (q * c)
  BY <1>1, ProductMonotone, ProductType
<1>3. (p * Unit) * d = Unit * (p * d) /\ (q * Unit) * c = Unit * (q * c)
  BY <1>1
<1>4. QED BY <1>1, <1>2, <1>3, ProductType, RoundedMonotone DEF DividedBy

\* Dividing by more does not give more.
LEMMA DividedByAntitone ==
    ASSUME NEW p \in Nat, NEW c \in Nat \ {0}, NEW d \in Nat, c <= d
    PROVE  DividedBy(p, d) <= DividedBy(p, c)
  BY ProductMonotone, DividedByMonotone

LEMMA MidpointMonotone ==
    ASSUME NEW p \in Nat, NEW q \in Nat, NEW r \in Nat, NEW s \in Nat,
           p <= r, q <= s
    PROVE  Midpoint(p, q) <= Midpoint(r, s)
<1>1. Plus(p, q) \in Nat /\ Plus(r, s) \in Nat
  BY OperationTypes
<1>2. Plus(p, q) <= Plus(r, s)
  BY RoundedMonotone DEF Plus
<1>3. Plus(p, q) * 2 <= Plus(r, s) * 2 /\ 2 \in Nat \ {0}
  BY <1>1, <1>2
<1>4. QED BY <1>1, <1>3, RoundedMonotone DEF Midpoint

\* A quotient is a representable number.
LEMMA QuotientFixed ==
    ASSUME NEW p \in Nat, NEW q \in Nat \ {0}
    PROVE  Rounded(DividedBy(p, q), 1) = DividedBy(p, q)
  BY DecimalsAssumption, ProductType, RoundedFixed DEF DividedBy

\* A quotient of an exact product that is less than the representable number x
\* is so because the exact quotient is less than x, and the other way round.
LEMMA ExactProductQuotient ==
    ASSUME NEW p \in Nat, NEW q \in Nat, NEW c \in Nat \ {0}, NEW x \in Nat,
           Times(p, q) * Unit = p * q,
           Rounded(x, 1) = x
    PROVE  /\ DividedBy(Times(p, q), c) < x => p * q < x * c
           /\ x < DividedBy(Times(p, q), c) => x * c < p * q
<1>1. DividedBy(Times(p, q), c) = Rounded(p * q, c)
  BY DEF DividedBy
<1>2. p * q \in Nat /\ x * c \in Nat /\ Rounded(p * q, c) \in Nat
  BY ProductType, RoundedType
<1>3. ASSUME x * c <= p * q
      PROVE  x <= Rounded(p * q, c)
  BY <1>2, <1>3, RoundedMonotone
<1>4. ASSUME p * q <= x * c
      PROVE  Rounded(p * q, c) <= x
  BY <1>2, <1>4, RoundedMonotone
<1>5. QED BY <1>1, <1>2, <1>3, <1>4
=============================================================================
