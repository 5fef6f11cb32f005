------------------------------ MODULE Decimals ------------------------------
(***************************************************************************)
(* The non-negative numbers of rust_decimal's Decimal and its arithmetic.  *)
(* A number is the count of its units, the last digit that a Decimal may   *)
(* have (10^-28).  Every operation returns the representable number        *)
(* nearest to the exact result: a large number has its last digit further  *)
(* to the left.  That a result may be too large is not decided here.       *)
(***************************************************************************)
EXTENDS Naturals

CONSTANTS
    Unit,               \* the number one: 10^28 units
    Limit,              \* a number has less than Limit last digits: 10^28
    Steps               \* what the last digit may be worth: 1, 10, .., 10^28

ASSUME DecimalsAssumption ==
    /\ Unit \in Nat \ {0}
    /\ Limit \in Nat \ {0}
    /\ Steps \subseteq Nat \ {0}
    /\ \E s \in Steps : \A t \in Steps : t <= s
    /\ \A s, t \in Steps : s < t => t % s = 0 /\ (Limit * s) % t = 0

\* n / d, rounded half to even
Nearest(n, d) ==
    LET q == n \div d
        r == n % d
    IN  IF 2 * r < d \/ (2 * r = d /\ q % 2 = 0) THEN q ELSE q + 1

\* What the last digit of n / d is worth: as little as the number of digits
\* allows.
IsLastDigit(s, n, d) ==
    /\ \A r \in Steps : r < s => Limit * r * d <= n
    /\ n < Limit * s * d \/ \A r \in Steps : r <= s

LastDigit(n, d) == CHOOSE s \in Steps : IsLastDigit(s, n, d)

\* The number nearest to q[1] / q[2]
NearestNumber[q \in Nat \X (Nat \ {0})] ==
    LET s == LastDigit(q[1], q[2])
    IN  s * Nearest(q[1], s * q[2])

Rounded(n, d) == NearestNumber[<<n, d>>]

Plus(p, q)      == Rounded(p + q, 1)
Times(p, q)     == Rounded(p * q, Unit)
DividedBy(p, q) == Rounded(p * Unit, q)         \* q # 0

\* (p + q) / 2
Midpoint(p, q) == Rounded(Plus(p, q), 2)

\* Mutant: p - q without max(0)
Difference(p, q) == p - q

\* Mutant: |p - q|
Distance(p, q) == IF p <= q THEN Rounded(q - p, 1) ELSE Rounded(p - q, 1)

\* (p - q).max(0)
Excess(p, q) == IF p <= q THEN 0 ELSE Rounded(p - q, 1)
=============================================================================
