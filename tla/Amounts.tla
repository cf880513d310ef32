-------------------------------- MODULE Amounts --------------------------------
(***************************************************************************)
(* What becomes of an amount that passes through a JavaScript number:      *)
(* `-debit.amount` in src/src/lib/holds.js and Number(...).toString() in   *)
(* src/src/models/db/adjustments.js.  Only whole amounts are considered:   *)
(* as doubles they are exact up to 2^53, a number of 16 digits, while the  *)
(* ledger accepts 19.                                                      *)
(***************************************************************************)
EXTENDS Naturals

CONSTANT Exact     \* 2^53 in IEEE 754 double precision

(* The distance of the doubles around n: it doubles with each power of two.  *)
Spacing(n) ==
    IF n < Exact THEN 1
    ELSE 2^(CHOOSE k \in 1..30 : 2^(k - 1) * Exact <= n /\ n < 2^k * Exact)

(* Number(string): to the nearest, and to the even of two.                   *)
ToDouble(n) ==
    LET gap == Spacing(n)
        below == n \div gap
        up == 2 * (n % gap) > gap \/ (2 * (n % gap) = gap /\ below % 2 = 1)
    IN  gap * (below + IF up THEN 1 ELSE 0)

(* Trailing zeros cost no digit.                                             *)
Zeros(n) == CHOOSE z \in 0..9 : n % 10^z = 0 /\ n % 10^(z + 1) # 0

Distance(m, n) == IF m < n THEN n - m ELSE m - n

(* toString(): of the decimals that read as the same double one with the     *)
(* most trailing zeros, and of those the closest.                            *)
ShortestDecimal(double) ==
    LET same == {m \in (double - Spacing(double))..(double + Spacing(double)) :
                    m > 0 /\ ToDouble(m) = double}
    IN  CHOOSE m \in same : \A k \in same :
            \/ Zeros(m) > Zeros(k)
            \/ Zeros(m) = Zeros(k) /\ Distance(m, double) <= Distance(k, double)

ThroughNumber(n) == ShortestDecimal(ToDouble(n))

(* validatePrecisionAmounts: the significant digits of an amount.            *)
Digits(n) == (CHOOSE d \in 1..10 : 10^(d - 1) <= n /\ n < 10^d) - Zeros(n)
=============================================================================
